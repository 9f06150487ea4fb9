# Formal models of trace, chat and rcopy

The repository holds three C programs of a networking course: `trace`
(Program_1) prints the headers of a capture file, the chat programs (Program_2)
connect many clients through one TCP server, and `rcopy` (Program_3) copies a
file to a server over UDP with a sliding window. This directory holds TLA+
models of all three, the TLC configurations that check them on small instances,
and TLAPS proofs for all instances.

## 1. Inventory

| Component | State | Operations | Interacts with |
|---|---|---|---|
| rcopy window (`windowing.c`) | `lower`, `current`, `upper`, `ptr[]`, `occupied[]` | `windowreset`, `insertIntoWindow`, `loadFromWindow`, `moveWindow` | called by rcopy client and server |
| rcopy client, data phase (`udpClient.c`) | `retvalue`, `new_sn`, `previous_sn`, `retryCount`, file offset, window | `sendFileBuffer`, `HandleServerResponse`, `GetDataAcknowlegement`, `exit_client` | forked server, by UDP packets |
| rcopy forked server, data phase (`udpServer.c`) | `retvalue`, `retryCount`, window, written file | `recv_file_data`, `wait_client_packets`, `client_termination_wait`, `exitForkedServer` | client, by UDP packets |
| rcopy filename exchange (`udpClient.c` main, `udpServer.c` main, `recv_filename`) | tries left, address `fserver`, the forked processes, the open files | send name, fork, bind, open and truncate, OK / NAK | many clients, one main process, its children |
| error library (external) | random numbers | `sendtoErr`: drop, flip bits | every packet of rcopy |
| pollLib (both programs) | array of `pollfd`, its size, `maxFileDescriptor` | `setupPollSet`, `addToPollSet`, `removeFromPollSet`, `growPollSet`, `pollCall` | every event loop |
| chat handle table (`helper.c`) | 100 entries: `isUsed`, `handle`, `handlelength`, `socketNumber` | `addHandle`, `getSocketNumber`, release in `recvFromClient` | chat server |
| chat server (`server.c`, `helper.c`) | `num_clients`, poll set, handle table | accept, `recvFromClient`, `checkFlag` | its clients, by TCP |
| chat client (`cclient.c`) | socket, handle, poll set, stdio's buffer | `readFromStdin`, `sendToServer` (%b %m %c %l %e), `processMsgFromServer` | server, by TCP; a user |
| chat framing (`send_recv_pdu.c`) | the sockets' buffers | `sendPDU`, `recvPDU` | TCP |
| rcopy packets (`sendrecvpdu.c`) | the packet under way | `sendBuf`, `recv_buf` | rcopy client and server, error library |
| `in_cksum` | - | one's complement sum | trace, rcopy packets |
| trace | packet number, a buffer all packets share | `packetHandler`, the `Print...Header` functions, `calculate_tcp_checksum` | a capture file |
| set-up (`networks.c`, `gethostbyname.c`, `safeUtil.c`) | - | sockets, names, exits on errors | all |

What is hard in them:

* rcopy: two processes with different timeouts and counters, packets that are
  dropped, damaged, and (in UDP at large) repeated, late and reordered; slots of
  a circular buffer that are resent without asking what they hold; end packets
  that are sent once; memory from `malloc` that is never cleared.
* the filename exchange: an address that every received packet overwrites,
  a server that forks for every packet, ports drawn from the clock, an OK that is
  sent once, ten tries that end the same way whether they succeeded or not.
* chat: one thread that must never die or block, a poll function that prefers
  the lowest descriptor, a byte stream read as if it had message borders, three
  records of the same clients, table entries that outlive their clients, the
  ways a TCP connection ends, sends that block, an input that poll does not see
  or reports for ever.
* the checksums: words of the machine for a definition in network order, odd
  lengths, two zeros, a length taken from the packet.

What makes each correct: the copy is a prefix of the file and success means the
whole file; the transfer survives a bounded number of errors and both processes
end; data goes to the process that opened the file, once, and clients do not
disturb each other except over a port that one of them has given up; the poll set is the set it is meant to be; handles are unique
and found, texts reach only their addressees, everybody hears what they share in
one order, and a missing addressee is reported; whoever wants to leave may leave,
even when the server has died; what does not hold is known and said; a damaged packet is known to be, and trace's verdict on a checksum is the
receiver's. PROJECT.json
lists the hazards line by line with the properties that cover them.

## 2. Modules

| Module | Models |
|---|---|
| `Windowing` | `windowing.c`: the window as a record, its operations as operators |
| `FileCopy` | abstract specification: a copy that grows as a prefix, success only when complete |
| `Transfer` | the data phase: client, forked server, network; uses `Windowing`, implements `FileCopy` |
| `TransferInv` | the inductive invariants `AnyNetInv` and `LanInv` |
| `Session` | the filename exchange of several clients with the main server and its children |
| `PollLib`, `PollSet` | `pollLib.c` as operators, and any program's use of it |
| `HandleTable` | `clientinfo_str` and its operations |
| `ChatRoom` | abstract specification: a room with members and guests, in which a text reaches all members present at once or, when several things are taken together, is lost |
| `Chat` | chat server, clients and connections; uses `HandleTable` and `PollLib`, implements `ChatRoom` |
| `ChatFlow` | the same processes seen by what they wait for: full connections, standard input |
| `Checksum` | `in_cksum` at the widths of the source, and RFC 1071's definition |
| `RcopyPdu` | `sendBuf`, a damaged byte, `recv_buf`; uses `Checksum` |
| `Trace` | `trace.c`: headers and checksum verdicts of a sequence of packets; uses `Checksum` |
| `MCTransfer`, `MCSession`, `MCChat`, `MCRcopyPdu`, `MCTrace` | instances for TLC |
| `TransferProofs`, `SessionProofs`, `PollSetProofs`, `ChatProofs`, `ChecksumProofs`, `RcopyPduProofs`, `TraceProofs` | the theorems about each model |
| `BasicLemmas` | facts about numbers and sequences that several of them use |

### Transfer

Variables carry the names of the C variables: `cret` and `sret` are the
`retvalue` that drives each main loop, and every handler the loop dispatches to
is one action per outcome (`SendWindowFull`, `SendEndOfFile`, `SendChunk`, ...).
A poll with a packet waiting and the handling of that packet are one action; a
poll that expires is a timeout action. A chunk is its number; `Garbage` is memory
nobody wrote. Sequence numbers are naturals (the 32-bit counters would need a
file of 2^32 chunks to wrap).

`Prompt` chooses the network. On a LAN (`TRUE`) the round trip is far below the
one-second poll: a packet arrives once and in order before any timeout, only the
error library loses or damages packets, and polls expire together once a second
(`Tick`), the ten-second poll of `wait_client_packets` after ten of them. On any
network (`FALSE`) the wire is a set from which nothing is removed, so packets may
be lost, late, repeated and reordered, and polls expire at any time.
`HeapZeroed = FALSE` lets the `occupied` flags start with any value.

### Session

A client is a record (`phase`, `tries`, `polling`, `fserver`, `replies`), the
children a sequence in the order of the forks, `opener[f]` the child that
truncated `f` last. An address is a client, the main process, or a port. A child
binds a port in `recv_filename` and gives it up when it exits; clients and packets may
still use the port then, and another child may bind it. All children of one second
draw the same port, from `srand(time(NULL))`: `thisSecond` is that port, whether or
not it is bound at the moment. A port is numbered after the first child that drew it,
for which of the 1000 it is does not matter; that a later second draws a port which
was bound before is an accident and counts as an error. The data phase is
reduced to a data packet and an answer at a time, which is what decides where
data goes; `Transfer` has the rest. Nobody waits for the children, so each keeps
its place in the process table: `MaxChildren` is the size of that table, and a fork
that finds it full returns -1, which `main` takes for the parent and forgets the
packet (`ForkSucceeds`).

### PollSet

The array is indexed by descriptor as in the source; elements that belong to no
socket name descriptor 0, as `memset` leaves them, and `poll(2)` reports hang-ups
for them.

### Chat

A user is one run of `cclient`. Each direction of a connection is a sequence of
PDUs. A handle is a sequence of characters because the lookup compares prefixes,
`memcpy` leaves tails, and `%m` cuts after `sizeof(char *)` bytes (`UniLen`, 8 in
the source, 3 in the instances with correspondingly short handles).
`Coalesce` lets `recvPDU` read PDUs that have arrived together as one, as the source
does; `FALSE` stands for a network on which no two PDUs arrive together. `peer` is
what TCP has told the server's socket (closed, closed and rejecting, reset), and
decides what `recv` and `send` do. `ServerStep` follows the loop: the socket
`pollCall` names, and only that. The server dies when a send or receive fails, when
`accept` finds no descriptor left (it never closes one; `limit`), and when it reads a
flag 9: `checkFlag` is in `helper.c`, which both programs share, and the flag that lets
a client go ends the server too (`ServerExits`). A user makes such a PDU by beginning a
line with a TAB, whose character is sent as the flag (`"tab"`; lines that begin with
other characters, none of them flags, are `"other"`). The PDUs sent
before the failing one are on their way. `link` is what the client's socket then
has met: a client that had something unread at the server, or sends something later,
is reset and ends; one that has not polls the closed socket for ever, printing, which
is a stuttering step of the model.
`helper.c` declares `i` several times in one `switch`, which no compiler accepts;
the model follows the evident meaning (one `i`). PDUs never arrive in pieces,
socket buffers have no limit here (`ChatFlow` has one), and lines are long enough for the length arithmetic
of `sendToServer` (a client that crashes on a short one is `ClientKilled`).

`ChatRoom` says what this amounts to for broadcasts. In the refinement the members
are the registered users, the guests those whose handle was refused and that the
server still polls (it forwards what they say), those present the ones whose connection
is up, a user's inbox what it has printed and what is on its way to it, and the number
of texts spoken what was typed less what the server has not read. `Together` is
`Coalesce`: with it texts of one speaker may be lost before anybody has them, and texts
that follow each other may vanish from one inbox; without it nothing is lost. The room
closes when the server dies, perhaps with a text delivered to some of those present.

### ChatFlow

What a PDU means is left out here; what matters is who waits for whom. A connection
holds `UpSize` PDUs on the way to the server and `DownSize` on the way back, `send`
blocks without room, and each process has one thread: between `readFromStdin` and
`ClientSends`, or while `pending` is not empty, it does nothing else. Standard input
has what the kernel or the file holds (`typed`) and what `getchar` has taken (`stdio`);
poll sees the first only. `read(2)` returns a line from a terminal, everything there is
from a file (`Scripted`) or a pipe (`Piped`). poll reports a file as ready for ever; it
reports a pipe that its writer has `closed` whatever it is asked for, also when
`removeFromPollSet(0)` has left descriptor 0 in the set without events (`StdinReady`), so
that `pollCall` returns 0 again and again. At the end of the input `readFromStdin`, whose
loop ends at a newline or a full buffer, makes a line of EOF characters. `LastIsExit` says
that a file or pipe ends behind a %e. `recvPDU` takes what has arrived and only the first
PDU counts, as in `Chat`; `merged` remembers the clients whose %e, or the answer to
it, went that way. `SendDeadlock` is a server and a client that wait for each other in
`send`.

### Checksum, RcopyPdu and Trace

`Checksum` is `in_cksum` on bytes in little-endian memory: the loop over words, the odd
byte, two folds, the complement. Its reference adds words in network order and each
carry at once. `RcopyPdu` lays out and takes apart packets with it, and lets the
error library invert one byte, which is what its `errorFlipBits` does; `Transfer` and
`Session` build on the result when they model damage as `CRC_ERROR`. `Trace` has
`packetHandler` with a packet's Ethernet type and the bytes behind that header; of what
is printed it keeps what trace converts or chooses: lengths, ports, the names of
protocols and operations (`Unknown` and `Reply` for all the others), the four flags it
prints, the acknowledgement number that is printed if its flag is set, and the two
verdicts. A `tcp_length` beyond the captured bytes makes `memcpy` read other memory:
the verdict is then any.

## 3. What the runs show

Passing runs:

| Run | Instance | Shows |
|---|---|---|
| `transfer_prompt` | window 3, 5 chunks, 12 errors, limits as in the source | the inductive invariant, the prefix property, refinement of `FileCopy`, the client ends, the server leaves the data phase and, when nothing was lost, ends, and up to eight errors never make the copy fail (a ninth can) |
| `transfer_async` | window 2, 3 chunks, any network, any heap | numbers stay below the server's upper edge, acknowledged means written, the end means written |
| `session_lan` | 2 clients, 4 tries, 2 errors | each client gets a child with its file open and sends only to that child, also when a damaged OK uses up its tries; no file is truncated once its client sends; orphans end |
| `session_async` | 2 clients, one refused, any network, ports drawn twice | one child to a port; a client meets another's child only at a port its own child has given up; no refusal, and no file, for the wrong client |
| `poll_set` | descriptors 0, 1, 2, 3, 6, initial size 2 | the array represents the set across growth and removal; `pollCall` returns the lowest ready member |
| `chat_talk` | 2 users, a handle shorter than %m needs, 2 lines each of %m, %c, %e, PDUs read together; nobody is killed or refused | texts reach only their addressees; a client is told of missing ones only about its own texts, never wrongly when the names were sent whole, and surely when the table has never held the handle |
| `chat_room` | 3 users, two with one handle, a line each of %b, %e, kills, PDUs read together | the programs implement `ChatRoom`, refused clients speaking as guests, and clients hear what they share in one order |
| `chat_live` | 2 users, 2 lines each of %b, %l, %e and lines that begin with a TAB, with and without a descriptor for the second; no two PDUs arrive together | broadcasts arrive while the server lives; users who want to leave get away, also when the server dies |
| `chat_churn` | 3 users, room for 2, two with one handle, a line each of %m, %e, kills, PDUs read together, dirty stack, two limits of open files | handles stay unique, the three records agree, the lookup finds every owner, and a client is starved only by lower sockets with something to read or a connection without room |
| `chat_flow` | 2 clients, a terminal and a file that ends in %e, 4 lines each, room for 2 PDUs up and 3 down, PDUs read together | nothing but `SendDeadlock` keeps a PDU from being read; typed lines are sent; the script is sent to its end, and its client exits unless the answer was merged away |
| `rcopy_pdu` | up to 3 bytes of data, numbers and bytes at the edges of their ranges, every byte inverted | an intact packet arrives, a damaged one is refused; `in_cksum` is RFC 1071's sum |
| `trace_verdicts` | every sequence of two out of some 80 packets: TCP, UDP, ICMP, ARP, others; options, padding, odd lengths, both zeros | trace calls correct what a receiver accepts, except a checksum of minus zero, and what it prints tells what the sender put there |

Each property of a passing run has a mutant in PROJECT.json: a plausible bug in
the modelled code that makes TLC report the property.

### Outside these instances

The passing properties hold under conditions, and the constants state them. Each
row changes a configuration, or the property, and names the property TLC then finds
violated, and the line of the source behind it. They tell a maintainer what the program relies
on, and where it differs from what its comments, messages and README say.

| Configuration | Change | Property lost | Why |
|---|---|---|---|
| `transfer_prompt` | `LastShort = FALSE` | `GiveUpMeansUnacked` | a file of full buffers is copied and acknowledged, the client still waits for an RR and exits with 1 (udpClient.c:281; Program_3/README:16 "As file is completed. It acknowlege the server..") |
| `transfer_prompt` | `HeapZeroed = FALSE` | `FileIsPrefix` | `occupied` is never cleared (windowing.c:63), so slots nobody filled are written |
| `transfer_async` | `HeapZeroed`, `LastShort = TRUE`, invariant `FileIsPrefix` | `FileIsPrefix` | a late RR makes the client resend a slot that holds another chunk (udpClient.c:285) |
| `session_lan` | `Unwritable = {c1}` | `SendsOnlyIfServed` | after a damaged NAK the client repeats its name to a child that has exited, runs out of tries and sends a file nobody opened (udpClient.c:116; Program_3/README:14 "if ok. then sends the file to the server") |
| `session_lan` | `MaxErrors = 4` | `SendsOnlyIfServed` | when every try has failed the client sends the file to the main process, which forks for it |
| `session_lan` | `MaxChildren = 3` | `SendsOnlyIfServed` | the table is full of children nobody waited for, fork fails and the name gets no answer (udpServer.c:78) |
| `session_async` | an invariant that a packet to a bound port comes from the client that port's child was forked for | that invariant | a damaged NAK leaves the refused client with a port that is free again and that another client's child, in the same second, binds: its names and data go to the other's child (udpServer.c:151-154, udpClient.c:116) |
| `session_async` | `MaxReplies = 2`, `MaxChildren = 3`, property `OneOpenPerTransfer` | `OneOpenPerTransfer` | a repeated filename packet forks again and truncates the file (udpServer.c:76) |
| `poll_set` | `StdinHangsUp = TRUE` | `ReturnsReadySocket` | unused elements name descriptor 0, whose hang-up poll(2) reports (pollLib.c:33, 59) |
| `chat_live` | `Coalesce = TRUE` | `ExitCompletes`, `BroadcastArrives` | a %e, or a broadcast, that arrives with another PDU is swallowed (send_recv_pdu.c:83) |
| `chat_live` | `MaxClients = 1` | `ExitCompletes` | a connection that finds no room stays the lowest ready socket for ever (server.c:93) |
| `chat_churn` | `StarvedOnlyByLower` without its case of a connection that waits | `StarvedOnlyByLower` | the same: nobody is read while it waits |
| `chat_talk` | `Handle <- PrefixHandles`, no `"%m"` | `ReachesAddressee`, `AbsentIsReported` | the lookup compares as many bytes as the name looked for has (helper.c:367) |
| `chat_talk` | `AbsentIsReported` without `SentWhole` | `AbsentIsReported` | %m takes eight bytes for the handle, `sizeof` of a pointer, and a shorter handle drags its text along (cclient.c:284) |
| `chat_talk` | `AbsentIsReported` with `~ InUse(table, h)` for `Unknown(h)` | `AbsentIsReported` | the lookup ignores `isUsed` and finds those who have left (helper.c:367) |
| `chat_room` | `Together <- FALSE` in `Abstract` | `IsChatRoom` | broadcasts that arrive together are taken for one (send_recv_pdu.c:83) |
| `chat_room` | invariant `ServerSurvives` | `ServerSurvives` | a client that exits with PDUs unread resets its connection and `recvPDU` exits (send_recv_pdu.c:51; safeUtil.c:32 shows what was meant) |
| `chat_room` | invariant `ServerSurvives`, `StackClean = FALSE`, `MayKill = FALSE`, no `"%b"` | `ServerSurvives` | after the end of a connection `recvPDU` reads its uninitialised buffer (send_recv_pdu.c:57) |
| `chat_flow` | an invariant `~ SendDeadlock` | that invariant | the server is in `send` to a client that is in `send` to the server (send_recv_pdu.c:32); the properties of the run exempt it |
| `chat_flow` | `Piped = {4}`, `Scripted = {}` | `EverythingIsRead` | a pipe that its writer has closed hangs up for ever, before and after %e: `pollCall` returns 0 again and the server's answer is never read (pollLib.c:57-61, 90; cclient.c:344) |
| `chat_flow` | `LastIsExit = FALSE` | `EverythingIsRead`, `ScriptCompletes` | at end of file standard input is always ready: the client floods the server and never reads its socket (cclient.c:487); a line behind a %e is not read either |

`ServerTerminates` promises the end of the forked server only when nothing was
lost: without the end packet `client_termination_wait` counts its timeouts and never
compares the count (udpServer.c:314), while Program_3/README:20 says "If it goes to
recv packet for 10 times with a poll wait of 1 second. it will exit child process".

### Bounds

* Transfer: the window wraps at least once (5 chunks in a window of 3, 3 in a
  window of 2), so slots are reused. `MaxErrors` 12 exceeds what either retry
  counter survives, so both give up in some behaviours. The retry limits are the
  source's on the LAN; off the LAN a limit of 1 is enough since polls expire freely.
  `MaxSeq` bounds the numbers a client that has lost track resends.
* Session: on the LAN `MaxChildren` is above what `MaxTries` can cause, off it forks
  fail when it is reached; 4 tries instead of 10 leave room for two errors and a port
  collision. Off the LAN two children and one damaged packet are enough for a port that
  is bound, given up and bound again while a client still uses it.
* Chat: `chat_churn` has two places for three users, so connections wait for one;
  the others have places enough. `chat_live` has as many table entries as users, so
  the last one is used. One or two lines per user are enough for a PDU under way in each
  direction while the table changes, and for two that are read together. `chat_talk` has
  two lines per user, so that one can leave after a text, and no kills and no refused
  handles, which the theorems about its properties do without; one of its handles is as
  long as %m needs and the other a character too short. `chat_room` needs three users, for two to hear the same; `Limits` has one that is
  reached in `chat_live` and `chat_churn`.
* ChatFlow: with 4 lines and room for 2 PDUs up and 3 down both the clients and the server
  block in `send`, and `SendDeadlock` happens (`SendDeadlock` is the exemption in its
  properties, see the table above).
* Checksum: widths are the source's, so the edges are real ones: data of 0 to 3 bytes
  cover both parities and the odd byte alone, and the values of `Balancing` make
  sums that fold to minus zero. Two packets show what the shared buffer keeps.

### Fairness

The liveness runs assume weak fairness of each process's own steps (the
operating system schedules it: `ClientStep`, `ServerStep`) and of `Tick` (a poll
with nothing to read expires). Nothing is assumed of users, of the error library,
of kills, of how much `recv` finds, or of which packet is dropped. In `ChatFlow` a
process in `send` is fair only once there is room: weak fairness of a blocked step asks
nothing. In `Chat` the fairness of the server is
that of its loop, not of a socket: which socket is served is `pollCall`'s choice.
Since every user types a bounded number of lines, no client floods the server; that one
that does, or a connection that waits without room, would keep everybody above it unread
is the comment of pollLib.c:9 and server.c:93, and `StarvedOnlyByLower` claims no more
than that nothing else does.

Deadlock is checked in the Transfer runs on a LAN; the other systems may really
stop (all clients gone, nobody types).

## 4. What is proved

All proofs are checked by TLAPS, for every value of the constants that satisfies
the named `ASSUME`s.

*Any network* (`TransferProofs`). `AnyNetInv` is inductive: both windows keep
their size; the server's starts just behind what it has written; answers under
way never exceed the server's `lower` and data packets stay below its `upper`
(the client's window is never ahead of the server's, and the server's only moves
forward, so what was in the window when sent is still below its upper edge when
it arrives); end packets exist only after the client exited with 0. From it:
`WireBelowUpper`, `AckedIsWritten`, `EndMeansWritten`, `TypeOK`. None of them is
inductive alone: `AckedIsWritten` needs the bound on answers under way, that needs
the relation of `file` to `lower`, and so on around.

*LAN* (`TransferProofs`, assuming `Prompt` and `HeapZeroed`). `LanInv` adds
that between two running processes at most one packet is under way
(`OnePacketInv`), that each occupied slot holds the chunk its number names, and
that a client waiting for acknowledgements has something outstanding or knows it
has finished. From it: `WireCarriesItsChunk`, `FileIsPrefix`,
`GiveUpMeansUnacked` (for a nonempty file whose last chunk is short), and the
refinement `Spec => Copy!Spec`. Its first lemmas are about the slots: numbers closer
than the window size have different slots, and what insertion, loading and moving do
to types.

*Filename exchange* (`SessionProofs`). `Isolation` on any network, for any number of
clients, children, tries and errors, with ports that are bound again after their child has
exited. It does not say that exchanges never mix, for they do (see `session_async` above);
it says over what: a client meets another client's child only at a port that a child of
its own has bound and given up. The conjuncts of `IsolationInv`: a port is bound by one
child at a time (`PortsInv`); a client talks to the main process or to a port that a
child of its own has bound at some time (`AddressInv`, `Knows`); a child works on the name
its client sent, or on a data packet of a client that is past the exchange of names
(`NameInv`); the last opener of a file works on that file (`OpenerInv`); every packet
under way is between a client and main or a port the client knows, and a NAK is for a
client whose file cannot be opened or which is past the exchange (`NetInv`); so a client
that gave up after a NAK was refused for its own file (`RefusedInv`). One assumption:
what a data packet holds where a filename is expected (`Junk`) is no file of a client.

*Filename exchange on a LAN* (`SessionProofs`). `DataReachesItsFile`,
`SendsOnlyIfServed` and `OneOpenPerTransfer` under the hypotheses collected in `Lan`,
which the constants of `session_lan` satisfy:

| Hypothesis | Means |
|---|---|
| `Prompt` | a packet arrives, or is lost, before a poll expires |
| `FilesDiffer`, `AllWritable` | every client copies to a file of its own, which can be opened |
| `TriesSuffice` | `MaxErrors + Cardinality(Clients) <= MaxTries` |
| `RetriesSuffice` | `MaxErrors <= MaxRetry` |
| `ProcessesSuffice` | `MaxTries * Cardinality(Clients) <= MaxChildren` |

`SendsOnlyIfServed` does not say that an OK was read: a damaged OK makes the client use up
all its tries, for `fserver` is then the child, which opens no second time, and the client
falls into the data phase; the theorem says that the child that has its file open is at
`fserver` in this case too. `LanInv` adds to `IsolationInv`, for each client: it knows its child or still has tries
(`PhaseOf`); at most one packet is under way between it and its server, and it waits for
an answer to it (`WayOf`); a child that has not bound its port is all there is of its
client's request (`ForkedOf`); the child it talks to has timed out no more often than
packets were lost (`RetryOf`); and it has at most one child per name it sent
(`ProcessOf`). What ties the clients together is `BudgetInv`: `srand` is seeded with the
second, so children that start within one get the same port and only one can hold it: a
try can fail although nothing was lost. Such a try is paid for by the client whose child
bound: it reads its OK within the second, on the next try it competes no more, and hence
an asking client has spent no more tries than there were errors and clients that have
their child (`TriesInv`, `PortInv`). A poll expires only when all is quiet, and then
`QuietMeansLost` says that each client that still asks has just paid. The number of
processes follows from `ProcessOf` by `PartsBound` in `BasicLemmas` (a finite set that
falls into parts of bounded size). In the instance of the run the hypotheses on tries and
retries are tight: with one try less TLC finds `SendsOnlyIfServed` violated, and with
`MaxRetry = 1` below two errors `DataReachesItsFile`.

*Chat* (`ChatProofs`), for any number of users, any size of the table and the poll set,
any handles, merged PDUs, refused clients, departures, kills and the death of the server
included. `RecordsInv` is inductive
without further assumptions. Its conjuncts say what the three records owe each other:
sockets of accepted clients differ and are polled inside the array (`SocketInv`,
`PollInv`); an entry of the table, in use or given up, is about one accepted client and
holds its handle, with the tail of longer handles behind it (`OwnerInv`); before an
entry in use there is none with its handle, used or not (`FirstInv`), which is what
makes a lookup safe that ignores `isUsed`; a request for a handle is read at most once
(`HelloInv`). Three results need what the source does not see to, as named operators that
stand as hypotheses in the theorems:

| Theorem | Hypothesis |
|---|---|
| `UniqueHandlesCorrect`, `RecordsAgreeCorrect`, `IsChatRoomCorrect`, `SameOrderCorrect` | none |
| `LookupFindsOwnerCorrect`, `AbsentIsReportedCorrect` | `NoHandleBeginsAnother`: different handles are not prefixes of each other |
| `ReachesAddresseeCorrect` | the same, and `HandlesFit`: handles are no longer than what %m sends of them |

The rows of `PrefixHandles` above show results that fail without the first. `TalkInv` says
of the PDUs under way whose name they carry and for whom their texts are.

`IsChatRoomCorrect` is the refinement: `Spec => IsChatRoom`. The invariant it adds,
`RoomInv`, says that a user without a connection has nothing on the way to the server, and
of the broadcasts of one user that wait there that they carry the numbers right behind
those already spoken (`Numbered`): so the first of those the server reads together is what
the abstract `Say` puts into the inboxes, and the others count as spoken too. `AskingInv`
says that a client in the backlog has its request for a handle under way, and so is
neither member nor guest. Then each step of `Chat` is one step of the room or leaves what
the room sees of it alone (`RoomStep`): the server reading a hello joins, as a member or a
guest, and what was read with it is lost (`Join`); a killed client or one that ends goes
(`GoStep`); reading a broadcast is saying it, or `Close` when a send kills the server in
the middle; a client that prints several PDUs as one misses those behind the first
(`Miss`); and reading the end of a connection leaves. Most of the argument is
about what a list of PDUs still on its way contributes to an inbox: `Heard` picks the
broadcasts out of a sequence, so that appending an answer, an error or a private text
changes no inbox, moving a PDU from the connection to the screen changes none either, and
dropping some that follow each other cuts a piece out of it (`MiddleCut`).

`SameOrderCorrect` says what the room is good for without mentioning it, and proves with
it what it rests on. Any two clients have been given the broadcasts that both have in the
same order, which for one client says that it gets nothing twice (`OneOrder`); each
speaker's come in the order of speaking (`InTurn`); and none has a number its speaker has
not reached (`WasSaid`). The argument is about the abstract steps only: `Deliver` is the
one that adds to an inbox, it appends the same text everywhere, and by `WasSaid` nobody
has that text yet; losing texts, and cutting a piece out of an inbox, change no order.
`OneOrder` is not inductive without `WasSaid`.

`AbsentIsReportedCorrect` is about every step. A client is sent flag 7 only when the server
reads a text with addressees from it; if the names in it were sent whole (`SentWhole`), only
when it names a handle nobody has in use; and for certain when it names one that the table
has never held (`Unknown`), unless the client has closed or the server ends. Between the
two lies the handle of a client that has left: the lookup ignores `isUsed`, and the text
goes to the old socket. What a text is for is what it names (`AddressedInv`), and no array
of the table holds more than the longest handle (`TailInv`): so a name of %m that brings
one zero byte along is found although the lookup compares that byte too. Shorter handles
bring more of the line along and are reported absent although they are there, which
`SentWhole` excludes and a row above shows.

*Checksum* (`ChecksumProofs`, `RcopyPduProofs`, `TraceProofs`). Sums are taken modulo
65535. `ComesTo(s, r)` says that r has 16 bits, differs from s by a multiple of 65535
and is 0 only for 0; such an r is unique, two folds find it (`FoldComesTo`), and so does
adding each carry at once (`OnesPlusComesTo`). Exchanging the bytes of a word is
multiplying by 256 modulo 65535. So `in_cksum` on the machine's words is RFC 1071's sum
with its bytes exchanged (`ChecksumAgrees`), for up to 65536 bytes: so long the `int`
that holds the sum never overflows (`SumFits`), and the model's unbounded sum is the
code's. Inverting a byte changes the sum by an amount between -65535 and 65535
that is never 0 (255 - 2b is odd), so the checksum changes (`InvertedByteNoticed`).
From the layout of a packet (`LayoutIsMemory`) follow `DamageIsNoticed` and
`AgreesWithRfc`, for all data that fit in `MAX_LEN` bytes. trace's way of verifying,
to compute and compare, is the receiver's as soon as the sum without the checksum is
not 0 (`ComparingIsVerifying`): in an IP header its length is not, in a pseudo header
the protocol. `IpVerdictRight` and `TcpVerdictRight` hold for captures whose IP packets
hold the headers they claim (`IpHeadersWhole`, `TcpHeadersWhole`), which trace does not
check; all packets of `MCTrace` do. `PrintsTheHeadersCorrect` is about what trace prints
of the headers: its names, numbers and flags. Its hypothesis `HeadersSent` says of each
packet of the capture how it came about: a sender with an IP header of five to fifteen
words put lengths, a protocol, ports, flags and an acknowledgement number into it
in network byte order, which the capture knows as `sent`. It says
nothing of how they are read. The property says what a reader learns: every length and
port; a protocol, an ICMP message or an ARP operation if it has a name here and otherwise
that it is another one (an ARP operation beyond the two of RFC 826 is printed as a reply
and the property says nothing of it); the four flags; and the acknowledgement number
exactly if its flag is set. That `ntohs` of the machine's word gives back what was put
there is `WordRead`, and that the transport header is found behind options of any length
is `TransportAt`. The packets of `MCTrace` satisfy `HeadersSent` too.

The loops are recursive functions, whose values TLAPS knows only once it knows that
such a function exists: `NumbersInduction` and an existence lemma for each of them
(`SumsExist`, `OnesSumsExist`, `PicksExist`) stand for the induction theorems the
provers cannot use.

Only model-checked: the liveness properties, for the prover has no support for fairness
or `ENABLED`. They are `ClientTerminates`, `ServerTerminates` and `CopySucceeds` of
`Transfer`, `TransferStarts` and `OrphansEnd` of `Session`, `BroadcastArrives`,
`ExitCompletes` and `StarvedOnlyByLower` of `Chat`, and all of `ChatFlow`. Every safety
invariant and every action property that a run checks is a theorem.

## 5. Not modelled

Name resolution, socket set-up beyond accept, connect and bind, text layout and
parsing of lines, the unused functions (`removeFromWindow`, `safeRecv`, the UDP
set-up of Program_2). A window of size 0 divides by zero at the first packet. A file that cannot be read any
more after it was opened: `read` returns -1 into an unsigned `num_bytes_read`
(udpClient.c:190-200), and the client sends on with a length that is no length. A PDU
of the chat programs never arrives in pieces: `recvPDU` would take the rest for a
length, and everything behind it for noise, which no property survives. In a chat line
that is no command the first character is sent as the flag: the TAB is modelled (9), the
other control characters a terminal may pass on are not. trace's
addresses, times to live and sequence numbers are printed as they are in the packet.

## 6. Plan

Done, in this order: Windowing, Transfer and FileCopy with their proofs; Session;
PollLib and PollSet with proofs; HandleTable and Chat; Checksum, RcopyPdu and Trace;
the death of the chat server, the limits of descriptors and processes, ChatRoom and
ChatFlow; the proofs for Session, Chat, the checksums, rcopy's packets and trace; the
proof that Chat implements ChatRoom, and from it that all hear in one order; the proofs
of `AbsentIsReported` and of `PrintsTheHeaders`; ports that are bound again in Session,
refused clients and merged PDUs in ChatRoom and its proofs, the end of a pipe in ChatFlow,
and the names and flags that trace prints.

What is left is out of the prover's reach: the liveness properties above. A change of the
source would start at the rows under "Outside these instances": several of them are what
a hypothesis of a theorem excludes, so that the theorem and the row together say what to
change and what would be gained.
