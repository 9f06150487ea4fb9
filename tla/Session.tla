------------------------------- MODULE Session -------------------------------
(***************************************************************************)
(* How rcopy transfers begin (Program_3): several clients (main of         *)
(* udpClient.c up to its data loop) ask one server (main of udpServer.c)   *)
(* to open a file; the server forks a child for every packet that carries  *)
(* data, and the child (forkedServer, recv_filename) binds a port drawn    *)
(* from the clock, truncates the file and answers from that port.          *)
(*                                                                         *)
(* The data phase is the module Transfer; here it is one data packet and   *)
(* one answer at a time, enough to see which process the data goes to.     *)
(* An address is a client, 0 for the server's main process, or a port.  A  *)
(* port bears the number of the first child that bound it; it is free      *)
(* again when its child exits, and another child may bind it while packets *)
(* and clients still use it.                                               *)
(*                                                                         *)
(* Prompt chooses the network as in Transfer: a LAN whose packets arrive   *)
(* once and within the second, or UDP without any promise.                 *)
(***************************************************************************)
EXTENDS Naturals, Sequences, FiniteSets

CONSTANTS
  Clients,     \* rcopy processes
  Files,       \* names they may ask for
  ToFile,      \* to_filename of each client
  Unwritable,  \* names whose open() fails at the server
  MaxTries,    \* 10 in the source: filename packets a client sends
  MaxRetry,    \* 10 in the source: timeouts of recv_file_data
  Prompt,      \* which network
  MaxErrors,   \* bound: packets dropped or damaged, and ports drawn twice
  MaxReplies,  \* bound: answers a client reads in its data phase
  MaxChildren  \* processes the system lets the server fork; since nobody
               \* waits for them those that have exited count too

ASSUME SessionAssumption ==
  /\ ToFile \in [Clients -> Files] /\ Unwritable \subseteq Files
  /\ MaxTries \in Nat \ {0} /\ MaxRetry \in Nat /\ Prompt \in BOOLEAN
  /\ MaxErrors \in Nat /\ MaxReplies \in Nat /\ MaxChildren \in Nat
  /\ Clients \cap Nat = {}

MainServer == 0

VARIABLES
  client,   \* each client: phase, tries, polling, fserver, replies
  child,    \* the forked children in order: peer, name, state, retryCount,
            \* and the port it has bound, 0 before
  opener,   \* the child that truncated each file last, 0 if none
  thisSecond, \* the port drawn in the current second, 0 if none was
  net,      \* packets under way
  errors

vars == <<client, child, opener, thisSecond, net, errors>>

Packet(src, dst, flag) == [src |-> src, dst |-> dst, flag |-> flag]

\* The name a packet carries for recv_filename, which reads every packet the
\* server forks for as a filename packet: the bytes of a data packet are a
\* name nobody asked for.
Junk == "junk"

ASSUME JunkAssumption == Junk \notin Files

NameIn(p) == IF p.flag = "FILENAME" THEN ToFile[p.src] ELSE Junk

Consume(p) == IF Prompt THEN net \ {p} ELSE net

Init ==
  /\ client = [c \in Clients |-> [phase |-> "naming", tries |-> 0,
       polling |-> FALSE, fserver |-> MainServer, replies |-> 0]]
  /\ child = <<>>
  /\ opener = [f \in Files |-> 0]
  /\ thisSecond = 0 /\ net = {} /\ errors = 0

-----------------------------------------------------------------------------
(* The client. *)

\* The end of one round of the loop over the filename packet.  When the tries
\* are used up the client falls into the data phase, as it does after an OK.
NextTry(r) ==
  [r EXCEPT !.tries = @ + 1, !.polling = FALSE,
            !.phase = IF r.tries + 1 = MaxTries THEN "sending" ELSE @]

\* recvfrom overwrites fserver with the address of whoever sent the packet,
\* before the checksum is looked at.
MutantSender(r, p) == r.fserver

Sender(r, p) == p.src

ClientSendsName(c) ==
  /\ client[c].phase = "naming" /\ ~ client[c].polling
  /\ client' = [client EXCEPT ![c].polling = TRUE]
  /\ net' = net \cup {Packet(c, client[c].fserver, "FILENAME")}

\* A packet arrives while the client waits for the answer to its name.
ClientReceivesAnswer(c, p) ==
  /\ client[c].phase = "naming" /\ client[c].polling /\ p.dst = c
  /\ LET r == [client[c] EXCEPT !.fserver = Sender(client[c], p)]
     IN  client' = [client EXCEPT ![c] =
           CASE p.flag = "NAK" -> [r EXCEPT !.phase = "exit1", !.polling = FALSE]
             [] p.flag = "OK"  -> [r EXCEPT !.phase = "sending", !.polling = FALSE]
             [] OTHER          -> NextTry(r)]
  /\ net' = Consume(p)

\* The data phase: every packet goes to fserver, and every answer moves it.
ClientSendsData(c) ==
  /\ client[c].phase = "sending" /\ ~ client[c].polling
  /\ client' = [client EXCEPT ![c].polling = TRUE]
  /\ net' = net \cup {Packet(c, client[c].fserver, "DATA")}

ClientReceivesInData(c, p) ==
  /\ client[c].phase = "sending" /\ client[c].polling /\ p.dst = c
  /\ client[c].replies < MaxReplies
  /\ client' = [client EXCEPT ![c] = [client[c] EXCEPT
       !.fserver = Sender(client[c], p), !.polling = FALSE, !.replies = @ + 1,
       !.phase = IF client[c].replies + 1 = MaxReplies THEN "done" ELSE @]]
  /\ net' = Consume(p)

ClientStep ==
  /\ \E c \in Clients :
       \/ ClientSendsName(c) \/ ClientSendsData(c)
       \/ \E p \in net : ClientReceivesAnswer(c, p) \/ ClientReceivesInData(c, p)
  /\ UNCHANGED <<child, opener, thisSecond, errors>>

\* pollCall(1000) expires.
AfterTimeout(r) ==
  CASE ~ r.polling                        -> r
    [] r.polling /\ r.phase = "naming"    -> NextTry(r)
    [] r.polling /\ r.phase # "naming"    -> [r EXCEPT !.polling = FALSE]

-----------------------------------------------------------------------------
(* The server. *)

\* main forks for every packet with data in it; it looks at no flag and keeps
\* no record of the clients it has forked for.
MutantForksFor(p) == \A n \in DOMAIN child : child[n].peer # p.src

ForksFor(p) == p.flag \in {"FILENAME", "DATA"}

\* fork() copies fserver, the address the packet came from.
Peer(p) == p.src

\* fork() fails when the process table is full, and -1 is taken for the
\* number of a child: the packet is forgotten.
ForkSucceeds == Len(child) < MaxChildren

MainReceives(p) ==
  /\ p.dst = MainServer
  /\ net' = Consume(p)
  /\ child' = IF ForksFor(p) /\ ForkSucceeds
       THEN Append(child, [peer |-> Peer(p), name |-> NameIn(p),
                           state |-> "forked", retryCount |-> 0, port |-> 0])
       ELSE child
  /\ UNCHANGED <<opener, thisSecond, errors>>

Bound(n) == child[n].state \in {"waiting", "serving"}

\* A mutant in which bind() shares ports (SO_REUSEADDR).
MutantInUse(port) == FALSE

InUse(port) == \E n \in DOMAIN child : Bound(n) /\ child[n].port = port

WasBound(port) == \E n \in DOMAIN child : child[n].port = port

\* srand(time(NULL)) gives all children of one second the same port.  Another
\* second gives another one, which bears the number of this child, or one that
\* was bound before: an accident, which counts as an error.
Draws(n, port) ==
  /\ \/ thisSecond # 0 /\ port = thisSecond /\ errors' = errors
     \/ thisSecond = 0 /\ port = n /\ ~ WasBound(port) /\ errors' = errors
     \/ /\ thisSecond = 0 /\ WasBound(port)
        /\ errors < MaxErrors /\ errors' = errors + 1
  /\ thisSecond' = port

\* bind() fails on a port in use, and the child exits without an answer.
BindFails(n) ==
  /\ child[n].state = "forked"
  /\ \E port \in DOMAIN child : Draws(n, port) /\ InUse(port)
  /\ child' = [child EXCEPT ![n].state = "exited"]
  /\ UNCHANGED <<opener, net>>

\* A mutant that answers first and truncates later.
MutantRecvFilename(n) ==
  \/ /\ child[n].state = "forked"
     /\ \E port \in DOMAIN child :
          /\ Draws(n, port) /\ ~ InUse(port)
          /\ child' = [child EXCEPT ![n].state = "waiting", ![n].port = port]
          /\ net' = net \cup {Packet(port, child[n].peer, "OK")}
     /\ UNCHANGED opener
  \/ /\ Bound(n) /\ opener[child[n].name] # n
     /\ opener' = [opener EXCEPT ![child[n].name] = n]
     /\ UNCHANGED <<child, net, thisSecond, errors>>

\* recv_filename after a successful bind(): truncate the file and answer OK,
\* or answer NAK and exit, which frees the port.  Whether a junk name can be
\* opened is anyone's guess.
recv_filename(n) ==
  /\ child[n].state = "forked"
  /\ \E port \in DOMAIN child, opens \in BOOLEAN :
       /\ Draws(n, port) /\ ~ InUse(port)
       /\ child[n].name \in Files => opens = (child[n].name \notin Unwritable)
       /\ child' = [child EXCEPT ![n].port = port,
                                ![n].state = IF opens THEN "waiting" ELSE "exited"]
       /\ net' = net \cup
            {Packet(port, child[n].peer, IF opens THEN "OK" ELSE "NAK")}
       /\ opener' = IF opens /\ child[n].name \in Files
            THEN [opener EXCEPT ![child[n].name] = n] ELSE opener

\* recv_file_data: a data packet, whoever sent it, starts the transfer and is
\* answered; any other packet only resets the count of timeouts.  The OK is
\* never repeated.
ChildReceives(n, p) ==
  /\ Bound(n) /\ p.dst = child[n].port
  /\ child[n].retryCount <= MaxRetry
  /\ child' = [child EXCEPT ![n] = [child[n] EXCEPT !.retryCount = 0,
       !.state = IF p.flag = "DATA" THEN "serving" ELSE @]]
  /\ net' = Consume(p) \cup
       (IF p.flag = "DATA" THEN {Packet(child[n].port, p.src, "RR")} ELSE {})
  /\ UNCHANGED <<opener, thisSecond, errors>>

\* recv_file_data: too many timeouts in a row.
ChildGivesUp(n) ==
  /\ child[n].state = "waiting" /\ child[n].retryCount > MaxRetry
  /\ child' = [child EXCEPT ![n].state = "exited"]
  /\ UNCHANGED <<opener, thisSecond, net, errors>>

ServerStep ==
  /\ \/ \E p \in net : MainReceives(p)
     \/ \E n \in DOMAIN child :
          \/ BindFails(n) \/ recv_filename(n) \/ ChildGivesUp(n)
          \/ \E p \in net : ChildReceives(n, p)
  /\ UNCHANGED client

\* Only a child that no data has reached yet counts here; the timeouts of a
\* running transfer are Transfer's.
MutantAnotherTimeout(r) == r

AnotherTimeout(r) ==
  IF r.state = "waiting" THEN [r EXCEPT !.retryCount = @ + 1] ELSE r

-----------------------------------------------------------------------------
(* The network and the composition. *)

Drop ==
  /\ Prompt /\ errors < MaxErrors
  /\ \E p \in net : net' = net \ {p}
  /\ errors' = errors + 1
  /\ UNCHANGED <<client, child, opener, thisSecond>>

\* A damaged packet: recv_buf returns CRC_ERROR.
ClientReceivesDamaged(c, p) ==
  /\ client[c].polling /\ p.dst = c
  /\ LET r == [client[c] EXCEPT !.fserver = Sender(client[c], p)]
     IN  client' = [client EXCEPT ![c] =
           IF r.phase = "naming" THEN NextTry(r) ELSE [r EXCEPT !.polling = FALSE]]
  /\ UNCHANGED child

ServerReceivesDamaged(p) ==
  /\ \/ p.dst = MainServer /\ UNCHANGED child
     \/ \E n \in DOMAIN child :
          /\ p.dst = child[n].port /\ Bound(n) /\ child[n].retryCount <= MaxRetry
          /\ child' = [child EXCEPT ![n].retryCount = 0]
  /\ UNCHANGED client

ReceiveDamaged ==
  /\ errors < MaxErrors
  /\ \E p \in net :
       /\ \/ \E c \in Clients : ClientReceivesDamaged(c, p)
          \/ ServerReceivesDamaged(p)
       /\ net' = Consume(p)
  /\ errors' = errors + 1
  /\ UNCHANGED <<opener, thisSecond>>

\* Everything that can happen within the second has happened.
Quiet ==
  /\ \A p \in net :
       /\ p.dst # MainServer
       /\ p.dst \in Clients => ~ client[p.dst].polling
       /\ p.dst \notin Clients => ~ InUse(p.dst)
  /\ \A c \in Clients : client[c].phase \in {"naming", "sending"} => client[c].polling
  /\ \A n \in DOMAIN child :
       /\ child[n].state # "forked"
       /\ child[n].state = "waiting" => child[n].retryCount <= MaxRetry

\* A second passes and every poll expires.  What is still under way was for a
\* port nobody has bound, or for a client that has ended.
Tick ==
  /\ Prompt /\ Quiet
  /\ client' = [c \in Clients |-> AfterTimeout(client[c])]
  /\ child' = [n \in DOMAIN child |-> AnotherTimeout(child[n])]
  /\ thisSecond' = 0 /\ net' = {}
  /\ UNCHANGED <<opener, errors>>

\* Any other network: each poll, and each second, ends when it likes.
AnyTimeout ==
  /\ ~ Prompt
  /\ \/ \E c \in Clients :
          /\ client[c].polling
          /\ client' = [client EXCEPT ![c] = AfterTimeout(@)]
          /\ UNCHANGED child
     \/ \E n \in DOMAIN child :
          /\ child[n].state = "waiting" /\ child[n].retryCount <= MaxRetry
          /\ child' = [child EXCEPT ![n] = AnotherTimeout(@)]
          /\ UNCHANGED client
     \/ thisSecond # 0 /\ UNCHANGED <<client, child>>
  /\ thisSecond' \in {thisSecond, 0}
  /\ UNCHANGED <<opener, net, errors>>

Next == ClientStep \/ ServerStep \/ Drop \/ ReceiveDamaged \/ Tick \/ AnyTimeout

Spec == Init /\ [][Next]_vars

\* Processes are scheduled and time passes; nothing is assumed of the errors.
FairSpec == Spec /\ WF_vars(ClientStep) /\ WF_vars(ServerStep) /\ WF_vars(Tick)

-----------------------------------------------------------------------------
(* Properties. *)

\* The child that c's data must reach: the one that opened c's file last, for
\* c, and that still listens.
Serves(n, c) ==
  /\ n \in DOMAIN child /\ Bound(n)
  /\ child[n].peer = c /\ opener[ToFile[c]] = n

ServesAt(port, c) ==
  \E n \in DOMAIN child : Serves(n, c) /\ child[n].port = port

\* Every data packet is on its way to the process that truncated the client's
\* file last: it neither makes main fork for it nor reaches a child whose
\* file another child has truncated meanwhile.
DataReachesItsFile ==
  \A p \in net : p.flag = "DATA" /\ ToFile[p.src] \notin Unwritable
                   => ServesAt(p.dst, p.src)

\* A client that sends data, whether an OK told it to or its tries are used
\* up (a damaged OK costs it all of them), sends it to the child that has its
\* file open.
SendsOnlyIfServed ==
  \A c \in Clients : client[c].phase = "sending" => ServesAt(client[c].fserver, c)

\* Once a client sends data its file is not truncated again.
OneOpenPerTransfer ==
  [][\A c \in Clients : client[c].phase \in {"sending", "done"}
       => opener'[ToFile[c]] = opener[ToFile[c]]]_vars

\* What clients can do to each other on any network.  Two children never
\* listen on one port.  A client meets another client's child only at a port
\* that its own child has given up: what a port sends to a client, or a client
\* to a port, goes over a port a child of that client has bound, and if another
\* client's child listens there now its own child has exited.  A file is opened
\* only for the client that named it, and only a client whose file cannot be
\* opened is refused, although a child that was forked for data answers too.
HasBound(c, port) == \E n \in DOMAIN child : child[n].peer = c /\ child[n].port = port
GaveUp(c, port) ==
  \E n \in DOMAIN child :
    child[n].peer = c /\ child[n].port = port /\ child[n].state = "exited"

Isolation ==
  /\ \A p \in net :
       /\ p.src \notin Clients => HasBound(p.dst, p.src)
       /\ p.dst \notin Clients \cup {MainServer} => HasBound(p.src, p.dst)
       /\ \A n \in DOMAIN child :
            /\ Bound(n) /\ child[n].port = p.dst /\ child[n].peer # p.src
                 => GaveUp(p.src, p.dst)
            /\ Bound(n) /\ child[n].port = p.src /\ child[n].peer # p.dst
                 => GaveUp(p.dst, p.src)
  /\ \A m, n \in DOMAIN child :
       Bound(m) /\ Bound(n) /\ child[m].port = child[n].port => m = n
  /\ \A f \in Files : opener[f] # 0 => ToFile[child[opener[f]].peer] = f
  /\ \A c \in Clients : client[c].phase = "exit1" => ToFile[c] \in Unwritable

\* Every client whose file can be opened gets its first data packet through to
\* a child, however the error library spends its budget and whatever ports the
\* children draw.
TransferStarts ==
  \A c \in Clients : ToFile[c] \notin Unwritable =>
    <>(\E n \in DOMAIN child : child[n].state = "serving" /\ child[n].peer = c)

\* A child that no data ever reaches (its OK was lost and the client went on
\* with another child) ends.
OrphansEnd ==
  \A n \in 1 .. MaxChildren :
    (n \in DOMAIN child /\ child[n].state = "waiting")
      ~> (n \in DOMAIN child /\ child[n].state \in {"serving", "exited"})
==============================================================================
