--------------------------------- MODULE Chat ---------------------------------
(***************************************************************************)
(* The chat programs (Program_2): one server (server.c, helper.c), a       *)
(* single-threaded loop around pollCall, and the clients (cclient.c) that  *)
(* connect to it over TCP and exchange length-prefixed PDUs with it        *)
(* (send_recv_pdu.c).                                                      *)
(*                                                                         *)
(* A user is one run of cclient.  Each direction of a connection is the    *)
(* sequence of PDUs sent and not yet read.  recvPDU reads a length and     *)
(* then whatever has arrived: with Coalesce it may take several PDUs and   *)
(* hand them on as one, whose first byte is the flag of the first.         *)
(*                                                                         *)
(* What TCP does at the end of a connection matters here.  peer[u] is what *)
(* the server's socket for u has met: "up"; "fin", the client has closed;  *)
(* "finrst", it has closed and rejected something sent since; "rst", it    *)
(* closed with PDUs unread.  recv then returns 0, 0 and -1, and send       *)
(* succeeds after a "fin" and kills the process after the other two.       *)
(* link[u] is what the client's socket has met of the server's death:      *)
(* "up"; "fin", the server had read everything; "rst", it had not, or the  *)
(* client has sent something since, and a reset is there or on its way.    *)
(***************************************************************************)
EXTENDS HandleTable, PollLib, SequencesExt

CONSTANTS
  Users,       \* runs of cclient
  Handle,      \* the handle each is started with
  Commands,    \* the kinds of lines that are typed, see TypeLine
  UniLen,      \* 8 in the source: sizeof((char *)tbuf), which %m takes for
               \* the length of the handle
  MaxClients,  \* 10 in the source: MAX_CLIENTS
  Limits,      \* the limits of open files the server may be started with
  MaxLines,    \* bound: lines typed by each user
  Coalesce,    \* recvPDU may read several PDUs at once
  MayKill,     \* a client process may be killed
  StackClean   \* what recvPDU finds in its buffer after recv returned 0 is
               \* harmless

ASSUME ChatAssumption ==
  /\ Limits \subseteq Nat /\ UniLen \in Nat \ {0} /\ MaxClients \in Nat /\ MaxLines \in Nat
  /\ {Coalesce, MayKill, StackClean} \subseteq BOOLEAN
  /\ Commands \subseteq {"%b", "%m", "%c", "%l", "%e", "tab", "other"}

\* A handle is a nonempty string of C.
ASSUME HandleAssumption ==
  /\ Handle \in [Users -> Seq(STRING)]
  /\ \A u \in Users : Len(Handle[u]) > 0 /\ NUL \notin Range(Handle[u])

MainSocket == 3

VARIABLES
  \* the server
  up,           \* the process runs
  limit,        \* its descriptors are 0 .. limit - 1
  num_clients,
  table,        \* clientinfo_str
  poll,         \* its poll set
  backlog,      \* connections not accepted yet
  socket,       \* the server's socket for each user, 0 before accept
  \* the clients
  state,        \* "off", "on", "leaving" (standard input removed), "gone"
  lines,        \* lines typed
  said,         \* broadcasts among them
  shown,        \* the broadcasts printed
  \* the connections
  toServer, toClient, peer, link

serverVars == <<up, limit, num_clients, table, poll, backlog, socket>>
clientVars == <<state, lines, said, shown>>
netVars    == <<toServer, toClient, peer, link>>
vars == <<serverVars, clientVars, netVars>>

-----------------------------------------------------------------------------
(* PDUs: the flag, the handle of the sender (or listed), the names of the  *)
(* addressees as sent, and the text.  A text names the line it comes from: *)
(* who typed it, the how many-th broadcast it is and whom it is meant for. *)

Pdu(flag, from, dest, text) ==
  [flag |-> flag, from |-> from, dest |-> dest, text |-> text]
PlainText    == 32  \* the first character of a line that is no command
Tab          == 9   \* and that of another
Signal(flag) == Pdu(flag, <<>>, <<>>, <<>>)
Line(u, n, for) == [by |-> u, n |-> n, for |-> for]

\* Several PDUs read at once: the first, with the rest behind its text.
Swallowed == "bytes of other PDUs"
Merged(pdus) ==
  IF Len(pdus) = 1 THEN pdus[1] ELSE [pdus[1] EXCEPT !.text = Append(@, Swallowed)]

\* How many PDUs the recv of recvPDU may find.
recvPDU(queue) == 1 .. (IF Coalesce THEN Len(queue) ELSE 1)

Rest(queue, k) == SubSeq(queue, k + 1, Len(queue))

\* The elements of a sequence that are in a set, in their order.
Those(seq, set) ==
  LET those[k \in 0 .. Len(seq)] ==
        IF k = 0 THEN <<>>
        ELSE IF seq[k] \in set THEN Append(those[k - 1], seq[k]) ELSE those[k - 1]
  IN  those[Len(seq)]

Names == {Handle[u] : u \in Users}

\* What %m sends for a handle: UniLen bytes of the line from the handle on,
\* with the blank behind it replaced by a zero byte.
MutantUnicastName(h) ==
  SubSeq(h \o <<NUL>> \o [i \in 1 .. UniLen |-> "text"], 1, UniLen + 1)

UnicastName(h) == SubSeq(h \o <<NUL>> \o [i \in 1 .. UniLen |-> "text"], 1, UniLen)

-----------------------------------------------------------------------------

Init ==
  /\ up = TRUE /\ limit \in Limits /\ num_clients = 0
  /\ table = initializeHelper
  /\ poll = addToPollSet(setupPollSet, MainSocket)
  /\ backlog = <<>> /\ socket = [u \in Users |-> 0]
  /\ state = [u \in Users |-> "off"]
  /\ lines = [u \in Users |-> 0] /\ said = [u \in Users |-> 0]
  /\ shown = [u \in Users |-> <<>>]
  /\ toServer = [u \in Users |-> <<>>] /\ toClient = [u \in Users |-> <<>>]
  /\ peer = [u \in Users |-> "up"] /\ link = [u \in Users |-> "up"]

-----------------------------------------------------------------------------
(* The client. *)

\* main up to the loop: connect and sendInitialPacket, without waiting for
\* the server to accept the connection or the handle.
Connect(u) ==
  /\ up /\ state[u] = "off"
  /\ state' = [state EXCEPT ![u] = "on"]
  /\ backlog' = Append(backlog, u)
  /\ toServer' = [toServer EXCEPT ![u] = <<Pdu(1, Handle[u], <<>>, <<>>)>>]
  /\ UNCHANGED <<up, limit, num_clients, table, poll, socket,
                 lines, said, shown, toClient, peer, link>>

\* connect finds nobody listening and tcpClientSetup exits.
ConnectFails(u) ==
  /\ ~ up /\ state[u] = "off"
  /\ state' = [state EXCEPT ![u] = "gone"]
  /\ UNCHANGED <<serverVars, lines, said, shown, netVars>>

\* The PDU that sendToServer makes of a line of each kind.
LinePdus(u, command) ==
  CASE command = "%b" -> {Pdu(4, Handle[u], <<>>, <<Line(u, said[u] + 1, {})>>)}
    [] command = "%m" -> {Pdu(5, Handle[u], <<UnicastName(h)>>, <<Line(u, 0, {h})>>) :
                            h \in Names}
    [] command = "%c" -> {Pdu(6, Handle[u], <<g, h>>, <<Line(u, 0, {g, h})>>) :
                            g \in Names, h \in Names}
    [] command = "%l" -> {Signal(10)}
    [] command = "%e" -> {Signal(8)}
    [] command = "tab" -> {Signal(Tab)}
    [] OTHER          -> {Signal(PlainText)}

\* The process ends and its socket closes, with unread still to be read.
Exits(u, unread) ==
  /\ state' = [state EXCEPT ![u] = "gone"]
  /\ peer' = [peer EXCEPT ![u] = IF unread = <<>> THEN "fin" ELSE "rst"]

\* A send after the server's death is answered with a reset.
sendToServer(u, command) ==
  /\ state[u] = "on" /\ lines[u] < MaxLines
  /\ \E pdu \in LinePdus(u, command) :
       toServer' = [toServer EXCEPT ![u] = Append(@, pdu)]
  /\ link' = IF up THEN link ELSE [link EXCEPT ![u] = "rst"]
  /\ state' = IF command = "%e" THEN [state EXCEPT ![u] = "leaving"] ELSE state
  /\ said' = IF command = "%b" THEN [said EXCEPT ![u] = @ + 1] ELSE said
  /\ lines' = [lines EXCEPT ![u] = @ + 1]
  /\ UNCHANGED <<serverVars, shown, toClient, peer>>

\* A send after the reset has arrived ends the process.
SendEndsClient(u) ==
  /\ state[u] = "on" /\ link[u] = "rst" /\ lines[u] < MaxLines
  /\ lines' = [lines EXCEPT ![u] = @ + 1]
  /\ Exits(u, toClient[u])
  /\ UNCHANGED <<serverVars, said, shown, toServer, toClient, link>>

\* checkFlag in the client: a refused handle and the permission to exit end
\* the process, everything else is printed.
MutantEndsClient(pdu) == pdu.flag = 3

EndsClient(pdu) == pdu.flag \in {3, 9}

processMsgFromServer(u) ==
  /\ state[u] \in {"on", "leaving"} /\ toClient[u] # <<>>
  /\ \E k \in recvPDU(toClient[u]) :
       LET pdu == Merged(SubSeq(toClient[u], 1, k))
       IN  /\ toClient' = [toClient EXCEPT ![u] = Rest(@, k)]
           /\ \/ EndsClient(pdu) /\ Exits(u, Rest(toClient[u], k)) /\ UNCHANGED shown
              \/ /\ ~ EndsClient(pdu)
                 /\ shown' = IF pdu.flag = 4
                      THEN [shown EXCEPT ![u] = Append(@, pdu)] ELSE shown
                 /\ UNCHANGED <<state, peer>>
  /\ UNCHANGED <<serverVars, lines, said, toServer, link>>

\* recvPDU with nothing left to read.  It ends the process after a reset.  At
\* the end of the connection the client prints that it was closed and polls
\* it again, unless the length in its uninitialised buffer is too large.
EndsWaiting(u) == link[u] = "rst" \/ (link[u] = "fin" /\ ~ StackClean)

ServerIsGone(u) ==
  /\ state[u] \in {"on", "leaving"} /\ toClient[u] = <<>> /\ EndsWaiting(u)
  /\ Exits(u, <<>>)
  /\ UNCHANGED <<serverVars, lines, said, shown, toServer, toClient, link>>

ClientKilled(u) ==
  /\ MayKill /\ state[u] \in {"on", "leaving"}
  /\ Exits(u, toClient[u])
  /\ UNCHANGED <<serverVars, lines, said, shown, toServer, toClient, link>>

-----------------------------------------------------------------------------
(* The server: what it sends. *)

To(s, pdu) == [socket |-> s, pdu |-> pdu]

\* The entries in use, in the order of the table.
UsedEntries == Those(table, {e \in Range(table) : e.isUsed})

\* A broadcast goes on unchanged to every registered socket but the sender's.
MutantOthers(s) == UsedEntries

MutantOthersButLast(s) ==
  Those([i \in 1 .. (TableSize - 1) |-> table[i]],
        {e \in Range(table) : e.isUsed /\ e.socketNumber # s})

MutantOthersTwice(s) ==
  LET others == Those(table, {e \in Range(table) : e.isUsed /\ e.socketNumber # s})
  IN  others \o others

Others(s) == Those(table, {e \in Range(table) : e.isUsed /\ e.socketNumber # s})

Broadcast(s, pdu) ==
  LET others == Others(s) IN [i \in DOMAIN others |-> To(others[i].socketNumber, pdu)]

\* One addressee of a %m or %c: the text, or the answer that there is no such
\* client.
Forward(s, pdu, name) ==
  LET socketNumber == getSocketNumber(table, name)
  IN  IF socketNumber # NotFound THEN To(socketNumber, [pdu EXCEPT !.dest = <<>>])
      ELSE To(s, Pdu(7, <<>>, <<name>>, pdu.text))

ListOfHandles(s) ==
  LET used == UsedEntries
  IN  <<To(s, Signal(11))>>
        \o [i \in DOMAIN used |-> To(s, Pdu(12, Name(used[i]), <<>>, <<>>))]
        \o <<To(s, Signal(13))>>

\* checkFlag in the server: the PDUs it sends for one it has read from s.
checkFlag(s, pdu) ==
  CASE pdu.flag = 1 -> <<To(s, Signal(IF Refused(table, pdu.from) THEN 3 ELSE 2))>>
    [] pdu.flag = 4 -> Broadcast(s, pdu)
    [] pdu.flag \in {5, 6} ->
         [i \in DOMAIN pdu.dest |-> Forward(s, pdu, pdu.dest[i])]
    [] pdu.flag = 8  -> <<To(s, Signal(9))>>
    [] pdu.flag = 10 -> ListOfHandles(s)
    [] OTHER -> <<>>

\* checkFlag is the clients' too, and a 9 ends whoever reads it.
ServerExits(pdu) == pdu.flag = 9

TableAfter(s, pdu) ==
  IF pdu.flag = 1 THEN addHandle(table, pdu.from, s) ELSE table

-----------------------------------------------------------------------------
(* The server: sendPDU, one by one. *)

SentTo(out, u) == Those(out, {o \in Range(out) : o.socket = socket[u]})

\* The i-th send of out fails: sendPDU exits, unless SIGPIPE has ended the
\* process already.
SendFails(out, i) ==
  \E u \in Users :
    /\ socket[u] = out[i].socket
    /\ \/ peer[u] \in {"finrst", "rst"}
       \/ peer[u] = "fin" /\ SentTo(SubSeq(out, 1, i - 1), u) # <<>>

\* No send fails.  A client that has closed may reject what it is sent before
\* the next send to it, or after.
SendsSucceed(out) ==
  /\ \A u \in Users : SentTo(out, u) # <<>> => peer[u] \in {"up", "fin"}
  /\ toClient' = [u \in Users |-> toClient[u] \o
       IF peer[u] = "up" THEN [i \in DOMAIN SentTo(out, u) |-> SentTo(out, u)[i].pdu]
                         ELSE <<>>]
  /\ \E rejected \in SUBSET {u \in Users : peer[u] = "fin" /\ SentTo(out, u) # <<>>} :
       peer' = [u \in Users |-> IF u \in rejected THEN "finrst" ELSE peer[u]]

\* The process ends.  The connections it had not accepted, and those with
\* something unread, are reset.
Closing(u) == IF u \in Range(backlog) \/ toServer'[u] # <<>> THEN "rst" ELSE "fin"

Dies ==
  /\ up' = FALSE
  /\ link' = [u \in Users |-> IF state[u] \in {"on", "leaving"} THEN Closing(u)
                                                             ELSE link[u]]
  /\ UNCHANGED <<num_clients, table, poll, backlog, socket>>

-----------------------------------------------------------------------------
(* The server: the loop. *)

Readable ==
  {socket[u] : u \in {v \in Users : toServer[v] # <<>> \/ peer[v] # "up"}}
    \cup (IF backlog # <<>> THEN {MainSocket} ELSE {})

\* The server never closes a socket, so the next descriptor is a new one.
NextSocket == MainSocket + 1 + Cardinality({u \in Users : socket[u] # 0})

\* tcpAccept exits when accept fails for want of a descriptor.
AcceptFails ==
  /\ NextSocket >= limit
  /\ UNCHANGED <<toServer, toClient, peer>>
  /\ Dies

Room == num_clients < MaxClients

addNewSocket ==
  /\ NextSocket < limit
  /\ socket' = [socket EXCEPT ![Head(backlog)] = NextSocket]
  /\ poll' = addToPollSet(poll, NextSocket)
  /\ backlog' = Tail(backlog)
  /\ num_clients' = num_clients + 1
  /\ UNCHANGED <<up, table, netVars>>

\* recvFromClient with PDUs to read.
RecvData(u) ==
  /\ toServer[u] # <<>>
  /\ \E k \in recvPDU(toServer[u]) :
     \E pdu \in {Merged(SubSeq(toServer[u], 1, k))} :
     \E out \in {checkFlag(socket[u], pdu)} :
       /\ toServer' = [toServer EXCEPT ![u] = Rest(@, k)]
       /\ \/ \E i \in DOMAIN out : /\ SendFails(out, i)
                                  /\ SendsSucceed(SubSeq(out, 1, i - 1))
                                  /\ Dies
          \/ ServerExits(pdu) /\ SendsSucceed(out) /\ Dies
          \/ /\ ~ ServerExits(pdu) /\ SendsSucceed(out)
             /\ table' = TableAfter(socket[u], pdu)
             /\ UNCHANGED <<up, num_clients, poll, backlog, socket, link>>

\* recv returns 0.  recvPDU does not test for it and goes on with the length
\* its uninitialised buffer happens to hold, exiting when that is too large.
MutantRecvClosed(u) ==
  /\ toServer[u] = <<>> /\ peer[u] \in {"fin", "finrst"}
  /\ UNCHANGED <<toServer, toClient, peer>>
  /\ table' = release(table, socket[u])
  /\ UNCHANGED <<up, num_clients, poll, backlog, socket, link>>

RecvClosed(u) ==
  /\ toServer[u] = <<>> /\ peer[u] \in {"fin", "finrst"}
  /\ UNCHANGED <<toServer, toClient, peer>>
  /\ \/ ~ StackClean /\ Dies
     \/ /\ num_clients' = num_clients - 1
        /\ poll' = removeFromPollSet(poll, socket[u])
        /\ table' = release(table, socket[u])
        /\ UNCHANGED <<up, backlog, socket, link>>

\* recv returns -1 and recvPDU exits.
RecvFails(u) ==
  /\ toServer[u] = <<>> /\ peer[u] = "rst"
  /\ UNCHANGED <<toServer, toClient, peer>>
  /\ Dies

\* serverControl: pollCall names the lowest socket with something to read.
\* With a connection waiting and no room for it nothing happens, again and
\* again.
ServerStep ==
  /\ up
  /\ LET ready == pollCall(poll, Readable, {})
     IN  \/ ready = MainSocket /\ Room /\ (addNewSocket \/ AcceptFails)
         \/ \E u \in Users : /\ socket[u] = ready /\ ready # 0
                             /\ RecvData(u) \/ RecvClosed(u) \/ RecvFails(u)
  /\ UNCHANGED <<limit, clientVars>>

ClientStep(u) == processMsgFromServer(u) \/ ServerIsGone(u)

TypeLine(u) == \/ \E command \in Commands : sendToServer(u, command)
               \/ SendEndsClient(u)

Next ==
  \/ ServerStep
  \/ \E u \in Users : \/ Connect(u) \/ ConnectFails(u)
                      \/ TypeLine(u) \/ ClientStep(u) \/ ClientKilled(u)

Spec == Init /\ [][Next]_vars

\* Both programs run; users type what and when they like.
FairSpec == Spec /\ WF_vars(ServerStep) /\ \A u \in Users : WF_vars(ClientStep(u))

-----------------------------------------------------------------------------
(* Properties. *)

Registered(u) ==
  \E i \in Entries : table[i].isUsed /\ table[i].socketNumber = socket[u] /\ socket[u] # 0

Polled(u) == socket[u] # 0 /\ poll.fds[socket[u]].events

\* No two registered clients have the same handle or the same socket.
UniqueHandles ==
  \A i, j \in Entries : table[i].isUsed /\ table[j].isUsed /\ i # j =>
    Name(table[i]) # Name(table[j]) /\ table[i].socketNumber # table[j].socketNumber

\* The three records the server keeps of its clients agree: num_clients
\* counts the sockets it polls, at most MaxClients, and every handle in use belongs to a client
\* that was started with it and whose socket is polled, so that its departure
\* will be noticed and the handle freed.
RecordsAgree ==
  /\ num_clients = Cardinality({u \in Users : Polled(u)}) /\ num_clients <= MaxClients
  /\ \A i \in Entries : table[i].isUsed =>
       \E u \in Users : /\ Polled(u) /\ table[i].socketNumber = socket[u]
                        /\ Name(table[i]) = Handle[u]

\* The lookup, which ignores isUsed and compares prefixes, finds the socket of
\* every registered client: an entry that was given up never hides the entry
\* of a client that registered the same handle later.
LookupFindsOwner ==
  \A i \in Entries : table[i].isUsed =>
    getSocketNumber(table, Name(table[i])) = table[i].socketNumber

\* A text for certain handles is sent only to a client with one of them.
ReachesAddressee ==
  \A u \in Users : \A k \in DOMAIN toClient[u] :
    toClient[u][k].flag \in {5, 6} => Handle[u] \in toClient[u][k].text[1].for

\* What the server sends to u in a step.
SentNow(u) == Range(SubSeq(toClient'[u], Len(toClient[u]) + 1, Len(toClient'[u])))

Told(u) == \E pdu \in SentNow(u) : pdu.flag = 7

\* The server reads a text with addressees from u, and perhaps more behind it.
Addresses(u) ==
  Len(toServer'[u]) < Len(toServer[u]) /\ Head(toServer[u]).flag \in {5, 6}

Addressees(u) == Head(toServer[u]).text[1].for

\* The names in that text are the handles: %c sends them as they are, %m those
\* that end where it stops copying, or one character before it, if no entry
\* can hold the tail of a longer one.
SentWhole(u) ==
  \/ Head(toServer[u]).flag = 6
  \/ \A h \in Addressees(u) :
       \/ Len(h) = UniLen
       \/ Len(h) = UniLen - 1 /\ \A g \in Names : Len(g) <= Len(h)

Unknown(h) == \A i \in Entries : Name(table[i]) # h

\* A client is told that an addressee does not exist only about a text of its
\* own.  If its names were sent whole, it is told only if nobody uses one of
\* them; and it is told for certain if the table has never held one of them,
\* unless the client or the server is gone.
AbsentIsReported ==
  [][\A u \in Users :
       /\ Told(u) => Addresses(u)
       /\ Addresses(u) /\ SentWhole(u) =>
            /\ Told(u) => \E h \in Addressees(u) : ~ InUse(table, h)
            /\ (\E h \in Addressees(u) : Unknown(h)) =>
                 Told(u) \/ peer[u] # "up" \/ ~ up']_vars

\* The broadcasts in a sequence of PDUs, as ChatRoom names them.
Broadcasts(pdus) ==
  LET texts == Those(pdus, {p \in Range(pdus) : p.flag = 4})
  IN  [k \in DOMAIN texts |-> <<texts[k].text[1].by, texts[k].text[1].n>>]

\* A client whose handle was refused and that the server still listens to.
Guest(u) ==
  /\ up /\ Polled(u) /\ ~ Registered(u)
  /\ \A k \in DOMAIN toServer[u] : toServer[u][k].flag # 1

Inbox == [u \in Users |-> Broadcasts(shown[u] \o toClient[u])]

Abstract == INSTANCE ChatRoom WITH
  Together <- Coalesce,
  open     <- up,
  members  <- {u \in Users : Registered(u)},
  guests   <- {u \in Users : Guest(u)},
  present  <- {u \in Users : peer[u] = "up"},
  spoken   <- [u \in Users |-> said[u] - Len(Broadcasts(toServer[u]))],
  inbox    <- Inbox

\* The server, its clients and the connections between them are one chat room:
\* a broadcast that the server reads goes at once into the stream of every
\* registered client that has not gone.
IsChatRoom == Abstract!Spec

\* Two inboxes hold what both of them hold in the same order; for one inbox
\* this says that nothing is heard twice.
OneOrder(H) ==
  \A u, v \in Users : \A i, j \in DOMAIN H[u] : \A k, l \in DOMAIN H[v] :
    H[u][i] = H[v][k] /\ H[u][j] = H[v][l] => (i < j <=> k < l)

\* All clients see the broadcasts that reach them in one order, and none twice.
SameOrder == OneOrder(Inbox)

\* The server process outlives its clients.
ServerSurvives == up

\* A user who has typed %e is let go, by the server's answer or, when the
\* server dies before or after, by what is left of the connection.
ExitCompletes == \A u \in Users : state[u] = "leaving" ~> state[u] = "gone"

\* A broadcast that is under way while d is registered is printed by d, unless
\* d exits or the server dies first.
BroadcastArrives ==
  \A u, d \in Users : \A n \in 1 .. MaxLines :
    (/\ u # d /\ Registered(d)
     /\ \E k \in DOMAIN toServer[u] : toServer[u][k].flag = 4
                                      /\ toServer[u][k].text = <<Line(u, n, {})>>)
      ~> (\/ state[d] = "gone" \/ ~ up
          \/ \E k \in DOMAIN shown[d] : shown[d][k].text = <<Line(u, n, {})>>)

\* A client the server has accepted and does not read although it could.
Unread(u) == up /\ socket[u] # 0 /\ toServer[u] # <<>>

\* Nothing keeps pollCall from a client for ever but a connection that waits
\* while there is no room for it, and lower sockets with something to read:
\* the sockets of clients that have gone do not.
StarvedOnlyByLower ==
  \A u \in Users :
    []<>(\/ ~ Unread(u)
         \/ backlog # <<>> /\ ~ Room
         \/ \E v \in Users : Unread(v) /\ socket[v] < socket[u])
==============================================================================
