------------------------------- MODULE ChatFlow -------------------------------
(***************************************************************************)
(* Flow control in the chat programs (Program_2): what each process waits  *)
(* for.  send blocks while the connection's buffer is full, and both the   *)
(* server and the clients have one thread; a client looks at its server    *)
(* only when standard input has nothing, and getchar takes more from       *)
(* standard input than the line that is read.  Chat has what the PDUs      *)
(* mean; here they are broadcasts, requests to exit, their answers and     *)
(* others, between clients whose handles have been accepted.               *)
(*                                                                         *)
(* A client is named by the server's socket for it, since pollCall serves  *)
(* the lowest first.  Standard input is a terminal, which hands over a     *)
(* line at a time and does not end; a file, which is there from the start  *)
(* and always ready; or a pipe, which hands over what it holds and hangs   *)
(* up when the writer closes it.                                           *)
(*                                                                         *)
(* recvPDU takes whatever has arrived and its caller looks at the first    *)
(* PDU only, here as in Chat; read means taken by recvPDU.                 *)
(***************************************************************************)
EXTENDS Integers, SequencesExt

CONSTANTS
  Clients,   \* the server's sockets
  Scripted,  \* the clients whose standard input is a file
  Piped,     \* the clients whose standard input is a pipe
  UpSize,    \* PDUs that fit into a connection on the way to the server
  DownSize,  \* and on the way to the client
  MaxLines,  \* bound: lines that are typed or written for a client
  LastIsExit \* a file or a pipe ends behind a %e, and only there

ASSUME FlowAssumption ==
  /\ Clients \subseteq Nat /\ Piped \subseteq Clients
  /\ Scripted \subseteq Clients \ Piped
  /\ {UpSize, DownSize} \subseteq Nat \ {0} /\ MaxLines \in Nat /\ LastIsExit \in BOOLEAN

VARIABLES
  \* standard input of each client
  typed,     \* lines the kernel or the file holds
  stdio,     \* lines getchar has taken from it and that were not read yet
  closed,    \* the writer has closed the pipe
  lines,     \* lines there have been
  \* the clients
  state,     \* "on", "leaving" (standard input removed), "gone"
  sending,   \* the PDU a client is in sendPDU with, or <<>>
  \* the server
  up,        \* the process runs
  polled,    \* the clients in its poll set
  pending,   \* what it has to send before it polls again: [to, pdu]
  \* the connections
  toServer, toClient,
  reset,     \* clients that exited with PDUs unread
  merged     \* history: clients whose %e, or the answer to it, was taken
             \* together with a PDU before it

inputVars  == <<typed, closed, lines>>
clientVars == <<stdio, state, sending>>
serverVars == <<up, polled, pending>>
vars == <<inputVars, clientVars, serverVars, toServer, toClient, reset, merged>>

Commands == {"%b", "%e"}

\* What a file may hold.
Scripts ==
  {s \in BoundedSeq(Commands, MaxLines) : LastIsExit =>
     s # <<>> /\ \A i \in DOMAIN s : s[i] = "%e" <=> i = Len(s)}

Rest(queue, k) == SubSeq(queue, k + 1, Len(queue))

\* send finds room in a connection.
Room(queue, size) == Len(queue) < size

Init ==
  /\ typed \in {t \in [Clients -> Scripts \cup {<<>>}] :
                 \A c \in Clients : IF c \in Scripted THEN t[c] \in Scripts ELSE t[c] = <<>>}
  /\ stdio = [c \in Clients |-> <<>>]
  /\ closed = [c \in Clients |-> FALSE] /\ lines = [c \in Clients |-> 0]
  /\ state = [c \in Clients |-> "on"] /\ sending = [c \in Clients |-> <<>>]
  /\ up = TRUE /\ polled = Clients /\ pending = <<>>
  /\ toServer = [c \in Clients |-> <<>>] /\ toClient = [c \in Clients |-> <<>>]
  /\ reset = {} /\ merged = {}

-----------------------------------------------------------------------------
(* Standard input. *)

\* The writer of a pipe may close it behind a line, and with LastIsExit does
\* so exactly behind a %e.
TypeLine(c, command) ==
  /\ c \notin Scripted /\ lines[c] < MaxLines /\ ~ closed[c]
  /\ typed' = [typed EXCEPT ![c] = Append(@, command)]
  /\ lines' = [lines EXCEPT ![c] = @ + 1]
  /\ \E last \in BOOLEAN :
       /\ last => c \in Piped
       /\ LastIsExit /\ c \in Piped => last = (command = "%e")
       /\ closed' = [closed EXCEPT ![c] = last]
  /\ UNCHANGED <<clientVars, serverVars, toServer, toClient, reset, merged>>

-----------------------------------------------------------------------------
(* The client: clientControl. *)

\* What poll reports for standard input, the client's lowest descriptor.  Lines
\* in stdio's buffer are not seen, a file is always ready, and so is a pipe that
\* was closed, also when removeFromPollSet(0) has left descriptor 0 in the set
\* with no events to ask for: poll reports a hang-up whatever it is asked for.
MutantStdinReady(c) ==
  \/ c \in Piped /\ closed[c]
  \/ c \in Scripted \/ typed[c] # <<>>

StdinReady(c) ==
  \/ c \in Piped /\ closed[c]
  \/ state[c] = "on" /\ (c \in Scripted \/ typed[c] # <<>>)

\* getchar with an empty buffer: read(2) takes a line from a terminal, and
\* everything there is from a file or a pipe.
MutantFilled(c) == IF stdio[c] # <<>> THEN stdio[c] ELSE typed[c]

Filled(c) ==
  IF stdio[c] # <<>> THEN stdio[c]
  ELSE IF c \in Scripted \cup Piped THEN typed[c] ELSE SubSeq(typed[c], 1, 1)

Left(c) == IF stdio[c] # <<>> THEN typed[c] ELSE Rest(typed[c], Len(Filled(c)))

\* readFromStdin at the end of the input fills its buffer with EOF characters.
EofLine == "eof"

\* processStdin up to sendPDU.
readFromStdin(c) ==
  /\ state[c] # "gone" /\ sending[c] = <<>> /\ StdinReady(c)
  /\ sending' = [sending EXCEPT ![c] =
       <<IF Filled(c) = <<>> THEN EofLine ELSE Head(Filled(c))>>]
  /\ stdio' = [stdio EXCEPT ![c] = IF Filled(c) = <<>> THEN <<>> ELSE Tail(Filled(c))]
  /\ typed' = [typed EXCEPT ![c] = Left(c)]
  /\ UNCHANGED <<closed, lines, state, serverVars, toServer, toClient, reset, merged>>

\* sendPDU returns: standard input leaves the poll set after %e.
ClientSends(c) ==
  /\ sending[c] # <<>> /\ Room(toServer[c], UpSize)
  /\ toServer' = [toServer EXCEPT ![c] = @ \o sending[c]]
  /\ state' = IF sending[c] = <<"%e">> THEN [state EXCEPT ![c] = "leaving"] ELSE state
  /\ sending' = [sending EXCEPT ![c] = <<>>]
  /\ UNCHANGED <<inputVars, stdio, serverVars, toClient, reset, merged>>

\* The socket is looked at when standard input is not ready.
MutantSocketTurn(c) == state[c] = "on" /\ ~ StdinReady(c)

SocketTurn(c) == ~ StdinReady(c)

\* The PDUs recvPDU takes with the first one.
With(queue, k) == ToSet(SubSeq(queue, 2, k))

processMsgFromServer(c) ==
  /\ state[c] # "gone" /\ sending[c] = <<>> /\ SocketTurn(c)
  /\ \E k \in 1 .. Len(toClient[c]) :
       /\ toClient' = [toClient EXCEPT ![c] = Rest(@, k)]
       /\ merged' = IF "bye" \in With(toClient[c], k) THEN merged \cup {c} ELSE merged
       /\ \/ /\ Head(toClient[c]) = "bye"
             /\ state' = [state EXCEPT ![c] = "gone"]
             /\ reset' = IF k < Len(toClient[c]) THEN reset \cup {c} ELSE reset
          \/ /\ Head(toClient[c]) # "bye"
             /\ UNCHANGED <<state, reset>>
  /\ UNCHANGED <<inputVars, stdio, sending, serverVars, toServer>>

ClientStep(c) == readFromStdin(c) \/ ClientSends(c) \/ processMsgFromServer(c)

-----------------------------------------------------------------------------
(* The server: serverControl. *)

Ready == {c \in polled : toServer[c] # <<>> \/ state[c] = "gone"}

\* pollCall returns the lowest ready socket.
Served == Min(Ready)

\* What checkFlag sends for a PDU of c, in the order of the table.
Answers(c, pdu) ==
  LET others == SetToSortSeq(polled \ {c}, <)
  IN  CASE pdu = "%b" -> [i \in DOMAIN others |-> [to |-> others[i], pdu |-> "text"]]
        [] pdu = "%e" -> <<[to |-> c, pdu |-> "bye"]>>
        [] OTHER      -> <<>>

\* recvFromClient up to the first sendPDU, with a PDU to read, at the end of
\* the connection and when it was reset.
recvFromClient ==
  /\ pending = <<>> /\ Ready # {}
  /\ LET c == Served
     IN  \/ /\ toServer[c] # <<>>
            /\ pending' = Answers(c, Head(toServer[c]))
            /\ \E k \in 1 .. Len(toServer[c]) :
                 /\ toServer' = [toServer EXCEPT ![c] = Rest(@, k)]
                 /\ merged' = IF "%e" \in With(toServer[c], k) THEN merged \cup {c} ELSE merged
            /\ UNCHANGED <<up, polled>>
         \/ /\ toServer[c] = <<>>
            /\ up' = (c \notin reset)
            /\ polled' = polled \ {c}
            /\ UNCHANGED <<pending, toServer, merged>>
  /\ UNCHANGED <<inputVars, clientVars, toClient, reset>>

\* sendPDU returns, or ends the process when the client is gone.
ServerSends ==
  /\ pending # <<>>
  /\ LET to == Head(pending).to
     IN  \/ /\ state[to] # "gone" /\ Room(toClient[to], DownSize)
            /\ toClient' = [toClient EXCEPT ![to] = Append(@, Head(pending).pdu)]
            /\ pending' = Tail(pending) /\ UNCHANGED up
         \/ /\ state[to] = "gone"
            /\ up' \in (IF to \in reset THEN {FALSE} ELSE BOOLEAN)
            /\ pending' = Tail(pending) /\ UNCHANGED toClient
  /\ UNCHANGED <<inputVars, clientVars, polled, toServer, reset, merged>>

ServerStep == recvFromClient \/ ServerSends

-----------------------------------------------------------------------------

\* Nothing is modelled after the death of the server.
Next ==
  /\ up
  /\ \/ ServerStep
     \/ \E c \in Clients :
          \/ \E command \in Commands : TypeLine(c, command)
          \/ ClientStep(c)

Spec == Init /\ [][Next]_vars

\* Every process runs unless it is blocked.
FairSpec == Spec /\ WF_vars(up /\ ServerStep) /\ \A c \in Clients : WF_vars(up /\ ClientStep(c))

-----------------------------------------------------------------------------
(* Properties. *)

\* The server and a client are both in send, each waiting for room that only the
\* other could make: neither will ever read again.
SendDeadlock ==
  /\ pending # <<>>
  /\ LET c == Head(pending).to
     IN  /\ state[c] # "gone" /\ sending[c] # <<>>
         /\ ~ Room(toServer[c], UpSize) /\ ~ Room(toClient[c], DownSize)

\* Every PDU is read, at both ends, although the server serves low sockets
\* first and a client its standard input; the one thing that keeps a PDU from
\* being read is a server and a client that wait for each other in sendPDU.
EverythingIsRead ==
  \A c \in Clients :
    /\ toServer[c] # <<>> ~> toServer[c] = <<>> \/ SendDeadlock \/ ~ up
    /\ toClient[c] # <<>> ~>
         toClient[c] = <<>> \/ state[c] = "gone" \/ SendDeadlock \/ ~ up

\* The lines of c's standard input that were not read.
Waiting(c) == stdio[c] \o typed[c]

\* A line that is typed at a terminal is sent, and does not wait in a buffer
\* for the next one.
TypedIsSent ==
  \A c \in Clients \ (Scripted \cup Piped) :
    Waiting(c) # <<>> ~>
      Waiting(c) = <<>> \/ state[c] # "on" \/ SendDeadlock \/ ~ up

\* A client whose standard input is a script that ends in %e sends every line of
\* it and exits, although getchar takes more lines than it returns and poll does
\* not see them; the answer that lets it go must not be read with another PDU.
ScriptCompletes ==
  \A c \in Scripted :
    <> (\/ stdio[c] = <<>> /\ (state[c] = "gone" \/ c \in merged)
        \/ SendDeadlock \/ ~ up)
===============================================================================
