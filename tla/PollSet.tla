------------------------------- MODULE PollSet -------------------------------
(***************************************************************************)
(* Any program's use of pollLib.c: sockets are added, removed and polled   *)
(* in any order.  members is what the program means the set to be.         *)
(***************************************************************************)
EXTENDS PollLib

CONSTANTS
  Sockets,       \* descriptors the program may add
  StdinHangsUp   \* standard input may hang up (a closed pipe or terminal)

ASSUME SocketsAssumption == Sockets \subseteq Nat /\ StdinHangsUp \in BOOLEAN

VARIABLES
  poll,      \* pollFileDescriptors, maxFileDescriptor, currentPollSetSize
  members,   \* the sockets added and not removed since
  called     \* the last pollCall: what was readable, who was in, the result

vars == <<poll, members, called>>

Init ==
  /\ poll = setupPollSet
  /\ members = {}
  /\ called = [readable |-> {}, members |-> {}, result |-> Timeout]

Add(s) ==
  /\ poll' = addToPollSet(poll, s)
  /\ members' = members \cup {s}
  /\ UNCHANGED called

Remove(s) ==
  /\ s \in members
  /\ poll' = removeFromPollSet(poll, s)
  /\ members' = members \ {s}
  /\ UNCHANGED called

Call(readable, hungUp) ==
  /\ called' = [readable |-> readable, members |-> members,
                result |-> pollCall(poll, readable, hungUp)]
  /\ UNCHANGED <<poll, members>>

HungUp == IF StdinHangsUp THEN {{}, {Stdin}} ELSE {{}}

Next ==
  \/ \E s \in Sockets : Add(s) \/ Remove(s)
  \/ \E readable \in SUBSET Sockets, hungUp \in HungUp : Call(readable, hungUp)

Spec == Init /\ [][Next]_vars

-----------------------------------------------------------------------------

\* Type correctness of the array, its size and the bound of pollCall's loop.
TypeOK ==
  /\ poll = [fds |-> poll.fds, maxFileDescriptor |-> poll.maxFileDescriptor,
             currentPollSetSize |-> poll.currentPollSetSize]
  /\ poll.maxFileDescriptor \in Nat /\ poll.currentPollSetSize \in Nat
  /\ poll.fds \in [0 .. (poll.currentPollSetSize - 1) -> [fd : Nat, events : BOOLEAN]]
  /\ members \subseteq Sockets

\* The array represents the set: growing it loses no member, and neither a
\* removal nor the slack of a growth leaves anything behind.  The loop of
\* pollCall reaches every member and stays inside the array.
Represents ==
  /\ poll.maxFileDescriptor <= poll.currentPollSetSize
  /\ \A s \in members : s < poll.maxFileDescriptor
  /\ \A i \in DOMAIN poll.fds :
       poll.fds[i] = IF i \in members THEN [fd |-> i, events |-> TRUE] ELSE Unset

\* pollCall's own comment: it returns the socket number if one is ready for
\* read, and -1 if a timeout occurred.  Of several it returns the lowest.
ReturnsReadySocket ==
  LET ready == called.readable \cap called.members
  IN  called.result = IF ready = {} THEN Timeout ELSE Min(ready)
==============================================================================
