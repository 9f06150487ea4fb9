------------------------------- MODULE PollLib -------------------------------
(***************************************************************************)
(* pollLib.c, the poll set that the chat programs (Program_2) and rcopy    *)
(* (Program_3) share: an array indexed by socket number whose elements     *)
(* name the descriptor to poll.  The elements of sockets that are not in   *)
(* the set name descriptor 0, standard input, and ask for no events, which *)
(* still reports a hang-up of it.                                          *)
(***************************************************************************)
EXTENDS Integers, FiniteSetsExt

CONSTANT PollSetSize  \* POLL_SET_SIZE: the initial size and the slack of a growth

ASSUME PollSetSizeAssumption == PollSetSize \in Nat \ {0}

Stdin   == 0
Timeout == -1

Unset == [fd |-> Stdin, events |-> FALSE]

setupPollSet ==
  [fds |-> [i \in 0 .. (PollSetSize - 1) |-> Unset],
   maxFileDescriptor |-> 0, currentPollSetSize |-> PollSetSize]

\* The new elements are zeroed, the old ones kept (its exit on a size that
\* does not grow is out of reach: addToPollSet asks for more than there is).
MutantGrowPollSet(p, newSetSize) ==
  [fds |-> [i \in 0 .. (newSetSize - 1) |-> Unset],
   maxFileDescriptor |-> p.maxFileDescriptor, currentPollSetSize |-> newSetSize]

MutantGrowPollSetSize(p, newSetSize) ==
  [p EXCEPT !.fds = [i \in 0 .. (newSetSize - 1) |->
                       IF i < p.currentPollSetSize THEN p.fds[i] ELSE Unset]]

growPollSet(p, newSetSize) ==
  [fds |-> [i \in 0 .. (newSetSize - 1) |->
              IF i < p.currentPollSetSize THEN p.fds[i] ELSE Unset],
   maxFileDescriptor |-> p.maxFileDescriptor, currentPollSetSize |-> newSetSize]

\* The set with an element for socketNumber.
RoomFor(p, socketNumber) ==
  IF socketNumber >= p.currentPollSetSize
  THEN growPollSet(p, socketNumber + PollSetSize) ELSE p

MutantAddToPollSet(p, socketNumber) ==
  LET q == RoomFor(p, socketNumber)
  IN  [fds |-> [q.fds EXCEPT ![socketNumber] = [fd |-> socketNumber, events |-> TRUE]],
       maxFileDescriptor |-> socketNumber + 1,
       currentPollSetSize |-> q.currentPollSetSize]

addToPollSet(p, socketNumber) ==
  LET q == RoomFor(p, socketNumber)
  IN  [fds |-> [q.fds EXCEPT ![socketNumber] = [fd |-> socketNumber, events |-> TRUE]],
       maxFileDescriptor |-> IF socketNumber + 1 >= q.maxFileDescriptor
                             THEN socketNumber + 1 ELSE q.maxFileDescriptor,
       currentPollSetSize |-> q.currentPollSetSize]

removeFromPollSet(p, socketNumber) ==
  [fds |-> [p.fds EXCEPT ![socketNumber] = Unset],
   maxFileDescriptor |-> p.maxFileDescriptor,
   currentPollSetSize |-> p.currentPollSetSize]

\* The elements for which poll() reports something, given the descriptors
\* that have input and those that have hung up.
Revents(p, readable, hungUp) ==
  {i \in 0 .. (p.maxFileDescriptor - 1) :
     \/ p.fds[i].fd \in hungUp
     \/ p.fds[i].events /\ p.fds[i].fd \in readable}

\* The first of them, or -1 when poll() times out.
pollCall(p, readable, hungUp) ==
  LET ready == Revents(p, readable, hungUp)
  IN  IF ready = {} THEN Timeout ELSE Min(ready)
==============================================================================
