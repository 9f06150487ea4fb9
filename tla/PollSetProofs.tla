---------------------------- MODULE PollSetProofs ----------------------------
(***************************************************************************)
(* The array of pollLib.c represents the set of sockets the program means, *)
(* for every initial size, every set of descriptors and every sequence of  *)
(* calls, and pollCall keeps its promise as long as standard input does    *)
(* not hang up.                                                            *)
(***************************************************************************)
EXTENDS PollSet, TLAPS

USE PollSetSizeAssumption, SocketsAssumption

Inv == TypeOK /\ Represents

LEMMA InitInv == Init => Inv
  BY DEF Init, Inv, TypeOK, Represents, setupPollSet, Unset, Stdin

\* Adding a socket, with or without a growth of the array.
LEMMA AddStep ==
  ASSUME Inv, NEW s \in Sockets, Add(s)
  PROVE  Inv'
<1> s \in Nat /\ s + 1 \in Nat /\ s + PollSetSize \in Nat
  OBVIOUS
<1> DEFINE size == poll.currentPollSetSize
           fds == poll.fds
           max == poll.maxFileDescriptor
           newSize == IF s >= size THEN s + PollSetSize ELSE size
           grown == [i \in 0 .. (newSize - 1) |-> IF i < size THEN fds[i] ELSE Unset]
<1>1. /\ size \in Nat /\ max \in Nat /\ max <= size
      /\ fds \in [0 .. (size - 1) -> [fd : Nat, events : BOOLEAN]]
      /\ members \subseteq Sockets
      /\ \A k \in members : k < max
      /\ \A i \in 0 .. (size - 1) :
           fds[i] = IF i \in members THEN [fd |-> i, events |-> TRUE] ELSE Unset
  BY DEF Inv, TypeOK, Represents
<1>2. /\ newSize \in Nat /\ newSize >= size /\ s < newSize
      /\ s < size => newSize = size
  BY <1>1
<1>3. /\ poll' = [fds |-> [grown EXCEPT ![s] = [fd |-> s, events |-> TRUE]],
                  maxFileDescriptor |-> IF s + 1 >= max THEN s + 1 ELSE max,
                  currentPollSetSize |-> newSize]
  <2> DEFINE q == RoomFor(poll, s)
  <2>1. /\ q.fds = grown /\ q.maxFileDescriptor = max
        /\ q.currentPollSetSize = newSize
    <3>1. CASE s >= size
      BY <3>1 DEF RoomFor, growPollSet
    <3>2. CASE ~ s >= size
      <4>1. q = poll /\ newSize = size
        BY <3>2 DEF RoomFor
      <4>2. \A i \in 0 .. (size - 1) : i < size
        BY <1>1
      <4>3. fds = [i \in 0 .. (size - 1) |-> fds[i]]
        BY <1>1
      <4>4. grown = fds
        BY <4>1, <4>2, <4>3
      <4>5. QED
        BY <4>1, <4>4
    <3>3. QED
      BY <3>1, <3>2
  <2>2. poll' = addToPollSet(poll, s)
    BY DEF Add
  <2>3. QED
    BY <2>1, <2>2 DEF addToPollSet
<1>4. \A i \in 0 .. (newSize - 1) : grown[i] =
        IF i \in members THEN [fd |-> i, events |-> TRUE] ELSE Unset
  <2> TAKE i \in 0 .. (newSize - 1)
  <2>1. grown[i] = IF i < size THEN fds[i] ELSE Unset
    OBVIOUS
  <2>2. CASE i < size
    BY <1>1, <2>1, <2>2
  <2>3. CASE ~ i < size
    <3>1. i \notin members
      BY <1>1, <1>2, <2>3
    <3>2. QED
      BY <2>1, <2>3, <3>1
  <2>4. QED
    BY <2>2, <2>3
<1>5. \A i \in 0 .. (newSize - 1) : poll'.fds[i] =
        IF i \in members \cup {s} THEN [fd |-> i, events |-> TRUE] ELSE Unset
  BY <1>2, <1>3, <1>4
<1>6. /\ DOMAIN poll'.fds = 0 .. (newSize - 1)
      /\ poll'.fds \in [0 .. (newSize - 1) -> [fd : Nat, events : BOOLEAN]]
  <2>1. DOMAIN poll'.fds = 0 .. (newSize - 1)
    BY <1>3
  <2>2. poll'.fds = [i \in 0 .. (newSize - 1) |-> poll'.fds[i]]
    BY <1>3
  <2>3. \A i \in 0 .. (newSize - 1) : poll'.fds[i] \in [fd : Nat, events : BOOLEAN]
    <3> TAKE i \in 0 .. (newSize - 1)
    <3>1. i \in Nat
      BY <1>2
    <3>2. /\ [fd |-> i, events |-> TRUE] \in [fd : Nat, events : BOOLEAN]
          /\ Unset \in [fd : Nat, events : BOOLEAN]
      BY <3>1 DEF Unset, Stdin
    <3>3. QED
      BY <1>5, <3>2
  <2>4. QED
    BY <2>1, <2>2, <2>3
<1>7. members' = members \cup {s}
  BY DEF Add
<1>8. TypeOK'
  BY <1>1, <1>2, <1>3, <1>6, <1>7 DEF TypeOK
<1>9. Represents'
  <2>1. /\ poll'.maxFileDescriptor = (IF s + 1 >= max THEN s + 1 ELSE max)
        /\ poll'.currentPollSetSize = newSize
    BY <1>3
  <2>2. poll'.maxFileDescriptor <= poll'.currentPollSetSize
    BY <1>1, <1>2, <2>1
  <2>3. ASSUME NEW k \in members' PROVE k < poll'.maxFileDescriptor
    <3>1. k \in Nat /\ s \in Nat /\ max \in Nat /\ (k = s \/ k < max)
      BY <1>1, <1>7 DEF Inv, TypeOK
    <3>2. QED
      BY ONLY <2>1, <3>1
  <2>4. \A i \in DOMAIN poll'.fds :
          poll'.fds[i] = IF i \in members' THEN [fd |-> i, events |-> TRUE] ELSE Unset
    BY ONLY <1>5, <1>6, <1>7
  <2>5. QED
    BY ONLY <2>2, <2>3, <2>4 DEF Represents
<1>10. QED
  BY <1>8, <1>9 DEF Inv

\* Removing a member.
LEMMA RemoveStep ==
  ASSUME Inv, NEW s \in Sockets, Remove(s)
  PROVE  Inv'
<1>1. /\ poll.currentPollSetSize \in Nat /\ poll.maxFileDescriptor \in Nat
      /\ s \in DOMAIN poll.fds /\ s \in Nat
  BY DEF Inv, TypeOK, Represents, Remove
<1>2. /\ poll' = [fds |-> [poll.fds EXCEPT ![s] = Unset],
                  maxFileDescriptor |-> poll.maxFileDescriptor,
                  currentPollSetSize |-> poll.currentPollSetSize]
      /\ members' = members \ {s}
  BY DEF Inv, TypeOK, Remove, removeFromPollSet
<1>3. TypeOK'
  BY <1>1, <1>2 DEF Inv, TypeOK, Unset, Stdin
<1>4. Represents'
  BY <1>1, <1>2 DEF Inv, TypeOK, Represents
<1>5. QED
  BY <1>3, <1>4 DEF Inv

LEMMA NextStep == Inv /\ [Next]_vars => Inv'
<1> SUFFICES ASSUME Inv, [Next]_vars PROVE Inv'
  OBVIOUS
<1>1. ASSUME NEW s \in Sockets, Add(s) \/ Remove(s) PROVE Inv'
  BY <1>1, AddStep, RemoveStep
<1>2. ASSUME UNCHANGED <<poll, members>> PROVE Inv'
  BY <1>2 DEF Inv, TypeOK, Represents
<1>3. QED
  BY <1>1, <1>2 DEF Next, Call, vars

\* The array and its bounds have their types in every state: no index that
\* addToPollSet, removeFromPollSet or pollCall uses is outside the array.
THEOREM TypeCorrect == Spec => []TypeOK
  BY InitInv, NextStep, PTL DEF Spec, Inv

\* The array represents the set of sockets added and not removed since, for
\* every order of calls and however often it grows.
THEOREM RepresentsCorrect == Spec => []Represents
  BY InitInv, NextStep, PTL DEF Spec, Inv

\* What poll() reports for a represented set when nothing has hung up.
LEMMA ReadyMembers ==
  ASSUME Inv, NEW readable
  PROVE  Revents(poll, readable, {}) = readable \cap members
<1> DEFINE max == poll.maxFileDescriptor
<1>1. \A k \in members : k \in 0 .. (max - 1)
  BY DEF Inv, TypeOK, Represents
<1>2. ASSUME NEW i \in 0 .. (max - 1)
      PROVE  (poll.fds[i].events /\ poll.fds[i].fd \in readable)
               <=> i \in readable \cap members
  <2>1. i \in DOMAIN poll.fds
    BY DEF Inv, TypeOK, Represents
  <2>2. poll.fds[i] = IF i \in members THEN [fd |-> i, events |-> TRUE] ELSE Unset
    BY <2>1 DEF Inv, Represents
  <2>3. CASE i \in members
    <3>1. poll.fds[i].events = TRUE /\ poll.fds[i].fd = i
      BY <2>2, <2>3
    <3>2. QED
      BY <3>1, <2>3
  <2>4. CASE i \notin members
    <3>1. poll.fds[i].events = FALSE
      BY <2>2, <2>4 DEF Unset
    <3>2. QED
      BY <3>1, <2>4
  <2>5. QED
    BY <2>3, <2>4
<1>3. Revents(poll, readable, {}) =
        {i \in 0 .. (max - 1) : poll.fds[i].events /\ poll.fds[i].fd \in readable}
  BY DEF Revents
<1>4. QED
  BY <1>1, <1>2, <1>3

\* pollCall returns the lowest member that is ready for read and -1 if there
\* is none, as its comment says, provided standard input never hangs up.
THEOREM ReturnsReadySocketCorrect ==
  ASSUME ~ StdinHangsUp
  PROVE  Spec => []ReturnsReadySocket
<1>1. Init => ReturnsReadySocket
  BY DEF Init, ReturnsReadySocket
<1>2. Inv /\ ReturnsReadySocket /\ [Next]_vars => ReturnsReadySocket'
  <2> SUFFICES ASSUME Inv, ReturnsReadySocket, [Next]_vars
               PROVE  ReturnsReadySocket'
    OBVIOUS
  <2>1. ASSUME NEW readable \in SUBSET Sockets, NEW hungUp \in HungUp,
               Call(readable, hungUp)
        PROVE  ReturnsReadySocket'
    <3>1. hungUp = {}
      BY DEF HungUp
    <3>2. called'.result = pollCall(poll, readable, {})
          /\ called'.readable = readable /\ called'.members = members
      BY <2>1, <3>1 DEF Call
    <3>3. Revents(poll, readable, {}) = readable \cap members
      BY ReadyMembers
    <3>4. QED
      BY <3>2, <3>3 DEF pollCall, ReturnsReadySocket
  <2>2. ASSUME UNCHANGED called PROVE ReturnsReadySocket'
    BY <2>2 DEF ReturnsReadySocket
  <2>3. QED
    BY <2>1, <2>2 DEF Next, Add, Remove, vars
<1>3. QED
  BY <1>1, <1>2, InitInv, NextStep, PTL DEF Spec
==============================================================================
