----------------------------- MODULE ChatProofs -----------------------------
(***************************************************************************)
(* The chat programs, for every number of clients, every size of the table *)
(* and of the poll set, with shared handles, clients that are refused,     *)
(* killed or leave, PDUs read together and a server that dies.             *)
(*                                                                         *)
(* First the server's records of its clients: the table of handles, the    *)
(* poll set, the number of clients and the sockets.  Then what is sent to  *)
(* whom.  Then the server, its clients and the connections implement       *)
(* ChatRoom, and so all hear what they share in one order.  At the end:    *)
(* what a sender is told of addressees who are not there.                  *)
(***************************************************************************)
EXTENDS Chat, BasicLemmas, FiniteSetTheorems, SequenceTheorems, TLAPS

USE TableSizeAssumption, PollSetSizeAssumption, ChatAssumption, HandleAssumption

-----------------------------------------------------------------------------
(* Those picks elements out of a sequence. *)

\* f holds what Those has picked of the first n elements, for every n.
Picks(seq, set, n, f) ==
  f = [k \in 0 .. n |->
         IF k = 0 THEN <<>>
         ELSE IF seq[k] \in set THEN Append(f[k - 1], seq[k]) ELSE f[k - 1]]

LEMMA PicksExist ==
  ASSUME NEW seq, NEW set, NEW m \in Nat
  PROVE  \E f : Picks(seq, set, m, f)
<1> DEFINE S == {n \in Nat : \E f : Picks(seq, set, n, f)}
<1>1. 0 \in S
  <2>1. PICK f : f = [k \in 0 .. 0 |-> <<>>]
    OBVIOUS
  <2>2. Picks(seq, set, 0, f)
    BY <2>1 DEF Picks
  <2>3. QED
    BY <2>2
<1>2. ASSUME NEW n \in Nat, n \in S PROVE n + 1 \in S
  <2>1. PICK f : Picks(seq, set, n, f)
    BY <1>2
  <2>2. PICK last : last = IF seq[n + 1] \in set THEN Append(f[n], seq[n + 1]) ELSE f[n]
    OBVIOUS
  <2>3. PICK g : g = [k \in 0 .. (n + 1) |-> IF k = n + 1 THEN last ELSE f[k]]
    OBVIOUS
  <2>4. \A k \in 0 .. n : f[k] =
          IF k = 0 THEN <<>>
          ELSE IF seq[k] \in set THEN Append(f[k - 1], seq[k]) ELSE f[k - 1]
    BY <2>1 DEF Picks
  <2>5. g[n + 1] = last /\ \A k \in 0 .. n : g[k] = f[k]
    BY <2>3
  <2>6. \A k \in 0 .. (n + 1) : g[k] =
          IF k = 0 THEN <<>>
          ELSE IF seq[k] \in set THEN Append(g[k - 1], seq[k]) ELSE g[k - 1]
    <3> TAKE k \in 0 .. (n + 1)
    <3>1. CASE k = n + 1
      BY <2>2, <2>5, <3>1
    <3>2. CASE k = 0
      BY <2>4, <2>5, <3>2
    <3>3. CASE k \in 1 .. n
      <4>1. k - 1 \in 0 .. n /\ k \in 0 .. n /\ k # 0
        BY <3>3
      <4>2. QED
        BY <2>4, <2>5, <4>1
    <3>4. QED
      BY <3>1, <3>2, <3>3
  <2>7. Picks(seq, set, n + 1, g)
    <3>1. g = [k \in 0 .. (n + 1) |-> g[k]]
      BY <2>3
    <3>2. QED
      BY <2>6, <3>1 DEF Picks
  <2>8. QED
    BY <2>7
<1> HIDE DEF S
<1>3. m \in S
  BY <1>1, <1>2, NumbersInduction
<1>4. QED
  BY <1>3 DEF S

LEMMA ThosePicks ==
  ASSUME NEW seq, NEW set, Len(seq) \in Nat
  PROVE  \E f : Picks(seq, set, Len(seq), f) /\ Those(seq, set) = f[Len(seq)]
<1> DEFINE f == CHOOSE g : Picks(seq, set, Len(seq), g)
<1>1. Picks(seq, set, Len(seq), f)
  BY PicksExist, Zenon
<1>2. Those(seq, set) = f[Len(seq)]
  BY DEF Those, Picks
<1>3. QED
  BY <1>1, <1>2

\* Only elements of the sequence and of the set are picked.
LEMMA ThoseAre ==
  ASSUME NEW S, NEW seq \in Seq(S), NEW set
  PROVE  Those(seq, set) \in Seq(S \cap set)
<1>1. Len(seq) \in Nat
  OBVIOUS
<1>2. PICK f : Picks(seq, set, Len(seq), f) /\ Those(seq, set) = f[Len(seq)]
  BY <1>1, ThosePicks
<1>3. \A k \in 0 .. Len(seq) : f[k] =
        IF k = 0 THEN <<>>
        ELSE IF seq[k] \in set THEN Append(f[k - 1], seq[k]) ELSE f[k - 1]
  BY <1>2 DEF Picks
<1> DEFINE N == {n \in Nat : n <= Len(seq) => f[n] \in Seq(S \cap set)}
<1>4. 0 \in N
  <2>1. f[0] = <<>>
    BY <1>1, <1>3
  <2>2. f[0] \in Seq(S \cap set)
    BY <2>1, EmptySeq
  <2>3. QED
    BY <2>2
<1>5. ASSUME NEW n \in Nat, n \in N PROVE n + 1 \in N
  <2> SUFFICES ASSUME n + 1 <= Len(seq) PROVE f[n + 1] \in Seq(S \cap set)
    OBVIOUS
  <2>1. f[n] \in Seq(S \cap set) /\ seq[n + 1] \in S
    BY <1>1, <1>5
  <2>2. f[n + 1] = IF seq[n + 1] \in set THEN Append(f[n], seq[n + 1]) ELSE f[n]
    BY <1>1, <1>3
  <2>3. QED
    BY <2>1, <2>2
<1> HIDE DEF N
<1>6. Len(seq) \in N
  BY <1>1, <1>4, <1>5, NumbersInduction
<1>7. QED
  BY <1>1, <1>2, <1>6 DEF N

-----------------------------------------------------------------------------
(* The table of handles. *)

\* What an entry holds and a PDU names is made of.
Chars == STRING \cup {NUL, "text"}

LEMMA HandleType ==
  ASSUME NEW u \in Users
  PROVE  Handle[u] \in Seq(Chars) /\ Len(Handle[u]) > 0
<1>1. Handle[u] \in Seq(STRING) /\ STRING \subseteq Chars
  BY DEF Chars
<1>2. Handle[u] \in Seq(Chars)
  BY <1>1, SeqMonotonic
<1>3. QED
  BY <1>2

EntryRecords == [isUsed : BOOLEAN, handle : Seq(Chars), handlelength : Nat,
                 socketNumber : Nat]

\* The entry addHandle takes is free, and those before it are not.
LEMMA FirstFreeEntry ==
  ASSUME NEW t, NEW handle, ~ Refused(t, handle)
  PROVE  /\ FreeEntry(t) \in Entries /\ ~ t[FreeEntry(t)].isUsed
         /\ \A j \in Entries : j < FreeEntry(t) => t[j].isUsed
         /\ \A i \in Entries : t[i].isUsed => Name(t[i]) # handle
<1>1. FreeEntries(t) \in SUBSET Nat /\ FreeEntries(t) # {}
  BY DEF Refused, FreeEntries, Entries
<1>2. FreeEntry(t) \in FreeEntries(t) /\ \A y \in FreeEntries(t) : FreeEntry(t) <= y
  BY <1>1, MinProperty DEF FreeEntry
<1>3. QED
  BY <1>1, <1>2 DEF FreeEntries, Refused, InUse, Entries

\* Copying a handle over an older one leaves the new one at the beginning.
LEMMA OverlayBegins ==
  ASSUME NEW new \in Seq(Chars), NEW old \in Seq(Chars)
  PROVE  /\ Overlay(new, old) \in Seq(Chars)
         /\ Len(new) <= Len(Overlay(new, old))
         /\ SubSeq(Overlay(new, old), 1, Len(new)) = new
<1> DEFINE tail == SubSeq(old, Len(new) + 1, Len(old))
<1>1. tail \in Seq(Chars)
  OBVIOUS
<1> HIDE DEF tail
<1>2. Overlay(new, old) = new \o tail
  BY DEF Overlay, tail
<1>3. QED
  BY <1>1, <1>2

LEMMA Added ==
  ASSUME NEW t \in [Entries -> EntryRecords], NEW handle \in Seq(Chars),
         NEW s \in Nat, ~ Refused(t, handle)
  PROVE  LET new == addHandle(t, handle, s)
             i == FreeEntry(t)
         IN  /\ new \in [Entries -> EntryRecords]
             /\ \A j \in Entries \ {i} : new[j] = t[j]
             /\ new[i].isUsed /\ new[i].socketNumber = s
             /\ new[i].handlelength = Len(handle)
             /\ Len(handle) <= Len(new[i].handle) /\ Name(new[i]) = handle
<1> DEFINE i == FreeEntry(t)
           e == [isUsed |-> TRUE, handle |-> Overlay(handle, t[i].handle),
                 handlelength |-> Len(handle), socketNumber |-> s]
<1>1. i \in Entries
  BY FirstFreeEntry
<1>2. t[i].handle \in Seq(Chars)
  BY <1>1 DEF EntryRecords
<1>3. addHandle(t, handle, s) = [t EXCEPT ![i] = e]
  BY DEF addHandle
<1>4. e \in EntryRecords
  BY <1>2, OverlayBegins DEF EntryRecords
<1>5. /\ e.isUsed /\ e.socketNumber = s /\ e.handlelength = Len(handle)
      /\ Len(handle) <= Len(e.handle) /\ Name(e) = handle
  BY <1>2, OverlayBegins DEF Name
<1> HIDE DEF i, e
<1>6. /\ [t EXCEPT ![i] = e] \in [Entries -> EntryRecords]
      /\ [t EXCEPT ![i] = e][i] = e
      /\ \A j \in Entries \ {i} : [t EXCEPT ![i] = e][j] = t[j]
  BY <1>1, <1>4
<1>7. QED
  BY <1>3, <1>5, <1>6 DEF i

LEMMA Released ==
  ASSUME NEW t \in [Entries -> EntryRecords], NEW s
  PROVE  /\ release(t, s) \in [Entries -> EntryRecords]
         /\ \A i \in Entries :
              /\ release(t, s)[i].handle = t[i].handle
              /\ release(t, s)[i].handlelength = t[i].handlelength
              /\ release(t, s)[i].socketNumber = t[i].socketNumber
              /\ Name(release(t, s)[i]) = Name(t[i])
              /\ release(t, s)[i].isUsed <=> (t[i].isUsed /\ t[i].socketNumber # s)
<1>1. ASSUME NEW i \in Entries
      PROVE  LET e == release(t, s)[i]
             IN  /\ e \in EntryRecords
                 /\ e.handle = t[i].handle /\ e.handlelength = t[i].handlelength
                 /\ e.socketNumber = t[i].socketNumber
                 /\ e.isUsed <=> (t[i].isUsed /\ t[i].socketNumber # s)
  <2>1. release(t, s)[i] = IF t[i].socketNumber = s
                           THEN [t[i] EXCEPT !.isUsed = FALSE] ELSE t[i]
    BY DEF release
  <2>2. CASE t[i].socketNumber = s
    <3>1. release(t, s)[i] = [t[i] EXCEPT !.isUsed = FALSE] /\ t[i] \in EntryRecords
      BY <2>1, <2>2
    <3>2. QED
      BY <2>2, <3>1 DEF EntryRecords
  <2>3. CASE t[i].socketNumber # s
    BY <2>1, <2>3
  <2>4. QED
    BY <2>2, <2>3
<1>2. DOMAIN release(t, s) = Entries /\ release(t, s) = [i \in Entries |-> release(t, s)[i]]
  BY DEF release
<1>3. QED
  BY <1>1, <1>2 DEF Name

-----------------------------------------------------------------------------
(* The poll set. *)

\* The array has the size it claims, pollCall's loop stays inside it, and an
\* element that asks for events names its own descriptor.
PollOK(p) ==
  /\ p.currentPollSetSize \in Nat /\ p.maxFileDescriptor \in Nat
  /\ p.maxFileDescriptor <= p.currentPollSetSize
  /\ DOMAIN p.fds = 0 .. (p.currentPollSetSize - 1)
  /\ \A i \in DOMAIN p.fds : p.fds[i].events => p.fds[i].fd = i

LEMMA RoomMade ==
  ASSUME NEW p, PollOK(p), NEW s \in Nat
  PROVE  LET q == RoomFor(p, s)
         IN  /\ PollOK(q) /\ s \in DOMAIN q.fds
             /\ \A i \in DOMAIN p.fds : i \in DOMAIN q.fds /\ q.fds[i] = p.fds[i]
<1>1. CASE s >= p.currentPollSetSize
  <2> DEFINE size == p.currentPollSetSize
             newSize == s + PollSetSize
             q == RoomFor(p, s)
  <2>1. newSize \in Nat /\ size \in Nat /\ size <= newSize /\ s < newSize
    BY <1>1 DEF PollOK
  <2>2. /\ q.currentPollSetSize = newSize /\ q.maxFileDescriptor = p.maxFileDescriptor
        /\ q.fds = [i \in 0 .. (newSize - 1) |-> IF i < size THEN p.fds[i] ELSE Unset]
    BY <1>1 DEF RoomFor, growPollSet
  <2> HIDE DEF newSize, q
  <2>3. /\ DOMAIN q.fds = 0 .. (newSize - 1)
        /\ \A i \in 0 .. (newSize - 1) : q.fds[i] = IF i < size THEN p.fds[i] ELSE Unset
    BY <2>2
  <2>4. \A i \in DOMAIN p.fds : i \in 0 .. (newSize - 1) /\ i < size
    BY <2>1 DEF PollOK
  <2>5. \A i \in DOMAIN q.fds : q.fds[i].events => q.fds[i].fd = i
    <3> TAKE i \in DOMAIN q.fds
    <3>1. CASE i < size
      <4>1. i \in DOMAIN p.fds /\ q.fds[i] = p.fds[i]
        BY <2>1, <2>3, <3>1 DEF PollOK
      <4>2. QED
        BY <4>1 DEF PollOK
    <3>2. CASE ~ i < size
      <4>1. q.fds[i] = Unset
        BY <2>3, <3>2
      <4>2. QED
        BY <4>1 DEF Unset
    <3>3. QED
      BY <3>1, <3>2
  <2>6. s \in DOMAIN q.fds
    BY <2>1, <2>3
  <2>7. \A i \in DOMAIN p.fds : i \in DOMAIN q.fds /\ q.fds[i] = p.fds[i]
    BY <2>3, <2>4
  <2>8. PollOK(q)
    BY <2>1, <2>2, <2>3, <2>5 DEF PollOK
  <2>9. QED
    BY <2>6, <2>7, <2>8 DEF q
<1>2. CASE ~ s >= p.currentPollSetSize
  BY <1>2 DEF RoomFor, PollOK
<1>3. QED
  BY <1>1, <1>2

LEMMA AddedToPoll ==
  ASSUME NEW p, PollOK(p), NEW s \in Nat
  PROVE  LET q == addToPollSet(p, s)
         IN  /\ PollOK(q) /\ s \in DOMAIN q.fds /\ q.fds[s].events
             /\ \A i \in DOMAIN p.fds \ {s} : i \in DOMAIN q.fds /\ q.fds[i] = p.fds[i]
<1> DEFINE r == RoomFor(p, s)
           q == addToPollSet(p, s)
           e == [fd |-> s, events |-> TRUE]
<1>1. /\ PollOK(r) /\ s \in DOMAIN r.fds
      /\ \A i \in DOMAIN p.fds : i \in DOMAIN r.fds /\ r.fds[i] = p.fds[i]
  BY RoomMade
<1>2. /\ q.fds = [r.fds EXCEPT ![s] = e]
      /\ q.maxFileDescriptor = IF s + 1 >= r.maxFileDescriptor
                               THEN s + 1 ELSE r.maxFileDescriptor
      /\ q.currentPollSetSize = r.currentPollSetSize
  BY DEF addToPollSet
<1>3. e.fd = s /\ e.events = TRUE
  OBVIOUS
<1> HIDE DEF r, q, e
<1>4. /\ DOMAIN q.fds = DOMAIN r.fds /\ q.fds[s] = e
      /\ \A i \in DOMAIN r.fds \ {s} : q.fds[i] = r.fds[i]
  BY <1>1, <1>2
<1>5. /\ q.maxFileDescriptor \in Nat /\ q.maxFileDescriptor <= q.currentPollSetSize
  BY <1>1, <1>2 DEF PollOK
<1>6. \A i \in DOMAIN q.fds : q.fds[i].events => q.fds[i].fd = i
  BY <1>1, <1>3, <1>4 DEF PollOK
<1>7. PollOK(q)
  BY <1>1, <1>2, <1>4, <1>5, <1>6 DEF PollOK
<1>8. QED
  BY <1>1, <1>3, <1>4, <1>7 DEF q

LEMMA RemovedFromPoll ==
  ASSUME NEW p, PollOK(p), NEW s \in DOMAIN p.fds
  PROVE  LET q == removeFromPollSet(p, s)
         IN  /\ PollOK(q) /\ DOMAIN q.fds = DOMAIN p.fds /\ ~ q.fds[s].events
             /\ \A i \in DOMAIN p.fds \ {s} : q.fds[i] = p.fds[i]
<1> DEFINE q == removeFromPollSet(p, s)
<1>1. /\ q.fds = [p.fds EXCEPT ![s] = Unset]
      /\ q.maxFileDescriptor = p.maxFileDescriptor
      /\ q.currentPollSetSize = p.currentPollSetSize
  BY DEF removeFromPollSet
<1> HIDE DEF q
<1>2. /\ DOMAIN q.fds = DOMAIN p.fds /\ q.fds[s] = Unset
      /\ \A i \in DOMAIN p.fds \ {s} : q.fds[i] = p.fds[i]
  BY <1>1
<1>3. Unset.events = FALSE
  BY DEF Unset
<1>4. \A i \in DOMAIN q.fds : q.fds[i].events => q.fds[i].fd = i
  BY <1>2, <1>3 DEF PollOK
<1>5. QED
  BY <1>1, <1>2, <1>3, <1>4 DEF PollOK, q

\* pollCall returns a socket that is polled and has something to read.
LEMMA ReadySocket ==
  ASSUME NEW p, PollOK(p), NEW readable, pollCall(p, readable, {}) # Timeout
  PROVE  LET s == pollCall(p, readable, {})
         IN  s \in DOMAIN p.fds /\ p.fds[s].events /\ s \in readable
<1> DEFINE R == Revents(p, readable, {})
<1>1. R = {i \in 0 .. (p.maxFileDescriptor - 1) :
             p.fds[i].events /\ p.fds[i].fd \in readable}
  BY DEF Revents
<1>2. R \in SUBSET Nat
  BY <1>1 DEF PollOK
<1>3. R # {} /\ pollCall(p, readable, {}) = Min(R)
  BY DEF pollCall
<1> HIDE DEF R
<1>4. PICK s : s = pollCall(p, readable, {})
  OBVIOUS
<1>5. s \in R
  BY <1>2, <1>3, <1>4, MinProperty
<1>6. s \in DOMAIN p.fds
  BY <1>1, <1>5 DEF PollOK
<1>7. QED
  BY <1>1, <1>4, <1>5, <1>6 DEF PollOK

-----------------------------------------------------------------------------
(* The inductive invariant of the server's records. *)

LineRecords == [by : Users, n : Nat, for : SUBSET Names]
PduRecords  == [flag : Nat, from : Seq(Chars), dest : Seq(Seq(Chars)),
                text : Seq(LineRecords)]

TypeInv ==
  /\ num_clients \in Nat
  /\ table \in [Entries -> EntryRecords]
  /\ backlog \in Seq(Users)
  /\ socket \in [Users -> Nat]
  /\ state \in [Users -> {"off", "on", "leaving", "gone"}]
  /\ said \in [Users -> Nat]
  /\ toServer \in [Users -> Seq(PduRecords)]

Accepted == {u \in Users : socket[u] # 0}

\* Every accepted connection has a socket of its own, and the next socket is
\* one that nobody has had.
SocketInv ==
  /\ IsFiniteSet(Accepted)
  /\ \A u \in Accepted : MainSocket < socket[u] /\ socket[u] < NextSocket
  /\ \A u, v \in Accepted : socket[u] = socket[v] => u = v

\* A user waits to be accepted once, and only before it is.
WaitInv ==
  /\ \A k, l \in DOMAIN backlog : backlog[k] = backlog[l] => k = l
  /\ \A k \in DOMAIN backlog : socket[backlog[k]] = 0 /\ state[backlog[k]] # "off"
  /\ \A u \in Users : state[u] = "off" => socket[u] = 0

\* num_clients counts the polled sockets, all of them inside the array.
PollInv ==
  /\ PollOK(poll)
  /\ \A u \in Accepted : socket[u] \in DOMAIN poll.fds
  /\ num_clients = Cardinality({u \in Users : Polled(u)}) /\ num_clients <= MaxClients

\* u is the client an entry is about; while it is in use, u is polled.
Owns(u, i) ==
  /\ socket[u] # 0 /\ table[i].socketNumber = socket[u]
  /\ Name(table[i]) = Handle[u]
  /\ table[i].isUsed => Polled(u)

\* An entry was never taken or is about one accepted client, also after it was
\* given up.
OwnerInv ==
  \A i \in Entries :
    \/ ~ table[i].isUsed /\ table[i].handle = <<>>
    \/ /\ table[i].handlelength > 0 /\ table[i].handlelength <= Len(table[i].handle)
       /\ \E u \in Users : Owns(u, i)

\* No entry before one in use has the same handle, whether it is in use or
\* given up; and no two in use have the same socket.
FirstInv ==
  \A i \in Entries : table[i].isUsed =>
    /\ \A j \in Entries : j < i => Name(table[j]) # Name(table[i])
    /\ \A j \in Entries : table[j].isUsed /\ table[j].socketNumber = table[i].socketNumber
                            => i = j

\* A client asks for its handle once, before everything else.
HelloInv ==
  \A u \in Users : \A k \in DOMAIN toServer[u] : toServer[u][k].flag = 1 =>
    /\ k = 1 /\ toServer[u][k].from = Handle[u]
    /\ \A i \in Entries : table[i].isUsed => table[i].socketNumber # socket[u]

RecordsInv ==
  TypeInv /\ SocketInv /\ WaitInv /\ PollInv /\ OwnerInv /\ FirstInv /\ HelloInv

LEMMA RecordsInit == Init => RecordsInv
<1> SUFFICES ASSUME Init PROVE RecordsInv
  OBVIOUS
<1>1. Accepted = {} /\ {u \in Users : Polled(u)} = {}
  BY DEF Init, Accepted, Polled
<1>2. IsFiniteSet({}) /\ Cardinality({}) = 0
  BY FS_EmptySet
<1>3. PollOK(setupPollSet)
  <2>1. DOMAIN setupPollSet.fds = 0 .. (PollSetSize - 1)
    BY DEF setupPollSet
  <2>2. \A i \in DOMAIN setupPollSet.fds : setupPollSet.fds[i].events = FALSE
    BY DEF setupPollSet, Unset
  <2>3. setupPollSet.currentPollSetSize = PollSetSize /\ setupPollSet.maxFileDescriptor = 0
    BY DEF setupPollSet
  <2>4. QED
    BY <2>1, <2>2, <2>3 DEF PollOK
<1>4. PollOK(poll)
  BY <1>3, AddedToPoll DEF Init, MainSocket
<1>5. \A i \in Entries : ~ table[i].isUsed /\ table[i].handle = <<>>
  BY DEF Init, initializeHelper
<1>6. TypeInv
  <2>1. [isUsed |-> FALSE, handle |-> <<>>, handlelength |-> 0, socketNumber |-> 0]
          \in EntryRecords
    BY DEF EntryRecords
  <2>2. table \in [Entries -> EntryRecords]
    BY <2>1 DEF Init, initializeHelper
  <2>3. QED
    BY <2>2 DEF Init, TypeInv
<1>7. SocketInv
  BY <1>1, <1>2 DEF SocketInv
<1>8. WaitInv
  BY DEF Init, WaitInv
<1>9. PollInv
  <2>1. MaxClients \in Nat /\ num_clients = 0
    BY DEF Init
  <2>2. num_clients <= MaxClients
    BY <2>1
  <2>3. QED
    BY <1>1, <1>2, <1>4, <2>1, <2>2, Zenon DEF PollInv
<1>10. OwnerInv /\ FirstInv /\ HelloInv
  BY <1>5 DEF OwnerInv, FirstInv, HelloInv, Init
<1>11. QED
  BY <1>6, <1>7, <1>8, <1>9, <1>10 DEF RecordsInv

\* A connection is accepted: a new socket, polled from now on.
LEMMA AcceptStep ==
  ASSUME RecordsInv, backlog # <<>>, Room, addNewSocket, UNCHANGED clientVars
  PROVE  RecordsInv'
<1> USE DEF RecordsInv
<1>1. PICK h, n : h = Head(backlog) /\ n = NextSocket
  OBVIOUS
<1>2. /\ h \in Users /\ 1 \in DOMAIN backlog /\ h = backlog[1]
      /\ socket[h] = 0 /\ state[h] # "off"
  BY <1>1 DEF TypeInv, WaitInv
<1>3. /\ socket' = [socket EXCEPT ![h] = n] /\ poll' = addToPollSet(poll, n)
      /\ backlog' = Tail(backlog) /\ num_clients' = num_clients + 1
      /\ table' = table /\ toServer' = toServer /\ state' = state /\ said' = said
  BY <1>1 DEF addNewSocket, netVars, clientVars
<1>4. Cardinality(Accepted) \in Nat /\ n = 4 + Cardinality(Accepted) /\ n \in Nat /\ n > 3
  <2>1. Cardinality(Accepted) \in Nat
    BY FS_CardinalityType DEF SocketInv
  <2>2. n = 4 + Cardinality(Accepted)
    BY <1>1, <2>1 DEF NextSocket, MainSocket, Accepted
  <2>3. QED
    BY <2>1, <2>2
<1>5. /\ socket' \in [Users -> Nat] /\ socket'[h] = n
      /\ \A u \in Users : u # h => socket'[u] = socket[u]
      /\ Accepted' = Accepted \cup {h} /\ h \notin Accepted
  <2>1. /\ socket' \in [Users -> Nat] /\ socket'[h] = n
        /\ \A u \in Users : u # h => socket'[u] = socket[u]
    BY <1>2, <1>3, <1>4 DEF TypeInv
  <2>2. h \notin Accepted /\ socket'[h] # 0
    BY <1>2, <1>4, <2>1 DEF Accepted
  <2>3. Accepted' = Accepted \cup {h}
    BY <1>2, <2>1, <2>2 DEF Accepted
  <2>4. QED
    BY <2>1, <2>2, <2>3
<1>6. /\ IsFiniteSet(Accepted)' /\ Cardinality(Accepted)' = Cardinality(Accepted) + 1
  BY <1>5, FS_AddElement DEF SocketInv
<1>7. NextSocket' = n + 1
  BY <1>4, <1>6 DEF NextSocket, MainSocket, Accepted
<1>8. \A u \in Accepted : socket[u] \in Nat /\ socket[u] < n /\ u # h /\ u \in Users
  BY <1>1, <1>5 DEF SocketInv, TypeInv, Accepted
<1>9. TypeInv'
  BY <1>3, <1>5 DEF TypeInv
<1>10. SocketInv'
  <2>1. \A u \in Accepted' : MainSocket < socket'[u] /\ socket'[u] < n + 1
    BY <1>4, <1>5, <1>8 DEF SocketInv, MainSocket
  <2>2. \A u, v \in Accepted' : socket'[u] = socket'[v] => u = v
    BY <1>4, <1>5, <1>8 DEF SocketInv
  <2>3. QED
    BY <1>6, <1>7, <2>1, <2>2 DEF SocketInv, MainSocket
<1>11. WaitInv'
  <2>1. /\ DOMAIN backlog' = 1 .. (Len(backlog) - 1) /\ DOMAIN backlog = 1 .. Len(backlog)
        /\ Len(backlog) \in Nat
        /\ \A k \in DOMAIN backlog' : backlog'[k] = backlog[k + 1]
    BY <1>2, <1>3 DEF TypeInv
  <2>2. \A k \in DOMAIN backlog' : k + 1 \in DOMAIN backlog /\ k + 1 # 1
    BY <2>1
  <2>3. \A k \in DOMAIN backlog' : backlog'[k] # h /\ backlog'[k] \in Users
    <3> TAKE k \in DOMAIN backlog'
    <3>1. backlog[k + 1] # backlog[1]
      BY <1>2, <2>2 DEF WaitInv
    <3>2. backlog[k + 1] \in Users
      BY <2>2 DEF TypeInv
    <3>3. QED
      BY <1>2, <2>1, <3>1, <3>2
  <2>4. \A k, l \in DOMAIN backlog' : backlog'[k] = backlog'[l] => k = l
    BY <2>1, <2>2 DEF WaitInv
  <2>5. \A k \in DOMAIN backlog' : socket'[backlog'[k]] = 0 /\ state'[backlog'[k]] # "off"
    BY <1>3, <1>5, <2>1, <2>2, <2>3 DEF WaitInv
  <2>6. \A u \in Users : state'[u] = "off" => socket'[u] = 0
    BY <1>2, <1>3, <1>5 DEF WaitInv
  <2>7. QED
    BY <2>4, <2>5, <2>6 DEF WaitInv
<1>12. /\ PollOK(poll') /\ n \in DOMAIN poll'.fds /\ poll'.fds[n].events
       /\ \A i \in DOMAIN poll.fds \ {n} : i \in DOMAIN poll'.fds /\ poll'.fds[i] = poll.fds[i]
  BY <1>3, <1>4, AddedToPoll DEF PollInv
<1>13. \A u \in Accepted : socket[u] \in DOMAIN poll'.fds
                            /\ poll'.fds[socket[u]] = poll.fds[socket[u]]
  BY <1>4, <1>8, <1>12 DEF PollInv
<1>14. Polled(h)' /\ \A u \in Users : u # h => (Polled(u)' <=> Polled(u))
  <2>1. Polled(h)'
    BY <1>4, <1>5, <1>12 DEF Polled
  <2>2. ASSUME NEW u \in Users, u # h PROVE Polled(u)' <=> Polled(u)
    <3>1. CASE u \in Accepted
      BY <1>5, <1>13, <2>2, <3>1 DEF Polled
    <3>2. CASE u \notin Accepted
      BY <1>5, <2>2, <3>2 DEF Polled, Accepted
    <3>3. QED
      BY <3>1, <3>2
  <2>3. QED
    BY <2>1, <2>2
<1>15. PollInv'
  <2> DEFINE P == {u \in Users : Polled(u)}
  <2>1. P' = P \cup {h} /\ h \notin P
    BY <1>2, <1>14 DEF Polled
  <2>2. P \subseteq Accepted
    BY DEF Polled, Accepted
  <2>3. IsFiniteSet(P)
    BY <2>2, FS_Subset DEF SocketInv
  <2>4. Cardinality(P') = Cardinality(P) + 1
    BY <2>1, <2>3, FS_AddElement
  <2>5. num_clients' = Cardinality(P') /\ num_clients = Cardinality(P)
    BY <1>3, <2>4 DEF PollInv
  <2> HIDE DEF P
  <2>6. MaxClients \in Nat /\ num_clients \in Nat /\ num_clients < MaxClients
    BY DEF TypeInv, Room
  <2>7. num_clients' <= MaxClients
    BY <1>3, <2>6
  <2>8. \A u \in Accepted' : socket'[u] \in DOMAIN poll'.fds
    BY <1>5, <1>8, <1>12, <1>13
  <2>9. QED
    BY <1>12, <2>5, <2>7, <2>8 DEF PollInv, P
<1>16. \A u \in Users, i \in Entries : Owns(u, i) => Owns(u, i)'
  BY <1>2, <1>3, <1>5, <1>14 DEF Owns
<1>17. OwnerInv'
  BY <1>3, <1>16 DEF OwnerInv
<1>18. FirstInv'
  BY <1>3 DEF FirstInv
<1>19. HelloInv'
  <2>1. \A i \in Entries : table[i].isUsed => table[i].socketNumber < n
    BY <1>8 DEF OwnerInv, Owns, Accepted
  <2>2. \A i \in Entries : table[i].isUsed => table[i].socketNumber # n
    BY <1>4, <2>1
  <2>3. QED
    BY <1>2, <1>3, <1>5, <2>2 DEF HelloInv
<1>20. QED
  BY <1>9, <1>10, <1>11, <1>15, <1>17, <1>18, <1>19

\* What recvPDU hands on has the flag, the sender and the addressees of the
\* first PDU it has read.
LEMMA MergedHead ==
  ASSUME NEW q \in Seq(PduRecords), q # <<>>, NEW k \in recvPDU(q)
  PROVE  /\ k \in 1 .. Len(q)
         /\ Merged(SubSeq(q, 1, k)).flag = q[1].flag
         /\ Merged(SubSeq(q, 1, k)).from = q[1].from
         /\ Merged(SubSeq(q, 1, k)).dest = q[1].dest
<1>1. Len(q) \in Nat /\ Len(q) >= 1
  OBVIOUS
<1>2. k \in 1 .. Len(q)
  BY <1>1 DEF recvPDU
<1>3. SubSeq(q, 1, k)[1] = q[1] /\ q[1] \in PduRecords
  BY <1>1, <1>2
<1>4. PICK r : r = q[1]
  OBVIOUS
<1>5. \/ Merged(SubSeq(q, 1, k)) = r
      \/ Merged(SubSeq(q, 1, k)) = [r EXCEPT !.text = Append(@, Swallowed)]
  BY <1>3, <1>4 DEF Merged
<1>6. /\ [r EXCEPT !.text = Append(@, Swallowed)].flag = r.flag
      /\ [r EXCEPT !.text = Append(@, Swallowed)].from = r.from
      /\ [r EXCEPT !.text = Append(@, Swallowed)].dest = r.dest
  BY <1>3, <1>4 DEF PduRecords
<1>7. QED
  BY <1>2, <1>4, <1>5, <1>6

LEMMA RestOfQueue ==
  ASSUME NEW S, NEW q \in Seq(S), NEW k \in 1 .. Len(q)
  PROVE  /\ Rest(q, k) \in Seq(S)
         /\ \A i \in DOMAIN Rest(q, k) : /\ i + k \in DOMAIN q /\ Rest(q, k)[i] = q[i + k]
                                         /\ i + k # 1
  BY DEF Rest

\* A step that leaves the server's records alone keeps the invariant when the
\* connections stay in order.
LEMMA QueueStep ==
  ASSUME RecordsInv, UNCHANGED <<num_clients, table, poll, backlog, socket>>,
         state' \in [Users -> {"off", "on", "leaving", "gone"}],
         \A u \in Users : state'[u] = "off" => state[u] = "off",
         said' \in [Users -> Nat], toServer' \in [Users -> Seq(PduRecords)],
         HelloInv'
  PROVE  RecordsInv'
<1> USE DEF RecordsInv
<1>1. TypeInv'
  BY DEF TypeInv
<1>2. SocketInv'
  BY DEF SocketInv, Accepted, NextSocket
<1>3. WaitInv'
  BY DEF WaitInv, TypeInv
<1>4. PollInv'
  <2>1. \A u : Polled(u)' <=> Polled(u)
    BY DEF Polled
  <2>2. Accepted' = Accepted
    BY DEF Accepted
  <2>3. {u \in Users : Polled(u)'} = {u \in Users : Polled(u)}
    BY <2>1, Zenon
  <2>4. QED
    BY <2>2, <2>3, Zenon DEF PollInv
<1>5. OwnerInv'
  BY DEF OwnerInv, Owns, Polled
<1>6. FirstInv'
  BY DEF FirstInv
<1>7. QED
  BY <1>1, <1>2, <1>3, <1>4, <1>5, <1>6

\* The PDUs read from a connection are gone from it, and with them the request
\* for a handle.
LEMMA ReadQueue ==
  ASSUME RecordsInv, NEW u \in Users, toServer[u] # <<>>, NEW k \in recvPDU(toServer[u]),
         toServer' = [toServer EXCEPT ![u] = Rest(@, k)]
  PROVE  /\ toServer' \in [Users -> Seq(PduRecords)]
         /\ \A v \in Users : v # u => toServer'[v] = toServer[v]
         /\ \A l \in DOMAIN toServer'[u] : toServer'[u][l].flag # 1
<1>1. toServer[u] \in Seq(PduRecords) /\ k \in 1 .. Len(toServer[u])
  BY MergedHead DEF RecordsInv, TypeInv
<1>2. /\ Rest(toServer[u], k) \in Seq(PduRecords)
      /\ \A i \in DOMAIN Rest(toServer[u], k) :
           /\ i + k \in DOMAIN toServer[u] /\ Rest(toServer[u], k)[i] = toServer[u][i + k]
           /\ i + k # 1
  BY <1>1, RestOfQueue
<1>3. \A i \in DOMAIN Rest(toServer[u], k) : Rest(toServer[u], k)[i].flag # 1
  BY <1>2 DEF RecordsInv, HelloInv
<1>4. /\ toServer'[u] = Rest(toServer[u], k)
      /\ \A v \in Users : v # u => toServer'[v] = toServer[v]
  BY DEF RecordsInv, TypeInv
<1>5. toServer' \in [Users -> Seq(PduRecords)]
  BY <1>2 DEF RecordsInv, TypeInv
<1>6. QED
  BY <1>3, <1>4, <1>5

\* A handle is registered: for a client that had asked and had none.
LEMMA RegisterStep ==
  ASSUME RecordsInv, NEW u \in Users, Polled(u),
         1 \in DOMAIN toServer[u], toServer[u][1].flag = 1,
         ~ Refused(table, Handle[u]), table' = addHandle(table, Handle[u], socket[u]),
         toServer' \in [Users -> Seq(PduRecords)],
         \A v \in Users : v # u => toServer'[v] = toServer[v],
         \A l \in DOMAIN toServer'[u] : toServer'[u][l].flag # 1,
         UNCHANGED <<num_clients, poll, backlog, socket, state, said>>
  PROVE  RecordsInv'
<1> USE DEF RecordsInv
<1>1. PICK f : f = FreeEntry(table)
  OBVIOUS
<1>2. /\ f \in Entries /\ ~ table[f].isUsed
      /\ \A j \in Entries : j < f => table[j].isUsed
      /\ \A i \in Entries : table[i].isUsed => Name(table[i]) # Handle[u]
  BY <1>1, FirstFreeEntry
<1>3. Handle[u] \in Seq(Chars) /\ socket[u] \in Nat /\ Len(Handle[u]) > 0
  BY HandleType DEF TypeInv
<1>4. /\ table' \in [Entries -> EntryRecords]
      /\ \A j \in Entries : j # f => table'[j] = table[j]
      /\ table'[f].isUsed /\ table'[f].socketNumber = socket[u]
      /\ table'[f].handlelength = Len(Handle[u])
      /\ Len(Handle[u]) <= Len(table'[f].handle) /\ Name(table'[f]) = Handle[u]
  <2>1. table \in [Entries -> EntryRecords]
    BY DEF TypeInv
  <2>2. \A j \in Entries : j # f => j \in Entries \ {f}
    OBVIOUS
  <2> DEFINE new == addHandle(table, Handle[u], socket[u])
             i == FreeEntry(table)
  <2>3. /\ new \in [Entries -> EntryRecords]
        /\ \A j \in Entries \ {i} : new[j] = table[j]
        /\ new[i].isUsed /\ new[i].socketNumber = socket[u]
        /\ new[i].handlelength = Len(Handle[u])
        /\ Len(Handle[u]) <= Len(new[i].handle) /\ Name(new[i]) = Handle[u]
    BY <1>3, <2>1, Added
  <2>4. table' = new /\ f = i
    BY <1>1
  <2> HIDE DEF new, i
  <2>5. QED
    BY <2>2, <2>3, <2>4
<1>5. \A i \in Entries : table[i].isUsed => table[i].socketNumber # socket[u]
  BY DEF HelloInv
<1>6. TypeInv'
  BY <1>4 DEF TypeInv
<1>7. SocketInv' /\ WaitInv' /\ PollInv'
  <2>1. SocketInv'
    BY DEF SocketInv, Accepted, NextSocket
  <2>2. WaitInv'
    BY DEF WaitInv
  <2>3. {v \in Users : Polled(v)'} = {v \in Users : Polled(v)} /\ Accepted' = Accepted
    BY DEF Polled, Accepted
  <2>4. PollInv'
    BY <2>3, Zenon DEF PollInv
  <2>5. QED
    BY <2>1, <2>2, <2>4
<1>8. OwnerInv'
  <2>1. Owns(u, f)'
    BY <1>4 DEF Owns, Polled
  <2>2. \A i \in Entries : i # f => \A v \in Users : Owns(v, i) => Owns(v, i)'
    BY <1>4 DEF Owns, Polled
  <2>3. table'[f].handlelength > 0 /\ table'[f].handlelength <= Len(table'[f].handle)
    BY <1>3, <1>4
  <2>4. QED
    BY <1>4, <2>1, <2>2, <2>3 DEF OwnerInv
<1>9. FirstInv'
  <2>1. ASSUME NEW i \in Entries, table'[i].isUsed
        PROVE  /\ \A j \in Entries : j < i => Name(table'[j]) # Name(table'[i])
               /\ \A j \in Entries : table'[j].isUsed
                    /\ table'[j].socketNumber = table'[i].socketNumber => i = j
    <3>1. CASE i = f
      <4>1. \A j \in Entries : j < i => j # f
        BY <3>1 DEF Entries
      <4>2. QED
        BY <1>2, <1>4, <1>5, <3>1, <4>1
    <3>2. CASE i # f
      <4>1. table'[i] = table[i] /\ Name(table[i]) # Handle[u]
            /\ table[i].socketNumber # socket[u]
        BY <1>2, <1>4, <1>5, <2>1, <3>2
      <4>2. ASSUME NEW j \in Entries, j < i PROVE Name(table'[j]) # Name(table'[i])
        <5>1. Name(table[j]) # Name(table[i])
          BY <2>1, <4>1, <4>2 DEF FirstInv
        <5>2. QED
          BY <1>4, <4>1, <5>1
      <4>3. ASSUME NEW j \in Entries, table'[j].isUsed,
                   table'[j].socketNumber = table'[i].socketNumber
            PROVE  i = j
        <5>1. j # f
          BY <1>4, <4>1, <4>3
        <5>2. table'[j] = table[j]
          BY <1>4, <5>1
        <5>3. QED
          BY <2>1, <4>1, <4>3, <5>2 DEF FirstInv
      <4>4. QED
        BY <4>2, <4>3
    <3>3. QED
      BY <3>1, <3>2
  <2>2. QED
    BY <2>1 DEF FirstInv
<1>10. HelloInv'
  <2>1. \A v \in Users : v # u => socket[v] # socket[u]
    BY DEF SocketInv, Accepted, Polled
  <2>2. ASSUME NEW v \in Users, v # u, NEW l \in DOMAIN toServer'[v],
               toServer'[v][l].flag = 1
        PROVE  /\ l = 1 /\ toServer'[v][l].from = Handle[v]
               /\ \A i \in Entries : table'[i].isUsed => table'[i].socketNumber # socket'[v]
    <3>1. toServer'[v] = toServer[v] /\ socket'[v] = socket[v]
      BY <2>2
    <3>2. /\ l = 1 /\ toServer[v][l].from = Handle[v]
          /\ \A i \in Entries : table[i].isUsed => table[i].socketNumber # socket[v]
      BY <2>2, <3>1 DEF HelloInv
    <3>3. \A i \in Entries : table'[i].isUsed => table'[i].socketNumber # socket[v]
      BY <1>4, <2>1, <2>2, <3>2
    <3>4. QED
      BY <3>1, <3>2, <3>3
  <2>3. QED
    BY <2>2 DEF HelloInv
<1>11. QED
  BY <1>6, <1>7, <1>8, <1>9, <1>10

\* The server reads from a client it polls.
LEMMA ReadStep ==
  ASSUME RecordsInv, NEW u \in Users, Polled(u), RecvData(u), UNCHANGED clientVars
  PROVE  RecordsInv'
<1>1. PICK k \in recvPDU(toServer[u]) :
        LET pdu == Merged(SubSeq(toServer[u], 1, k))
        IN  /\ toServer' = [toServer EXCEPT ![u] = Rest(@, k)]
            /\ \/ Dies
               \/ /\ table' = TableAfter(socket[u], pdu)
                  /\ UNCHANGED <<up, num_clients, poll, backlog, socket, link>>
  BY DEF RecvData
<1>2. PICK pdu : pdu = Merged(SubSeq(toServer[u], 1, k))
  OBVIOUS
<1>3. toServer[u] # <<>> /\ toServer[u] \in Seq(PduRecords) /\ 1 \in DOMAIN toServer[u]
  BY DEF RecvData, RecordsInv, TypeInv
<1>4. pdu.flag = toServer[u][1].flag /\ pdu.from = toServer[u][1].from
  BY <1>2, <1>3, MergedHead
<1>5. /\ toServer' \in [Users -> Seq(PduRecords)]
      /\ \A v \in Users : v # u => toServer'[v] = toServer[v]
      /\ \A l \in DOMAIN toServer'[u] : toServer'[u][l].flag # 1
  BY <1>1, <1>3, ReadQueue
<1>6. state' = state /\ said' = said
  BY DEF clientVars
<1>7. UNCHANGED <<num_clients, poll, backlog, socket>>
  BY <1>1 DEF Dies
<1>8. CASE table' = table
  <2>1. HelloInv'
    BY <1>5, <1>7, <1>8 DEF RecordsInv, HelloInv
  <2>2. /\ state' \in [Users -> {"off", "on", "leaving", "gone"}]
        /\ said' \in [Users -> Nat]
    BY <1>6 DEF RecordsInv, TypeInv
  <2>3. QED
    BY <1>5, <1>6, <1>7, <1>8, <2>1, <2>2, QueueStep
<1>9. CASE table' # table
  <2>1. table' = TableAfter(socket[u], pdu)
    BY <1>1, <1>2, <1>9 DEF Dies
  <2>2. pdu.flag = 1 /\ table' = addHandle(table, pdu.from, socket[u])
    BY <1>9, <2>1 DEF TableAfter
  <2>3. pdu.from = Handle[u] /\ toServer[u][1].flag = 1
    BY <1>3, <1>4, <2>2 DEF RecordsInv, HelloInv
  <2>4. ~ Refused(table, Handle[u])
    BY <1>9, <2>2, <2>3 DEF addHandle
  <2>5. QED
    BY <1>3, <1>5, <1>6, <1>7, <2>2, <2>3, <2>4, RegisterStep
<1>10. QED
  BY <1>8, <1>9

\* The end of a client's connection is noticed.
LEMMA CloseStep ==
  ASSUME RecordsInv, NEW u \in Users, Polled(u),
         num_clients' = num_clients - 1, poll' = removeFromPollSet(poll, socket[u]),
         table' = release(table, socket[u]),
         UNCHANGED <<backlog, socket, toServer, state, said>>
  PROVE  RecordsInv'
<1> USE DEF RecordsInv
<1>1. socket[u] # 0 /\ u \in Accepted /\ socket[u] \in DOMAIN poll.fds /\ PollOK(poll)
  BY DEF Polled, Accepted, PollInv
<1>2. /\ PollOK(poll') /\ DOMAIN poll'.fds = DOMAIN poll.fds /\ ~ poll'.fds[socket[u]].events
      /\ \A i \in DOMAIN poll.fds \ {socket[u]} : poll'.fds[i] = poll.fds[i]
  BY <1>1, RemovedFromPoll
<1>3. \A v \in Accepted : v # u => socket[v] # socket[u]
  BY <1>1 DEF SocketInv
<1>4. ~ Polled(u)' /\ \A v \in Users : v # u => (Polled(v)' <=> Polled(v))
  <2>1. ~ Polled(u)'
    BY <1>2 DEF Polled
  <2>2. ASSUME NEW v \in Users, v # u PROVE Polled(v)' <=> Polled(v)
    <3>1. CASE v \in Accepted
      <4>1. socket[v] \in DOMAIN poll.fds \ {socket[u]}
        BY <1>3, <2>2, <3>1 DEF PollInv
      <4>2. QED
        BY <1>2, <4>1 DEF Polled
    <3>2. CASE v \notin Accepted
      BY <3>2 DEF Polled, Accepted
    <3>3. QED
      BY <3>1, <3>2
  <2>3. QED
    BY <2>1, <2>2
<1>5. PollInv' /\ num_clients' \in Nat
  <2> DEFINE P == {v \in Users : Polled(v)}
  <2>1. P' = P \ {u} /\ u \in P
    BY <1>4
  <2>2. P \subseteq Accepted
    BY DEF Polled, Accepted
  <2>3. IsFiniteSet(P)
    BY <2>2, FS_Subset DEF SocketInv
  <2>4. Cardinality(P') = Cardinality(P) - 1 /\ IsFiniteSet(P')
    <3>1. /\ IsFiniteSet(P \ {u})
          /\ Cardinality(P \ {u}) = IF u \in P THEN Cardinality(P) - 1 ELSE Cardinality(P)
      BY <2>3, FS_RemoveElement, Zenon
    <3> HIDE DEF P
    <3>2. QED
      BY <2>1, <3>1, Zenon
  <2>5. num_clients = Cardinality(P) /\ num_clients <= MaxClients
    BY DEF PollInv
  <2> HIDE DEF P
  <2>6. Cardinality(P') \in Nat
    BY <2>4, FS_CardinalityType
  <2>7. MaxClients \in Nat /\ num_clients \in Nat
    BY DEF TypeInv
  <2>8. num_clients' = Cardinality(P') /\ num_clients' <= MaxClients
    BY <2>4, <2>5, <2>7
  <2>9. Accepted' = Accepted
    BY DEF Accepted
  <2>10. \A v \in Accepted' : socket'[v] \in DOMAIN poll'.fds
    BY <1>2, <2>9 DEF PollInv
  <2>11. QED
    BY <1>2, <2>6, <2>8, <2>10, Zenon DEF PollInv, P
<1>6. table \in [Entries -> EntryRecords]
  BY DEF TypeInv
<1>7. /\ table' \in [Entries -> EntryRecords]
      /\ \A i \in Entries :
           /\ table'[i].handle = table[i].handle
           /\ table'[i].handlelength = table[i].handlelength
           /\ table'[i].socketNumber = table[i].socketNumber
           /\ Name(table'[i]) = Name(table[i])
           /\ table'[i].isUsed <=> (table[i].isUsed /\ table[i].socketNumber # socket[u])
  BY <1>6, Released
<1>8. TypeInv'
  BY <1>5, <1>7 DEF TypeInv
<1>9. SocketInv' /\ WaitInv'
  BY DEF SocketInv, WaitInv, Accepted, NextSocket
<1>10. OwnerInv'
  <2>1. \A i \in Entries, v \in Users : Owns(v, i) => Owns(v, i)'
    BY <1>4, <1>7 DEF Owns
  <2>2. QED
    BY <1>7, <2>1 DEF OwnerInv
<1>11. FirstInv'
  <2>1. ASSUME NEW i \in Entries, table'[i].isUsed
        PROVE  /\ \A j \in Entries : j < i => Name(table'[j]) # Name(table'[i])
               /\ \A j \in Entries : table'[j].isUsed
                    /\ table'[j].socketNumber = table'[i].socketNumber => i = j
    <3>1. table[i].isUsed
      BY <1>7, <2>1
    <3>2. \A j \in Entries : j < i => Name(table'[j]) # Name(table'[i])
      BY <1>7, <3>1 DEF FirstInv
    <3>3. \A j \in Entries : table'[j].isUsed
            /\ table'[j].socketNumber = table'[i].socketNumber => i = j
      BY <1>7, <3>1 DEF FirstInv
    <3>4. QED
      BY <3>2, <3>3
  <2>2. QED
    BY <2>1 DEF FirstInv
<1>12. HelloInv'
  BY <1>7 DEF HelloInv
<1>13. QED
  BY <1>5, <1>8, <1>9, <1>10, <1>11, <1>12

\* The server's loop.
LEMMA ServerKeepsRecords ==
  ASSUME RecordsInv, ServerStep
  PROVE  RecordsInv'
<1>1. PICK ready : ready = pollCall(poll, Readable, {})
  OBVIOUS
<1>2. PollOK(poll) /\ UNCHANGED clientVars
  BY DEF RecordsInv, PollInv, ServerStep
<1>3. ASSUME Dies, UNCHANGED <<toServer, toClient, peer>> PROVE RecordsInv'
  <2>1. UNCHANGED <<num_clients, table, poll, backlog, socket, state, said, toServer>>
    BY <1>2, <1>3 DEF Dies, clientVars
  <2>2. HelloInv'
    BY <2>1 DEF RecordsInv, HelloInv
  <2>3. /\ state' \in [Users -> {"off", "on", "leaving", "gone"}]
        /\ said' \in [Users -> Nat] /\ toServer' \in [Users -> Seq(PduRecords)]
    BY <2>1 DEF RecordsInv, TypeInv
  <2>4. QED
    BY <2>1, <2>2, <2>3, QueueStep
<1>4. ASSUME ready = MainSocket, Room, addNewSocket PROVE RecordsInv'
  <2>1. MainSocket \in Readable
    BY <1>1, <1>2, <1>4, ReadySocket DEF Timeout, MainSocket
  <2>2. \A u \in Users : socket[u] # MainSocket
    <3> TAKE u \in Users
    <3>1. CASE u \in Accepted
      BY <3>1 DEF RecordsInv, SocketInv, TypeInv, MainSocket
    <3>2. CASE u \notin Accepted
      BY <3>2 DEF Accepted, MainSocket
    <3>3. QED
      BY <3>1, <3>2
  <2>3. backlog # <<>>
    BY <2>1, <2>2 DEF Readable
  <2>4. QED
    BY <1>2, <1>4, <2>3, AcceptStep
<1>5. ASSUME NEW u \in Users, socket[u] = ready, ready # 0,
             RecvData(u) \/ RecvClosed(u) \/ RecvFails(u)
      PROVE  RecordsInv'
  <2>1. ready # Timeout
    BY <1>5 DEF RecordsInv, TypeInv, Timeout
  <2>2. Polled(u)
    BY <1>1, <1>2, <1>5, <2>1, ReadySocket DEF Polled
  <2>3. CASE RecvData(u)
    BY <1>2, <2>2, <2>3, ReadStep
  <2>4. CASE RecvClosed(u)
    <3>1. UNCHANGED <<toServer, toClient, peer>>
      BY <2>4 DEF RecvClosed
    <3>2. CASE Dies
      BY <1>3, <3>1, <3>2
    <3>3. CASE ~ Dies
      BY <1>2, <2>2, <2>4, <3>3, CloseStep DEF RecvClosed, clientVars
    <3>4. QED
      BY <3>2, <3>3
  <2>5. CASE RecvFails(u)
    BY <1>3, <2>5 DEF RecvFails
  <2>6. QED
    BY <1>5, <2>3, <2>4, <2>5
<1>6. CASE ready = MainSocket /\ Room /\ AcceptFails
  BY <1>3, <1>6 DEF AcceptFails
<1>7. QED
  BY <1>1, <1>4, <1>5, <1>6 DEF ServerStep

-----------------------------------------------------------------------------
(* The clients. *)

\* The PDU that a line makes is none that asks for a handle.
LEMMA LinePduTypes ==
  ASSUME RecordsInv, NEW u \in Users, NEW command \in Commands,
         NEW pdu \in LinePdus(u, command)
  PROVE  pdu \in PduRecords /\ pdu.flag # 1
<1>1. said[u] + 1 \in Nat /\ Handle[u] \in Seq(Chars) /\ \A h \in Names : h \in Seq(Chars)
  BY HandleType DEF RecordsInv, TypeInv, Names
<1>2. \A h \in Names : UnicastName(h) \in Seq(Chars)
  <2> TAKE h \in Names
  <2> DEFINE text == [i \in 1 .. UniLen |-> "text"]
  <2>1. UniLen \in Nat
    OBVIOUS
  <2>2. /\ text \in Seq(Chars) /\ Len(text) = UniLen
        /\ <<NUL>> \in Seq(Chars) /\ UniLen \in Nat
    <3>1. text \in [1 .. UniLen -> Chars]
      BY DEF Chars
    <3>2. text \in Seq(Chars) /\ Len(text) = UniLen
      BY <2>1, <3>1, FunctionIsSeq
    <3>3. <<NUL>> \in Seq(Chars)
      BY DEF Chars
    <3>4. QED
      BY <2>1, <3>2, <3>3
  <2> HIDE DEF text
  <2>3. PICK w : w = h \o <<NUL>> \o text
    OBVIOUS
  <2>4. w \in Seq(Chars) /\ Len(w) >= UniLen
    BY <1>1, <2>2, <2>3
  <2>5. SubSeq(w, 1, UniLen) \in Seq(Chars)
    BY <2>2, <2>4
  <2>6. QED
    BY <2>3, <2>5 DEF UnicastName, text
<1>3. \A n \in Nat, for \in SUBSET Names : <<Line(u, n, for)>> \in Seq(LineRecords)
  BY DEF Line, LineRecords
<1>4. \A flag \in Nat \ {1}, from \in Seq(Chars), dest \in Seq(Seq(Chars)),
         text \in Seq(LineRecords) :
        Pdu(flag, from, dest, text) \in PduRecords /\ Pdu(flag, from, dest, text).flag # 1
  BY DEF Pdu, PduRecords
<1> HIDE DEF UnicastName
<1>5. CASE command = "%b"
  <2>1. pdu = Pdu(4, Handle[u], <<>>, <<Line(u, said[u] + 1, {})>>)
    BY <1>5 DEF LinePdus
  <2>2. <<Line(u, said[u] + 1, {})>> \in Seq(LineRecords)
    BY <1>1, <1>3
  <2>3. 4 \in Nat \ {1} /\ <<>> \in Seq(Seq(Chars))
    OBVIOUS
  <2>4. QED
    BY <1>1, <1>4, <2>1, <2>2, <2>3, Zenon
<1>6. CASE command = "%m"
  <2>1. LinePdus(u, command) =
          {Pdu(5, Handle[u], <<UnicastName(h)>>, <<Line(u, 0, {h})>>) : h \in Names}
    BY <1>6 DEF LinePdus
  <2>2. PICK h \in Names : pdu = Pdu(5, Handle[u], <<UnicastName(h)>>, <<Line(u, 0, {h})>>)
    BY <2>1
  <2>3. <<Line(u, 0, {h})>> \in Seq(LineRecords)
    BY <1>3
  <2>4. <<UnicastName(h)>> \in Seq(Seq(Chars)) /\ 5 \in Nat \ {1}
    BY <1>2
  <2>5. QED
    BY <1>1, <1>4, <2>2, <2>3, <2>4, Zenon
<1>7. CASE command = "%c"
  <2>1. PICK g \in Names, h \in Names :
          pdu = Pdu(6, Handle[u], <<g, h>>, <<Line(u, 0, {g, h})>>)
    <3> DEFINE F(g, h) == Pdu(6, Handle[u], <<g, h>>, <<Line(u, 0, {g, h})>>)
    <3>1. LinePdus(u, command) = {F(g, h) : g \in Names, h \in Names}
      BY <1>7 DEF LinePdus
    <3> HIDE DEF F
    <3>2. \E g, h \in Names : pdu = F(g, h)
      BY <3>1
    <3>3. QED
      BY <3>2 DEF F
  <2>2. <<Line(u, 0, {g, h})>> \in Seq(LineRecords)
    BY <1>3
  <2>3. <<g, h>> \in Seq(Seq(Chars)) /\ 6 \in Nat \ {1}
    BY <1>1
  <2>4. QED
    BY <1>1, <1>4, <2>1, <2>2, <2>3, Zenon
<1>8. CASE command \in {"%l", "%e", "tab", "other"}
  <2>1. PICK flag \in {8, 9, 10, 32} : pdu = Pdu(flag, <<>>, <<>>, <<>>)
    BY <1>8 DEF LinePdus, Signal, PlainText, Tab
  <2>2. /\ flag \in Nat \ {1} /\ <<>> \in Seq(Chars) /\ <<>> \in Seq(Seq(Chars))
        /\ <<>> \in Seq(LineRecords)
    OBVIOUS
  <2>3. QED
    BY <1>4, <2>1, <2>2, Zenon
<1>9. QED
  BY <1>5, <1>6, <1>7, <1>8

LEMMA ConnectStep ==
  ASSUME RecordsInv, NEW u \in Users, Connect(u)
  PROVE  RecordsInv'
<1> USE DEF RecordsInv
<1>1. /\ state[u] = "off" /\ state' = [state EXCEPT ![u] = "on"]
      /\ backlog' = Append(backlog, u)
      /\ UNCHANGED <<num_clients, table, poll, socket, said>>
      /\ toServer' = [toServer EXCEPT ![u] = <<Pdu(1, Handle[u], <<>>, <<>>)>>]
  BY DEF Connect
<1>2. socket[u] = 0 /\ \A k \in DOMAIN backlog : backlog[k] # u
  BY <1>1 DEF WaitInv
<1>3. PICK hello : hello = Pdu(1, Handle[u], <<>>, <<>>)
  OBVIOUS
<1>4. hello \in PduRecords /\ hello.flag = 1 /\ hello.from = Handle[u]
  BY <1>3, HandleType DEF Pdu, PduRecords
<1>5. toServer'[u] = <<hello>> /\ \A v \in Users : v # u => toServer'[v] = toServer[v]
  BY <1>1, <1>3 DEF TypeInv
<1>6. TypeInv'
  <2>1. toServer' \in [Users -> Seq(PduRecords)]
    BY <1>1, <1>3, <1>4 DEF TypeInv
  <2>2. QED
    BY <1>1, <2>1 DEF TypeInv
<1>7. SocketInv'
  BY <1>1 DEF SocketInv, Accepted, NextSocket
<1>8. WaitInv'
  <2>1. /\ Len(backlog) \in Nat /\ DOMAIN backlog = 1 .. Len(backlog)
        /\ DOMAIN backlog' = 1 .. (Len(backlog) + 1)
        /\ backlog'[Len(backlog) + 1] = u
        /\ \A k \in DOMAIN backlog : backlog'[k] = backlog[k] /\ backlog[k] \in Users
    <3>1. backlog \in Seq(Users)
      BY DEF TypeInv
    <3>2. QED
      BY <1>1, <3>1
  <2>2. \A k \in DOMAIN backlog' : k \in DOMAIN backlog \/ k = Len(backlog) + 1
    BY <2>1
  <2>3. \A k, l \in DOMAIN backlog' : backlog'[k] = backlog'[l] => k = l
    BY <1>2, <2>1, <2>2 DEF WaitInv
  <2>4. /\ state'[u] = "on" /\ \A v \in Users : v # u => state'[v] = state[v]
    BY <1>1 DEF TypeInv
  <2>5. \A k \in DOMAIN backlog' : socket'[backlog'[k]] = 0 /\ state'[backlog'[k]] # "off"
    BY <1>1, <1>2, <2>1, <2>2, <2>4 DEF WaitInv
  <2>6. \A v \in Users : state'[v] = "off" => socket'[v] = 0
    BY <1>1, <2>4 DEF WaitInv
  <2>7. QED
    BY <2>3, <2>5, <2>6 DEF WaitInv
<1>9. PollInv'
  <2>1. {v \in Users : Polled(v)'} = {v \in Users : Polled(v)} /\ Accepted' = Accepted
    BY <1>1 DEF Polled, Accepted
  <2>2. QED
    BY <1>1, <2>1, Zenon DEF PollInv
<1>10. OwnerInv' /\ FirstInv'
  BY <1>1 DEF OwnerInv, FirstInv, Owns, Polled
<1>11. HelloInv'
  <2>1. \A i \in Entries : table[i].isUsed => table[i].socketNumber # 0
    BY DEF OwnerInv, Owns
  <2>2. \A v \in Users : v # u => \A k \in DOMAIN toServer'[v] : toServer'[v][k].flag = 1 =>
          /\ k = 1 /\ toServer'[v][k].from = Handle[v]
          /\ \A i \in Entries : table'[i].isUsed => table'[i].socketNumber # socket'[v]
    BY <1>1, <1>5 DEF HelloInv
  <2>3. \A k \in DOMAIN toServer'[u] : k = 1 /\ toServer'[u][k].from = Handle[u]
    BY <1>4, <1>5
  <2>4. QED
    BY <1>1, <1>2, <2>1, <2>2, <2>3 DEF HelloInv
<1>12. QED
  BY <1>6, <1>7, <1>8, <1>9, <1>10, <1>11

LEMMA SendStep ==
  ASSUME RecordsInv, NEW u \in Users, NEW command \in Commands, sendToServer(u, command)
  PROVE  RecordsInv'
<1>1. PICK pdu \in LinePdus(u, command) : toServer' = [toServer EXCEPT ![u] = Append(@, pdu)]
  BY DEF sendToServer
<1>2. pdu \in PduRecords /\ pdu.flag # 1
  BY LinePduTypes
<1>3. toServer[u] \in Seq(PduRecords) /\ toServer \in [Users -> Seq(PduRecords)]
  BY DEF RecordsInv, TypeInv
<1>4. /\ toServer'[u] = Append(toServer[u], pdu)
      /\ \A v \in Users : v # u => toServer'[v] = toServer[v]
  BY <1>1, <1>3
<1>5. toServer' \in [Users -> Seq(PduRecords)]
  BY <1>1, <1>2, <1>3
<1>6. \A k \in DOMAIN toServer'[u] : toServer'[u][k].flag = 1 =>
        k \in DOMAIN toServer[u] /\ toServer'[u][k] = toServer[u][k]
  BY <1>2, <1>3, <1>4
<1>7. UNCHANGED <<num_clients, table, poll, backlog, socket>>
  BY DEF sendToServer, serverVars
<1>8. HelloInv'
  <2>1. ASSUME NEW v \in Users, NEW k \in DOMAIN toServer'[v], toServer'[v][k].flag = 1
        PROVE  k \in DOMAIN toServer[v] /\ toServer'[v][k] = toServer[v][k]
    BY <1>4, <1>6, <2>1
  <2>2. QED
    BY <1>7, <2>1 DEF RecordsInv, HelloInv
<1>9. /\ state' \in [Users -> {"off", "on", "leaving", "gone"}]
      /\ \A v \in Users : state'[v] = "off" => state[v] = "off"
  BY DEF RecordsInv, TypeInv, sendToServer
<1>10. said' \in [Users -> Nat]
  BY DEF RecordsInv, TypeInv, sendToServer
<1>11. QED
  BY <1>5, <1>7, <1>8, <1>9, <1>10, QueueStep

\* The other steps of a client leave its connection to the server as it is.
LEMMA ClientKeepsRecords ==
  ASSUME RecordsInv, NEW u \in Users,
         \/ ConnectFails(u) \/ SendEndsClient(u) \/ ClientStep(u) \/ ClientKilled(u)
  PROVE  RecordsInv'
<1>1. UNCHANGED <<num_clients, table, poll, backlog, socket, said, toServer>>
  BY DEF ConnectFails, SendEndsClient, ClientStep, processMsgFromServer, ServerIsGone,
         ClientKilled, serverVars, netVars
<1>2. state' = state \/ state' = [state EXCEPT ![u] = "gone"]
  BY DEF ConnectFails, SendEndsClient, ClientStep, processMsgFromServer, ServerIsGone,
         ClientKilled, Exits
<1>3. /\ state' \in [Users -> {"off", "on", "leaving", "gone"}]
      /\ \A v \in Users : state'[v] = "off" => state[v] = "off"
  BY <1>2 DEF RecordsInv, TypeInv
<1>4. said' \in [Users -> Nat] /\ toServer' \in [Users -> Seq(PduRecords)]
  BY <1>1 DEF RecordsInv, TypeInv
<1>5. HelloInv'
  BY <1>1 DEF RecordsInv, HelloInv
<1>6. QED
  BY <1>1, <1>3, <1>4, <1>5, QueueStep

LEMMA RecordsStep == RecordsInv /\ [Next]_vars => RecordsInv'
<1> SUFFICES ASSUME RecordsInv, [Next]_vars PROVE RecordsInv'
  OBVIOUS
<1>1. CASE ServerStep
  BY <1>1, ServerKeepsRecords
<1>2. ASSUME NEW u \in Users,
             \/ Connect(u) \/ ConnectFails(u)
             \/ TypeLine(u) \/ ClientStep(u) \/ ClientKilled(u)
      PROVE  RecordsInv'
  BY <1>2, ConnectStep, SendStep, ClientKeepsRecords DEF TypeLine
<1>3. CASE UNCHANGED vars
  <2>1. UNCHANGED <<num_clients, table, poll, backlog, socket, state, said, toServer>>
    BY <1>3 DEF vars, serverVars, clientVars, netVars
  <2>2. HelloInv'
    BY <2>1 DEF RecordsInv, HelloInv
  <2>3. /\ state' \in [Users -> {"off", "on", "leaving", "gone"}]
        /\ said' \in [Users -> Nat] /\ toServer' \in [Users -> Seq(PduRecords)]
    BY <2>1 DEF RecordsInv, TypeInv
  <2>4. QED
    BY <2>1, <2>2, <2>3, QueueStep
<1>4. QED
  BY <1>1, <1>2, <1>3 DEF Next

LEMMA RecordsCorrect == Spec => []RecordsInv
  BY RecordsInit, RecordsStep, PTL DEF Spec

\* No two registered clients have the same handle or the same socket.
THEOREM UniqueHandlesCorrect == Spec => []UniqueHandles
<1>1. RecordsInv => UniqueHandles
  <2> SUFFICES ASSUME RecordsInv, NEW i \in Entries, NEW j \in Entries,
                      table[i].isUsed, table[j].isUsed, i # j
               PROVE  /\ Name(table[i]) # Name(table[j])
                      /\ table[i].socketNumber # table[j].socketNumber
    BY DEF UniqueHandles
  <2>1. i < j \/ j < i
    BY DEF Entries
  <2>2. QED
    BY <2>1 DEF RecordsInv, FirstInv
<1>2. QED
  BY <1>1, RecordsCorrect, PTL

\* num_clients is the number of polled clients, at most MaxClients, and every
\* handle in use is that of a polled client.
THEOREM RecordsAgreeCorrect == Spec => []RecordsAgree
<1>1. RecordsInv => RecordsAgree
  <2> SUFFICES ASSUME RecordsInv PROVE RecordsAgree
    OBVIOUS
  <2>1. num_clients = Cardinality({u \in Users : Polled(u)}) /\ num_clients <= MaxClients
    BY DEF RecordsInv, PollInv
  <2>2. \A i \in Entries : table[i].isUsed =>
          \E u \in Users : /\ Polled(u) /\ table[i].socketNumber = socket[u]
                           /\ Name(table[i]) = Handle[u]
    BY DEF RecordsInv, OwnerInv, Owns
  <2>3. QED
    BY <2>1, <2>2, Zenon DEF RecordsAgree
<1>2. QED
  BY <1>1, RecordsCorrect, PTL

-----------------------------------------------------------------------------
(* Looking up a handle. *)

LEMMA PrefixByElements ==
  ASSUME NEW S, NEW a \in Seq(S), NEW b \in Seq(S), Len(a) <= Len(b),
         \A k \in 1 .. Len(a) : a[k] = b[k]
  PROVE  IsPrefix(a, b)
<1>1. Len(a) \in Nat /\ Len(b) \in Nat
  OBVIOUS
<1>2. PICK c : c = SubSeq(b, 1, Len(a))
  OBVIOUS
<1>3. c \in Seq(S) /\ Len(c) = Len(a) /\ \A k \in 1 .. Len(a) : c[k] = b[k]
  BY <1>1, <1>2
<1>4. a = c
  BY <1>3, SeqEqual
<1>5. SubSeq(a, 1, Len(a)) = a
  BY SubSeqFull
<1>6. QED
  BY <1>2, <1>4, <1>5 DEF IsPrefix

\* No handle begins another, which the source does not see to.
NoHandleBeginsAnother ==
  \A u, v \in Users : IsPrefix(Handle[u], Handle[v]) => Handle[u] = Handle[v]

\* The lookup takes an entry for a client's only if it has the client's handle.
LEMMA MatchIsName ==
  ASSUME RecordsInv, NoHandleBeginsAnother, NEW i \in Entries, NEW u \in Users,
         Matches(table[i], Handle[u])
  PROVE  Name(table[i]) = Handle[u] /\ \E v \in Users : Owns(v, i)
<1>1. PICK h, e : h = Handle[u] /\ e = table[i]
  OBVIOUS
<1>2. h \in Seq(Chars) /\ Len(h) > 0 /\ Len(h) \in Nat /\ DOMAIN h = 1 .. Len(h)
  BY <1>1, HandleType
<1>3. \A k \in DOMAIN h : h[k] # NUL
  BY <1>1 DEF Range
<1>4. \A k \in DOMAIN h : k \in DOMAIN e.handle /\ h[k] = e.handle[k]
  BY <1>1, <1>3 DEF Matches
<1>5. e.handle # <<>>
  BY <1>2, <1>4
<1>6. PICK v \in Users : Owns(v, i)
  BY <1>1, <1>5 DEF RecordsInv, OwnerInv
<1>7. /\ e.handlelength > 0 /\ e.handlelength <= Len(e.handle)
      /\ e.handlelength \in Nat /\ e.handle \in Seq(Chars)
  <2>1. e \in EntryRecords
    BY <1>1 DEF RecordsInv, TypeInv
  <2>2. e.handlelength \in Nat /\ e.handle \in Seq(Chars)
    BY <2>1 DEF EntryRecords
  <2>3. QED
    BY <1>1, <1>5, <2>2 DEF RecordsInv, OwnerInv
<1>8. PICK m : m = Handle[v]
  OBVIOUS
<1>9. m \in Seq(Chars) /\ m = SubSeq(e.handle, 1, e.handlelength)
  BY <1>1, <1>6, <1>8, HandleType DEF Owns, Name
<1>10. Len(m) = e.handlelength /\ \A k \in 1 .. Len(m) : m[k] = e.handle[k]
  BY <1>7, <1>9
<1>11. CASE Len(h) <= Len(m)
  <2>1. \A k \in 1 .. Len(h) : h[k] = m[k]
    BY <1>2, <1>4, <1>7, <1>10, <1>11
  <2>2. IsPrefix(h, m)
    BY <1>2, <1>9, <1>11, <2>1, PrefixByElements
  <2>3. QED
    BY <1>1, <1>6, <1>8, <2>2 DEF NoHandleBeginsAnother, Owns
<1>12. CASE Len(m) <= Len(h)
  <2>1. \A k \in 1 .. Len(m) : m[k] = h[k]
    BY <1>2, <1>4, <1>7, <1>10, <1>12
  <2>2. IsPrefix(m, h)
    BY <1>2, <1>9, <1>12, <2>1, PrefixByElements
  <2>3. QED
    BY <1>1, <1>6, <1>8, <2>2 DEF NoHandleBeginsAnother, Owns
<1>13. QED
  BY <1>2, <1>7, <1>10, <1>11, <1>12

LEMMA NameMatches ==
  ASSUME RecordsInv, NEW i \in Entries, table[i].isUsed
  PROVE  Matches(table[i], Name(table[i]))
<1>1. PICK e : e = table[i]
  OBVIOUS
<1>2. e.handle \in Seq(Chars) /\ e.handlelength \in Nat /\ e.handlelength <= Len(e.handle)
  <2>1. e \in EntryRecords
    BY <1>1 DEF RecordsInv, TypeInv
  <2>2. e.handlelength \in Nat /\ e.handle \in Seq(Chars)
    BY <2>1 DEF EntryRecords
  <2>3. QED
    BY <1>1, <2>2 DEF RecordsInv, OwnerInv
<1>3. PICK n : n = SubSeq(e.handle, 1, e.handlelength)
  OBVIOUS
<1>4. \A k \in DOMAIN n : k \in DOMAIN e.handle /\ n[k] = e.handle[k]
  BY <1>2, <1>3
<1>5. QED
  BY <1>1, <1>3, <1>4 DEF Matches, Name

\* The first entry that matches is taken.
LEMMA LookupFirst ==
  ASSUME NEW t, NEW name
  PROVE  \/ /\ getSocketNumber(t, name) = NotFound
            /\ \A i \in Entries : ~ Matches(t[i], name)
         \/ \E i \in Entries : /\ getSocketNumber(t, name) = t[i].socketNumber
                               /\ Matches(t[i], name)
                               /\ \A j \in Entries : Matches(t[j], name) => i <= j
<1> DEFINE found == {i \in Entries : Matches(t[i], name)}
<1>1. found \in SUBSET Nat
  BY DEF Entries
<1>2. getSocketNumber(t, name) = IF found = {} THEN NotFound ELSE t[Min(found)].socketNumber
  BY DEF getSocketNumber
<1>3. CASE found = {}
  BY <1>2, <1>3
<1>4. CASE found # {}
  <2>1. Min(found) \in found /\ \A y \in found : Min(found) <= y
    BY <1>1, <1>4, MinProperty
  <2>2. QED
    BY <1>2, <1>4, <2>1
<1>5. QED
  BY <1>3, <1>4

\* The lookup finds the socket of every registered client, past all the
\* entries that were given up, as long as no handle begins another.
THEOREM LookupFindsOwnerCorrect ==
  ASSUME NoHandleBeginsAnother
  PROVE  Spec => []LookupFindsOwner
<1>1. RecordsInv => LookupFindsOwner
  <2> SUFFICES ASSUME RecordsInv, NEW i \in Entries, table[i].isUsed
               PROVE  getSocketNumber(table, Name(table[i])) = table[i].socketNumber
    BY DEF LookupFindsOwner
  <2>1. PICK u \in Users : Owns(u, i)
    BY DEF RecordsInv, OwnerInv
  <2>2. Name(table[i]) = Handle[u] /\ Matches(table[i], Handle[u])
    BY <2>1, NameMatches DEF Owns
  <2>3. PICK j \in Entries : /\ getSocketNumber(table, Handle[u]) = table[j].socketNumber
                             /\ Matches(table[j], Handle[u])
                             /\ \A k \in Entries : Matches(table[k], Handle[u]) => j <= k
    BY <2>2, LookupFirst
  <2>4. j <= i /\ Name(table[j]) = Handle[u]
    BY <2>2, <2>3, MatchIsName
  <2>5. ~ j < i
    BY <2>2, <2>4 DEF RecordsInv, FirstInv
  <2>6. j = i
    BY <2>4, <2>5 DEF Entries
  <2>7. QED
    BY <2>2, <2>3, <2>6
<1>2. QED
  BY <1>1, RecordsCorrect, PTL

-----------------------------------------------------------------------------
(* What is said and to whom. *)

Texts    == LineRecords \cup {Swallowed}
SentPdus == [flag : Nat, from : Seq(Chars), dest : Seq(Seq(Chars)), text : Seq(Texts)]
Sends    == [socket : Nat, pdu : SentPdus]

\* A text that u sends names u, and its addressees are those it is meant for.
Spoken(u, pdu) ==
  pdu.flag \in {4, 5, 6} =>
    /\ pdu.text # <<>> /\ pdu.text[1].by = u
    /\ pdu.flag \in {5, 6} =>
         \A j \in DOMAIN pdu.dest : \E h \in pdu.text[1].for :
           h \in Names /\ pdu.dest[j] \in {h, UnicastName(h)}

TalkInv ==
  /\ toClient \in [Users -> Seq(SentPdus)]
  /\ peer \in [Users -> {"up", "fin", "finrst", "rst"}]
  /\ \A u \in Users : \A k \in DOMAIN toServer[u] : Spoken(u, toServer[u][k])

LEMMA TextReplaced ==
  ASSUME NEW A, NEW B, NEW C, NEW D, NEW pdu \in [flag : A, from : B, dest : C, text : D],
         NEW t
  PROVE  [pdu EXCEPT !.text = t] =
           [flag |-> pdu.flag, from |-> pdu.from, dest |-> pdu.dest, text |-> t]
  OBVIOUS

LEMMA DestReplaced ==
  ASSUME NEW A, NEW B, NEW C, NEW D, NEW pdu \in [flag : A, from : B, dest : C, text : D],
         NEW d
  PROVE  [pdu EXCEPT !.dest = d] =
           [flag |-> pdu.flag, from |-> pdu.from, dest |-> d, text |-> pdu.text]
  OBVIOUS

\* What the server reads it can send.
LEMMA PdusAreSent == PduRecords \subseteq SentPdus
<1> SUFFICES ASSUME NEW p \in PduRecords PROVE p \in SentPdus
  OBVIOUS
<1>1. LineRecords \subseteq Texts
  BY DEF Texts
<1>2. p.text \in Seq(Texts)
  BY <1>1, SeqMonotonic DEF PduRecords
<1>3. QED
  BY <1>2 DEF PduRecords, SentPdus

\* Several PDUs read at once are handed on as one, with the flag and the text of
\* the first.
LEMMA MergedSent ==
  ASSUME NEW q \in Seq(SentPdus), q # <<>>, NEW k \in recvPDU(q)
  PROVE  /\ k \in 1 .. Len(q)
         /\ Merged(SubSeq(q, 1, k)) \in SentPdus
         /\ Merged(SubSeq(q, 1, k)).flag = q[1].flag
         /\ q[1].text # <<>> => /\ Merged(SubSeq(q, 1, k)).text # <<>>
                                /\ Merged(SubSeq(q, 1, k)).text[1] = q[1].text[1]
<1>1. Len(q) \in Nat /\ Len(q) >= 1
  OBVIOUS
<1>2. k \in 1 .. Len(q)
  BY <1>1 DEF recvPDU
<1>3. SubSeq(q, 1, k)[1] = q[1] /\ q[1] \in SentPdus
  BY <1>1, <1>2
<1>4. PICK r : r = q[1]
  OBVIOUS
<1>5. /\ r = [flag |-> r.flag, from |-> r.from, dest |-> r.dest, text |-> r.text]
      /\ r.flag \in Nat /\ r.from \in Seq(Chars) /\ r.dest \in Seq(Seq(Chars))
      /\ r.text \in Seq(Texts)
  BY <1>3, <1>4 DEF SentPdus
<1>6. r.text \in Seq(Texts) /\ Append(r.text, Swallowed) \in Seq(Texts)
  <2>1. Swallowed \in Texts
    BY DEF Texts
  <2>2. QED
    BY <1>5, <2>1
<1>7. r.text # <<>> => /\ Append(r.text, Swallowed) # <<>>
                       /\ Append(r.text, Swallowed)[1] = r.text[1]
  BY <1>5
<1>8. PICK text \in {r.text, Append(r.text, Swallowed)} :
        Merged(SubSeq(q, 1, k)) = [flag |-> r.flag, from |-> r.from, dest |-> r.dest,
                                   text |-> text]
  <2>1. \/ Merged(SubSeq(q, 1, k)) = r
        \/ Merged(SubSeq(q, 1, k)) = [r EXCEPT !.text = Append(r.text, Swallowed)]
    BY <1>3, <1>4 DEF Merged
  <2>2. [r EXCEPT !.text = Append(r.text, Swallowed)] =
          [flag |-> r.flag, from |-> r.from, dest |-> r.dest,
           text |-> Append(r.text, Swallowed)]
    <3>1. PICK A, B, C, D : r \in [flag : A, from : B, dest : C, text : D]
      BY <1>3, <1>4 DEF SentPdus
    <3>2. PICK t : t = Append(r.text, Swallowed)
      OBVIOUS
    <3>3. [r EXCEPT !.text = t] = [flag |-> r.flag, from |-> r.from, dest |-> r.dest,
                                   text |-> t]
      BY <3>1, TextReplaced
    <3>4. QED
      BY <3>2, <3>3
  <2>3. CASE Merged(SubSeq(q, 1, k)) = r
    <3>1. Merged(SubSeq(q, 1, k)) = [flag |-> r.flag, from |-> r.from, dest |-> r.dest,
                                     text |-> r.text]
      BY <1>5, <2>3
    <3>2. QED
      BY <3>1, Zenon
  <2>4. CASE Merged(SubSeq(q, 1, k)) = [r EXCEPT !.text = Append(r.text, Swallowed)]
    <3>1. Merged(SubSeq(q, 1, k)) = [flag |-> r.flag, from |-> r.from, dest |-> r.dest,
                                     text |-> Append(r.text, Swallowed)]
      BY <2>2, <2>4
    <3>2. QED
      BY <3>1, Zenon
  <2>5. QED
    BY <2>1, <2>3, <2>4
<1>9. PICK p : p = Merged(SubSeq(q, 1, k))
  OBVIOUS
<1>10. text \in Seq(Texts) /\ (r.text # <<>> => text # <<>> /\ text[1] = r.text[1])
  BY <1>6, <1>7
<1>11. p \in SentPdus /\ p.text = text /\ p.flag = r.flag
  <2>1. p = [flag |-> r.flag, from |-> r.from, dest |-> r.dest, text |-> text]
    BY <1>8, <1>9, Zenon
  <2>2. p.text = text /\ p.flag = r.flag
    BY <2>1
  <2>3. text \in Seq(Texts)
    BY <1>10
  <2>4. p \in SentPdus
    BY ONLY <1>5, <2>1, <2>3 DEF SentPdus
  <2>5. QED
    BY <2>2, <2>4
<1>12. /\ p.flag = q[1].flag
       /\ q[1].text # <<>> => p.text # <<>> /\ p.text[1] = q[1].text[1]
  BY <1>4, <1>10, <1>11, Zenon
<1>13. QED
  BY <1>2, <1>9, <1>11, <1>12, Zenon

LEMMA MergedTyped ==
  ASSUME NEW q \in Seq(PduRecords), q # <<>>, NEW k \in recvPDU(q)
  PROVE  /\ Merged(SubSeq(q, 1, k)) \in SentPdus
         /\ q[1].text # <<>> => /\ Merged(SubSeq(q, 1, k)).text # <<>>
                                /\ Merged(SubSeq(q, 1, k)).text[1] = q[1].text[1]
<1>1. q \in Seq(SentPdus)
  BY PdusAreSent, SeqMonotonic
<1>2. PICK p : p = Merged(SubSeq(q, 1, k))
  OBVIOUS
<1>3. p \in SentPdus /\ (q[1].text # <<>> => p.text # <<>> /\ p.text[1] = q[1].text[1])
  BY <1>1, <1>2, MergedSent
<1>4. QED
  BY <1>2, <1>3

\* A handle that fits in what %m sends of it is found by it, and nothing else.
HandlesFit == \A u \in Users : Len(Handle[u]) <= UniLen

\* What %m sends for a handle begins with its first character.
LEMMA UnicastBegins ==
  ASSUME NEW h \in Seq(Chars), h # <<>>
  PROVE  UnicastName(h) # <<>> /\ 1 \in DOMAIN UnicastName(h) /\ UnicastName(h)[1] = h[1]
<1>1. Len(h) \in Nat /\ Len(h) >= 1 /\ UniLen \in Nat /\ UniLen >= 1
  OBVIOUS
<1> DEFINE text == [i \in 1 .. UniLen |-> "text"]
<1>2. text \in Seq(Chars) /\ Len(text) = UniLen /\ <<NUL>> \in Seq(Chars)
  <2>1. text \in [1 .. UniLen -> Chars]
    BY DEF Chars
  <2>2. text \in Seq(Chars) /\ Len(text) = UniLen
    BY <1>1, <2>1, FunctionIsSeq
  <2>3. <<NUL>> \in Seq(Chars)
    BY DEF Chars
  <2>4. QED
    BY <2>2, <2>3
<1> HIDE DEF text
<1>3. PICK w : w = h \o <<NUL>> \o text
  OBVIOUS
<1>4. w \in Seq(Chars) /\ Len(w) >= UniLen /\ w[1] = h[1]
  BY <1>1, <1>2, <1>3
<1>5. UnicastName(h) = SubSeq(w, 1, UniLen)
  BY <1>3 DEF UnicastName, text
<1>6. PICK name : name = SubSeq(w, 1, UniLen)
  OBVIOUS
<1>7. name \in Seq(Chars) /\ Len(name) = UniLen /\ name[1] = w[1]
  BY <1>1, <1>4, <1>6
<1>8. QED
  BY <1>1, <1>4, <1>5, <1>6, <1>7

LEMMA UnicastMatch ==
  ASSUME NEW u \in Users, Len(Handle[u]) <= UniLen,
         NEW e, Matches(e, UnicastName(Handle[u]))
  PROVE  Matches(e, Handle[u])
<1>1. PICK h : h = Handle[u]
  OBVIOUS
<1>2. h \in Seq(Chars) /\ Len(h) \in Nat /\ UniLen \in Nat /\ Len(h) <= UniLen
  BY <1>1, HandleType
<1> DEFINE text == [i \in 1 .. UniLen |-> "text"]
<1>3. text \in Seq(Chars) /\ Len(text) = UniLen /\ <<NUL>> \in Seq(Chars)
  <2>1. text \in [1 .. UniLen -> Chars]
    BY DEF Chars
  <2>2. text \in Seq(Chars) /\ Len(text) = UniLen
    BY <1>2, <2>1, FunctionIsSeq
  <2>3. <<NUL>> \in Seq(Chars)
    BY DEF Chars
  <2>4. QED
    BY <2>2, <2>3
<1> HIDE DEF text
<1>4. PICK w : w = h \o <<NUL>> \o text
  OBVIOUS
<1>5. /\ w \in Seq(Chars) /\ Len(w) >= UniLen
      /\ \A k \in 1 .. Len(h) : w[k] = h[k]
  BY <1>2, <1>3, <1>4
<1>6. UnicastName(h) = SubSeq(w, 1, UniLen)
  BY <1>4 DEF UnicastName, text
<1>7. \A k \in DOMAIN h : k \in DOMAIN UnicastName(h) /\ UnicastName(h)[k] = h[k]
  BY <1>2, <1>5, <1>6
<1>8. QED
  BY <1>1, <1>7 DEF Matches

-----------------------------------------------------------------------------
(* What the server sends for a PDU it has read. *)

LEMMA SignalTyped ==
  ASSUME NEW s \in Nat, NEW flag \in Nat
  PROVE  To(s, Signal(flag)) \in Sends
  BY EmptySeq DEF To, Signal, Pdu, Sends, SentPdus

\* A text that u has typed.
By(u, pdu) == pdu.text # <<>> /\ pdu.text[1].by = u

\* What is sent for pdu, read from u: the texts are u's, and those for certain
\* handles go to sockets of clients with one of them.
Fits(u, o) ==
  /\ o.socket # 0
  /\ o.pdu.flag \in {4, 5, 6} => By(u, o.pdu)
  /\ NoHandleBeginsAnother /\ HandlesFit /\ o.pdu.flag \in {5, 6} =>
       \A v \in Users : socket[v] = o.socket => Handle[v] \in o.pdu.text[1].for

LEMMA BroadcastFits ==
  ASSUME RecordsInv, NEW u \in Users, NEW s \in Nat, NEW pdu \in SentPdus, pdu.flag = 4,
         By(u, pdu)
  PROVE  /\ Broadcast(s, pdu) \in Seq(Sends)
         /\ \A i \in DOMAIN Broadcast(s, pdu) : Fits(u, Broadcast(s, pdu)[i])
<1> DEFINE kept == {e \in Range(table) : e.isUsed /\ e.socketNumber # s}
           others == Others(s)
           out == Broadcast(s, pdu)
<1>1. table \in Seq(EntryRecords)
  <2>1. TableSize \in Nat /\ table \in [1 .. TableSize -> EntryRecords]
    BY DEF RecordsInv, TypeInv, Entries
  <2>2. QED
    BY <2>1, FunctionIsSeq
<1>2. others \in Seq(EntryRecords \cap kept)
  BY <1>1, ThoseAre DEF Others
<1>3. \A e \in EntryRecords \cap kept : e.socketNumber \in Nat /\ e.socketNumber # 0
  <2> SUFFICES ASSUME NEW e \in EntryRecords \cap kept
               PROVE  e.socketNumber \in Nat /\ e.socketNumber # 0
    OBVIOUS
  <2>1. e.socketNumber \in Nat
    BY DEF EntryRecords
  <2>2. PICK i \in Entries : e = table[i] /\ table[i].isUsed
    BY DEF Range, RecordsInv, TypeInv
  <2>3. QED
    BY <2>1, <2>2 DEF RecordsInv, OwnerInv, Owns
<1> HIDE DEF kept, others
<1>4. Len(others) \in Nat /\ DOMAIN others = 1 .. Len(others)
  BY <1>2
<1>5. out = [i \in DOMAIN others |-> To(others[i].socketNumber, pdu)]
  BY DEF Broadcast, others
<1> HIDE DEF out
<1>6. ASSUME NEW i \in DOMAIN others PROVE out[i] \in Sends /\ Fits(u, out[i])
  <2>1. others[i].socketNumber \in Nat /\ others[i].socketNumber # 0
    BY <1>2, <1>3, <1>4
  <2>2. PICK n : n = others[i].socketNumber
    OBVIOUS
  <2>3. out[i] = [socket |-> n, pdu |-> pdu]
    BY <1>5, <2>2 DEF To
  <2>4. out[i] \in Sends
    BY <2>1, <2>2, <2>3 DEF Sends
  <2>5. Fits(u, out[i])
    BY <2>1, <2>2, <2>3 DEF Fits
  <2>6. QED
    BY <2>4, <2>5
<1>7. out \in [1 .. Len(others) -> Sends] /\ DOMAIN out = DOMAIN others
  BY <1>4, <1>5, <1>6
<1>8. out \in Seq(Sends)
  BY <1>4, <1>7, FunctionIsSeq
<1>9. QED
  BY <1>6, <1>7, <1>8 DEF out

\* One addressee.
LEMMA ForwardFits ==
  ASSUME RecordsInv, NEW u \in Users, NEW s \in Nat, s # 0, NEW pdu \in SentPdus,
         By(u, pdu), NEW name \in Seq(Chars), NEW h \in pdu.text[1].for,
         h \in Names, name \in {h, UnicastName(h)}
  PROVE  Forward(s, pdu, name) \in Sends /\ Fits(u, Forward(s, pdu, name))
<1>1. PICK n : n = getSocketNumber(table, name)
  OBVIOUS
<1>2. CASE n = NotFound
  <2>1. PICK p : p = Pdu(7, <<>>, <<name>>, pdu.text)
    OBVIOUS
  <2>2. p \in SentPdus /\ p.flag = 7
    <3>1. pdu.text \in Seq(Texts)
      BY DEF SentPdus
    <3>2. <<>> \in Seq(Chars) /\ <<name>> \in Seq(Seq(Chars)) /\ 7 \in Nat
      OBVIOUS
    <3>3. QED
      BY <2>1, <3>1, <3>2 DEF Pdu, SentPdus
  <2>3. Forward(s, pdu, name) = [socket |-> s, pdu |-> p]
    BY <1>1, <1>2, <2>1 DEF Forward, To
  <2>4. QED
    BY <2>2, <2>3 DEF Sends, Fits
<1>3. CASE n # NotFound
  <2>1. PICK i \in Entries : n = table[i].socketNumber /\ Matches(table[i], name)
    BY <1>1, <1>3, LookupFirst
  <2>2. PICK p : p = [pdu EXCEPT !.dest = <<>>]
    OBVIOUS
  <2>3. p = [flag |-> pdu.flag, from |-> pdu.from, dest |-> <<>>, text |-> pdu.text]
    BY <2>2, DestReplaced DEF SentPdus
  <2>4. p \in SentPdus /\ p.flag = pdu.flag /\ p.text = pdu.text
    BY <2>3, EmptySeq DEF SentPdus
  <2>5. Forward(s, pdu, name) = [socket |-> n, pdu |-> p]
    BY <1>1, <1>3, <2>2 DEF Forward, To
  <2>6. PICK x \in Users : h = Handle[x]
    BY DEF Names
  <2>7. n \in Nat
    <3>1. table[i] \in EntryRecords
      BY DEF RecordsInv, TypeInv
    <3>2. QED
      BY <2>1, <3>1 DEF EntryRecords
  <2>8. table[i].handle # <<>>
    <3>1. h # <<>> /\ h \in Seq(Chars) /\ 1 \in DOMAIN h /\ h[1] # NUL
      BY <2>6, HandleType DEF Range
    <3>2. name # <<>> /\ 1 \in DOMAIN name /\ name[1] = h[1]
      BY <3>1, UnicastBegins
    <3>3. QED
      BY <2>1, <3>1, <3>2 DEF Matches
  <2>9. PICK v \in Users : Owns(v, i)
    BY <2>8 DEF RecordsInv, OwnerInv
  <2>10. n # 0
    BY <2>1, <2>9 DEF Owns
  <2>11. ASSUME NoHandleBeginsAnother, HandlesFit, NEW w \in Users, socket[w] = n
         PROVE  Handle[w] \in pdu.text[1].for
    <3>1. Matches(table[i], Handle[x])
      BY <2>1, <2>6, <2>11, UnicastMatch DEF HandlesFit
    <3>2. Name(table[i]) = Handle[x]
      BY <2>11, <3>1, MatchIsName
    <3>3. w = v
      BY <2>1, <2>9, <2>10, <2>11 DEF Owns, RecordsInv, SocketInv, Accepted
    <3>4. QED
      BY <2>6, <2>9, <3>2, <3>3 DEF Owns
  <2>12. QED
    <3>1. Forward(s, pdu, name) \in Sends
      BY <2>4, <2>5, <2>7 DEF Sends
    <3>2. PICK o : o = Forward(s, pdu, name)
      OBVIOUS
    <3>3. o.socket = n /\ o.pdu = p
      BY <2>5, <3>2
    <3>4. Fits(u, o)
      BY <2>4, <2>10, <2>11, <3>3 DEF Fits, By
    <3>5. QED
      BY <3>1, <3>2, <3>4
<1>4. QED
  BY <1>2, <1>3

\* Answers to s that are no texts.
Answers(s) == {o \in Sends : o.socket = s /\ o.pdu.flag \notin {4, 5, 6}}

LEMMA AnswersFit ==
  ASSUME NEW u \in Users, NEW s \in Nat, s # 0, NEW out \in Seq(Answers(s))
  PROVE  out \in Seq(Sends) /\ \A i \in DOMAIN out : Fits(u, out[i])
<1>1. Answers(s) \subseteq Sends
  BY DEF Answers
<1>2. out \in Seq(Sends)
  BY <1>1, SeqMonotonic
<1>3. \A i \in DOMAIN out : out[i] \in Answers(s)
  OBVIOUS
<1>4. QED
  BY <1>2, <1>3 DEF Answers, Fits

LEMMA SignalAnswers ==
  ASSUME NEW s \in Nat, NEW flag \in Nat, flag \notin {4, 5, 6}
  PROVE  To(s, Signal(flag)) \in Answers(s)
<1>1. To(s, Signal(flag)) \in Sends
  BY SignalTyped
<1>2. To(s, Signal(flag)).socket = s /\ To(s, Signal(flag)).pdu.flag = flag
  BY DEF To, Signal, Pdu
<1>3. QED
  BY <1>1, <1>2 DEF Answers

\* The list of handles is made of its own kinds of answers.
Listing(s) == {o \in Sends : o.socket = s /\ o.pdu.flag \in {11, 12, 13}}

LEMMA ListAnswers ==
  ASSUME RecordsInv, NEW s \in Nat
  PROVE  ListOfHandles(s) \in Seq(Listing(s)) /\ ListOfHandles(s) \in Seq(Answers(s))
<1> DEFINE kept == {e \in Range(table) : e.isUsed}
           used == UsedEntries
           items == [i \in DOMAIN used |-> To(s, Pdu(12, Name(used[i]), <<>>, <<>>))]
<1>1. table \in Seq(EntryRecords)
  <2>1. TableSize \in Nat /\ table \in [1 .. TableSize -> EntryRecords]
    BY DEF RecordsInv, TypeInv, Entries
  <2>2. QED
    BY <2>1, FunctionIsSeq
<1>2. used \in Seq(EntryRecords \cap kept)
  BY <1>1, ThoseAre DEF UsedEntries
<1>3. \A e \in EntryRecords \cap kept : Name(e) \in Seq(Chars)
  <2> SUFFICES ASSUME NEW e \in EntryRecords \cap kept PROVE Name(e) \in Seq(Chars)
    OBVIOUS
  <2>1. PICK i \in Entries : e = table[i] /\ table[i].isUsed
    BY DEF Range, RecordsInv, TypeInv
  <2>2. PICK u \in Users : Name(e) = Handle[u]
    BY <2>1 DEF RecordsInv, OwnerInv, Owns
  <2>3. QED
    BY <2>2, HandleType
<1> HIDE DEF kept, used
<1>4. Len(used) \in Nat /\ DOMAIN used = 1 .. Len(used)
  BY <1>2
<1>5. ASSUME NEW i \in DOMAIN used PROVE items[i] \in Listing(s)
  <2>1. Name(used[i]) \in Seq(Chars)
    BY <1>2, <1>3, <1>4
  <2>2. PICK p : p = Pdu(12, Name(used[i]), <<>>, <<>>)
    OBVIOUS
  <2>3. p \in SentPdus /\ p.flag = 12
    BY <2>1, <2>2, EmptySeq DEF Pdu, SentPdus
  <2>4. items[i] = [socket |-> s, pdu |-> p]
    BY <2>2 DEF To
  <2>5. QED
    BY <2>3, <2>4 DEF Listing, Sends
<1>6. items \in [1 .. Len(used) -> Listing(s)]
  BY <1>4, <1>5
<1>7. items \in Seq(Listing(s))
  BY <1>4, <1>6, FunctionIsSeq
<1>8. ListOfHandles(s) = <<To(s, Signal(11))>> \o items \o <<To(s, Signal(13))>>
  BY DEF ListOfHandles, used
<1> HIDE DEF items
<1>9. ASSUME NEW flag \in {11, 13} PROVE To(s, Signal(flag)) \in Listing(s)
  <2>1. To(s, Signal(flag)) \in Sends
    BY SignalTyped
  <2>2. To(s, Signal(flag)).socket = s /\ To(s, Signal(flag)).pdu.flag = flag
    BY DEF To, Signal, Pdu
  <2>3. QED
    BY <2>1, <2>2 DEF Listing
<1>10. <<To(s, Signal(11))>> \in Seq(Listing(s)) /\ <<To(s, Signal(13))>> \in Seq(Listing(s))
  BY <1>9
<1>11. ListOfHandles(s) \in Seq(Listing(s))
  BY <1>7, <1>8, <1>10, ConcatProperties
<1>12. Listing(s) \subseteq Answers(s)
  BY DEF Listing, Answers
<1>13. QED
  BY <1>11, <1>12, SeqMonotonic

\* Everything the server sends for a PDU of u.
LEMMA CheckFlagFits ==
  ASSUME RecordsInv, TalkInv, NEW u \in Users, socket[u] # 0, toServer[u] # <<>>,
         NEW k \in recvPDU(toServer[u]), NEW pdu,
         pdu = Merged(SubSeq(toServer[u], 1, k))
  PROVE  /\ checkFlag(socket[u], pdu) \in Seq(Sends)
         /\ \A i \in DOMAIN checkFlag(socket[u], pdu) :
              Fits(u, checkFlag(socket[u], pdu)[i])
<1>1. PICK q, s : q = toServer[u] /\ s = socket[u]
  OBVIOUS
<1>2. q \in Seq(PduRecords) /\ q # <<>> /\ k \in recvPDU(q) /\ s \in Nat /\ s # 0
  BY <1>1 DEF RecordsInv, TypeInv
<1>3. /\ pdu \in SentPdus /\ pdu.flag = q[1].flag /\ pdu.dest = q[1].dest
      /\ q[1].text # <<>> => pdu.text # <<>> /\ pdu.text[1] = q[1].text[1]
  BY <1>1, <1>2, MergedHead, MergedTyped
<1>4. Spoken(u, q[1])
  BY <1>1, <1>2 DEF TalkInv
<1>5. pdu.flag \in {4, 5, 6} => By(u, pdu)
  BY <1>3, <1>4 DEF Spoken, By
<1>6. PICK out : out = checkFlag(s, pdu)
  OBVIOUS
<1>7. pdu.flag \in Nat /\ pdu.dest \in Seq(Seq(Chars))
  BY <1>3 DEF SentPdus
<1>8. CASE pdu.flag = 1
  <2>1. PICK flag \in {2, 3} : out = <<To(s, Signal(flag))>>
    BY <1>6, <1>8 DEF checkFlag
  <2>2. out \in Seq(Answers(s))
    BY <1>2, <2>1, SignalAnswers
  <2>3. QED
    BY <1>1, <1>2, <1>6, <2>2, AnswersFit
<1>9. CASE pdu.flag = 4
  <2>1. out = Broadcast(s, pdu)
    BY <1>6, <1>9 DEF checkFlag
  <2>2. QED
    BY <1>1, <1>2, <1>3, <1>5, <1>6, <1>9, <2>1, BroadcastFits
<1>10. CASE pdu.flag \in {5, 6}
  <2>1. out = [i \in DOMAIN pdu.dest |-> Forward(s, pdu, pdu.dest[i])]
    BY <1>6, <1>10 DEF checkFlag
  <2>2. ASSUME NEW i \in DOMAIN pdu.dest PROVE out[i] \in Sends /\ Fits(u, out[i])
    <3>1. pdu.dest[i] \in Seq(Chars)
      BY <1>7
    <3>2. PICK h \in q[1].text[1].for : h \in Names /\ q[1].dest[i] \in {h, UnicastName(h)}
      BY <1>3, <1>4, <1>10 DEF Spoken
    <3>3. h \in pdu.text[1].for /\ pdu.dest[i] \in {h, UnicastName(h)}
      BY <1>3, <1>4, <1>10, <3>2 DEF Spoken
    <3>4. out[i] = Forward(s, pdu, pdu.dest[i])
      BY <2>1
    <3>5. QED
      BY <1>2, <1>3, <1>5, <1>10, <3>1, <3>2, <3>3, <3>4, ForwardFits
  <2>3. Len(pdu.dest) \in Nat /\ DOMAIN pdu.dest = 1 .. Len(pdu.dest)
    BY <1>7
  <2>4. out \in [1 .. Len(pdu.dest) -> Sends] /\ DOMAIN out = DOMAIN pdu.dest
    BY <2>1, <2>2, <2>3
  <2>5. out \in Seq(Sends)
    BY <2>3, <2>4, FunctionIsSeq
  <2>6. QED
    BY <1>1, <1>6, <2>2, <2>4, <2>5
<1>11. CASE pdu.flag = 8
  <2>1. out = <<To(s, Signal(9))>>
    BY <1>6, <1>11 DEF checkFlag
  <2>2. out \in Seq(Answers(s))
    BY <1>2, <2>1, SignalAnswers
  <2>3. QED
    BY <1>1, <1>2, <1>6, <2>2, AnswersFit
<1>12. CASE pdu.flag = 10
  <2>1. out = ListOfHandles(s)
    BY <1>6, <1>12 DEF checkFlag
  <2>2. QED
    BY <1>1, <1>2, <1>6, <2>1, ListAnswers, AnswersFit
<1>13. CASE pdu.flag \notin {1, 4, 5, 6, 8, 10}
  <2>1. out = <<>>
    BY <1>6, <1>13 DEF checkFlag
  <2>2. out \in Seq(Sends) /\ DOMAIN out = {}
    BY <2>1
  <2>3. QED
    BY <1>1, <1>6, <2>2
<1>14. QED
  BY <1>8, <1>9, <1>10, <1>11, <1>12, <1>13

-----------------------------------------------------------------------------
(* The connections to the clients. *)

\* Whatever is new in the connection to a client was sent to its socket.
LEMMA Delivered ==
  ASSUME TalkInv, NEW out \in Seq(Sends), SendsSucceed(out)
  PROVE  /\ toClient' \in [Users -> Seq(SentPdus)]
         /\ peer' \in [Users -> {"up", "fin", "finrst", "rst"}]
         /\ \A v \in Users : peer'[v] # "up" => peer[v] # "up"
         /\ \A v \in Users : \E new \in Seq(SentPdus) :
              /\ toClient'[v] = toClient[v] \o new
              /\ \A i \in DOMAIN new : \E j \in DOMAIN out :
                   out[j].socket = socket[v] /\ new[i] = out[j].pdu
<1> DEFINE kept(v) == {o \in Range(out) : o.socket = socket[v]}
           sent(v) == SentTo(out, v)
           new(v) == IF peer[v] = "up" THEN [i \in DOMAIN sent(v) |-> sent(v)[i].pdu]
                                       ELSE <<>>
<1>1. toClient' = [v \in Users |-> toClient[v] \o new(v)]
  BY DEF SendsSucceed
<1>2. ASSUME NEW v \in Users
      PROVE  /\ new(v) \in Seq(SentPdus)
             /\ \A i \in DOMAIN new(v) : \E j \in DOMAIN out :
                  out[j].socket = socket[v] /\ new(v)[i] = out[j].pdu
  <2>1. sent(v) \in Seq(Sends \cap kept(v))
    BY ThoseAre DEF SentTo
  <2>2. \A o \in Sends \cap kept(v) :
          o.pdu \in SentPdus /\ \E j \in DOMAIN out : out[j].socket = socket[v] /\ o = out[j]
    BY DEF Range, Sends
  <2>3. PICK d : d = sent(v)
    OBVIOUS
  <2>4. /\ Len(d) \in Nat /\ DOMAIN d = 1 .. Len(d)
        /\ \A i \in DOMAIN d : d[i] \in Sends \cap kept(v)
    BY <2>1, <2>3
  <2>5. CASE peer[v] = "up"
    <3>1. PICK n : n = [i \in DOMAIN d |-> d[i].pdu]
      OBVIOUS
    <3>2. new(v) = n
      BY <2>3, <2>5, <3>1
    <3>3. \A i \in DOMAIN d : d[i].pdu \in SentPdus
      BY <2>2, <2>4
    <3>4. n \in [1 .. Len(d) -> SentPdus]
      BY <2>4, <3>1, <3>3
    <3>5. n \in Seq(SentPdus)
      BY <2>4, <3>4, FunctionIsSeq
    <3>6. \A i \in DOMAIN n : \E j \in DOMAIN out :
            out[j].socket = socket[v] /\ n[i] = out[j].pdu
      BY <2>2, <2>4, <3>1
    <3>7. QED
      BY <3>2, <3>5, <3>6
  <2>6. CASE peer[v] # "up"
    <3>1. new(v) = <<>>
      BY <2>6
    <3>2. <<>> \in Seq(SentPdus) /\ DOMAIN <<>> = {}
      OBVIOUS
    <3>3. QED
      BY <3>1, <3>2
  <2>7. QED
    BY <2>5, <2>6
<1> HIDE DEF new
<1>3. toClient' \in [Users -> Seq(SentPdus)]
  <2>1. \A v \in Users : toClient[v] \o new(v) \in Seq(SentPdus)
    BY <1>2, ConcatProperties DEF TalkInv
  <2>2. QED
    BY <1>1, <2>1
<1>4. PICK rejected \in SUBSET {u \in Users : peer[u] = "fin" /\ SentTo(out, u) # <<>>} :
        peer' = [u \in Users |-> IF u \in rejected THEN "finrst" ELSE peer[u]]
  BY DEF SendsSucceed
<1>5. /\ peer' \in [Users -> {"up", "fin", "finrst", "rst"}]
      /\ \A v \in Users : peer'[v] # "up" => peer[v] # "up"
  BY <1>4 DEF TalkInv
<1>6. \A v \in Users : toClient'[v] = toClient[v] \o new(v)
  BY <1>1
<1>7. \A v \in Users : \E n \in Seq(SentPdus) :
        /\ toClient'[v] = toClient[v] \o n
        /\ \A i \in DOMAIN n : \E j \in DOMAIN out :
             out[j].socket = socket[v] /\ n[i] = out[j].pdu
  <2> TAKE v \in Users
  <2>1. /\ new(v) \in Seq(SentPdus)
        /\ \A i \in DOMAIN new(v) : \E j \in DOMAIN out :
             out[j].socket = socket[v] /\ new(v)[i] = out[j].pdu
    BY <1>2
  <2>2. toClient'[v] = toClient[v] \o new(v)
    BY <1>6
  <2>3. QED
    BY <2>1, <2>2, Zenon
<1>8. QED
  BY <1>3, <1>5, <1>7

\* A PDU that v is sent for one of u.
Meant(u, v, pdu) ==
  /\ pdu.flag \in {4, 5, 6} => By(u, pdu) /\ toServer[u][1].flag # 1
  /\ NoHandleBeginsAnother /\ HandlesFit /\ pdu.flag \in {5, 6} =>
       Handle[v] \in pdu.text[1].for

LEMMA ReadDelivers ==
  ASSUME RecordsInv, TalkInv, NEW u \in Users, socket[u] # 0, RecvData(u)
  PROVE  /\ toClient' \in [Users -> Seq(SentPdus)]
         /\ peer' \in [Users -> {"up", "fin", "finrst", "rst"}]
         /\ \A v \in Users : peer'[v] # "up" => peer[v] # "up"
         /\ \A v \in Users : \E new \in Seq(SentPdus) :
              /\ toClient'[v] = toClient[v] \o new
              /\ \A i \in DOMAIN new : Meant(u, v, new[i])
<1>1. toServer[u] # <<>>
  BY DEF RecvData
<1>2. PICK k, pdu, out :
        /\ k \in recvPDU(toServer[u])
        /\ pdu = Merged(SubSeq(toServer[u], 1, k)) /\ out = checkFlag(socket[u], pdu)
        /\ \/ \E i \in DOMAIN out : SendsSucceed(SubSeq(out, 1, i - 1))
           \/ SendsSucceed(out)
  BY DEF RecvData
<1>3. out \in Seq(Sends) /\ \A i \in DOMAIN out : Fits(u, out[i])
  BY <1>1, <1>2, CheckFlagFits
<1>4. toServer[u][1].flag = 1 => \A i \in DOMAIN out : out[i].pdu.flag \notin {4, 5, 6}
  <2> SUFFICES ASSUME toServer[u][1].flag = 1
               PROVE  \A i \in DOMAIN out : out[i].pdu.flag \notin {4, 5, 6}
    OBVIOUS
  <2>1. pdu.flag = 1
    BY <1>1, <1>2, MergedHead DEF RecordsInv, TypeInv
  <2>2. PICK flag \in {2, 3} : out = <<To(socket[u], Signal(flag))>>
    BY <1>2, <2>1 DEF checkFlag
  <2>3. To(socket[u], Signal(flag)).pdu.flag = flag
    BY DEF To, Signal, Pdu
  <2>4. QED
    BY <2>2, <2>3
<1>5. PICK sent \in Seq(Sends) :
        SendsSucceed(sent) /\ \A j \in DOMAIN sent : \E i \in DOMAIN out : sent[j] = out[i]
  <2>1. CASE SendsSucceed(out)
    BY <1>3, <2>1
  <2>2. CASE \E i \in DOMAIN out : SendsSucceed(SubSeq(out, 1, i - 1))
    <3>1. PICK i \in DOMAIN out : SendsSucceed(SubSeq(out, 1, i - 1))
      BY <2>2
    <3>2. PICK part : part = SubSeq(out, 1, i - 1)
      OBVIOUS
    <3>3. /\ part \in Seq(Sends)
          /\ \A j \in DOMAIN part : j \in DOMAIN out /\ part[j] = out[j]
      BY <1>3, <3>2
    <3>4. QED
      BY <3>1, <3>2, <3>3
  <2>3. QED
    BY <1>2, <2>1, <2>2
<1>6. /\ toClient' \in [Users -> Seq(SentPdus)]
      /\ peer' \in [Users -> {"up", "fin", "finrst", "rst"}]
      /\ \A v \in Users : peer'[v] # "up" => peer[v] # "up"
      /\ \A v \in Users : \E new \in Seq(SentPdus) :
           /\ toClient'[v] = toClient[v] \o new
           /\ \A i \in DOMAIN new : \E j \in DOMAIN sent :
                sent[j].socket = socket[v] /\ new[i] = sent[j].pdu
  BY <1>5, Delivered
<1>7. ASSUME NEW v \in Users, NEW p, NEW j \in DOMAIN sent,
             sent[j].socket = socket[v], p = sent[j].pdu
      PROVE  Meant(u, v, p)
  <2>1. PICK i \in DOMAIN out : sent[j] = out[i]
    BY <1>5
  <2>2. Fits(u, out[i]) /\ p = out[i].pdu /\ out[i].socket = socket[v]
    BY <1>3, <1>7, <2>1
  <2>3. p.flag \in {4, 5, 6} => By(u, p) /\ toServer[u][1].flag # 1
    BY <1>4, <2>2 DEF Fits
  <2>4. NoHandleBeginsAnother /\ HandlesFit /\ p.flag \in {5, 6} =>
          Handle[v] \in p.text[1].for
    BY <2>2 DEF Fits
  <2>5. QED
    BY <2>3, <2>4 DEF Meant
<1>8. \A v \in Users : \E new \in Seq(SentPdus) :
        /\ toClient'[v] = toClient[v] \o new
        /\ \A i \in DOMAIN new : Meant(u, v, new[i])
  <2> TAKE v \in Users
  <2>1. PICK new \in Seq(SentPdus) :
          /\ toClient'[v] = toClient[v] \o new
          /\ \A i \in DOMAIN new : \E j \in DOMAIN sent :
               sent[j].socket = socket[v] /\ new[i] = sent[j].pdu
    BY <1>6
  <2>2. \A i \in DOMAIN new : Meant(u, v, new[i])
    BY <1>7, <2>1
  <2>3. QED
    BY <2>1, <2>2
<1>9. QED
  BY <1>6, <1>8

-----------------------------------------------------------------------------
(* TalkInv is an invariant. *)

\* A step that takes PDUs from a connection to the server.
LEMMA QueueKeepsSpoken ==
  ASSUME TalkInv, NEW u \in Users,
         \A v \in Users : v # u => toServer'[v] = toServer[v],
         \A i \in DOMAIN toServer'[u] : \E k \in DOMAIN toServer[u] :
           toServer'[u][i] = toServer[u][k]
  PROVE  \A v \in Users : \A k \in DOMAIN toServer'[v] : Spoken(v, toServer'[v][k])
<1>1. \A k \in DOMAIN toServer'[u] : Spoken(u, toServer'[u][k])
  BY DEF TalkInv
<1>2. \A v \in Users : v # u => \A k \in DOMAIN toServer'[v] : Spoken(v, toServer'[v][k])
  BY DEF TalkInv
<1>3. QED
  BY <1>1, <1>2

LEMMA ReadKeepsTalk ==
  ASSUME RecordsInv, TalkInv, NEW u \in Users, socket[u] # 0, RecvData(u)
  PROVE  TalkInv'
<1>1. PICK k \in recvPDU(toServer[u]) : toServer' = [toServer EXCEPT ![u] = Rest(@, k)]
  BY DEF RecvData
<1>2. toServer[u] # <<>> /\ toServer[u] \in Seq(PduRecords)
  BY DEF RecvData, RecordsInv, TypeInv
<1>3. k \in 1 .. Len(toServer[u])
  BY <1>2, MergedHead
<1>4. \A i \in DOMAIN Rest(toServer[u], k) :
        i + k \in DOMAIN toServer[u] /\ Rest(toServer[u], k)[i] = toServer[u][i + k]
  BY <1>2, <1>3, RestOfQueue
<1>5. /\ toServer'[u] = Rest(toServer[u], k)
      /\ \A v \in Users : v # u => toServer'[v] = toServer[v]
  BY <1>1 DEF RecordsInv, TypeInv
<1>6. \A v \in Users : \A i \in DOMAIN toServer'[v] : Spoken(v, toServer'[v][i])
  BY <1>4, <1>5, QueueKeepsSpoken
<1>7. QED
  BY <1>6, ReadDelivers DEF TalkInv

\* The PDU of a line names its sender and those it is meant for.
LEMMA LineSpoken ==
  ASSUME NEW u \in Users, NEW command \in Commands, NEW pdu \in LinePdus(u, command)
  PROVE  Spoken(u, pdu)
<1> HIDE DEF UnicastName
<1>1. \A n, for : <<Line(u, n, for)>>[1].by = u /\ <<Line(u, n, for)>>[1].for = for
                  /\ <<Line(u, n, for)>> # <<>>
  BY DEF Line
<1>2. CASE command = "%b"
  <2>1. pdu = Pdu(4, Handle[u], <<>>, <<Line(u, said[u] + 1, {})>>)
    BY <1>2 DEF LinePdus
  <2>2. pdu.flag = 4 /\ pdu.text = <<Line(u, said[u] + 1, {})>>
    BY <2>1 DEF Pdu
  <2>3. QED
    BY <1>1, <2>2 DEF Spoken
<1>3. CASE command = "%m"
  <2>1. LinePdus(u, command) =
          {Pdu(5, Handle[u], <<UnicastName(h)>>, <<Line(u, 0, {h})>>) : h \in Names}
    BY <1>3 DEF LinePdus
  <2>2. PICK h \in Names : pdu = Pdu(5, Handle[u], <<UnicastName(h)>>, <<Line(u, 0, {h})>>)
    BY <2>1
  <2>3. pdu.flag = 5 /\ pdu.text = <<Line(u, 0, {h})>> /\ pdu.dest = <<UnicastName(h)>>
    BY <2>2 DEF Pdu
  <2>4. pdu.text # <<>> /\ pdu.text[1].by = u /\ pdu.text[1].for = {h}
    BY <1>1, <2>3
  <2>5. \A j \in DOMAIN pdu.dest : pdu.dest[j] = UnicastName(h)
    BY <2>3
  <2>6. QED
    BY <2>4, <2>5 DEF Spoken
<1>4. CASE command = "%c"
  <2> DEFINE F(g, h) == Pdu(6, Handle[u], <<g, h>>, <<Line(u, 0, {g, h})>>)
  <2>1. LinePdus(u, command) = {F(g, h) : g \in Names, h \in Names}
    BY <1>4 DEF LinePdus
  <2> HIDE DEF F
  <2>2. PICK g \in Names, h \in Names : pdu = F(g, h)
    BY <2>1
  <2>3. pdu.flag = 6 /\ pdu.text = <<Line(u, 0, {g, h})>> /\ pdu.dest = <<g, h>>
    BY <2>2 DEF F, Pdu
  <2>4. pdu.text # <<>> /\ pdu.text[1].by = u /\ pdu.text[1].for = {g, h}
    BY <1>1, <2>3
  <2>5. \A j \in DOMAIN pdu.dest : pdu.dest[j] \in {g, h}
    BY <2>3
  <2>6. \A j \in DOMAIN pdu.dest : \E x \in pdu.text[1].for :
          x \in Names /\ pdu.dest[j] \in {x, UnicastName(x)}
    BY <2>4, <2>5
  <2>7. QED
    BY <2>4, <2>6 DEF Spoken
<1>5. CASE command \in {"%l", "%e", "tab", "other"}
  <2>1. PICK flag \in {8, 9, 10, 32} : pdu = Pdu(flag, <<>>, <<>>, <<>>)
    BY <1>5 DEF LinePdus, Signal, PlainText, Tab
  <2>2. pdu.flag \in {8, 9, 10, 32}
    BY <2>1 DEF Pdu
  <2>3. QED
    BY <2>2 DEF Spoken
<1>6. QED
  BY <1>2, <1>3, <1>4, <1>5

LEMMA TalkStep ==
  ASSUME RecordsInv, TalkInv, [Next]_vars
  PROVE  TalkInv'
<1> DEFINE PeerTypes == {"up", "fin", "finrst", "rst"}
<1>1. CASE ServerStep
  <2>1. ASSUME UNCHANGED <<toServer, toClient, peer>> PROVE TalkInv'
    BY <2>1 DEF TalkInv
  <2>2. ASSUME NEW u \in Users, socket[u] # 0, RecvData(u) PROVE TalkInv'
    BY <2>2, ReadKeepsTalk
  <2>3. CASE addNewSocket
    BY <2>1, <2>3 DEF addNewSocket, netVars
  <2>4. QED
    BY <1>1, <2>1, <2>2, <2>3 DEF ServerStep, AcceptFails, RecvClosed, RecvFails
<1>2. ASSUME NEW u \in Users, Connect(u) PROVE TalkInv'
  <2>1. PICK hello : hello = Pdu(1, Handle[u], <<>>, <<>>)
    OBVIOUS
  <2>2. /\ toServer' = [toServer EXCEPT ![u] = <<hello>>]
        /\ toClient' = toClient /\ peer' = peer
    BY <1>2, <2>1 DEF Connect
  <2>3. Spoken(u, hello)
    BY <2>1 DEF Pdu, Spoken
  <2>4. /\ toServer'[u] = <<hello>>
        /\ \A v \in Users : v # u => toServer'[v] = toServer[v]
    BY <2>2 DEF RecordsInv, TypeInv
  <2>5. \A k \in DOMAIN toServer'[u] : toServer'[u][k] = hello
    BY <2>4
  <2>6. \A v \in Users : \A k \in DOMAIN toServer'[v] : Spoken(v, toServer'[v][k])
    BY <2>3, <2>4, <2>5 DEF TalkInv
  <2>7. QED
    BY <2>2, <2>6 DEF TalkInv
<1>3. ASSUME NEW u \in Users, NEW command \in Commands, sendToServer(u, command)
      PROVE  TalkInv'
  <2>1. PICK pdu \in LinePdus(u, command) :
          toServer' = [toServer EXCEPT ![u] = Append(@, pdu)]
    BY <1>3 DEF sendToServer
  <2>2. toClient' = toClient /\ peer' = peer
    BY <1>3 DEF sendToServer
  <2>3. toServer[u] \in Seq(PduRecords) /\ toServer \in [Users -> Seq(PduRecords)]
    BY DEF RecordsInv, TypeInv
  <2>4. /\ toServer'[u] = Append(toServer[u], pdu)
        /\ \A v \in Users : v # u => toServer'[v] = toServer[v]
    BY <2>1, <2>3
  <2>5. \A k \in DOMAIN toServer'[u] :
          \/ toServer'[u][k] = pdu
          \/ k \in DOMAIN toServer[u] /\ toServer'[u][k] = toServer[u][k]
    BY <2>3, <2>4
  <2>6. Spoken(u, pdu)
    BY LineSpoken
  <2>7. \A v \in Users : \A k \in DOMAIN toServer'[v] : Spoken(v, toServer'[v][k])
    BY <2>4, <2>5, <2>6 DEF TalkInv
  <2>8. QED
    BY <2>2, <2>7 DEF TalkInv
<1>4. ASSUME NEW u \in Users,
             \/ ConnectFails(u) \/ SendEndsClient(u) \/ ServerIsGone(u) \/ ClientKilled(u)
      PROVE  TalkInv'
  <2>1. toServer' = toServer /\ toClient' = toClient
    BY <1>4 DEF ConnectFails, SendEndsClient, ServerIsGone, ClientKilled, netVars
  <2>2. peer' = peer \/ \E p \in PeerTypes : peer' = [peer EXCEPT ![u] = p]
    BY <1>4 DEF ConnectFails, SendEndsClient, ServerIsGone, ClientKilled, Exits, netVars
  <2>3. peer' \in [Users -> PeerTypes]
    BY <2>2 DEF TalkInv
  <2>4. QED
    BY <2>1, <2>3 DEF TalkInv
<1>5. ASSUME NEW u \in Users, processMsgFromServer(u) PROVE TalkInv'
  <2>1. PICK k \in recvPDU(toClient[u]) :
          /\ toClient' = [toClient EXCEPT ![u] = Rest(@, k)]
          /\ peer' = peer \/ \E p \in PeerTypes : peer' = [peer EXCEPT ![u] = p]
    BY <1>5 DEF processMsgFromServer, Exits
  <2>2. toServer' = toServer
    BY <1>5 DEF processMsgFromServer
  <2>3. peer' \in [Users -> PeerTypes]
    BY <2>1 DEF TalkInv
  <2>4. toClient[u] \in Seq(SentPdus) /\ k \in Nat
    <3>1. toClient[u] \in Seq(SentPdus) /\ Len(toClient[u]) \in Nat
      BY DEF TalkInv
    <3>2. k \in 1 .. Len(toClient[u]) \/ k \in 1 .. 1
      BY DEF recvPDU
    <3>3. QED
      BY <3>1, <3>2
  <2>5. Rest(toClient[u], k) \in Seq(SentPdus)
    BY <2>4 DEF Rest
  <2>6. toClient' \in [Users -> Seq(SentPdus)]
    BY <2>1, <2>5 DEF TalkInv
  <2>7. QED
    BY <2>2, <2>3, <2>6 DEF TalkInv
<1>6. CASE UNCHANGED vars
  BY <1>6 DEF vars, netVars, TalkInv
<1>7. QED
  BY <1>1, <1>2, <1>3, <1>4, <1>5, <1>6 DEF Next, TypeLine, ClientStep

LEMMA TalkInit == Init => TalkInv
  BY EmptySeq DEF Init, TalkInv

LEMMA TalkCorrect == Spec => [](RecordsInv /\ TalkInv)
<1>1. RecordsInv /\ TalkInv /\ [Next]_vars => (RecordsInv /\ TalkInv)'
  BY RecordsStep, TalkStep
<1>2. Init => RecordsInv /\ TalkInv
  BY RecordsInit, TalkInit
<1>3. QED
  BY <1>1, <1>2, PTL DEF Spec

\* The connection to a client grows when the server reads and shrinks when the
\* client does.
LEMMA ToClientSteps ==
  ASSUME RecordsInv, TalkInv, [Next]_vars, NEW v \in Users
  PROVE  \/ toClient'[v] = toClient[v]
         \/ \E k \in Nat \ {0} : toClient'[v] = Rest(toClient[v], k)
         \/ \E u \in Users, new \in Seq(SentPdus) :
              /\ up /\ Polled(u) /\ RecvData(u)
              /\ toClient'[v] = toClient[v] \o new
              /\ \A i \in DOMAIN new : Meant(u, v, new[i])
<1>1. CASE ServerStep
  <2>1. PICK ready : ready = pollCall(poll, Readable, {})
    OBVIOUS
  <2>2. \/ toClient' = toClient
        \/ \E u \in Users : socket[u] = ready /\ ready # 0 /\ RecvData(u) /\ up
    BY <1>1, <2>1 DEF ServerStep, addNewSocket, AcceptFails, RecvClosed, RecvFails, netVars
  <2>3. ASSUME NEW u \in Users, socket[u] = ready, ready # 0, RecvData(u)
        PROVE  /\ Polled(u)
               /\ \E new \in Seq(SentPdus) :
                    /\ toClient'[v] = toClient[v] \o new
                    /\ \A i \in DOMAIN new : Meant(u, v, new[i])
    <3>1. PollOK(poll) /\ ready # Timeout
      BY <2>3 DEF RecordsInv, PollInv, TypeInv, Timeout
    <3>2. Polled(u)
      BY <2>1, <2>3, <3>1, ReadySocket DEF Polled
    <3>3. QED
      BY <2>3, <3>2, ReadDelivers
  <2>4. QED
    BY <2>2, <2>3
<1>2. ASSUME NEW u \in Users, processMsgFromServer(u)
      PROVE  \/ toClient'[v] = toClient[v]
             \/ \E k \in Nat \ {0} : toClient'[v] = Rest(toClient[v], k)
  <2>1. PICK k \in recvPDU(toClient[u]) : toClient' = [toClient EXCEPT ![u] = Rest(@, k)]
    BY <1>2 DEF processMsgFromServer
  <2>2. k \in Nat \ {0}
    <3>1. Len(toClient[u]) \in Nat
      BY DEF TalkInv
    <3>2. k \in 1 .. Len(toClient[u]) \/ k \in 1 .. 1
      BY DEF recvPDU
    <3>3. QED
      BY <3>1, <3>2
  <2>3. CASE u = v
    <3>1. toClient'[v] = Rest(toClient[v], k)
      BY <2>1, <2>3 DEF TalkInv
    <3>2. QED
      BY <2>2, <3>1
  <2>4. CASE u # v
    BY <2>1, <2>4 DEF TalkInv
  <2>5. QED
    BY <2>3, <2>4
<1>3. ASSUME NEW u \in Users, NEW command \in Commands,
             \/ Connect(u) \/ ConnectFails(u) \/ sendToServer(u, command)
             \/ SendEndsClient(u) \/ ServerIsGone(u) \/ ClientKilled(u)
      PROVE  toClient'[v] = toClient[v]
  BY <1>3 DEF Connect, ConnectFails, sendToServer, SendEndsClient, ServerIsGone,
              ClientKilled, netVars
<1>4. ASSUME NEW u \in Users,
             \/ Connect(u) \/ ConnectFails(u)
             \/ SendEndsClient(u) \/ ServerIsGone(u) \/ ClientKilled(u)
      PROVE  toClient'[v] = toClient[v]
  BY <1>4 DEF Connect, ConnectFails, SendEndsClient, ServerIsGone, ClientKilled, netVars
<1>5. CASE UNCHANGED vars
  BY <1>5 DEF vars, netVars
<1>6. QED
  BY <1>1, <1>2, <1>3, <1>4, <1>5 DEF Next, TypeLine, ClientStep

\* A text for certain handles goes only to clients with one of them, also when
\* the entry that the lookup finds was given up, as long as the handles fit in
\* what %m sends of them and none begins another.
THEOREM ReachesAddresseeCorrect ==
  ASSUME NoHandleBeginsAnother, HandlesFit
  PROVE  Spec => []ReachesAddressee
<1>1. Init => ReachesAddressee
  BY DEF Init, ReachesAddressee
<1>2. ASSUME RecordsInv, TalkInv, ReachesAddressee, [Next]_vars PROVE ReachesAddressee'
  <2> SUFFICES ASSUME NEW v \in Users, NEW k \in DOMAIN toClient'[v],
                      toClient'[v][k].flag \in {5, 6}
               PROVE  Handle[v] \in toClient'[v][k].text[1].for
    BY DEF ReachesAddressee
  <2>1. toClient[v] \in Seq(SentPdus)
    BY <1>2 DEF TalkInv
  <2>2. \A i \in DOMAIN toClient[v] : toClient[v][i].flag \in {5, 6} =>
          Handle[v] \in toClient[v][i].text[1].for
    BY <1>2 DEF ReachesAddressee
  <2>3. CASE toClient'[v] = toClient[v]
    BY <2>2, <2>3
  <2>4. ASSUME NEW l \in Nat \ {0}, toClient'[v] = Rest(toClient[v], l)
        PROVE  Handle[v] \in toClient'[v][k].text[1].for
    <3>1. k + l \in DOMAIN toClient[v] /\ toClient'[v][k] = toClient[v][k + l]
      BY <2>1, <2>4 DEF Rest
    <3>2. QED
      BY <2>2, <3>1
  <2>5. ASSUME NEW u \in Users, NEW new \in Seq(SentPdus),
               toClient'[v] = toClient[v] \o new,
               \A i \in DOMAIN new : Meant(u, v, new[i])
        PROVE  Handle[v] \in toClient'[v][k].text[1].for
    <3>1. CASE k \in DOMAIN toClient[v]
      <4>1. toClient'[v][k] = toClient[v][k]
        BY <2>1, <2>5, <3>1
      <4>2. QED
        BY <2>2, <3>1, <4>1
    <3>2. CASE k \notin DOMAIN toClient[v]
      <4>1. PICK i \in DOMAIN new : toClient'[v][k] = new[i]
        <5>1. /\ k - Len(toClient[v]) \in DOMAIN new
              /\ toClient'[v][k] = new[k - Len(toClient[v])]
          BY <2>1, <2>5, <3>2
        <5>2. QED
          BY <5>1
      <4>2. QED
        BY <2>5, <4>1 DEF Meant
    <3>3. QED
      BY <3>1, <3>2
  <2>6. QED
    BY <1>2, <2>3, <2>4, <2>5, ToClientSteps
<1>3. QED
  BY <1>1, <1>2, TalkCorrect, PTL DEF Spec

-----------------------------------------------------------------------------
(* What Those picks, by its elements. *)

\* What is picked of the first n elements depends on these only.
LEMMA PicksAgree ==
  ASSUME NEW s, NEW A, NEW f, NEW t, NEW B, NEW g, NEW n \in Nat, NEW l \in Nat, n <= l,
         Picks(s, A, n, f), Picks(t, B, l, g),
         \A k \in 1 .. n : s[k] = t[k] /\ (s[k] \in A <=> t[k] \in B)
  PROVE  f[n] = g[n]
<1> DEFINE N == {k \in Nat : k <= n => f[k] = g[k]}
<1>1. \A k \in 0 .. n : f[k] =
        IF k = 0 THEN <<>> ELSE IF s[k] \in A THEN Append(f[k - 1], s[k]) ELSE f[k - 1]
  BY DEF Picks
<1>2. \A k \in 0 .. l : g[k] =
        IF k = 0 THEN <<>> ELSE IF t[k] \in B THEN Append(g[k - 1], t[k]) ELSE g[k - 1]
  BY DEF Picks
<1>3. 0 \in N
  BY <1>1, <1>2
<1>4. ASSUME NEW k \in Nat, k \in N PROVE k + 1 \in N
  <2> SUFFICES ASSUME k + 1 <= n PROVE f[k + 1] = g[k + 1]
    OBVIOUS
  <2>1. /\ k + 1 \in 0 .. n /\ k + 1 \in 0 .. l /\ k + 1 # 0 /\ k + 1 - 1 = k
        /\ f[k] = g[k] /\ s[k + 1] = t[k + 1] /\ (s[k + 1] \in A <=> t[k + 1] \in B)
    BY <1>4
  <2>2. f[k + 1] = IF s[k + 1] \in A THEN Append(f[k], s[k + 1]) ELSE f[k]
    BY <1>1, <2>1
  <2>3. g[k + 1] = IF t[k + 1] \in B THEN Append(g[k], t[k + 1]) ELSE g[k]
    BY <1>2, <2>1
  <2>4. QED
    BY <2>1, <2>2, <2>3
<1> HIDE DEF N
<1>5. n \in N
  BY <1>3, <1>4, NumbersInduction
<1>6. QED
  BY <1>5 DEF N

\* Only which elements are in the set matters.
LEMMA ThoseSame ==
  ASSUME NEW S, NEW s \in Seq(S), NEW A, NEW B,
         \A k \in DOMAIN s : s[k] \in A <=> s[k] \in B
  PROVE  Those(s, A) = Those(s, B)
<1>1. Len(s) \in Nat /\ DOMAIN s = 1 .. Len(s)
  OBVIOUS
<1>2. PICK f : Picks(s, A, Len(s), f) /\ Those(s, A) = f[Len(s)]
  BY <1>1, ThosePicks
<1>3. PICK g : Picks(s, B, Len(s), g) /\ Those(s, B) = g[Len(s)]
  BY <1>1, ThosePicks
<1>4. PICK n \in Nat : n = Len(s)
  BY <1>1
<1>5. f[n] = g[n]
  <2>1. Picks(s, A, n, f) /\ Picks(s, B, n, g) /\ n <= n
    BY <1>2, <1>3, <1>4
  <2>2. \A k \in 1 .. n : s[k] = s[k] /\ (s[k] \in A <=> s[k] \in B)
    BY <1>1, <1>4
  <2>3. QED
    BY ONLY <1>4, <2>1, <2>2, PicksAgree
<1>6. QED
  BY <1>2, <1>3, <1>4, <1>5

\* Nothing is picked of nothing.
LEMMA ThoseEmpty ==
  ASSUME NEW A
  PROVE  Those(<<>>, A) = <<>>
<1>1. Len(<<>>) = 0
  OBVIOUS
<1>2. PICK f : Picks(<<>>, A, 0, f) /\ Those(<<>>, A) = f[0]
  BY <1>1, ThosePicks
<1>3. f[0] = <<>>
  BY <1>2 DEF Picks
<1>4. QED
  BY <1>2, <1>3

\* One element more.
LEMMA ThoseAppended ==
  ASSUME NEW S, NEW s \in Seq(S), NEW x \in S, NEW A
  PROVE  Those(Append(s, x), A) = IF x \in A THEN Append(Those(s, A), x) ELSE Those(s, A)
<1>1. PICK n, t : n = Len(s) /\ t = Append(s, x)
  OBVIOUS
<1>2. /\ n \in Nat /\ Len(t) = n + 1 /\ t[n + 1] = x
      /\ \A k \in 1 .. n : t[k] = s[k]
  BY <1>1
<1>3. PICK f : Picks(s, A, n, f) /\ Those(s, A) = f[n]
  BY <1>1, <1>2, ThosePicks
<1>4. PICK g : Picks(t, A, n + 1, g) /\ Those(t, A) = g[n + 1]
  BY <1>2, ThosePicks
<1>5. f[n] = g[n]
  <2>1. n + 1 \in Nat /\ n <= n /\ n <= n + 1
    BY <1>2
  <2>2. \A k \in 1 .. n : s[k] = t[k] /\ (s[k] \in A <=> t[k] \in A)
    BY <1>2
  <2>3. Picks(s, A, n, f) /\ Picks(t, A, n + 1, g) /\ n \in Nat
    BY <1>2, <1>3, <1>4
  <2>4. QED
    BY ONLY <2>1, <2>2, <2>3, PicksAgree
<1>6. g[n + 1] = IF t[n + 1] \in A THEN Append(g[n], t[n + 1]) ELSE g[n]
  <2>1. PICK m : m = n + 1
    OBVIOUS
  <2>2. m \in 0 .. m /\ m # 0 /\ m - 1 = n
    BY <1>2, <2>1
  <2>3. \A k \in 0 .. m : g[k] =
          IF k = 0 THEN <<>> ELSE IF t[k] \in A THEN Append(g[k - 1], t[k]) ELSE g[k - 1]
    BY <1>4, <2>1 DEF Picks
  <2>4. g[m] = IF t[m] \in A THEN Append(g[n], t[m]) ELSE g[n]
    BY ONLY <2>2, <2>3
  <2>5. QED
    BY <2>1, <2>4
<1>7. QED
  BY <1>1, <1>2, <1>3, <1>4, <1>5, <1>6

\* Those of two sequences, one behind the other.
LEMMA ThoseJoined ==
  ASSUME NEW S, NEW s \in Seq(S), NEW t \in Seq(S), NEW A
  PROVE  Those(s \o t, A) = Those(s, A) \o Those(t, A)
<1> DEFINE part(n) == SubSeq(t, 1, n)
           N == {n \in Nat : n <= Len(t) =>
                   Those(s \o part(n), A) = Those(s, A) \o Those(part(n), A)}
<1>1. Those(s, A) \in Seq(S \cap A) /\ \A r \in Seq(S) : Those(r, A) \in Seq(S \cap A)
  BY ThoseAre
<1>2. 0 \in N
  <2>1. part(0) = <<>> /\ s \o part(0) = s
    OBVIOUS
  <2>2. PICK r : r = Those(s, A)
    OBVIOUS
  <2>3. r \in Seq(S \cap A)
    BY <1>1, <2>2
  <2>4. r \o <<>> = r
    BY <2>3
  <2>5. QED
    BY <2>1, <2>2, <2>4, ThoseEmpty
<1>3. ASSUME NEW n \in Nat, n \in N PROVE n + 1 \in N
  <2> SUFFICES ASSUME n + 1 <= Len(t)
               PROVE  Those(s \o part(n + 1), A) = Those(s, A) \o Those(part(n + 1), A)
    OBVIOUS
  <2>1. PICK p, q, x : p = part(n) /\ q = part(n + 1) /\ x = t[n + 1]
    OBVIOUS
  <2>2. p \in Seq(S) /\ x \in S /\ q = Append(p, x)
    BY <2>1
  <2>3. Those(s \o p, A) = Those(s, A) \o Those(p, A)
    BY <1>3, <2>1
  <2>4. s \o p \in Seq(S) /\ s \o q = Append(s \o p, x)
    BY <2>2
  <2>5. PICK sp, c, d : sp = s \o p /\ c = Those(s, A) /\ d = Those(p, A)
    OBVIOUS
  <2>6. c \in Seq(S) /\ d \in Seq(S)
    <3>1. c \in Seq(S \cap A) /\ d \in Seq(S \cap A)
      BY <1>1, <2>2, <2>5
    <3>2. QED
      BY <3>1, SeqMonotonic
  <2>7. PICK cd, dx : cd = c \o d /\ dx = Append(d, x)
    OBVIOUS
  <2>8. Those(s \o q, A) = IF x \in A THEN Append(cd, x) ELSE cd
    <3> sp \in Seq(S) /\ x \in S
      BY <2>2, <2>4, <2>5
    <3>1. Those(Append(sp, x), A) = IF x \in A THEN Append(Those(sp, A), x) ELSE Those(sp, A)
      BY ONLY sp \in Seq(S), x \in S, ThoseAppended
    <3>2. Those(sp, A) = cd /\ s \o q = Append(sp, x)
      BY <2>3, <2>4, <2>5, <2>7
    <3>3. QED
      BY ONLY <3>1, <3>2, Zenon
  <2>9. Those(q, A) = IF x \in A THEN dx ELSE d
    BY <2>2, <2>5, <2>7, ThoseAppended
  <2>10. Append(cd, x) = c \o dx
    <3>1. x \in S
      BY <2>2
    <3>2. dx = Append(d, x)
      BY <2>7
    <3>3. c \o dx = Append(c \o d, x)
      BY ONLY <2>6, <3>1, <3>2
    <3>4. QED
      BY ONLY <2>7, <3>3, Zenon
  <2>11. QED
    BY <2>1, <2>5, <2>7, <2>8, <2>9, <2>10
<1> HIDE DEF N
<1>4. Len(t) \in Nat /\ Len(t) \in N
  BY <1>2, <1>3, NumbersInduction
<1>5. part(Len(t)) = t
  OBVIOUS
<1>6. Those(s \o part(Len(t)), A) = Those(s, A) \o Those(part(Len(t)), A)
  BY <1>4 DEF N
<1>7. QED
  BY ONLY <1>5, <1>6, Zenon

\* The positions that Those picks, in the order of the sequence.
PickedAt(seq, set, n, picked, at) ==
  /\ \A j \in DOMAIN picked : /\ at[j] \in 1 .. n
                              /\ picked[j] = seq[at[j]] /\ seq[at[j]] \in set
  /\ \A i, j \in DOMAIN picked : at[i] = at[j] => i = j
  /\ \A k \in 1 .. n : seq[k] \in set => \E j \in DOMAIN picked : at[j] = k

\* Everything picked has its position, and every element of the set is picked.
LEMMA PickedPositions ==
  ASSUME NEW S, NEW seq \in Seq(S), NEW set
  PROVE  \E at : PickedAt(seq, set, Len(seq), Those(seq, set), at)
<1> DEFINE part(n) == SubSeq(seq, 1, n)
           N == {n \in Nat : n <= Len(seq) =>
                   \E at : PickedAt(seq, set, n, Those(part(n), set), at)}
<1>1. 0 \in N
  <2>1. part(0) = <<>>
    OBVIOUS
  <2>2. Those(part(0), set) = <<>>
    BY <2>1, ThoseEmpty
  <2>3. PICK p : p = <<>>
    OBVIOUS
  <2>4. DOMAIN p = {}
    BY <2>3
  <2>5. PickedAt(seq, set, 0, p, p)
    BY <2>4 DEF PickedAt
  <2>6. QED
    BY <2>2, <2>3, <2>5
<1>2. ASSUME NEW n \in Nat, n \in N PROVE n + 1 \in N
  <2> SUFFICES ASSUME n + 1 <= Len(seq)
               PROVE  \E at : PickedAt(seq, set, n + 1, Those(part(n + 1), set), at)
    OBVIOUS
  <2>1. PICK p, q, x, m : p = part(n) /\ q = part(n + 1) /\ x = seq[n + 1] /\ m = n + 1
    OBVIOUS
  <2>2. p \in Seq(S) /\ x \in S /\ q = Append(p, x)
    BY <2>1
  <2>3. PICK old, new : old = Those(p, set) /\ new = Those(q, set)
    OBVIOUS
  <2>4. new = IF x \in set THEN Append(old, x) ELSE old
    BY <2>2, <2>3, ThoseAppended
  <2>5. PICK at : PickedAt(seq, set, n, old, at)
    BY <1>2, <2>1, <2>3
  <2>6. old \in Seq(S \cap set)
    BY <2>2, <2>3, ThoseAre
  <2>7. CASE x \notin set
    <3>1. new = old
      BY <2>4, <2>7
    <3>2. m \in Nat /\ \A k \in 1 .. m : k \in 1 .. n \/ k = m
      BY <2>1
    <3>3. \A k \in 1 .. n : k \in 1 .. m
      BY <2>1
    <3>4. PickedAt(seq, set, m, old, at)
      BY <2>1, <2>5, <2>7, <3>2, <3>3 DEF PickedAt
    <3>5. QED
      BY <2>1, <2>3, <3>1, <3>4
  <2>8. CASE x \in set
    <3>1. PICK l : l = Len(old)
      OBVIOUS
    <3>2. /\ l \in Nat /\ DOMAIN old = 1 .. l /\ DOMAIN new = 1 .. (l + 1)
          /\ new[l + 1] = x /\ \A j \in 1 .. l : new[j] = old[j]
      BY <2>2, <2>4, <2>6, <2>8, <3>1
    <3>3. PICK to : to = [j \in 1 .. (l + 1) |-> IF j = l + 1 THEN m ELSE at[j]]
      OBVIOUS
    <3>4. to[l + 1] = m /\ \A j \in 1 .. l : to[j] = at[j]
      BY <3>2, <3>3
    <3>5. /\ \A j \in 1 .. l : at[j] \in 1 .. n /\ old[j] = seq[at[j]] /\ seq[at[j]] \in set
          /\ \A i, j \in 1 .. l : at[i] = at[j] => i = j
          /\ \A k \in 1 .. n : seq[k] \in set => \E j \in 1 .. l : at[j] = k
      BY <2>5, <3>2 DEF PickedAt
    <3>6. /\ m \in 1 .. m /\ \A k \in 1 .. n : k \in 1 .. m /\ k # m
          /\ \A k \in 1 .. m : k \in 1 .. n \/ k = m
          /\ seq[m] = x
      BY <2>1
    <3>7. /\ \A j \in 1 .. (l + 1) : j \in 1 .. l \/ j = l + 1
          /\ \A j \in 1 .. l : j \in 1 .. (l + 1)
          /\ l + 1 \in 1 .. (l + 1)
      BY <3>2
    <3>8. \A j \in 1 .. (l + 1) : to[j] \in 1 .. m /\ new[j] = seq[to[j]] /\ seq[to[j]] \in set
      BY ONLY <2>8, <3>2, <3>4, <3>5, <3>6, <3>7
    <3>9. \A i, j \in 1 .. (l + 1) : to[i] = to[j] => i = j
      BY ONLY <3>4, <3>5, <3>6, <3>7
    <3>10. \A k \in 1 .. m : seq[k] \in set => \E j \in 1 .. (l + 1) : to[j] = k
      BY ONLY <3>4, <3>5, <3>6, <3>7
    <3>11. PickedAt(seq, set, m, new, to)
      BY ONLY <3>2, <3>8, <3>9, <3>10 DEF PickedAt
    <3>12. QED
      BY <2>1, <2>3, <3>11
  <2>9. QED
    BY <2>7, <2>8
<1> HIDE DEF N
<1>3. Len(seq) \in Nat /\ Len(seq) \in N
  BY <1>1, <1>2, NumbersInduction
<1>4. part(Len(seq)) = seq
  OBVIOUS
<1>5. \E at : PickedAt(seq, set, Len(seq), Those(part(Len(seq)), set), at)
  BY <1>3 DEF N
<1>6. QED
  BY ONLY <1>4, <1>5, Zenon

\* What no element is in picks nothing.
LEMMA ThoseNone ==
  ASSUME NEW S, NEW seq \in Seq(S), NEW set, \A k \in DOMAIN seq : seq[k] \notin set
  PROVE  Those(seq, set) = <<>>
<1>1. PICK r : r = Those(seq, set)
  OBVIOUS
<1>2. r \in Seq(S \cap set)
  BY <1>1, ThoseAre
<1>3. PICK at : PickedAt(seq, set, Len(seq), r, at)
  BY <1>1, PickedPositions
<1>4. DOMAIN seq = 1 .. Len(seq)
  OBVIOUS
<1>5. 1 \notin DOMAIN r
  BY <1>3, <1>4 DEF PickedAt
<1>6. Len(r) \in Nat /\ DOMAIN r = 1 .. Len(r)
  BY <1>2
<1>7. Len(r) = 0
  BY <1>5, <1>6
<1>8. r = <<>>
  BY ONLY <1>2, <1>7
<1>9. QED
  BY <1>1, <1>8

\* One element in a set is all that is picked.
LEMMA ThoseOne ==
  ASSUME NEW S, NEW seq \in Seq(S), NEW set, NEW k \in DOMAIN seq, seq[k] \in set,
         \A l \in DOMAIN seq : seq[l] \in set => l = k
  PROVE  Those(seq, set) = <<seq[k]>>
<1>1. PICK r, x : r = Those(seq, set) /\ x = seq[k]
  OBVIOUS
<1>2. r \in Seq(S \cap set)
  BY <1>1, ThoseAre
<1>3. PICK at : PickedAt(seq, set, Len(seq), r, at)
  BY <1>1, PickedPositions
<1>4. DOMAIN seq = 1 .. Len(seq)
  OBVIOUS
<1>5. \A j \in DOMAIN r : at[j] = k /\ r[j] = x
  BY <1>1, <1>3, <1>4 DEF PickedAt
<1>6. \E j \in DOMAIN r : at[j] = k
  BY <1>3, <1>4 DEF PickedAt
<1>7. \A i, j \in DOMAIN r : i = j
  BY <1>3, <1>5 DEF PickedAt
<1>8. Len(r) = 1
  <2>1. Len(r) \in Nat /\ DOMAIN r = 1 .. Len(r)
    BY <1>2
  <2>2. Len(r) # 0
    BY <1>6, <2>1
  <2>3. Len(r) < 2
    <3> SUFFICES ASSUME Len(r) >= 2 PROVE FALSE
      BY <2>1
    <3>1. 1 \in DOMAIN r /\ 2 \in DOMAIN r
      BY <2>1
    <3>2. QED
      BY <1>7, <3>1
  <2>4. QED
    BY <2>1, <2>2, <2>3
<1>9. r = <<x>>
  BY <1>2, <1>5, <1>8
<1>10. QED
  BY <1>1, <1>9

-----------------------------------------------------------------------------
(* The broadcasts in a sequence of PDUs. *)

\* How ChatRoom names the broadcast of a PDU.
TextTag(pdu) == <<pdu.text[1].by, pdu.text[1].n>>

FlagFour(S) == {p \in S : p.flag = 4}

\* b names the PDUs in r, in their order.
TagsOf(S, b, r) ==
  /\ r \in Seq(S) /\ b \in Seq({TextTag(p) : p \in S}) /\ Len(b) = Len(r)
  /\ \A k \in DOMAIN r : b[k] = TextTag(r[k])

\* The broadcasts are the names of the PDUs with flag 4.
LEMMA BroadcastsAre ==
  ASSUME NEW S, NEW s \in Seq(S), NEW r, r = Those(s, FlagFour(S))
  PROVE  TagsOf(S, Broadcasts(s), r)
<1> DEFINE W == {TextTag(p) : p \in S}
<1>1. Those(s, {p \in Range(s) : p.flag = 4}) = r
  <2>1. \A k \in DOMAIN s : s[k] \in {p \in Range(s) : p.flag = 4} <=> s[k] \in FlagFour(S)
    BY DEF Range, FlagFour
  <2>2. QED
    BY <2>1, ThoseSame
<1>2. r \in Seq(S)
  <2>1. r \in Seq(S \cap FlagFour(S))
    BY ThoseAre
  <2>2. QED
    BY <2>1, SeqMonotonic
<1>3. PICK b : b = [k \in DOMAIN r |-> TextTag(r[k])]
  OBVIOUS
<1>4. Broadcasts(s) = b
  BY <1>1, <1>3, Zenon DEF Broadcasts, TextTag
<1>5. Len(r) \in Nat /\ DOMAIN r = 1 .. Len(r)
  BY <1>2
<1>6. \A k \in 1 .. Len(r) : r[k] \in S
  BY <1>2, <1>5
<1>7. b \in [1 .. Len(r) -> W]
  BY ONLY <1>3, <1>5, <1>6
<1>8. b \in Seq(W) /\ Len(b) = Len(r)
  BY ONLY <1>5, <1>7, FunctionIsSeq
<1>9. \A k \in DOMAIN r : b[k] = TextTag(r[k])
  BY ONLY <1>3
<1>10. QED
  BY ONLY <1>2, <1>4, <1>8, <1>9 DEF TagsOf

\* Broadcasts is a sequence of such names.
LEMMA BroadcastsType ==
  ASSUME NEW S, NEW s \in Seq(S)
  PROVE  Broadcasts(s) \in Seq({TextTag(p) : p \in S})
<1>1. PICK r : r = Those(s, FlagFour(S))
  OBVIOUS
<1>2. TagsOf(S, Broadcasts(s), r)
  BY <1>1, BroadcastsAre
<1>3. QED
  BY <1>2 DEF TagsOf

\* The broadcasts of two sequences, one behind the other.
LEMMA BroadcastsJoined ==
  ASSUME NEW S, NEW s \in Seq(S), NEW t \in Seq(S), NEW st, st = s \o t
  PROVE  Broadcasts(st) = Broadcasts(s) \o Broadcasts(t)
<1>1. PICK W, a, b, c : /\ W = {TextTag(p) : p \in S}
                        /\ a = Broadcasts(s) /\ b = Broadcasts(t) /\ c = Broadcasts(st)
  OBVIOUS
<1>2. PICK r, q, rq : /\ r = Those(s, FlagFour(S)) /\ q = Those(t, FlagFour(S))
                      /\ rq = Those(st, FlagFour(S))
  OBVIOUS
<1>3. st \in Seq(S)
  OBVIOUS
<1>4. rq = r \o q
  <2>1. Those(s \o t, FlagFour(S)) = Those(s, FlagFour(S)) \o Those(t, FlagFour(S))
    BY ThoseJoined
  <2>2. QED
    BY <1>2, <2>1, Zenon
<1>5. /\ r \in Seq(S) /\ a \in Seq(W) /\ Len(a) = Len(r)
      /\ \A k \in DOMAIN r : a[k] = TextTag(r[k])
  <2>1. TagsOf(S, a, r)
    BY <1>1, <1>2, BroadcastsAre
  <2>2. QED
    BY <1>1, <2>1 DEF TagsOf
<1>6. /\ q \in Seq(S) /\ b \in Seq(W) /\ Len(b) = Len(q)
      /\ \A k \in DOMAIN q : b[k] = TextTag(q[k])
  <2>1. TagsOf(S, b, q)
    BY <1>1, <1>2, BroadcastsAre
  <2>2. QED
    BY <1>1, <2>1 DEF TagsOf
<1>7. /\ rq \in Seq(S) /\ c \in Seq(W) /\ Len(c) = Len(rq)
      /\ \A k \in DOMAIN rq : c[k] = TextTag(rq[k])
  <2>1. TagsOf(S, c, rq)
    BY <1>1, <1>2, <1>3, BroadcastsAre
  <2>2. QED
    BY <1>1, <2>1 DEF TagsOf
<1>8. /\ Len(r) \in Nat /\ Len(q) \in Nat /\ Len(rq) = Len(r) + Len(q)
      /\ DOMAIN r = 1 .. Len(r) /\ DOMAIN q = 1 .. Len(q) /\ DOMAIN rq = 1 .. Len(rq)
      /\ \A k \in 1 .. Len(r) : rq[k] = r[k]
      /\ \A k \in 1 .. Len(q) : rq[Len(r) + k] = q[k]
  BY ONLY <1>4, <1>5, <1>6
<1>9. /\ a \o b \in Seq(W) /\ Len(a \o b) = Len(r) + Len(q)
      /\ \A k \in 1 .. Len(r) : (a \o b)[k] = a[k]
      /\ \A k \in 1 .. Len(q) : (a \o b)[Len(r) + k] = b[k]
  <2>1. Len(a) = Len(r) /\ Len(b) = Len(q)
    BY <1>5, <1>6
  <2>2. /\ a \o b \in Seq(W) /\ Len(a \o b) = Len(a) + Len(b)
        /\ \A k \in 1 .. Len(a) : (a \o b)[k] = a[k]
        /\ \A k \in 1 .. Len(b) : (a \o b)[Len(a) + k] = b[k]
    <3>1. a \in Seq(W) /\ b \in Seq(W)
      BY <1>5, <1>6
    <3>2. QED
      BY ONLY <3>1, Concatenation
  <2>3. QED
    BY ONLY <2>1, <2>2, Zenon
<1>10. PICK ab : ab = a \o b
  OBVIOUS
<1>11. \A k \in 1 .. (Len(r) + Len(q)) : c[k] = ab[k]
  <2> TAKE k \in 1 .. (Len(r) + Len(q))
  <2>1. CASE k \in 1 .. Len(r)
    <3>1. c[k] = TextTag(rq[k])
      BY <1>7, <1>8
    <3>2. ab[k] = a[k] /\ a[k] = TextTag(r[k]) /\ rq[k] = r[k]
      BY <1>5, <1>8, <1>9, <1>10, <2>1
    <3>3. QED
      BY ONLY <3>1, <3>2, Zenon
  <2>2. CASE k \notin 1 .. Len(r)
    <3>1. PICK l : l = k - Len(r)
      OBVIOUS
    <3>2. l \in 1 .. Len(q) /\ k = Len(r) + l
      BY <1>8, <2>2, <3>1
    <3>3. c[k] = TextTag(rq[k])
      BY <1>7, <1>8
    <3>4. ab[k] = b[l] /\ b[l] = TextTag(q[l]) /\ rq[k] = q[l]
      BY <1>6, <1>8, <1>9, <1>10, <3>2
    <3>5. QED
      BY ONLY <3>3, <3>4, Zenon
  <2>3. QED
    BY <2>1, <2>2
<1>12. c = ab
  <2>1. ab \in Seq(W) /\ Len(ab) = Len(r) + Len(q)
    BY <1>9, <1>10
  <2>2. c \in Seq(W) /\ Len(c) = Len(r) + Len(q)
    BY <1>7, <1>8
  <2>3. QED
    BY ONLY <1>11, <2>1, <2>2, SeqEqual
<1>13. QED
  BY <1>1, <1>10, <1>12

\* Without flag 4 there are none.
LEMMA BroadcastsNone ==
  ASSUME NEW S, NEW s \in Seq(S), \A k \in DOMAIN s : s[k].flag # 4
  PROVE  Broadcasts(s) = <<>>
<1>1. PICK r : r = Those(s, FlagFour(S))
  OBVIOUS
<1>2. r = <<>>
  <2>1. \A k \in DOMAIN s : s[k] \notin FlagFour(S)
    BY DEF FlagFour
  <2>2. QED
    BY <1>1, <2>1, ThoseNone
<1>3. Len(r) = 0
  BY <1>2
<1>4. Broadcasts(s) \in Seq({TextTag(p) : p \in S}) /\ Len(Broadcasts(s)) = 0
  <2>1. TagsOf(S, Broadcasts(s), r)
    BY <1>1, BroadcastsAre
  <2>2. QED
    BY <1>3, <2>1 DEF TagsOf
<1>5. QED
  BY ONLY <1>4

\* One PDU with flag 4 is one broadcast.
LEMMA BroadcastsOne ==
  ASSUME NEW S, NEW x \in S, NEW s, s = <<x>>, x.flag = 4
  PROVE  Len(Broadcasts(s)) = 1 /\ Broadcasts(s)[1] = TextTag(x)
<1>1. PICK r : r = Those(s, FlagFour(S))
  OBVIOUS
<1>2. s \in Seq(S) /\ 1 \in DOMAIN s /\ s[1] = x /\ \A k \in DOMAIN s : k = 1
  OBVIOUS
<1>3. s[1] \in FlagFour(S)
  BY <1>2 DEF FlagFour
<1>4. r = <<s[1]>>
  BY <1>1, <1>2, <1>3, ThoseOne
<1>5. Len(r) = 1 /\ 1 \in DOMAIN r /\ r[1] = x
  BY <1>2, <1>4
<1>6. /\ Len(Broadcasts(s)) = Len(r)
      /\ \A k \in DOMAIN r : Broadcasts(s)[k] = TextTag(r[k])
  <2>1. TagsOf(S, Broadcasts(s), r)
    BY <1>1, <1>2, BroadcastsAre
  <2>2. QED
    BY <2>1 DEF TagsOf
<1>7. QED
  BY ONLY <1>5, <1>6, Zenon

\* t is s with x behind it.
Extends(t, s, x) == t = Append(s, x)

\* A PDU behind others.
LEMMA BroadcastsAppended ==
  ASSUME NEW S, NEW s \in Seq(S), NEW x \in S, NEW t, t = Append(s, x)
  PROVE  /\ x.flag = 4 => Extends(Broadcasts(t), Broadcasts(s), TextTag(x))
         /\ x.flag # 4 => Broadcasts(t) = Broadcasts(s)
<1>1. PICK q : q = <<x>>
  OBVIOUS
<1>2. q \in Seq(S) /\ Len(q) = 1 /\ q[1] = x /\ DOMAIN q = {1}
  BY <1>1
<1>3. t = s \o q
  BY <1>1
<1>4. Broadcasts(t) = Broadcasts(s) \o Broadcasts(q)
  BY <1>2, <1>3, BroadcastsJoined
<1>5. PICK W, a, b : /\ W = {TextTag(p) : p \in S}
                     /\ a = Broadcasts(s) /\ b = Broadcasts(q)
  OBVIOUS
<1>6. a \in Seq(W) /\ b \in Seq(W)
  BY <1>2, <1>5, BroadcastsType
<1>7. CASE x.flag = 4
  <2>1. PICK w : w = TextTag(x)
    OBVIOUS
  <2>2. Len(b) = 1 /\ b[1] = w
    BY <1>1, <1>5, <1>7, <2>1, BroadcastsOne
  <2>3. w \in W /\ b = <<w>>
    <3>1. 1 \in 1 .. Len(b) /\ b \in Seq(W)
      BY <1>6, <2>2
    <3>2. w \in W
      <4>1. w = TextTag(x)
        BY <2>1
      <4>2. QED
        BY ONLY <1>5, <4>1, x \in S
    <3>3. PICK c : c = <<w>>
      OBVIOUS
    <3>4. c \in Seq(W) /\ Len(c) = 1 /\ c[1] = w
      BY ONLY <3>2, <3>3
    <3>5. b = c
      BY ONLY <2>2, <3>1, <3>4, SeqEqual
    <3>6. QED
      BY <3>2, <3>3, <3>5
  <2>4. a \o <<w>> = Append(a, w)
    BY ONLY <1>6, <2>3
  <2>5. QED
    BY <1>4, <1>5, <1>7, <2>1, <2>3, <2>4 DEF Extends
<1>8. CASE x.flag # 4
  <2>1. b = <<>>
    BY <1>2, <1>5, <1>8, BroadcastsNone
  <2>2. a \o b = a
    BY ONLY <1>6, <2>1
  <2>3. QED
    BY <1>4, <1>5, <1>8, <2>2
<1>9. QED
  BY <1>7, <1>8

\* The first of several PDUs.
LEMMA BroadcastsFirst ==
  ASSUME NEW S, NEW s \in Seq(S), s # <<>>, NEW t, t = Rest(s, 1)
  PROVE  /\ s[1].flag # 4 => Broadcasts(s) = Broadcasts(t)
         /\ s[1].flag = 4 =>
              /\ Len(Broadcasts(s)) = Len(Broadcasts(t)) + 1
              /\ Broadcasts(s)[1] = TextTag(s[1])
              /\ \A k \in DOMAIN Broadcasts(t) : Broadcasts(s)[k + 1] = Broadcasts(t)[k]
<1>1. PICK x, q : x = s[1] /\ q = <<x>>
  OBVIOUS
<1>2. x \in S /\ t \in Seq(S)
  BY <1>1 DEF Rest
<1>3. q \in Seq(S) /\ Len(q) = 1 /\ q[1] = x /\ DOMAIN q = {1}
  BY <1>1, <1>2
<1>4. s = q \o t
  BY <1>1, <1>2, <1>3 DEF Rest
<1>5. Broadcasts(s) = Broadcasts(q) \o Broadcasts(t)
  BY <1>2, <1>3, <1>4, BroadcastsJoined
<1>6. PICK W, a, b, c : /\ W = {TextTag(p) : p \in S}
                        /\ a = Broadcasts(q) /\ b = Broadcasts(t) /\ c = Broadcasts(s)
  OBVIOUS
<1>7. a \in Seq(W) /\ b \in Seq(W) /\ c = a \o b
  BY <1>2, <1>3, <1>5, <1>6, BroadcastsType
<1>8. CASE x.flag = 4
  <2>1. PICK w : w = TextTag(x)
    OBVIOUS
  <2>2. Len(a) = 1 /\ a[1] = w
    BY <1>1, <1>2, <1>6, <1>8, <2>1, BroadcastsOne
  <2>3. a \in Seq(W) /\ b \in Seq(W)
    BY <1>7
  <2>4. /\ Len(a \o b) = Len(a) + Len(b)
        /\ \A i \in 1 .. Len(a) : (a \o b)[i] = a[i]
        /\ \A i \in 1 .. Len(b) : (a \o b)[Len(a) + i] = b[i]
    BY ONLY <2>3, Concatenation
  <2>5. /\ Len(c) = Len(a) + Len(b)
        /\ \A i \in 1 .. Len(a) : c[i] = a[i]
        /\ \A i \in 1 .. Len(b) : c[Len(a) + i] = b[i]
    BY ONLY <1>7, <2>4, Zenon
  <2>6. Len(b) \in Nat /\ DOMAIN b = 1 .. Len(b)
    BY ONLY <2>3
  <2>7. Len(c) = Len(b) + 1 /\ c[1] = w
    BY ONLY <2>2, <2>5, <2>6
  <2>8. \A k \in DOMAIN b : c[k + 1] = b[k]
    BY ONLY <2>2, <2>5, <2>6
  <2>9. QED
    BY <1>1, <1>6, <1>8, <2>1, <2>7, <2>8
<1>9. CASE x.flag # 4
  <2>1. a = <<>>
    BY <1>3, <1>6, <1>9, BroadcastsNone
  <2>2. a \o b = b
    BY ONLY <1>7, <2>1
  <2>3. QED
    BY <1>1, <1>6, <1>7, <1>9, <2>2
<1>10. QED
  BY <1>8, <1>9

-----------------------------------------------------------------------------
(* What a client has been given of the broadcasts. *)

\* What a client has been given of the broadcasts: those printed and those on
\* their way.
Heard(printed, queue) == Broadcasts(printed \o queue)

\* A client that reads a PDU has been given what it had been given before.
LEMMA HeardRead ==
  ASSUME NEW S, NEW s \in Seq(S), NEW q \in Seq(S), q # <<>>, NEW t,
         \/ q[1].flag = 4 /\ Extends(t, s, q[1])
         \/ q[1].flag # 4 /\ t = s
  PROVE  t \in Seq(S) /\ Heard(t, Rest(q, 1)) = Heard(s, q)
<1>1. PICK x, r : x = q[1] /\ r = Rest(q, 1)
  OBVIOUS
<1>2. x \in S /\ r \in Seq(S)
  BY <1>1 DEF Rest
<1>3. CASE x.flag = 4
  <2>1. t = Append(s, x)
    BY <1>1, <1>3 DEF Extends
  <2>2. PICK l : l = <<x>>
    OBVIOUS
  <2>3. l \in Seq(S) /\ t = s \o l
    BY ONLY <1>2, <2>1, <2>2, s \in Seq(S)
  <2>4. q = l \o r
    BY ONLY <1>1, <1>2, <2>2, q \in Seq(S), q # <<>> DEF Rest
  <2>5. t \o r = s \o q
    BY ONLY <1>2, <2>3, <2>4, s \in Seq(S)
  <2>6. t \in Seq(S)
    BY ONLY <2>3, s \in Seq(S)
  <2>7. QED
    BY <1>1, <2>5, <2>6 DEF Heard
<1>4. CASE x.flag # 4
  <2>1. t = s
    BY <1>1, <1>4
  <2>2. Broadcasts(q) = Broadcasts(r)
    BY <1>1, <1>4, BroadcastsFirst
  <2>3. Broadcasts(s \o q) = Broadcasts(s) \o Broadcasts(q)
    BY BroadcastsJoined
  <2>4. Broadcasts(s \o r) = Broadcasts(s) \o Broadcasts(r)
    BY <1>2, BroadcastsJoined
  <2>5. QED
    BY <1>1, <2>1, <2>2, <2>3, <2>4, Zenon DEF Heard
<1>5. QED
  BY <1>3, <1>4

\* What is no broadcast changes nothing.
LEMMA HeardNothing ==
  ASSUME NEW S, NEW s \in Seq(S), NEW q \in Seq(S), NEW new \in Seq(S),
         \A k \in DOMAIN new : new[k].flag # 4, NEW qn, qn = q \o new
  PROVE  Heard(s, qn) = Heard(s, q)
<1>1. PICK sq, sqn : sq = s \o q /\ sqn = sq \o new
  OBVIOUS
<1>2. sq \in Seq(S)
  BY <1>1
<1>3. sqn = s \o qn
  BY <1>1
<1>4. Broadcasts(sqn) = Broadcasts(sq) \o Broadcasts(new)
  BY <1>1, <1>2, BroadcastsJoined
<1>5. Broadcasts(new) = <<>>
  BY BroadcastsNone
<1>6. Broadcasts(sq) \in Seq({TextTag(p) : p \in S})
  BY <1>2, BroadcastsType
<1>7. Broadcasts(sq) \o <<>> = Broadcasts(sq)
  BY ONLY <1>6
<1>8. QED
  BY <1>1, <1>3, <1>4, <1>5, <1>7, Zenon DEF Heard

\* A broadcast is heard last.
LEMMA HeardOne ==
  ASSUME NEW S, NEW s \in Seq(S), NEW q \in Seq(S), NEW x \in S, x.flag = 4,
         NEW new, new = <<x>>, NEW qn, qn = q \o new
  PROVE  Extends(Heard(s, qn), Heard(s, q), TextTag(x))
<1>1. PICK sq, sqn : sq = s \o q /\ sqn = Append(sq, x)
  OBVIOUS
<1>2. sq \in Seq(S)
  BY <1>1
<1>3. sqn = s \o qn
  <2>1. q \o new = Append(q, x)
    OBVIOUS
  <2>2. s \o Append(q, x) = Append(s \o q, x)
    OBVIOUS
  <2>3. QED
    BY <1>1, <2>1, <2>2, Zenon
<1>4. Extends(Broadcasts(sqn), Broadcasts(sq), TextTag(x))
  BY <1>1, <1>2, BroadcastsAppended
<1>5. QED
  BY <1>1, <1>3, <1>4, Zenon DEF Heard

\* Of what is sent to different sockets a client gets at most one PDU.
LEMMA SentOnce ==
  ASSUME NEW out \in Seq(Sends), NEW v \in Users,
         \A i, j \in DOMAIN out : out[i].socket = out[j].socket => i = j
  PROVE  \/ SentTo(out, v) = <<>> /\ \A j \in DOMAIN out : out[j].socket # socket[v]
         \/ \E j \in DOMAIN out : out[j].socket = socket[v] /\ SentTo(out, v) = <<out[j]>>
<1>1. PICK set : set = {o \in Range(out) : o.socket = socket[v]}
  OBVIOUS
<1>2. SentTo(out, v) = Those(out, set)
  BY <1>1 DEF SentTo
<1>3. \A j \in DOMAIN out : out[j] \in set <=> out[j].socket = socket[v]
  BY <1>1 DEF Range
<1>4. CASE \A j \in DOMAIN out : out[j].socket # socket[v]
  <2>1. Those(out, set) = <<>>
    BY <1>3, <1>4, ThoseNone
  <2>2. QED
    BY <1>2, <1>4, <2>1
<1>5. ASSUME NEW j \in DOMAIN out, out[j].socket = socket[v]
      PROVE  SentTo(out, v) = <<out[j]>>
  <2>1. out[j] \in set /\ \A l \in DOMAIN out : out[l] \in set => l = j
    BY <1>3, <1>5
  <2>2. Those(out, set) = <<out[j]>>
    BY <2>1, ThoseOne
  <2>3. QED
    BY <1>2, <2>2
<1>6. QED
  BY <1>4, <1>5

-----------------------------------------------------------------------------
(* To whom a broadcast is sent, and who hears it. *)

\* out sends x once to the socket of everybody else who is registered, and to no
\* other.
Targets(u, x, out) ==
  /\ out \in Seq(Sends)
  /\ \A j \in DOMAIN out : out[j].pdu = x
  /\ \A i, j \in DOMAIN out : out[i].socket = out[j].socket => i = j
  /\ \A j \in DOMAIN out : \A v \in Users :
       out[j].socket = socket[v] => v # u /\ Registered(v)
  /\ \A v \in Users : v # u /\ Registered(v) =>
       \E j \in DOMAIN out : out[j].socket = socket[v]

\* So does the server with a broadcast: the table has one entry in use for everybody
\* who is registered, and none for another.
LEMMA BroadcastTargets ==
  ASSUME NEW u \in Users, NEW x \in SentPdus, NEW out,
         RecordsInv, socket[u] # 0, out = Broadcast(socket[u], x)
  PROVE  Targets(u, x, out)
<1>1. PICK s, n : s = socket[u] /\ n = TableSize
  OBVIOUS
<1>2. s \in Nat /\ s # 0 /\ n \in Nat /\ Entries = 1 .. n
  BY <1>1 DEF RecordsInv, TypeInv, Entries
<1>3. table \in Seq(EntryRecords) /\ Len(table) = n /\ DOMAIN table = 1 .. n
  <2>1. table \in [1 .. n -> EntryRecords]
    BY <1>2 DEF RecordsInv, TypeInv
  <2>2. table \in Seq(EntryRecords) /\ Len(table) = n
    BY ONLY <1>2, <2>1, FunctionIsSeq
  <2>3. QED
    BY ONLY <2>1, <2>2
<1>4. PICK kept : kept = {e \in Range(table) : e.isUsed /\ e.socketNumber # s}
  OBVIOUS
<1>5. \A k \in 1 .. n : table[k] \in kept <=> table[k].isUsed /\ table[k].socketNumber # s
  BY <1>3, <1>4 DEF Range
<1>6. PICK others : others = Those(table, kept)
  OBVIOUS
<1>7. others \in Seq(EntryRecords \cap kept)
  BY <1>3, <1>6, ThoseAre
<1>8. Len(others) \in Nat /\ DOMAIN others = 1 .. Len(others)
  BY <1>7
<1>9. PICK at : PickedAt(table, kept, n, others, at)
  BY <1>3, <1>6, PickedPositions
<1>10. out = [i \in DOMAIN others |-> To(others[i].socketNumber, x)]
  BY <1>1, <1>4, <1>6 DEF Broadcast, Others
<1>11. ASSUME NEW j \in DOMAIN others
       PROVE  /\ at[j] \in Entries /\ table[at[j]].isUsed /\ table[at[j]].socketNumber # s
              /\ out[j].socket = table[at[j]].socketNumber /\ out[j].pdu = x
              /\ out[j] \in Sends
  <2>1. at[j] \in 1 .. n /\ others[j] = table[at[j]] /\ table[at[j]] \in kept
    BY <1>9 DEF PickedAt
  <2>2. table[at[j]] \in EntryRecords
    BY <1>2, <2>1 DEF RecordsInv, TypeInv
  <2>3. PICK m : m = table[at[j]].socketNumber
    OBVIOUS
  <2>4. m \in Nat
    BY <2>2, <2>3 DEF EntryRecords
  <2>5. out[j] = [socket |-> m, pdu |-> x]
    BY <1>10, <2>1, <2>3 DEF To
  <2>6. QED
    BY <1>2, <1>5, <2>1, <2>3, <2>4, <2>5 DEF Sends
<1>12. DOMAIN out = DOMAIN others
  BY <1>10
<1>13. out \in Seq(Sends)
  <2>1. out \in [1 .. Len(others) -> Sends]
    BY <1>8, <1>10, <1>11
  <2>2. QED
    BY <1>8, <2>1, FunctionIsSeq
<1>14. ASSUME NEW i \in DOMAIN out, NEW j \in DOMAIN out, out[i].socket = out[j].socket
       PROVE  i = j
  <2>1. /\ at[i] \in Entries /\ table[at[i]].isUsed
        /\ at[j] \in Entries /\ table[at[j]].isUsed
        /\ table[at[i]].socketNumber = table[at[j]].socketNumber
    BY <1>11, <1>12, <1>14
  <2>2. at[i] = at[j]
    BY <2>1 DEF RecordsInv, FirstInv
  <2>3. QED
    BY <1>9, <1>12, <2>2 DEF PickedAt
<1>15. ASSUME NEW j \in DOMAIN out, NEW v \in Users, out[j].socket = socket[v]
       PROVE  v # u /\ Registered(v)
  <2>1. /\ at[j] \in Entries /\ table[at[j]].isUsed /\ table[at[j]].socketNumber # s
        /\ table[at[j]].socketNumber = socket[v]
    BY <1>11, <1>12, <1>15
  <2>2. socket[v] # 0
    BY <2>1 DEF RecordsInv, OwnerInv, Owns
  <2>3. QED
    BY <1>1, <2>1, <2>2 DEF Registered
<1>16. ASSUME NEW v \in Users, v # u, Registered(v)
       PROVE  \E j \in DOMAIN out : out[j].socket = socket[v]
  <2>1. PICK i \in Entries : /\ table[i].isUsed /\ table[i].socketNumber = socket[v]
                             /\ socket[v] # 0
    BY <1>16 DEF Registered
  <2>2. socket[v] # s
    BY <1>1, <1>2, <1>16, <2>1 DEF RecordsInv, SocketInv, Accepted
  <2>3. i \in 1 .. n /\ table[i] \in kept
    BY <1>2, <1>5, <2>1, <2>2
  <2>4. PICK j \in DOMAIN others : at[j] = i
    BY <1>9, <2>3 DEF PickedAt
  <2>5. out[j].socket = socket[v]
    BY <1>11, <2>1, <2>4
  <2>6. QED
    BY <1>12, <2>5
<1>17. QED
  BY <1>11, <1>12, <1>13, <1>14, <1>15, <1>16 DEF Targets

\* What is sent of a broadcast is heard by those to whose sockets it went, and
\* by nobody else.
LEMMA BroadcastHeard ==
  ASSUME TalkInv, shown \in [Users -> Seq(SentPdus)], NEW x \in SentPdus, x.flag = 4,
         NEW sent \in Seq(Sends), SendsSucceed(sent), shown' = shown,
         \A j \in DOMAIN sent : sent[j].pdu = x,
         \A i, j \in DOMAIN sent : sent[i].socket = sent[j].socket => i = j,
         NEW v \in Users
  PROVE  /\ peer[v] = "up" /\ (\E j \in DOMAIN sent : sent[j].socket = socket[v]) =>
              Extends(Heard(shown'[v], toClient'[v]), Heard(shown[v], toClient[v]), TextTag(x))
         /\ ~ (peer[v] = "up" /\ (\E j \in DOMAIN sent : sent[j].socket = socket[v])) =>
              Heard(shown'[v], toClient'[v]) = Heard(shown[v], toClient[v])
<1>1. PICK d, new : /\ d = SentTo(sent, v)
                    /\ new = IF peer[v] = "up" THEN [i \in DOMAIN d |-> d[i].pdu] ELSE <<>>
  OBVIOUS
<1>2. toClient'[v] = toClient[v] \o new
  BY <1>1 DEF SendsSucceed
<1>3. PICK s, q, qn : s = shown[v] /\ q = toClient[v] /\ qn = toClient'[v]
  OBVIOUS
<1>4. s \in Seq(SentPdus) /\ q \in Seq(SentPdus) /\ qn = q \o new
  BY <1>2, <1>3 DEF TalkInv
<1>5. ASSUME peer[v] = "up", NEW j \in DOMAIN sent, sent[j].socket = socket[v]
      PROVE  Extends(Heard(s, qn), Heard(s, q), TextTag(x))
  <2>1. PICK l \in DOMAIN sent : d = <<sent[l]>>
    BY <1>1, <1>5, SentOnce
  <2>2. DOMAIN d = {1} /\ d[1] = sent[l] /\ sent[l].pdu = x
    BY <2>1
  <2>3. new = [i \in {1} |-> x]
    BY <1>1, <1>5, <2>2
  <2>4. [i \in {1} |-> x] = <<x>>
    <3>1. [i \in {1} |-> x] \in [1 .. 1 -> SentPdus]
      OBVIOUS
    <3>2. PICK f, g : f = [i \in {1} |-> x] /\ g = <<x>>
      OBVIOUS
    <3>3. f \in Seq(SentPdus) /\ Len(f) = 1
      <4>1. f \in [1 .. 1 -> SentPdus] /\ 1 \in Nat
        BY <3>1, <3>2
      <4>2. QED
        BY ONLY <4>1, FunctionIsSeq
    <3>4. g \in Seq(SentPdus) /\ Len(g) = 1 /\ g[1] = x
      BY <3>2
    <3>5. f[1] = x
      BY <3>2
    <3>6. f = g
      BY ONLY <3>3, <3>4, <3>5, SeqEqual
    <3>7. QED
      BY <3>2, <3>6
  <2>5. new = <<x>>
    BY <2>3, <2>4
  <2>6. QED
    BY <1>4, <2>5, HeardOne
<1>6. ASSUME ~ (peer[v] = "up" /\ \E j \in DOMAIN sent : sent[j].socket = socket[v])
      PROVE  Heard(s, qn) = Heard(s, q)
  <2>1. new = <<>>
    <3>1. CASE peer[v] # "up"
      BY <1>1, <3>1
    <3>2. CASE peer[v] = "up"
      <4>1. d = <<>>
        BY <1>1, <1>6, <3>2, SentOnce
      <4>2. DOMAIN d = {}
        BY <4>1
      <4>3. new = [i \in {} |-> d[i].pdu]
        BY <1>1, <3>2, <4>2
      <4>4. [i \in {} |-> d[i].pdu] = <<>>
        OBVIOUS
      <4>5. QED
        BY <4>3, <4>4
    <3>3. QED
      BY <3>1, <3>2
  <2>2. new \in Seq(SentPdus) /\ \A k \in DOMAIN new : new[k].flag # 4
    <3>1. <<>> \in Seq(SentPdus) /\ DOMAIN <<>> = {}
      OBVIOUS
    <3>2. new \in Seq(SentPdus) /\ DOMAIN new = {}
      BY <2>1, <3>1
    <3>3. QED
      BY ONLY <3>2
  <2>3. Heard(s, qn) = Heard(s, q)
    BY ONLY <1>4, <2>2, HeardNothing
  <2>4. QED
    BY <2>3
<1>7. QED
  BY <1>3, <1>5, <1>6

\* What SubSeq leaves of a sequence when it is cut at m.
LEMMA SuffixElements ==
  ASSUME NEW S, NEW s \in Seq(S), NEW m \in Nat,
         NEW t, t = SubSeq(s, m + 1, Len(s))
  PROVE  /\ Len(t) = IF m < Len(s) THEN Len(s) - m ELSE 0
         /\ \A i \in DOMAIN t : i \in 1 .. (Len(s) - m) /\ t[i] = s[m + i]
<1>1. PICK n : n = Len(s)
  OBVIOUS
<1>2. n \in Nat /\ \A i \in (m + 1) .. n : s[i] \in S
  BY <1>1
<1>3. /\ SubSeq(s, m + 1, n) \in Seq(S)
      /\ Len(SubSeq(s, m + 1, n)) = IF m + 1 <= n THEN n - (m + 1) + 1 ELSE 0
      /\ \A i \in 1 .. (n - (m + 1) + 1) :
           SubSeq(s, m + 1, n)[i] = s[(m + 1) + i - 1]
  BY <1>2, SubSeqProperties
<1>4. t = SubSeq(s, m + 1, n)
  BY <1>1
<1>5. Len(t) = IF m < n THEN n - m ELSE 0
  BY <1>2, <1>3, <1>4
<1>6. t \in Seq(S) /\ DOMAIN t = 1 .. Len(t)
  BY <1>3, <1>4
<1>7. ASSUME NEW i \in DOMAIN t PROVE i \in 1 .. (n - m) /\ t[i] = s[m + i]
  <2>1. i \in 1 .. (n - m)
    BY <1>2, <1>5, <1>6
  <2>2. n - (m + 1) + 1 = n - m /\ (m + 1) + i - 1 = m + i
    BY <1>2, <2>1
  <2>3. QED
    BY <1>3, <1>4, <2>1, <2>2
<1>8. QED
  BY <1>1, <1>5, <1>7

-----------------------------------------------------------------------------
(* Cutting a stretch out of a sequence. *)

\* new is what is left of old when some elements that follow each other go.
Cut(new, old) ==
  \E i \in 0 .. Len(old) : \E j \in i .. Len(old) :
    new = SubSeq(old, 1, i) \o SubSeq(old, j + 1, Len(old))

\* The first of two sequences put together, and the second.
LEMMA TwoParts ==
  ASSUME NEW S, NEW a \in Seq(S), NEW c \in Seq(S), NEW ac, ac = a \o c
  PROVE  /\ Len(a) \in Nat /\ Len(c) \in Nat /\ Len(ac) = Len(a) + Len(c)
         /\ SubSeq(ac, 1, Len(a)) = a
         /\ SubSeq(ac, Len(a) + 1, Len(ac)) = c
<1>1. PICK m, n : m = Len(a) /\ n = Len(c)
  OBVIOUS
<1>2. m \in Nat /\ n \in Nat
  BY <1>1
<1>3. /\ ac \in Seq(S) /\ Len(ac) = m + n
      /\ \A i \in 1 .. m : ac[i] = a[i]
      /\ \A i \in 1 .. n : ac[m + i] = c[i]
  <2>1. /\ a \o c \in Seq(S) /\ Len(a \o c) = Len(a) + Len(c)
        /\ \A i \in 1 .. Len(a) : (a \o c)[i] = a[i]
        /\ \A i \in 1 .. Len(c) : (a \o c)[Len(a) + i] = c[i]
    BY ONLY a \in Seq(S), c \in Seq(S), Concatenation
  <2>2. QED
    BY <1>1, <2>1, Zenon
<1>4. SubSeq(ac, 1, m) = a
  <2>1. PICK t : t = SubSeq(ac, 1, m)
    OBVIOUS
  <2>2. t \in Seq(S) /\ Len(t) = m /\ \A i \in 1 .. m : t[i] = ac[i]
    BY ONLY <1>2, <1>3, <2>1, SubSeqProperties
  <2>3. \A i \in 1 .. Len(t) : t[i] = a[i]
    BY <1>3, <2>2
  <2>4. t = a
    BY <1>1, <2>2, <2>3, SeqEqual
  <2>5. QED
    BY <2>1, <2>4
<1>5. SubSeq(ac, m + 1, Len(ac)) = c
  <2>1. PICK t : t = SubSeq(ac, m + 1, Len(ac))
    OBVIOUS
  <2>2. t \in Seq(S)
    BY <1>2, <1>3, <2>1
  <2>3. /\ Len(t) = IF m < Len(ac) THEN Len(ac) - m ELSE 0
        /\ \A i \in DOMAIN t : i \in 1 .. (Len(ac) - m) /\ t[i] = ac[m + i]
    BY ONLY <1>2, <1>3, <2>1, SuffixElements
  <2>4. Len(t) = n /\ DOMAIN t = 1 .. n
    BY <1>2, <1>3, <2>2, <2>3
  <2>5. \A i \in 1 .. Len(t) : t[i] = c[i]
    BY <1>3, <2>3, <2>4
  <2>6. t = c
    BY <1>1, <2>2, <2>4, <2>5, SeqEqual
  <2>7. QED
    BY <2>1, <2>6
<1>6. QED
  BY <1>1, <1>2, <1>3, <1>4, <1>5

\* A part in the middle is cut out.
LEMMA MiddleCut ==
  ASSUME NEW S, NEW a \in Seq(S), NEW b \in Seq(S), NEW c \in Seq(S),
         NEW ab, ab = a \o b, NEW abc, abc = ab \o c, NEW ac, ac = a \o c
  PROVE  Cut(ac, abc)
<1>1. ab \in Seq(S) /\ abc \in Seq(S)
  BY ConcatProperties
<1>2. /\ Len(a) \in Nat /\ Len(b) \in Nat /\ Len(ab) = Len(a) + Len(b)
      /\ SubSeq(ab, 1, Len(a)) = a
  BY TwoParts
<1>3. /\ Len(c) \in Nat /\ Len(abc) = Len(ab) + Len(c)
      /\ SubSeq(abc, Len(ab) + 1, Len(abc)) = c
  BY <1>1, TwoParts
<1>4. SubSeq(abc, 1, Len(a)) = a
  <2>1. PICK bc : bc = b \o c
    OBVIOUS
  <2>2. bc \in Seq(S) /\ abc = a \o bc
    <3>1. (a \o b) \o c = a \o (b \o c)
      BY ConcatAssociative
    <3>2. QED
      BY <2>1, <3>1, ConcatProperties
  <2>3. QED
    BY <2>2, TwoParts
<1>5. Len(a) \in 0 .. Len(abc) /\ Len(ab) \in Len(a) .. Len(abc)
  BY <1>2, <1>3
<1>6. ac = SubSeq(abc, 1, Len(a)) \o SubSeq(abc, Len(ab) + 1, Len(abc))
  BY <1>3, <1>4, Zenon
<1>7. QED
  BY <1>5, <1>6, Zenon DEF Cut

\* The k elements that are read of a sequence, and the rest.
InTwo(q, k, p, r) == k \in 1 .. Len(q) /\ p = SubSeq(q, 1, k) /\ r = Rest(q, k)

\* Together they are the sequence.
LEMMA CutInTwo ==
  ASSUME NEW S, NEW q \in Seq(S), NEW k, NEW p, NEW r, InTwo(q, k, p, r)
  PROVE  q = p \o r
<1>1. PICK n : n = Len(q) /\ k \in 1 .. n /\ p = SubSeq(q, 1, k) /\ r = Rest(q, k)
  BY DEF InTwo
<1>2. n \in Nat /\ k \in Nat /\ 1 <= k /\ k <= n
  BY <1>1
<1>3. r \in Seq(S) /\ p \in Seq(S)
  BY <1>1, <1>2 DEF Rest
<1>4. Len(p) = k /\ \A i \in 1 .. k : p[i] = q[i]
  BY <1>1, <1>2
<1>5. Len(r) = n - k /\ \A i \in 1 .. (n - k) : r[i] = q[k + i]
  BY <1>1, <1>2 DEF Rest
<1>6. PICK z : z = p \o r
  OBVIOUS
<1>7. /\ z \in Seq(S) /\ Len(z) = Len(p) + Len(r)
      /\ \A i \in 1 .. Len(p) : z[i] = p[i]
      /\ \A i \in 1 .. Len(r) : z[Len(p) + i] = r[i]
  <2>1. /\ p \o r \in Seq(S) /\ Len(p \o r) = Len(p) + Len(r)
        /\ \A i \in 1 .. Len(p) : (p \o r)[i] = p[i]
        /\ \A i \in 1 .. Len(r) : (p \o r)[Len(p) + i] = r[i]
    BY ONLY <1>3, Concatenation
  <2>2. QED
    BY <1>6, <2>1, Zenon
<1>8. Len(z) = n
  BY <1>2, <1>4, <1>5, <1>7
<1>9. ASSUME NEW i \in 1 .. n PROVE z[i] = q[i]
  <2>1. CASE i <= k
    BY <1>2, <1>4, <1>7, <2>1
  <2>2. CASE i > k
    <3>1. i - k \in 1 .. (n - k) /\ k + (i - k) = i
      BY <1>2, <2>2
    <3>2. z[k + (i - k)] = r[i - k] /\ r[i - k] = q[k + (i - k)]
      BY <1>4, <1>5, <1>7, <3>1
    <3>3. QED
      BY <3>1, <3>2
  <2>3. QED
    BY <1>2, <2>1, <2>2
<1>10. z = q
  BY <1>1, <1>7, <1>8, <1>9, SeqEqual
<1>11. QED
  BY <1>6, <1>10

LEMMA JoinedTwice ==
  ASSUME NEW S, NEW a \in Seq(S), NEW b \in Seq(S), NEW c \in Seq(S),
         NEW ab, ab = a \o b, NEW bc, bc = b \o c, NEW x, x = a \o bc
  PROVE  x = ab \o c
  BY ConcatAssociative

\* What a client has been given when it takes several PDUs for the first of them:
\* what it had been given, but for some that follow each other.
LEMMA HeardMissed ==
  ASSUME NEW S, NEW s \in Seq(S), NEW q \in Seq(S), NEW k \in 1 .. Len(q), NEW t,
         \/ t = s
         \/ \E x \in S : /\ Extends(t, s, x) /\ x.flag = 4 /\ q[1].flag = 4
                         /\ TextTag(x) = TextTag(q[1])
  PROVE  t \in Seq(S) /\ Cut(Heard(t, Rest(q, k)), Heard(s, q))
<1> DEFINE Tags == {TextTag(p) : p \in S}
<1>1. PICK n, r, p, first, mid :
        /\ n = Len(q) /\ r = Rest(q, k) /\ p = SubSeq(q, 1, k)
        /\ first = SubSeq(q, 1, 1) /\ mid = SubSeq(q, 2, k)
  OBVIOUS
<1>2. n \in Nat /\ k \in Nat /\ 1 <= k /\ k <= n
  BY <1>1
<1>3. /\ r \in Seq(S) /\ p \in Seq(S) /\ first \in Seq(S) /\ mid \in Seq(S)
      /\ Len(first) = 1 /\ first[1] = q[1] /\ q[1] \in S
  BY <1>1, <1>2 DEF Rest
<1>4. q = p \o r /\ p = first \o mid
  <2>1. q = p \o r
    <3>1. InTwo(q, k, p, r)
      BY <1>1, Zenon DEF InTwo
    <3>2. q \in Seq(S)
      OBVIOUS
    <3>3. QED
      BY ONLY <3>1, <3>2, CutInTwo, SMT
  <2>2. p = first \o mid
    <3>1. Len(p) = k /\ \A i \in 1 .. k : p[i] = q[i]
      BY <1>1, <1>2
    <3>2. Len(mid) = k - 1 /\ \A i \in 1 .. (k - 1) : mid[i] = q[1 + i]
      BY <1>1, <1>2
    <3>3. PICK z : z = first \o mid
      OBVIOUS
    <3>4. first \in Seq(S) /\ mid \in Seq(S)
      BY <1>3
    <3>5. /\ z \in Seq(S) /\ Len(z) = Len(first) + Len(mid)
          /\ \A i \in 1 .. Len(first) : z[i] = first[i]
          /\ \A i \in 1 .. Len(mid) : z[Len(first) + i] = mid[i]
      <4>1. /\ first \o mid \in Seq(S) /\ Len(first \o mid) = Len(first) + Len(mid)
            /\ \A i \in 1 .. Len(first) : (first \o mid)[i] = first[i]
            /\ \A i \in 1 .. Len(mid) : (first \o mid)[Len(first) + i] = mid[i]
        BY ONLY <3>4, Concatenation
      <4>2. QED
        BY <3>3, <4>1, Zenon
    <3>6. Len(z) = k
      BY <1>2, <1>3, <3>2, <3>5
    <3>7. ASSUME NEW i \in 1 .. k PROVE z[i] = p[i]
      <4>1. CASE i = 1
        BY <1>2, <1>3, <3>1, <3>5, <4>1
      <4>2. CASE i > 1
        <5>1. i - 1 \in 1 .. (k - 1) /\ 1 + (i - 1) = i
          BY <1>2, <4>2
        <5>2. z[1 + (i - 1)] = mid[i - 1] /\ mid[i - 1] = q[1 + (i - 1)]
          BY <1>3, <3>2, <3>5, <5>1
        <5>3. QED
          BY <3>1, <5>1, <5>2
      <4>3. QED
        BY <1>2, <4>1, <4>2
    <3>8. z = p
      BY <1>3, <3>1, <3>5, <3>6, <3>7, SeqEqual
    <3>9. QED
      BY <3>3, <3>8
  <2>3. QED
    BY <2>1, <2>2
<1>5. PICK bs, bp, br, bf, bm :
        /\ bs = Broadcasts(s) /\ bp = Broadcasts(p) /\ br = Broadcasts(r)
        /\ bf = Broadcasts(first) /\ bm = Broadcasts(mid)
  OBVIOUS
<1>6. /\ bs \in Seq(Tags) /\ bp \in Seq(Tags) /\ br \in Seq(Tags) /\ bf \in Seq(Tags)
      /\ bm \in Seq(Tags)
  BY <1>3, <1>5, BroadcastsType
<1>7. Broadcasts(q) = bp \o br /\ bp = bf \o bm
  BY ONLY s \in Seq(S), q \in Seq(S), <1>3, <1>4, <1>5, BroadcastsJoined
<1>8. Heard(s, q) = bs \o (bp \o br)
  <2>1. PICK sq : sq = s \o q
    OBVIOUS
  <2>2. Broadcasts(sq) = Broadcasts(s) \o Broadcasts(q)
    BY ONLY <2>1, s \in Seq(S), q \in Seq(S), BroadcastsJoined
  <2>3. QED
    BY <1>5, <1>7, <2>1, <2>2, Zenon DEF Heard
<1>9. PICK T : T = Tags
  OBVIOUS
<1>10. bs \in Seq(T) /\ bp \in Seq(T) /\ br \in Seq(T) /\ bf \in Seq(T) /\ bm \in Seq(T)
  BY <1>6, <1>9, Zenon
<1> HIDE DEF Tags
<1>11. bs \o (bp \o br) = (bs \o bp) \o br
  <2>1. PICK ab, bc, x : ab = bs \o bp /\ bc = bp \o br /\ x = bs \o bc
    OBVIOUS
  <2>2. bs \in Seq(T) /\ bp \in Seq(T) /\ br \in Seq(T)
    BY <1>10
  <2>3. x = ab \o br
    <3>1. PICK a, b, c : a = bs /\ b = bp /\ c = br
      OBVIOUS
    <3>2. /\ a \in Seq(T) /\ b \in Seq(T) /\ c \in Seq(T)
          /\ ab = a \o b /\ bc = b \o c /\ x = a \o bc
      BY <2>1, <2>2, <3>1, Zenon
    <3>3. x = ab \o c
      BY ONLY <3>2, JoinedTwice
    <3>4. QED
      BY <3>1, <3>3, Zenon
  <2>4. QED
    BY <2>1, <2>3, Zenon
<1>12. bs \o (bf \o bm) = (bs \o bf) \o bm
  <2>1. PICK ab, bc, x : ab = bs \o bf /\ bc = bf \o bm /\ x = bs \o bc
    OBVIOUS
  <2>2. x = ab \o bm
    BY ONLY <1>10, <2>1, JoinedTwice
  <2>3. QED
    BY <2>1, <2>2, Zenon
<1>13. CASE t = s
  <2>1. Heard(t, r) = bs \o br
    <3>1. PICK sr : sr = s \o r
      OBVIOUS
    <3>2. Broadcasts(sr) = Broadcasts(s) \o Broadcasts(r)
      BY ONLY <3>1, s \in Seq(S), <1>3, BroadcastsJoined
    <3>3. QED
      BY <1>5, <1>13, <3>1, <3>2, Zenon DEF Heard
  <2>2. PICK ab, abc, ac : ab = bs \o bp /\ abc = ab \o br /\ ac = bs \o br
    OBVIOUS
  <2>3. Cut(ac, abc)
    BY ONLY <1>6, <2>2, MiddleCut
  <2>4. Cut(Heard(t, r), Heard(s, q))
    BY <1>8, <1>11, <2>1, <2>2, <2>3, Zenon
  <2>5. QED
    BY <1>1, <1>13, <2>4, Zenon
<1>14. ASSUME NEW x \in S, Extends(t, s, x), x.flag = 4, q[1].flag = 4,
              TextTag(x) = TextTag(q[1])
       PROVE  t \in Seq(S) /\ Cut(Heard(t, Rest(q, k)), Heard(s, q))
  <2>1. t = Append(s, x) /\ t \in Seq(S)
    BY <1>14 DEF Extends
  <2>2. PICK bt : bt = Broadcasts(t)
    OBVIOUS
  <2>3. bt = bs \o bf
    <3>1. Extends(bt, bs, TextTag(x))
      BY ONLY s \in Seq(S), x \in S, <1>5, <1>14, <2>1, <2>2, BroadcastsAppended
    <3>2. PICK w : w = TextTag(x)
      OBVIOUS
    <3>3. bt = Append(bs, w) /\ w = TextTag(q[1])
      BY <1>14, <3>1, <3>2, Zenon DEF Extends
    <3>4. first = <<q[1]>>
      BY <1>3
    <3>5. PICK y : y = q[1]
      OBVIOUS
    <3>6. Len(bf) = 1 /\ bf[1] = w
      <4>1. y \in S /\ first = <<y>> /\ y.flag = 4 /\ w = TextTag(y)
        BY <1>3, <1>14, <3>3, <3>4, <3>5
      <4>2. Len(Broadcasts(first)) = 1 /\ Broadcasts(first)[1] = TextTag(y)
        BY ONLY <4>1, BroadcastsOne
      <4>3. QED
        BY <1>5, <4>1, <4>2, Zenon
    <3>7. bs \o bf = Append(bs, w)
      <4>1. w \in Tags
        BY <1>3, <3>3 DEF Tags
      <4>2. PICK z, e : z = bs \o bf /\ e = Append(bs, w)
        OBVIOUS
      <4>3. /\ z \in Seq(Tags) /\ Len(z) = Len(bs) + Len(bf)
            /\ \A i \in 1 .. Len(bs) : z[i] = bs[i]
            /\ \A i \in 1 .. Len(bf) : z[Len(bs) + i] = bf[i]
        <5>1. /\ bs \o bf \in Seq(Tags) /\ Len(bs \o bf) = Len(bs) + Len(bf)
              /\ \A i \in 1 .. Len(bs) : (bs \o bf)[i] = bs[i]
              /\ \A i \in 1 .. Len(bf) : (bs \o bf)[Len(bs) + i] = bf[i]
          BY ONLY <1>6, Concatenation
        <5>2. QED
          BY <4>2, <5>1, Zenon
      <4>4. /\ e \in Seq(Tags) /\ Len(e) = Len(bs) + 1 /\ e[Len(bs) + 1] = w
            /\ \A i \in 1 .. Len(bs) : e[i] = bs[i]
        BY ONLY <1>6, <4>1, <4>2
      <4>5. Len(bs) \in Nat
        BY ONLY <1>6
      <4>6. z[Len(bs) + 1] = w
        BY ONLY <3>6, <4>3, <4>5
      <4>7. \A i \in 1 .. Len(z) : z[i] = e[i]
        BY ONLY <3>6, <4>3, <4>4, <4>5, <4>6
      <4>8. z = e
        BY ONLY <3>6, <4>3, <4>4, <4>7, SeqEqual
      <4>9. QED
        BY <4>2, <4>8
    <3>8. QED
      BY <3>3, <3>7
  <2>4. Heard(t, r) = bt \o br
    <3>1. PICK tr : tr = t \o r
      OBVIOUS
    <3>2. Broadcasts(tr) = Broadcasts(t) \o Broadcasts(r)
      BY ONLY <3>1, <2>1, <1>3, BroadcastsJoined
    <3>3. QED
      BY <1>5, <2>2, <3>1, <3>2, Zenon DEF Heard
  <2>5. bt \in Seq(Tags)
    BY ONLY <1>6, <2>3, ConcatProperties
  <2>6. PICK ab, abc, ac : ab = bt \o bm /\ abc = ab \o br /\ ac = bt \o br
    OBVIOUS
  <2>7. Cut(ac, abc)
    BY ONLY <1>6, <2>5, <2>6, MiddleCut
  <2>8. bs \o (bp \o br) = abc
    BY <1>7, <1>11, <1>12, <2>3, <2>6, Zenon
  <2>9. Cut(Heard(t, r), Heard(s, q))
    BY <1>8, <2>4, <2>6, <2>7, <2>8, Zenon
  <2>10. QED
    BY <1>1, <2>1, <2>9, Zenon
<1>15. QED
  BY <1>13, <1>14

-----------------------------------------------------------------------------
(* What a client has said and the server has not read. *)

\* The broadcasts of u that the server has still to read, how many it has read,
\* and what u has been given.
Waiting(u)   == Broadcasts(toServer[u])
SpokenOf(u)  == said[u] - Len(Waiting(u))
HeardBy(u)   == Heard(shown[u], toClient[u])
SaidAs(u, n) == <<u, n>>

\* Those that wait are numbered on from the last one that was read.
Numbered(u) == \A k \in DOMAIN Waiting(u) : Waiting(u)[k] = SaidAs(u, SpokenOf(u) + k)

RoomInv ==
  /\ shown \in [Users -> Seq(SentPdus)]
  /\ \A u \in Users : state[u] = "off" => toServer[u] = <<>>
  /\ \A u \in Users : Numbered(u)

\* The types of what waits and of what is spoken.
LEMMA WaitingTyped ==
  ASSUME RecordsInv, NEW u \in Users
  PROVE  /\ Waiting(u) \in Seq({TextTag(p) : p \in PduRecords}) /\ Len(Waiting(u)) \in Nat
         /\ DOMAIN Waiting(u) = 1 .. Len(Waiting(u)) /\ SpokenOf(u) \in Int
<1>1. toServer[u] \in Seq(PduRecords) /\ said[u] \in Nat
  BY DEF RecordsInv, TypeInv
<1>2. PICK w : w = Waiting(u)
  OBVIOUS
<1>3. w \in Seq({TextTag(p) : p \in PduRecords})
  BY <1>1, <1>2, BroadcastsType DEF Waiting
<1>4. Len(w) \in Nat /\ DOMAIN w = 1 .. Len(w)
  BY <1>3
<1>5. SpokenOf(u) \in Int
  BY <1>1, <1>2, <1>4 DEF SpokenOf
<1>6. QED
  BY <1>2, <1>3, <1>4, <1>5

\* Without Coalesce one PDU is read at a time.
LEMMA ReadOne ==
  ASSUME Coalesce = FALSE, NEW S, NEW q \in Seq(S), q # <<>>, NEW k \in recvPDU(q)
  PROVE  k = 1 /\ Merged(SubSeq(q, 1, k)) = q[1] /\ q[1] \in S /\ Rest(q, k) \in Seq(S)
<1>1. k = 1
  BY DEF recvPDU
<1>2. PICK p : p = SubSeq(q, 1, k)
  OBVIOUS
<1>3. Len(p) = 1 /\ p[1] = q[1] /\ q[1] \in S
  BY <1>1, <1>2
<1>4. Merged(p) = q[1]
  BY <1>3 DEF Merged
<1>5. Rest(q, k) \in Seq(S)
  BY <1>1 DEF Rest
<1>6. QED
  BY <1>1, <1>2, <1>3, <1>4, <1>5

\* Some PDUs are read: what was broadcast in them is spoken, and if the first is a
\* broadcast it is the next that u has spoken.
LEMMA SomeRead ==
  ASSUME RecordsInv, RoomInv, NEW u \in Users, toServer[u] # <<>>,
         NEW k \in recvPDU(toServer[u]),
         toServer'[u] = Rest(toServer[u], k), said'[u] = said[u]
  PROVE  /\ SpokenOf(u)' >= SpokenOf(u) /\ SpokenOf(u)' \in Int /\ Numbered(u)'
         /\ toServer[u][1].flag # 4 /\ ~ Coalesce => SpokenOf(u)' = SpokenOf(u)
         /\ toServer[u][1].flag = 4 =>
              /\ TextTag(toServer[u][1]) = SaidAs(u, SpokenOf(u) + 1)
              /\ SpokenOf(u)' > SpokenOf(u)
              /\ ~ Coalesce => SpokenOf(u)' = SpokenOf(u) + 1
<1>1. PICK q, p, r, a, b, c, n :
        /\ q = toServer[u] /\ p = SubSeq(q, 1, k) /\ r = Rest(q, k)
        /\ a = Waiting(u) /\ b = Waiting(u)' /\ c = Broadcasts(p) /\ n = SpokenOf(u)
  OBVIOUS
<1>2. q \in Seq(PduRecords) /\ q # <<>> /\ said[u] \in Nat /\ k \in 1 .. Len(q)
  BY <1>1, MergedHead DEF RecordsInv, TypeInv
<1>3. p = SubSeq(q, 1, k) /\ r = Rest(q, k) /\ c = Broadcasts(p)
  BY <1>1, Zenon
<1>4. /\ p \in Seq(PduRecords) /\ r \in Seq(PduRecords)
      /\ Len(p) = k /\ p # <<>> /\ p[1] = q[1]
  <2>1. p \in Seq(PduRecords) /\ Len(p) = k /\ p[1] = q[1]
    BY ONLY <1>2, <1>3
  <2>2. r \in Seq(PduRecords)
    BY ONLY <1>2, <1>3 DEF Rest
  <2>3. p # <<>>
    BY ONLY <1>2, <2>1
  <2>4. QED
    BY <2>1, <2>2, <2>3
<1>5. a = Broadcasts(q) /\ b = Broadcasts(r)
  BY <1>1 DEF Waiting
<1>6. q = p \o r
  <2>1. InTwo(q, k, p, r)
    BY <1>2, <1>3, Zenon DEF InTwo
  <2>2. QED
    BY ONLY <1>2, <2>1, CutInTwo, SMT
<1>7. PICK m : m = Len(c)
  OBVIOUS
<1>8. a = c \o b
  <2>1. Broadcasts(q) = Broadcasts(p) \o Broadcasts(r)
    BY ONLY <1>4, <1>6, BroadcastsJoined
  <2>2. QED
    BY <1>5, <1>3, <2>1, Zenon
<1>9. PICK T : T = {TextTag(x) : x \in PduRecords}
  OBVIOUS
<1>10. c \in Seq(T) /\ b \in Seq(T)
  BY <1>1, <1>4, <1>5, <1>9, BroadcastsType
<1>11. /\ m \in Nat /\ Len(b) \in Nat /\ DOMAIN b = 1 .. Len(b) /\ Len(a) = m + Len(b)
       /\ DOMAIN a = 1 .. (m + Len(b))
       /\ \A i \in 1 .. m : a[i] = c[i]
       /\ \A i \in 1 .. Len(b) : a[m + i] = b[i]
  <2>1. /\ c \o b \in Seq(T) /\ Len(c \o b) = Len(c) + Len(b)
        /\ \A i \in 1 .. Len(c) : (c \o b)[i] = c[i]
        /\ \A i \in 1 .. Len(b) : (c \o b)[Len(c) + i] = b[i]
    BY ONLY <1>10, Concatenation
  <2>2. /\ a \in Seq(T) /\ Len(a) = m + Len(b)
        /\ \A i \in 1 .. m : a[i] = c[i]
        /\ \A i \in 1 .. Len(b) : a[m + i] = b[i]
    BY <1>7, <1>8, <2>1, Zenon
  <2>3. m \in Nat /\ Len(b) \in Nat /\ DOMAIN b = 1 .. Len(b)
    BY <1>7, <1>10
  <2>4. DOMAIN a = 1 .. (m + Len(b))
    BY ONLY <2>2
  <2>5. QED
    BY <2>2, <2>3, <2>4
<1>12. n \in Int /\ \A i \in DOMAIN a : a[i] = SaidAs(u, n + i)
  BY <1>1, WaitingTyped DEF RoomInv, Numbered
<1>13. SpokenOf(u)' = n + m
  <2>1. n = said[u] - Len(a) /\ SpokenOf(u)' = said[u] - Len(b)
    BY <1>1 DEF SpokenOf
  <2>2. QED
    BY <1>2, <1>11, <2>1
<1>14. \A i \in DOMAIN b : b[i] = SaidAs(u, (n + m) + i)
  <2> TAKE i \in DOMAIN b
  <2>1. m + i \in DOMAIN a /\ a[m + i] = b[i] /\ n + (m + i) = (n + m) + i
    BY <1>11, <1>12
  <2>2. QED
    BY <1>12, <2>1
<1>15. Numbered(u)'
  BY <1>1, <1>13, <1>14 DEF Numbered
<1>16. n + m >= n /\ n + m \in Int
  BY <1>11, <1>12
<1>17. CASE q[1].flag = 4
  <2>1. PICK rp : rp = Rest(p, 1)
    OBVIOUS
  <2>2. Len(c) = Len(Broadcasts(rp)) + 1 /\ c[1] = TextTag(p[1])
    BY ONLY <1>1, <1>4, <1>17, <2>1, BroadcastsFirst
  <2>3. Len(Broadcasts(rp)) \in Nat
    <3>1. rp \in Seq(PduRecords)
      BY <1>4, <2>1 DEF Rest
    <3>2. PICK d : d = Broadcasts(rp)
      OBVIOUS
    <3>3. d \in Seq({TextTag(x) : x \in PduRecords})
      BY <3>1, <3>2, BroadcastsType
    <3>4. Len(d) \in Nat
      BY <3>3
    <3>5. QED
      BY <3>2, <3>4
  <2>4. m >= 1 /\ a[1] = TextTag(q[1])
    BY <1>4, <1>7, <1>11, <2>2, <2>3
  <2>5. TextTag(q[1]) = SaidAs(u, n + 1)
    BY <1>11, <1>12, <2>4
  <2>6. ASSUME ~ Coalesce PROVE m = 1
    <3>1. k = 1
      BY <2>6 DEF recvPDU
    <3>2. PICK y : y = q[1]
      OBVIOUS
    <3>3. y \in PduRecords /\ p = <<y>> /\ y.flag = 4
      BY ONLY <1>2, <1>4, <1>17, <3>1, <3>2
    <3>4. Len(Broadcasts(p)) = 1
      BY ONLY <3>3, BroadcastsOne
    <3>5. QED
      BY <1>1, <1>7, <3>4
  <2>7. n + m > n
    BY <1>12, <1>11, <2>4
  <2>8. QED
    BY <1>1, <1>13, <1>15, <1>16, <1>17, <2>5, <2>6, <2>7
<1>18. CASE q[1].flag # 4
  <2>1. ASSUME ~ Coalesce PROVE m = 0
    <3>1. k = 1
      BY <2>1 DEF recvPDU
    <3>2. \A i \in DOMAIN p : p[i].flag # 4
      BY <1>1, <1>2, <1>4, <1>18, <3>1
    <3>3. Broadcasts(p) = <<>>
      BY ONLY <1>4, <3>2, BroadcastsNone
    <3>4. QED
      BY <1>1, <1>7, <3>3
  <2>2. n + 0 = n
    BY <1>12
  <2>3. ~ Coalesce => SpokenOf(u)' = n
    BY <1>13, <2>1, <2>2
  <2>4. QED
    BY <1>1, <1>13, <1>15, <1>16, <1>18, <2>3
<1>19. QED
  BY <1>17, <1>18

\* Nothing is read and nothing typed.
LEMMA NothingRead ==
  ASSUME RoomInv, NEW u \in Users, toServer'[u] = toServer[u], said'[u] = said[u]
  PROVE  SpokenOf(u)' = SpokenOf(u) /\ Numbered(u)'
<1>1. Waiting(u)' = Waiting(u)
  BY DEF Waiting
<1>2. SpokenOf(u)' = SpokenOf(u)
  BY <1>1 DEF SpokenOf
<1>3. QED
  BY <1>1, <1>2 DEF RoomInv, Numbered

\* A line is typed: if it is a broadcast it waits behind the others, and nothing
\* is spoken yet.
LEMMA LineWaits ==
  ASSUME RecordsInv, RoomInv, NEW u \in Users, NEW command \in Commands,
         sendToServer(u, command)
  PROVE  SpokenOf(u)' = SpokenOf(u) /\ Numbered(u)'
<1>1. PICK pdu \in LinePdus(u, command) :
        toServer' = [toServer EXCEPT ![u] = Append(@, pdu)]
  BY DEF sendToServer
<1>2. /\ toServer[u] \in Seq(PduRecords) /\ toServer \in [Users -> Seq(PduRecords)]
      /\ said[u] \in Nat /\ said \in [Users -> Nat] /\ pdu \in PduRecords
  BY LinePduTypes DEF RecordsInv, TypeInv
<1>3. PICK q, qx : q = toServer[u] /\ qx = Append(q, pdu) /\ toServer'[u] = qx
  BY <1>1, <1>2
<1>4. PICK a, b, n : a = Waiting(u) /\ b = Waiting(u)' /\ n = SpokenOf(u)
  OBVIOUS
<1>5. a = Broadcasts(q) /\ b = Broadcasts(qx) /\ n = said[u] - Len(a)
      /\ SpokenOf(u)' = said'[u] - Len(b)
  BY <1>3, <1>4 DEF Waiting, SpokenOf
<1>6. /\ pdu.flag = 4 => Extends(b, a, TextTag(pdu))
      /\ pdu.flag # 4 => b = a
  BY <1>2, <1>3, <1>5, BroadcastsAppended
<1>7. CASE command = "%b"
  <2>1. pdu = Pdu(4, Handle[u], <<>>, <<Line(u, said[u] + 1, {})>>)
    BY <1>7 DEF LinePdus
  <2>2. pdu.flag = 4 /\ TextTag(pdu) = SaidAs(u, said[u] + 1)
    <3>1. pdu.flag = 4 /\ pdu.text = <<Line(u, said[u] + 1, {})>>
      BY <2>1 DEF Pdu
    <3>2. pdu.text[1] = Line(u, said[u] + 1, {})
      BY <3>1
    <3>3. pdu.text[1].by = u /\ pdu.text[1].n = said[u] + 1
      BY <3>2 DEF Line
    <3>4. QED
      BY <3>1, <3>3 DEF TextTag, SaidAs
  <2>3. PICK w : w = TextTag(pdu)
    OBVIOUS
  <2>4. Extends(b, a, w)
    BY <1>6, <2>2, <2>3
  <2>5. a \in Seq({TextTag(p) : p \in PduRecords}) /\ w \in {TextTag(p) : p \in PduRecords}
    BY <1>2, <1>4, <2>3, WaitingTyped
  <2>6. /\ Len(a) \in Nat /\ DOMAIN a = 1 .. Len(a) /\ Len(b) = Len(a) + 1
        /\ DOMAIN b = 1 .. (Len(a) + 1) /\ b[Len(a) + 1] = w
        /\ \A k \in 1 .. Len(a) : b[k] = a[k]
    BY ONLY <2>4, <2>5 DEF Extends
  <2>7. said'[u] = said[u] + 1
    BY <1>2, <1>7 DEF sendToServer
  <2>8. SpokenOf(u)' = n /\ n \in Int /\ said[u] + 1 = n + (Len(a) + 1)
    BY <1>2, <1>5, <2>6, <2>7
  <2>9. \A k \in 1 .. Len(a) : a[k] = SaidAs(u, n + k)
    BY <1>4, <2>6 DEF RoomInv, Numbered
  <2>10. b[Len(a) + 1] = SaidAs(u, n + (Len(a) + 1))
    BY <2>2, <2>3, <2>6, <2>8
  <2>11. \A k \in 1 .. (Len(a) + 1) : k \in 1 .. Len(a) \/ k = Len(a) + 1
    BY <2>6
  <2>12. \A k \in DOMAIN b : b[k] = SaidAs(u, n + k)
    BY <2>6, <2>9, <2>10, <2>11
  <2>13. Numbered(u)'
    BY <1>4, <2>8, <2>12 DEF Numbered
  <2>14. QED
    BY <1>4, <2>8, <2>13
<1>8. CASE command # "%b"
  <2>1. said' = said
    BY <1>8 DEF sendToServer
  <2>2. pdu.flag # 4
    <3> HIDE DEF UnicastName
    <3>1. CASE command = "%m"
      <4>1. LinePdus(u, command) =
              {Pdu(5, Handle[u], <<UnicastName(h)>>, <<Line(u, 0, {h})>>) : h \in Names}
        BY <3>1 DEF LinePdus
      <4>2. PICK h \in Names :
              pdu = Pdu(5, Handle[u], <<UnicastName(h)>>, <<Line(u, 0, {h})>>)
        BY <4>1
      <4>3. QED
        BY <4>2 DEF Pdu
    <3>2. CASE command = "%c"
      <4> DEFINE F(g, h) == Pdu(6, Handle[u], <<g, h>>, <<Line(u, 0, {g, h})>>)
      <4>1. LinePdus(u, command) = {F(g, h) : g \in Names, h \in Names}
        BY <3>2 DEF LinePdus
      <4> HIDE DEF F
      <4>2. PICK g \in Names, h \in Names : pdu = F(g, h)
        BY <4>1
      <4>3. QED
        BY <4>2 DEF F, Pdu
    <3>3. CASE command \in {"%l", "%e", "tab", "other"}
      <4>1. PICK flag \in {8, 9, 10, 32} : pdu = Pdu(flag, <<>>, <<>>, <<>>)
        BY <3>3 DEF LinePdus, Signal, PlainText, Tab
      <4>2. QED
        BY <4>1 DEF Pdu
    <3>4. QED
      BY <1>8, <3>1, <3>2, <3>3
  <2>3. Waiting(u)' = Waiting(u)
    BY <1>4, <1>6, <2>2
  <2>4. SpokenOf(u)' = SpokenOf(u)
    BY <2>1, <2>3 DEF SpokenOf
  <2>5. QED
    BY <2>3, <2>4 DEF RoomInv, Numbered
<1>9. QED
  BY <1>7, <1>8

-----------------------------------------------------------------------------
(* What is in the connections. *)

\* A broadcast that is on its way to a client has a text.
TextsInv ==
  \A u \in Users : \A k \in DOMAIN toClient[u] :
    toClient[u][k].flag = 4 => toClient[u][k].text # <<>>

LEMMA TextsStep ==
  ASSUME RecordsInv, TalkInv, TextsInv, [Next]_vars
  PROVE  TextsInv'
<1> SUFFICES ASSUME NEW v \in Users, NEW k \in DOMAIN toClient'[v], toClient'[v][k].flag = 4
             PROVE  toClient'[v][k].text # <<>>
  BY DEF TextsInv
<1>1. toClient[v] \in Seq(SentPdus)
  BY DEF TalkInv
<1>2. \A i \in DOMAIN toClient[v] : toClient[v][i].flag = 4 => toClient[v][i].text # <<>>
  BY DEF TextsInv
<1>3. CASE toClient'[v] = toClient[v]
  BY <1>2, <1>3
<1>4. ASSUME NEW l \in Nat \ {0}, toClient'[v] = Rest(toClient[v], l)
      PROVE  toClient'[v][k].text # <<>>
  <2>1. k + l \in DOMAIN toClient[v] /\ toClient'[v][k] = toClient[v][k + l]
    BY <1>1, <1>4 DEF Rest
  <2>2. QED
    BY <1>2, <2>1
<1>5. ASSUME NEW u \in Users, NEW new \in Seq(SentPdus),
             toClient'[v] = toClient[v] \o new,
             \A i \in DOMAIN new : Meant(u, v, new[i])
      PROVE  toClient'[v][k].text # <<>>
  <2>1. CASE k \in DOMAIN toClient[v]
    <3>1. toClient'[v][k] = toClient[v][k]
      BY <1>1, <1>5, <2>1
    <3>2. QED
      BY <1>2, <2>1, <3>1
  <2>2. CASE k \notin DOMAIN toClient[v]
    <3>1. PICK i \in DOMAIN new : toClient'[v][k] = new[i]
      <4>1. /\ k - Len(toClient[v]) \in DOMAIN new
            /\ toClient'[v][k] = new[k - Len(toClient[v])]
        BY <1>1, <1>5, <2>2
      <4>2. QED
        BY <4>1
    <3>2. QED
      BY <1>5, <3>1 DEF Meant, By
  <2>3. QED
    BY <2>1, <2>2
<1>6. QED
  BY <1>3, <1>4, <1>5, ToClientSteps

\* u has asked for its handle, and the server has not read it.
Asking(u) == \E k \in DOMAIN toServer[u] : toServer[u][k].flag = 1

\* Whoever waits to be accepted has.
Waits(u) == \E k \in DOMAIN backlog : backlog[k] = u

AskingInv == \A u \in Users : Waits(u) => Asking(u)

LEMMA AskingStep ==
  ASSUME RecordsInv, AskingInv, [Next]_vars
  PROVE  AskingInv'
<1> SUFFICES ASSUME NEW v \in Users, Waits(v)' PROVE Asking(v)'
  BY DEF AskingInv
<1>1. ASSUME toServer'[v] = toServer[v], Waits(v) PROVE Asking(v)'
  <2>1. Asking(v)
    BY <1>1 DEF AskingInv
  <2>2. QED
    BY <1>1, <2>1 DEF Asking
<1>2. backlog \in Seq(Users) /\ toServer \in [Users -> Seq(PduRecords)]
  BY DEF RecordsInv, TypeInv
<1>3. ASSUME UNCHANGED <<toServer, backlog>> PROVE Asking(v)'
  BY <1>1, <1>3 DEF Waits
<1>4. CASE ServerStep
  <2>1. CASE addNewSocket
    <3>1. backlog' = Tail(backlog) /\ toServer' = toServer
      BY <2>1 DEF addNewSocket, netVars
    <3>2. PICK k \in DOMAIN backlog' : backlog'[k] = v
      BY DEF Waits
    <3>3. Waits(v)
      <4>1. CASE backlog = <<>>
        BY <1>2, <3>1, <3>2, <4>1
      <4>2. CASE backlog # <<>>
        <5>1. k + 1 \in DOMAIN backlog /\ backlog'[k] = backlog[k + 1]
          BY <1>2, <3>1, <3>2, <4>2
        <5>2. QED
          BY <3>2, <5>1 DEF Waits
      <4>3. QED
        BY <4>1, <4>2
    <3>4. QED
      BY <1>1, <3>1, <3>3
  <2>2. ASSUME NEW u \in Users, socket[u] # 0, RecvData(u) PROVE Asking(v)'
    <3>1. backlog' = backlog /\ \A w \in Users : w # u => toServer'[w] = toServer[w]
      BY <1>2, <2>2 DEF RecvData, Dies
    <3>2. Waits(v) /\ v # u
      BY <1>2, <2>2, <3>1 DEF Waits, RecordsInv, WaitInv
    <3>3. QED
      BY <1>1, <3>1, <3>2
  <2>3. ASSUME UNCHANGED toServer, Dies \/ UNCHANGED backlog PROVE Asking(v)'
    BY <1>3, <2>3 DEF Dies
  <2>4. QED
    BY <1>4, <2>1, <2>2, <2>3 DEF ServerStep, AcceptFails, RecvClosed, RecvFails
<1>5. ASSUME NEW u \in Users, Connect(u) PROVE Asking(v)'
  <2>1. PICK hello : hello = Pdu(1, Handle[u], <<>>, <<>>)
    OBVIOUS
  <2>2. backlog' = Append(backlog, u) /\ toServer' = [toServer EXCEPT ![u] = <<hello>>]
    BY <1>5, <2>1 DEF Connect
  <2>3. CASE v = u
    <3>1. hello.flag = 1
      BY <2>1 DEF Pdu
    <3>2. toServer'[v] = <<hello>>
      BY <1>2, <2>2, <2>3
    <3>3. 1 \in DOMAIN toServer'[v] /\ toServer'[v][1] = hello
      BY <3>2
    <3>4. QED
      BY <3>1, <3>3 DEF Asking
  <2>4. CASE v # u
    <3>1. Waits(v)
      BY <1>2, <2>2, <2>4 DEF Waits
    <3>2. QED
      BY <1>1, <1>2, <2>2, <2>4, <3>1
  <2>5. QED
    BY <2>3, <2>4
<1>6. ASSUME NEW u \in Users, NEW command \in Commands, sendToServer(u, command)
      PROVE  Asking(v)'
  <2>1. PICK pdu : toServer' = [toServer EXCEPT ![u] = Append(@, pdu)]
    BY <1>6 DEF sendToServer
  <2>2. Waits(v)
    BY <1>6 DEF sendToServer, serverVars, Waits
  <2>3. \A i \in DOMAIN toServer[v] :
          i \in DOMAIN toServer'[v] /\ toServer'[v][i] = toServer[v][i]
    BY <1>2, <2>1
  <2>4. Asking(v)
    BY <2>2 DEF AskingInv
  <2>5. QED
    BY <2>3, <2>4 DEF Asking
<1>7. ASSUME NEW u \in Users,
             \/ processMsgFromServer(u) \/ ConnectFails(u) \/ SendEndsClient(u)
             \/ ServerIsGone(u) \/ ClientKilled(u)
      PROVE  Asking(v)'
  BY <1>3, <1>7 DEF processMsgFromServer, ConnectFails, SendEndsClient, ServerIsGone,
                    ClientKilled, netVars, serverVars
<1>8. CASE UNCHANGED vars
  BY <1>3, <1>8 DEF vars, netVars, serverVars
<1>9. QED
  BY <1>4, <1>5, <1>6, <1>7, <1>8 DEF Next, TypeLine, ClientStep

-----------------------------------------------------------------------------
(* The clients' steps. *)

\* A guest is read, is not registered and has asked for its handle.
LEMMA GuestIs ==
  ASSUME NEW v \in Users
  PROVE  /\ Guest(v) <=> up /\ Polled(v) /\ ~ Registered(v) /\ ~ Asking(v)
         /\ Guest(v)' <=> up' /\ Polled(v)' /\ ~ Registered(v)' /\ ~ Asking(v)'
  BY DEF Guest, Asking

\* Who is registered and who is a guest depends on the server's records and on
\* what has been asked.
LEMMA GuestSame ==
  ASSUME NEW v \in Users, UNCHANGED <<up, table, poll>>, socket'[v] = socket[v],
         up /\ Polled(v) => (Asking(v)' <=> Asking(v))
  PROVE  (Registered(v)' <=> Registered(v)) /\ (Guest(v)' <=> Guest(v))
<1>1. (Registered(v)' <=> Registered(v)) /\ (Polled(v)' <=> Polled(v))
  BY DEF Registered, Polled
<1>2. QED
  BY <1>1, GuestIs

\* Nobody joins or leaves, speaks or hears anything; u may miss something when
\* several PDUs are read at once.
Quiet(u) ==
  /\ up' = up
  /\ \A v \in Users : /\ Registered(v)' <=> Registered(v)
                      /\ Guest(v)' <=> Guest(v)
                      /\ SpokenOf(v)' = SpokenOf(v)
                      /\ v # u => HeardBy(v)' = HeardBy(v)
  /\ HeardBy(u)' = HeardBy(u) \/ (Coalesce /\ Cut(HeardBy(u)', HeardBy(u)))

\* Nobody goes, but perhaps u.
OnlyGoes(u) ==
  /\ \A v \in Users : v # u => (peer'[v] = "up" <=> peer[v] = "up")
  /\ peer'[u] = "up" => peer[u] = "up"

\* A client that closes its socket has gone.
LEMMA ExitGoes ==
  ASSUME TalkInv, NEW u \in Users,
         peer' = peer \/ \E p : p # "up" /\ peer' = [peer EXCEPT ![u] = p]
  PROVE  OnlyGoes(u)
<1>1. CASE peer' = peer
  BY <1>1 DEF OnlyGoes
<1>2. ASSUME NEW p, p # "up", peer' = [peer EXCEPT ![u] = p] PROVE OnlyGoes(u)
  <2>1. peer'[u] = p /\ \A v \in Users : v # u => peer'[v] = peer[v]
    BY <1>2 DEF TalkInv
  <2>2. QED
    BY <1>2, <2>1 DEF OnlyGoes
<1>3. QED
  BY <1>1, <1>2

\* A user whose broadcasts are left alone, and what it has been given too.
LEMMA UserQuiet ==
  ASSUME RoomInv, NEW v \in Users,
         toServer'[v] = toServer[v], said'[v] = said[v],
         toClient'[v] = toClient[v], shown'[v] = shown[v]
  PROVE  SpokenOf(v)' = SpokenOf(v) /\ HeardBy(v)' = HeardBy(v) /\ Numbered(v)'
<1>1. HeardBy(v)' = HeardBy(v)
  BY DEF HeardBy
<1>2. QED
  BY <1>1, NothingRead

\* A line that is typed asks for no handle.
LEMMA LineAsksNothing ==
  ASSUME RecordsInv, NEW u \in Users, NEW command \in Commands, sendToServer(u, command)
  PROVE  Asking(u)' <=> Asking(u)
<1>1. PICK pdu \in LinePdus(u, command) :
        toServer' = [toServer EXCEPT ![u] = Append(@, pdu)]
  BY DEF sendToServer
<1>2. pdu.flag # 1
  BY LinePduTypes
<1>3. PICK q, qx : q = toServer[u] /\ qx = Append(q, pdu) /\ toServer'[u] = qx
  BY <1>1 DEF RecordsInv, TypeInv
<1>4. q \in Seq(PduRecords)
  BY <1>3 DEF RecordsInv, TypeInv
<1>5. /\ \A k \in DOMAIN q : k \in DOMAIN qx /\ qx[k] = q[k]
      /\ \A k \in DOMAIN qx : qx[k] = pdu \/ (k \in DOMAIN q /\ qx[k] = q[k])
  BY <1>3, <1>4
<1>6. (\E k \in DOMAIN qx : qx[k].flag = 1) <=> (\E k \in DOMAIN q : q[k].flag = 1)
  BY <1>2, <1>5
<1>7. QED
  BY <1>3, <1>6 DEF Asking

\* A client's steps change nothing in the room, but it may go.
LEMMA ClientRoom ==
  ASSUME RecordsInv, TalkInv, TextsInv, RoomInv, NEW u \in Users,
         \/ Connect(u) \/ ConnectFails(u)
         \/ TypeLine(u) \/ ClientStep(u) \/ ClientKilled(u)
  PROVE  RoomInv' /\ Quiet(u) /\ OnlyGoes(u)
<1>1. UNCHANGED <<up, table, poll, socket>>
  BY DEF Connect, ConnectFails, TypeLine, sendToServer, SendEndsClient, ClientStep,
         processMsgFromServer, ServerIsGone, ClientKilled, serverVars
<1>2. ASSUME NEW v \in Users, Polled(v) => (Asking(v)' <=> Asking(v))
      PROVE  (Registered(v)' <=> Registered(v)) /\ (Guest(v)' <=> Guest(v))
  BY <1>1, <1>2, GuestSame
<1>3. CASE Connect(u)
  <2>1. PICK hello : hello = Pdu(1, Handle[u], <<>>, <<>>)
    OBVIOUS
  <2>2. /\ toServer' = [toServer EXCEPT ![u] = <<hello>>] /\ state[u] = "off"
        /\ state' = [state EXCEPT ![u] = "on"]
        /\ UNCHANGED <<said, shown, toClient, peer>>
    BY <1>3, <2>1 DEF Connect
  <2>3. PICK q : q = <<hello>>
    OBVIOUS
  <2>4. /\ toServer'[u] = q /\ state'[u] = "on"
        /\ \A v \in Users : v # u => toServer'[v] = toServer[v] /\ state'[v] = state[v]
    BY <2>2, <2>3 DEF RecordsInv, TypeInv
  <2>5. ASSUME NEW v \in Users
        PROVE  SpokenOf(v)' = SpokenOf(v) /\ HeardBy(v)' = HeardBy(v) /\ Numbered(v)'
    <3>1. CASE v # u
      BY <2>2, <2>4, <3>1, UserQuiet
    <3>2. CASE v = u
      <4>1. hello \in PduRecords /\ hello.flag # 4
        <5>1. Handle[u] \in Seq(Chars)
          BY HandleType
        <5>2. QED
          BY <2>1, <5>1, EmptySeq DEF Pdu, PduRecords
      <4>2. q \in Seq(PduRecords) /\ \A k \in DOMAIN q : q[k].flag # 4
        BY <2>3, <4>1
      <4>3. Broadcasts(q) = <<>>
        BY <4>2, BroadcastsNone
      <4>4. toServer[u] = <<>>
        BY <2>2 DEF RoomInv
      <4>5. Broadcasts(toServer[u]) = <<>>
        <5>1. PICK e : e = <<>>
          OBVIOUS
        <5>2. e \in Seq(PduRecords) /\ DOMAIN e = {}
          BY <5>1
        <5>3. Broadcasts(e) = <<>>
          BY <5>2, BroadcastsNone
        <5>4. QED
          BY <4>4, <5>1, <5>3
      <4>6. Waiting(u)' = Waiting(u)
        BY <2>4, <4>3, <4>5 DEF Waiting
      <4>7. SpokenOf(u)' = SpokenOf(u)
        BY <2>2, <4>6 DEF SpokenOf
      <4>8. HeardBy(u)' = HeardBy(u)
        BY <2>2 DEF HeardBy
      <4>9. QED
        BY <3>2, <4>6, <4>7, <4>8 DEF RoomInv, Numbered
    <3>3. QED
      BY <3>1, <3>2
  <2>6. RoomInv'
    BY <2>2, <2>4, <2>5 DEF RoomInv
  <2>7. OnlyGoes(u)
    BY <2>2 DEF OnlyGoes
  <2>8. ASSUME NEW v \in Users, Polled(v) PROVE Asking(v)' <=> Asking(v)
    <3>1. v # u
      BY <2>2, <2>8 DEF RecordsInv, WaitInv, Polled
    <3>2. QED
      BY <2>4, <3>1 DEF Asking
  <2>9. QED
    BY <1>1, <1>2, <2>5, <2>6, <2>7, <2>8 DEF Quiet
<1>4. ASSUME NEW command \in Commands, sendToServer(u, command)
      PROVE  RoomInv' /\ Quiet(u) /\ OnlyGoes(u)
  <2>1. PICK pdu : toServer' = [toServer EXCEPT ![u] = Append(@, pdu)]
    BY <1>4 DEF sendToServer
  <2>2. /\ state[u] = "on" /\ UNCHANGED <<shown, toClient, peer>>
        /\ state' = state \/ state' = [state EXCEPT ![u] = "leaving"]
        /\ said' = said \/ said' = [said EXCEPT ![u] = @ + 1]
    BY <1>4 DEF sendToServer
  <2>3. \A v \in Users : v # u => toServer'[v] = toServer[v] /\ said'[v] = said[v]
                                  /\ state'[v] = state[v]
    BY <2>1, <2>2 DEF RecordsInv, TypeInv
  <2>4. state'[u] # "off"
    BY <2>2 DEF RecordsInv, TypeInv
  <2>5. ASSUME NEW v \in Users
        PROVE  SpokenOf(v)' = SpokenOf(v) /\ HeardBy(v)' = HeardBy(v) /\ Numbered(v)'
    <3>1. CASE v # u
      BY <2>2, <2>3, <3>1, UserQuiet
    <3>2. CASE v = u
      <4>1. HeardBy(u)' = HeardBy(u)
        BY <2>2 DEF HeardBy
      <4>2. QED
        BY <1>4, <3>2, <4>1, LineWaits
    <3>3. QED
      BY <3>1, <3>2
  <2>6. RoomInv'
    BY <2>2, <2>3, <2>4, <2>5 DEF RoomInv
  <2>7. OnlyGoes(u)
    BY <2>2 DEF OnlyGoes
  <2>8. ASSUME NEW v \in Users PROVE Asking(v)' <=> Asking(v)
    <3>1. CASE v # u
      BY <2>3, <3>1 DEF Asking
    <3>2. CASE v = u
      BY <1>4, <3>2, LineAsksNothing
    <3>3. QED
      BY <3>1, <3>2
  <2>9. QED
    BY <1>1, <1>2, <2>5, <2>6, <2>7, <2>8 DEF Quiet
<1>5. CASE ConnectFails(u) \/ SendEndsClient(u) \/ ServerIsGone(u) \/ ClientKilled(u)
  <2>1. UNCHANGED <<toServer, toClient, said, shown>>
    BY <1>5 DEF ConnectFails, SendEndsClient, ServerIsGone, ClientKilled, netVars
  <2>2. state' = [state EXCEPT ![u] = "gone"]
    BY <1>5 DEF ConnectFails, SendEndsClient, ServerIsGone, ClientKilled, Exits
  <2>3. peer' = peer \/ \E p : p # "up" /\ peer' = [peer EXCEPT ![u] = p]
    BY <1>5 DEF ConnectFails, SendEndsClient, ServerIsGone, ClientKilled, Exits, netVars
  <2>4. \A v \in Users :
          SpokenOf(v)' = SpokenOf(v) /\ HeardBy(v)' = HeardBy(v) /\ Numbered(v)'
    BY <2>1, UserQuiet
  <2>5. \A v \in Users : state'[v] = "off" => state[v] = "off"
    BY <2>2 DEF RecordsInv, TypeInv
  <2>6. RoomInv'
    BY <2>1, <2>4, <2>5 DEF RoomInv
  <2>7. OnlyGoes(u)
    BY <2>3, ExitGoes
  <2>8. \A v \in Users : Asking(v)' <=> Asking(v)
    BY <2>1 DEF Asking
  <2>9. QED
    BY <1>1, <1>2, <2>4, <2>6, <2>7, <2>8 DEF Quiet
<1>6. CASE processMsgFromServer(u)
  <2>1. PICK k, pdu :
          /\ k \in recvPDU(toClient[u]) /\ pdu = Merged(SubSeq(toClient[u], 1, k))
          /\ toClient' = [toClient EXCEPT ![u] = Rest(@, k)]
          /\ \/ EndsClient(pdu) /\ Exits(u, Rest(toClient[u], k)) /\ UNCHANGED shown
             \/ /\ ~ EndsClient(pdu)
                /\ shown' = IF pdu.flag = 4
                     THEN [shown EXCEPT ![u] = Append(@, pdu)] ELSE shown
                /\ UNCHANGED <<state, peer>>
    BY <1>6 DEF processMsgFromServer
  <2>2. toClient[u] # <<>> /\ UNCHANGED <<toServer, said>>
    BY <1>6 DEF processMsgFromServer
  <2>3. PICK s, q : s = shown[u] /\ q = toClient[u]
    OBVIOUS
  <2>4. s \in Seq(SentPdus) /\ q \in Seq(SentPdus) /\ q # <<>>
    BY <2>2, <2>3 DEF RoomInv, TalkInv
  <2>5. /\ k \in 1 .. Len(q) /\ pdu \in SentPdus /\ pdu.flag = q[1].flag
        /\ q[1].flag = 4 => TextTag(pdu) = TextTag(q[1])
    <3>1. k \in recvPDU(q) /\ pdu = Merged(SubSeq(q, 1, k))
      BY <2>1, <2>3
    <3>2. /\ k \in 1 .. Len(q) /\ pdu \in SentPdus /\ pdu.flag = q[1].flag
          /\ q[1].text # <<>> => pdu.text[1] = q[1].text[1]
      BY ONLY <2>4, <3>1, MergedSent
    <3>3. q[1].flag = 4 => q[1].text # <<>>
      <4>1. 1 \in DOMAIN q
        BY <2>4
      <4>2. QED
        BY <2>3, <4>1 DEF TextsInv
    <3>4. QED
      BY <3>2, <3>3 DEF TextTag
  <2>6. /\ toClient'[u] = Rest(q, k)
        /\ \A v \in Users : v # u => toClient'[v] = toClient[v]
    BY <2>1, <2>3, <2>5 DEF TalkInv
  <2>7. /\ shown'[u] = IF q[1].flag = 4 THEN Append(s, pdu) ELSE s
        /\ \A v \in Users : v # u => shown'[v] = shown[v]
    <3>1. CASE EndsClient(pdu)
      <4>1. shown' = shown /\ q[1].flag # 4
        BY <2>1, <2>5, <3>1 DEF EndsClient
      <4>2. QED
        BY <2>3, <4>1
    <3>2. CASE ~ EndsClient(pdu)
      <4>1. CASE pdu.flag = 4
        <5>1. shown' = [shown EXCEPT ![u] = Append(@, pdu)]
          BY <2>1, <3>2, <4>1
        <5>2. QED
          BY <2>3, <2>5, <4>1, <5>1 DEF RoomInv
      <4>2. CASE pdu.flag # 4
        <5>1. shown' = shown
          BY <2>1, <3>2, <4>2
        <5>2. QED
          BY <2>3, <2>5, <4>2, <5>1
      <4>3. QED
        BY <4>1, <4>2
    <3>3. QED
      BY <3>1, <3>2
  <2>8. /\ shown'[u] \in Seq(SentPdus)
        /\ \/ HeardBy(u)' = HeardBy(u)
           \/ Coalesce /\ Cut(HeardBy(u)', HeardBy(u))
    <3>1. PICK t : t = shown'[u]
      OBVIOUS
    <3>2. \/ q[1].flag = 4 /\ Extends(t, s, pdu)
          \/ q[1].flag # 4 /\ t = s
      BY <2>7, <3>1 DEF Extends
    <3>3. t \in Seq(SentPdus) /\ Cut(Heard(t, Rest(q, k)), Heard(s, q))
      BY ONLY <2>4, <2>5, <3>2, HeardMissed
    <3>4. HeardBy(u) = Heard(s, q) /\ HeardBy(u)' = Heard(t, Rest(q, k))
      BY <2>3, <2>6, <3>1 DEF HeardBy
    <3>5. ASSUME ~ Coalesce PROVE HeardBy(u)' = HeardBy(u)
      <4>1. k = 1 /\ pdu = q[1]
        <5>1. k \in recvPDU(q) /\ pdu = Merged(SubSeq(q, 1, k))
          BY <2>1, <2>3
        <5>2. Coalesce = FALSE
          BY <3>5, ChatAssumption
        <5>3. QED
          BY ONLY <2>4, <5>1, <5>2, ReadOne
      <4>2. Heard(t, Rest(q, 1)) = Heard(s, q)
        BY ONLY <2>4, <3>2, <4>1, HeardRead
      <4>3. QED
        BY <3>4, <4>1, <4>2
    <3>6. QED
      BY <3>1, <3>3, <3>4, <3>5
  <2>9. ASSUME NEW v \in Users
        PROVE  /\ SpokenOf(v)' = SpokenOf(v) /\ Numbered(v)'
               /\ v # u => HeardBy(v)' = HeardBy(v)
    <3>1. CASE v # u
      BY <2>2, <2>6, <2>7, <3>1, UserQuiet
    <3>2. CASE v = u
      BY <2>2, <3>2, NothingRead
    <3>3. QED
      BY <3>1, <3>2
  <2>10. state' = state \/ state' = [state EXCEPT ![u] = "gone"]
    BY <2>1 DEF Exits
  <2>11. \A v \in Users : state'[v] = "off" => state[v] = "off"
    BY <2>10 DEF RecordsInv, TypeInv
  <2>12. shown' \in [Users -> Seq(SentPdus)]
    <3>1. shown' = [v \in Users |-> shown'[v]]
      BY <2>1 DEF RoomInv
    <3>2. \A v \in Users : shown'[v] \in Seq(SentPdus)
      BY <2>7, <2>8 DEF RoomInv
    <3>3. QED
      BY <3>1, <3>2
  <2>13. RoomInv'
    BY <2>2, <2>9, <2>11, <2>12 DEF RoomInv
  <2>14. OnlyGoes(u)
    <3>1. peer' = peer \/ \E p : p # "up" /\ peer' = [peer EXCEPT ![u] = p]
      BY <2>1 DEF Exits
    <3>2. QED
      BY <3>1, ExitGoes
  <2>15. \A v \in Users : Asking(v)' <=> Asking(v)
    BY <2>2 DEF Asking
  <2>16. QED
    BY <1>1, <1>2, <2>8, <2>9, <2>13, <2>14, <2>15 DEF Quiet
<1>7. QED
  BY <1>3, <1>4, <1>5, <1>6 DEF TypeLine, ClientStep

-----------------------------------------------------------------------------
(* What the server reads and what it sends of it. *)

\* Only a broadcast makes the server send broadcasts.
LEMMA NoBroadcast ==
  ASSUME RecordsInv, NEW s \in Nat, NEW pdu \in SentPdus, pdu.flag # 4,
         NEW out, out = checkFlag(s, pdu)
  PROVE  \A i \in DOMAIN out : out[i].pdu.flag # 4
<1>1. CASE pdu.flag \in {1, 8}
  <2>1. PICK flag \in {2, 3, 9} : out = <<To(s, Signal(flag))>>
    BY <1>1 DEF checkFlag
  <2>2. To(s, Signal(flag)).pdu.flag = flag
    BY DEF To, Signal, Pdu
  <2>3. QED
    BY <2>1, <2>2
<1>2. CASE pdu.flag \in {5, 6}
  <2>1. out = [i \in DOMAIN pdu.dest |-> Forward(s, pdu, pdu.dest[i])]
    BY <1>2 DEF checkFlag
  <2>2. ASSUME NEW name PROVE Forward(s, pdu, name).pdu.flag # 4
    <3>1. PICK n, p : n = getSocketNumber(table, name) /\ p = [pdu EXCEPT !.dest = <<>>]
      OBVIOUS
    <3>2. p.flag = pdu.flag
      BY <3>1 DEF SentPdus
    <3>3. CASE n # NotFound
      <4>1. Forward(s, pdu, name) = To(n, p)
        BY <3>1, <3>3 DEF Forward
      <4>2. QED
        BY <3>2, <4>1 DEF To
    <3>4. CASE n = NotFound
      <4>1. Forward(s, pdu, name) = To(s, Pdu(7, <<>>, <<name>>, pdu.text))
        BY <3>1, <3>4 DEF Forward
      <4>2. QED
        BY <4>1 DEF To, Pdu
    <3>5. QED
      BY <3>3, <3>4
  <2>3. \A i \in DOMAIN out : out[i] = Forward(s, pdu, pdu.dest[i])
    BY <2>1
  <2>4. QED
    BY <2>2, <2>3
<1>3. CASE pdu.flag = 10
  <2>1. out = ListOfHandles(s)
    BY <1>3 DEF checkFlag
  <2>2. out \in Seq(Answers(s))
    BY <2>1, ListAnswers
  <2>3. \A i \in DOMAIN out : out[i] \in Answers(s)
    BY <2>2
  <2>4. QED
    BY <2>3 DEF Answers
<1>4. CASE pdu.flag \notin {1, 5, 6, 8, 10}
  <2>1. out = <<>>
    BY <1>4 DEF checkFlag
  <2>2. QED
    BY <2>1
<1>5. QED
  BY <1>1, <1>2, <1>3, <1>4

\* What is sent of anything else is not heard.
LEMMA OthersUnheard ==
  ASSUME TalkInv, shown \in [Users -> Seq(SentPdus)], shown' = shown,
         NEW sent \in Seq(Sends), SendsSucceed(sent),
         \A j \in DOMAIN sent : sent[j].pdu.flag # 4, NEW v \in Users
  PROVE  HeardBy(v)' = HeardBy(v)
<1>1. PICK new \in Seq(SentPdus) :
        /\ toClient'[v] = toClient[v] \o new
        /\ \A i \in DOMAIN new : \E j \in DOMAIN sent :
             sent[j].socket = socket[v] /\ new[i] = sent[j].pdu
  BY Delivered
<1>2. \A i \in DOMAIN new : new[i].flag # 4
  BY <1>1
<1>3. PICK s, q, qn : s = shown[v] /\ q = toClient[v] /\ qn = toClient'[v]
  OBVIOUS
<1>4. s \in Seq(SentPdus) /\ q \in Seq(SentPdus) /\ new \in Seq(SentPdus) /\ qn = q \o new
  BY <1>1, <1>3 DEF TalkInv
<1>5. Heard(s, qn) = Heard(s, q)
  BY ONLY <1>2, <1>4, HeardNothing
<1>6. QED
  BY <1>3, <1>5 DEF HeardBy

\* Sending shows nobody that a client has gone who was there.
LEMMA SendingGoes ==
  ASSUME NEW sent, SendsSucceed(sent), NEW v \in Users
  PROVE  peer'[v] = "up" <=> peer[v] = "up"
<1>1. PICK rejected \in SUBSET {w \in Users : peer[w] = "fin" /\ SentTo(sent, w) # <<>>} :
        peer' = [w \in Users |-> IF w \in rejected THEN "finrst" ELSE peer[w]]
  BY DEF SendsSucceed
<1>2. QED
  BY <1>1

\* A part of what is sent.
LEMMA FirstParts ==
  ASSUME NEW S, NEW out \in Seq(S), NEW i \in DOMAIN out, NEW t, t = SubSeq(out, 1, i - 1)
  PROVE  t \in Seq(S) /\ \A j \in DOMAIN t : j \in DOMAIN out /\ t[j] = out[j]
  OBVIOUS

\* The server reads k PDUs of u and takes them for x, to which the answers are out.
\* Of them sent is sent, all or those before the one that kills the process.
ReadsAs(u, k, x, out, sent) ==
  /\ k \in recvPDU(toServer[u]) /\ x \in SentPdus
  /\ x.flag = toServer[u][1].flag /\ x.from = toServer[u][1].from
  /\ x.dest = toServer[u][1].dest
  /\ x.flag = 4 => TextTag(x) = TextTag(toServer[u][1])
  /\ out = checkFlag(socket[u], x) /\ out \in Seq(Sends) /\ sent \in Seq(Sends)
  /\ \A j \in DOMAIN sent : j \in DOMAIN out /\ sent[j] = out[j]
  /\ SendsSucceed(sent)
  /\ toServer'[u] = Rest(toServer[u], k) /\ ~ Asking(u)'
  /\ \A v \in Users : v # u => toServer'[v] = toServer[v]
  /\ \/ Dies
     \/ sent = out /\ table' = TableAfter(socket[u], x) /\ UNCHANGED <<up, socket, poll>>

LEMMA ReadParts ==
  ASSUME RecordsInv, TalkInv, NEW u \in Users, socket[u] # 0, RecvData(u)
  PROVE  toServer[u] # <<>> /\ \E k, x, out, sent : ReadsAs(u, k, x, out, sent)
<1>1. PICK k, x, out :
        /\ k \in recvPDU(toServer[u]) /\ x = Merged(SubSeq(toServer[u], 1, k))
        /\ out = checkFlag(socket[u], x)
        /\ toServer' = [toServer EXCEPT ![u] = Rest(@, k)]
        /\ \/ \E i \in DOMAIN out : SendsSucceed(SubSeq(out, 1, i - 1)) /\ Dies
           \/ SendsSucceed(out) /\ Dies
           \/ /\ SendsSucceed(out) /\ table' = TableAfter(socket[u], x)
              /\ UNCHANGED <<up, socket, poll>>
  BY DEF RecvData
<1>2. toServer[u] # <<>>
  BY DEF RecvData
<1>3. /\ x \in SentPdus /\ x.flag = toServer[u][1].flag /\ x.from = toServer[u][1].from
      /\ x.dest = toServer[u][1].dest
      /\ x.flag = 4 => TextTag(x) = TextTag(toServer[u][1])
  <2>1. PICK q : q = toServer[u]
    OBVIOUS
  <2>2. /\ q \in Seq(PduRecords) /\ q # <<>> /\ k \in recvPDU(q)
        /\ x = Merged(SubSeq(q, 1, k))
    BY <1>1, <1>2, <2>1 DEF RecordsInv, TypeInv
  <2>3. x.flag = q[1].flag /\ x.from = q[1].from /\ x.dest = q[1].dest
    BY ONLY <2>2, MergedHead
  <2>4. x \in SentPdus /\ (q[1].text # <<>> => x.text[1] = q[1].text[1])
    BY ONLY <2>2, MergedTyped
  <2>5. q[1].flag = 4 => q[1].text # <<>>
    <3>1. 1 \in DOMAIN q
      BY <2>2
    <3>2. QED
      BY <2>1, <3>1 DEF TalkInv, Spoken
  <2>6. QED
    BY <2>1, <2>3, <2>4, <2>5 DEF TextTag
<1>4. out \in Seq(Sends)
  BY <1>1, <1>2, CheckFlagFits
<1>5. /\ toServer'[u] = Rest(toServer[u], k)
      /\ \A v \in Users : v # u => toServer'[v] = toServer[v]
  BY <1>1 DEF RecordsInv, TypeInv
<1>6. ~ Asking(u)'
  <2>1. \A l \in DOMAIN toServer'[u] : toServer'[u][l].flag # 1
    BY <1>1, <1>2, ReadQueue
  <2>2. QED
    BY <2>1 DEF Asking
<1>7. ASSUME NEW sent \in Seq(Sends), SendsSucceed(sent),
             \A j \in DOMAIN sent : j \in DOMAIN out /\ sent[j] = out[j],
             \/ Dies
             \/ /\ sent = out /\ table' = TableAfter(socket[u], x)
                /\ UNCHANGED <<up, socket, poll>>
      PROVE  ReadsAs(u, k, x, out, sent)
  BY <1>1, <1>3, <1>4, <1>5, <1>6, <1>7, Zenon DEF ReadsAs
<1>8. CASE \E i \in DOMAIN out : SendsSucceed(SubSeq(out, 1, i - 1)) /\ Dies
  <2>1. PICK i \in DOMAIN out : SendsSucceed(SubSeq(out, 1, i - 1)) /\ Dies
    BY <1>8
  <2>2. PICK sent : sent = SubSeq(out, 1, i - 1)
    OBVIOUS
  <2>3. sent \in Seq(Sends) /\ \A j \in DOMAIN sent : j \in DOMAIN out /\ sent[j] = out[j]
    BY ONLY <1>4, <2>1, <2>2, FirstParts
  <2>4. SendsSucceed(sent)
    BY <2>1, <2>2
  <2>5. ReadsAs(u, k, x, out, sent)
    BY <1>7, <2>1, <2>3, <2>4
  <2>6. QED
    BY <1>2, <2>5
<1>9. CASE SendsSucceed(out) /\ Dies
  <2>1. ReadsAs(u, k, x, out, out)
    BY <1>4, <1>7, <1>9
  <2>2. QED
    BY <1>2, <2>1
<1>10. CASE /\ SendsSucceed(out) /\ table' = TableAfter(socket[u], x)
            /\ UNCHANGED <<up, socket, poll>>
  <2>1. ReadsAs(u, k, x, out, out)
    BY <1>4, <1>7, <1>10
  <2>2. QED
    BY <1>2, <2>1
<1>11. QED
  BY <1>1, <1>8, <1>9, <1>10

\* The end of the server's process changes none of its records, and nobody is a
\* guest any more.
LEMMA DiesKeeps ==
  ASSUME Dies
  PROVE  up' = FALSE /\ \A v \in Users : (Registered(v)' <=> Registered(v)) /\ ~ Guest(v)'
  BY GuestIs DEF Dies, Registered

\* Asking for a handle changes nothing for the others.
LEMMA Registers ==
  ASSUME RecordsInv, NEW u \in Users, socket[u] # 0, socket' = socket,
         table' = addHandle(table, Handle[u], socket[u])
  PROVE  \A v \in Users : v # u => (Registered(v)' <=> Registered(v))
<1>1. CASE Refused(table, Handle[u])
  <2>1. table' = table
    BY <1>1 DEF addHandle
  <2>2. QED
    BY <2>1 DEF Registered
<1>2. CASE ~ Refused(table, Handle[u])
  <2>1. PICK f : f = FreeEntry(table)
    OBVIOUS
  <2>2. f \in Entries /\ ~ table[f].isUsed
    BY <1>2, <2>1, FirstFreeEntry
  <2>3. /\ table \in [Entries -> EntryRecords] /\ Handle[u] \in Seq(Chars)
        /\ socket[u] \in Nat
    BY HandleType DEF RecordsInv, TypeInv
  <2>4. /\ table'[f].isUsed /\ table'[f].socketNumber = socket[u]
        /\ \A j \in Entries \ {f} : table'[j] = table[j]
    BY <1>2, <2>1, <2>3, Added
  <2>5. ASSUME NEW v \in Users, v # u PROVE Registered(v)' <=> Registered(v)
    <3>1. Registered(v) => Registered(v)'
      BY <2>2, <2>4 DEF Registered
    <3>2. ASSUME Registered(v)' PROVE Registered(v)
      <4>1. PICK i \in Entries : /\ table'[i].isUsed /\ table'[i].socketNumber = socket[v]
                                 /\ socket[v] # 0
        BY <3>2 DEF Registered
      <4>2. socket[v] # socket[u]
        BY <2>5, <4>1 DEF RecordsInv, SocketInv, Accepted
      <4>3. i # f
        BY <2>4, <4>1, <4>2
      <4>4. QED
        BY <2>4, <4>1, <4>3 DEF Registered
    <3>3. QED
      BY <3>1, <3>2
  <2>6. QED
    BY <2>5
<1>3. QED
  BY <1>1, <1>2

-----------------------------------------------------------------------------
(* The steps of ChatRoom. *)

\* The chat in the terms of ChatRoom; its inboxes are Inbox.
Members   == {u \in Users : Registered(u)}
Guests    == {u \in Users : Guest(u)}
Present   == {u \in Users : peer[u] = "up"}
SpokenNow == [u \in Users |-> SpokenOf(u)]

SameMembers == \A v \in Users : Registered(v)' <=> Registered(v)
SameGuests  == \A v \in Users : Guest(v)' <=> Guest(v)
SamePresent == \A v \in Users : peer'[v] = "up" <=> peer[v] = "up"
SameSpoken  == \A v \in Users : SpokenOf(v)' = SpokenOf(v)
SameInbox   == \A v \in Users : HeardBy(v)' = HeardBy(v)

\* An inbox is what its owner has heard.
LEMMA InboxHeard ==
  /\ Inbox = [u \in Users |-> HeardBy(u)] /\ Inbox' = [u \in Users |-> HeardBy(u)']
  /\ \A u \in Users : Inbox[u] = HeardBy(u) /\ Inbox'[u] = HeardBy(u)'
<1>1. Inbox = [u \in Users |-> HeardBy(u)] /\ Inbox' = [u \in Users |-> HeardBy(u)']
  BY DEF Inbox, HeardBy, Heard
<1>2. QED
  BY <1>1

\* What is the same for every user is the same in the room.
LEMMA SameRoom ==
  /\ SameMembers => Members' = Members
  /\ SameGuests  => Guests' = Guests
  /\ SamePresent => Present' = Present
  /\ SameSpoken  => SpokenNow' = SpokenNow
  /\ SameInbox   => Inbox' = Inbox
<1>1. SameMembers => Members' = Members
  BY DEF SameMembers, Members
<1>2. SameGuests => Guests' = Guests
  BY DEF SameGuests, Guests
<1>3. SamePresent => Present' = Present
  BY DEF SamePresent, Present
<1>4. SameSpoken  => SpokenNow' = SpokenNow
  BY DEF SameSpoken, SpokenNow
<1>5. SameInbox   => Inbox' = Inbox
  BY InboxHeard DEF SameInbox
<1>6. QED
  BY <1>1, <1>2, <1>3, <1>4, <1>5

\* A step in which at most u goes or misses something.
LEMMA GoStep ==
  ASSUME NEW u \in Users, Quiet(u), OnlyGoes(u)
  PROVE  Abstract!Next
<1>1. up' = up /\ Members' = Members /\ Guests' = Guests /\ SpokenNow' = SpokenNow
  BY SameRoom DEF Quiet, SameMembers, SameGuests, SameSpoken
<1>2. Inbox' = [Inbox EXCEPT ![u] = Inbox'[u]]
  BY InboxHeard DEF Quiet
<1>3. ASSUME HeardBy(u)' = HeardBy(u) PROVE Abstract!Misses(u)
  <2>1. SameInbox
    BY <1>3 DEF Quiet, SameInbox
  <2>2. Inbox' = Inbox
    BY <2>1, SameRoom
  <2>3. Abstract!Misses(u)
    BY <1>1, <2>2, Zenon DEF Abstract!Misses, Members, Guests, SpokenNow, SpokenOf, Waiting
  <2>4. QED
    BY <2>3, Zenon
<1>4. ASSUME Coalesce /\ Cut(HeardBy(u)', HeardBy(u)) PROVE Abstract!Misses(u)
  <2>1. PICK i \in 0 .. Len(Inbox[u]) : \E j \in i .. Len(Inbox[u]) :
          Inbox'[u] = SubSeq(Inbox[u], 1, i) \o SubSeq(Inbox[u], j + 1, Len(Inbox[u]))
    <3>1. Cut(Inbox'[u], Inbox[u])
      BY <1>4, InboxHeard
    <3>2. QED
      BY <3>1, Zenon DEF Cut
  <2>2. PICK j \in i .. Len(Inbox[u]) :
          Inbox'[u] = SubSeq(Inbox[u], 1, i) \o SubSeq(Inbox[u], j + 1, Len(Inbox[u]))
    BY <2>1, Zenon
  <2>3. Inbox' = [Inbox EXCEPT ![u] = SubSeq(@, 1, i) \o SubSeq(@, j + 1, Len(@))]
    BY <1>2, <2>2, Zenon
  <2>4. Abstract!Misses(u)
    BY <1>1, <1>4, <2>3, Zenon DEF Abstract!Misses, Members, Guests, SpokenNow,
       SpokenOf, Waiting
  <2>5. QED
    BY <2>4, Zenon
<1>5. Abstract!Misses(u)
  BY <1>3, <1>4, Zenon DEF Quiet
<1>6. CASE SamePresent
  <2>1. Present' = Present
    BY <1>6, SameRoom
  <2>2. Abstract!Miss(u)
    BY <1>5, <2>1, Zenon DEF Abstract!Miss, Present
  <2>3. QED
    BY <2>2, Zenon DEF Abstract!Next
<1>7. CASE ~ SamePresent
  <2>1. u \in Present /\ Present' = Present \ {u}
    BY <1>7 DEF OnlyGoes, SamePresent, Present
  <2>2. Abstract!Go(u)
    BY <1>5, <2>1, Zenon DEF Abstract!Go, Present
  <2>3. QED
    BY <2>2, Zenon DEF Abstract!Next
<1>8. QED
  BY <1>6, <1>7

\* Broadcasts of u are read and nobody hears them.
Lost(u) ==
  /\ SpokenOf(u)' >= SpokenOf(u) /\ (~ Coalesce => SpokenOf(u)' = SpokenOf(u))
  /\ \A v \in Users : v # u => SpokenOf(v)' = SpokenOf(v)
  /\ SameInbox

LEMMA LoseStep ==
  ASSUME NEW u \in Users, Lost(u)
  PROVE  Abstract!Lose(u)
<1>1. Inbox' = Inbox
  BY SameRoom DEF Lost
<1>2. SpokenNow[u] = SpokenOf(u) /\ SpokenNow'[u] = SpokenOf(u)'
  BY DEF SpokenNow
<1>3. SpokenNow'[u] >= SpokenNow[u] /\ (~ Coalesce => SpokenNow'[u] = SpokenNow[u])
  BY <1>2, Zenon DEF Lost
<1>4. SpokenNow' = [SpokenNow EXCEPT ![u] = SpokenNow'[u]]
  <2>1. \A v \in Users : v # u => SpokenOf(v)' = SpokenOf(v)
    BY DEF Lost
  <2>2. QED
    BY <1>2, <2>1 DEF SpokenNow
<1>5. QED
  BY <1>1, <1>3, <1>4, Zenon DEF Abstract!Lose, SpokenNow, SpokenOf, Waiting

\* A step in which u is registered or refused.
LEMMA JoinStep ==
  ASSUME up, up' = up, NEW u \in Users, ~ Registered(u), ~ Guest(u),
         Registered(u)' \/ Guest(u)',
         \A v \in Users : v # u => (Registered(v)' <=> Registered(v))
                                   /\ (Guest(v)' <=> Guest(v)),
         SamePresent, Lost(u)
  PROVE  Abstract!Next
<1>1. Present' = Present /\ u \notin Members \cup Guests /\ Abstract!Lose(u)
  BY SameRoom, LoseStep DEF Members, Guests
<1>2. CASE Registered(u)'
  <2>1. ~ Guest(u)'
    BY <1>2 DEF Guest
  <2>2. Members' = Members \cup {u} /\ Guests' = Guests
    BY <1>2, <2>1 DEF Members, Guests
  <2>3. Abstract!Join(u)
    BY <1>1, <2>2, Zenon DEF Abstract!Join, Members, Guests, Present
  <2>4. QED
    BY <2>3, Zenon DEF Abstract!Next
<1>3. CASE ~ Registered(u)' /\ Guest(u)'
  <2>1. Members' = Members /\ Guests' = Guests \cup {u}
    BY <1>3 DEF Members, Guests
  <2>2. Abstract!Join(u)
    BY <1>1, <2>1, Zenon DEF Abstract!Join, Members, Guests, Present
  <2>3. QED
    BY <2>2, Zenon DEF Abstract!Next
<1>4. QED
  BY <1>2, <1>3

\* A step in which u, who has gone, is struck off.
LEMMA LeaveStep ==
  ASSUME up, up' = up, NEW u \in Users, peer[u] # "up", ~ Registered(u)', ~ Guest(u)',
         \A v \in Users : v # u => (Registered(v)' <=> Registered(v))
                                   /\ (Guest(v)' <=> Guest(v)),
         SamePresent, SameSpoken, SameInbox
  PROVE  [Abstract!Next]_Abstract!vars
<1>1. Present' = Present /\ SpokenNow' = SpokenNow /\ Inbox' = Inbox
  BY SameRoom
<1>2. u \notin Present /\ Members' = Members \ {u} /\ Guests' = Guests \ {u}
  BY DEF Members, Guests, Present
<1>3. CASE u \in Members \cup Guests
  <2>1. u \in (Members \cup Guests) \ Present
    BY <1>2, <1>3
  <2>2. Abstract!Leave(u)
    BY <1>1, <1>2, <2>1, Zenon DEF Abstract!Leave, Members, Guests, Present, SpokenNow,
       SpokenOf, Waiting
  <2>3. QED
    BY <2>2, Zenon DEF Abstract!Next
<1>4. CASE u \notin Members \cup Guests
  <2>1. Members' = Members /\ Guests' = Guests
    BY <1>2, <1>4
  <2>2. UNCHANGED Abstract!vars
    BY <1>1, <2>1, Zenon DEF Abstract!vars, Members, Guests, Present, SpokenNow, SpokenOf,
       Waiting
  <2>3. QED
    BY <2>2
<1>5. QED
  BY <1>3, <1>4

\* The server ends and no guests are left.
LEMMA Closes ==
  ASSUME up' = FALSE
  PROVE  Guests' = {}
  BY GuestIs DEF Guests

\* The server ends while nobody speaks, or nobody hears.
LEMMA CloseQuietly ==
  ASSUME up, up' = FALSE, SameMembers, SamePresent,
         \/ SameSpoken /\ SameInbox
         \/ \E u \in Users : Lost(u)
  PROVE  Abstract!Next
<1>1. Members' = Members /\ Present' = Present /\ Guests' = {}
  BY SameRoom, Closes
<1>2. CASE SameSpoken /\ SameInbox
  <2>1. SpokenNow' = SpokenNow /\ Inbox' = Inbox
    BY <1>2, SameRoom
  <2>2. Abstract!Close
    BY <1>1, <2>1, Zenon DEF Abstract!Close, Members, Guests, Present, SpokenNow, SpokenOf,
       Waiting
  <2>3. QED
    BY <2>2, Zenon DEF Abstract!Next
<1>3. ASSUME NEW u \in Users, Lost(u) PROVE Abstract!Next
  <2>1. Abstract!Lose(u)
    BY <1>3, LoseStep
  <2>2. Abstract!Close
    BY <1>1, <2>1, Zenon DEF Abstract!Close, Members, Guests, Present
  <2>3. QED
    BY <2>2, Zenon DEF Abstract!Next
<1>4. QED
  BY <1>2, <1>3

\* u has spoken and those in audience have heard it.
Said(u, audience) ==
  /\ SpokenOf(u)' > SpokenOf(u) /\ (~ Coalesce => SpokenOf(u)' = SpokenOf(u) + 1)
  /\ \A v \in Users : v # u => SpokenOf(v)' = SpokenOf(v)
  /\ \A v \in audience : Extends(HeardBy(v)', HeardBy(v), SaidAs(u, SpokenOf(u) + 1))
  /\ \A v \in Users \ audience : HeardBy(v)' = HeardBy(v)

\* A text is heard by an audience.
LEMMA DeliverStep ==
  ASSUME NEW u \in Users, NEW audience \in SUBSET Users, Said(u, audience)
  PROVE  Abstract!Deliver(u, audience)
<1>1. SpokenNow[u] = SpokenOf(u) /\ SpokenNow'[u] = SpokenOf(u)'
  BY DEF SpokenNow
<1>2. SpokenNow'[u] > SpokenNow[u] /\ (~ Coalesce => SpokenNow'[u] = SpokenNow[u] + 1)
  BY <1>1, Zenon DEF Said
<1>3. SpokenNow' = [SpokenNow EXCEPT ![u] = SpokenNow'[u]]
  <2>1. \A v \in Users : v # u => SpokenOf(v)' = SpokenOf(v)
    BY DEF Said
  <2>2. QED
    BY <1>1, <2>1 DEF SpokenNow
<1>4. Inbox' = [d \in Users |-> IF d \in audience
                                THEN Append(Inbox[d], <<u, SpokenNow[u] + 1>>) ELSE Inbox[d]]
  <2>1. \A d \in Users : HeardBy(d)' = IF d \in audience
          THEN Append(HeardBy(d), <<u, SpokenNow[u] + 1>>) ELSE HeardBy(d)
    BY <1>1, Zenon DEF Said, Extends, SaidAs
  <2>2. QED
    BY <2>1, InboxHeard, Zenon
<1>5. QED
  BY <1>2, <1>3, <1>4, Zenon DEF Abstract!Deliver, SpokenNow, SpokenOf, Waiting

\* Those who hear what u says.
Listeners(u) == {v \in Users : v # u /\ Registered(v) /\ peer[v] = "up"}

LEMMA ListenersAre ==
  ASSUME NEW u \in Users
  PROVE  Abstract!Audience(u) = Listeners(u)
  BY DEF Abstract!Audience, Listeners

\* A text is read: all listeners hear it, or nobody does.
LEMMA SayStep ==
  ASSUME up, up' = up, NEW u \in Users, Registered(u) \/ Guest(u),
         SameMembers, SameGuests, SamePresent, Said(u, Listeners(u)) \/ Lost(u)
  PROVE  Abstract!Next
<1>1. /\ Members' = Members /\ Guests' = Guests /\ Present' = Present
      /\ u \in Members \cup Guests
  BY SameRoom DEF Members, Guests
<1>2. Abstract!Deliver(u, Abstract!Audience(u)) \/ Abstract!Lose(u)
  <2>1. CASE Said(u, Listeners(u))
    <3>1. PICK audience : audience = Listeners(u)
      OBVIOUS
    <3>2. audience \in SUBSET Users /\ Said(u, audience)
      BY <2>1, <3>1 DEF Listeners
    <3>3. Abstract!Deliver(u, audience) /\ Abstract!Audience(u) = audience
      BY <3>1, <3>2, DeliverStep, ListenersAre
    <3>4. QED
      BY <3>3, Zenon DEF Abstract!Deliver, Abstract!Audience
  <2>2. CASE Lost(u)
    BY <2>2, LoseStep
  <2>3. QED
    BY <2>1, <2>2
<1>3. Abstract!Say(u)
  BY <1>1, <1>2, Zenon DEF Abstract!Say, Members, Guests, Present
<1>4. QED
  BY <1>3, Zenon DEF Abstract!Next

\* The server ends while it passes a text on, which only some have heard.
LEMMA CloseSaying ==
  ASSUME up, up' = FALSE, NEW u \in Users, Registered(u) \/ Guest(u),
         SameMembers, SamePresent,
         NEW reached \in SUBSET Listeners(u), Said(u, reached)
  PROVE  Abstract!Next
<1>1. /\ Members' = Members /\ Present' = Present /\ Guests' = {}
      /\ u \in Members \cup Guests
  BY SameRoom, Closes DEF Members, Guests
<1>2. reached \in SUBSET Users
  BY DEF Listeners
<1>3. Abstract!Deliver(u, reached)
  BY <1>2, DeliverStep
<1>4. reached \in SUBSET Abstract!Audience(u)
  BY ListenersAre
<1>5. Abstract!Close
  BY <1>1, <1>3, <1>4, Zenon DEF Abstract!Close, Members, Guests, Present
<1>6. QED
  BY <1>5, Zenon DEF Abstract!Next

-----------------------------------------------------------------------------
(* The server reads, and the room speaks. *)

\* What is read of u is spoken, and nobody else speaks.
LEMMA ReadSpeaks ==
  ASSUME NEW u \in Users, NEW k, NEW x, NEW out, NEW sent, ReadsAs(u, k, x, out, sent),
         RecordsInv, RoomInv, toServer[u] # <<>>, said' = said
  PROVE  /\ SpokenOf(u)' >= SpokenOf(u)
         /\ x.flag # 4 /\ ~ Coalesce => SpokenOf(u)' = SpokenOf(u)
         /\ x.flag = 4 => /\ TextTag(x) = SaidAs(u, SpokenOf(u) + 1)
                          /\ SpokenOf(u)' > SpokenOf(u)
                          /\ ~ Coalesce => SpokenOf(u)' = SpokenOf(u) + 1
         /\ \A v \in Users : v # u => SpokenOf(v)' = SpokenOf(v)
         /\ \A v \in Users : Numbered(v)'
<1>1. /\ k \in recvPDU(toServer[u]) /\ toServer'[u] = Rest(toServer[u], k)
      /\ x.flag = toServer[u][1].flag
      /\ x.flag = 4 => TextTag(x) = TextTag(toServer[u][1])
      /\ \A v \in Users : v # u => toServer'[v] = toServer[v]
  BY DEF ReadsAs
<1>2. /\ SpokenOf(u)' >= SpokenOf(u) /\ SpokenOf(u)' \in Int /\ Numbered(u)'
      /\ toServer[u][1].flag # 4 /\ ~ Coalesce => SpokenOf(u)' = SpokenOf(u)
      /\ toServer[u][1].flag = 4 =>
           /\ TextTag(toServer[u][1]) = SaidAs(u, SpokenOf(u) + 1)
           /\ SpokenOf(u)' > SpokenOf(u)
           /\ ~ Coalesce => SpokenOf(u)' = SpokenOf(u) + 1
  BY <1>1, SomeRead
<1>3. \A v \in Users : v # u => SpokenOf(v)' = SpokenOf(v) /\ Numbered(v)'
  BY <1>1, NothingRead
<1>4. QED
  BY <1>1, <1>2, <1>3, Zenon

\* The server reads a broadcast and passes it on, perhaps not to all.
LEMMA BroadcastRoom ==
  ASSUME NEW u \in Users, NEW k, NEW x, NEW out, NEW sent, ReadsAs(u, k, x, out, sent),
         RecordsInv, TalkInv, RoomInv, up, socket[u] # 0, Registered(u) \/ Guest(u),
         ~ Asking(u), UNCHANGED clientVars, toServer[u] # <<>>, x.flag = 4
  PROVE  Abstract!Next
<1>1. /\ x \in SentPdus /\ out = Broadcast(socket[u], x) /\ sent \in Seq(Sends)
      /\ \A j \in DOMAIN sent : j \in DOMAIN out /\ sent[j] = out[j]
      /\ SendsSucceed(sent) /\ ~ Asking(u)'
      /\ \A v \in Users : v # u => toServer'[v] = toServer[v]
      /\ \/ Dies
         \/ sent = out /\ table' = TableAfter(socket[u], x) /\ UNCHANGED <<up, socket, poll>>
  <2>1. out = checkFlag(socket[u], x)
    BY DEF ReadsAs
  <2>2. out = Broadcast(socket[u], x)
    BY <2>1 DEF checkFlag
  <2>3. QED
    BY <2>2, Zenon DEF ReadsAs
<1>2. /\ \A j \in DOMAIN out : out[j].pdu = x
      /\ \A i, j \in DOMAIN out : out[i].socket = out[j].socket => i = j
      /\ \A j \in DOMAIN out : \A v \in Users :
           out[j].socket = socket[v] => v # u /\ Registered(v)
      /\ \A v \in Users : v # u /\ Registered(v) =>
           \E j \in DOMAIN out : out[j].socket = socket[v]
  <2>1. Targets(u, x, out)
    BY <1>1, BroadcastTargets
  <2>2. QED
    BY <2>1 DEF Targets
<1>3. /\ \A j \in DOMAIN sent : sent[j].pdu = x
      /\ \A i, j \in DOMAIN sent : sent[i].socket = sent[j].socket => i = j
  BY <1>1, <1>2
<1>4. shown \in [Users -> Seq(SentPdus)] /\ shown' = shown /\ said' = said
  BY DEF RoomInv, clientVars
<1>5. PICK reached :
        reached = {v \in Users :
                     peer[v] = "up" /\ \E j \in DOMAIN sent : sent[j].socket = socket[v]}
  OBVIOUS
<1>6. /\ TextTag(x) = SaidAs(u, SpokenOf(u) + 1)
      /\ SpokenOf(u)' > SpokenOf(u) /\ (~ Coalesce => SpokenOf(u)' = SpokenOf(u) + 1)
      /\ \A v \in Users : v # u => SpokenOf(v)' = SpokenOf(v)
  BY <1>4, ReadSpeaks
<1>7. ASSUME NEW v \in Users
      PROVE  /\ v \in reached => Extends(HeardBy(v)', HeardBy(v), TextTag(x))
             /\ v \notin reached => HeardBy(v)' = HeardBy(v)
  <2>1. x \in SentPdus /\ sent \in Seq(Sends) /\ SendsSucceed(sent)
    BY <1>1
  <2>2. /\ peer[v] = "up" /\ (\E j \in DOMAIN sent : sent[j].socket = socket[v]) =>
             Extends(Heard(shown'[v], toClient'[v]), Heard(shown[v], toClient[v]), TextTag(x))
        /\ ~ (peer[v] = "up" /\ (\E j \in DOMAIN sent : sent[j].socket = socket[v])) =>
             Heard(shown'[v], toClient'[v]) = Heard(shown[v], toClient[v])
    BY ONLY TalkInv, x.flag = 4, v \in Users, <1>3, <1>4, <2>1, BroadcastHeard
  <2>3. QED
    BY <1>5, <2>2 DEF HeardBy
<1>8. Said(u, reached)
  <2>1. reached \subseteq Users
    BY <1>5
  <2>2. \A v \in reached : Extends(HeardBy(v)', HeardBy(v), SaidAs(u, SpokenOf(u) + 1))
    BY <1>6, <1>7, <2>1
  <2>3. \A v \in Users \ reached : HeardBy(v)' = HeardBy(v)
    BY <1>7
  <2>4. /\ SpokenOf(u)' > SpokenOf(u) /\ (~ Coalesce => SpokenOf(u)' = SpokenOf(u) + 1)
        /\ \A v \in Users : v # u => SpokenOf(v)' = SpokenOf(v)
    BY <1>6
  <2>5. QED
    BY ONLY <2>2, <2>3, <2>4, Zenon DEF Said
<1>9. SamePresent
  BY <1>1, SendingGoes DEF SamePresent
<1>10. reached \in SUBSET Listeners(u)
  BY <1>1, <1>2, <1>5 DEF Listeners
<1>11. CASE Dies
  <2>1. up' = FALSE /\ SameMembers
    BY <1>11, DiesKeeps DEF SameMembers
  <2>2. QED
    BY <1>8, <1>9, <1>10, <2>1, CloseSaying
<1>12. CASE sent = out /\ table' = TableAfter(socket[u], x) /\ UNCHANGED <<up, socket, poll>>
  <2>1. reached = Listeners(u)
    <3>1. ASSUME NEW v \in Users, v # u, Registered(v), peer[v] = "up" PROVE v \in reached
      <4>1. \E j \in DOMAIN sent : sent[j].socket = socket[v]
        BY <1>2, <1>12, <3>1
      <4>2. QED
        BY <1>5, <3>1, <4>1
    <3>2. QED
      BY <1>10, <3>1 DEF Listeners
  <2>2. table' = table
    BY <1>12 DEF TableAfter
  <2>3. \A v \in Users : Asking(v)' <=> Asking(v)
    BY <1>1 DEF Asking
  <2>4. SameMembers /\ SameGuests
    BY <1>12, <2>2, <2>3, GuestSame DEF SameMembers, SameGuests
  <2>5. up' = up /\ Said(u, Listeners(u))
    BY <1>8, <1>12, <2>1
  <2>6. QED
    BY <1>9, <2>4, <2>5, SayStep
<1>13. QED
  BY <1>1, <1>11, <1>12

\* The server reads anything else.
LEMMA OtherRoom ==
  ASSUME NEW u \in Users, NEW k, NEW x, NEW out, NEW sent, ReadsAs(u, k, x, out, sent),
         RecordsInv, TalkInv, RoomInv, up, Polled(u), UNCHANGED clientVars,
         toServer[u] # <<>>, x.flag # 4
  PROVE  Abstract!Next
<1>1. /\ x \in SentPdus /\ out = checkFlag(socket[u], x) /\ out \in Seq(Sends)
      /\ sent \in Seq(Sends) /\ \A j \in DOMAIN sent : j \in DOMAIN out /\ sent[j] = out[j]
      /\ x.flag = toServer[u][1].flag /\ x.from = toServer[u][1].from
      /\ SendsSucceed(sent) /\ ~ Asking(u)'
      /\ \A v \in Users : v # u => toServer'[v] = toServer[v]
      /\ \/ Dies
         \/ sent = out /\ table' = TableAfter(socket[u], x) /\ UNCHANGED <<up, socket, poll>>
  BY DEF ReadsAs
<1>2. socket[u] \in Nat /\ socket[u] # 0 /\ toServer[u] \in Seq(PduRecords)
  BY DEF RecordsInv, TypeInv, Polled
<1>3. \A j \in DOMAIN out : out[j].pdu.flag # 4
  BY <1>1, <1>2, NoBroadcast
<1>4. \A j \in DOMAIN sent : sent[j].pdu.flag # 4
  BY <1>1, <1>3
<1>5. shown \in [Users -> Seq(SentPdus)] /\ shown' = shown /\ said' = said
  BY DEF RoomInv, clientVars
<1>6. SameInbox
  BY <1>1, <1>4, <1>5, OthersUnheard DEF SameInbox
<1>7. Lost(u)
  BY <1>5, <1>6, ReadSpeaks DEF Lost
<1>8. SamePresent
  BY <1>1, SendingGoes DEF SamePresent
<1>9. CASE Dies
  <2>1. up' = FALSE /\ SameMembers
    BY <1>9, DiesKeeps DEF SameMembers
  <2>2. QED
    BY <1>7, <1>8, <2>1, CloseQuietly
<1>10. CASE sent = out /\ table' = TableAfter(socket[u], x) /\ UNCHANGED <<up, socket, poll>>
  <2>1. \A v \in Users : v # u => (Asking(v)' <=> Asking(v))
    BY <1>1 DEF Asking
  <2>2. Polled(u)'
    BY <1>10 DEF Polled
  <2>3. CASE x.flag = 1
    <3>1. 1 \in DOMAIN toServer[u] /\ toServer[u][1].flag = 1
      BY <1>1, <1>2, <2>3
    <3>2. /\ toServer[u][1].from = Handle[u] /\ Asking(u)
          /\ \A i \in Entries : table[i].isUsed => table[i].socketNumber # socket[u]
      BY <3>1 DEF RecordsInv, HelloInv, Asking
    <3>3. ~ Registered(u) /\ ~ Guest(u)
      BY <3>2, GuestIs DEF Registered
    <3>4. Registered(u)' \/ Guest(u)'
      BY <1>1, <1>10, <2>2, GuestIs
    <3>5. table' = addHandle(table, Handle[u], socket[u])
      BY <1>1, <1>10, <2>3, <3>2 DEF TableAfter
    <3>6. \A v \in Users : v # u => (Registered(v)' <=> Registered(v))
      BY <1>2, <1>10, <3>5, Registers
    <3>7. \A v \in Users : v # u => (Guest(v)' <=> Guest(v))
      <4>1. \A v \in Users : Polled(v)' <=> Polled(v)
        BY <1>10 DEF Polled
      <4>2. QED
        BY <1>10, <2>1, <3>6, <4>1, GuestIs
    <3>8. QED
      BY <1>7, <1>8, <1>10, <3>3, <3>4, <3>6, <3>7, JoinStep
  <2>4. CASE x.flag # 1
    <3>1. table' = table
      BY <1>10, <2>4 DEF TableAfter
    <3>2. ~ Asking(u)
      BY <1>1, <2>4 DEF Asking, RecordsInv, HelloInv
    <3>3. \A v \in Users : Asking(v)' <=> Asking(v)
      BY <1>1, <2>1, <3>2
    <3>4. SameMembers /\ SameGuests
      BY <1>10, <3>1, <3>3, GuestSame DEF SameMembers, SameGuests
    <3>5. Registered(u) \/ Guest(u)
      BY <3>2, GuestIs
    <3>6. QED
      BY <1>7, <1>8, <1>10, <3>4, <3>5, SayStep
  <2>5. QED
    BY <2>3, <2>4
<1>11. QED
  BY <1>1, <1>9, <1>10

\* Whatever the server reads, it is a step of the room.
LEMMA ReadRoom ==
  ASSUME RecordsInv, TalkInv, RoomInv, up, NEW u \in Users, Polled(u), RecvData(u),
         UNCHANGED clientVars
  PROVE  Abstract!Next /\ RoomInv'
<1>1. socket[u] # 0
  BY DEF Polled
<1>2. toServer[u] # <<>> /\ \E k, x, out, sent : ReadsAs(u, k, x, out, sent)
  BY <1>1, ReadParts
<1>3. PICK k, x, out, sent : ReadsAs(u, k, x, out, sent)
  BY <1>2
<1>4. shown' = shown /\ state' = state /\ said' = said
  BY DEF clientVars
<1>5. Abstract!Next
  <2>1. CASE x.flag = 4
    <3>1. toServer[u][1].flag # 1
      BY <1>3, <2>1 DEF ReadsAs
    <3>2. ~ Asking(u)
      BY <3>1 DEF Asking, RecordsInv, HelloInv
    <3>3. Registered(u) \/ Guest(u)
      BY <3>2, GuestIs
    <3>4. QED
      BY <1>1, <1>2, <1>3, <2>1, <3>2, <3>3, BroadcastRoom
  <2>2. CASE x.flag # 4
    BY <1>2, <1>3, <2>2, OtherRoom
  <2>3. QED
    BY <2>1, <2>2
<1>6. \A v \in Users : Numbered(v)'
  BY <1>2, <1>3, <1>4, ReadSpeaks
<1>7. \A v \in Users : v # u => toServer'[v] = toServer[v]
  BY <1>3 DEF ReadsAs
<1>8. state[u] # "off"
  BY <1>2 DEF RoomInv
<1>9. RoomInv'
  BY <1>4, <1>6, <1>7, <1>8 DEF RoomInv
<1>10. QED
  BY <1>5, <1>9

-----------------------------------------------------------------------------
(* The chat programs implement ChatRoom. *)

\* Accepting a connection and closing one leave the others polled or not.
LEMMA OthersPolled ==
  ASSUME RecordsInv, NEW h \in Users, NEW n,
         \A v \in Users : v # h => socket'[v] = socket[v] /\ (socket[v] = 0 \/ socket[v] # n),
         \/ n \in Nat /\ poll' = addToPollSet(poll, n)
         \/ n \in DOMAIN poll.fds /\ poll' = removeFromPollSet(poll, n)
  PROVE  \A v \in Users : v # h => (Polled(v)' <=> Polled(v))
<1>1. PollOK(poll)
  BY DEF RecordsInv, PollInv
<1>2. \A i \in DOMAIN poll.fds \ {n} : poll'.fds[i] = poll.fds[i]
  <2>1. CASE n \in Nat /\ poll' = addToPollSet(poll, n)
    BY <1>1, <2>1, AddedToPoll
  <2>2. CASE n \in DOMAIN poll.fds /\ poll' = removeFromPollSet(poll, n)
    BY <1>1, <2>2, RemovedFromPoll
  <2>3. QED
    BY <2>1, <2>2
<1>3. ASSUME NEW v \in Users, v # h PROVE Polled(v)' <=> Polled(v)
  <2>1. CASE socket[v] = 0
    BY <1>3, <2>1 DEF Polled
  <2>2. CASE socket[v] # 0
    <3>1. socket[v] \in DOMAIN poll.fds \ {n} /\ socket'[v] = socket[v]
      BY <1>3, <2>2 DEF RecordsInv, PollInv, Accepted
    <3>2. QED
      BY <1>2, <3>1 DEF Polled
  <2>3. QED
    BY <2>1, <2>2
<1>4. QED
  BY <1>3

\* So is everything else its loop does.
LEMMA ServerRoom ==
  ASSUME RecordsInv, TalkInv, RoomInv, AskingInv, ServerStep
  PROVE  [Abstract!Next]_Abstract!vars /\ RoomInv'
<1>1. PICK ready : ready = pollCall(poll, Readable, {})
  OBVIOUS
<1>2. up /\ UNCHANGED clientVars /\ PollOK(poll)
  BY DEF ServerStep, RecordsInv, PollInv
<1>3. shown' = shown /\ state' = state /\ said' = said
  BY <1>2 DEF clientVars
<1>4. ASSUME UNCHANGED <<toServer, toClient, peer>>
      PROVE  RoomInv' /\ SameSpoken /\ SameInbox /\ SamePresent
  <2>1. \A v \in Users :
          SpokenOf(v)' = SpokenOf(v) /\ HeardBy(v)' = HeardBy(v) /\ Numbered(v)'
    BY <1>3, <1>4, UserQuiet
  <2>2. RoomInv'
    BY <1>3, <1>4, <2>1 DEF RoomInv
  <2>3. QED
    BY <1>4, <2>1, <2>2 DEF SameSpoken, SameInbox, SamePresent
<1>5. ASSUME Dies, UNCHANGED <<toServer, toClient, peer>>
      PROVE  [Abstract!Next]_Abstract!vars /\ RoomInv'
  <2>1. up' = FALSE /\ SameMembers
    BY <1>5, DiesKeeps DEF SameMembers
  <2>2. Abstract!Next
    BY <1>2, <1>4, <1>5, <2>1, CloseQuietly
  <2>3. QED
    BY <1>4, <1>5, <2>2
<1>6. ASSUME ready = MainSocket, Room, addNewSocket
      PROVE  [Abstract!Next]_Abstract!vars /\ RoomInv'
  <2>1. MainSocket \in Readable
    BY <1>1, <1>2, <1>6, ReadySocket DEF Timeout, MainSocket
  <2>2. \A u \in Users : socket[u] # MainSocket
    <3> TAKE u \in Users
    <3>1. CASE u \in Accepted
      BY <3>1 DEF RecordsInv, SocketInv, TypeInv, MainSocket
    <3>2. CASE u \notin Accepted
      BY <3>2 DEF Accepted, MainSocket
    <3>3. QED
      BY <3>1, <3>2
  <2>3. backlog # <<>>
    BY <2>1, <2>2 DEF Readable
  <2>4. PICK h : h = Head(backlog)
    OBVIOUS
  <2>5. h \in Users /\ socket[h] = 0
    BY <2>3, <2>4 DEF RecordsInv, TypeInv, WaitInv
  <2>6. /\ table' = table /\ up' = up /\ UNCHANGED <<toServer, toClient, peer>>
        /\ socket'[h] = NextSocket /\ \A v \in Users : v # h => socket'[v] = socket[v]
    BY <1>6, <2>4, <2>5 DEF addNewSocket, netVars, RecordsInv, TypeInv
  <2>7. \A i \in Entries : table[i].isUsed => table[i].socketNumber # NextSocket
    <3> SUFFICES ASSUME NEW i \in Entries, table[i].isUsed
                 PROVE  table[i].socketNumber # NextSocket
      OBVIOUS
    <3>1. PICK v \in Users : socket[v] # 0 /\ table[i].socketNumber = socket[v]
      BY DEF RecordsInv, OwnerInv, Owns
    <3>2. socket[v] < NextSocket /\ socket[v] \in Nat
      BY <3>1 DEF RecordsInv, SocketInv, Accepted, TypeInv
    <3>3. Cardinality(Accepted) \in Nat
      BY FS_CardinalityType DEF RecordsInv, SocketInv
    <3>4. NextSocket \in Nat
      BY <3>3 DEF NextSocket, Accepted, MainSocket
    <3>5. QED
      BY <3>1, <3>2, <3>4
  <2>8. \A v \in Users : v # h => (Registered(v)' <=> Registered(v))
    BY <2>6 DEF Registered
  <2>9. ~ Registered(h) /\ ~ Registered(h)' /\ ~ Guest(h)
    BY <2>5, <2>6, <2>7 DEF Registered, Guest, Polled
  <2>10. \A v \in Users : socket[v] = 0 \/ socket[v] # NextSocket
    BY DEF RecordsInv, SocketInv, Accepted, TypeInv
  <2>11. NextSocket \in Nat
    <3>1. Cardinality(Accepted) \in Nat
      BY FS_CardinalityType DEF RecordsInv, SocketInv
    <3>2. QED
      BY <3>1 DEF NextSocket, Accepted, MainSocket
  <2>12. poll' = addToPollSet(poll, NextSocket)
    BY <1>6 DEF addNewSocket
  <2>13. \A v \in Users : v # h => (Polled(v)' <=> Polled(v))
    BY <2>5, <2>6, <2>10, <2>11, <2>12, OthersPolled
  <2>14. \A v \in Users : Asking(v)' <=> Asking(v)
    BY <2>6 DEF Asking
  <2>15. \A v \in Users : v # h => (Guest(v)' <=> Guest(v))
    BY <2>6, <2>8, <2>13, <2>14, GuestIs
  <2>16. Asking(h)
    <3>1. 1 \in DOMAIN backlog /\ backlog[1] = h
      BY <2>3, <2>4 DEF RecordsInv, TypeInv
    <3>2. QED
      BY <2>5, <3>1 DEF AskingInv, Waits
  <2>17. ~ Guest(h)'
    BY <2>5, <2>14, <2>16, GuestIs
  <2>18. Quiet(h) /\ OnlyGoes(h)
    BY <1>4, <2>5, <2>6, <2>8, <2>9, <2>15, <2>17 DEF Quiet, OnlyGoes, SameSpoken, SameInbox
  <2>19. QED
    BY <1>4, <2>5, <2>6, <2>18, GoStep
<1>7. ASSUME NEW u \in Users, socket[u] = ready, ready # 0,
             RecvData(u) \/ RecvClosed(u) \/ RecvFails(u)
      PROVE  [Abstract!Next]_Abstract!vars /\ RoomInv'
  <2>1. ready # Timeout
    BY <1>7 DEF RecordsInv, TypeInv, Timeout
  <2>2. Polled(u)
    BY <1>1, <1>2, <1>7, <2>1, ReadySocket DEF Polled
  <2>3. CASE RecvData(u)
    BY <1>2, <2>2, <2>3, ReadRoom
  <2>4. CASE RecvClosed(u)
    <3>1. UNCHANGED <<toServer, toClient, peer>> /\ peer[u] # "up"
      BY <2>4 DEF RecvClosed
    <3>2. CASE Dies
      BY <1>5, <3>1, <3>2
    <3>3. CASE ~ Dies
      <4>1. table' = release(table, socket[u]) /\ socket' = socket /\ up' = up
        BY <2>4, <3>3 DEF RecvClosed
      <4>2. \A i \in Entries :
              /\ table'[i].socketNumber = table[i].socketNumber
              /\ table'[i].isUsed <=> (table[i].isUsed /\ table[i].socketNumber # socket[u])
        <5>1. table \in [Entries -> EntryRecords]
          BY DEF RecordsInv, TypeInv
        <5>2. QED
          BY <4>1, <5>1, Released
      <4>3. ~ Registered(u)'
        BY <4>1, <4>2 DEF Registered
      <4>4. ASSUME NEW v \in Users, v # u PROVE Registered(v)' <=> Registered(v)
        <5>1. socket[v] # 0 => socket[v] # socket[u]
          BY <4>4 DEF RecordsInv, SocketInv, Accepted
        <5>2. QED
          BY <4>1, <4>2, <5>1 DEF Registered
      <4>5. /\ socket[u] # 0 /\ socket[u] \in DOMAIN poll.fds
            /\ poll' = removeFromPollSet(poll, socket[u])
        BY <2>2, <2>4, <3>3 DEF RecvClosed, Polled, RecordsInv, PollInv, Accepted
      <4>6. ~ Polled(u)'
        BY <1>2, <4>1, <4>5, RemovedFromPoll DEF Polled
      <4>7. \A v \in Users : v # u => socket'[v] = socket[v]
                                      /\ (socket[v] = 0 \/ socket[v] # socket[u])
        BY <4>1, <4>5 DEF RecordsInv, SocketInv, Accepted
      <4>8. \A v \in Users : v # u => (Polled(v)' <=> Polled(v))
        BY <4>5, <4>7, OthersPolled
      <4>9. \A v \in Users : Asking(v)' <=> Asking(v)
        BY <3>1 DEF Asking
      <4>10. ~ Guest(u)' /\ \A v \in Users : v # u => (Guest(v)' <=> Guest(v))
        BY <4>1, <4>4, <4>6, <4>8, <4>9, GuestIs
      <4>11. QED
        BY <1>2, <1>4, <3>1, <4>1, <4>3, <4>4, <4>10, LeaveStep
    <3>4. QED
      BY <3>2, <3>3
  <2>5. CASE RecvFails(u)
    BY <1>5, <2>5 DEF RecvFails
  <2>6. QED
    BY <1>7, <2>3, <2>4, <2>5
<1>8. CASE ready = MainSocket /\ Room /\ AcceptFails
  BY <1>5, <1>8 DEF AcceptFails
<1>9. QED
  BY <1>1, <1>6, <1>7, <1>8 DEF ServerStep

\* Every step is a step of the room or changes nothing in it.
LEMMA RoomStep ==
  ASSUME RecordsInv, TalkInv, TextsInv, RoomInv, AskingInv, [Next]_vars
  PROVE  [Abstract!Next]_Abstract!vars /\ RoomInv'
<1>1. CASE UNCHANGED vars
  <2>1. UNCHANGED <<up, table, poll, socket, state, said, shown, toServer, toClient, peer>>
    BY <1>1 DEF vars, serverVars, clientVars, netVars
  <2>2. \A v \in Users :
          SpokenOf(v)' = SpokenOf(v) /\ HeardBy(v)' = HeardBy(v) /\ Numbered(v)'
    BY <2>1, UserQuiet
  <2>3. RoomInv'
    BY <2>1, <2>2 DEF RoomInv
  <2>4. SameMembers /\ SameGuests /\ SamePresent /\ SameSpoken /\ SameInbox
    BY <2>1, <2>2 DEF SameMembers, SameGuests, SamePresent, SameSpoken, SameInbox,
       Registered, Guest, Polled
  <2>5. /\ Members' = Members /\ Guests' = Guests /\ Present' = Present
        /\ SpokenNow' = SpokenNow /\ Inbox' = Inbox
    BY <2>4, SameRoom
  <2>6. UNCHANGED Abstract!vars
    BY <2>1, <2>5, Zenon DEF Abstract!vars, Members, Guests, Present, SpokenNow, SpokenOf,
       Waiting
  <2>7. QED
    BY <2>3, <2>6
<1>2. ASSUME NEW u \in Users,
             \/ Connect(u) \/ ConnectFails(u)
             \/ TypeLine(u) \/ ClientStep(u) \/ ClientKilled(u)
      PROVE  [Abstract!Next]_Abstract!vars /\ RoomInv'
  BY <1>2, ClientRoom, GoStep
<1>3. QED
  BY <1>1, <1>2, ServerRoom DEF Next

\* The room is empty at first.
LEMMA RoomInit == Init => TextsInv /\ AskingInv /\ RoomInv /\ Abstract!Init
<1> SUFFICES ASSUME Init PROVE TextsInv /\ AskingInv /\ RoomInv /\ Abstract!Init
  OBVIOUS
<1>1. PICK e : e = <<>>
  OBVIOUS
<1>2. e \in Seq(SentPdus) /\ DOMAIN e = {} /\ e \o e = e /\ Len(e) = 0
  BY <1>1
<1>3. Broadcasts(e) = e
  BY <1>1, <1>2, BroadcastsNone
<1>4. \A u \in Users : /\ toServer[u] = e /\ toClient[u] = e /\ shown[u] = e
                       /\ said[u] = 0 /\ peer[u] = "up" /\ state[u] = "off"
  BY <1>1 DEF Init
<1>5. \A u \in Users : Waiting(u) = e /\ SpokenOf(u) = 0 /\ HeardBy(u) = e
  <2>1. \A u \in Users : Waiting(u) = e /\ HeardBy(u) = e
    BY <1>2, <1>3, <1>4 DEF Waiting, HeardBy, Heard
  <2>2. 0 - 0 = 0
    OBVIOUS
  <2>3. QED
    BY <1>2, <1>4, <2>1, <2>2 DEF SpokenOf
<1>6. RoomInv
  <2>1. shown \in [Users -> Seq(SentPdus)]
    BY <1>1, <1>2 DEF Init
  <2>2. \A u \in Users : Numbered(u)
    BY <1>2, <1>5 DEF Numbered
  <2>3. QED
    BY <1>1, <1>4, <2>1, <2>2 DEF RoomInv
<1>7. Members = {} /\ Guests = {} /\ Present = Users
  BY <1>4 DEF Members, Guests, Present, Registered, Guest, Polled, Init, initializeHelper
<1>8. SpokenNow = [u \in Users |-> 0] /\ Inbox = [u \in Users |-> <<>>]
  BY <1>1, <1>5, InboxHeard, Zenon DEF SpokenNow
<1>9. Abstract!Init
  BY <1>7, <1>8, Zenon DEF Init, Abstract!Init, Members, Guests, Present, SpokenNow, SpokenOf,
     Waiting
<1>10. TextsInv /\ AskingInv
  <2>1. backlog = e
    BY <1>1 DEF Init
  <2>2. QED
    BY <1>2, <1>4, <2>1 DEF TextsInv, AskingInv, Waits
<1>11. QED
  BY <1>6, <1>9, <1>10

\* The server, its clients and the connections between them are one chat room, for
\* every setting: what the server reads of a client is heard at once by everybody
\* else who is registered and has not gone, behind all that was said before,
\* whatever the clients do meanwhile, and whether a send kills the server or not.
\* Clients whose handle was refused speak in it as well; and texts are lost and
\* missed only where several PDUs are read together, of one speaker those behind
\* the first, of one listener some that follow each other.
THEOREM IsChatRoomCorrect == Spec => IsChatRoom
<1> DEFINE Inv == RecordsInv /\ TalkInv /\ TextsInv /\ AskingInv /\ RoomInv
<1>1. Init => Inv /\ Abstract!Init
  BY RecordsInit, TalkInit, RoomInit
<1>2. Inv /\ [Next]_vars => Inv'
  BY RecordsStep, TalkStep, TextsStep, AskingStep, RoomStep
<1>3. Inv /\ [Next]_vars => [Abstract!Next]_Abstract!vars
  BY RoomStep
<1>4. QED
  BY <1>1, <1>2, <1>3, PTL DEF Spec, IsChatRoom, Abstract!Spec

-----------------------------------------------------------------------------
(* In the room all hear what they share in one order. *)

\* Each speaker is heard in the order of speaking.
InTurn(H) ==
  \A d, w \in Users : \A i, j \in DOMAIN H[d] : \A m, n \in Int :
    i < j /\ H[d][i] = SaidAs(w, m) /\ H[d][j] = SaidAs(w, n) => m < n

\* Nothing is heard that was not said: w has said P[w] texts.
WasSaid(H, P) ==
  \A d \in Users : \A k \in DOMAIN H[d] :
    \E w \in Users : \E n \in Int : H[d][k] = SaidAs(w, n) /\ n <= P[w]

\* Those in audience hear x, the others nothing.
Hear(H, G, audience, x) ==
  \A d \in Users : /\ d \in audience => Extends(G[d], H[d], x)
                   /\ d \notin audience => G[d] = H[d]

\* x is what u says next.
NextOf(u, P, x) == P[u] \in Int /\ x = SaidAs(u, P[u] + 1)

\* u has said some texts more.
Speaks(u, P, Q) == Q[u] > P[u] /\ \A w \in Users : w # u => Q[w] = P[w]

\* Nobody has said less.
NotLess(P, Q) == \A w \in Users : Q[w] >= P[w]

\* What is in an inbox was there before, or is x, behind the rest.
Place(H, G, x, d, i) ==
  \/ i \in DOMAIN H[d] /\ G[d][i] = H[d][i]
  \/ i = Len(H[d]) + 1 /\ G[d][i] = x

LEMMA SaidAsOne ==
  ASSUME NEW u, NEW w, NEW m, NEW n, SaidAs(u, m) = SaidAs(w, n)
  PROVE  u = w /\ m = n
BY DEF SaidAs

\* Where things are after a text was heard.
LEMMA Places ==
  ASSUME NEW T, NEW H, \A d \in Users : H[d] \in Seq(T), NEW G, NEW x \in T, NEW audience,
         Hear(H, G, audience, x), NEW d \in Users
  PROVE  /\ Len(H[d]) \in Nat /\ DOMAIN H[d] = 1 .. Len(H[d])
         /\ \A i \in DOMAIN G[d] : Place(H, G, x, d, i)
<1>1. PICK s, t : s = H[d] /\ t = G[d]
  OBVIOUS
<1>2. s \in Seq(T) /\ Len(s) \in Nat /\ DOMAIN s = 1 .. Len(s)
  <2>1. s \in Seq(T)
    BY <1>1
  <2>2. QED
    BY ONLY <2>1
<1>3. t = s \/ Extends(t, s, x)
  BY <1>1 DEF Hear
<1>4. \A i \in DOMAIN t : (i \in DOMAIN s /\ t[i] = s[i]) \/ (i = Len(s) + 1 /\ t[i] = x)
  <2>1. CASE t = s
    BY <2>1, Zenon
  <2>2. CASE Extends(t, s, x)
    <3>1. t = Append(s, x)
      BY <2>2 DEF Extends
    <3>2. QED
      BY ONLY <1>2, <3>1, x \in T
  <2>3. QED
    BY ONLY <1>3, <2>1, <2>2
<1>5. QED
  BY ONLY <1>1, <1>2, <1>4, Zenon DEF Place

\* A text that nobody has heard keeps the order.
LEMMA OrderKept ==
  ASSUME NEW T, NEW H, \A d \in Users : H[d] \in Seq(T), NEW G, NEW x \in T, NEW audience,
         Hear(H, G, audience, x), OneOrder(H),
         \A d \in Users : \A k \in DOMAIN H[d] : H[d][k] # x
  PROVE  OneOrder(G)
<1>1. \A d \in Users : /\ Len(H[d]) \in Nat /\ DOMAIN H[d] = 1 .. Len(H[d])
                       /\ \A i \in DOMAIN G[d] : Place(H, G, x, d, i)
  BY Places
<1> SUFFICES ASSUME NEW u \in Users, NEW v \in Users,
                    NEW i \in DOMAIN G[u], NEW j \in DOMAIN G[u],
                    NEW k \in DOMAIN G[v], NEW l \in DOMAIN G[v],
                    G[u][i] = G[v][k], G[u][j] = G[v][l]
             PROVE  i < j <=> k < l
  BY DEF OneOrder
<1>2. PICK a, b, m, n : /\ a = DOMAIN H[u] /\ b = DOMAIN H[v]
                        /\ m = Len(H[u]) /\ n = Len(H[v])
  OBVIOUS
<1>3. m \in Nat /\ n \in Nat /\ a = 1 .. m /\ b = 1 .. n
  BY <1>1, <1>2
<1>4. /\ Place(H, G, x, u, i) /\ Place(H, G, x, u, j)
      /\ Place(H, G, x, v, k) /\ Place(H, G, x, v, l)
  BY <1>1
<1>5. \/ i \in a /\ k \in b /\ H[u][i] = H[v][k]
      \/ i = m + 1 /\ k = n + 1
  BY <1>2, <1>4, Zenon DEF Place
<1>6. \/ j \in a /\ l \in b /\ H[u][j] = H[v][l]
      \/ j = m + 1 /\ l = n + 1
  BY <1>2, <1>4, Zenon DEF Place
<1>7. CASE /\ i \in a /\ k \in b /\ H[u][i] = H[v][k]
           /\ j \in a /\ l \in b /\ H[u][j] = H[v][l]
  BY ONLY <1>2, <1>7, OneOrder(H), u \in Users, v \in Users DEF OneOrder
<1>8. CASE i \in a /\ k \in b /\ j = m + 1 /\ l = n + 1
  BY ONLY <1>3, <1>8
<1>9. CASE i = m + 1 /\ k = n + 1 /\ j \in a /\ l \in b
  BY ONLY <1>3, <1>9
<1>10. CASE i = m + 1 /\ k = n + 1 /\ j = m + 1 /\ l = n + 1
  BY ONLY <1>3, <1>10
<1>11. QED
  BY ONLY <1>5, <1>6, <1>7, <1>8, <1>9, <1>10

\* A speaker's next text keeps the speaker's order.
LEMMA TurnKept ==
  ASSUME NEW T, NEW H, \A d \in Users : H[d] \in Seq(T), NEW G, NEW x \in T, NEW audience,
         Hear(H, G, audience, x), NEW u \in Users, NEW P, NextOf(u, P, x),
         InTurn(H), WasSaid(H, P)
  PROVE  InTurn(G)
<1>1. \A d \in Users : /\ Len(H[d]) \in Nat /\ DOMAIN H[d] = 1 .. Len(H[d])
                       /\ \A i \in DOMAIN G[d] : Place(H, G, x, d, i)
  BY Places
<1> USE DEF NextOf
<1> SUFFICES ASSUME NEW d \in Users, NEW w \in Users,
                    NEW i \in DOMAIN G[d], NEW j \in DOMAIN G[d],
                    NEW m \in Int, NEW n \in Int,
                    i < j, G[d][i] = SaidAs(w, m), G[d][j] = SaidAs(w, n)
             PROVE  m < n
  BY DEF InTurn
<1>2. PICK a, c : a = DOMAIN H[d] /\ c = Len(H[d])
  OBVIOUS
<1>3. c \in Nat /\ a = 1 .. c
  BY <1>1, <1>2
<1>4. Place(H, G, x, d, i) /\ Place(H, G, x, d, j)
  BY <1>1
<1>5. i \in a /\ G[d][i] = H[d][i]
  <2>1. /\ i \in a \/ i = c + 1
        /\ j \in a \/ j = c + 1
    BY <1>2, <1>4, Zenon DEF Place
  <2>2. i # c + 1
    BY ONLY <1>3, <2>1, i < j
  <2>3. QED
    BY <1>2, <1>4, <2>2, Zenon DEF Place
<1>6. CASE j \in a /\ G[d][j] = H[d][j]
  <2>1. H[d][i] = SaidAs(w, m) /\ H[d][j] = SaidAs(w, n)
    BY <1>5, <1>6
  <2>2. QED
    BY <1>2, <1>5, <1>6, <2>1 DEF InTurn
<1>7. CASE G[d][j] = x
  <2>1. w = u /\ n = P[u] + 1
    <3>1. PICK p : p = P[u] + 1
      OBVIOUS
    <3>2. SaidAs(w, n) = SaidAs(u, p)
      BY <1>7, <3>1
    <3>3. QED
      BY ONLY <3>1, <3>2 DEF SaidAs
  <2>2. PICK v \in Users : \E q \in Int : H[d][i] = SaidAs(v, q) /\ q <= P[v]
    BY ONLY <1>2, <1>5, d \in Users, WasSaid(H, P) DEF WasSaid
  <2>3. PICK q \in Int : H[d][i] = SaidAs(v, q) /\ q <= P[v]
    BY <2>2
  <2>4. v = w /\ q = m
    BY <1>5, <2>3, SaidAsOne
  <2>5. PICK p : p = P[u]
    OBVIOUS
  <2>6. m <= p /\ n = p + 1 /\ p \in Int
    BY <2>1, <2>3, <2>4, <2>5
  <2>7. QED
    BY ONLY <2>6, m \in Int
<1>8. QED
  BY <1>2, <1>4, <1>6, <1>7, Zenon DEF Place

\* What is heard has then been said, and had not been heard.
LEMMA SaidKept ==
  ASSUME NEW T, NEW H, \A d \in Users : H[d] \in Seq(T), NEW G, NEW x \in T, NEW audience,
         Hear(H, G, audience, x), NEW u \in Users, NEW P, NextOf(u, P, x),
         NEW Q, \A w \in Users : P[w] \in Int /\ Q[w] \in Int, Speaks(u, P, Q), WasSaid(H, P)
  PROVE  /\ WasSaid(G, Q)
         /\ \A d \in Users : \A k \in DOMAIN H[d] : H[d][k] # x
<1>1. \A w \in Users : P[w] \in Int /\ Q[w] \in Int /\ P[w] <= Q[w]
  <2> SUFFICES ASSUME NEW w \in Users PROVE P[w] <= Q[w]
    OBVIOUS
  <2>1. CASE w = u
    BY <2>1 DEF Speaks
  <2>2. CASE w # u
    BY <2>2 DEF Speaks
  <2>3. QED
    BY <2>1, <2>2
<1>2. WasSaid(G, Q)
  <2> SUFFICES ASSUME NEW d \in Users, NEW k \in DOMAIN G[d]
               PROVE  \E w \in Users : \E n \in Int : G[d][k] = SaidAs(w, n) /\ n <= Q[w]
    BY DEF WasSaid
  <2>1. Place(H, G, x, d, k)
    BY Places
  <2>2. CASE k \in DOMAIN H[d] /\ G[d][k] = H[d][k]
    <3>1. PICK w \in Users : \E n \in Int : H[d][k] = SaidAs(w, n) /\ n <= P[w]
      BY ONLY <2>2, d \in Users, WasSaid(H, P) DEF WasSaid
    <3>2. PICK n \in Int : H[d][k] = SaidAs(w, n) /\ n <= P[w]
      BY <3>1
    <3>3. n <= Q[w]
      BY <1>1, <3>2
    <3>4. QED
      BY <2>2, <3>2, <3>3
  <2>3. CASE G[d][k] = x
    <3>1. P[u] + 1 \in Int /\ P[u] + 1 <= Q[u]
      BY <1>1 DEF Speaks
    <3>2. G[d][k] = SaidAs(u, P[u] + 1)
      BY <2>3 DEF NextOf
    <3>3. QED
      BY <3>1, <3>2
  <2>4. QED
    BY <2>1, <2>2, <2>3 DEF Place
<1>3. ASSUME NEW d \in Users, NEW k \in DOMAIN H[d], H[d][k] = x PROVE FALSE
  <2>1. PICK w \in Users : \E n \in Int : H[d][k] = SaidAs(w, n) /\ n <= P[w]
    BY ONLY d \in Users, k \in DOMAIN H[d], WasSaid(H, P) DEF WasSaid
  <2>2. PICK n \in Int : H[d][k] = SaidAs(w, n) /\ n <= P[w]
    BY <2>1
  <2>3. w = u /\ n = P[u] + 1
    BY <1>3, <2>2, SaidAsOne DEF NextOf
  <2>4. QED
    BY <1>1, <2>2, <2>3
<1>4. QED
  BY <1>2, <1>3

\* Where the k-th of a sequence was before m elements behind the i-th vanished.
Before(i, m, k) == IF k <= i THEN k ELSE k + m

\* t is what is left of s then.
LeftOf(t, s, i, m) ==
  \A k \in DOMAIN t : /\ k \in Int /\ Before(i, m, k) \in DOMAIN s
                      /\ t[k] = s[Before(i, m, k)]

\* A cut leaves elements in their order.
LEMMA CutLeaves ==
  ASSUME NEW T, NEW s \in Seq(T), NEW t, Cut(t, s)
  PROVE  \E i, m \in Nat : LeftOf(t, s, i, m)
<1>1. PICK i \in 0 .. Len(s) : \E j \in i .. Len(s) :
        t = SubSeq(s, 1, i) \o SubSeq(s, j + 1, Len(s))
  BY DEF Cut
<1>2. PICK j \in i .. Len(s) : t = SubSeq(s, 1, i) \o SubSeq(s, j + 1, Len(s))
  BY <1>1, Zenon
<1>3. PICK a, c : a = SubSeq(s, 1, i) /\ c = SubSeq(s, j + 1, Len(s))
  OBVIOUS
<1>4. t = a \o c
  BY <1>2, <1>3, Zenon
<1>5. Len(s) \in Nat /\ DOMAIN s = 1 .. Len(s) /\ i \in Nat /\ j \in Nat /\ i <= j
      /\ i <= Len(s) /\ j <= Len(s)
  OBVIOUS
<1>6. a \in Seq(T) /\ Len(a) = i /\ \A k \in 1 .. i : a[k] = s[k]
  BY ONLY <1>3, <1>5, s \in Seq(T), SubSeqProperties
<1>7. /\ c \in Seq(T) /\ Len(c) \in Nat /\ DOMAIN c = 1 .. Len(c)
      /\ \A k \in DOMAIN c : k \in 1 .. (Len(s) - j) /\ c[k] = s[j + k]
  <2>1. c \in Seq(T)
    BY ONLY <1>3, <1>5, s \in Seq(T)
  <2>2. \A k \in DOMAIN c : k \in 1 .. (Len(s) - j) /\ c[k] = s[j + k]
    BY ONLY <1>3, <1>5, s \in Seq(T), SuffixElements
  <2>3. Len(c) \in Nat /\ DOMAIN c = 1 .. Len(c)
    BY ONLY <2>1
  <2>4. QED
    BY <2>1, <2>2, <2>3
<1>8. /\ a \o c \in Seq(T) /\ Len(a \o c) = Len(a) + Len(c)
      /\ \A k \in 1 .. Len(a) : (a \o c)[k] = a[k]
      /\ \A k \in 1 .. Len(c) : (a \o c)[Len(a) + k] = c[k]
  <2>1. a \in Seq(T) /\ c \in Seq(T)
    BY <1>6, <1>7
  <2>2. QED
    BY ONLY <2>1, Concatenation
<1>9. /\ t \in Seq(T) /\ Len(t) = i + Len(c)
      /\ \A k \in 1 .. i : t[k] = a[k]
      /\ \A k \in 1 .. Len(c) : t[i + k] = c[k]
  BY <1>4, <1>6, <1>8, Zenon
<1>10. PICK m \in Nat : m = j - i
  BY <1>5
<1>11. ASSUME NEW k \in DOMAIN t
       PROVE  k \in Int /\ Before(i, m, k) \in DOMAIN s /\ t[k] = s[Before(i, m, k)]
  <2>1. k \in 1 .. (i + Len(c))
    BY <1>9
  <2>2. CASE k <= i
    <3>1. k \in 1 .. i /\ k \in 1 .. Len(s) /\ Before(i, m, k) = k
      BY <1>5, <1>7, <2>1, <2>2 DEF Before
    <3>2. QED
      BY <1>5, <1>6, <1>9, <3>1
  <2>3. CASE ~ k <= i
    <3>1. PICK l : l = k - i
      OBVIOUS
    <3>2. l \in DOMAIN c /\ i + l = k /\ k + m = j + l /\ Before(i, m, k) = k + m
      BY <1>5, <1>7, <1>10, <2>1, <2>3, <3>1 DEF Before
    <3>3. l \in 1 .. (Len(s) - j) /\ c[l] = s[j + l] /\ t[i + l] = c[l]
      BY <1>7, <1>9, <3>2
    <3>4. t[k] = s[k + m] /\ k + m \in 1 .. Len(s)
      BY <1>5, <3>2, <3>3
    <3>5. QED
      BY <1>5, <2>1, <3>2, <3>4
  <2>4. QED
    BY <2>2, <2>3
<1>12. LeftOf(t, s, i, m)
  BY <1>11 DEF LeftOf
<1>13. QED
  BY <1>5, <1>10, <1>12

\* Some things are missed, or nothing.
Missed(H, G) == \A d \in Users : \E i, m \in Nat : LeftOf(G[d], H[d], i, m)

LEMMA OrderMissed ==
  ASSUME NEW H, NEW G, Missed(H, G), OneOrder(H)
  PROVE  OneOrder(G)
<1> SUFFICES ASSUME NEW u \in Users, NEW v \in Users,
                    NEW i \in DOMAIN G[u], NEW j \in DOMAIN G[u],
                    NEW k \in DOMAIN G[v], NEW l \in DOMAIN G[v],
                    G[u][i] = G[v][k], G[u][j] = G[v][l]
             PROVE  i < j <=> k < l
  BY DEF OneOrder
<1>1. PICK a, b \in Nat : LeftOf(G[u], H[u], a, b)
  BY DEF Missed
<1>2. PICK c, e \in Nat : LeftOf(G[v], H[v], c, e)
  BY DEF Missed
<1>3. PICK i1, j1, k1, l1 : /\ i1 = Before(a, b, i) /\ j1 = Before(a, b, j)
                            /\ k1 = Before(c, e, k) /\ l1 = Before(c, e, l)
  OBVIOUS
<1>4. /\ i1 \in DOMAIN H[u] /\ G[u][i] = H[u][i1] /\ j1 \in DOMAIN H[u] /\ G[u][j] = H[u][j1]
      /\ k1 \in DOMAIN H[v] /\ G[v][k] = H[v][k1] /\ l1 \in DOMAIN H[v] /\ G[v][l] = H[v][l1]
      /\ i \in Int /\ j \in Int /\ k \in Int /\ l \in Int
  BY <1>1, <1>2, <1>3, Zenon DEF LeftOf
<1>5. i1 < j1 <=> k1 < l1
  <2>1. H[u][i1] = H[v][k1] /\ H[u][j1] = H[v][l1]
    BY <1>4, Zenon
  <2>2. /\ i1 \in DOMAIN H[u] /\ j1 \in DOMAIN H[u]
        /\ k1 \in DOMAIN H[v] /\ l1 \in DOMAIN H[v]
    BY <1>4, Zenon
  <2>3. \A x, y \in DOMAIN H[u], w, z \in DOMAIN H[v] :
          H[u][x] = H[v][w] /\ H[u][y] = H[v][z] => (x < y <=> w < z)
    BY ONLY OneOrder(H), u \in Users, v \in Users, Zenon DEF OneOrder
  <2>4. QED
    BY ONLY <2>1, <2>2, <2>3, Zenon
<1>6. (i < j <=> i1 < j1) /\ (k < l <=> k1 < l1)
  <2>1. i \in Int /\ j \in Int /\ k \in Int /\ l \in Int
    BY ONLY <1>4, Zenon
  <2>2. \A x, y \in Int, m, n \in Nat : x < y <=> Before(m, n, x) < Before(m, n, y)
    BY ONLY DEF Before
  <2>3. /\ i < j <=> Before(a, b, i) < Before(a, b, j)
        /\ k < l <=> Before(c, e, k) < Before(c, e, l)
    BY ONLY <2>1, <2>2, a \in Nat, b \in Nat, c \in Nat, e \in Nat, Zenon
  <2>4. QED
    BY ONLY <1>3, <2>3, Zenon
<1>7. QED
  BY <1>5, <1>6

LEMMA TurnMissed ==
  ASSUME NEW H, NEW G, Missed(H, G), InTurn(H)
  PROVE  InTurn(G)
<1> SUFFICES ASSUME NEW d \in Users, NEW w \in Users,
                    NEW i \in DOMAIN G[d], NEW j \in DOMAIN G[d],
                    NEW m \in Int, NEW n \in Int,
                    i < j, G[d][i] = SaidAs(w, m), G[d][j] = SaidAs(w, n)
             PROVE  m < n
  BY DEF InTurn
<1>1. PICK a, b \in Nat : LeftOf(G[d], H[d], a, b)
  BY DEF Missed
<1>2. PICK i1, j1 : i1 = Before(a, b, i) /\ j1 = Before(a, b, j)
  OBVIOUS
<1>3. /\ i1 \in DOMAIN H[d] /\ G[d][i] = H[d][i1] /\ j1 \in DOMAIN H[d] /\ G[d][j] = H[d][j1]
      /\ i \in Int /\ j \in Int
  BY <1>1, <1>2, Zenon DEF LeftOf
<1>4. i1 < j1
  BY ONLY <1>2, <1>3, i < j, a \in Nat, b \in Nat DEF Before
<1>5. QED
  BY <1>3, <1>4 DEF InTurn

LEMMA SaidMissed ==
  ASSUME NEW H, NEW G, Missed(H, G), NEW P, NEW Q,
         \A w \in Users : P[w] \in Int /\ Q[w] \in Int, NotLess(P, Q), WasSaid(H, P)
  PROVE  WasSaid(G, Q)
<1> SUFFICES ASSUME NEW d \in Users, NEW k \in DOMAIN G[d]
             PROVE  \E w \in Users : \E n \in Int : G[d][k] = SaidAs(w, n) /\ n <= Q[w]
  BY DEF WasSaid
<1>1. PICK a, b \in Nat : LeftOf(G[d], H[d], a, b)
  BY DEF Missed
<1>2. PICK k1 \in DOMAIN H[d] : G[d][k] = H[d][k1]
  BY <1>1 DEF LeftOf
<1>3. PICK w \in Users : \E n \in Int : H[d][k1] = SaidAs(w, n) /\ n <= P[w]
  BY <1>2 DEF WasSaid
<1>4. PICK n \in Int : H[d][k1] = SaidAs(w, n) /\ n <= P[w]
  BY <1>3
<1>5. n <= Q[w]
  BY <1>4 DEF NotLess
<1>6. QED
  BY <1>2, <1>4, <1>5

\* What a step of the room does to what was spoken and heard.
LEMMA RoomSpeaks ==
  ASSUME [Abstract!Next]_Abstract!vars
  PROVE  \/ SpokenNow' = SpokenNow /\ Inbox' = Inbox
         \/ \E u \in Users : Abstract!Lose(u)
         \/ \E d \in Users : Abstract!Misses(d)
         \/ \E u \in Users, audience \in SUBSET Users : Abstract!Deliver(u, audience)
<1>1. CASE UNCHANGED Abstract!vars
  BY <1>1, Zenon DEF Abstract!vars, SpokenNow, SpokenOf, Waiting
<1>2. ASSUME NEW u \in Users, Abstract!Leave(u)
      PROVE  SpokenNow' = SpokenNow /\ Inbox' = Inbox
  BY <1>2, Zenon DEF Abstract!Leave, SpokenNow, SpokenOf, Waiting
<1>3. ASSUME NEW u \in Users, Abstract!Join(u) PROVE Abstract!Lose(u)
  BY <1>3, Zenon DEF Abstract!Join
<1>4. ASSUME NEW u \in Users, Abstract!Miss(u) \/ Abstract!Go(u) PROVE Abstract!Misses(u)
  BY <1>4, Zenon DEF Abstract!Miss, Abstract!Go
<1>5. ASSUME NEW u \in Users, Abstract!Say(u)
      PROVE  Abstract!Lose(u) \/ \E audience \in SUBSET Users : Abstract!Deliver(u, audience)
  <2>1. PICK audience : audience = Abstract!Audience(u)
    OBVIOUS
  <2>2. Abstract!Lose(u) \/ Abstract!Deliver(u, audience)
    BY <1>5, <2>1, Zenon DEF Abstract!Say, Abstract!Deliver
  <2>3. audience \in SUBSET Users
    BY <2>1 DEF Abstract!Audience
  <2>4. QED
    BY ONLY <2>2, <2>3, Zenon
<1>6. CASE Abstract!Close
  <2>1. \/ SpokenNow' = SpokenNow /\ Inbox' = Inbox
        \/ \E u \in Users : Abstract!Lose(u)
        \/ \E u \in Members \cup Guests : \E reached \in SUBSET Abstract!Audience(u) :
             Abstract!Deliver(u, reached)
    BY <1>6, Zenon DEF Abstract!Close, Members, Guests, SpokenNow, SpokenOf, Waiting
  <2>2. CASE \E u \in Members \cup Guests : \E reached \in SUBSET Abstract!Audience(u) :
               Abstract!Deliver(u, reached)
    <3>1. PICK u \in Members \cup Guests :
                 \E reached \in SUBSET Abstract!Audience(u) : Abstract!Deliver(u, reached)
      BY <2>2
    <3>2. PICK reached \in SUBSET Abstract!Audience(u) : Abstract!Deliver(u, reached)
      BY <3>1
    <3>3. u \in Users /\ reached \in SUBSET Users
      BY DEF Members, Guests, Abstract!Audience
    <3>4. QED
      BY <3>2, <3>3
  <2>3. QED
    BY <2>1, <2>2
<1>7. QED
  BY <1>1, <1>2, <1>3, <1>4, <1>5, <1>6, Zenon DEF Abstract!Next

\* The types of what is spoken and heard.
LEMMA RoomTyped ==
  ASSUME RecordsInv, TalkInv, RoomInv
  PROVE  \E T : /\ \A u \in Users : Inbox[u] \in Seq(T)
                /\ \A u \in Users : SpokenNow[u] \in Int
                /\ \A u \in Users, n \in Int : SaidAs(u, n) \in T
<1>1. PICK W : W = {TextTag(p) : p \in SentPdus}
  OBVIOUS
<1>2. PICK V : V = Users \X Int
  OBVIOUS
<1>3. PICK T : T = W \cup V
  OBVIOUS
<1>4. ASSUME NEW u \in Users PROVE Inbox[u] \in Seq(T)
  <2>1. PICK s, q, h, b : s = shown[u] /\ q = toClient[u] /\ h = s \o q /\ b = Broadcasts(h)
    OBVIOUS
  <2>2. s \in Seq(SentPdus) /\ q \in Seq(SentPdus)
    BY <2>1 DEF RoomInv, TalkInv
  <2>3. h \in Seq(SentPdus)
    BY ONLY <2>1, <2>2
  <2>4. b \in Seq(W)
    BY <1>1, <2>1, <2>3, BroadcastsType
  <2>5. b \in Seq(T)
    <3>1. W \subseteq T
      BY <1>3
    <3>2. QED
      BY <2>4, <3>1, SeqMonotonic
  <2>6. Inbox[u] = b
    BY <2>1, InboxHeard, Zenon DEF HeardBy, Heard
  <2>7. QED
    BY <2>5, <2>6
<1>5. \A u \in Users : SpokenNow[u] \in Int
  BY WaitingTyped DEF SpokenNow
<1>6. \A u \in Users, n \in Int : SaidAs(u, n) \in T
  BY <1>2, <1>3 DEF SaidAs
<1>7. QED
  BY <1>4, <1>5, <1>6

\* What all have heard, in the order in which they have heard it.
OrderInv == SameOrder /\ InTurn(Inbox) /\ WasSaid(Inbox, SpokenNow)

LEMMA OrderInit == Abstract!Init => OrderInv
<1> SUFFICES ASSUME Abstract!Init PROVE OrderInv
  OBVIOUS
<1>1. Inbox = [u \in Users |-> <<>>]
  BY Zenon DEF Abstract!Init
<1>2. PICK e, H : e = <<>> /\ H = Inbox
  OBVIOUS
<1>3. \A u \in Users : H[u] = e
  BY <1>1, <1>2
<1>4. DOMAIN e = {}
  BY <1>2
<1>5. \A u \in Users : DOMAIN H[u] = {}
  BY <1>3, <1>4
<1>6. OneOrder(H) /\ InTurn(H) /\ WasSaid(H, SpokenNow)
  BY ONLY <1>5 DEF OneOrder, InTurn, WasSaid
<1>7. QED
  BY <1>2, <1>6 DEF OrderInv, SameOrder

\* What has been spoken is a number.
SpokenInv == \A u \in Users : SpokenNow[u] \in Int

LEMMA SpokenTyped == RecordsInv => SpokenInv
  BY WaitingTyped DEF SpokenInv, SpokenNow

\* Every step of the room keeps the order.
LEMMA OrderStep ==
  ASSUME RecordsInv, TalkInv, RoomInv, SpokenInv', OrderInv,
         [Abstract!Next]_Abstract!vars
  PROVE  OrderInv'
<1>1. PICK T : /\ \A d \in Users : Inbox[d] \in Seq(T)
               /\ \A d \in Users : SpokenNow[d] \in Int
               /\ \A d \in Users, n \in Int : SaidAs(d, n) \in T
  BY RoomTyped
<1>2. PICK H, G, P, Q : H = Inbox /\ G = Inbox' /\ P = SpokenNow /\ Q = SpokenNow'
  OBVIOUS
<1>3. /\ \A d \in Users : P[d] \in Int /\ Q[d] \in Int
      /\ \A d \in Users : H[d] \in Seq(T)
  BY <1>1, <1>2 DEF SpokenInv
<1>4. OneOrder(H) /\ InTurn(H) /\ WasSaid(H, P)
  BY <1>2 DEF OrderInv, SameOrder
<1>5. ASSUME OneOrder(G), InTurn(G), WasSaid(G, Q) PROVE OrderInv'
  BY <1>2, <1>5 DEF OrderInv, SameOrder, OneOrder, InTurn, WasSaid
<1>6. ASSUME Missed(H, G), NotLess(P, Q) PROVE OrderInv'
  <2>1. OneOrder(G) /\ InTurn(G) /\ WasSaid(G, Q)
    BY ONLY <1>3, <1>4, <1>6, OrderMissed, TurnMissed, SaidMissed, Zenon
  <2>2. QED
    BY <1>5, <2>1
<1>7. ASSUME NEW d \in Users, G[d] = H[d] PROVE \E i, m \in Nat : LeftOf(G[d], H[d], i, m)
  <2>1. PICK s : s = H[d]
    OBVIOUS
  <2>2. s \in Seq(T)
    BY <1>3, <2>1
  <2>3. LeftOf(s, s, 0, 0)
    BY ONLY <2>2 DEF LeftOf, Before
  <2>4. LeftOf(G[d], H[d], 0, 0) /\ 0 \in Nat
    BY <1>7, <2>1, <2>3
  <2>5. QED
    BY ONLY <2>4, Zenon
<1>8. CASE SpokenNow' = SpokenNow /\ Inbox' = Inbox
  BY <1>8 DEF OrderInv, SameOrder, OneOrder, InTurn, WasSaid
<1>9. ASSUME NEW u \in Users, Abstract!Lose(u) PROVE OrderInv'
  <2>1. G = H
    BY <1>2, <1>9, Zenon DEF Abstract!Lose
  <2>2. Q[u] >= P[u] /\ Q = [P EXCEPT ![u] = Q[u]]
    BY <1>2, <1>9, Zenon DEF Abstract!Lose, SpokenNow, SpokenOf, Waiting
  <2>3. DOMAIN P = Users
    BY <1>2 DEF SpokenNow
  <2>4. NotLess(P, Q)
    <3>1. \A w \in Users : w # u => Q[w] = P[w]
      BY <2>2, <2>3
    <3>2. QED
      BY <1>3, <2>2, <3>1 DEF NotLess
  <2>5. Missed(H, G)
    BY <1>7, <2>1 DEF Missed
  <2>6. QED
    BY <1>6, <2>4, <2>5
<1>10. ASSUME NEW d \in Users, Abstract!Misses(d) PROVE OrderInv'
  <2>1. Q = P
    BY <1>2, <1>10, Zenon DEF Abstract!Misses, SpokenNow, SpokenOf, Waiting
  <2>2. NotLess(P, Q)
    BY <1>3, <2>1 DEF NotLess
  <2>3. \/ G = H
        \/ \E i \in 0 .. Len(H[d]) : \E j \in i .. Len(H[d]) :
             G = [H EXCEPT ![d] = SubSeq(@, 1, i) \o SubSeq(@, j + 1, Len(@))]
    BY <1>2, <1>10, Zenon DEF Abstract!Misses
  <2>4. CASE G = H
    <3>1. Missed(H, G)
      BY <1>7, <2>4 DEF Missed
    <3>2. QED
      BY <1>6, <2>2, <3>1
  <2>5. ASSUME NEW i \in 0 .. Len(H[d]), NEW j \in i .. Len(H[d]),
               G = [H EXCEPT ![d] = SubSeq(@, 1, i) \o SubSeq(@, j + 1, Len(@))]
        PROVE  OrderInv'
    <3>1. DOMAIN H = Users
      BY <1>2, InboxHeard
    <3>2. PICK t : t = SubSeq(H[d], 1, i) \o SubSeq(H[d], j + 1, Len(H[d]))
      OBVIOUS
    <3>3. G = [H EXCEPT ![d] = t]
      BY <2>5, <3>2, Zenon
    <3>4. G[d] = t /\ \A e \in Users : e # d => G[e] = H[e]
      BY <3>1, <3>3
    <3>5. Cut(t, H[d])
      BY <3>2, Zenon DEF Cut
    <3>6. \E a, m \in Nat : LeftOf(G[d], H[d], a, m)
      BY <1>3, <3>4, <3>5, CutLeaves
    <3>7. Missed(H, G)
      BY <1>7, <3>4, <3>6 DEF Missed
    <3>8. QED
      BY <1>6, <2>2, <3>7
  <2>6. QED
    BY <2>3, <2>4, <2>5, Zenon
<1>11. ASSUME NEW u \in Users, NEW audience \in SUBSET Users, Abstract!Deliver(u, audience)
       PROVE  OrderInv'
  <2>1. Q[u] > P[u] /\ Q = [P EXCEPT ![u] = Q[u]]
    BY <1>2, <1>11, Zenon DEF Abstract!Deliver, SpokenNow, SpokenOf, Waiting
  <2>2. DOMAIN P = Users
    BY <1>2 DEF SpokenNow
  <2>3. Speaks(u, P, Q)
    BY <2>1, <2>2 DEF Speaks
  <2>4. PICK x : x = SaidAs(u, P[u] + 1)
    OBVIOUS
  <2>5. G = [d \in Users |-> IF d \in audience THEN Append(H[d], <<u, P[u] + 1>>) ELSE H[d]]
    BY <1>2, <1>11, Zenon DEF Abstract!Deliver, SpokenNow, SpokenOf, Waiting
  <2>6. x = <<u, P[u] + 1>>
    BY <2>4 DEF SaidAs
  <2>7. Hear(H, G, audience, x)
    BY ONLY <2>5, <2>6, Zenon DEF Hear, Extends
  <2>8. x \in T
    BY <1>1, <1>3, <2>4
  <2>9. NextOf(u, P, x)
    BY <1>3, <2>4 DEF NextOf
  <2>10. /\ WasSaid(G, Q)
         /\ \A d \in Users : \A k \in DOMAIN H[d] : H[d][k] # x
    BY ONLY u \in Users, <1>3, <1>4, <2>3, <2>7, <2>8, <2>9, SaidKept, Zenon
  <2>11. OneOrder(G)
    BY <1>3, <1>4, <2>7, <2>8, <2>10, OrderKept
  <2>12. InTurn(G)
    BY ONLY u \in Users, <1>3, <1>4, <2>7, <2>8, <2>9, TurnKept, Zenon
  <2>13. QED
    BY <1>5, <2>10, <2>11, <2>12
<1>12. QED
  BY <1>8, <1>9, <1>10, <1>11, RoomSpeaks

\* What the room is for: whatever two clients have both been given of the
\* broadcasts they have been given in the same order, each speaker's in the
\* order of speaking, nothing twice, and nothing that was not said.  It holds
\* for every setting, with shared handles, refused clients that speak, PDUs read
\* together, exits, kills and the death of the server, because checkFlag sends a
\* broadcast to every socket before the next PDU is read.
THEOREM SameOrderCorrect ==
  Spec => [](SameOrder /\ InTurn(Inbox) /\ WasSaid(Inbox, SpokenNow))
<1> DEFINE Inv == RecordsInv /\ TalkInv /\ TextsInv /\ AskingInv /\ RoomInv
<1>1. Init => Inv /\ OrderInv
  BY RecordsInit, TalkInit, RoomInit, OrderInit
<1>2. Inv /\ [Next]_vars => Inv'
  BY RecordsStep, TalkStep, TextsStep, AskingStep, RoomStep
<1>3. Inv /\ OrderInv /\ [Next]_vars => OrderInv'
  <2>1. RecordsInv' => SpokenInv'
    BY SpokenTyped, PTL
  <2>2. QED
    BY <1>2, <2>1, RoomStep, OrderStep
<1>4. OrderInv => SameOrder /\ InTurn(Inbox) /\ WasSaid(Inbox, SpokenNow)
  BY DEF OrderInv
<1>5. QED
  BY <1>1, <1>2, <1>3, <1>4, PTL DEF Spec

-----------------------------------------------------------------------------
(* What the texts with addressees name. *)

\* What is sent of a handle that a text is meant for.
SentName(flag, h) == IF flag = 5 THEN UnicastName(h) ELSE h

\* Each addressee is somebody the text is meant for, and the other way round.
NamesAll(pdu) ==
  pdu.flag \in {5, 6} =>
    /\ \A j \in DOMAIN pdu.dest : \E h \in pdu.text[1].for :
         h \in Names /\ pdu.dest[j] = SentName(pdu.flag, h)
    /\ \A h \in pdu.text[1].for :
         h \in Names /\ \E j \in DOMAIN pdu.dest : pdu.dest[j] = SentName(pdu.flag, h)

AddressedInv ==
  \A u \in Users : \A k \in DOMAIN toServer[u] : NamesAll(toServer[u][k])

LEMMA LineNamesAll ==
  ASSUME NEW u \in Users, NEW command \in Commands, NEW pdu \in LinePdus(u, command)
  PROVE  NamesAll(pdu)
<1> HIDE DEF UnicastName
<1>1. \A n, for : <<Line(u, n, for)>>[1].for = for
  BY DEF Line
<1>2. CASE command = "%m"
  <2>1. LinePdus(u, command) =
          {Pdu(5, Handle[u], <<UnicastName(h)>>, <<Line(u, 0, {h})>>) : h \in Names}
    BY <1>2 DEF LinePdus
  <2>2. PICK h \in Names : pdu = Pdu(5, Handle[u], <<UnicastName(h)>>, <<Line(u, 0, {h})>>)
    BY <2>1
  <2>3. pdu.flag = 5 /\ pdu.text = <<Line(u, 0, {h})>> /\ pdu.dest = <<UnicastName(h)>>
    BY <2>2 DEF Pdu
  <2>4. pdu.text[1].for = {h}
    BY <1>1, <2>3
  <2>5. /\ DOMAIN pdu.dest = {1} /\ pdu.dest[1] = SentName(5, h) /\ pdu.flag = 5
    BY <2>3 DEF SentName
  <2>6. QED
    BY ONLY <2>4, <2>5, h \in Names DEF NamesAll
<1>3. CASE command = "%c"
  <2> DEFINE F(g, h) == Pdu(6, Handle[u], <<g, h>>, <<Line(u, 0, {g, h})>>)
  <2>1. LinePdus(u, command) = {F(g, h) : g \in Names, h \in Names}
    BY <1>3 DEF LinePdus
  <2> HIDE DEF F
  <2>2. PICK g \in Names, h \in Names : pdu = F(g, h)
    BY <2>1
  <2>3. pdu.flag = 6 /\ pdu.text = <<Line(u, 0, {g, h})>> /\ pdu.dest = <<g, h>>
    BY <2>2 DEF F, Pdu
  <2>4. pdu.text[1].for = {g, h}
    BY <1>1, <2>3
  <2>5. /\ DOMAIN pdu.dest = {1, 2} /\ pdu.dest[1] = g /\ pdu.dest[2] = h
        /\ pdu.flag = 6
    BY <2>3
  <2>6. g = SentName(6, g) /\ h = SentName(6, h)
    BY DEF SentName
  <2>7. QED
    BY ONLY <2>4, <2>5, <2>6, g \in Names, h \in Names DEF NamesAll
<1>4. CASE command \notin {"%m", "%c"}
  <2>1. pdu.flag \notin {5, 6}
    BY <1>4 DEF LinePdus, Signal, PlainText, Tab, Pdu
  <2>2. QED
    BY <2>1 DEF NamesAll
<1>5. QED
  BY <1>2, <1>3, <1>4

\* The handle is asked for, once, in an empty connection.
Greets(v) ==
  /\ toServer[v] = <<>> /\ Len(toServer'[v]) = 1
  /\ \A k \in DOMAIN toServer'[v] : toServer'[v][k].flag = 1

\* A line is added to those sent.
Types(v) ==
  /\ Len(toServer'[v]) = Len(toServer[v]) + 1
  /\ \A k \in DOMAIN toServer'[v] :
       \/ k \in DOMAIN toServer[v] /\ toServer'[v][k] = toServer[v][k]
       \/ NamesAll(toServer'[v][k])

\* How a connection to the server changes: only the server takes from it, when
\* it reads.
LEMMA ToServerSteps ==
  ASSUME RecordsInv, RoomInv, [Next]_vars, NEW v \in Users
  PROVE  \/ toServer'[v] = toServer[v] \/ Greets(v) \/ Types(v)
         \/ up /\ Polled(v) /\ RecvData(v)
<1>1. PICK q : q = toServer[v]
  OBVIOUS
<1>2. q \in Seq(PduRecords) /\ Len(q) \in Nat /\ toServer \in [Users -> Seq(PduRecords)]
  BY <1>1 DEF RecordsInv, TypeInv
<1>3. CASE ServerStep
  <2>1. PICK ready : ready = pollCall(poll, Readable, {})
    OBVIOUS
  <2>2. \/ toServer' = toServer
        \/ \E u \in Users : socket[u] = ready /\ ready # 0 /\ RecvData(u) /\ up
    BY <1>3, <2>1 DEF ServerStep, addNewSocket, AcceptFails, RecvClosed, RecvFails, netVars
  <2>3. ASSUME NEW u \in Users, socket[u] = ready, ready # 0, RecvData(u), up
        PROVE  toServer'[v] = toServer[v] \/ (up /\ Polled(v) /\ RecvData(v))
    <3>1. PollOK(poll) /\ ready # Timeout
      BY <2>3 DEF RecordsInv, PollInv, TypeInv, Timeout
    <3>2. Polled(u)
      BY <2>1, <2>3, <3>1, ReadySocket DEF Polled
    <3>3. u # v => toServer'[v] = toServer[v]
      BY <1>2, <2>3 DEF RecvData
    <3>4. QED
      BY <2>3, <3>2, <3>3
  <2>4. QED
    BY <2>2, <2>3
<1>4. ASSUME NEW u \in Users, Connect(u) PROVE toServer'[v] = toServer[v] \/ Greets(v)
  <2>1. PICK hello : hello = Pdu(1, Handle[u], <<>>, <<>>)
    OBVIOUS
  <2>2. toServer' = [toServer EXCEPT ![u] = <<hello>>] /\ state[u] = "off"
    BY <1>4, <2>1 DEF Connect
  <2>3. hello.flag = 1
    BY <2>1 DEF Pdu
  <2>4. CASE u = v
    <3>1. toServer[v] = <<>>
      BY <2>2, <2>4 DEF RoomInv
    <3>2. toServer'[v] = <<hello>>
      BY <1>2, <2>2, <2>4
    <3>3. Len(toServer'[v]) = 1 /\ \A k \in DOMAIN toServer'[v] : toServer'[v][k] = hello
      BY <3>2
    <3>4. QED
      BY <2>3, <3>1, <3>3 DEF Greets
  <2>5. CASE u # v
    BY <1>2, <2>2, <2>5
  <2>6. QED
    BY <2>4, <2>5
<1>5. ASSUME NEW u \in Users, NEW command \in Commands, sendToServer(u, command)
      PROVE  toServer'[v] = toServer[v] \/ Types(v)
  <2>1. PICK pdu \in LinePdus(u, command) :
          toServer' = [toServer EXCEPT ![u] = Append(@, pdu)]
    BY <1>5 DEF sendToServer
  <2>2. CASE u = v
    <3>1. PICK qx : qx = Append(q, pdu) /\ toServer'[v] = qx
      BY <1>1, <1>2, <2>1, <2>2
    <3>2. /\ Len(qx) = Len(q) + 1
          /\ \A k \in DOMAIN qx : qx[k] = pdu \/ (k \in DOMAIN q /\ qx[k] = q[k])
      BY ONLY <1>2, <3>1
    <3>3. NamesAll(pdu)
      BY LineNamesAll
    <3>4. QED
      BY ONLY <1>1, <3>1, <3>2, <3>3 DEF Types
  <2>3. CASE u # v
    BY <1>2, <2>1, <2>3
  <2>4. QED
    BY <2>2, <2>3
<1>6. ASSUME NEW u \in Users,
             \/ ConnectFails(u) \/ SendEndsClient(u) \/ processMsgFromServer(u)
             \/ ServerIsGone(u) \/ ClientKilled(u)
      PROVE  toServer'[v] = toServer[v]
  BY <1>6 DEF ConnectFails, SendEndsClient, processMsgFromServer, ServerIsGone,
              ClientKilled, netVars
<1>7. CASE UNCHANGED vars
  BY <1>7 DEF vars, netVars
<1>8. QED
  BY <1>3, <1>4, <1>5, <1>6, <1>7 DEF Next, TypeLine, ClientStep

LEMMA AddressedStep ==
  ASSUME RecordsInv, TalkInv, RoomInv, AddressedInv, [Next]_vars
  PROVE  AddressedInv'
<1> SUFFICES ASSUME NEW v \in Users, NEW k \in DOMAIN toServer'[v]
             PROVE  NamesAll(toServer'[v][k])
  BY DEF AddressedInv, NamesAll
<1>1. \A l \in DOMAIN toServer[v] : NamesAll(toServer[v][l])
  BY DEF AddressedInv
<1>2. CASE toServer'[v] = toServer[v]
  BY <1>1, <1>2
<1>3. CASE Greets(v)
  <2>1. toServer'[v][k].flag = 1
    BY <1>3 DEF Greets
  <2>2. QED
    BY <2>1 DEF NamesAll
<1>4. CASE Types(v)
  BY <1>1, <1>4 DEF Types
<1>5. ASSUME RecvData(v) PROVE NamesAll(toServer'[v][k])
  <2>1. PICK l \in recvPDU(toServer[v]) : toServer' = [toServer EXCEPT ![v] = Rest(@, l)]
    BY <1>5 DEF RecvData
  <2>2. toServer[v] # <<>> /\ toServer[v] \in Seq(PduRecords)
    BY <1>5 DEF RecvData, RecordsInv, TypeInv
  <2>3. l \in 1 .. Len(toServer[v])
    BY <2>2, MergedHead
  <2>4. \A i \in DOMAIN Rest(toServer[v], l) :
          i + l \in DOMAIN toServer[v] /\ Rest(toServer[v], l)[i] = toServer[v][i + l]
    BY <2>2, <2>3, RestOfQueue
  <2>5. toServer'[v] = Rest(toServer[v], l)
    BY <2>1 DEF RecordsInv, TypeInv
  <2>6. QED
    BY <1>1, <2>4, <2>5
<1>6. QED
  BY <1>2, <1>3, <1>4, <1>5, ToServerSteps

-----------------------------------------------------------------------------
(* The lookup of a name that is sent whole. *)

\* No array of the table holds more than the longest handle.
TailInv ==
  \A n \in Nat : (\A h \in Names : Len(h) <= n) => \A i \in Entries : Len(table[i].handle) <= n

LEMMA TableSteps ==
  ASSUME RecordsInv, [Next]_vars
  PROVE  \/ table' = table
         \/ \E u \in Users : \/ table' = addHandle(table, Handle[u], socket[u])
                             \/ table' = release(table, socket[u])
<1>1. ASSUME NEW u \in Users, RecvData(u)
      PROVE  table' = table \/ table' = addHandle(table, Handle[u], socket[u])
  <2>1. PICK k \in recvPDU(toServer[u]) : \E pdu \in {Merged(SubSeq(toServer[u], 1, k))} :
          Dies \/ table' = TableAfter(socket[u], pdu)
    BY <1>1 DEF RecvData
  <2> DEFINE pdu == Merged(SubSeq(toServer[u], 1, k))
  <2>2. toServer[u] # <<>> /\ toServer[u] \in Seq(PduRecords) /\ 1 \in DOMAIN toServer[u]
    BY <1>1 DEF RecvData, RecordsInv, TypeInv
  <2>3. pdu.flag = toServer[u][1].flag /\ pdu.from = toServer[u][1].from
    BY <2>1, <2>2, MergedHead
  <2>4. pdu.flag = 1 => pdu.from = Handle[u]
    BY <2>2, <2>3 DEF RecordsInv, HelloInv
  <2>5. QED
    BY <2>1, <2>4 DEF Dies, TableAfter
<1>2. CASE ServerStep
  <2>1. PICK ready : ready = pollCall(poll, Readable, {})
    OBVIOUS
  <2>2. \/ table' = table
        \/ \E u \in Users : RecvData(u) \/ table' = release(table, socket[u])
    BY <1>2, <2>1 DEF ServerStep, addNewSocket, AcceptFails, RecvClosed, RecvFails, Dies
  <2>3. QED
    BY <1>1, <2>2
<1>3. ASSUME NEW u \in Users,
             \/ Connect(u) \/ ConnectFails(u)
             \/ TypeLine(u) \/ ClientStep(u) \/ ClientKilled(u)
      PROVE  table' = table
  BY <1>3 DEF Connect, ConnectFails, TypeLine, sendToServer, SendEndsClient, ClientStep,
         processMsgFromServer, ServerIsGone, ClientKilled, serverVars
<1>4. CASE UNCHANGED vars
  BY <1>4 DEF vars, serverVars
<1>5. QED
  BY <1>2, <1>3, <1>4 DEF Next

LEMMA OverlayLength ==
  ASSUME NEW new \in Seq(Chars), NEW older \in Seq(Chars), NEW n \in Nat,
         Len(new) <= n, Len(older) <= n
  PROVE  Len(Overlay(new, older)) <= n
<1>1. PICK tail : tail = SubSeq(older, Len(new) + 1, Len(older))
  OBVIOUS
<1>2. /\ tail \in Seq(Chars)
      /\ Len(tail) = IF Len(new) < Len(older) THEN Len(older) - Len(new) ELSE 0
  <2>1. Len(new) \in Nat /\ Len(older) \in Nat
    OBVIOUS
  <2>2. QED
    BY ONLY older \in Seq(Chars), <1>1, <2>1, SuffixElements
<1>3. PICK w : w = new \o tail
  OBVIOUS
<1>4. Len(w) = Len(new) + Len(tail)
  <2>1. new \in Seq(Chars) /\ tail \in Seq(Chars)
    BY <1>2
  <2>2. QED
    BY ONLY <1>3, <2>1, Concatenation, Zenon
<1>5. Overlay(new, older) = w
  BY <1>1, <1>3 DEF Overlay
<1>6. QED
  BY ONLY <1>2, <1>4, <1>5, new \in Seq(Chars), older \in Seq(Chars), n \in Nat,
          Len(new) <= n, Len(older) <= n

LEMMA TailStep ==
  ASSUME RecordsInv, TailInv, [Next]_vars
  PROVE  TailInv'
<1> SUFFICES ASSUME NEW n \in Nat, \A h \in Names : Len(h) <= n, NEW i \in Entries
             PROVE  Len(table'[i].handle) <= n
  BY DEF TailInv
<1>1. Len(table[i].handle) <= n /\ table[i].handle \in Seq(Chars)
  <2>1. table[i] \in EntryRecords
    BY DEF RecordsInv, TypeInv
  <2>2. QED
    BY <2>1 DEF TailInv, EntryRecords
<1>2. ASSUME NEW u \in Users, table' = addHandle(table, Handle[u], socket[u])
      PROVE  Len(table'[i].handle) <= n
  <2>1. CASE table' = table
    BY <1>1, <2>1
  <2>2. CASE table' # table
    <3>1. PICK f, e : /\ table' = [table EXCEPT ![f] = e] /\ f = FreeEntry(table)
                      /\ e = [isUsed |-> TRUE, handle |-> Overlay(Handle[u], table[f].handle),
                              handlelength |-> Len(Handle[u]), socketNumber |-> socket[u]]
      BY <1>2, <2>2 DEF addHandle
    <3>2. table \in [Entries -> EntryRecords]
      BY DEF RecordsInv, TypeInv
    <3>3. CASE i = f
      <4>1. table'[i] = e
        BY <3>1, <3>2, <3>3
      <4>2. e.handle = Overlay(Handle[u], table[i].handle)
        BY <3>1, <3>3
      <4>3. Handle[u] \in Seq(Chars) /\ Len(Handle[u]) <= n
        BY HandleType DEF Names
      <4>4. Len(Overlay(Handle[u], table[i].handle)) <= n
        BY <1>1, <4>3, OverlayLength
      <4>5. QED
        BY <4>1, <4>2, <4>4
    <3>4. CASE i # f
      <4>1. table'[i] = table[i]
        BY <3>1, <3>2, <3>4
      <4>2. QED
        BY <1>1, <4>1
    <3>5. QED
      BY <3>3, <3>4
  <2>3. QED
    BY <2>1, <2>2
<1>3. ASSUME NEW u \in Users, table' = release(table, socket[u])
      PROVE  Len(table'[i].handle) <= n
  <2>1. table \in [Entries -> EntryRecords]
    BY DEF RecordsInv, TypeInv
  <2>2. table'[i].handle = table[i].handle
    BY <1>3, <2>1, Released
  <2>3. QED
    BY <1>1, <2>2
<1>4. QED
  BY <1>1, <1>2, <1>3, TableSteps

\* Of a handle that fills what %m sends of it nothing but a zero byte is added.
LEMMA UnicastIsHandle ==
  ASSUME NEW u \in Users, Len(Handle[u]) = UniLen \/ Len(Handle[u]) = UniLen - 1
  PROVE  /\ DOMAIN UnicastName(Handle[u]) = 1 .. UniLen
         /\ \A k \in DOMAIN UnicastName(Handle[u]) :
              \/ k \in DOMAIN Handle[u] /\ UnicastName(Handle[u])[k] = Handle[u][k]
              \/ k \notin DOMAIN Handle[u] /\ UnicastName(Handle[u])[k] = NUL
<1>1. PICK h, n : h = Handle[u] /\ n = Len(h)
  OBVIOUS
<1>2. /\ h \in Seq(Chars) /\ n \in Nat /\ UniLen \in Nat /\ DOMAIN h = 1 .. n
      /\ n = UniLen \/ n = UniLen - 1
  BY <1>1, HandleType
<1>3. PICK text : text = [i \in 1 .. UniLen |-> "text"]
  OBVIOUS
<1>4. text \in Seq(Chars) /\ Len(text) = UniLen
  <2>1. text \in [1 .. UniLen -> Chars]
    BY ONLY <1>3 DEF Chars
  <2>2. QED
    BY ONLY <1>2, <2>1, FunctionIsSeq
<1>5. PICK z : z = <<NUL>>
  OBVIOUS
<1>6. z \in Seq(Chars) /\ Len(z) = 1 /\ z[1] = NUL
  BY ONLY <1>5 DEF Chars
<1>7. PICK hz : hz = h \o z
  OBVIOUS
<1>8. /\ hz \in Seq(Chars) /\ Len(hz) = n + 1 /\ hz[n + 1] = NUL
      /\ \A k \in 1 .. n : hz[k] = h[k]
  <2>1. h \in Seq(Chars) /\ z \in Seq(Chars)
    BY <1>2, <1>6
  <2>2. /\ hz \in Seq(Chars) /\ Len(hz) = Len(h) + Len(z)
        /\ \A k \in 1 .. Len(h) : hz[k] = h[k]
    BY ONLY <2>1, <1>7, Concatenation, Zenon
  <2>3. \A k \in 1 .. Len(z) : hz[Len(h) + k] = z[k]
    BY ONLY <2>1, <1>7, Concatenation
  <2>4. Len(h) = n
    BY <1>1
  <2>5. QED
    BY ONLY <1>2, <1>6, <2>2, <2>3, <2>4
<1>9. PICK w : w = hz \o text
  OBVIOUS
<1>10. /\ w \in Seq(Chars) /\ Len(w) = n + 1 + UniLen
       /\ \A k \in 1 .. n + 1 : w[k] = hz[k]
  <2>1. hz \in Seq(Chars) /\ text \in Seq(Chars)
    BY <1>4, <1>8
  <2>2. /\ w \in Seq(Chars) /\ Len(w) = Len(hz) + Len(text)
        /\ \A k \in 1 .. Len(hz) : w[k] = hz[k]
    BY ONLY <2>1, <1>9, Concatenation, Zenon
  <2>3. QED
    BY ONLY <1>2, <1>4, <1>8, <2>2
<1>11. PICK name : name = SubSeq(w, 1, UniLen)
  OBVIOUS
<1>12. UnicastName(h) = name
  BY <1>3, <1>5, <1>7, <1>9, <1>11 DEF UnicastName
<1>13. DOMAIN name = 1 .. UniLen /\ \A k \in 1 .. UniLen : name[k] = w[k]
  BY ONLY <1>2, <1>10, <1>11
<1>14. ASSUME NEW k \in DOMAIN name
       PROVE  \/ k \in DOMAIN h /\ name[k] = h[k]
              \/ k \notin DOMAIN h /\ name[k] = NUL
  <2>1. k \in 1 .. n \/ k = n + 1
    BY ONLY <1>2, <1>13, k \in DOMAIN name
  <2>2. name[k] = hz[k]
    BY ONLY <1>2, <1>10, <1>13, <2>1, k \in DOMAIN name
  <2>3. QED
    BY ONLY <1>2, <1>8, <2>1, <2>2
<1>15. QED
  BY ONLY <1>1, <1>12, <1>13, <1>14, Zenon

\* h is sent as it is, or UniLen bytes that hold it and no more than one zero
\* byte, which is what the table has behind it.
Whole(flag, h) ==
  \/ flag = 6
  \/ Len(h) = UniLen
  \/ Len(h) = UniLen - 1 /\ \A g \in Names : Len(g) <= Len(h)

\* A handle in use is found then.
LEMMA FoundIfInUse ==
  ASSUME RecordsInv, TailInv, NEW flag \in {5, 6}, NEW h \in Names, Whole(flag, h),
         InUse(table, h)
  PROVE  getSocketNumber(table, SentName(flag, h)) # NotFound
<1>1. PICK i \in Entries : table[i].isUsed /\ Name(table[i]) = h
  BY DEF InUse
<1>2. PICK e, name : e = table[i] /\ name = SentName(flag, h)
  OBVIOUS
<1>3. PICK u \in Users : h = Handle[u]
  BY DEF Names
<1>4. h \in Seq(Chars) /\ Len(h) \in Nat /\ DOMAIN h = 1 .. Len(h) /\ UniLen \in Nat
  BY <1>3, HandleType
<1>5. /\ e.handle \in Seq(Chars) /\ Len(h) <= Len(e.handle)
      /\ \A k \in 1 .. Len(h) : h[k] = e.handle[k]
  <2>1. e \in EntryRecords
    BY <1>2 DEF RecordsInv, TypeInv
  <2>2. e.handlelength \in Nat /\ e.handle \in Seq(Chars)
    BY <2>1 DEF EntryRecords
  <2>3. e.handlelength <= Len(e.handle)
    BY <1>1, <1>2 DEF RecordsInv, OwnerInv
  <2>4. h = SubSeq(e.handle, 1, e.handlelength)
    BY <1>1, <1>2 DEF Name
  <2>5. QED
    BY ONLY <2>2, <2>3, <2>4
<1>6. DOMAIN e.handle = 1 .. Len(e.handle) /\ Len(e.handle) \in Nat
  BY <1>5
<1>7. Matches(e, name)
  <2>1. CASE flag = 6
    <3>1. name = h
      BY <1>2, <2>1 DEF SentName
    <3>2. QED
      BY <1>4, <1>5, <1>6, <3>1 DEF Matches
  <2>2. CASE flag = 5
    <3>1. name = UnicastName(h) /\ (Len(h) = UniLen \/ Len(h) = UniLen - 1)
      BY <1>2, <2>2 DEF SentName, Whole
    <3>2. /\ DOMAIN name = 1 .. UniLen
          /\ \A k \in DOMAIN name : \/ k \in DOMAIN h /\ name[k] = h[k]
                                    \/ k \notin DOMAIN h /\ name[k] = NUL
      BY <1>3, <3>1, UnicastIsHandle
    <3>3. Len(h) = UniLen \/ Len(e.handle) = Len(h)
      <4>1. CASE Len(h) = UniLen - 1 /\ \A g \in Names : Len(g) <= Len(h)
        <5>1. Len(h) \in Nat /\ \A g \in Names : Len(g) <= Len(h)
          BY ONLY <1>4, <4>1
        <5>2. Len(table[i].handle) <= Len(h)
          BY ONLY TailInv, <5>1, i \in Entries, Zenon DEF TailInv
        <5>3. /\ e = table[i] /\ Len(h) <= Len(e.handle)
              /\ Len(e.handle) \in Nat /\ Len(h) \in Nat
          BY ONLY <1>2, <1>4, <1>5, <1>6, Zenon
        <5>4. QED
          BY ONLY <5>2, <5>3
      <4>2. QED
        BY <2>2, <4>1 DEF Whole
    <3>4. \A k \in DOMAIN name : name[k] = IF k \in DOMAIN e.handle THEN e.handle[k] ELSE NUL
      <4>1. ASSUME NEW k \in DOMAIN name, k \in DOMAIN h
            PROVE  name[k] = h[k] /\ k \in DOMAIN e.handle /\ h[k] = e.handle[k]
        BY <1>4, <1>5, <1>6, <3>2, <4>1
      <4>2. ASSUME NEW k \in DOMAIN name, k \notin DOMAIN h
            PROVE  name[k] = NUL /\ k \notin DOMAIN e.handle
        BY <1>4, <1>6, <3>2, <3>3, <4>2
      <4>3. QED
        BY <4>1, <4>2
    <3>5. QED
      BY <3>4 DEF Matches
  <2>3. QED
    BY <2>1, <2>2
<1>8. PICK j \in Entries : getSocketNumber(table, name) = table[j].socketNumber
  BY <1>2, <1>7, LookupFirst
<1>9. table[j].socketNumber \in Nat
  <2>1. table[j] \in EntryRecords
    BY DEF RecordsInv, TypeInv
  <2>2. QED
    BY <2>1 DEF EntryRecords
<1>10. QED
  BY <1>2, <1>8, <1>9 DEF NotFound

\* A handle that the table has never held is not.
LEMMA UnknownNotFound ==
  ASSUME RecordsInv, NoHandleBeginsAnother, NEW flag \in {5, 6}, NEW h \in Names,
         Whole(flag, h), Unknown(h)
  PROVE  getSocketNumber(table, SentName(flag, h)) = NotFound
<1>1. PICK name : name = SentName(flag, h)
  OBVIOUS
<1>2. PICK u \in Users : h = Handle[u]
  BY DEF Names
<1>3. ASSUME NEW i \in Entries, Matches(table[i], name) PROVE FALSE
  <2>1. Matches(table[i], Handle[u])
    <3>1. CASE flag = 6
      BY <1>1, <1>2, <1>3, <3>1 DEF SentName
    <3>2. CASE flag = 5
      <4>1. Len(Handle[u]) <= UniLen /\ name = UnicastName(Handle[u])
        BY <1>1, <1>2, <3>2, HandleType DEF SentName, Whole
      <4>2. QED
        BY <1>3, <4>1, UnicastMatch
    <3>3. QED
      BY <3>1, <3>2
  <2>2. Name(table[i]) = Handle[u]
    BY <2>1, MatchIsName
  <2>3. QED
    BY <1>2, <2>2 DEF Unknown
<1>4. QED
  BY <1>1, <1>3, LookupFirst

-----------------------------------------------------------------------------
(* The answer of a lookup in vain. *)

\* Only s is told that an addressee was not found, and only if it was not.
Tells(s, pdu, o) ==
  o.pdu.flag = 7 =>
    /\ o.socket = s /\ pdu.flag \in {5, 6}
    /\ \E j \in DOMAIN pdu.dest : getSocketNumber(table, pdu.dest[j]) = NotFound

LEMMA CheckFlagTells ==
  ASSUME RecordsInv, NEW s \in Nat, NEW pdu \in SentPdus, NEW out, out = checkFlag(s, pdu)
  PROVE  \A i \in DOMAIN out : Tells(s, pdu, out[i])
<1>1. CASE pdu.flag = 1
  <2>1. PICK flag \in {2, 3} : out = <<To(s, Signal(flag))>>
    BY <1>1 DEF checkFlag
  <2>2. To(s, Signal(flag)).pdu.flag = flag /\ To(s, Signal(flag)).socket = s
    BY DEF To, Signal, Pdu
  <2>3. QED
    BY <1>1, <2>1, <2>2 DEF Tells
<1>2. CASE pdu.flag = 4
  <2>1. PICK others : others = Others(s)
    OBVIOUS
  <2>2. out = [i \in DOMAIN others |-> To(others[i].socketNumber, pdu)]
    BY <1>2, <2>1 DEF checkFlag, Broadcast
  <2>3. \A i \in DOMAIN out : out[i].pdu.flag = 4
    BY <1>2, <2>2 DEF To
  <2>4. QED
    BY <2>3 DEF Tells
<1>3. CASE pdu.flag \in {5, 6}
  <2>1. out = [i \in DOMAIN pdu.dest |-> Forward(s, pdu, pdu.dest[i])]
    BY <1>3 DEF checkFlag
  <2>2. ASSUME NEW j \in DOMAIN pdu.dest PROVE Tells(s, pdu, Forward(s, pdu, pdu.dest[j]))
    <3>1. PICK n, p : n = getSocketNumber(table, pdu.dest[j]) /\ p = [pdu EXCEPT !.dest = <<>>]
      OBVIOUS
    <3>2. p.flag = pdu.flag
      BY <3>1 DEF SentPdus
    <3>3. CASE n # NotFound
      <4>1. PICK o : o = To(n, p)
        OBVIOUS
      <4>2. Forward(s, pdu, pdu.dest[j]) = o
        BY <3>1, <3>3, <4>1 DEF Forward
      <4>3. o.pdu.flag \in {5, 6}
        BY <1>3, <3>2, <4>1 DEF To
      <4>4. Tells(s, pdu, o)
        BY <4>3 DEF Tells
      <4>5. QED
        BY <4>2, <4>4
    <3>4. CASE n = NotFound
      <4>1. PICK o : o = To(s, Pdu(7, <<>>, <<pdu.dest[j]>>, pdu.text))
        OBVIOUS
      <4>2. Forward(s, pdu, pdu.dest[j]) = o
        BY <3>1, <3>4, <4>1 DEF Forward
      <4>3. o.socket = s /\ o.pdu.flag = 7
        BY <4>1 DEF To, Pdu
      <4>4. getSocketNumber(table, pdu.dest[j]) = NotFound
        BY <3>1, <3>4
      <4>5. Tells(s, pdu, o)
        BY ONLY <1>3, <4>3, <4>4, j \in DOMAIN pdu.dest, Zenon DEF Tells
      <4>6. QED
        BY <4>2, <4>5
    <3>5. QED
      BY <3>3, <3>4
  <2>3. \A i \in DOMAIN out : i \in DOMAIN pdu.dest /\ out[i] = Forward(s, pdu, pdu.dest[i])
    BY <2>1
  <2>4. QED
    BY <2>2, <2>3
<1>4. CASE pdu.flag = 8
  <2>1. out = <<To(s, Signal(9))>>
    BY <1>4 DEF checkFlag
  <2>2. To(s, Signal(9)).pdu.flag = 9
    BY DEF To, Signal, Pdu
  <2>3. QED
    BY <1>4, <2>1, <2>2 DEF Tells
<1>5. CASE pdu.flag = 10
  <2>1. out \in Seq(Listing(s))
    BY <1>5, ListAnswers DEF checkFlag
  <2>2. \A i \in DOMAIN out : out[i] \in Listing(s)
    BY <2>1
  <2>3. \A i \in DOMAIN out : out[i].pdu.flag \in {11, 12, 13}
    BY <2>2 DEF Listing
  <2>4. QED
    BY <2>3 DEF Tells
<1>6. CASE pdu.flag \notin {1, 4, 5, 6, 8, 10}
  <2>1. out = <<>>
    BY <1>6 DEF checkFlag
  <2>2. QED
    BY <2>1
<1>7. QED
  BY <1>1, <1>2, <1>3, <1>4, <1>5, <1>6

-----------------------------------------------------------------------------
(* Who is told of an absent addressee. *)

\* What is new in a connection that grew.
LEMMA NewAtTheEnd ==
  ASSUME NEW S, NEW a \in Seq(S), NEW new \in Seq(S), NEW b, b = a \o new
  PROVE  Range(SubSeq(b, Len(a) + 1, Len(b))) = Range(new)
<1>1. PICK m, n : m = Len(a) /\ n = Len(new)
  OBVIOUS
<1>2. /\ b \in Seq(S) /\ Len(b) = m + n /\ m \in Nat /\ n \in Nat
      /\ \A i \in 1 .. n : b[m + i] = new[i]
  BY <1>1
<1>3. PICK t : t = SubSeq(b, m + 1, Len(b))
  OBVIOUS
<1>4. /\ Len(t) = IF m < Len(b) THEN Len(b) - m ELSE 0
      /\ \A i \in DOMAIN t : i \in 1 .. (Len(b) - m) /\ t[i] = b[m + i]
  BY ONLY <1>2, <1>3, SuffixElements
<1>5. DOMAIN t = 1 .. Len(t) /\ DOMAIN new = 1 .. n
  BY <1>1, <1>2, <1>3
<1>6. Len(t) = n
  BY ONLY <1>2, <1>4
<1>7. \A i \in 1 .. n : t[i] = new[i]
  BY ONLY <1>2, <1>4, <1>5, <1>6
<1>8. Range(t) = Range(new)
  BY ONLY <1>5, <1>6, <1>7 DEF Range
<1>9. QED
  BY <1>1, <1>3, <1>8

\* Nothing is new in a connection that did not grow.
LEMMA NothingNew ==
  ASSUME NEW v \in Users, NEW S, toClient[v] \in Seq(S),
         \/ toClient'[v] = toClient[v]
         \/ \E k \in Nat \ {0} : toClient'[v] = Rest(toClient[v], k)
  PROVE  SentNow(v) = {}
<1>1. PICK a, b : a = toClient[v] /\ b = toClient'[v]
  OBVIOUS
<1>2. a \in Seq(S) /\ Len(a) \in Nat
  BY <1>1
<1>3. b \in Seq(S) /\ Len(b) <= Len(a) /\ Len(b) \in Nat
  <2>1. CASE b = a
    BY <1>2, <2>1
  <2>2. ASSUME NEW k \in Nat \ {0}, b = Rest(a, k)
        PROVE  b \in Seq(S) /\ Len(b) <= Len(a) /\ Len(b) \in Nat
    <3>1. b = SubSeq(a, k + 1, Len(a)) /\ k \in Nat
      BY <2>2 DEF Rest
    <3>2. Len(b) = IF k < Len(a) THEN Len(a) - k ELSE 0
      BY ONLY <1>2, <3>1, SuffixElements
    <3>3. b \in Seq(S)
      BY ONLY <1>2, <3>1
    <3>4. QED
      BY ONLY <1>2, <3>1, <3>2, <3>3
  <2>3. QED
    BY <1>1, <2>1, <2>2
<1>4. PICK t : t = SubSeq(b, Len(a) + 1, Len(b))
  OBVIOUS
<1>5. Len(t) = 0 /\ DOMAIN t = 1 .. Len(t)
  BY ONLY <1>2, <1>3, <1>4
<1>6. Range(t) = {}
  BY ONLY <1>5 DEF Range
<1>7. QED
  BY <1>1, <1>4, <1>6 DEF SentNow

\* Every element of a set is among those picked for it.
LEMMA PickedAll ==
  ASSUME NEW S, NEW seq \in Seq(S), NEW set, NEW k \in DOMAIN seq, seq[k] \in set
  PROVE  \E j \in DOMAIN Those(seq, set) : Those(seq, set)[j] = seq[k]
<1>1. PICK at : PickedAt(seq, set, Len(seq), Those(seq, set), at)
  BY PickedPositions
<1>2. k \in 1 .. Len(seq)
  OBVIOUS
<1>3. QED
  BY <1>1, <1>2 DEF PickedAt

\* What is sent to u for a PDU it sent is new in its connection, if it listens.
LEMMA SentArrives ==
  ASSUME TalkInv, NEW u \in Users, peer[u] = "up", NEW out \in Seq(Sends),
         SendsSucceed(out), NEW j \in DOMAIN out, out[j].socket = socket[u]
  PROVE  out[j].pdu \in SentNow(u)
<1>1. PICK set : set = {o \in Range(out) : o.socket = socket[u]}
  OBVIOUS
<1>2. PICK d : d = Those(out, set)
  OBVIOUS
<1>3. d = SentTo(out, u)
  BY <1>1, <1>2 DEF SentTo
<1>4. PICK i \in DOMAIN d : d[i] = out[j]
  <2>1. out[j] \in set
    BY <1>1 DEF Range
  <2>2. QED
    BY <1>2, <2>1, PickedAll
<1>5. PICK new : new = [k \in DOMAIN d |-> d[k].pdu]
  OBVIOUS
<1>6. toClient'[u] = toClient[u] \o new
  BY <1>3, <1>5 DEF SendsSucceed
<1>7. d \in Seq(Sends)
  <2>1. d \in Seq(Sends \cap set)
    BY <1>2, ThoseAre
  <2>2. Sends \cap set \subseteq Sends
    OBVIOUS
  <2>3. QED
    BY ONLY <2>1, <2>2, SeqMonotonic
<1>8. new \in Seq(SentPdus) /\ i \in DOMAIN new /\ new[i] = out[j].pdu
  <2>1. \A l \in 1 .. Len(d) : d[l].pdu \in SentPdus
    <3>1. \A l \in 1 .. Len(d) : d[l] \in Sends
      BY ONLY <1>7
    <3>2. \A o \in Sends : o.pdu \in SentPdus
      BY DEF Sends
    <3>3. QED
      BY <3>1, <3>2
  <2>2. DOMAIN d = 1 .. Len(d) /\ Len(d) \in Nat
    BY <1>7
  <2>3. new \in [1 .. Len(d) -> SentPdus]
    BY <1>5, <2>1, <2>2
  <2>4. new \in Seq(SentPdus)
    BY <2>2, <2>3, FunctionIsSeq
  <2>5. i \in DOMAIN new /\ new[i] = out[j].pdu
    BY <1>4, <1>5
  <2>6. QED
    BY <2>4, <2>5
<1>9. PICK a, b : a = toClient[u] /\ b = toClient'[u]
  OBVIOUS
<1>10. a \in Seq(SentPdus) /\ b = a \o new /\ new \in Seq(SentPdus)
  BY <1>6, <1>8, <1>9 DEF TalkInv
<1>11. Range(SubSeq(b, Len(a) + 1, Len(b))) = Range(new)
  BY ONLY <1>10, NewAtTheEnd
<1>12. new[i] \in Range(new)
  BY <1>8 DEF Range
<1>13. QED
  BY <1>8, <1>9, <1>11, <1>12 DEF SentNow

\* The other way round, what is new in a connection was sent to its socket.
LEMMA SentNowIsSent ==
  ASSUME TalkInv, NEW v \in Users, NEW sent \in Seq(Sends), SendsSucceed(sent),
         NEW p \in SentNow(v)
  PROVE  \E j \in DOMAIN sent : sent[j].socket = socket[v] /\ p = sent[j].pdu
<1>1. PICK new \in Seq(SentPdus) :
        /\ toClient'[v] = toClient[v] \o new
        /\ \A i \in DOMAIN new : \E j \in DOMAIN sent :
             sent[j].socket = socket[v] /\ new[i] = sent[j].pdu
  BY Delivered
<1>2. PICK a, b : a = toClient[v] /\ b = toClient'[v]
  OBVIOUS
<1>3. a \in Seq(SentPdus) /\ b = a \o new /\ new \in Seq(SentPdus)
  BY <1>1, <1>2 DEF TalkInv
<1>4. Range(SubSeq(b, Len(a) + 1, Len(b))) = Range(new)
  BY ONLY <1>3, NewAtTheEnd
<1>5. p \in Range(new)
  BY <1>2, <1>4 DEF SentNow
<1>6. PICK i \in DOMAIN new : p = new[i]
  BY <1>5 DEF Range
<1>7. QED
  BY <1>1, <1>6

\* The text read from u and those it is meant for.
LEMMA ReadsText ==
  ASSUME RecordsInv, AddressedInv, NEW u \in Users, toServer[u] # <<>>,
         NEW k, NEW x, NEW out, NEW sent, ReadsAs(u, k, x, out, sent), x.flag \in {5, 6}
  PROVE  /\ Head(toServer[u]).flag = x.flag
         /\ \A j \in DOMAIN x.dest : \E h \in Addressees(u) :
              h \in Names /\ x.dest[j] = SentName(x.flag, h)
         /\ \A h \in Addressees(u) :
              h \in Names /\ \E j \in DOMAIN x.dest : x.dest[j] = SentName(x.flag, h)
<1>1. PICK q, y : q = toServer[u] /\ y = q[1]
  OBVIOUS
<1>2. q \in Seq(PduRecords) /\ q # <<>>
  BY <1>1 DEF RecordsInv, TypeInv
<1>3. y = Head(q) /\ 1 \in DOMAIN q
  BY ONLY <1>1, <1>2
<1>4. NamesAll(y)
  BY <1>1, <1>3 DEF AddressedInv
<1>5. y.flag = x.flag /\ y.dest = x.dest
  BY <1>1, Zenon DEF ReadsAs
<1>6. Addressees(u) = y.text[1].for
  BY <1>1, <1>3 DEF Addressees
<1>7. y.flag \in {5, 6}
  BY <1>5
<1>8. /\ \A j \in DOMAIN y.dest : \E h \in y.text[1].for :
           h \in Names /\ y.dest[j] = SentName(y.flag, h)
      /\ \A h \in y.text[1].for :
           h \in Names /\ \E j \in DOMAIN y.dest : y.dest[j] = SentName(y.flag, h)
  BY ONLY <1>4, <1>7, Zenon DEF NamesAll
<1>9. Head(toServer[u]).flag = x.flag
  BY <1>1, <1>3, <1>5
<1>10. QED
  BY ONLY <1>5, <1>6, <1>8, <1>9

\* A text takes its place in the connection with it.
LEMMA ReadShortens ==
  ASSUME RecordsInv, NEW u \in Users, toServer[u] # <<>>,
         NEW k, NEW x, NEW out, NEW sent, ReadsAs(u, k, x, out, sent)
  PROVE  Len(toServer'[u]) < Len(toServer[u])
<1>1. PICK q : q = toServer[u]
  OBVIOUS
<1>2. q \in Seq(PduRecords) /\ q # <<>> /\ k \in recvPDU(q) /\ toServer'[u] = Rest(q, k)
  BY <1>1, Zenon DEF RecordsInv, TypeInv, ReadsAs
<1>3. k \in 1 .. Len(q) /\ Len(q) \in Nat
  BY ONLY <1>2, MergedHead
<1>4. PICK t : t = SubSeq(q, k + 1, Len(q))
  OBVIOUS
<1>5. Len(t) = IF k < Len(q) THEN Len(q) - k ELSE 0
  <2>1. k \in Nat
    BY ONLY <1>3
  <2>2. QED
    BY ONLY <1>2, <1>4, <2>1, SuffixElements
<1>6. QED
  BY ONLY <1>1, <1>2, <1>3, <1>4, <1>5 DEF Rest

\* The handles that a text names were sent whole.
LEMMA WholeNames ==
  ASSUME NEW u \in Users, NEW flag \in {5, 6}, Head(toServer[u]).flag = flag,
         SentWhole(u), NEW h \in Addressees(u)
  PROVE  Whole(flag, h)
  BY DEF SentWhole, Whole

\* Only whose text is read is told that somebody is absent, and only if it is so.
LEMMA ToldOfAbsent ==
  ASSUME RecordsInv, TalkInv, AddressedInv, TailInv, NEW u \in Users, Polled(u), RecvData(u),
         NEW v \in Users, Told(v)
  PROVE  /\ v = u /\ Addresses(v)
         /\ SentWhole(v) => \E h \in Addressees(v) : ~ InUse(table, h)
<1>1. socket[u] # 0 /\ socket[u] \in Nat /\ \A w \in Users : socket[w] = socket[u] => w = u
  BY DEF Polled, RecordsInv, TypeInv, SocketInv, Accepted
<1>2. PICK k, x, out, sent : toServer[u] # <<>> /\ ReadsAs(u, k, x, out, sent)
  BY <1>1, ReadParts
<1>3. /\ x \in SentPdus /\ out = checkFlag(socket[u], x) /\ out \in Seq(Sends)
      /\ sent \in Seq(Sends) /\ SendsSucceed(sent)
      /\ \A j \in DOMAIN sent : j \in DOMAIN out /\ sent[j] = out[j]
  BY <1>2, Zenon DEF ReadsAs
<1>4. PICK p \in SentNow(v) : p.flag = 7
  BY DEF Told
<1>5. PICK j \in DOMAIN sent : sent[j].socket = socket[v] /\ p = sent[j].pdu
  BY <1>3, <1>4, SentNowIsSent
<1>6. Tells(socket[u], x, sent[j])
  BY <1>1, <1>3, CheckFlagTells
<1>7. /\ socket[v] = socket[u] /\ x.flag \in {5, 6}
      /\ \E i \in DOMAIN x.dest : getSocketNumber(table, x.dest[i]) = NotFound
  BY <1>4, <1>5, <1>6 DEF Tells
<1>8. v = u
  BY <1>1, <1>7
<1>9. /\ Head(toServer[u]).flag = x.flag
      /\ \A i \in DOMAIN x.dest : \E h \in Addressees(u) :
           h \in Names /\ x.dest[i] = SentName(x.flag, h)
  BY <1>2, <1>7, ReadsText
<1>10. Addresses(u)
  BY <1>2, <1>7, <1>9, ReadShortens DEF Addresses
<1>11. ASSUME SentWhole(u) PROVE \E h \in Addressees(u) : ~ InUse(table, h)
  <2>1. PICK i \in DOMAIN x.dest : getSocketNumber(table, x.dest[i]) = NotFound
    BY <1>7
  <2>2. PICK h \in Addressees(u) : h \in Names /\ x.dest[i] = SentName(x.flag, h)
    BY <1>9, <2>1
  <2>3. Whole(x.flag, h)
    BY <1>7, <1>9, <1>11, WholeNames
  <2>4. QED
    BY <1>7, <2>1, <2>2, <2>3, FoundIfInUse
<1>12. QED
  BY <1>8, <1>10, <1>11

\* Whose text is read is told if one of those it names is unknown.
LEMMA UnknownIsTold ==
  ASSUME NoHandleBeginsAnother, RecordsInv, TalkInv, AddressedInv,
         NEW u \in Users, Polled(u), RecvData(u), Addresses(u), SentWhole(u),
         peer[u] = "up", up', NEW h \in Addressees(u), Unknown(h)
  PROVE  Told(u)
<1>1. socket[u] # 0 /\ socket[u] \in Nat
  BY DEF Polled, RecordsInv, TypeInv
<1>2. PICK k, x, out, sent : toServer[u] # <<>> /\ ReadsAs(u, k, x, out, sent)
  BY <1>1, ReadParts
<1>3. /\ x \in SentPdus /\ x.flag = toServer[u][1].flag /\ out = checkFlag(socket[u], x)
      /\ sent \in Seq(Sends) /\ SendsSucceed(sent) /\ sent = out
  BY <1>2, Zenon DEF ReadsAs, Dies
<1>4. x.flag = Head(toServer[u]).flag /\ x.flag \in {5, 6}
  <2>1. PICK q : q = toServer[u]
    OBVIOUS
  <2>2. q \in Seq(PduRecords) /\ q # <<>>
    BY <1>2, <2>1 DEF RecordsInv, TypeInv
  <2>3. q[1] = Head(q)
    BY ONLY <2>2
  <2>4. QED
    BY <1>3, <2>1, <2>3 DEF Addresses
<1>5. PICK j \in DOMAIN x.dest : h \in Names /\ x.dest[j] = SentName(x.flag, h)
  BY <1>2, <1>4, ReadsText
<1>6. PICK name : name = x.dest[j]
  OBVIOUS
<1>7. getSocketNumber(table, name) = NotFound
  <2>1. Whole(x.flag, h)
    BY <1>4, WholeNames
  <2>2. QED
    BY <1>4, <1>5, <1>6, <2>1, UnknownNotFound
<1>8. out = [i \in DOMAIN x.dest |-> Forward(socket[u], x, x.dest[i])]
  BY <1>3, <1>4 DEF checkFlag
<1>9. j \in DOMAIN out /\ out[j] = Forward(socket[u], x, name)
  BY <1>6, <1>8
<1>10. out[j].socket = socket[u] /\ out[j].pdu.flag = 7
  <2>1. PICK s, p : s = socket[u] /\ p = Pdu(7, <<>>, <<name>>, x.text)
    OBVIOUS
  <2>2. out[j] = To(s, p)
    BY <1>7, <1>9, <2>1 DEF Forward
  <2>3. p.flag = 7
    BY <2>1 DEF Pdu
  <2>4. QED
    BY <2>1, <2>2, <2>3 DEF To
<1>11. out[j].pdu \in SentNow(u)
  BY <1>3, <1>9, <1>10, SentArrives
<1>12. QED
  BY <1>10, <1>11 DEF Told

\* Nobody is told anything, and no text is taken from v, by any other step.
LEMMA TextIsRead ==
  ASSUME RecordsInv, TalkInv, RoomInv, [Next]_vars, NEW v \in Users
  PROVE  /\ Told(v) => \E u \in Users : up /\ Polled(u) /\ RecvData(u)
         /\ Addresses(v) => Polled(v) /\ RecvData(v)
<1>1. ASSUME Told(v) PROVE \E u \in Users : up /\ Polled(u) /\ RecvData(u)
  <2>1. toClient[v] \in Seq(SentPdus) /\ SentNow(v) # {}
    BY <1>1 DEF TalkInv, Told
  <2>2. ~ \/ toClient'[v] = toClient[v]
          \/ \E k \in Nat \ {0} : toClient'[v] = Rest(toClient[v], k)
    BY <2>1, NothingNew
  <2>3. QED
    BY <2>2, ToClientSteps
<1>2. ASSUME Addresses(v) PROVE Polled(v) /\ RecvData(v)
  <2>1. PICK m, n : m = Len(toServer[v]) /\ n = Len(toServer'[v])
    OBVIOUS
  <2>2. m \in Nat /\ n \in Nat
    BY <2>1, RecordsStep DEF RecordsInv, TypeInv
  <2>3. n < m
    BY <1>2, <2>1 DEF Addresses
  <2>4. toServer'[v] # toServer[v]
    BY <2>1, <2>2, <2>3
  <2>5. ~ Greets(v)
    BY <2>1, <2>2, <2>3 DEF Greets
  <2>6. ~ Types(v)
    BY <2>1, <2>2, <2>3 DEF Types
  <2>7. QED
    BY <2>4, <2>5, <2>6, ToServerSteps
<1>3. QED
  BY <1>1, <1>2

\* A client is told that an addressee does not exist only about its own text
\* and, if the names in it were sent whole, only when one of them is in use by
\* nobody; and it is told when the table has never held one of them, unless the
\* client has closed or the server ends.  It holds with refused clients, shared
\* handles, PDUs read together, departures, kills and handles of any length, as
\* long as no handle begins another, which the lookup takes for it.
THEOREM AbsentIsReportedCorrect ==
  ASSUME NoHandleBeginsAnother
  PROVE  Spec => AbsentIsReported
<1> DEFINE Inv == RecordsInv /\ TalkInv /\ TextsInv /\ AskingInv /\ RoomInv
                    /\ AddressedInv /\ TailInv
<1>1. Init => Inv
  <2>1. Init => AddressedInv
    BY DEF Init, AddressedInv
  <2>2. Init => TailInv
    BY DEF Init, initializeHelper, TailInv
  <2>3. QED
    BY <2>1, <2>2, RecordsInit, TalkInit, RoomInit
<1>2. Inv /\ [Next]_vars => Inv'
  BY RecordsStep, TalkStep, TextsStep, AskingStep, RoomStep, AddressedStep, TailStep
<1>3. Inv /\ [Next]_vars =>
        \A u \in Users :
          /\ Told(u) => Addresses(u)
          /\ Addresses(u) /\ SentWhole(u) =>
               /\ Told(u) => \E h \in Addressees(u) : ~ InUse(table, h)
               /\ (\E h \in Addressees(u) : Unknown(h)) =>
                    Told(u) \/ peer[u] # "up" \/ ~ up'
  <2> SUFFICES ASSUME RecordsInv, TalkInv, RoomInv, AddressedInv, TailInv, [Next]_vars,
                      NEW u \in Users
               PROVE  /\ Told(u) => Addresses(u)
                      /\ Addresses(u) /\ SentWhole(u) =>
                           /\ Told(u) => \E h \in Addressees(u) : ~ InUse(table, h)
                           /\ (\E h \in Addressees(u) : Unknown(h)) =>
                                Told(u) \/ peer[u] # "up" \/ ~ up'
    OBVIOUS
  <2>1. ASSUME Told(u)
        PROVE  /\ Addresses(u)
               /\ SentWhole(u) => \E h \in Addressees(u) : ~ InUse(table, h)
    BY <2>1, TextIsRead, ToldOfAbsent
  <2>2. ASSUME Addresses(u), SentWhole(u), NEW h \in Addressees(u), Unknown(h),
               peer[u] = "up", up'
        PROVE  Told(u)
    BY <2>2, TextIsRead, UnknownIsTold
  <2>3. QED
    BY <2>1, <2>2
<1>4. QED
  BY <1>1, <1>2, <1>3, PTL DEF Spec, AbsentIsReported

==============================================================================
