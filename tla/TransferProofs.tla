---------------------------- MODULE TransferProofs ----------------------------
(***************************************************************************)
(* Theorems about Transfer for every window size, file, retry limit and    *)
(* error budget: first what the operations of windowing.c do to a window;  *)
(* then any network, where AnyNetInv is inductive; then a LAN (Prompt)     *)
(* with zeroed memory (HeapZeroed), where LanInv is inductive relative to  *)
(* it, the copy is always a prefix of the file and the protocol implements *)
(* FileCopy.                                                               *)
(***************************************************************************)
EXTENDS TransferInv, SequenceTheorems, TLAPS

-----------------------------------------------------------------------------
(* Windows. *)

\* The index seq_num % win_sz is a slot of the array.
LEMMA SlotOfType == ASSUME NEW s \in Nat PROVE SlotOf(s) \in Slots
BY WinSzAssumption DEF SlotOf, Slots

\* Division with remainder, in the form the next lemmas use it.
LEMMA SlotOfDivision ==
  ASSUME NEW s \in Nat
  PROVE  /\ s = WinSz * (s \div WinSz) + SlotOf(s)
         /\ s \div WinSz \in Int
BY WinSzAssumption DEF SlotOf

\* Two numbers less than win_sz apart never share a slot of the window.
LEMMA SlotOfInjective ==
  ASSUME NEW l \in Nat, NEW i \in l .. (l + WinSz - 1),
         NEW j \in l .. (l + WinSz - 1), SlotOf(i) = SlotOf(j)
  PROVE  i = j
<1> DEFINE a == i \div WinSz
           b == j \div WinSz
<1>0. i \in Nat /\ j \in Nat /\ WinSz \in Nat \ {0} BY WinSzAssumption
<1>1. i = WinSz * a + SlotOf(i) /\ j = WinSz * b + SlotOf(j)
      /\ a \in Int /\ b \in Int
  BY <1>0, SlotOfDivision
<1>2. SlotOf(i) \in 0 .. (WinSz - 1) BY <1>0, SlotOfType DEF Slots
<1> HIDE DEF a, b
<1>3. ASSUME NEW p \in Int, NEW q \in Int, q > p
      PROVE  WinSz * q >= WinSz * p + WinSz
  BY <1>0, <1>3
<1>4. ~ (a > b) BY <1>0, <1>1, <1>2, <1>3
<1>5. ~ (b > a) BY <1>0, <1>1, <1>2, <1>3
<1> QED BY <1>0, <1>1, <1>4, <1>5

\* Numbers win_sz apart share their slot.
LEMMA SlotOfWraps ==
  ASSUME NEW s \in Nat PROVE SlotOf(s + WinSz) = SlotOf(s)
<1> DEFINE a == s \div WinSz
           b == (s + WinSz) \div WinSz
           n == s + WinSz
<1>0. n \in Nat /\ WinSz \in Nat \ {0} BY WinSzAssumption
<1>1. s = WinSz * a + SlotOf(s) /\ n = WinSz * b + SlotOf(n)
      /\ a \in Int /\ b \in Int
  BY <1>0, SlotOfDivision
<1>2. SlotOf(s) \in 0 .. (WinSz - 1) /\ SlotOf(n) \in 0 .. (WinSz - 1)
  BY <1>0, SlotOfType DEF Slots
<1>3. n = s + WinSz OBVIOUS
<1> HIDE DEF a, b, n
<1>4. ASSUME NEW p \in Int, NEW q \in Int, q > p
      PROVE  WinSz * q >= WinSz * p + WinSz
  BY <1>0, <1>4
<1>5. WinSz * (a + 1) = WinSz * a + WinSz BY <1>0, <1>1
<1>6. ~ (b > a + 1) BY <1>0, <1>1, <1>2, <1>3, <1>4, <1>5
<1>7. ~ (a + 1 > b) BY <1>0, <1>1, <1>2, <1>3, <1>4, <1>5
<1>8. b = a + 1 BY <1>1, <1>6, <1>7
<1>9. SlotOf(n) = SlotOf(s) BY <1>0, <1>1, <1>2, <1>3, <1>5, <1>8
<1> QED BY <1>9 DEF n

\* The fields of a window have their types.
LEMMA WindowFields ==
  ASSUME NEW P, NEW w \in Window(P)
  PROVE  /\ w.lower \in Nat /\ w.current \in Nat /\ w.upper \in Nat
         /\ w.ptr \in [Slots -> P] /\ w.occupied \in [Slots -> BOOLEAN]
BY DEF Window

\* window->current = n changes nothing else.
LEMMA SetCurrentType ==
  ASSUME NEW P, NEW w \in Window(P), NEW n \in Nat
  PROVE  /\ [w EXCEPT !.current = n] \in Window(P)
         /\ [w EXCEPT !.current = n].current = n
         /\ [w EXCEPT !.current = n].lower = w.lower
         /\ [w EXCEPT !.current = n].upper = w.upper
         /\ [w EXCEPT !.current = n].ptr = w.ptr
         /\ [w EXCEPT !.current = n].occupied = w.occupied
BY DEF Window

\* insertIntoWindow changes one slot and none of the window's numbers.
LEMMA InsertType ==
  ASSUME NEW P, NEW w \in Window(P), NEW packet \in P, NEW s \in Nat
  PROVE  /\ insertIntoWindow(w, packet, s) \in Window(P)
         /\ insertIntoWindow(w, packet, s).lower = w.lower
         /\ insertIntoWindow(w, packet, s).current = w.current
         /\ insertIntoWindow(w, packet, s).upper = w.upper
         /\ \A k \in Slots :
              /\ insertIntoWindow(w, packet, s).ptr[k]
                   = IF k = SlotOf(s) THEN packet ELSE w.ptr[k]
              /\ insertIntoWindow(w, packet, s).occupied[k]
                   = (k = SlotOf(s) \/ w.occupied[k])
<1>1. SlotOf(s) \in Slots BY SlotOfType
<1>2. w.ptr \in [Slots -> P] /\ w.occupied \in [Slots -> BOOLEAN] BY DEF Window
<1> QED BY <1>1, <1>2 DEF insertIntoWindow, Window

\* loadFromWindow returns what some slot holds.
LEMMA LoadType ==
  ASSUME NEW P, NEW w \in Window(P), NEW s \in Nat
  PROVE  loadFromWindow(w, s) \in P
BY SlotOfType DEF loadFromWindow, Window

\* moveWindow keeps the size of the window and every slot's content.
LEMMA MoveType ==
  ASSUME NEW P, NEW w \in Window(P), NEW n \in Nat, n >= w.lower
  PROVE  /\ moveWindow(w, n) \in Window(P)
         /\ moveWindow(w, n).lower = n
         /\ moveWindow(w, n).upper = w.upper + (n - w.lower)
         /\ moveWindow(w, n).current = IF n > w.current THEN n ELSE w.current
         /\ moveWindow(w, n).ptr = w.ptr
         /\ \A k \in Slots :
              moveWindow(w, n).occupied[k] <=>
                /\ w.occupied[k]
                /\ \A i \in w.lower .. (n - 1) : SlotOf(i) # k
<1>1. /\ w.lower \in Nat /\ w.current \in Nat /\ w.upper \in Nat
      /\ w.ptr \in [Slots -> P] /\ w.occupied \in [Slots -> BOOLEAN]
  BY DEF Window
<1>2. w.upper + (n - w.lower) \in Nat BY <1>1
<1> QED BY <1>1, <1>2 DEF moveWindow, Window

\* A loop of loadFromWindow calls copies one slot per sequence number.
LEMMA LoadedType ==
  ASSUME NEW P, NEW w \in Window(P), NEW n \in Nat, n >= w.lower
  PROVE  /\ LoadedUpTo(w, n) \in Seq(P)
         /\ Len(LoadedUpTo(w, n)) = n - w.lower
         /\ \A k \in 1 .. (n - w.lower) :
              LoadedUpTo(w, n)[k] = loadFromWindow(w, w.lower + k - 1)
<1>1. w.lower \in Nat BY DEF Window
<1>2. \A k \in 1 .. (n - w.lower) : loadFromWindow(w, w.lower + k - 1) \in P
  BY <1>1, LoadType
<1> QED BY <1>1, <1>2 DEF LoadedUpTo

-----------------------------------------------------------------------------
(* Any network. *)

USE TransferAssumption, WinSzAssumption

\* Initially both windows are empty and nothing is under way but the
\* filename exchange.
LEMMA AnyNetInit == Init => AnyNetInv
<1> SUFFICES ASSUME Init PROVE AnyNetInv OBVIOUS
<1> DEFINE ptr == [k \in Slots |-> Garbage]
<1>1. ptr \in [Slots -> Payload] BY DEF Payload, Garbage
<1>2. PICK occ \in [Slots -> BOOLEAN] : swin = windowreset(ptr, occ)
  BY DEF Init, HeapContents
<1>3. PICK none \in [Slots -> BOOLEAN] : cwin = windowreset(ptr, none)
  BY DEF Init
<1> HIDE DEF ptr
<1>4. /\ cwin \in Window(Payload)
      /\ cwin.lower = 1 /\ cwin.current = 1 /\ cwin.upper = WinSz + 1
  BY <1>1, <1>3 DEF windowreset, Window
<1>4a. /\ swin \in Window(Payload)
       /\ swin.lower = 1 /\ swin.current = 1 /\ swin.upper = WinSz + 1
  BY <1>1, <1>2 DEF windowreset, Window
<1>5. toServer \subseteq {FilenamePkt} /\ toClient \subseteq {OkPkt}
  BY DEF Init
<1>6. TypeOK
  BY <1>4, <1>4a, <1>5 DEF Init, TypeOK, PacketOf, Payload, Garbage, FilenamePkt,
                    OkPkt, Packet, Exits
<1>7. ClientWindowInv /\ ServerWindowInv
  BY <1>4, <1>4a DEF Init, ClientWindowInv, ServerWindowInv
<1>8. WireInv /\ EndInv
  BY <1>4, <1>4a, <1>5 DEF Init, WireInv, EndInv, IsData, IsAnswer, FilenamePkt,
                    OkPkt, Packet
<1> QED BY <1>6, <1>7, <1>8 DEF AnyNetInv

-----------------------------------------------------------------------------
(* Steps of the client. *)

\* Steps of the client that leave its window and the wire alone.
LEMMA AnyNetClientQuiet ==
  ASSUME AnyNetInv,
         \/ SendWindowFull \/ SendEndOfFile \/ AckPacketReady \/ AckGiveUp
         \/ ResponseTimeout,
         UNCHANGED <<serverVars, toClient, errors>>
  PROVE  AnyNetInv'
<1>1. UNCHANGED <<new_sn, offset, cwin, toServer, toClient, errors, sret,
                  sretry, waited, swin, file>>
  BY DEF SendWindowFull, SendEndOfFile, AckPacketReady, AckGiveUp,
         ResponseTimeout, serverVars
<1>2. /\ cret \notin Exits
      /\ cret' \in {"RET_FILE_DATA", "RET_SERVER_DATA", "RET_ACK_DATA", "exit1"}
      /\ retryCount' \in {0, retryCount}
      /\ previous_sn' = previous_sn \/ (offset = NumChunks /\ previous_sn' = new_sn)
  BY DEF SendWindowFull, SendEndOfFile, AckPacketReady, AckGiveUp,
         ResponseTimeout, Exits
<1>3. TypeOK' BY <1>1, <1>2 DEF AnyNetInv, TypeOK, Exits, PacketOf
<1>4. ClientWindowInv' BY <1>1, <1>2 DEF AnyNetInv, ClientWindowInv
<1>5. (ServerWindowInv /\ WireInv /\ EndInv)'
  BY <1>1, <1>2 DEF AnyNetInv, ServerWindowInv, WireInv, EndInv, Exits
<1> QED BY <1>3, <1>4, <1>5 DEF AnyNetInv

\* sendFileBuffer sends the next chunk.
LEMMA AnyNetSendChunk ==
  ASSUME AnyNetInv, SendChunk, UNCHANGED <<serverVars, toClient, errors>>
  PROVE  AnyNetInv'
<1> DEFINE w == insertIntoWindow(cwin, offset + 1, new_sn)
<1>1. UNCHANGED <<retryCount, toClient, errors, sret, sretry, waited, swin, file>>
  BY DEF SendChunk, serverVars
<1>2. /\ cwin \in Window(Payload) /\ swin \in Window(Payload)
      /\ offset + 1 \in Payload /\ new_sn \in Nat /\ offset \in Nat
  <2>1. /\ cwin \in Window(Payload) /\ swin \in Window(Payload)
        /\ new_sn \in Nat /\ offset \in 0 .. NumChunks
    BY DEF AnyNetInv, TypeOK
  <2>2. offset < NumChunks BY DEF SendChunk
  <2>3. offset \in Nat /\ offset + 1 \in 0 .. NumChunks BY <2>1, <2>2
  <2> QED BY <2>1, <2>3 DEF Payload
<1>3. w \in Window(Payload) /\ w.lower = cwin.lower /\ w.upper = cwin.upper
  BY <1>2, InsertType
<1>4. cwin.lower \in Nat /\ cwin.current \in Nat /\ cwin.upper \in Nat
      /\ swin.lower \in Nat /\ swin.upper \in Nat
  BY <1>2, WindowFields
<1>5. cwin' = [w EXCEPT !.current = cwin.current + 1] BY DEF SendChunk
<1> HIDE DEF w
<1>6. /\ cwin' \in Window(Payload) /\ cwin'.lower = cwin.lower
      /\ cwin'.upper = cwin.upper /\ cwin'.current = cwin.current + 1
  BY <1>3, <1>4, <1>5, SetCurrentType
<1>7. toServer' = toServer \cup {DataPkt(new_sn, offset + 1)}
      /\ new_sn' = new_sn + 1 /\ offset' = offset + 1 /\ cret' = "RET_SERVER_DATA"
      /\ offset < NumChunks /\ cret = "RET_FILE_DATA" /\ cwin.current # cwin.upper
  BY DEF SendChunk, WindowFull
<1>8. previous_sn' \in {previous_sn, NumChunks + 1}
  BY <1>2 DEF SendChunk, ShortRead, AnyNetInv, ClientWindowInv
<1>9. TypeOK'
  BY <1>1, <1>2, <1>6, <1>7, <1>8 DEF AnyNetInv, TypeOK, Exits, PacketOf,
     DataPkt, Packet
<1>10. ClientWindowInv' /\ ServerWindowInv'
  BY <1>1, <1>2, <1>4, <1>6, <1>7, <1>8
     DEF AnyNetInv, ClientWindowInv, ServerWindowInv
<1>11. new_sn < swin.upper
  BY <1>2, <1>4, <1>7 DEF AnyNetInv, ClientWindowInv, ServerWindowInv, WireInv
<1>12. WireInv' /\ EndInv'
  BY <1>1, <1>6, <1>7, <1>11
     DEF AnyNetInv, WireInv, EndInv, IsData, IsAnswer, DataPkt, Packet
<1> QED BY <1>9, <1>10, <1>12 DEF AnyNetInv

\* HandleServerResponse on an intact packet.
LEMMA AnyNetResponse ==
  ASSUME AnyNetInv, NEW p \in toClient, HandleServerResponse(p),
         UNCHANGED <<serverVars, errors>>
  PROVE  AnyNetInv'
<1>1. /\ UNCHANGED <<new_sn, previous_sn, retryCount, offset, errors, sret,
                    sretry, waited, swin, file>>
      /\ toClient' \subseteq toClient
      /\ cret = "RET_SERVER_DATA"
  BY DEF HandleServerResponse, Consume, serverVars
<1>2. /\ cwin \in Window(Payload) /\ swin \in Window(Payload)
      /\ p.seq_num \in Nat
  BY DEF AnyNetInv, TypeOK, PacketOf
<1>3. cwin.lower \in Nat /\ cwin.current \in Nat /\ cwin.upper \in Nat
      /\ swin.lower \in Nat /\ swin.upper \in Nat
  BY <1>2, WindowFields
<1>4. CASE HandleSREJ(p)
  <2>1. loadFromWindow(cwin, p.seq_num) \in Payload BY <1>2, LoadType
  <2>2. p.seq_num < swin.upper
    BY <1>2, <1>3, <1>4 DEF HandleSREJ, AnyNetInv, WireInv, IsAnswer, ServerWindowInv
  <2>3. UNCHANGED <<cret, cwin>>
        /\ toServer' = toServer \cup {DataPkt(p.seq_num, loadFromWindow(cwin, p.seq_num))}
    BY <1>4 DEF HandleSREJ
  <2>4. TypeOK'
    BY <1>1, <1>2, <2>1, <2>3 DEF AnyNetInv, TypeOK, PacketOf, DataPkt, Packet, Exits
  <2>5. ClientWindowInv' /\ ServerWindowInv'
    BY <1>1, <2>3 DEF AnyNetInv, ClientWindowInv, ServerWindowInv
  <2>6. WireInv' /\ EndInv'
    BY <1>1, <2>2, <2>3
       DEF AnyNetInv, WireInv, EndInv, IsData, IsAnswer, DataPkt, Packet
  <2> QED BY <2>4, <2>5, <2>6 DEF AnyNetInv
<1>5. CASE exit_client(p)
  <2>1. UNCHANGED cwin /\ cret' = "exit0"
        /\ toServer' = toServer \cup {EOFPkt, EndPkt}
    BY <1>5 DEF exit_client
  <2>2. swin.lower > NumChunks
    BY <1>2, <1>3, <1>5 DEF exit_client, AllAcked, AnyNetInv, WireInv, IsAnswer,
       ClientWindowInv
  <2>3. TypeOK'
    BY <1>1, <2>1 DEF AnyNetInv, TypeOK, PacketOf, EOFPkt, EndPkt, Packet,
       Exits, Payload, Garbage
  <2>4. ClientWindowInv' /\ ServerWindowInv'
    BY <1>1, <2>1 DEF AnyNetInv, ClientWindowInv, ServerWindowInv
  <2>5. WireInv' /\ EndInv'
    BY <1>1, <2>1, <2>2
       DEF AnyNetInv, WireInv, EndInv, IsData, IsAnswer, EOFPkt, EndPkt, Packet
  <2> QED BY <2>3, <2>4, <2>5 DEF AnyNetInv
<1>6. CASE HandleRR(p)
  <2>1. UNCHANGED <<cret, toServer>> BY <1>6 DEF HandleRR
  <2>2. p.seq_num <= swin.lower BY <1>2, <1>3, <1>6 DEF HandleRR, AnyNetInv, WireInv, IsAnswer
  <2>3. /\ cwin' \in Window(Payload)
        /\ cwin'.lower \in {cwin.lower, p.seq_num} /\ cwin'.lower >= cwin.lower
        /\ cwin'.upper = cwin.upper + (cwin'.lower - cwin.lower)
        /\ cwin'.current = IF cwin'.lower > cwin.current THEN cwin'.lower
                                                         ELSE cwin.current
    <3>1. CASE p.seq_num >= cwin.lower
      <4>1. cwin' = moveWindow(cwin, p.seq_num) BY <1>6, <3>1 DEF HandleRR
      <4> QED BY <1>2, <1>3, <3>1, <4>1, MoveType
    <3>2. CASE ~ (p.seq_num >= cwin.lower)
      <4>1. cwin' = cwin BY <1>6, <3>2 DEF HandleRR
      <4>2. cwin.lower <= cwin.current BY <1>3 DEF AnyNetInv, ClientWindowInv
      <4> QED BY <1>2, <1>3, <4>1, <4>2
    <3> QED BY <3>1, <3>2
  <2>4. TypeOK'
    BY <1>1, <2>1, <2>3 DEF AnyNetInv, TypeOK, PacketOf, Exits
  <2>5. ClientWindowInv'
    <3>1. new_sn \in Nat /\ offset \in Nat BY DEF AnyNetInv, TypeOK
    <3> QED BY <1>1, <1>2, <1>3, <2>3, <3>1 DEF AnyNetInv, ClientWindowInv
  <2>5a. ServerWindowInv' BY <1>1 DEF AnyNetInv, ServerWindowInv
  <2>6. WireInv' /\ EndInv'
    BY <1>1, <1>2, <1>3, <2>1, <2>2, <2>3
       DEF AnyNetInv, WireInv, EndInv, IsData, IsAnswer
  <2> QED BY <2>4, <2>5, <2>5a, <2>6 DEF AnyNetInv
<1>7. CASE HandleOther(p)
  <2>1. UNCHANGED <<cret, cwin, toServer>> BY <1>7 DEF HandleOther
  <2>2. TypeOK' BY <1>1, <2>1 DEF AnyNetInv, TypeOK, PacketOf, Exits
  <2> QED BY <1>1, <2>1, <2>2 DEF AnyNetInv, ClientWindowInv, ServerWindowInv,
             WireInv, EndInv
<1> QED BY <1>4, <1>5, <1>6, <1>7 DEF HandleServerResponse

\* HandleServerResponse on a damaged packet.
LEMMA AnyNetClientDamaged ==
  ASSUME AnyNetInv, NEW p \in toClient, HandleServerCRCError(p),
         errors < MaxErrors, errors' = errors + 1, UNCHANGED serverVars
  PROVE  AnyNetInv'
<1>1. /\ UNCHANGED <<new_sn, previous_sn, retryCount, offset, cwin, toServer,
                    sret, sretry, waited, swin, file>>
      /\ toClient' \subseteq toClient
      /\ cret = "RET_SERVER_DATA" /\ cret' = "RET_ACK_DATA"
  BY DEF HandleServerCRCError, Consume, serverVars
<1>2. TypeOK' BY <1>1 DEF AnyNetInv, TypeOK, PacketOf, Exits
<1> QED BY <1>1, <1>2 DEF AnyNetInv, ClientWindowInv, ServerWindowInv,
           WireInv, EndInv

-----------------------------------------------------------------------------
(* Steps of the server. *)

\* A write loop up to i, moveWindow to i and the RR that follows.
LEMMA AnyNetAdvance ==
  ASSUME AnyNetInv, UNCHANGED <<clientVars, errors>>,
         NEW w \in Window(Payload), NEW i \in Nat, i >= w.lower,
         w.lower = swin.lower, w.upper = swin.upper, w.current <= i,
         file' = file \o LoadedUpTo(w, i), swin' = moveWindow(w, i),
         toClient' = toClient \cup {RR(i)}, toServer' \subseteq toServer,
         sret # "RET_TERMINATION", sret' = "RET_RECVFILE_DATA",
         sretry' \in {0, sretry}, waited' \in {0, waited}
  PROVE  AnyNetInv'
<1>1. UNCHANGED <<cret, new_sn, previous_sn, retryCount, offset, cwin, errors>>
  BY DEF clientVars
<1>2. /\ cwin \in Window(Payload) /\ swin \in Window(Payload)
      /\ file \in Seq(Payload) /\ waited \in 0 .. (RecoverWait - 1)
      /\ sretry \in 0 .. (MaxRetry + 1)
  BY DEF AnyNetInv, TypeOK
<1>3. cwin.lower \in Nat /\ swin.lower \in Nat /\ swin.upper \in Nat
      /\ w.current \in Nat /\ swin.lower >= 1
  BY <1>2, WindowFields DEF AnyNetInv, ClientWindowInv, WireInv
<1>4. /\ swin' \in Window(Payload) /\ swin'.lower = i /\ swin'.current = i
      /\ swin'.upper = swin.upper + (i - swin.lower)
  BY <1>3, MoveType
<1>5. /\ LoadedUpTo(w, i) \in Seq(Payload)
      /\ Len(LoadedUpTo(w, i)) = i - swin.lower
  BY LoadedType
<1>6. file' \in Seq(Payload) /\ Len(file') = Len(file) + (i - swin.lower)
  BY <1>2, <1>5, ConcatProperties
<1>7. TypeOK'
  BY <1>1, <1>2, <1>4, <1>6 DEF AnyNetInv, TypeOK, PacketOf, Exits, RR, Packet,
     Garbage
<1>8. ClientWindowInv' BY <1>1 DEF AnyNetInv, ClientWindowInv
<1>9. ServerWindowInv'
  BY <1>3, <1>4, <1>6 DEF AnyNetInv, ServerWindowInv
<1>10. WireInv'
  <2>1. \A q \in toServer : q.seq_num \in Nat
    BY DEF AnyNetInv, TypeOK, PacketOf
  <2>2. \A q \in toServer' : IsData(q) => q.seq_num < swin'.upper
    BY <1>3, <1>4, <2>1 DEF AnyNetInv, WireInv, IsData
  <2>3. \A q \in toClient' : IsAnswer(q) => q.seq_num \in 1 .. swin'.lower
    BY <1>3, <1>4 DEF AnyNetInv, WireInv, IsAnswer, RR, Packet
  <2> QED BY <1>1, <1>3, <1>4, <2>2, <2>3 DEF AnyNetInv, WireInv, IsData, IsAnswer
<1>11. EndInv' BY <1>1, <1>3, <1>4 DEF AnyNetInv, EndInv
<1> QED BY <1>7, <1>8, <1>9, <1>10, <1>11 DEF AnyNetInv

\* A step of the server that writes nothing and leaves its window's numbers.
LEMMA AnyNetServerQuiet ==
  ASSUME AnyNetInv, UNCHANGED <<clientVars, file>>,
         swin' \in Window(Payload), swin'.lower = swin.lower,
         swin'.upper = swin.upper, swin'.current = swin.current,
         toServer' \subseteq toServer,
         toClient' \subseteq toClient \cup {RR(swin.lower), SREJ(swin.lower), EndPkt},
         sret' \in {sret, "RET_RECOVER_PKTS", "exit"} \/ cret = "exit0",
         sret' \in {"RET_RECVFILE_DATA", "RET_RECOVER_PKTS", "RET_TERMINATION", "exit"},
         sretry' \in 0 .. (MaxRetry + 1), waited' \in 0 .. (RecoverWait - 1),
         errors' \in 0 .. MaxErrors
  PROVE  AnyNetInv'
<1>1. UNCHANGED <<cret, new_sn, previous_sn, retryCount, offset, cwin>>
  BY DEF clientVars
<1>2. swin \in Window(Payload) /\ cwin \in Window(Payload) BY DEF AnyNetInv, TypeOK
<1>3. swin.lower \in Nat /\ swin.upper \in Nat /\ swin.lower >= 1
  BY <1>2, WindowFields DEF AnyNetInv, ClientWindowInv, WireInv
<1>4. TypeOK'
  BY <1>1, <1>3 DEF AnyNetInv, TypeOK, PacketOf, Exits, RR, SREJ, EndPkt, Packet,
     Garbage
<1>5. ClientWindowInv' /\ ServerWindowInv'
  BY <1>1 DEF AnyNetInv, ClientWindowInv, ServerWindowInv
<1>6. WireInv'
  BY <1>1, <1>3 DEF AnyNetInv, WireInv, IsData, IsAnswer, RR, SREJ, EndPkt, Packet
<1>7. EndInv' BY <1>1 DEF AnyNetInv, EndInv
<1> QED BY <1>4, <1>5, <1>6, <1>7 DEF AnyNetInv

\* recv_file_data.
LEMMA AnyNetRecvFileData ==
  ASSUME AnyNetInv, NEW p \in toServer, recv_file_data(p),
         UNCHANGED <<clientVars, errors>>
  PROVE  AnyNetInv'
<1>1. /\ toServer' \subseteq toServer /\ sretry' = 0 /\ UNCHANGED waited
      /\ sret = "RET_RECVFILE_DATA"
  BY DEF recv_file_data, Consume
<1>2. /\ cwin \in Window(Payload) /\ swin \in Window(Payload)
      /\ p.seq_num \in Nat /\ p.data \in Payload
      /\ errors \in 0 .. MaxErrors /\ waited \in 0 .. (RecoverWait - 1)
  BY DEF AnyNetInv, TypeOK, PacketOf
<1>3. swin.lower \in Nat /\ swin.upper \in Nat /\ swin.current = swin.lower
  BY <1>2, WindowFields DEF AnyNetInv, ServerWindowInv
<1> DEFINE w == insertIntoWindow(swin, p.data, p.seq_num)
<1>4. /\ w \in Window(Payload) /\ w.lower = swin.lower
      /\ w.upper = swin.upper /\ w.current = swin.lower
  BY <1>2, <1>3, InsertType
<1>5. CASE RecvAtLower(p)
  <2>1. PICK i \in w.lower .. w.upper :
          /\ file' = file \o LoadedUpTo(w, i)
          /\ swin' = moveWindow(w, i)
          /\ toClient' = toClient \cup {RR(i)}
    BY <1>5 DEF RecvAtLower
  <2>2. sret' = "RET_RECVFILE_DATA" BY <1>1, <1>5 DEF RecvAtLower
  <2> HIDE DEF w
  <2>3. i \in Nat /\ i >= w.lower /\ w.current <= i BY <1>3, <1>4
  <2> QED BY <1>1, <1>4, <2>1, <2>2, <2>3, AnyNetAdvance
<1>6. CASE RecvOutsideWindow(p)
  <2>1. /\ UNCHANGED <<swin, file>> /\ sret' \in {sret, "exit"}
        /\ toClient' \subseteq toClient \cup {RR(swin.lower)}
    BY <1>6 DEF RecvOutsideWindow
  <2> QED BY <1>1, <1>2, <2>1, AnyNetServerQuiet
<1>7. CASE RecvOutOfOrder(p)
  <2>1. /\ swin' = [w EXCEPT !.current = swin.lower]
        /\ toClient' = toClient \cup {SREJ(swin.lower)}
        /\ sret' = "RET_RECOVER_PKTS" /\ UNCHANGED file
    BY <1>7 DEF RecvOutOfOrder
  <2> HIDE DEF w
  <2>2. /\ swin' \in Window(Payload) /\ swin'.lower = swin.lower
        /\ swin'.upper = swin.upper /\ swin'.current = swin.current
    BY <1>3, <1>4, <2>1, SetCurrentType
  <2> QED BY <1>1, <1>2, <2>1, <2>2, AnyNetServerQuiet
<1>8. CASE RecvEOF(p)
  <2>1. sret' = "RET_TERMINATION" /\ UNCHANGED <<swin, file, toClient>>
    BY <1>8 DEF RecvEOF
  <2>2. cret = "exit0" BY <1>8 DEF RecvEOF, AnyNetInv, EndInv
  <2> QED BY <1>1, <1>2, <2>1, <2>2, AnyNetServerQuiet
<1>9. CASE RecvOther(p)
  <2>1. UNCHANGED <<sret, swin, file, toClient>> BY <1>9 DEF RecvOther
  <2> QED BY <1>1, <1>2, <2>1, AnyNetServerQuiet
<1> QED BY <1>5, <1>6, <1>7, <1>8, <1>9 DEF recv_file_data

\* wait_client_packets.
LEMMA AnyNetRecover ==
  ASSUME AnyNetInv, NEW p \in toServer, wait_client_packets(p),
         UNCHANGED <<clientVars, errors>>
  PROVE  AnyNetInv'
<1>1. /\ toServer' \subseteq toServer /\ waited' = 0 /\ UNCHANGED sretry
      /\ sret = "RET_RECOVER_PKTS"
  BY DEF wait_client_packets, Consume
<1>2. /\ cwin \in Window(Payload) /\ swin \in Window(Payload)
      /\ p.seq_num \in Nat /\ p.data \in Payload
      /\ errors \in 0 .. MaxErrors /\ sretry \in 0 .. (MaxRetry + 1)
  BY DEF AnyNetInv, TypeOK, PacketOf
<1>3. swin.lower \in Nat /\ swin.upper \in Nat /\ swin.current = swin.lower
  BY <1>2, WindowFields DEF AnyNetInv, ServerWindowInv
<1> DEFINE w == insertIntoWindow(swin, p.data, p.seq_num)
<1>4. /\ w \in Window(Payload) /\ w.lower = swin.lower
      /\ w.upper = swin.upper /\ w.current = swin.lower
  BY <1>2, <1>3, InsertType
<1>5. CASE RecoverInWindow(p)
  <2>1. PICK i \in w.lower .. (w.upper + 1) :
          /\ file' = file \o LoadedUpTo(w, i)
          /\ swin' = moveWindow([w EXCEPT !.current = i], i)
          /\ toClient' = toClient \cup {RR(i)}
    BY <1>5 DEF RecoverInWindow
  <2> DEFINE v == [w EXCEPT !.current = i]
  <2>2. sret' = "RET_RECVFILE_DATA" BY <1>5 DEF RecoverInWindow
  <2>3. LoadedUpTo(v, i) = LoadedUpTo(w, i)
    <3> HIDE DEF w
    <3>1. v.lower = w.lower /\ v.ptr = w.ptr BY <1>4 DEF Window
    <3> QED BY <3>1 DEF LoadedUpTo, loadFromWindow
  <2> HIDE DEF w
  <2>4. i \in Nat BY <1>3, <1>4
  <2>5. /\ v \in Window(Payload) /\ v.lower = swin.lower
        /\ v.upper = swin.upper /\ v.current = i
    BY <1>4, <2>4, SetCurrentType
  <2>6. swin' = moveWindow(v, i) /\ file' = file \o LoadedUpTo(v, i)
    BY <2>1, <2>3
  <2> HIDE DEF v
  <2>7. i >= v.lower /\ v.current <= i BY <1>3, <1>4, <2>4, <2>5
  <2> QED BY <1>1, <2>1, <2>2, <2>4, <2>5, <2>6, <2>7, AnyNetAdvance
<1>6. CASE RecoverOutside(p)
  <2>1. /\ UNCHANGED <<sret, swin, file>>
        /\ toClient' = toClient \cup {RR(swin.lower)}
    BY <1>3, <1>6 DEF RecoverOutside
  <2>2. waited' \in 0 .. (RecoverWait - 1) BY <1>1
  <2> QED BY <1>1, <1>2, <2>1, <2>2, AnyNetServerQuiet
<1> QED BY <1>5, <1>6 DEF wait_client_packets

\* recv_file_data giving up, client_termination_wait and damaged packets.
LEMMA AnyNetServerRest ==
  ASSUME AnyNetInv,
         \/ RecvGiveUp /\ UNCHANGED errors
         \/ \E p \in toServer : client_termination_wait(p) /\ UNCHANGED errors
         \/ /\ \E p \in toServer : ServerCRCError(p)
            /\ errors < MaxErrors /\ errors' = errors + 1,
         UNCHANGED clientVars
  PROVE  AnyNetInv'
<1>1. /\ UNCHANGED <<swin, file>> /\ toServer' \subseteq toServer
      /\ toClient' \subseteq toClient \cup {EndPkt}
      /\ sret' \in {sret, "exit"}
      /\ sretry' \in {0, sretry} /\ waited' \in {0, waited}
      /\ UNCHANGED errors \/ (errors < MaxErrors /\ errors' = errors + 1)
  BY DEF RecvGiveUp, client_termination_wait, ServerCRCError, Consume
<1>2. /\ swin \in Window(Payload)
      /\ errors' \in 0 .. MaxErrors /\ sretry' \in 0 .. (MaxRetry + 1)
      /\ waited' \in 0 .. (RecoverWait - 1)
      /\ sret' \in {"RET_RECVFILE_DATA", "RET_RECOVER_PKTS", "RET_TERMINATION", "exit"}
  BY <1>1 DEF AnyNetInv, TypeOK
<1> QED BY <1>1, <1>2, AnyNetServerQuiet

-----------------------------------------------------------------------------
(* Time and the network. *)

\* Timeouts of the client, of the server, or of both at once.
LEMMA AnyNetTimeout ==
  ASSUME AnyNetInv,
         ClientTimeout \/ UNCHANGED <<clientVars, toServer>>,
         ServerTimeout \/ UNCHANGED <<serverVars, toClient>>,
         UNCHANGED errors
  PROVE  AnyNetInv'
<1> DEFINE again == DataPkt(cwin.lower, loadFromWindow(cwin, cwin.lower))
<1>1. /\ UNCHANGED <<new_sn, previous_sn, offset, cwin>>
      /\ UNCHANGED cret \/ (cret = "RET_SERVER_DATA" /\ cret' = "RET_FILE_DATA")
      /\ \/ UNCHANGED retryCount
         \/ retryCount <= MaxRetry /\ retryCount' = retryCount + 1
      /\ toServer' \subseteq toServer \cup {again}
  BY DEF ClientTimeout, ResponseTimeout, AckTimeout, clientVars, NextRetry
<1>2. /\ UNCHANGED <<swin, file>> /\ sret' \in {sret, "exit"}
      /\ toClient' \subseteq toClient \cup {EndPkt}
      /\ UNCHANGED sretry \/ (sretry <= MaxRetry /\ sretry' = sretry + 1)
      /\ UNCHANGED waited \/ (waited + 1 < RecoverWait /\ waited' = waited + 1)
  <2>1. CASE ServerTimeout
    <3>1. sretry \in 0 .. (MaxRetry + 1) BY DEF AnyNetInv, TypeOK
    <3> QED BY <2>1, <3>1 DEF ServerTimeout, RecvTimeout, RecoverTimeout,
               TerminationTimeout, ServerNextRetry
  <2>2. CASE UNCHANGED <<serverVars, toClient>> BY <2>2 DEF serverVars
  <2> QED BY <2>1, <2>2
<1>3. cwin \in Window(Payload) /\ swin \in Window(Payload) BY DEF AnyNetInv, TypeOK
<1>4. cwin.lower \in Nat /\ swin.lower \in Nat /\ swin.upper \in Nat
  BY <1>3, WindowFields
<1>5. again.flag = "FLAG_DATA_PACKET" /\ again.seq_num = cwin.lower
      /\ again \in [flag : {"FLAG_DATA_PACKET"}, seq_num : Nat, data : Payload]
  BY <1>3, <1>4, LoadType DEF DataPkt, Packet
<1> HIDE DEF again
<1>6. TypeOK'
  BY <1>1, <1>2, <1>5 DEF AnyNetInv, TypeOK, PacketOf, Exits, EndPkt, Packet, Garbage
<1>7. ClientWindowInv' /\ ServerWindowInv'
  BY <1>1, <1>2 DEF AnyNetInv, ClientWindowInv, ServerWindowInv
<1>8. WireInv'
  BY <1>1, <1>2, <1>4, <1>5 DEF AnyNetInv, WireInv, ServerWindowInv, IsData,
     IsAnswer, EndPkt, Packet
<1>9. EndInv' BY <1>1, <1>2, <1>5 DEF AnyNetInv, EndInv
<1> QED BY <1>6, <1>7, <1>8, <1>9 DEF AnyNetInv

\* A dropped packet, and steps that change nothing.
LEMMA AnyNetDrop ==
  ASSUME AnyNetInv, Drop \/ UNCHANGED vars
  PROVE  AnyNetInv'
<1>1. /\ UNCHANGED <<cret, new_sn, previous_sn, retryCount, offset, cwin,
                    sret, sretry, waited, swin, file>>
      /\ toServer' \subseteq toServer /\ toClient' \subseteq toClient
      /\ UNCHANGED errors \/ (errors < MaxErrors /\ errors' = errors + 1)
  BY DEF Drop, vars, clientVars, serverVars
<1>2. TypeOK' BY <1>1 DEF AnyNetInv, TypeOK, PacketOf, Exits
<1> QED BY <1>1, <1>2 DEF AnyNetInv, ClientWindowInv, ServerWindowInv, WireInv,
           EndInv

\* Every step keeps the invariant.
LEMMA AnyNetStep == AnyNetInv /\ [Next]_vars => AnyNetInv'
<1> SUFFICES ASSUME AnyNetInv, [Next]_vars PROVE AnyNetInv' OBVIOUS
<1>1. CASE ClientStep
  <2>1. UNCHANGED <<serverVars, errors>> BY <1>1 DEF ClientStep
  <2>2. CASE sendFileBuffer /\ UNCHANGED toClient
    BY <2>1, <2>2, AnyNetClientQuiet, AnyNetSendChunk DEF sendFileBuffer
  <2>3. CASE (AckPacketReady \/ AckGiveUp) /\ UNCHANGED toClient
    BY <2>1, <2>3, AnyNetClientQuiet
  <2>4. CASE \E p \in toClient : HandleServerResponse(p)
    BY <2>1, <2>4, AnyNetResponse
  <2> QED BY <1>1, <2>2, <2>3, <2>4 DEF ClientStep
<1>2. CASE ServerStep
  <2>1. UNCHANGED <<clientVars, errors>> BY <1>2 DEF ServerStep
  <2>2. CASE RecvGiveUp BY <2>1, <2>2, AnyNetServerRest
  <2>3. CASE \E p \in toServer : recv_file_data(p)
    BY <2>1, <2>3, AnyNetRecvFileData
  <2>4. CASE \E p \in toServer : wait_client_packets(p)
    BY <2>1, <2>4, AnyNetRecover
  <2>5. CASE \E p \in toServer : client_termination_wait(p)
    BY <2>1, <2>5, AnyNetServerRest
  <2> QED BY <1>2, <2>2, <2>3, <2>4, <2>5 DEF ServerStep
<1>3. CASE ReceiveDamaged
  <2>1. CASE \E p \in toClient : HandleServerCRCError(p) /\ UNCHANGED serverVars
    BY <1>3, <2>1, AnyNetClientDamaged DEF ReceiveDamaged
  <2>2. CASE \E p \in toServer : ServerCRCError(p) /\ UNCHANGED clientVars
    BY <1>3, <2>2, AnyNetServerRest DEF ReceiveDamaged
  <2> QED BY <1>3, <2>1, <2>2 DEF ReceiveDamaged
<1>4. CASE Tick \/ AnyTimeout BY <1>4, AnyNetTimeout DEF Tick, AnyTimeout
<1>5. CASE Drop \/ UNCHANGED vars BY <1>5, AnyNetDrop
<1> QED BY <1>1, <1>2, <1>3, <1>4, <1>5 DEF Next

\* On any network the invariant of both windows and the wire holds.
THEOREM AnyNetCorrect == Spec => []AnyNetInv
BY AnyNetInit, AnyNetStep, PTL DEF Spec

\* The variables of both processes and the packets keep their types.
THEOREM TypeCorrect == Spec => []TypeOK
<1>1. AnyNetInv => TypeOK BY DEF AnyNetInv
<1> QED BY <1>1, AnyNetCorrect, PTL

\* On any network no data packet reaches the end of the server's window: the
\* branch of recv_file_data for seq_num > upper is dead code, and no packet
\* numbered upper is stored over the slot of lower.
THEOREM WireBelowUpperCorrect == Spec => []WireBelowUpper
<1>1. AnyNetInv => WireBelowUpper
  BY DEF AnyNetInv, WireInv, WireBelowUpper, IsData
<1> QED BY <1>1, AnyNetCorrect, PTL

\* On any network the server has written whatever the client's window has
\* moved past.
THEOREM AckedIsWrittenCorrect == Spec => []AckedIsWritten
<1>1. AnyNetInv => AckedIsWritten
  <2> SUFFICES ASSUME AnyNetInv PROVE AckedIsWritten OBVIOUS
  <2>1. cwin.lower \in Nat /\ swin.lower \in Nat
    BY WindowFields DEF AnyNetInv, TypeOK
  <2> QED BY <2>1 DEF AnyNetInv, ServerWindowInv, WireInv, AckedIsWritten
<1> QED BY <1>1, AnyNetCorrect, PTL

\* On any network exit status 0 of the client, or an end of file that the
\* server has believed, means that as many chunks as the file has are written.
THEOREM EndMeansWrittenCorrect == Spec => []EndMeansWritten
<1>1. AnyNetInv => EndMeansWritten
  <2> SUFFICES ASSUME AnyNetInv PROVE EndMeansWritten OBVIOUS
  <2>1. swin.lower \in Nat BY WindowFields DEF AnyNetInv, TypeOK
  <2> QED BY <2>1 DEF AnyNetInv, ServerWindowInv, EndInv, EndMeansWritten
<1> QED BY <1>1, AnyNetCorrect, PTL

-----------------------------------------------------------------------------
(* A LAN: windows whose occupied slots hold what their numbers name. *)

\* A larger bound on the numbers.
LEMMA HoldsMonotonic ==
  ASSUME NEW w \in Window(Payload), NEW n \in Nat, SlotsHold(w, n)
  PROVE  SlotsHold(w, n + 1)
<1>1. w.lower \in Nat /\ w.upper \in Nat BY WindowFields
<1> QED BY <1>1 DEF SlotsHold

\* insertIntoWindow of the packet s inside the window.
LEMMA InsertHolds ==
  ASSUME NEW w \in Window(Payload), w.upper = w.lower + WinSz,
         NEW n \in Nat, SlotsHold(w, n),
         NEW s \in Payload, s \in w.lower .. (w.upper - 1), s < n
  PROVE  SlotsHold(insertIntoWindow(w, s, s), n)
<1> DEFINE v == insertIntoWindow(w, s, s)
<1>1. w.lower \in Nat /\ s \in Nat BY WindowFields DEF Payload
<1>2. /\ v.lower = w.lower /\ v.upper = w.upper
      /\ \A k \in Slots :
           /\ v.ptr[k] = IF k = SlotOf(s) THEN s ELSE w.ptr[k]
           /\ v.occupied[k] = (k = SlotOf(s) \/ w.occupied[k])
  BY <1>1, InsertType
<1> HIDE DEF v
<1> SUFFICES ASSUME NEW i \in w.lower .. (w.upper - 1), v.occupied[SlotOf(i)]
             PROVE  v.ptr[SlotOf(i)] = i /\ i < n
  BY <1>2 DEF SlotsHold, v
<1>3. i \in Nat /\ SlotOf(i) \in Slots BY <1>1, SlotOfType
<1>4. CASE i = s BY <1>2, <1>3, <1>4
<1>5. CASE i # s
  <2>1. SlotOf(i) # SlotOf(s) BY <1>1, <1>5, SlotOfInjective
  <2> QED BY <1>2, <1>3, <2>1 DEF SlotsHold
<1> QED BY <1>4, <1>5

\* moveWindow inside the window frees the slots it leaves, which are the ones
\* the new numbers get.
LEMMA MoveHolds ==
  ASSUME NEW w \in Window(Payload), w.upper = w.lower + WinSz,
         NEW n \in Nat, SlotsHold(w, n), NEW m \in w.lower .. w.upper
  PROVE  SlotsHold(moveWindow(w, m), n)
<1> DEFINE v == moveWindow(w, m)
<1>1. w.lower \in Nat /\ m \in Nat /\ m >= w.lower /\ m <= w.lower + WinSz
  BY WindowFields
<1>2. /\ v.lower = m /\ v.upper = m + WinSz /\ v.ptr = w.ptr
      /\ \A k \in Slots :
           v.occupied[k] <=> /\ w.occupied[k]
                             /\ \A i \in w.lower .. (m - 1) : SlotOf(i) # k
  BY <1>1, MoveType
<1> HIDE DEF v
<1> SUFFICES ASSUME NEW i \in m .. (m + WinSz - 1), v.occupied[SlotOf(i)]
             PROVE  w.ptr[SlotOf(i)] = i /\ i < n
  BY <1>2 DEF SlotsHold, v
<1>3. i \in Nat /\ SlotOf(i) \in Slots BY <1>1, SlotOfType
<1>4. w.occupied[SlotOf(i)] BY <1>2, <1>3
<1>5. CASE i < w.lower + WinSz BY <1>1, <1>3, <1>4, <1>5 DEF SlotsHold
<1>6. CASE i >= w.lower + WinSz
  <2>1. i - WinSz \in Nat /\ i - WinSz \in w.lower .. (m - 1)
    BY <1>1, <1>3, <1>6
  <2>2. SlotOf((i - WinSz) + WinSz) = SlotOf(i - WinSz) BY <2>1, SlotOfWraps
  <2>3. (i - WinSz) + WinSz = i BY <1>3
  <2> QED BY <1>2, <1>3, <2>1, <2>2, <2>3
<1> QED BY <1>1, <1>3, <1>5, <1>6

\* A write loop over occupied slots copies the chunks in their order.
LEMMA LoadedHolds ==
  ASSUME NEW w \in Window(Payload), w.upper = w.lower + WinSz,
         NEW n \in Nat, SlotsHold(w, n), w.lower <= n,
         NEW m \in w.lower .. w.upper, FilledUpTo(w, m)
  PROVE  /\ \A k \in 1 .. (m - w.lower) : LoadedUpTo(w, m)[k] = w.lower + k - 1
         /\ m <= n
<1>1. w.lower \in Nat /\ m \in Nat /\ m >= w.lower /\ m <= w.lower + WinSz
  BY WindowFields
<1>2. \A i \in w.lower .. (m - 1) : w.ptr[SlotOf(i)] = i /\ i < n
  BY <1>1 DEF FilledUpTo, SlotsHold
<1>3. m <= n
  <2>1. CASE m = w.lower BY <2>1
  <2>2. CASE m # w.lower BY <1>1, <1>2, <2>2
  <2> QED BY <2>1, <2>2
<1>4. ASSUME NEW k \in 1 .. (m - w.lower)
      PROVE  LoadedUpTo(w, m)[k] = w.lower + k - 1
  <2>1. LoadedUpTo(w, m)[k] = loadFromWindow(w, w.lower + k - 1)
    BY <1>1, LoadedType
  <2>2. w.lower + k - 1 \in w.lower .. (m - 1) BY <1>1
  <2> QED BY <1>2, <2>1, <2>2 DEF loadFromWindow
<1> QED BY <1>3, <1>4

\* In a full window the scan of wait_client_packets wraps onto slots that it
\* has already found occupied, so a free slot lies inside the window.
LEMMA FreeSlotInside ==
  ASSUME NEW w \in Window(Payload), w.upper = w.lower + WinSz,
         NEW m \in w.lower .. (w.upper + 1),
         FilledUpTo(w, m), ~ w.occupied[SlotOf(m)]
  PROVE  m < w.upper
<1>1. w.lower \in Nat /\ m \in Nat /\ m >= w.lower /\ w.upper \in Nat
  BY WindowFields
<1> SUFFICES ASSUME m >= w.upper PROVE FALSE BY <1>1
<1>2. m - WinSz \in Nat /\ m - WinSz \in w.lower .. (m - 1) BY <1>1
<1>3. SlotOf((m - WinSz) + WinSz) = SlotOf(m - WinSz) BY <1>2, SlotOfWraps
<1>4. (m - WinSz) + WinSz = m BY <1>1
<1> QED BY <1>2, <1>3, <1>4 DEF FilledUpTo

-----------------------------------------------------------------------------
(* The initial states, and the types that every step uses. *)

\* What AnyNetInv says of the numbers of the two windows.
LEMMA Numbers ==
  ASSUME AnyNetInv
  PROVE  /\ cwin \in Window(Payload) /\ swin \in Window(Payload)
         /\ cwin.lower \in Nat /\ cwin.current \in Nat /\ cwin.upper \in Nat
         /\ swin.lower \in Nat /\ swin.upper \in Nat /\ swin.current = swin.lower
         /\ new_sn \in Nat /\ offset \in 0 .. NumChunks /\ previous_sn \in Nat
         /\ cwin.upper = cwin.lower + WinSz /\ swin.upper = swin.lower + WinSz
         /\ cwin.lower <= swin.lower /\ cwin.lower >= 1
         /\ cwin.lower <= cwin.current /\ cwin.current <= cwin.upper
         /\ new_sn = offset + 1
         /\ file \in Seq(Payload) /\ Len(file) = swin.lower - 1
         /\ sretry \in Nat
BY WindowFields DEF AnyNetInv, TypeOK, ClientWindowInv, ServerWindowInv, WireInv

\* With zeroed memory no slot is occupied at the start.
LEMMA LanInit == ASSUME Prompt, HeapZeroed, Init PROVE LanInv
<1> DEFINE ptr == [k \in Slots |-> Garbage]
           none == [k \in Slots |-> FALSE]
<1>1. cwin = windowreset(ptr, none) /\ swin = windowreset(ptr, none)
  BY DEF Init, HeapContents
<1>2. /\ cwin.lower = 1 /\ cwin.current = 1
      /\ swin.lower = 1 /\ swin.upper = WinSz + 1 /\ swin.occupied = none
  BY <1>1 DEF windowreset
<1>3. SlotsHold(swin, cwin.current)
  <2> SUFFICES ASSUME NEW i \in 1 .. WinSz PROVE ~ none[SlotOf(i)]
    BY <1>2 DEF SlotsHold
  <2> QED BY SlotOfType
<1> HIDE DEF none, ptr
<1>4. new_sn = 1 BY DEF Init
<1>4a. LanWindowInv BY <1>2, <1>3, <1>4 DEF LanWindowInv
<1>5. AckInv /\ OnePacketInv /\ RecoverInv /\ LanWireInv
  BY DEF Init, AckInv, OnePacketInv, RecoverInv, LanWireInv
<1>6. LastShortInv /\ FileIsPrefix BY <1>2 DEF Init, LastShortInv, FileIsPrefix
<1> QED BY <1>4a, <1>5, <1>6 DEF LanInv

-----------------------------------------------------------------------------
(* Steps of the client. *)

\* Steps of the client that send and receive nothing.
LEMMA LanClientQuiet ==
  ASSUME AnyNetInv, LanInv,
         SendWindowFull \/ SendEndOfFile \/ AckPacketReady \/ AckGiveUp,
         UNCHANGED <<serverVars, toClient>>
  PROVE  LanInv'
<1>1. UNCHANGED <<new_sn, offset, cwin, toServer, toClient, sret, sretry, swin, file>>
  BY DEF SendWindowFull, SendEndOfFile, AckPacketReady, AckGiveUp, serverVars
<1>2. (LanWindowInv /\ RecoverInv /\ LanWireInv /\ FileIsPrefix)'
  BY <1>1 DEF LanInv, LanWindowInv, SlotsHold, RecoverInv, LanWireInv, FileIsPrefix
<1>3. CASE SendWindowFull
  <2>1. /\ cret = "RET_FILE_DATA" /\ cret' = "RET_ACK_DATA" /\ UNCHANGED previous_sn
        /\ cwin.current = cwin.upper
    BY <1>3 DEF SendWindowFull, WindowFull
  <2>2. AckInv' BY <1>1, <2>1, Numbers DEF AckInv
  <2>3. OnePacketInv' /\ LastShortInv'
    BY <1>1, <2>1 DEF LanInv, OnePacketInv, LastShortInv, ClientGone, ServerGone
  <2> QED BY <1>2, <2>2, <2>3 DEF LanInv
<1>4. CASE SendEndOfFile
  <2>1. /\ cret = "RET_FILE_DATA" /\ cret' = "RET_ACK_DATA"
        /\ previous_sn' = new_sn /\ offset = NumChunks
    BY <1>4 DEF SendEndOfFile
  <2>2. AckInv' BY <1>1, <2>1, Numbers DEF AckInv, LanInv, LanWindowInv
  <2>3. OnePacketInv'
    BY <1>1, <2>1 DEF LanInv, OnePacketInv, ClientGone, ServerGone
  <2>4. LastShortInv' BY <1>1, <2>1, Numbers DEF LanInv, LastShortInv
  <2> QED BY <1>2, <2>2, <2>3, <2>4 DEF LanInv
<1>5. CASE AckPacketReady \/ AckGiveUp
  <2>1. /\ cret = "RET_ACK_DATA" /\ cret' \in {"RET_SERVER_DATA", "exit1"}
        /\ UNCHANGED previous_sn
    BY <1>5 DEF AckPacketReady, AckGiveUp
  <2>2. AckInv' BY <2>1 DEF AckInv
  <2>3. OnePacketInv' /\ LastShortInv'
    BY <1>1, <2>1 DEF LanInv, OnePacketInv, LastShortInv, ClientGone, ServerGone
  <2> QED BY <1>2, <2>2, <2>3 DEF LanInv
<1> QED BY <1>3, <1>4, <1>5

\* sendFileBuffer puts the next chunk into a slot that no outstanding packet
\* uses.
LEMMA LanSendChunk ==
  ASSUME AnyNetInv, LanInv, SendChunk, UNCHANGED <<serverVars, toClient>>
  PROVE  LanInv'
<1> DEFINE w == insertIntoWindow(cwin, new_sn, new_sn)
<1>1. UNCHANGED <<toClient, sret, sretry, swin, file>> BY DEF serverVars
<1>2. /\ toServer' = toServer \cup {DataPkt(new_sn, offset + 1)}
      /\ new_sn' = new_sn + 1 /\ offset' = offset + 1 /\ cret' = "RET_SERVER_DATA"
      /\ offset < NumChunks /\ cret = "RET_FILE_DATA" /\ cwin.current # cwin.upper
  BY DEF SendChunk, WindowFull
<1>2a. cwin' = [insertIntoWindow(cwin, offset + 1, new_sn)
                 EXCEPT !.current = cwin.current + 1]
  BY DEF SendChunk
<1>2b. /\ cwin \in Window(Payload) /\ new_sn \in Nat /\ offset \in 0 .. NumChunks
       /\ cwin.lower \in Nat /\ cwin.current \in Nat /\ cwin.upper \in Nat
       /\ cwin.upper = cwin.lower + WinSz /\ cwin.current <= cwin.upper
       /\ swin.lower \in Nat /\ new_sn = offset + 1
  BY Numbers
<1>3. /\ previous_sn' = IF LastShort /\ offset + 1 = NumChunks THEN new_sn + 1
                                                               ELSE previous_sn
  BY DEF SendChunk, ShortRead
<1>4. /\ offset + 1 \in Payload /\ offset + 1 = new_sn /\ new_sn = cwin.current
      /\ cwin.current < cwin.lower + WinSz /\ swin.lower <= cwin.current
  BY <1>2, <1>2b DEF LanInv, LanWindowInv, Payload
<1>4a. cwin \in Window(Payload) /\ new_sn \in Payload /\ new_sn \in Nat
  BY <1>2b, <1>4
<1>5. /\ w \in Window(Payload) /\ w.lower = cwin.lower
      /\ \A k \in Slots : w.ptr[k] = IF k = SlotOf(new_sn) THEN new_sn
                                                            ELSE cwin.ptr[k]
  <2> HIDE DEF w
  <2>1. w = insertIntoWindow(cwin, new_sn, new_sn) BY DEF w
  <2> QED BY <1>4a, <2>1, InsertType
<1>5a. cwin' = [w EXCEPT !.current = cwin.current + 1] BY <1>2a, <1>4
<1> HIDE DEF w
<1>6. /\ cwin'.lower = cwin.lower /\ cwin'.current = cwin.current + 1
      /\ cwin'.ptr = w.ptr
  BY <1>2b, <1>5, <1>5a, SetCurrentType
<1>7. LanWindowInv'
  <2>1. ASSUME NEW i \in cwin.lower .. cwin.current
        PROVE  w.ptr[SlotOf(i)] = i
    <3>1. i \in Nat /\ SlotOf(i) \in Slots BY Numbers, SlotOfType
    <3>2. CASE i = new_sn BY <1>4, <1>5, <3>1, <3>2
    <3>3. CASE i # new_sn
      <4>1. i \in cwin.lower .. (cwin.lower + WinSz - 1)
            /\ new_sn \in cwin.lower .. (cwin.lower + WinSz - 1)
        BY <1>4, Numbers
      <4>2. SlotOf(i) # SlotOf(new_sn) BY <3>3, <4>1, Numbers, SlotOfInjective
      <4>3. cwin.ptr[SlotOf(i)] = i
        BY <1>4, <3>3, Numbers DEF LanInv, LanWindowInv
      <4> QED BY <1>5, <3>1, <4>2, <4>3
    <3> QED BY <3>2, <3>3
  <2>2. \A i \in cwin'.lower .. (cwin'.current - 1) : cwin'.ptr[SlotOf(i)] = i
    BY <1>6, <2>1, Numbers
  <2>3. SlotsHold(swin, cwin.current + 1)
    BY <1>2b, Numbers, HoldsMonotonic DEF LanInv, LanWindowInv
  <2>4. SlotsHold(swin', cwin'.current) BY <1>1, <1>6, <2>3
  <2>5. SlotsHold(swin, cwin.current)' BY <2>4
  <2> QED BY <1>1, <1>2, <1>4, <1>6, <2>2, <2>5, Numbers DEF LanWindowInv
<1>8. AckInv' /\ RecoverInv' /\ FileIsPrefix'
  BY <1>1, <1>2 DEF AckInv, RecoverInv, FileIsPrefix, LanInv
<1>9. LanWireInv'
  BY <1>2, <1>4, <1>6, Numbers DEF LanInv, LanWireInv, IsData, DataPkt, Packet,
     AnyNetInv, TypeOK, PacketOf
<1>10. OnePacketInv'
  <2>1. \/ ServerGone /\ toClient = {}
        \/ toServer = {} /\ toClient = {}
    BY <1>2 DEF LanInv, OnePacketInv, ClientGone
  <2>2. CASE ServerGone /\ toClient = {}
    BY <1>1, <2>2 DEF OnePacketInv, ServerGone
  <2>3. CASE toServer = {} /\ toClient = {}
    <3>1. toServer' = {DataPkt(new_sn, offset + 1)} BY <1>2, <2>3
    <3>2. cwin'.lower < cwin'.current BY <1>6, Numbers
    <3> QED BY <1>1, <1>2, <2>3, <3>1, <3>2 DEF OnePacketInv, IsData, DataPkt, Packet
  <2> QED BY <2>1, <2>2, <2>3
<1>11. LastShortInv'
  BY <1>2, <1>3, <1>6, Numbers DEF LanInv, LastShortInv
<1> QED BY <1>7, <1>8, <1>9, <1>10, <1>11 DEF LanInv

\* The answer that HandleServerResponse reads is the only packet under way
\* and describes the server's window as it is now.
LEMMA LanResponse ==
  ASSUME AnyNetInv, LanInv, Prompt, NEW p \in toClient,
         HandleServerResponse(p), UNCHANGED serverVars
  PROVE  LanInv'
<1>1. /\ UNCHANGED <<new_sn, previous_sn, offset, sret, sretry, swin, file>>
      /\ toClient' = toClient \ {p} /\ cret = "RET_SERVER_DATA"
  BY DEF HandleServerResponse, Consume, serverVars
<1>2. /\ toServer = {} /\ toClient' = {} /\ IsAnswer(p) /\ p.seq_num = swin.lower
      /\ p.flag = "FLAG_SREJ" => swin.lower < cwin.current
      /\ cwin.lower < cwin.current
  BY <1>1 DEF LanInv, OnePacketInv, ClientGone
<1>3. /\ swin.lower <= cwin.current /\ new_sn = cwin.current
      /\ \A i \in cwin.lower .. (cwin.current - 1) : cwin.ptr[SlotOf(i)] = i
      /\ SlotsHold(swin, cwin.current)
  BY DEF LanInv, LanWindowInv
<1>4. RecoverInv' /\ FileIsPrefix'
  BY <1>1 DEF RecoverInv, FileIsPrefix, LanInv
<1>5. CASE HandleSREJ(p)
  <2>1. UNCHANGED <<cret, cwin>>
        /\ toServer' = {DataPkt(swin.lower, loadFromWindow(cwin, swin.lower))}
    BY <1>2, <1>5 DEF HandleSREJ
  <2>2. loadFromWindow(cwin, swin.lower) = swin.lower /\ swin.lower < cwin.current
    <3>1. p.flag = "FLAG_SREJ" BY <1>5 DEF HandleSREJ
    <3>2. swin.lower < cwin.current BY <1>2, <3>1
    <3>3. /\ cwin.lower \in Nat /\ cwin.current \in Nat /\ swin.lower \in Nat
          /\ cwin.lower <= swin.lower
      BY Numbers
    <3>4. swin.lower \in cwin.lower .. (cwin.current - 1) BY <3>2, <3>3
    <3> QED BY <1>3, <3>2, <3>4 DEF loadFromWindow
  <2>3. (LanWindowInv /\ AckInv /\ LastShortInv)'
    BY <1>1, <2>1 DEF LanInv, LanWindowInv, SlotsHold, AckInv, LastShortInv
  <2>4. OnePacketInv' /\ LanWireInv'
    BY <1>1, <1>2, <2>1, <2>2 DEF OnePacketInv, LanWireInv, IsData, DataPkt, Packet
  <2> QED BY <1>4, <2>3, <2>4 DEF LanInv
<1>6. CASE exit_client(p)
  <2>1. UNCHANGED cwin /\ cret' = "exit0" /\ toServer' = {EOFPkt, EndPkt}
    BY <1>2, <1>6 DEF exit_client
  <2>2. (LanWindowInv /\ LastShortInv)'
    BY <1>1, <2>1 DEF LanInv, LanWindowInv, SlotsHold, LastShortInv
  <2>3. (AckInv /\ OnePacketInv /\ LanWireInv)'
    BY <2>1 DEF AckInv, OnePacketInv, ClientGone, LanWireInv, IsData, EOFPkt,
       EndPkt, Packet
  <2> QED BY <1>4, <2>2, <2>3 DEF LanInv
<1>7. CASE HandleRR(p)
  <2>0. cwin.lower \in Nat /\ swin.lower \in Nat /\ swin.lower >= cwin.lower
    BY Numbers
  <2>1. /\ UNCHANGED <<cret, toServer>> /\ cwin' = moveWindow(cwin, swin.lower)
        /\ swin.lower # previous_sn
    BY <1>2, <1>7, <2>0 DEF HandleRR, AllAcked
  <2>2. /\ cwin'.lower = swin.lower /\ cwin'.current = cwin.current
        /\ cwin'.ptr = cwin.ptr
    <3>1. cwin \in Window(Payload) /\ cwin.current \in Nat BY Numbers
    <3> QED BY <1>3, <2>0, <2>1, <3>1, MoveType
  <2>3. LanWindowInv'
    <3>1. \A i \in cwin'.lower .. (cwin'.current - 1) : cwin'.ptr[SlotOf(i)] = i
      BY <1>3, <2>2, Numbers
    <3>2. SlotsHold(swin, cwin.current)' BY <1>1, <1>3, <2>2 DEF SlotsHold
    <3> QED BY <1>1, <1>3, <2>2, <3>1, <3>2 DEF LanWindowInv
  <2>4. AckInv' /\ OnePacketInv' /\ LanWireInv'
    BY <1>1, <1>2, <2>1 DEF AckInv, OnePacketInv, LanWireInv
  <2>5. LastShortInv'
    BY <1>1, <1>3, <2>1, <2>2, Numbers DEF LanInv, LastShortInv
  <2> QED BY <1>4, <2>3, <2>4, <2>5 DEF LanInv
<1>8. CASE HandleOther(p) BY <1>2, <1>8 DEF HandleOther, IsAnswer
<1> QED BY <1>5, <1>6, <1>7, <1>8 DEF HandleServerResponse

\* A damaged answer sends the client to wait with something to resend.
LEMMA LanClientDamaged ==
  ASSUME AnyNetInv, LanInv, Prompt, NEW p \in toClient,
         HandleServerCRCError(p), UNCHANGED serverVars
  PROVE  LanInv'
<1>1. /\ UNCHANGED <<new_sn, previous_sn, offset, cwin, toServer, sret, sretry,
                    swin, file>>
      /\ toClient' = toClient \ {p}
      /\ cret = "RET_SERVER_DATA" /\ cret' = "RET_ACK_DATA"
  BY DEF HandleServerCRCError, Consume, serverVars
<1>2. toServer = {} /\ toClient' = {} /\ cwin.lower < cwin.current
  BY <1>1 DEF LanInv, OnePacketInv, ClientGone
<1>3. AckInv' /\ OnePacketInv' BY <1>1, <1>2 DEF AckInv, OnePacketInv
<1>4. (LanWindowInv /\ RecoverInv /\ LanWireInv /\ LastShortInv /\ FileIsPrefix)'
  BY <1>1 DEF LanInv, LanWindowInv, SlotsHold, RecoverInv, LanWireInv,
     LastShortInv, FileIsPrefix
<1> QED BY <1>3, <1>4 DEF LanInv

-----------------------------------------------------------------------------
(* Steps of the server. *)

\* The data packet p that a running server takes: it is the only packet, or
\* the client has exited.
LEMMA LanTaken ==
  ASSUME AnyNetInv, LanInv, NEW p \in toServer, ~ ServerGone
  PROVE  \/ ClientGone
         \/ /\ toServer = {p} /\ toClient = {} /\ IsData(p)
            /\ cret # "RET_FILE_DATA" /\ cwin.lower < cwin.current
BY DEF LanInv, OnePacketInv

\* The server answers p, or exits: the answer is the only packet under way.
LEMMA LanAnswered ==
  ASSUME AnyNetInv, LanInv, NEW p \in toServer, ~ ServerGone,
         UNCHANGED <<cret, cwin>>, toServer' = toServer \ {p},
         \/ toClient' = toClient \cup {RR(swin'.lower)} /\ sretry' = 0
         \/ /\ toClient' = toClient \cup {SREJ(swin'.lower)} /\ sretry' = 0
            /\ swin'.lower < cwin.current
         \/ UNCHANGED toClient
         \/ ClientGone
  PROVE  OnePacketInv'
<1>1. CASE ClientGone BY <1>1 DEF OnePacketInv, ClientGone
<1>2. CASE ~ ClientGone
  <2>1. /\ toServer' = {} /\ toClient = {}
        /\ cret # "RET_FILE_DATA" /\ cwin.lower < cwin.current
    BY <1>2, LanTaken
  <2>2. CASE toClient' = toClient \cup {RR(swin'.lower)} /\ sretry' = 0
    <3>1. toClient' = {RR(swin'.lower)} BY <2>1, <2>2
    <3> QED BY <2>1, <2>2, <3>1 DEF OnePacketInv, IsAnswer, RR, Packet
  <2>3. CASE /\ toClient' = toClient \cup {SREJ(swin'.lower)} /\ sretry' = 0
             /\ swin'.lower < cwin.current
    <3>1. toClient' = {SREJ(swin'.lower)} BY <2>1, <2>3
    <3> QED BY <2>1, <2>3, <3>1 DEF OnePacketInv, IsAnswer, SREJ, Packet
  <2>4. CASE UNCHANGED toClient BY <2>1, <2>4 DEF OnePacketInv
  <2> QED BY <1>2, <2>2, <2>3, <2>4
<1> QED BY <1>1, <1>2

\* The parts of LanInv that no step of the server touches.
LEMMA LanServerFrame ==
  ASSUME LanInv, UNCHANGED clientVars, toServer' \subseteq toServer
  PROVE  /\ AckInv' /\ LanWireInv' /\ LastShortInv'
         /\ UNCHANGED <<cret, cwin, new_sn>>
BY DEF LanInv, AckInv, LanWireInv, LastShortInv, clientVars

\* A write loop up to m inside the window extends the prefix.
LEMMA LanAdvance ==
  ASSUME AnyNetInv, LanInv, UNCHANGED <<cwin, new_sn>>,
         NEW w \in Window(Payload), w.lower = swin.lower, w.upper = swin.upper,
         SlotsHold(w, cwin.current),
         NEW m \in w.lower .. w.upper, FilledUpTo(w, m),
         file' = file \o LoadedUpTo(w, m), swin' = moveWindow(w, m)
  PROVE  LanWindowInv' /\ FileIsPrefix'
<1>1. /\ swin.lower \in Nat /\ swin.upper \in Nat /\ cwin.current \in Nat
      /\ swin.upper = swin.lower + WinSz
      /\ file \in Seq(Payload) /\ Len(file) = swin.lower - 1
  BY Numbers
<1>2. /\ new_sn = cwin.current /\ swin.lower <= cwin.current
      /\ \A i \in cwin.lower .. (cwin.current - 1) : cwin.ptr[SlotOf(i)] = i
      /\ \A k \in 1 .. Len(file) : file[k] = k
  BY DEF LanInv, LanWindowInv, FileIsPrefix
<1>3. m \in Nat /\ m >= w.lower BY <1>1
<1>4. /\ \A k \in 1 .. (m - w.lower) : LoadedUpTo(w, m)[k] = w.lower + k - 1
      /\ m <= cwin.current
  BY <1>1, <1>2, LoadedHolds
<1>5. SlotsHold(moveWindow(w, m), cwin.current) BY <1>1, MoveHolds
<1>6. moveWindow(w, m).lower = m BY <1>3, MoveType
<1>7. SlotsHold(swin, cwin.current)' BY <1>5 DEF SlotsHold
<1>8. LanWindowInv' BY <1>2, <1>4, <1>6, <1>7 DEF LanWindowInv
<1>9. LoadedUpTo(w, m) \in Seq(Payload) /\ Len(LoadedUpTo(w, m)) = m - w.lower
  BY <1>3, LoadedType
<1>10. FileIsPrefix'
  <2>1. Len(file') = Len(file) + (m - w.lower) BY <1>1, <1>9, ConcatProperties
  <2>2. ASSUME NEW k \in 1 .. Len(file') PROVE file'[k] = k
    <3>1. CASE k <= Len(file)
      BY <1>1, <1>2, <1>9, <2>1, <3>1, ConcatProperties
    <3>2. CASE k > Len(file)
      <4> DEFINE loaded == LoadedUpTo(w, m)
                 j == k - Len(file)
      <4>1. j \in 1 .. (m - w.lower) /\ j + (w.lower - 1) = k
        BY <1>1, <1>3, <2>1, <3>2
      <4>2. loaded[j] = w.lower + j - 1 BY <1>4, <4>1
      <4>3. loaded \in Seq(Payload) /\ Len(loaded) = m - w.lower BY <1>9
      <4>4. file' = file \o loaded OBVIOUS
      <4> HIDE DEF loaded
      <4>5. (file \o loaded)[k] = loaded[j]
        <5>1. \A i \in 1 .. (Len(file) + Len(loaded)) :
                (file \o loaded)[i] = IF i <= Len(file) THEN file[i]
                                                       ELSE loaded[i - Len(file)]
          BY <1>1, <4>3, ConcatProperties
        <5>2. k \in 1 .. (Len(file) + Len(loaded)) /\ ~ (k <= Len(file))
          BY <1>1, <1>3, <2>1, <3>2, <4>3
        <5> QED BY <5>1, <5>2
      <4> HIDE DEF j
      <4>6. w.lower + j - 1 = k BY <1>1, <4>1
      <4> QED BY <4>2, <4>4, <4>5, <4>6
    <3> QED BY <1>1, <2>1, <3>1, <3>2
  <2> QED BY <2>2 DEF FileIsPrefix
<1> QED BY <1>8, <1>10

\* insertIntoWindow of the data packet p that the server took.
LEMMA LanInsert ==
  ASSUME AnyNetInv, LanInv, NEW p \in toServer, IsData(p),
         p.seq_num >= swin.lower
  PROVE  LET w == insertIntoWindow(swin, p.data, p.seq_num)
         IN  /\ w \in Window(Payload) /\ w.lower = swin.lower
             /\ w.upper = swin.upper /\ w.current = swin.lower
             /\ SlotsHold(w, cwin.current)
<1> DEFINE s == p.seq_num
<1>1. /\ swin \in Window(Payload) /\ swin.upper = swin.lower + WinSz
      /\ swin.lower \in Nat /\ swin.current = swin.lower /\ cwin.current \in Nat
      /\ SlotsHold(swin, cwin.current)
  BY Numbers DEF LanInv, LanWindowInv
<1>2. s \in Nat /\ p.data \in Payload BY DEF AnyNetInv, TypeOK, PacketOf
<1>3. p.data = s /\ s < cwin.current /\ s < swin.upper
  BY DEF LanInv, LanWireInv, AnyNetInv, WireInv
<1>4. s \in Payload /\ s \in swin.lower .. (swin.upper - 1) BY <1>1, <1>2, <1>3
<1>4a. insertIntoWindow(swin, p.data, p.seq_num) = insertIntoWindow(swin, s, s)
  BY <1>3
<1> HIDE DEF s
<1>5. SlotsHold(insertIntoWindow(swin, s, s), cwin.current)
  BY <1>1, <1>3, <1>4, InsertHolds
<1>6. /\ insertIntoWindow(swin, s, s) \in Window(Payload)
      /\ insertIntoWindow(swin, s, s).lower = swin.lower
      /\ insertIntoWindow(swin, s, s).upper = swin.upper
      /\ insertIntoWindow(swin, s, s).current = swin.lower
  BY <1>1, <1>2, <1>4, InsertType
<1> QED BY <1>4a, <1>5, <1>6

\* recv_file_data.
LEMMA LanRecvFileData ==
  ASSUME AnyNetInv, LanInv, Prompt, NEW p \in toServer, recv_file_data(p),
         UNCHANGED clientVars
  PROVE  LanInv'
<1>1. /\ toServer' = toServer \ {p} /\ sretry' = 0 /\ ~ ServerGone
      /\ sret = "RET_RECVFILE_DATA"
  BY DEF recv_file_data, Consume, ServerGone
<1>2. /\ AckInv' /\ LanWireInv' /\ LastShortInv' /\ UNCHANGED <<cret, cwin, new_sn>>
  BY <1>1, LanServerFrame
<1>3. RecoverInv' BY <1>1 DEF RecoverInv
<1>4. swin \in Window(Payload) /\ swin.lower \in Nat /\ swin.upper \in Nat
      /\ p.seq_num \in Nat
  BY Numbers DEF AnyNetInv, TypeOK, PacketOf
<1>5. ASSUME UNCHANGED <<swin, file>> PROVE LanWindowInv' /\ FileIsPrefix'
  BY <1>2, <1>5 DEF LanInv, LanWindowInv, SlotsHold, FileIsPrefix
<1> DEFINE w == insertIntoWindow(swin, p.data, p.seq_num)
<1>6. CASE RecvAtLower(p)
  <2>1. PICK i \in w.lower .. w.upper :
          /\ FilledUpTo(w, i)
          /\ file' = file \o LoadedUpTo(w, i)
          /\ swin' = moveWindow(w, i)
          /\ toClient' = toClient \cup {RR(i)}
    BY <1>6 DEF RecvAtLower
  <2>2. /\ w \in Window(Payload) /\ w.lower = swin.lower
        /\ w.upper = swin.upper /\ SlotsHold(w, cwin.current)
    BY <1>4, <1>6, LanInsert DEF RecvAtLower, IsData
  <2> HIDE DEF w
  <2>3. LanWindowInv' /\ FileIsPrefix' BY <1>2, <2>1, <2>2, LanAdvance
  <2>4. i \in Nat /\ i >= w.lower BY <1>4, <2>2
  <2>5. swin'.lower = i BY <2>1, <2>2, <2>4, MoveType
  <2>6. OnePacketInv' BY <1>1, <1>2, <2>1, <2>5, LanAnswered
  <2> QED BY <1>2, <1>3, <2>3, <2>6 DEF LanInv
<1>7. CASE RecvOutsideWindow(p)
  <2>1. /\ UNCHANGED <<swin, file>>
        /\ toClient' \in {toClient, toClient \cup {RR(swin.lower)}}
    BY <1>7 DEF RecvOutsideWindow
  <2>2. OnePacketInv' BY <1>1, <1>2, <2>1, LanAnswered
  <2> QED BY <1>2, <1>3, <1>5, <2>1, <2>2 DEF LanInv
<1>8. CASE RecvOutOfOrder(p)
  <2>1. /\ swin' = [w EXCEPT !.current = swin.lower]
        /\ toClient' = toClient \cup {SREJ(swin.lower)}
        /\ UNCHANGED file /\ p.seq_num > swin.lower /\ IsData(p)
    BY <1>8 DEF RecvOutOfOrder, IsData
  <2>2. /\ w \in Window(Payload) /\ w.lower = swin.lower
        /\ w.upper = swin.upper /\ SlotsHold(w, cwin.current)
    BY <1>4, <2>1, LanInsert
  <2> HIDE DEF w
  <2>3. /\ swin'.lower = swin.lower /\ swin'.upper = w.upper
        /\ swin'.ptr = w.ptr /\ swin'.occupied = w.occupied
    BY <1>4, <2>1, <2>2, SetCurrentType
  <2>4. SlotsHold(swin, cwin.current)' BY <1>2, <2>2, <2>3 DEF SlotsHold
  <2>5. LanWindowInv' /\ FileIsPrefix'
    BY <1>2, <2>1, <2>3, <2>4 DEF LanInv, LanWindowInv, FileIsPrefix
  <2>6. p.seq_num < cwin.current BY <2>1 DEF LanInv, LanWireInv
  <2>6a. cwin.current \in Nat BY Numbers
  <2>7. swin'.lower < cwin.current BY <1>4, <2>1, <2>3, <2>6, <2>6a
  <2>8. OnePacketInv' BY <1>1, <1>2, <2>1, <2>3, <2>7, LanAnswered
  <2> QED BY <1>2, <1>3, <2>5, <2>8 DEF LanInv
<1>9. CASE RecvEOF(p) \/ RecvOther(p)
  <2>1. UNCHANGED <<swin, file, toClient>> BY <1>9 DEF RecvEOF, RecvOther
  <2>2. OnePacketInv' BY <1>1, <1>2, <2>1, LanAnswered
  <2> QED BY <1>2, <1>3, <1>5, <2>1, <2>2 DEF LanInv
<1> QED BY <1>6, <1>7, <1>8, <1>9 DEF recv_file_data

\* wait_client_packets.
LEMMA LanRecover ==
  ASSUME AnyNetInv, LanInv, Prompt, NEW p \in toServer, wait_client_packets(p),
         UNCHANGED clientVars
  PROVE  LanInv'
<1>1. /\ toServer' = toServer \ {p} /\ sretry' = 0 /\ ~ ServerGone
  BY DEF wait_client_packets, Consume, ServerGone, LanInv, RecoverInv
<1>2. /\ AckInv' /\ LanWireInv' /\ LastShortInv' /\ UNCHANGED <<cret, cwin, new_sn>>
  BY <1>1, LanServerFrame
<1>3. RecoverInv' BY <1>1 DEF RecoverInv
<1>4. /\ swin \in Window(Payload) /\ swin.lower \in Nat /\ swin.upper \in Nat
      /\ swin.current = swin.lower /\ swin.lower >= 1 /\ p.seq_num \in Nat
      /\ swin.upper = swin.lower + WinSz
  <2>1. p.seq_num \in Nat BY DEF AnyNetInv, TypeOK, PacketOf
  <2>2. /\ swin.lower \in Nat /\ cwin.lower \in Nat
        /\ cwin.lower <= swin.lower /\ cwin.lower >= 1
    BY Numbers
  <2> QED BY <2>1, <2>2, Numbers
<1> DEFINE w == insertIntoWindow(swin, p.data, p.seq_num)
<1>5. CASE RecoverInWindow(p)
  <2>1. PICK i \in w.lower .. (w.upper + 1) :
          /\ \/ FilledUpTo(w, i) /\ ~ w.occupied[SlotOf(i)]
             \/ i = w.current
          /\ file' = file \o LoadedUpTo(w, i)
          /\ swin' = moveWindow([w EXCEPT !.current = i], i)
          /\ toClient' = toClient \cup {RR(i)}
    BY <1>5 DEF RecoverInWindow
  <2>2. p.seq_num >= swin.lower BY <1>5 DEF RecoverInWindow
  <2>3. IsData(p) BY <1>4, <2>2 DEF AnyNetInv, WireInv
  <2>4. /\ w \in Window(Payload) /\ w.lower = swin.lower /\ w.current = swin.lower
        /\ w.upper = swin.upper /\ SlotsHold(w, cwin.current)
    BY <2>2, <2>3, LanInsert
  <2> HIDE DEF w
  <2>5. i \in w.lower .. w.upper /\ FilledUpTo(w, i) /\ i \in Nat
    <3>1. CASE FilledUpTo(w, i) /\ ~ w.occupied[SlotOf(i)]
      <4>1. i < w.upper BY <1>4, <2>4, <3>1, FreeSlotInside
      <4> QED BY <1>4, <2>4, <3>1, <4>1
    <3>2. CASE i = w.current BY <1>4, <2>4, <3>2 DEF FilledUpTo
    <3> QED BY <2>1, <3>1, <3>2
  <2> DEFINE v == [w EXCEPT !.current = i]
  <2>6. /\ v \in Window(Payload) /\ v.lower = w.lower /\ v.upper = w.upper
        /\ v.ptr = w.ptr /\ v.occupied = w.occupied
    BY <2>4, <2>5, SetCurrentType
  <2>7. swin' = moveWindow(v, i) BY <2>1
  <2> HIDE DEF v
  <2>8. /\ LoadedUpTo(v, i) = LoadedUpTo(w, i)
        /\ FilledUpTo(v, i) /\ SlotsHold(v, cwin.current)
    BY <2>4, <2>5, <2>6 DEF LoadedUpTo, loadFromWindow, FilledUpTo, SlotsHold
  <2>9. LanWindowInv' /\ FileIsPrefix'
    BY <1>2, <2>1, <2>4, <2>5, <2>6, <2>7, <2>8, LanAdvance
  <2>10. i >= v.lower BY <1>4, <2>4, <2>5, <2>6
  <2>11. swin'.lower = i BY <2>5, <2>6, <2>7, <2>10, MoveType
  <2>12. OnePacketInv' BY <1>1, <1>2, <2>1, <2>11, LanAnswered
  <2> QED BY <1>2, <1>3, <2>9, <2>12 DEF LanInv
<1>6. CASE RecoverOutside(p)
  <2>1. UNCHANGED <<swin, file>> /\ toClient' = toClient \cup {RR(swin.lower)}
    BY <1>4, <1>6 DEF RecoverOutside
  <2>2. OnePacketInv' BY <1>1, <1>2, <2>1, LanAnswered
  <2>3. LanWindowInv' /\ FileIsPrefix'
    BY <1>2, <2>1 DEF LanInv, LanWindowInv, SlotsHold, FileIsPrefix
  <2> QED BY <1>2, <1>3, <2>2, <2>3 DEF LanInv
<1> QED BY <1>5, <1>6 DEF wait_client_packets

\* recv_file_data giving up, client_termination_wait and damaged packets.
LEMMA LanServerRest ==
  ASSUME AnyNetInv, LanInv, Prompt, UNCHANGED clientVars,
         \/ RecvGiveUp
         \/ \E p \in toServer : client_termination_wait(p) \/ ServerCRCError(p)
  PROVE  LanInv'
<1>1. /\ toServer' \subseteq toServer /\ UNCHANGED <<swin, file>>
      /\ sretry' \in {0, sretry} /\ sret' \in {sret, "exit"}
  BY DEF RecvGiveUp, client_termination_wait, ServerCRCError, Consume
<1>2. /\ AckInv' /\ LanWireInv' /\ LastShortInv' /\ UNCHANGED <<cret, cwin, new_sn>>
  BY <1>1, LanServerFrame
<1>3. LanWindowInv' /\ FileIsPrefix'
  BY <1>1, <1>2 DEF LanInv, LanWindowInv, SlotsHold, FileIsPrefix
<1>4. RecoverInv' BY <1>1 DEF LanInv, RecoverInv
<1>5. OnePacketInv'
  <2>1. CASE RecvGiveUp
    <3>1. /\ sretry > MaxRetry /\ sret = "RET_RECVFILE_DATA" /\ sret' = "exit"
          /\ UNCHANGED <<toServer, toClient>>
      BY <2>1 DEF RecvGiveUp
    <3>2. sretry # 0 BY <3>1
    <3>3. ClientGone \/ toClient = {}
      BY <3>1, <3>2 DEF LanInv, OnePacketInv, ServerGone
    <3> QED BY <1>2, <3>1, <3>3 DEF OnePacketInv, ClientGone, ServerGone
  <2>2. CASE \E p \in toServer : client_termination_wait(p) \/ ServerCRCError(p)
    <3>1. PICK p \in toServer : client_termination_wait(p) \/ ServerCRCError(p)
      BY <2>2
    <3>2. /\ toServer' = toServer \ {p} /\ ~ ServerGone
          /\ UNCHANGED toClient \/ sret = "RET_TERMINATION"
      BY <3>1 DEF client_termination_wait, ServerCRCError, Consume, ServerGone
    <3>3. sret = "RET_TERMINATION" => ClientGone
      BY DEF AnyNetInv, EndInv, ClientGone
    <3> QED BY <1>2, <3>2, <3>3, LanAnswered
  <2> QED BY <2>1, <2>2
<1> QED BY <1>2, <1>3, <1>4, <1>5 DEF LanInv

-----------------------------------------------------------------------------
(* Time and the network. *)

\* A second passes: the client resends only a packet that is outstanding.
LEMMA LanTick == ASSUME AnyNetInv, LanInv, Tick PROVE LanInv'
<1> DEFINE again == DataPkt(cwin.lower, loadFromWindow(cwin, cwin.lower))
<1>1. /\ UNCHANGED <<new_sn, previous_sn, offset, cwin>>
      /\ UNCHANGED cret \/ (cret = "RET_SERVER_DATA" /\ cret' = "RET_FILE_DATA")
      /\ \/ UNCHANGED toServer
         \/ /\ cret = "RET_ACK_DATA" /\ previous_sn # cwin.lower
            /\ toServer' = toServer \cup {again} /\ UNCHANGED cret
  BY DEF Tick, ClientTimeout, ResponseTimeout, AckTimeout, clientVars
<1>2. /\ UNCHANGED <<swin, file>> /\ sret' \in {sret, "exit"}
      /\ UNCHANGED toClient \/ sret = "RET_TERMINATION"
      /\ UNCHANGED sretry \/ sret # "RET_RECOVER_PKTS"
  <2>1. CASE ServerTimeout
    BY <2>1 DEF ServerTimeout, RecvTimeout, RecoverTimeout, TerminationTimeout
  <2>2. CASE UNCHANGED <<serverVars, toClient>> BY <2>2 DEF serverVars
  <2> QED BY <2>1, <2>2 DEF Tick
<1>3. Quiet BY DEF Tick
<1>4. sret = "RET_TERMINATION" => ClientGone BY DEF AnyNetInv, EndInv, ClientGone
<1>5. (LanWindowInv /\ RecoverInv /\ LastShortInv /\ FileIsPrefix)'
  BY <1>1, <1>2 DEF LanInv, LanWindowInv, SlotsHold, RecoverInv, LastShortInv,
     FileIsPrefix
<1>6. AckInv' BY <1>1 DEF LanInv, AckInv
<1>7. cret = "RET_ACK_DATA" /\ previous_sn # cwin.lower =>
        /\ cwin.lower < cwin.current
        /\ again.data = cwin.lower /\ again.seq_num = cwin.lower /\ IsData(again)
  <2>1. again.seq_num = cwin.lower /\ IsData(again)
        /\ again.data = cwin.ptr[SlotOf(cwin.lower)]
    BY DEF DataPkt, Packet, IsData, loadFromWindow
  <2>2. cret = "RET_ACK_DATA" /\ previous_sn # cwin.lower => cwin.lower < cwin.current
    BY DEF LanInv, AckInv
  <2>3. cwin.lower \in Nat /\ cwin.current \in Nat BY Numbers
  <2>4. cwin.lower < cwin.current => cwin.ptr[SlotOf(cwin.lower)] = cwin.lower
    BY <2>3 DEF LanInv, LanWindowInv
  <2> QED BY <2>1, <2>2, <2>4
<1> HIDE DEF again
<1>8. LanWireInv' BY <1>1, <1>7 DEF LanInv, LanWireInv
<1>9. OnePacketInv'
  <2>1. CASE ClientGone BY <1>1, <2>1 DEF OnePacketInv, ClientGone
  <2>2. CASE ~ ClientGone
    <3>1. toClient = {} /\ toClient' = {} BY <1>2, <1>3, <1>4, <2>2 DEF Quiet
    <3>2. CASE ServerGone BY <1>2, <3>1, <3>2 DEF OnePacketInv, ServerGone
    <3>3. CASE ~ ServerGone
      <4>1. toServer = {} BY <1>3, <3>3 DEF Quiet
      <4>2. CASE UNCHANGED toServer BY <3>1, <4>1, <4>2 DEF OnePacketInv
      <4>3. CASE ~ UNCHANGED toServer
        <5>1. toServer' = {again} BY <1>1, <4>1, <4>3
        <5> QED BY <1>1, <1>7, <3>1, <4>3, <5>1 DEF OnePacketInv
      <4> QED BY <4>2, <4>3
    <3> QED BY <3>2, <3>3
  <2> QED BY <2>1, <2>2
<1> QED BY <1>5, <1>6, <1>8, <1>9 DEF LanInv

\* A dropped packet leaves nothing under way.
LEMMA LanDrop == ASSUME LanInv, Drop \/ UNCHANGED vars PROVE LanInv'
<1>1. /\ UNCHANGED <<cret, new_sn, previous_sn, offset, cwin, sret, sretry, swin, file>>
      /\ \/ UNCHANGED <<toServer, toClient>>
         \/ /\ \E p \in toServer : toServer' = toServer \ {p}
            /\ UNCHANGED toClient
         \/ /\ \E p \in toClient : toClient' = toClient \ {p}
            /\ UNCHANGED toServer
  BY DEF Drop, vars, clientVars, serverVars
<1>2. (LanWindowInv /\ AckInv /\ RecoverInv /\ LanWireInv /\ LastShortInv
       /\ FileIsPrefix)'
  BY <1>1 DEF LanInv, LanWindowInv, SlotsHold, AckInv, RecoverInv, LanWireInv,
     LastShortInv, FileIsPrefix
<1>3. OnePacketInv'
  BY <1>1 DEF LanInv, OnePacketInv, ClientGone, ServerGone
<1> QED BY <1>2, <1>3 DEF LanInv

\* Every step on a LAN keeps LanInv.
LEMMA LanStep == ASSUME Prompt, AnyNetInv, LanInv, [Next]_vars PROVE LanInv'
<1>1. CASE ClientStep
  <2>1. UNCHANGED serverVars BY <1>1 DEF ClientStep
  <2>2. CASE sendFileBuffer /\ UNCHANGED toClient
    BY <2>1, <2>2, LanClientQuiet, LanSendChunk DEF sendFileBuffer
  <2>3. CASE (AckPacketReady \/ AckGiveUp) /\ UNCHANGED toClient
    BY <2>1, <2>3, LanClientQuiet
  <2>4. CASE \E p \in toClient : HandleServerResponse(p)
    BY <2>1, <2>4, LanResponse
  <2> QED BY <1>1, <2>2, <2>3, <2>4 DEF ClientStep
<1>2. CASE ServerStep
  <2>1. UNCHANGED clientVars BY <1>2 DEF ServerStep
  <2>2. CASE RecvGiveUp BY <2>1, <2>2, LanServerRest
  <2>3. CASE \E p \in toServer : recv_file_data(p) BY <2>1, <2>3, LanRecvFileData
  <2>4. CASE \E p \in toServer : wait_client_packets(p) BY <2>1, <2>4, LanRecover
  <2>5. CASE \E p \in toServer : client_termination_wait(p)
    BY <2>1, <2>5, LanServerRest
  <2> QED BY <1>2, <2>2, <2>3, <2>4, <2>5 DEF ServerStep
<1>3. CASE ReceiveDamaged
  <2>1. CASE \E p \in toClient : HandleServerCRCError(p) /\ UNCHANGED serverVars
    BY <2>1, LanClientDamaged
  <2>2. CASE \E p \in toServer : ServerCRCError(p) /\ UNCHANGED clientVars
    BY <2>2, LanServerRest
  <2> QED BY <1>3, <2>1, <2>2 DEF ReceiveDamaged
<1>4. CASE Tick BY <1>4, LanTick
<1>5. CASE AnyTimeout BY <1>5 DEF AnyTimeout
<1>6. CASE Drop \/ UNCHANGED vars BY <1>6, LanDrop
<1> QED BY <1>1, <1>2, <1>3, <1>4, <1>5, <1>6 DEF Next

\* On a LAN with zeroed memory the invariant of the window contents holds.
THEOREM LanCorrect == ASSUME Prompt, HeapZeroed PROVE Spec => []LanInv
<1>1. Init => LanInv BY LanInit
<1>2. AnyNetInv /\ LanInv /\ [Next]_vars => LanInv' BY LanStep
<1> QED BY <1>1, <1>2, AnyNetCorrect, PTL DEF Spec

\* On a LAN with zeroed memory every data packet carries the chunk that its
\* number names, the resent ones included.
THEOREM WireCarriesItsChunkCorrect ==
  ASSUME Prompt, HeapZeroed PROVE Spec => []WireCarriesItsChunk
<1>1. LanInv => WireCarriesItsChunk
  BY DEF LanInv, LanWireInv, WireCarriesItsChunk, IsData
<1> QED BY <1>1, LanCorrect, PTL

\* On a LAN with zeroed memory the server's file is always a prefix of the
\* client's.
THEOREM FileIsPrefixCorrect ==
  ASSUME Prompt, HeapZeroed PROVE Spec => []FileIsPrefix
<1>1. LanInv => FileIsPrefix BY DEF LanInv
<1> QED BY <1>1, LanCorrect, PTL

\* On a LAN with zeroed memory, when the last chunk is a short one, a client
\* that exits with status 1 had a chunk without acknowledgement.
THEOREM GiveUpMeansUnackedCorrect ==
  ASSUME Prompt, HeapZeroed, LastShort, NumChunks > 0
  PROVE  Spec => []GiveUpMeansUnacked
<1>1. LanInv => GiveUpMeansUnacked
  BY DEF LanInv, LastShortInv, GiveUpMeansUnacked
<1> QED BY <1>1, LanCorrect, PTL

-----------------------------------------------------------------------------
(* Refinement. *)

\* How a step may change the file and the client's exit status.
LEMMA StepEffect ==
  ASSUME AnyNetInv, AnyNetInv', [Next]_vars
  PROVE  \/ /\ UNCHANGED cret \/ {cret, cret'} \cap Exits = {}
            /\ swin'.lower >= swin.lower
         \/ /\ UNCHANGED file /\ cret \notin Exits
            /\ cret' = "exit1" \/ (cret' = "exit0" /\ swin'.lower > NumChunks)
<1>0. swin.lower \in Nat /\ swin.upper \in Nat /\ swin \in Window(Payload)
  BY Numbers
<1>1. CASE ClientStep
  <2>1. UNCHANGED <<swin, file>> BY <1>1 DEF ClientStep, serverVars
  <2>2. cret \notin Exits
    BY <1>1 DEF ClientStep, sendFileBuffer, SendWindowFull, SendEndOfFile,
       SendChunk, AckPacketReady, AckGiveUp, HandleServerResponse, Exits
  <2>3. cret' = "exit0" => swin'.lower > NumChunks BY DEF AnyNetInv, EndInv
  <2>4. cret' \in {"RET_FILE_DATA", "RET_SERVER_DATA", "RET_ACK_DATA"} \cup Exits
    BY DEF AnyNetInv, TypeOK
  <2> QED BY <1>0, <2>1, <2>2, <2>3, <2>4 DEF Exits
<1>2. CASE ServerStep
  <2>1. UNCHANGED cret BY <1>2 DEF ServerStep, clientVars
  <2>2. swin'.lower >= swin.lower
    <3>1. CASE RecvGiveUp BY <1>0, <3>1 DEF RecvGiveUp
    <3>2. ASSUME NEW p \in toServer, recv_file_data(p)
          PROVE  swin'.lower >= swin.lower
      <4> DEFINE w == insertIntoWindow(swin, p.data, p.seq_num)
      <4>1. p.seq_num \in Nat /\ p.data \in Payload
        BY DEF AnyNetInv, TypeOK, PacketOf
      <4>2. w \in Window(Payload) /\ w.lower = swin.lower /\ w.upper = swin.upper
        BY <1>0, <4>1, InsertType
      <4>3. CASE RecvAtLower(p)
        <5>1. PICK i \in w.lower .. w.upper : swin' = moveWindow(w, i)
          BY <4>3 DEF RecvAtLower
        <5> HIDE DEF w
        <5>2. i \in Nat /\ i >= w.lower BY <1>0, <4>2
        <5> QED BY <1>0, <4>2, <5>1, <5>2, MoveType
      <4>4. CASE RecvOutOfOrder(p)
        <5>1. swin' = [w EXCEPT !.current = swin.lower] BY <4>4 DEF RecvOutOfOrder
        <5> HIDE DEF w
        <5> QED BY <1>0, <4>2, <5>1, SetCurrentType
      <4>5. CASE RecvOutsideWindow(p) \/ RecvEOF(p) \/ RecvOther(p)
        BY <1>0, <4>5 DEF RecvOutsideWindow, RecvEOF, RecvOther
      <4> QED BY <3>2, <4>3, <4>4, <4>5 DEF recv_file_data
    <3>3. ASSUME NEW p \in toServer, wait_client_packets(p)
          PROVE  swin'.lower >= swin.lower
      <4> DEFINE w == insertIntoWindow(swin, p.data, p.seq_num)
      <4>1. p.seq_num \in Nat /\ p.data \in Payload
        BY DEF AnyNetInv, TypeOK, PacketOf
      <4>2. w \in Window(Payload) /\ w.lower = swin.lower /\ w.upper = swin.upper
        BY <1>0, <4>1, InsertType
      <4>3. CASE RecoverInWindow(p)
        <5>1. PICK i \in w.lower .. (w.upper + 1) :
                swin' = moveWindow([w EXCEPT !.current = i], i)
          BY <4>3 DEF RecoverInWindow
        <5> HIDE DEF w
        <5> DEFINE v == [w EXCEPT !.current = i]
        <5>2. i \in Nat /\ i >= w.lower BY <1>0, <4>2
        <5>3. v \in Window(Payload) /\ v.lower = w.lower
          BY <4>2, <5>2, SetCurrentType
        <5>4. swin' = moveWindow(v, i) BY <5>1
        <5> HIDE DEF v
        <5> QED BY <1>0, <4>2, <5>2, <5>3, <5>4, MoveType
      <4>4. CASE RecoverOutside(p) BY <1>0, <4>4 DEF RecoverOutside
      <4> QED BY <3>3, <4>3, <4>4 DEF wait_client_packets
    <3>4. CASE \E p \in toServer : client_termination_wait(p)
      BY <1>0, <3>4 DEF client_termination_wait
    <3> QED BY <1>2, <3>1, <3>2, <3>3, <3>4 DEF ServerStep
  <2> QED BY <2>1, <2>2
<1>3. CASE Tick \/ AnyTimeout
  <2>1. UNCHANGED swin
    BY <1>3 DEF Tick, AnyTimeout, ServerTimeout, RecvTimeout, RecoverTimeout,
       TerminationTimeout, serverVars
  <2>2. UNCHANGED cret \/ (cret = "RET_SERVER_DATA" /\ cret' = "RET_FILE_DATA")
    BY <1>3 DEF Tick, AnyTimeout, ClientTimeout, ResponseTimeout, AckTimeout,
       clientVars
  <2> QED BY <1>0, <2>1, <2>2 DEF Exits
<1>4. CASE ReceiveDamaged
  <2>1. CASE \E p \in toClient : HandleServerCRCError(p) /\ UNCHANGED serverVars
    BY <1>0, <2>1 DEF HandleServerCRCError, serverVars, Exits
  <2>2. CASE \E p \in toServer : ServerCRCError(p) /\ UNCHANGED clientVars
    BY <1>0, <2>2 DEF ServerCRCError, clientVars
  <2> QED BY <1>4, <2>1, <2>2 DEF ReceiveDamaged
<1>5. CASE Drop \/ UNCHANGED vars
  BY <1>0, <1>5 DEF Drop, vars, clientVars, serverVars
<1> QED BY <1>1, <1>2, <1>3, <1>4, <1>5 DEF Next

\* The file in the terms of FileCopy.
FileValueInv ==
  /\ file = Copy!Prefix(swin.lower - 1) /\ Len(file) = swin.lower - 1
  /\ swin.lower \in Nat /\ swin.lower - 1 \in 0 .. NumChunks

\* The file that LanInv and AnyNetInv describe is a prefix in the sense of
\* FileCopy.
LEMMA FileValue == AnyNetInv /\ LanInv => FileValueInv
<1> SUFFICES ASSUME AnyNetInv, LanInv PROVE FileValueInv OBVIOUS
<1>1. /\ swin.lower \in Nat /\ cwin.lower \in Nat /\ cwin.current \in Nat
      /\ cwin.lower >= 1 /\ cwin.lower <= swin.lower
      /\ offset \in 0 .. NumChunks /\ new_sn = offset + 1
      /\ file \in Seq(Payload) /\ Len(file) = swin.lower - 1
  BY Numbers
<1>2. swin.lower <= cwin.current /\ new_sn = cwin.current
      /\ \A k \in 1 .. Len(file) : file[k] = k
  BY DEF LanInv, LanWindowInv, FileIsPrefix
<1>3. swin.lower - 1 \in 0 .. NumChunks BY <1>1, <1>2
<1>4. file = [k \in 1 .. Len(file) |-> file[k]] BY <1>1
<1>5. file = [k \in 1 .. (swin.lower - 1) |-> k] BY <1>1, <1>2, <1>4
<1> QED BY <1>1, <1>3, <1>5 DEF FileValueInv, Copy!Prefix

\* On a LAN with zeroed memory the transfer implements FileCopy: the copy is a
\* prefix that only grows, and success means the whole file.
THEOREM Refinement ==
  ASSUME Prompt, HeapZeroed PROVE Spec => ImplementsFileCopy
<1> DEFINE status == CASE cret = "exit0" -> "success" [] cret = "exit1" -> "gave up"
                       [] OTHER -> "running"
<1>1. Init => Copy!Init BY DEF Init, Copy!Init
<1>2. ASSUME AnyNetInv, AnyNetInv', LanInv, LanInv', [Next]_vars
      PROVE  [Copy!Next]_<<file, status>>
  <2>1. /\ file = Copy!Prefix(swin.lower - 1) /\ Len(file) = swin.lower - 1
        /\ swin.lower \in Nat /\ swin.lower - 1 \in 0 .. NumChunks
    BY <1>2, FileValue DEF FileValueInv
  <2>2. /\ file' = Copy!Prefix(swin'.lower - 1)
        /\ swin'.lower \in Nat /\ swin'.lower - 1 \in 0 .. NumChunks
    <3>1. FileValueInv' BY <1>2, FileValue, PTL
    <3> QED BY <3>1 DEF FileValueInv
  <2>3. CASE /\ UNCHANGED cret \/ {cret, cret'} \cap Exits = {}
             /\ swin'.lower >= swin.lower
    <3>1. UNCHANGED status BY <2>3 DEF Exits
    <3>2. CASE swin'.lower = swin.lower
      <4>1. UNCHANGED file BY <2>1, <2>2, <3>2
      <4> QED BY <3>1, <4>1
    <3>3. CASE swin'.lower # swin.lower
      <4>1. swin'.lower - 1 \in (Len(file) + 1) .. NumChunks
        BY <2>1, <2>2, <2>3, <3>3
      <4>2. Copy!Extend BY <2>2, <3>1, <4>1 DEF Copy!Extend
      <4> QED BY <4>2 DEF Copy!Next
    <3> QED BY <3>2, <3>3
  <2>4. CASE /\ UNCHANGED file /\ cret \notin Exits /\ cret' = "exit1"
    <3>1. status = "running" /\ status' = "gave up" BY <2>4 DEF Exits
    <3>2. Copy!GiveUp BY <2>4, <3>1 DEF Copy!GiveUp
    <3> QED BY <3>2 DEF Copy!Next
  <2>5. CASE /\ UNCHANGED file /\ cret \notin Exits
             /\ cret' = "exit0" /\ swin'.lower > NumChunks
    <3>1. status = "running" /\ status' = "success" BY <2>5 DEF Exits
    <3>2. swin'.lower - 1 = NumChunks BY <2>2, <2>5
    <3>3. file = Copy!Prefix(NumChunks) BY <2>2, <2>5, <3>2
    <3>4. Copy!Succeed BY <2>5, <3>1, <3>3 DEF Copy!Succeed
    <3> QED BY <3>4 DEF Copy!Next
  <2> QED BY <1>2, <2>3, <2>4, <2>5, StepEffect
<1> QED BY <1>1, <1>2, AnyNetCorrect, LanCorrect, PTL
        DEF Spec, ImplementsFileCopy, Copy!Spec
===============================================================================
