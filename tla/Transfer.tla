------------------------------- MODULE Transfer -------------------------------
(***************************************************************************)
(* The data phase of one rcopy transfer (Program_3): the client's loop of  *)
(* udpClient.c (sendFileBuffer, HandleServerResponse,                      *)
(* GetDataAcknowlegement) against one forked server of udpServer.c         *)
(* (recv_file_data, wait_client_packets, client_termination_wait), over    *)
(* UDP through the error library (sendtoErr drops packets and flips bits). *)
(* It starts where the filename exchange ends; the handshake is the module *)
(* Session.                                                                *)
(*                                                                         *)
(* Data.  The file is the chunks 1 .. NumChunks, all of buffer_size bytes  *)
(* but possibly the last (LastShort).  What a packet or a window slot      *)
(* carries is the number of the chunk, or Garbage for memory that malloc   *)
(* returned and nobody wrote.                                              *)
(*                                                                         *)
(* Two networks, chosen by Prompt:                                         *)
(*  - Prompt = TRUE, a LAN with a round trip far below the one-second poll *)
(*    timeout: packets arrive once, in order, before any timeout; they are *)
(*    lost or damaged only by the error library; and the polls of both     *)
(*    sides expire together, once per second (Tick);                       *)
(*  - Prompt = FALSE, UDP with no promise at all: a packet sent may arrive *)
(*    late, more than once, in any order or never, and a poll may expire   *)
(*    at any moment.                                                       *)
(***************************************************************************)
EXTENDS Windowing

CONSTANTS
  NumChunks,   \* read() calls that return data before end of file
  LastShort,   \* the last of them returns less than buffer_size
  MaxRetry,    \* 10 in the source: both retry counters give up above it
  RecoverWait, \* 10 in the source: seconds wait_client_packets waits
  Prompt,      \* which network, see above
  HeapZeroed,  \* malloc happened to return zeroed memory to windowreset
  MaxErrors,   \* bound: packets the error library drops (Prompt) or damages
  MaxSeq       \* bound: sequence numbers GetDataAcknowlegement sends

ASSUME TransferAssumption ==
  /\ NumChunks \in Nat /\ MaxRetry \in Nat /\ RecoverWait \in Nat \ {0}
  /\ MaxErrors \in Nat /\ MaxSeq \in Nat /\ MaxSeq > NumChunks
  /\ LastShort \in BOOLEAN /\ Prompt \in BOOLEAN /\ HeapZeroed \in BOOLEAN

Garbage == 0
Payload == 0 .. NumChunks

VARIABLES
  \* the client process
  cret,         \* main's retvalue, or "exit0" / "exit1" once it has exited
  new_sn,       \* next sequence number
  previous_sn,  \* sequence number after the last packet, 0 while unknown
  retryCount,   \* consecutive timeouts of GetDataAcknowlegement
  offset,       \* chunks read from file_ptr so far
  cwin,         \* its window
  \* the forked server process
  sret,         \* forkedServer's retvalue, or "exit"
  sretry,       \* its retryCount
  waited,       \* seconds spent in the 10-second poll of wait_client_packets
  swin,         \* its window
  file,         \* chunks written to file_ptr, in order
  \* the network
  toServer, toClient,  \* packets under way
  errors               \* packets dropped or damaged so far

clientVars == <<cret, new_sn, previous_sn, retryCount, offset, cwin>>
serverVars == <<sret, sretry, waited, swin, file>>
vars == <<cret, new_sn, previous_sn, retryCount, offset, cwin,
          sret, sretry, waited, swin, file, toServer, toClient, errors>>

-----------------------------------------------------------------------------
(* Packets: the header and payload of sendBuf. *)

Packet(flag, seq_num, data) == [flag |-> flag, seq_num |-> seq_num, data |-> data]

DataPkt(seq_num, data) == Packet("FLAG_DATA_PACKET", seq_num, data)
RR(seq_num)   == Packet("FLAG_RR", seq_num, Garbage)
SREJ(seq_num) == Packet("FLAG_SREJ", seq_num, Garbage)
EOFPkt        == Packet("FLAG_EOF", 0, Garbage)
EndPkt        == Packet("FLAG_END_CONNECTION", 0, Garbage)
FilenamePkt   == Packet("FLAG_FILENAME_RCOPY_TO_SERVER", 0, Garbage)
OkPkt         == Packet("FLAG_FILENAME_SERVER_TO_RCOPY_OK", 0, Garbage)

\* exit_client sends the end packet right behind the end-of-file packet and a
\* prompt network keeps that order.
Deliverable(net) ==
  IF Prompt THEN {p \in net : p = EndPkt => EOFPkt \notin net} ELSE net

\* recvfrom takes the packet; without Prompt the network may bring it again.
Consume(net, p) == IF Prompt THEN net \ {p} ELSE net

ClientGone == cret \in {"exit0", "exit1"}
ServerGone == sret = "exit"

\* Nothing is under way to a process that still listens.
Quiet ==
  /\ toServer = {} \/ ServerGone
  /\ toClient = {} \/ ClientGone

-----------------------------------------------------------------------------
(* What windowreset leaves in the two arrays it does not clear. *)

HeapContents ==
  IF HeapZeroed THEN {[k \in Slots |-> FALSE]} ELSE [Slots -> BOOLEAN]

Init ==
  /\ cret = "RET_FILE_DATA"
  /\ new_sn = 1 /\ previous_sn = 0 /\ retryCount = 0 /\ offset = 0
  /\ cwin = windowreset([k \in Slots |-> Garbage], [k \in Slots |-> FALSE])
  /\ sret = "RET_RECVFILE_DATA" /\ sretry = 0 /\ waited = 0
  /\ \E occupied \in HeapContents :
       swin = windowreset([k \in Slots |-> Garbage], occupied)
  /\ file = <<>>
  \* Copies of the filename exchange may still be under way.
  /\ toServer \in (IF Prompt THEN {{}} ELSE SUBSET {FilenamePkt})
  /\ toClient \in (IF Prompt THEN {{}} ELSE SUBSET {OkPkt})
  /\ errors = 0

-----------------------------------------------------------------------------
(* The client. *)

MutantWindowFull(w) == w.current = w.upper + 1

WindowFull(w) == w.current = w.upper

\* The n-th read() returned less than buffer_size.
MutantShortRead(n) == FALSE

ShortRead(n) == LastShort /\ n = NumChunks

\* The number of an RR says that the whole file has arrived.
MutantAllAcked(seq_num) == seq_num >= previous_sn

AllAcked(seq_num) == seq_num = previous_sn

\* sendFileBuffer with a full window: wait for acknowledgements.
SendWindowFull ==
  /\ cret = "RET_FILE_DATA" /\ WindowFull(cwin)
  /\ cret' = "RET_ACK_DATA"
  /\ UNCHANGED <<new_sn, previous_sn, retryCount, offset, cwin, toServer>>

\* sendFileBuffer when read() returns 0: only now does a file whose length is
\* a multiple of buffer_size get its previous_sn.
SendEndOfFile ==
  /\ cret = "RET_FILE_DATA" /\ ~ WindowFull(cwin)
  /\ offset = NumChunks
  /\ previous_sn' = new_sn
  /\ cret' = "RET_ACK_DATA"
  /\ UNCHANGED <<new_sn, retryCount, offset, cwin, toServer>>

\* sendFileBuffer with a chunk to send.
SendChunk ==
  /\ cret = "RET_FILE_DATA" /\ ~ WindowFull(cwin)
  /\ offset < NumChunks
  /\ offset' = offset + 1
  /\ cwin' = [insertIntoWindow(cwin, offset + 1, new_sn)
                EXCEPT !.current = cwin.current + 1]
  /\ toServer' = toServer \cup {DataPkt(new_sn, offset + 1)}
  /\ new_sn' = new_sn + 1
  /\ previous_sn' = IF ShortRead(offset + 1) THEN new_sn + 1 ELSE previous_sn
  /\ cret' = "RET_SERVER_DATA"
  /\ UNCHANGED retryCount

sendFileBuffer == SendWindowFull \/ SendEndOfFile \/ SendChunk

\* HandleServerResponse receiving the intact packet p.
HandleSREJ(p) ==
  /\ p.flag = "FLAG_SREJ"
  /\ toServer' = toServer \cup {DataPkt(p.seq_num, loadFromWindow(cwin, p.seq_num))}
  /\ UNCHANGED <<cret, cwin>>

exit_client(p) ==
  /\ p.flag = "FLAG_RR" /\ AllAcked(p.seq_num)
  /\ toServer' = toServer \cup {EOFPkt, EndPkt}
  /\ cret' = "exit0"
  /\ UNCHANGED cwin

HandleRR(p) ==
  /\ p.flag = "FLAG_RR" /\ ~ AllAcked(p.seq_num)
  /\ cwin' = IF p.seq_num >= cwin.lower THEN moveWindow(cwin, p.seq_num) ELSE cwin
  /\ UNCHANGED <<cret, toServer>>

HandleOther(p) ==
  /\ p.flag \notin {"FLAG_SREJ", "FLAG_RR"}
  /\ UNCHANGED <<cret, cwin, toServer>>

HandleServerResponse(p) ==
  /\ cret = "RET_SERVER_DATA" /\ p \in Deliverable(toClient)
  /\ toClient' = Consume(toClient, p)
  /\ HandleSREJ(p) \/ exit_client(p) \/ HandleRR(p) \/ HandleOther(p)
  /\ UNCHANGED <<new_sn, previous_sn, retryCount, offset>>

\* HandleServerResponse when recv_buf returns CRC_ERROR.
HandleServerCRCError(p) ==
  /\ cret = "RET_SERVER_DATA" /\ p \in Deliverable(toClient)
  /\ toClient' = Consume(toClient, p)
  /\ cret' = "RET_ACK_DATA"
  /\ UNCHANGED <<new_sn, previous_sn, retryCount, offset, cwin, toServer>>

\* GetDataAcknowlegement when a packet is waiting (it is not read here).
AckPacketReady ==
  /\ cret = "RET_ACK_DATA" /\ retryCount <= MaxRetry
  /\ toClient # {}
  /\ retryCount' = 0
  /\ cret' = "RET_SERVER_DATA"
  /\ UNCHANGED <<new_sn, previous_sn, offset, cwin, toServer>>

\* GetDataAcknowlegement gives up.
AckGiveUp ==
  /\ cret = "RET_ACK_DATA" /\ retryCount > MaxRetry
  /\ cret' = "exit1"
  /\ UNCHANGED <<new_sn, previous_sn, retryCount, offset, cwin, toServer>>

\* pollCall(1000) expires in HandleServerResponse.
ResponseTimeout ==
  /\ cret = "RET_SERVER_DATA"
  /\ cret' = "RET_FILE_DATA"
  /\ UNCHANGED <<new_sn, previous_sn, retryCount, offset, cwin, toServer>>

\* The client counts one more timeout.
MutantNextRetry(n) == n

NextRetry(n) == n + 1

\* pollCall(1000) expires in GetDataAcknowlegement: send the packet at lower
\* again, unless the end of the file is known and everything is acknowledged.
AckTimeout ==
  /\ cret = "RET_ACK_DATA" /\ retryCount <= MaxRetry
  /\ retryCount' = NextRetry(retryCount)
  /\ \/ previous_sn = cwin.lower /\ UNCHANGED toServer
     \/ /\ previous_sn # cwin.lower
        /\ cwin.lower <= MaxSeq
        /\ toServer' = toServer \cup
             {DataPkt(cwin.lower, loadFromWindow(cwin, cwin.lower))}
  /\ UNCHANGED <<cret, new_sn, previous_sn, offset, cwin>>

ClientTimeout == ResponseTimeout \/ AckTimeout

-----------------------------------------------------------------------------
(* The forked server. *)

\* recv_file_data, the packet at lower: write it and all that follow it.
RecvAtLower(p) ==
  /\ p.flag = "FLAG_DATA_PACKET" /\ p.seq_num = swin.lower
  /\ LET w == insertIntoWindow(swin, p.data, p.seq_num)
     IN  \E i \in w.lower .. w.upper :
           /\ FilledUpTo(w, i)
           /\ i < w.upper => ~ w.occupied[SlotOf(i)]
           /\ file' = file \o LoadedUpTo(w, i)
           /\ swin' = moveWindow(w, i)
           /\ toClient' = toClient \cup {RR(i)}
  /\ UNCHANGED sret

\* recv_file_data, a packet that was written before is acknowledged again; one
\* beyond the window ends the child (exitForkedServer).
MutantRecvOutsideWindow(p) ==
  /\ p.flag = "FLAG_DATA_PACKET"
  /\ p.seq_num < swin.lower \/ p.seq_num > swin.upper
  /\ UNCHANGED <<sret, swin, file, toClient>>

RecvOutsideWindow(p) ==
  /\ p.flag = "FLAG_DATA_PACKET"
  /\ p.seq_num < swin.lower \/ p.seq_num > swin.upper
  /\ sret' = IF p.seq_num > swin.upper THEN "exit" ELSE sret
  /\ toClient' = IF p.seq_num > swin.upper THEN toClient
                                           ELSE toClient \cup {RR(swin.lower)}
  /\ UNCHANGED <<swin, file>>

\* recv_file_data, a packet out of order (up to and including upper).
RecvOutOfOrder(p) ==
  /\ p.flag = "FLAG_DATA_PACKET"
  /\ p.seq_num > swin.lower /\ p.seq_num <= swin.upper
  /\ swin' = [insertIntoWindow(swin, p.data, p.seq_num)
                EXCEPT !.current = swin.lower]
  /\ toClient' = toClient \cup {SREJ(swin.lower)}
  /\ sret' = "RET_RECOVER_PKTS"
  /\ UNCHANGED file

RecvEOF(p) ==
  /\ p.flag = "FLAG_EOF"
  /\ sret' = "RET_TERMINATION"
  /\ UNCHANGED <<swin, file, toClient>>

RecvOther(p) ==
  /\ p.flag \notin {"FLAG_DATA_PACKET", "FLAG_EOF"}
  /\ UNCHANGED <<sret, swin, file, toClient>>

recv_file_data(p) ==
  /\ sret = "RET_RECVFILE_DATA" /\ sretry <= MaxRetry
  /\ p \in Deliverable(toServer)
  /\ toServer' = Consume(toServer, p)
  /\ sretry' = 0
  /\ \/ RecvAtLower(p) \/ RecvOutsideWindow(p) \/ RecvOutOfOrder(p)
     \/ RecvEOF(p) \/ RecvOther(p)
  /\ UNCHANGED waited

\* recv_file_data gives up: exitForkedServer.
RecvGiveUp ==
  /\ sret = "RET_RECVFILE_DATA" /\ sretry > MaxRetry
  /\ sret' = "exit"
  /\ UNCHANGED <<sretry, waited, swin, file, toServer, toClient>>

\* wait_client_packets, a sequence number in the window (upper included); the
\* flag is not looked at.  The scan for the first free slot leaves current
\* alone when there is none, and then nothing is written.
RecoverInWindow(p) ==
  /\ p.seq_num >= swin.lower /\ p.seq_num <= swin.upper
  /\ LET w == insertIntoWindow(swin, p.data, p.seq_num)
     IN  \E i \in w.lower .. (w.upper + 1) :
           /\ \/ FilledUpTo(w, i) /\ ~ w.occupied[SlotOf(i)]
              \/ FilledUpTo(w, w.upper + 2) /\ i = w.current
           /\ file' = file \o LoadedUpTo(w, i)
           /\ swin' = moveWindow([w EXCEPT !.current = i], i)
           /\ toClient' = toClient \cup {RR(i)}
  /\ sret' = "RET_RECVFILE_DATA"

RecoverOutside(p) ==
  /\ p.seq_num < swin.lower \/ p.seq_num > swin.upper
  /\ toClient' = toClient \cup {RR(swin.current)}
  /\ UNCHANGED <<sret, swin, file>>

wait_client_packets(p) ==
  /\ sret = "RET_RECOVER_PKTS" /\ p \in Deliverable(toServer)
  /\ toServer' = Consume(toServer, p)
  /\ waited' = 0
  /\ RecoverInWindow(p) \/ RecoverOutside(p)
  /\ UNCHANGED sretry

\* client_termination_wait sends its own end packet before every poll.
client_termination_wait(p) ==
  /\ sret = "RET_TERMINATION" /\ p \in Deliverable(toServer)
  /\ toServer' = Consume(toServer, p)
  /\ toClient' = toClient \cup {EndPkt}
  /\ sret' = IF p.flag = "FLAG_END_CONNECTION" THEN "exit" ELSE sret
  /\ UNCHANGED <<sretry, waited, swin, file>>

\* recv_buf returns CRC_ERROR in one of the three server handlers.
ServerCRCError(p) ==
  /\ ~ ServerGone /\ p \in Deliverable(toServer)
  /\ sret = "RET_RECVFILE_DATA" => sretry <= MaxRetry
  /\ toServer' = Consume(toServer, p)
  /\ sretry' = IF sret = "RET_RECVFILE_DATA" THEN 0 ELSE sretry
  /\ waited' = 0
  /\ toClient' = IF sret = "RET_TERMINATION" THEN toClient \cup {EndPkt}
                                             ELSE toClient
  /\ UNCHANGED <<sret, swin, file>>

\* The server counts one more timeout.
ServerNextRetry(n) == n + 1

\* pollCall(1000) expires in recv_file_data.
MutantRecvTimeout ==
  /\ sret = "RET_RECVFILE_DATA"
  /\ sretry' = ServerNextRetry(sretry)
  /\ UNCHANGED <<sret, waited, swin, file, toClient>>

RecvTimeout ==
  /\ sret = "RET_RECVFILE_DATA" /\ sretry <= MaxRetry
  /\ sretry' = ServerNextRetry(sretry)
  /\ UNCHANGED <<sret, waited, swin, file, toClient>>

\* pollCall(10000) in wait_client_packets: one more second, or it expires and
\* exitForkedServer ends the child.
RecoverTimeout ==
  /\ sret = "RET_RECOVER_PKTS"
  /\ \/ Prompt /\ waited + 1 < RecoverWait /\ waited' = waited + 1 /\ UNCHANGED sret
     \/ /\ Prompt => waited + 1 >= RecoverWait
        /\ sret' = "exit"
        /\ UNCHANGED waited
  /\ UNCHANGED <<sretry, swin, file, toClient>>

\* pollCall(1000) expires in client_termination_wait, which counts and never
\* looks at the count (so the model lets the count stop at MaxRetry + 1).
TerminationTimeout ==
  /\ sret = "RET_TERMINATION"
  /\ sretry' = IF sretry > MaxRetry THEN sretry ELSE sretry + 1
  /\ toClient' = toClient \cup {EndPkt}
  /\ UNCHANGED <<sret, waited, swin, file>>

ServerTimeout == RecvTimeout \/ RecoverTimeout \/ TerminationTimeout

-----------------------------------------------------------------------------
(* The network and the composition. *)

\* sendtoErr drops a packet (in a prompt network nothing else loses one).
Drop ==
  /\ Prompt /\ errors < MaxErrors
  /\ \/ \E p \in toServer : toServer' = toServer \ {p} /\ UNCHANGED toClient
     \/ \E p \in toClient : toClient' = toClient \ {p} /\ UNCHANGED toServer
  /\ errors' = errors + 1
  /\ UNCHANGED <<clientVars, serverVars>>

ClientStep ==
  /\ \/ sendFileBuffer /\ UNCHANGED toClient
     \/ AckPacketReady /\ UNCHANGED toClient
     \/ AckGiveUp /\ UNCHANGED toClient
     \/ \E p \in toClient : HandleServerResponse(p)
  /\ UNCHANGED <<serverVars, errors>>

ServerStep ==
  /\ \/ RecvGiveUp
     \/ \E p \in toServer : \/ recv_file_data(p) \/ wait_client_packets(p)
                            \/ client_termination_wait(p)
  /\ UNCHANGED <<clientVars, errors>>

\* A packet whose bits sendtoErr flipped is received: the checksum fails.
ReceiveDamaged ==
  /\ errors < MaxErrors
  /\ errors' = errors + 1
  /\ \/ (\E p \in toClient : HandleServerCRCError(p)) /\ UNCHANGED serverVars
     \/ (\E p \in toServer : ServerCRCError(p)) /\ UNCHANGED clientVars

\* Prompt network: a second passes with nothing under way, and the poll of
\* every process that is still running expires.
Tick ==
  /\ Prompt /\ Quiet
  /\ \/ ClientTimeout
     \/ ClientGone /\ UNCHANGED <<clientVars, toServer>>
  /\ \/ ServerTimeout
     \/ ServerGone /\ UNCHANGED <<serverVars, toClient>>
  /\ UNCHANGED errors

\* Any other network: a poll may expire at any moment.
AnyTimeout ==
  /\ ~ Prompt
  /\ \/ ClientTimeout /\ UNCHANGED <<serverVars, toClient>>
     \/ ServerTimeout /\ UNCHANGED <<clientVars, toServer>>
  /\ UNCHANGED errors

Next == ClientStep \/ ServerStep \/ Drop \/ ReceiveDamaged \/ Tick \/ AnyTimeout

Spec == Init /\ [][Next]_vars

\* Both processes run: a step that stays possible is taken.  Nothing is
\* assumed of the error library but its budget of MaxErrors packets.
FairSpec ==
  Spec /\ WF_vars(ClientStep) /\ WF_vars(ServerStep) /\ WF_vars(Tick)
-----------------------------------------------------------------------------
(* Properties. *)

Exits == {"exit0", "exit1"}

PacketOf(flags, seq_nums, data) == [flag : flags, seq_num : seq_nums, data : data]

\* Type correctness of both processes and of what is on the wire.
TypeOK ==
  /\ cret \in {"RET_FILE_DATA", "RET_SERVER_DATA", "RET_ACK_DATA"} \cup Exits
  /\ new_sn \in Nat /\ previous_sn \in Nat /\ offset \in 0 .. NumChunks
  /\ retryCount \in 0 .. (MaxRetry + 1) /\ sretry \in 0 .. (MaxRetry + 1)
  /\ cwin \in Window(Payload) /\ swin \in Window(Payload)
  /\ sret \in {"RET_RECVFILE_DATA", "RET_RECOVER_PKTS", "RET_TERMINATION", "exit"}
  /\ waited \in 0 .. (RecoverWait - 1)
  /\ file \in Seq(Payload)
  /\ toServer \subseteq PacketOf({"FLAG_DATA_PACKET", "FLAG_EOF",
       "FLAG_END_CONNECTION", "FLAG_FILENAME_RCOPY_TO_SERVER"}, Nat, Payload)
  /\ toClient \subseteq PacketOf({"FLAG_RR", "FLAG_SREJ",
       "FLAG_END_CONNECTION", "FLAG_FILENAME_SERVER_TO_RCOPY_OK"}, Nat, {Garbage})
  /\ errors \in 0 .. MaxErrors

\* On any network, no data packet under way reaches the upper end of the
\* server's window.  So the branch of recv_file_data that exits on
\* seq_num > upper is never taken, and a packet numbered upper, which both
\* handlers of the server accept and put into the slot of lower, never comes.
WireBelowUpper ==
  \A p \in toServer : p.flag = "FLAG_DATA_PACKET" => p.seq_num < swin.upper

\* On any network, whatever the client's window has moved past is in the
\* server's file: an acknowledgement never runs ahead of the write loops.
AckedIsWritten == cwin.lower - 1 <= Len(file)

\* On any network, when the client has exited with status 0, or the server
\* has believed an end-of-file packet, the server has written at least as
\* many chunks as the file has.
EndMeansWritten ==
  cret = "exit0" \/ sret = "RET_TERMINATION" => Len(file) >= NumChunks

\* Every data packet carries the chunk its number names, the retransmissions
\* of HandleServerResponse and GetDataAcknowlegement included, which copy a
\* window slot without asking what it holds.
WireCarriesItsChunk ==
  \A p \in toServer : p.flag = "FLAG_DATA_PACKET" => p.data = p.seq_num

\* The server's file is at every moment a prefix of the client's file.
FileIsPrefix == \A k \in 1 .. Len(file) : file[k] = k

\* A client that exits with status 1 was still waiting for an acknowledgement
\* of some chunk.
GiveUpMeansUnacked == cret = "exit1" => cwin.lower <= NumChunks

\* The abstract specification, with the client's exit status as outcome.
Copy == INSTANCE FileCopy WITH
  outcome <- CASE cret = "exit0" -> "success" [] cret = "exit1" -> "gave up"
               [] OTHER -> "running"

\* The transfer implements it: prefixes only, growing only, success only with
\* the whole file.
ImplementsFileCopy == Copy!Spec

\* The client process always ends, whatever the error library does.
ClientTerminates == <>(cret \in Exits)

\* The client ends with status 0 unless more than MaxRetry - 2 packets are
\* lost or damaged: no smaller number uses up the retries of either side.
CopySucceeds == <>(cret = "exit0" \/ errors > MaxRetry - 2)

\* Once the client has ended the server leaves the data phase by itself,
\* whatever was lost, and it ends when nothing was: client_termination_wait,
\* which never gives up, needs the end packet that is sent once.
ServerTerminates ==
  /\ cret \in Exits ~> sret \in {"RET_TERMINATION", "exit"}
  /\ <>(sret = "exit" \/ errors > 0)
==============================================================================
