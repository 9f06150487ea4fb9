----------------------------- MODULE TransferInv -----------------------------
(***************************************************************************)
(* The inductive invariants behind the theorems of TransferProofs: why the *)
(* handlers of udpClient.c and udpServer.c keep the promises of Transfer.  *)
(***************************************************************************)
EXTENDS Transfer

IsData(p) == p.flag = "FLAG_DATA_PACKET"
IsAnswer(p) == p.flag \in {"FLAG_RR", "FLAG_SREJ"}

-----------------------------------------------------------------------------
(* On any network. *)

\* The client's window keeps its size, and its numbers their order.
ClientWindowInv ==
  /\ cwin.lower >= 1 /\ cwin.upper = cwin.lower + WinSz
  /\ cwin.lower <= cwin.current /\ cwin.current <= cwin.upper
  /\ new_sn <= cwin.current
  /\ new_sn = offset + 1
  /\ previous_sn \in {0, NumChunks + 1}

\* The server's window starts behind what it has written.
ServerWindowInv ==
  /\ swin.upper = swin.lower + WinSz
  /\ swin.current = swin.lower
  /\ Len(file) = swin.lower - 1

\* What is on the wire was inside both windows when it was sent, and the
\* server's only moves forward.
WireInv ==
  /\ \A p \in toServer : IsData(p) => p.seq_num < swin.upper
  /\ \A p \in toServer : ~ IsData(p) => p.seq_num = 0
  /\ \A p \in toClient : IsAnswer(p) => p.seq_num \in 1 .. swin.lower
  /\ cwin.lower <= swin.lower

\* The end packets exist only once the client has exited with status 0, which
\* it did for an RR that the server sent when the whole file was written.
EndInv ==
  /\ \A p \in toServer :
       p.flag \in {"FLAG_EOF", "FLAG_END_CONNECTION"} => cret = "exit0"
  /\ sret = "RET_TERMINATION" => cret = "exit0"
  /\ cret = "exit0" => swin.lower > NumChunks

\* The inductive invariant of both processes over any network: why an
\* acknowledgement never runs ahead of the write loops of udpServer.c.
AnyNetInv ==
  TypeOK /\ ClientWindowInv /\ ServerWindowInv /\ WireInv /\ EndInv

-----------------------------------------------------------------------------
(* On a LAN with zeroed memory. *)

\* Every occupied slot of the window w holds the chunk that its sequence number
\* names, and that number is below n.
SlotsHold(w, n) ==
  \A i \in w.lower .. (w.upper - 1) :
    w.occupied[SlotOf(i)] => w.ptr[SlotOf(i)] = i /\ i < n

\* Nothing is written or resent that the client has not read from its file.
LanWindowInv ==
  /\ new_sn = cwin.current
  /\ swin.lower <= cwin.current
  /\ \A i \in cwin.lower .. (cwin.current - 1) : cwin.ptr[SlotOf(i)] = i
  /\ SlotsHold(swin, cwin.current)

\* Waiting for acknowledgements, the client has something to resend or knows
\* that everything is acknowledged.
AckInv ==
  cret = "RET_ACK_DATA" =>
    cwin.lower < cwin.current \/ previous_sn = cwin.lower

\* The client sends a new chunk only when nothing is under way: between two
\* running processes there is at most one packet, a data packet or an answer
\* that the server has not outdated since.
OnePacketInv ==
  \/ ClientGone
  \/ ServerGone /\ toClient = {}
  \/ toServer = {} /\ toClient = {}
  \/ /\ cret # "RET_FILE_DATA" /\ cwin.lower < cwin.current
     /\ \/ /\ toClient = {}
           /\ \E p \in toServer : toServer = {p} /\ IsData(p)
        \/ /\ toServer = {}
           /\ \E p \in toClient :
                /\ toClient = {p} /\ IsAnswer(p) /\ p.seq_num = swin.lower
                /\ p.flag = "FLAG_SREJ" => swin.lower < cwin.current
                /\ sretry = 0

\* The server enters recovery with its retry counter at zero and recovery does
\* not count, so no answer is under way when recv_file_data gives up.
RecoverInv == sret = "RET_RECOVER_PKTS" => sretry = 0

LanWireInv ==
  \A p \in toServer :
    IsData(p) => p.data = p.seq_num /\ p.seq_num < cwin.current

\* The end of a file with a short last chunk is known as soon as it is read.
LastShortInv ==
  LastShort /\ NumChunks > 0 =>
    /\ offset = NumChunks => previous_sn = NumChunks + 1
    /\ cwin.lower <= NumChunks

\* The inductive invariant over a LAN: why no slot is resent or written with
\* another content than its sequence number names.
LanInv ==
  /\ LanWindowInv /\ AckInv /\ OnePacketInv /\ RecoverInv
  /\ LanWireInv /\ LastShortInv /\ FileIsPrefix
==============================================================================
