------------------------------- MODULE FileCopy -------------------------------
(***************************************************************************)
(* What rcopy promises (Program_3/README): the server's copy is at every   *)
(* moment a prefix of the client's file, it only grows, and the client     *)
(* reports success only when the copy is the whole file.  The client may   *)
(* give up at any moment, and the copy may still grow after that, by       *)
(* packets that were already on their way.                                 *)
(***************************************************************************)
EXTENDS Integers, Sequences

CONSTANT NumChunks   \* the file is the chunks 1, 2, ... NumChunks

VARIABLES
  file,     \* the chunks the server has written, in the order of the writes
  outcome   \* "running", "success" or "gave up"

Prefix(n) == [k \in 1 .. n |-> k]

Init == file = <<>> /\ outcome = "running"

\* A write loop of the server extends the copy by some number of chunks.
Extend ==
  /\ \E n \in (Len(file) + 1) .. NumChunks : file' = Prefix(n)
  /\ UNCHANGED outcome

\* The client exits with status 0.
Succeed ==
  /\ outcome = "running" /\ file = Prefix(NumChunks)
  /\ outcome' = "success" /\ UNCHANGED file

\* The client exits with status 1.
GiveUp ==
  /\ outcome = "running"
  /\ outcome' = "gave up" /\ UNCHANGED file

Next == Extend \/ Succeed \/ GiveUp

Spec == Init /\ [][Next]_<<file, outcome>>
==============================================================================
