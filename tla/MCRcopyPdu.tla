------------------------------ MODULE MCRcopyPdu ------------------------------
(* Packets for TLC: numbers around the limits of a byte and of a word, data *)
(* of no byte, of one, and of more than one, up to an odd number of them.   *)
EXTENDS RcopyPdu

EdgeBytes == {0, 1, 255}
EdgeSeqs  == {0, 1, 255, 256, 65535, 65536, 2147483647}
ShortData == UNION {[1 .. n -> EdgeBytes] : n \in 0 .. 3}
==============================================================================
