------------------------------ MODULE MCSession ------------------------------
(* Instances of Session for TLC: every client copies to a file of its own. *)
EXTENDS Session

OwnFiles == [c \in Clients |-> c]
==============================================================================
