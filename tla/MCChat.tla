------------------------------- MODULE MCChat -------------------------------
(* Instances of Chat for TLC: handles of two characters, none of which is a *)
(* prefix of another, except where a run is about prefixes.  With UniLen = 3 *)
(* two characters stand for the source's seven.                              *)
EXTENDS Chat

CONSTANTS u1, u2, u3

\* Everybody has a handle of their own.
OwnHandles == [u \in Users |-> CASE u = u1 -> <<"a", "n">> [] u = u2 -> <<"b", "o">>
                                 [] OTHER -> <<"c", "y">>]
\* The third user asks for the first one's handle.
SharedHandle == [u \in Users |-> IF u = u2 THEN <<"b", "o">> ELSE <<"a", "n">>]
\* The second user's handle is longer than the first one's, which begins it.
PrefixHandles == [u \in Users |-> IF u = u1 THEN <<"b", "o">> ELSE <<"b", "o", "b">>]
\* Handles of one character, short of what %m sends.
ShortHandles == [u \in Users |-> IF u = u1 THEN <<"a">> ELSE <<"b">>]
\* The second user's handle is one character short of what %m sends.
MixedHandles == [u \in Users |-> IF u = u1 THEN <<"a", "n">> ELSE <<"b">>]
==============================================================================
