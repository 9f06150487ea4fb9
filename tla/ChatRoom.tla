------------------------------- MODULE ChatRoom -------------------------------
(***************************************************************************)
(* What the chat programs promise about broadcasts: one room.  Whoever has *)
(* asked for a handle is a member, or a guest when it was refused, and     *)
(* both may speak.  A text that is read is at that moment in the inbox of  *)
(* every other member who is present, behind everything that was said      *)
(* before.  So all inboxes agree on the order of what they share, and      *)
(* nobody repeats or makes up anything.  Members and guests leave the room *)
(* only after they have gone.  When the room closes in the middle of a     *)
(* text, some of those present have it and some do not.                    *)
(*                                                                         *)
(* With Together a reader may take several things at once and notices only *)
(* the first: texts of one speaker are lost before anybody has them, or    *)
(* some that follow each other vanish from one inbox.  Without Together    *)
(* nothing is lost and nobody misses anything.                             *)
(***************************************************************************)
EXTENDS Integers, Sequences

CONSTANTS Users, Together

VARIABLES
  open,     \* the room exists
  members,  \* those whose handle is registered
  guests,   \* those whose handle was refused
  present,  \* those who have not gone
  spoken,   \* how many texts of each were read
  inbox     \* what has been delivered to each, as <<speaker, number>>

vars == <<open, members, guests, present, spoken, inbox>>

Init ==
  /\ open = TRUE /\ members = {} /\ guests = {} /\ present = Users
  /\ spoken = [u \in Users |-> 0] /\ inbox = [u \in Users |-> <<>>]

\* Texts of u are read and nobody gets them.
Lose(u) ==
  /\ spoken'[u] >= spoken[u] /\ (~ Together => spoken'[u] = spoken[u])
  /\ spoken' = [spoken EXCEPT ![u] = spoken'[u]]
  /\ UNCHANGED inbox

\* Texts of u are read and the audience gets the first.
Deliver(u, audience) ==
  /\ spoken'[u] > spoken[u] /\ (~ Together => spoken'[u] = spoken[u] + 1)
  /\ spoken' = [spoken EXCEPT ![u] = spoken'[u]]
  /\ inbox' = [d \in Users |-> IF d \in audience THEN Append(inbox[d], <<u, spoken[u] + 1>>)
                                                ELSE inbox[d]]

\* Some texts that follow each other vanish from the inbox of d.
Misses(d) ==
  /\ \/ UNCHANGED inbox
     \/ /\ Together
        /\ \E i \in 0 .. Len(inbox[d]) : \E j \in i .. Len(inbox[d]) :
             inbox' = [inbox EXCEPT ![d] = SubSeq(@, 1, i) \o SubSeq(@, j + 1, Len(@))]
  /\ UNCHANGED <<open, members, guests, spoken>>

Join(u) ==
  /\ open /\ u \notin members \cup guests
  /\ \/ members' = members \cup {u} /\ UNCHANGED guests
     \/ guests' = guests \cup {u} /\ UNCHANGED members
  /\ Lose(u) /\ UNCHANGED <<open, present>>

Miss(d) == Misses(d) /\ UNCHANGED present

Go(d) == d \in present /\ present' = present \ {d} /\ Misses(d)

Leave(u) ==
  /\ open /\ u \in (members \cup guests) \ present
  /\ members' = members \ {u} /\ guests' = guests \ {u}
  /\ UNCHANGED <<open, present, spoken, inbox>>

Audience(u) == (members \cap present) \ {u}

Say(u) ==
  /\ open /\ u \in members \cup guests
  /\ Deliver(u, Audience(u)) \/ Lose(u)
  /\ UNCHANGED <<open, members, guests, present>>

\* The room closes, perhaps while u speaks.
Close ==
  /\ open /\ open' = FALSE
  /\ guests' = {} /\ UNCHANGED <<members, present>>
  /\ \/ UNCHANGED <<spoken, inbox>>
     \/ \E u \in Users : Lose(u)
     \/ \E u \in members \cup guests : \E reached \in SUBSET Audience(u) : Deliver(u, reached)

Next == \/ \E u \in Users : Join(u) \/ Miss(u) \/ Go(u) \/ Leave(u) \/ Say(u)
        \/ Close

Spec == Init /\ [][Next]_vars
==============================================================================
