------------------------------ MODULE Windowing ------------------------------
(***************************************************************************)
(* The circular send/receive window of rcopy (Program_3/windowing.c), used *)
(* by the client (udpClient.c) and by the forked server (udpServer.c).     *)
(*                                                                         *)
(* A window is a record of the fields of CircularQWindow.  ptr[k] is what  *)
(* loadFromWindow would copy out of slot k (buffer and buf_size together); *)
(* the seq_num a slot also stores is never read by any code and is left    *)
(* out.  win_sz never changes after windowreset, so it is the constant     *)
(* WinSz.  The operators return the window after the call.                 *)
(***************************************************************************)
EXTENDS Integers, Sequences

CONSTANT WinSz   \* the window_size argument of rcopy

\* A window of size 0 divides by zero in every operation; checkArgs does not
\* reject it (the README lists it as a hazard that is not modelled).
ASSUME WinSzAssumption == WinSz \in Nat \ {0}

Slots == 0 .. (WinSz - 1)

\* Windows whose slots hold members of Payload, the contents of packets.
Window(Payload) ==
  [lower : Nat, current : Nat, upper : Nat,
   ptr : [Slots -> Payload], occupied : [Slots -> BOOLEAN]]

\* idx = seq_num % window->win_sz
SlotOf(seq_num) == seq_num % WinSz

\* Both arrays come from malloc and are not cleared: their contents are
\* whatever the heap holds, so they are parameters here.
windowreset(ptr, occupied) ==
  [lower |-> 1, current |-> 1, upper |-> WinSz + 1,
   ptr |-> ptr, occupied |-> occupied]

insertIntoWindow(w, packet, seq_num) ==
  [w EXCEPT !.ptr = [w.ptr EXCEPT ![SlotOf(seq_num)] = packet],
            !.occupied = [w.occupied EXCEPT ![SlotOf(seq_num)] = TRUE]]

\* Copies the slot whatever it holds: nothing compares it with seq_num.
loadFromWindow(w, seq_num) == w.ptr[SlotOf(seq_num)]

\* removeFromWindow(w, seq_num) exists in the source and has no caller.

MutantMoveWindow(w, new_lower) ==
  [w EXCEPT !.lower = new_lower, !.upper = w.upper + (new_lower - w.lower),
            !.current = IF new_lower > w.current THEN new_lower ELSE w.current]

moveWindow(w, new_lower) ==
  [w EXCEPT
     !.lower = new_lower,
     !.upper = w.upper + (new_lower - w.lower),
     !.current = IF new_lower > w.current THEN new_lower ELSE w.current,
     !.occupied = [k \in Slots |->
                     /\ w.occupied[k]
                     /\ \A i \in w.lower .. (new_lower - 1) : SlotOf(i) # k]]

\* Every slot from lower up to, and not including, seq_num is occupied.
FilledUpTo(w, seq_num) ==
  \A i \in w.lower .. (seq_num - 1) : w.occupied[SlotOf(i)]

\* What a loop of loadFromWindow calls from lower to seq_num - 1 copies out.
MutantLoadedUpTo(w, seq_num) ==
  [k \in 1 .. (seq_num - w.lower - 1) |-> loadFromWindow(w, w.lower + k - 1)]

LoadedUpTo(w, seq_num) ==
  [k \in 1 .. (seq_num - w.lower) |-> loadFromWindow(w, w.lower + k - 1)]
==============================================================================
