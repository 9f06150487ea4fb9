----------------------------- MODULE HandleTable -----------------------------
(***************************************************************************)
(* clientinfo_str, the chat server's table of handles (Program_2,          *)
(* helper.c): one entry per registered client with its handle, the length  *)
(* of the handle and the client's socket.  An entry that is given up keeps *)
(* its handle and its socket, and a shorter handle that is copied over a   *)
(* longer one leaves the longer one's tail.                                *)
(*                                                                         *)
(* A handle is a nonempty sequence of characters; the array that holds it  *)
(* is the sequence of the bytes that were ever copied there, followed by   *)
(* zero bytes.                                                             *)
(***************************************************************************)
EXTENDS Integers, Sequences, FiniteSetsExt

CONSTANT TableSize  \* 100 in the source

ASSUME TableSizeAssumption == TableSize \in Nat \ {0}

Entries == 1 .. TableSize
NUL     == "NUL"

NotFound == -1

\* The handle of an entry, as addHandle compares it.
Name(e) == SubSeq(e.handle, 1, e.handlelength)

initializeHelper ==
  [i \in Entries |-> [isUsed |-> FALSE, handle |-> <<>>, handlelength |-> 0,
                      socketNumber |-> 0]]

MutantInUse(t, handle) == FALSE

InUse(t, handle) == \E i \in Entries : t[i].isUsed /\ Name(t[i]) = handle

FreeEntries(t) == {i \in Entries : ~ t[i].isUsed}

\* addHandle returns -1 for a handle in use and for a full table.
Refused(t, handle) == InUse(t, handle) \/ FreeEntries(t) = {}

\* The entry addHandle takes, the first free one.
MutantFreeEntry(t) == Max(FreeEntries(t))

FreeEntry(t) == Min(FreeEntries(t))

\* memcpy of the new handle over the old one.
Overlay(new, old) == new \o SubSeq(old, Len(new) + 1, Len(old))

MutantAddHandle(t, handle, csocket) ==
  IF Refused(t, handle) THEN t
  ELSE [t EXCEPT ![FreeEntry(t)].handle = Overlay(handle, @),
                 ![FreeEntry(t)].handlelength = Len(handle),
                 ![FreeEntry(t)].socketNumber = csocket]

addHandle(t, handle, csocket) ==
  IF Refused(t, handle) THEN t
  ELSE [t EXCEPT ![FreeEntry(t)] =
          [isUsed |-> TRUE, handle |-> Overlay(handle, @.handle),
           handlelength |-> Len(handle), socketNumber |-> csocket]]

\* memcmp over the length of the name that is looked for, which may hold
\* zero bytes and more; neither isUsed nor handlelength is looked at.
MutantMatches(e, name) ==
  \E k \in DOMAIN name :
    name[k] # IF k \in DOMAIN e.handle THEN e.handle[k] ELSE NUL

Matches(e, name) ==
  \A k \in DOMAIN name :
    name[k] = IF k \in DOMAIN e.handle THEN e.handle[k] ELSE NUL

getSocketNumber(t, name) ==
  LET found == {i \in Entries : Matches(t[i], name)}
  IN  IF found = {} THEN NotFound ELSE t[Min(found)].socketNumber

\* The loop of recvFromClient when a connection is closed.
MutantRelease(t, socket) == t

release(t, socket) ==
  [i \in Entries |-> IF t[i].socketNumber = socket
                     THEN [t[i] EXCEPT !.isUsed = FALSE] ELSE t[i]]
==============================================================================
