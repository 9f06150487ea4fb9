---------------------------- MODULE SessionProofs ----------------------------
(***************************************************************************)
(* First, clients of rcopy's server do not get into each other's way, on   *)
(* either network, for any number of clients, files, tries, timeouts,      *)
(* errors and children.  The argument: main and its children copy the      *)
(* address of the packet they work on, so that the port a client holds,    *)
(* and the port of every packet to or from it, has been bound by a child   *)
(* forked for that client; and a child that was forked for data, whose     *)
(* answer is worth nothing, exists only when its client is past the        *)
(* exchange of names.                                                      *)
(*                                                                         *)
(* Second, on a LAN whose errors are fewer than a client's tries, every    *)
(* transfer reaches the child that opened its file.  The argument: between *)
(* a client and its server at most one packet is under way, and each try   *)
(* that comes to nothing is paid for by an error or by another client that *)
(* drew the port first and is served from then on.                         *)
(***************************************************************************)
EXTENDS Session, BasicLemmas, FiniteSetTheorems, TLAPS

USE SessionAssumption, JunkAssumption

Phases == {"naming", "sending", "done", "exit1"}

\* A port of which c may know: a child forked for c has bound it.
Knows(c, port) == port \in Nat \ {0} /\ HasBound(c, port)

ClientRecords == [phase : Phases, tries : Nat, polling : BOOLEAN,
                  fserver : Nat, replies : Nat]
ChildRecords  == [peer : Clients, name : Files \cup {Junk},
                  state : {"forked", "waiting", "serving", "exited"},
                  retryCount : Nat, port : Nat]

TypeInv ==
  /\ client \in [Clients -> ClientRecords]
  /\ child \in Seq(ChildRecords)
  /\ opener \in [Files -> Nat]

\* A port is bound by one child at a time.
PortsInv ==
  /\ \A n \in DOMAIN child : /\ child[n].state = "forked" => child[n].port = 0
                             /\ Bound(n) => child[n].port # 0
  /\ \A m, n \in DOMAIN child :
       Bound(m) /\ Bound(n) /\ child[m].port = child[n].port => m = n

\* A client talks to main or to a port it may know.
AddressInv ==
  \A c \in Clients : client[c].fserver = MainServer \/ Knows(c, client[c].fserver)

\* A child works on the name its client has sent, or on a data packet of a
\* client that no longer waits for an answer to its name.
NameInv ==
  \A n \in DOMAIN child :
    \/ child[n].name = ToFile[child[n].peer]
    \/ child[n].name = Junk /\ client[child[n].peer].phase # "naming"

OpenerInv ==
  \A f \in Files : opener[f] # 0 => opener[f] \in DOMAIN child /\ child[opener[f]].name = f

\* What a packet from a client says of it, and what a packet from a child does.
FromClient(p) ==
  /\ p.src \in Clients /\ p.flag \in {"FILENAME", "DATA"}
  /\ p.dst = MainServer \/ Knows(p.src, p.dst)
  /\ p.flag = "DATA" => client[p.src].phase # "naming"

FromChild(p) ==
  /\ p.dst \in Clients /\ Knows(p.dst, p.src) /\ p.flag \in {"OK", "NAK", "RR"}
  /\ p.flag = "NAK" => ToFile[p.dst] \in Unwritable \/ client[p.dst].phase # "naming"

NetInv == \A p \in net : FromClient(p) \/ FromChild(p)

RefusedInv == \A c \in Clients : client[c].phase = "exit1" => ToFile[c] \in Unwritable

IsolationInv ==
  /\ TypeInv /\ PortsInv /\ AddressInv /\ NameInv /\ OpenerInv /\ NetInv /\ RefusedInv

LEMMA InitIsolation == Init => IsolationInv
  BY DEF Init, IsolationInv, TypeInv, PortsInv, AddressInv, NameInv, OpenerInv, NetInv,
         RefusedInv, ClientRecords, Phases, MainServer

LEMMA InvImpliesIsolation == IsolationInv => Isolation
<1> SUFFICES ASSUME IsolationInv PROVE Isolation
  OBVIOUS
<1> USE DEF IsolationInv
<1>1. /\ MainServer = 0 /\ Clients \cap Nat = {}
      /\ \A n \in DOMAIN child : /\ child[n].port \in Nat
                                 /\ child[n].state \in {"forked", "waiting", "serving", "exited"}
  <2>1. \A n \in DOMAIN child : child[n] \in ChildRecords
    BY DEF TypeInv
  <2>2. QED
    BY <2>1 DEF ChildRecords, MainServer
<1>2. ASSUME NEW n \in DOMAIN child, Bound(n), NEW c, c # child[n].peer,
             HasBound(c, child[n].port)
      PROVE  GaveUp(c, child[n].port)
  <2>1. PICK m \in DOMAIN child : child[m].peer = c /\ child[m].port = child[n].port
    BY <1>2 DEF HasBound
  <2>2. child[m].port # 0 /\ m # n /\ ~ Bound(m)
    BY <1>2, <2>1 DEF PortsInv
  <2>3. child[m].state = "exited"
    <3>1. child[m].state \in {"forked", "waiting", "serving", "exited"}
      BY <1>1
    <3>2. child[m].state # "forked"
      BY <2>2 DEF PortsInv
    <3>3. QED
      BY <2>2, <3>1, <3>2 DEF Bound
  <2>4. QED
    BY <2>1, <2>3 DEF GaveUp
<1>3. ASSUME NEW p \in net
      PROVE  /\ p.src \notin Clients => HasBound(p.dst, p.src)
             /\ p.dst \notin Clients \cup {MainServer} => HasBound(p.src, p.dst)
  BY <1>1 DEF NetInv, FromClient, FromChild, Knows
<1>4. ASSUME NEW p \in net, NEW n \in DOMAIN child, Bound(n)
      PROVE  /\ child[n].port = p.dst /\ child[n].peer # p.src => GaveUp(p.src, p.dst)
             /\ child[n].port = p.src /\ child[n].peer # p.dst => GaveUp(p.dst, p.src)
  <2>1. child[n].port \notin Clients \cup {MainServer}
    BY <1>1, <1>4 DEF PortsInv
  <2>2. QED
    BY <1>2, <1>3, <1>4, <2>1
<1>5. ASSUME NEW f \in Files, opener[f] # 0
      PROVE  ToFile[child[opener[f]].peer] = f
  BY <1>5 DEF OpenerInv, NameInv
<1>6. QED
  BY <1>3, <1>4, <1>5 DEF Isolation, RefusedInv, PortsInv

-----------------------------------------------------------------------------
(* What the actions have in common. *)

\* Children keep their peers, their names and the ports they have bound, and
\* nobody returns to the exchange of names.
Grows ==
  /\ \A n \in DOMAIN child :
       /\ n \in DOMAIN child' /\ child'[n].peer = child[n].peer
       /\ child'[n].name = child[n].name
       /\ child[n].port # 0 => child'[n].port = child[n].port
  /\ \A c \in Clients : client[c].phase # "naming" => client'[c].phase # "naming"

LEMMA KnownStays ==
  ASSUME Grows, NEW c, NEW port, Knows(c, port)
  PROVE  Knows(c, port)'
  BY DEF Grows, Knows, HasBound

\* Then what was said of a packet stays true.
LEMMA PacketsStay ==
  ASSUME Grows, NEW p, FromClient(p) \/ FromChild(p)
  PROVE  (FromClient(p) \/ FromChild(p))'
  BY KnownStays DEF Grows, FromClient, FromChild

\* A child that is bound was so before, or nobody is bound newly.
LEMMA PortsStay ==
  ASSUME PortsInv, DOMAIN child' = DOMAIN child,
         \A n \in DOMAIN child : /\ child'[n].port = child[n].port /\ (Bound(n)' => Bound(n))
                                 /\ child'[n].state = "forked" => child[n].state = "forked"
  PROVE  PortsInv'
<1>1. ASSUME NEW n \in DOMAIN child
      PROVE  /\ child'[n].state = "forked" => child'[n].port = 0
             /\ Bound(n)' => child'[n].port # 0
  BY DEF PortsInv
<1>2. ASSUME NEW m \in DOMAIN child, NEW n \in DOMAIN child, Bound(m)', Bound(n)',
             child'[m].port = child'[n].port
      PROVE  m = n
  <2>1. Bound(m) /\ Bound(n) /\ child[m].port = child[n].port
    BY <1>2
  <2>2. QED
    BY <2>1 DEF PortsInv
<1>3. QED
  BY <1>1, <1>2 DEF PortsInv

\* A step of a client.
LEMMA ClientUpdate ==
  ASSUME IsolationInv, NEW c \in Clients, NEW r \in ClientRecords,
         client' = [client EXCEPT ![c] = r], UNCHANGED <<child, opener>>,
         r.fserver = MainServer \/ Knows(c, r.fserver),
         client[c].phase # "naming" => r.phase # "naming",
         r.phase = "exit1" => ToFile[c] \in Unwritable,
         \A p \in net' : p \in net \/ (FromClient(p) \/ FromChild(p))'
  PROVE  IsolationInv'
<1> USE DEF IsolationInv
<1>1. TypeInv'
  BY DEF TypeInv
<1>2. client'[c] = r /\ \A d \in Clients : d # c => client'[d] = client[d]
  BY DEF TypeInv
<1>3. Grows
  BY <1>2 DEF Grows
<1>4. AddressInv' /\ PortsInv'
  BY <1>2 DEF AddressInv, Knows, HasBound, PortsInv, Bound
<1>5. NameInv'
  <2> SUFFICES ASSUME NEW n \in DOMAIN child
               PROVE  \/ child[n].name = ToFile[child[n].peer]
                      \/ child[n].name = Junk /\ client'[child[n].peer].phase # "naming"
    BY DEF NameInv
  <2>1. child[n].peer \in Clients
    <3>1. child[n] \in ChildRecords
      BY DEF TypeInv
    <3>2. QED
      BY <3>1 DEF ChildRecords
  <2>2. QED
    BY <1>3, <2>1 DEF NameInv, Grows
<1>6. OpenerInv'
  BY DEF OpenerInv
<1>7. NetInv'
  BY <1>3, PacketsStay DEF NetInv
<1>8. RefusedInv'
  BY <1>2 DEF RefusedInv
<1>9. QED
  BY <1>1, <1>4, <1>5, <1>6, <1>7, <1>8

\* A step of a child that keeps its peer, its name and its port if it has one.
LEMMA ChildUpdate ==
  ASSUME IsolationInv, NEW n \in DOMAIN child, NEW r \in ChildRecords,
         child' = [child EXCEPT ![n] = r], UNCHANGED client,
         r.peer = child[n].peer, r.name = child[n].name,
         child[n].port # 0 => r.port = child[n].port, PortsInv',
         \/ UNCHANGED opener
         \/ child[n].name \in Files /\ opener' = [opener EXCEPT ![child[n].name] = n],
         \A p \in net' : p \in net \/ (FromClient(p) \/ FromChild(p))'
  PROVE  IsolationInv'
<1> USE DEF IsolationInv
<1>1. /\ child \in Seq(ChildRecords) /\ child' \in Seq(ChildRecords)
      /\ DOMAIN child' = DOMAIN child /\ n \in Nat
      /\ child'[n] = r /\ \A m \in DOMAIN child : m # n => child'[m] = child[m]
  BY DEF TypeInv
<1>2. TypeInv'
  <2>1. opener' \in [Files -> Nat]
    BY <1>1 DEF TypeInv
  <2>2. QED
    BY <1>1, <2>1 DEF TypeInv
<1>3. \A m \in DOMAIN child :
        child'[m].peer = child[m].peer /\ child'[m].name = child[m].name
  BY <1>1
<1>4. Grows
  BY <1>1, <1>3 DEF Grows
<1>5. AddressInv'
  BY <1>4, KnownStays DEF AddressInv
<1>6. NameInv'
  BY <1>1, <1>3 DEF NameInv
<1>7. OpenerInv'
  BY <1>1, <1>3 DEF OpenerInv, TypeInv
<1>8. NetInv'
  BY <1>4, PacketsStay DEF NetInv
<1>9. RefusedInv'
  BY DEF RefusedInv
<1>10. QED
  BY <1>2, <1>5, <1>6, <1>7, <1>8, <1>9

-----------------------------------------------------------------------------
(* The client. *)

\* What a packet to a client says.
LEMMA AnswerIsForClient ==
  ASSUME IsolationInv, NEW c \in Clients, NEW p \in net, p.dst = c
  PROVE  /\ FromChild(p) /\ p.src \in Nat /\ Knows(c, p.src)
         /\ p.flag = "NAK" /\ client[c].phase = "naming" => ToFile[c] \in Unwritable
<1> USE DEF IsolationInv
<1>1. FromChild(p)
  BY DEF NetInv, FromClient, Knows, MainServer
<1>2. QED
  BY <1>1 DEF FromChild, Knows

LEMMA NextTryType ==
  ASSUME NEW r \in ClientRecords
  PROVE  /\ NextTry(r) \in ClientRecords /\ NextTry(r).fserver = r.fserver
         /\ NextTry(r).phase \in {r.phase, "sending"}
<1> DEFINE phase == IF r.tries + 1 = MaxTries THEN "sending" ELSE r.phase
           tries == r.tries + 1
<1>1. phase \in Phases /\ phase \in {r.phase, "sending"} /\ tries \in Nat
  BY DEF ClientRecords, Phases
<1>2. NextTry(r) = [r EXCEPT !.tries = tries, !.polling = FALSE, !.phase = phase]
  BY DEF NextTry, ClientRecords
<1> HIDE DEF phase, tries
<1>3. QED
  BY <1>1, <1>2 DEF ClientRecords

LEMMA ClientSends ==
  ASSUME IsolationInv, NEW c \in Clients, UNCHANGED <<child, opener>>,
         ClientSendsName(c) \/ ClientSendsData(c)
  PROVE  IsolationInv'
<1> DEFINE r == [client[c] EXCEPT !.polling = TRUE]
<1>1. /\ client[c] \in ClientRecords /\ client' = [client EXCEPT ![c] = r]
      /\ client'[c] = r
  BY DEF IsolationInv, TypeInv, ClientSendsName, ClientSendsData
<1>2. /\ r \in ClientRecords /\ r.fserver = client[c].fserver
      /\ r.phase = client[c].phase
  BY <1>1 DEF ClientRecords
<1>3. r.fserver = MainServer \/ Knows(c, r.fserver)
  BY <1>2 DEF IsolationInv, AddressInv
<1>4. \A p \in net' : p \in net \/ FromClient(p)'
  <2>1. PICK flag \in {"FILENAME", "DATA"} :
          /\ net' = net \cup {Packet(c, client[c].fserver, flag)}
          /\ flag = "DATA" => client[c].phase # "naming"
    BY DEF ClientSendsName, ClientSendsData
  <2>2. QED
    BY <1>1, <1>2, <1>3, <2>1 DEF FromClient, Packet, Knows, HasBound
<1>5. r.phase = "exit1" => ToFile[c] \in Unwritable
  BY <1>2 DEF IsolationInv, RefusedInv
<1> HIDE DEF r
<1>6. QED
  BY <1>1, <1>2, <1>3, <1>4, <1>5, ClientUpdate

LEMMA ClientReceives ==
  ASSUME IsolationInv, NEW c \in Clients, NEW p \in net, UNCHANGED <<child, opener>>,
         \/ ClientReceivesAnswer(c, p) \/ ClientReceivesInData(c, p)
         \/ ClientReceivesDamaged(c, p) /\ net' = Consume(p)
  PROVE  IsolationInv'
<1> DEFINE s == [client[c] EXCEPT !.fserver = p.src]
<1>1. p.dst = c /\ net' \subseteq net
  BY DEF ClientReceivesAnswer, ClientReceivesInData, ClientReceivesDamaged, Consume
<1>2. /\ p.src \in Nat /\ Knows(c, p.src)
      /\ p.flag = "NAK" /\ client[c].phase = "naming" => ToFile[c] \in Unwritable
  BY <1>1, AnswerIsForClient
<1>3. /\ client \in [Clients -> ClientRecords] /\ client[c] \in ClientRecords
      /\ client[c].phase = "exit1" => ToFile[c] \in Unwritable
  BY DEF IsolationInv, TypeInv, RefusedInv
<1>4. s \in ClientRecords /\ s.fserver = p.src /\ s.phase = client[c].phase
  BY <1>2, <1>3 DEF ClientRecords
<1>5. /\ NextTry(s) \in ClientRecords /\ NextTry(s).fserver = p.src
      /\ NextTry(s).phase \in {client[c].phase, "sending"}
  BY <1>4, NextTryType
<1>6. \E r \in ClientRecords :
        /\ client' = [client EXCEPT ![c] = r]
        /\ r.fserver = p.src /\ (client[c].phase # "naming" => r.phase # "naming")
        /\ r.phase = "exit1" => ToFile[c] \in Unwritable
  <2>1. CASE ClientReceivesAnswer(c, p)
    <3> DEFINE refused == [s EXCEPT !.phase = "exit1", !.polling = FALSE]
               accepted == [s EXCEPT !.phase = "sending", !.polling = FALSE]
    <3>1. /\ client' = [client EXCEPT ![c] = CASE p.flag = "NAK" -> refused
                                              [] p.flag = "OK"  -> accepted
                                              [] OTHER          -> NextTry(s)]
          /\ client[c].phase = "naming"
      BY <2>1 DEF ClientReceivesAnswer, Sender
    <3>2. CASE p.flag = "NAK"
      <4>1. refused \in ClientRecords /\ refused.fserver = p.src
        BY <1>4 DEF ClientRecords, Phases
      <4>2. client' = [client EXCEPT ![c] = refused]
        BY <3>1, <3>2
      <4> HIDE DEF refused
      <4>3. QED
        BY <1>2, <3>1, <3>2, <4>1, <4>2
    <3>3. CASE p.flag = "OK"
      <4>1. /\ accepted \in ClientRecords /\ accepted.fserver = p.src
            /\ accepted.phase = "sending"
        BY <1>4 DEF ClientRecords, Phases
      <4>2. client' = [client EXCEPT ![c] = accepted]
        BY <3>1, <3>3
      <4> HIDE DEF accepted
      <4>3. QED
        BY <4>1, <4>2
    <3>4. CASE p.flag \notin {"NAK", "OK"}
      <4>1. client' = [client EXCEPT ![c] = NextTry(s)]
        BY <3>1, <3>4
      <4>2. NextTry(s).phase # "exit1"
        BY <1>5, <3>1
      <4> HIDE DEF s
      <4>3. QED
        BY <1>5, <3>1, <4>1, <4>2
    <3>5. QED
      BY <3>2, <3>3, <3>4
  <2>2. CASE ClientReceivesInData(c, p)
    <3> DEFINE phase == IF client[c].replies + 1 = MaxReplies THEN "done"
                                                              ELSE client[c].phase
               replies == client[c].replies + 1
               new == [client[c] EXCEPT !.fserver = p.src, !.polling = FALSE,
                                        !.replies = replies, !.phase = phase]
    <3>1. client' = [client EXCEPT ![c] = new] /\ client[c].phase = "sending"
      BY <1>3, <2>2 DEF ClientReceivesInData, Sender, ClientRecords
    <3>2. phase \in {"sending", "done"} /\ phase \in Phases /\ replies \in Nat
      BY <1>3, <3>1 DEF Phases, ClientRecords
    <3> HIDE DEF phase, replies
    <3>3. new \in ClientRecords /\ new.fserver = p.src /\ new.phase = phase
      BY <1>2, <1>3, <3>2 DEF ClientRecords
    <3> HIDE DEF new
    <3>4. QED
      BY <3>1, <3>2, <3>3
  <2>3. CASE ClientReceivesDamaged(c, p)
    <3> DEFINE awake == [s EXCEPT !.polling = FALSE]
    <3>1. client' = [client EXCEPT ![c] = IF s.phase = "naming" THEN NextTry(s) ELSE awake]
      BY <2>3 DEF ClientReceivesDamaged, Sender
    <3>2. /\ awake \in ClientRecords /\ awake.fserver = p.src
          /\ awake.phase = client[c].phase
      BY <1>4 DEF ClientRecords
    <3> HIDE DEF s, awake
    <3>3. CASE s.phase = "naming"
      <4>1. client' = [client EXCEPT ![c] = NextTry(s)]
        BY <3>1, <3>3
      <4>2. NextTry(s).phase # "exit1"
        BY <1>4, <1>5, <3>3
      <4>3. QED
        BY <1>4, <1>5, <3>3, <4>1, <4>2
    <3>4. CASE s.phase # "naming"
      <4>1. client' = [client EXCEPT ![c] = awake]
        BY <3>1, <3>4
      <4>2. QED
        BY <1>3, <1>4, <3>2, <3>4, <4>1
    <3>5. QED
      BY <3>3, <3>4
  <2>4. QED
    BY <2>1, <2>2, <2>3
<1>7. QED
  BY <1>1, <1>2, <1>6, ClientUpdate

-----------------------------------------------------------------------------
(* The server. *)

\* A packet for main comes from a client; main may fork for it.
LEMMA MainStep ==
  ASSUME IsolationInv, NEW p \in net, MainReceives(p), UNCHANGED client
  PROVE  IsolationInv'
<1> USE DEF IsolationInv
<1>1. DOMAIN child \subseteq Nat \ {0} /\ child \in Seq(ChildRecords)
  BY DEF TypeInv
<1>2. net' \subseteq net /\ UNCHANGED opener
  BY DEF MainReceives, Consume
<1>3. FromClient(p)
  BY DEF NetInv, FromChild, MainReceives, MainServer
<1>4. CASE UNCHANGED child
  <2>1. Grows
    BY <1>4 DEF Grows
  <2>2. NetInv'
    BY <1>2, <2>1, PacketsStay DEF NetInv
  <2>3. QED
    BY <1>2, <1>4, <2>2
       DEF TypeInv, PortsInv, Bound, AddressInv, Knows, HasBound, NameInv, OpenerInv,
           RefusedInv
<1>5. CASE ~ UNCHANGED child
  <2> DEFINE new == [peer |-> p.src, name |-> NameIn(p), state |-> "forked", retryCount |-> 0,
                     port |-> 0]
             m == Len(child) + 1
  <2>1. child' = Append(child, new)
    BY <1>5 DEF MainReceives, Peer
  <2>2. p.src \in Clients /\ NameIn(p) \in Files \cup {Junk}
    BY <1>3 DEF FromClient, NameIn
  <2>3. new \in ChildRecords
    BY <2>2 DEF ChildRecords
  <2>4. /\ child' \in Seq(ChildRecords) /\ DOMAIN child' = DOMAIN child \cup {m}
        /\ child'[m] = new /\ \A n \in DOMAIN child : child'[n] = child[n]
    BY <1>1, <2>1, <2>3
  <2>5. Grows
    BY <2>4 DEF Grows
  <2>6. TypeInv' /\ PortsInv' /\ AddressInv' /\ RefusedInv'
    <3>1. AddressInv'
      BY <2>5, KnownStays DEF AddressInv
    <3>2. PortsInv'
      <4>1. new.state = "forked" /\ new.port = 0
        OBVIOUS
      <4> HIDE DEF new
      <4>2. QED
        BY <2>4, <4>1 DEF PortsInv, Bound
    <3>3. QED
      BY <1>2, <2>4, <3>1, <3>2 DEF TypeInv, RefusedInv
  <2>7. NameInv'
    <3>1. \/ new.name = ToFile[new.peer]
          \/ new.name = Junk /\ client[new.peer].phase # "naming"
      BY <1>3 DEF FromClient, NameIn
    <3> HIDE DEF new
    <3>2. ASSUME NEW n \in DOMAIN child'
          PROVE  \/ child'[n].name = ToFile[child'[n].peer]
                 \/ child'[n].name = Junk /\ client'[child'[n].peer].phase # "naming"
      <4>1. CASE n = m
        BY <2>4, <3>1, <4>1
      <4>2. CASE n # m
        BY <2>4, <3>2, <4>2 DEF NameInv
      <4>3. QED
        BY <4>1, <4>2
    <3>3. QED
      BY <3>2 DEF NameInv
  <2>8. OpenerInv'
    BY <1>2, <2>4 DEF OpenerInv
  <2>9. NetInv'
    BY <1>2, <2>5, PacketsStay DEF NetInv
  <2>10. QED
    BY <2>6, <2>7, <2>8, <2>9
<1>6. QED
  BY <1>4, <1>5

\* A child that has bound its port and changes its state and its counter, but
\* binds none.
LEMMA ChildChanges ==
  ASSUME IsolationInv, NEW n \in DOMAIN child, UNCHANGED <<client, opener>>,
         NEW state \in {"waiting", "serving", "exited"}, NEW count \in Nat,
         Bound(n) \/ state = "exited",
         child' = [child EXCEPT ![n] = [child[n] EXCEPT !.state = state, !.retryCount = count]],
         \A p \in net' : p \in net \/ (FromClient(p) \/ FromChild(p))'
  PROVE  IsolationInv'
<1> DEFINE r == [child[n] EXCEPT !.state = state, !.retryCount = count]
<1>1. child[n] \in ChildRecords /\ child \in Seq(ChildRecords)
  BY DEF IsolationInv, TypeInv
<1>2. /\ r \in ChildRecords /\ r.peer = child[n].peer /\ r.name = child[n].name
      /\ r.port = child[n].port /\ r.state = state
  BY <1>1 DEF ChildRecords
<1> HIDE DEF r
<1>3. child' = [child EXCEPT ![n] = r]
  BY DEF r
<1>4. PortsInv'
  <2>1. /\ DOMAIN child' = DOMAIN child /\ child'[n] = r
        /\ \A m \in DOMAIN child : m # n => child'[m] = child[m]
    BY <1>1, <1>3
  <2>2. ASSUME NEW m \in DOMAIN child
        PROVE  /\ child'[m].port = child[m].port /\ (Bound(m)' => Bound(m))
               /\ child'[m].state = "forked" => child[m].state = "forked"
    <3>1. CASE m = n
      BY <1>2, <2>1, <3>1 DEF Bound
    <3>2. CASE m # n
      BY <2>1, <3>2 DEF Bound
    <3>3. QED
      BY <3>1, <3>2
  <2>3. QED
    BY <2>1, <2>2, PortsStay DEF IsolationInv
<1>5. QED
  BY <1>2, <1>3, <1>4, ChildUpdate

LEMMA ChildStep ==
  ASSUME IsolationInv, NEW n \in DOMAIN child, UNCHANGED client,
         BindFails(n) \/ recv_filename(n) \/ ChildGivesUp(n)
  PROVE  IsolationInv'
<1>1. /\ child[n] \in ChildRecords /\ child \in Seq(ChildRecords)
      /\ child[n].retryCount \in Nat /\ child[n].peer \in Clients
      /\ child[n].name \in Files \cup {Junk} /\ DOMAIN child \subseteq Nat \ {0}
  <2>1. child[n] \in ChildRecords /\ child \in Seq(ChildRecords)
    BY DEF IsolationInv, TypeInv
  <2>2. QED
    BY <2>1 DEF ChildRecords
<1>2. CASE BindFails(n) \/ ChildGivesUp(n)
  <2>1. /\ child' = [child EXCEPT ![n].state = "exited"]
        /\ UNCHANGED <<opener, net>>
    BY <1>2 DEF BindFails, ChildGivesUp
  <2>2. child' = [child EXCEPT ![n] =
               [child[n] EXCEPT !.state = "exited", !.retryCount = child[n].retryCount]]
    BY <1>1, <2>1 DEF ChildRecords
  <2>3. QED
    BY <1>1, <2>1, <2>2, ChildChanges
<1>3. CASE recv_filename(n)
  <2>1. PICK port \in DOMAIN child, opens \in BOOLEAN :
          /\ ~ InUse(port)
          /\ child[n].name \in Files => opens = (child[n].name \notin Unwritable)
          /\ child' = [child EXCEPT ![n].port = port,
                                   ![n].state = IF opens THEN "waiting" ELSE "exited"]
          /\ net' = net \cup
               {Packet(port, child[n].peer, IF opens THEN "OK" ELSE "NAK")}
          /\ opener' = IF opens /\ child[n].name \in Files
               THEN [opener EXCEPT ![child[n].name] = n] ELSE opener
    BY <1>3 DEF recv_filename
  <2> DEFINE state == IF opens THEN "waiting" ELSE "exited"
             r == [child[n] EXCEPT !.port = port, !.state = state]
  <2>2. child[n].state = "forked" /\ child[n].port = 0 /\ port \in Nat \ {0}
    <3>1. child[n].state = "forked"
      BY <1>3 DEF recv_filename
    <3>2. PortsInv
      BY DEF IsolationInv
    <3>3. QED
      BY <1>1, <3>1, <3>2 DEF PortsInv
  <2>3. /\ r \in ChildRecords /\ r.peer = child[n].peer /\ r.name = child[n].name
        /\ r.port = port /\ r.state = state
    BY <1>1, <2>2 DEF ChildRecords
  <2>4. child' = [child EXCEPT ![n] = r]
    BY <1>1, <2>1 DEF ChildRecords
  <2> HIDE DEF r
  <2>5. /\ DOMAIN child' = DOMAIN child /\ child'[n] = r
        /\ \A m \in DOMAIN child : m # n => child'[m] = child[m]
    BY <1>1, <2>4
  <2>6. PortsInv'
    <3>1. \A m \in DOMAIN child : Bound(m) => child[m].port # port
      BY <2>1 DEF InUse
    <3>2. state # "forked"
      OBVIOUS
    <3> HIDE DEF state
    <3>3. \A m \in DOMAIN child : m # n => Bound(m)' = Bound(m)
      BY <2>5 DEF Bound
    <3>4. ASSUME NEW m \in DOMAIN child
          PROVE  /\ child'[m].state = "forked" => child'[m].port = 0
                 /\ Bound(m)' => child'[m].port # 0
      <4>1. CASE m = n
        <5>1. child'[m].state # "forked" /\ child'[m].port # 0
          BY <2>2, <2>3, <2>5, <3>2, <4>1
        <5>2. QED
          BY <5>1
      <4>2. CASE m # n
        BY <2>5, <3>3, <4>2 DEF IsolationInv, PortsInv
      <4>3. QED
        BY <4>1, <4>2
    <3>5. ASSUME NEW k \in DOMAIN child, NEW m \in DOMAIN child, Bound(k)', Bound(m)',
                 child'[k].port = child'[m].port
          PROVE  k = m
      BY <2>3, <2>5, <3>1, <3>3, <3>5 DEF IsolationInv, PortsInv
    <3>6. QED
      BY <2>5, <3>4, <3>5 DEF PortsInv
  <2>7. HasBound(child[n].peer, port)'
    BY <2>3, <2>5 DEF HasBound
  <2>8. ~ opens => \/ ToFile[child[n].peer] \in Unwritable
                   \/ client[child[n].peer].phase # "naming"
    BY <1>1, <2>1 DEF IsolationInv, NameInv
  <2>9. PICK answer : answer = Packet(port, child[n].peer, IF opens THEN "OK" ELSE "NAK")
    OBVIOUS
  <2>10. \A p \in net' : p \in net \/ (FromClient(p) \/ FromChild(p))'
    <3>1. FromChild(answer)'
      <4>1. /\ answer.src = port /\ answer.dst = child[n].peer
            /\ answer.flag = IF opens THEN "OK" ELSE "NAK"
        BY <2>9 DEF Packet
      <4>2. Knows(child[n].peer, port)'
        BY <2>2, <2>7 DEF Knows
      <4>3. answer.flag \in {"OK", "NAK", "RR"} /\ (answer.flag = "NAK" => ~ opens)
        BY <4>1
      <4>4. QED
        BY <1>1, <2>8, <4>1, <4>2, <4>3 DEF FromChild
    <3>2. net' = net \cup {answer}
      BY <2>1, <2>9
    <3>3. QED
      BY <3>1, <3>2
  <2>11. \/ UNCHANGED opener
         \/ child[n].name \in Files /\ opener' = [opener EXCEPT ![child[n].name] = n]
    BY <2>1
  <2>12. QED
    BY <1>1, <2>2, <2>3, <2>4, <2>6, <2>10, <2>11, ChildUpdate
<1>4. QED
  BY <1>2, <1>3

LEMMA ChildReceivesStep ==
  ASSUME IsolationInv, NEW n \in DOMAIN child, UNCHANGED client, NEW p \in net,
         ChildReceives(n, p)
  PROVE  IsolationInv'
<1>1. /\ child[n] \in ChildRecords /\ child \in Seq(ChildRecords)
      /\ child[n].state \in {"waiting", "serving"} /\ child[n].port \in Nat \ {0}
  <2>1. /\ child[n] \in ChildRecords /\ child \in Seq(ChildRecords)
    BY DEF IsolationInv, TypeInv
  <2>2. Bound(n) /\ child[n].port # 0
    BY DEF ChildReceives, IsolationInv, PortsInv
  <2>3. QED
    BY <2>1, <2>2 DEF ChildRecords, Bound
<1> DEFINE state == IF p.flag = "DATA" THEN "serving" ELSE child[n].state
<1>2. /\ state \in {"waiting", "serving", "exited"} /\ Bound(n)
      /\ child' = [child EXCEPT ![n] = [child[n] EXCEPT !.state = state, !.retryCount = 0]]
  BY <1>1 DEF ChildReceives, ChildRecords
<1> HIDE DEF state
<1>3. p.src \in Clients /\ Knows(p.src, child[n].port)
  BY <1>1 DEF IsolationInv, NetInv, FromClient, FromChild, MainServer, ChildReceives
<1>4. \A m \in DOMAIN child :
        m \in DOMAIN child' /\ child'[m].peer = child[m].peer /\ child'[m].port = child[m].port
  BY <1>1, <1>2 DEF ChildRecords
<1>5. FromChild(Packet(child[n].port, p.src, "RR"))'
  <2>1. Knows(p.src, child[n].port)'
    BY <1>3, <1>4 DEF Knows, HasBound
  <2>2. QED
    BY <1>3, <1>4, <2>1 DEF FromChild, Packet, Knows, HasBound
<1>6. \A q \in net' : q \in net \/ (FromClient(q) \/ FromChild(q))'
  BY <1>4, <1>5 DEF ChildReceives, Consume
<1>7. UNCHANGED opener
  BY DEF ChildReceives
<1>8. QED
  BY <1>2, <1>6, <1>7, ChildChanges

LEMMA ServerReceivesDamagedStep ==
  ASSUME IsolationInv, NEW p \in net, ServerReceivesDamaged(p), net' \subseteq net,
         UNCHANGED opener
  PROVE  IsolationInv'
<1>1. UNCHANGED client /\ \A q \in net' : q \in net
  BY DEF ServerReceivesDamaged
<1>2. CASE UNCHANGED child
  <2>1. Grows
    BY <1>1, <1>2 DEF Grows
  <2>2. NetInv'
    BY <1>1, <2>1, PacketsStay DEF NetInv, IsolationInv
  <2>3. QED
    BY <1>1, <1>2, <2>2
       DEF IsolationInv, TypeInv, PortsInv, Bound, AddressInv, Knows, HasBound, NameInv,
           OpenerInv, RefusedInv
<1>3. ASSUME NEW n \in DOMAIN child, Bound(n), child' = [child EXCEPT ![n].retryCount = 0]
      PROVE  IsolationInv'
  <2>1. child[n] \in ChildRecords
    BY DEF IsolationInv, TypeInv
  <2>2. /\ child[n].state \in {"waiting", "serving", "exited"}
        /\ child' = [child EXCEPT ![n] =
             [child[n] EXCEPT !.state = child[n].state, !.retryCount = 0]]
    BY <1>3, <2>1 DEF ChildRecords, Bound
  <2>3. QED
    BY <1>1, <1>3, <2>2, ChildChanges
<1>4. QED
  BY <1>2, <1>3 DEF ServerReceivesDamaged

-----------------------------------------------------------------------------
(* Time. *)

LEMMA AfterTimeoutType ==
  ASSUME NEW r \in ClientRecords
  PROVE  /\ AfterTimeout(r) \in ClientRecords /\ AfterTimeout(r).fserver = r.fserver
         /\ r.phase # "naming" => AfterTimeout(r).phase = r.phase
         /\ AfterTimeout(r).phase \in {r.phase, "sending"}
<1>1. CASE ~ r.polling
  <2>1. AfterTimeout(r) = r
    BY <1>1 DEF AfterTimeout
  <2>2. QED
    BY <2>1
<1>2. CASE r.polling /\ r.phase = "naming"
  BY <1>2, NextTryType DEF AfterTimeout
<1>3. CASE r.polling /\ r.phase # "naming"
  <2>1. AfterTimeout(r) = [r EXCEPT !.polling = FALSE]
    BY <1>3 DEF AfterTimeout
  <2>2. QED
    BY <2>1 DEF ClientRecords
<1>4. QED
  BY <1>1, <1>2, <1>3 DEF ClientRecords

LEMMA AnotherTimeoutType ==
  ASSUME NEW r \in ChildRecords
  PROVE  /\ AnotherTimeout(r) \in ChildRecords
         /\ AnotherTimeout(r).peer = r.peer /\ AnotherTimeout(r).name = r.name
         /\ AnotherTimeout(r).port = r.port /\ AnotherTimeout(r).state = r.state
  BY DEF AnotherTimeout, ChildRecords

\* Any number of polls expire.
LEMMA TimeoutStep ==
  ASSUME IsolationInv, UNCHANGED opener, net' \subseteq net,
         client' \in [Clients -> ClientRecords],
         \A c \in Clients : client'[c] \in {client[c], AfterTimeout(client[c])},
         child' \in Seq(ChildRecords), DOMAIN child' = DOMAIN child,
         \A n \in DOMAIN child : child'[n] \in {child[n], AnotherTimeout(child[n])}
  PROVE  IsolationInv'
<1> USE DEF IsolationInv
<1>1. /\ \A c \in Clients : client[c] \in ClientRecords
      /\ \A n \in DOMAIN child : child[n] \in ChildRecords
  BY DEF TypeInv
<1>2. \A c \in Clients : /\ client'[c].fserver = client[c].fserver
                         /\ client[c].phase # "naming" => client'[c].phase = client[c].phase
                         /\ client'[c].phase \in {client[c].phase, "sending"}
  BY <1>1, AfterTimeoutType
<1>3. \A n \in DOMAIN child :
        /\ child'[n].peer = child[n].peer /\ child'[n].name = child[n].name
        /\ child'[n].port = child[n].port /\ child'[n].state = child[n].state
  BY <1>1, AnotherTimeoutType
<1>4. Grows
  BY <1>2, <1>3 DEF Grows
<1>5. NetInv'
  BY <1>4, PacketsStay DEF NetInv
<1>6. NameInv'
  <2> SUFFICES ASSUME NEW n \in DOMAIN child
               PROVE  \/ child'[n].name = ToFile[child'[n].peer]
                      \/ child'[n].name = Junk /\ client'[child'[n].peer].phase # "naming"
    BY DEF NameInv
  <2>1. child[n].peer \in Clients
    BY <1>1 DEF ChildRecords
  <2>2. QED
    BY <1>3, <1>4, <2>1 DEF NameInv, Grows
<1>7. TypeInv' /\ PortsInv' /\ AddressInv' /\ OpenerInv'
  <2>1. PortsInv'
    BY <1>3, PortsStay DEF Bound
  <2>2. AddressInv'
    BY <1>2, <1>4, KnownStays DEF AddressInv
  <2>3. QED
    BY <1>2, <1>3, <2>1, <2>2 DEF TypeInv, OpenerInv
<1>8. RefusedInv'
  BY <1>2 DEF RefusedInv
<1>9. QED
  BY <1>5, <1>6, <1>7, <1>8

-----------------------------------------------------------------------------

LEMMA NextIsolation == IsolationInv /\ [Next]_vars => IsolationInv'
<1> SUFFICES ASSUME IsolationInv, [Next]_vars PROVE IsolationInv'
  OBVIOUS
<1>1. /\ client \in [Clients -> ClientRecords] /\ child \in Seq(ChildRecords)
      /\ \A c \in Clients : AfterTimeout(client[c]) \in ClientRecords
      /\ \A n \in DOMAIN child : AnotherTimeout(child[n]) \in ChildRecords
  <2>1. client \in [Clients -> ClientRecords] /\ child \in Seq(ChildRecords)
    BY DEF IsolationInv, TypeInv
  <2>2. QED
    BY <2>1, AfterTimeoutType, AnotherTimeoutType
<1>2. CASE ClientStep
  BY <1>2, ClientSends, ClientReceives DEF ClientStep
<1>3. CASE ServerStep
  BY <1>3, MainStep, ChildStep, ChildReceivesStep DEF ServerStep
<1>4. CASE Drop \/ UNCHANGED vars
  <2>1. UNCHANGED <<client, child, opener>> /\ net' \subseteq net
    BY <1>4 DEF Drop, vars
  <2>2. Grows
    BY <2>1 DEF Grows
  <2>3. NetInv'
    BY <2>1, <2>2, PacketsStay DEF NetInv, IsolationInv
  <2>4. QED
    BY <2>1, <2>3
       DEF IsolationInv, TypeInv, PortsInv, Bound, AddressInv, Knows, HasBound, NameInv,
           OpenerInv, RefusedInv
<1>5. CASE ReceiveDamaged
  <2>1. PICK p \in net : /\ \/ \E c \in Clients : ClientReceivesDamaged(c, p)
                            \/ ServerReceivesDamaged(p)
                         /\ net' = Consume(p)
    BY <1>5 DEF ReceiveDamaged
  <2>2. UNCHANGED opener /\ net' \subseteq net
    BY <1>5, <2>1 DEF ReceiveDamaged, Consume
  <2>3. CASE ServerReceivesDamaged(p)
    BY <2>2, <2>3, ServerReceivesDamagedStep
  <2>4. ASSUME NEW c \in Clients, ClientReceivesDamaged(c, p) PROVE IsolationInv'
    <3>1. UNCHANGED child
      BY <2>4 DEF ClientReceivesDamaged
    <3>2. QED
      BY <2>1, <2>2, <2>4, <3>1, ClientReceives
  <2>5. QED
    BY <2>1, <2>3, <2>4
<1>6. CASE Tick
  <2>1. /\ UNCHANGED opener /\ net' \subseteq net
        /\ client' = [c \in Clients |-> AfterTimeout(client[c])]
        /\ child' = [n \in DOMAIN child |-> AnotherTimeout(child[n])]
    BY <1>6 DEF Tick
  <2>2. child' \in Seq(ChildRecords) /\ DOMAIN child' = DOMAIN child
    BY <1>1, <2>1
  <2>3. QED
    BY <1>1, <2>1, <2>2, TimeoutStep
<1>7. CASE AnyTimeout
  <2>1. UNCHANGED <<opener, net>>
    BY <1>7 DEF AnyTimeout
  <2>2. ASSUME NEW c \in Clients, client' = [client EXCEPT ![c] = AfterTimeout(client[c])],
               UNCHANGED child
        PROVE  IsolationInv'
    BY <1>1, <2>1, <2>2, TimeoutStep
  <2>3. ASSUME NEW n \in DOMAIN child, UNCHANGED client,
               child' = [child EXCEPT ![n] = AnotherTimeout(child[n])]
        PROVE  IsolationInv'
    <3>1. child' \in Seq(ChildRecords) /\ DOMAIN child' = DOMAIN child
      BY <1>1, <2>3
    <3>2. QED
      BY <1>1, <2>1, <2>3, <3>1, TimeoutStep
  <2>4. ASSUME UNCHANGED <<client, child>> PROVE IsolationInv'
    BY <1>1, <2>1, <2>4, TimeoutStep
  <2>5. QED
    BY <1>7, <2>2, <2>3, <2>4 DEF AnyTimeout
<1>8. QED
  BY <1>2, <1>3, <1>4, <1>5, <1>6, <1>7 DEF Next

\* On any network, and for any number of clients, two children never listen on
\* one port, a client meets another client's child only at a port that its own
\* child has bound and given up, a file is opened only for the client that
\* named it, and only a client whose file cannot be opened is refused.
THEOREM IsolationCorrect == Spec => []Isolation
<1>1. Spec => []IsolationInv
  BY InitIsolation, NextIsolation, PTL DEF Spec
<1>2. QED
  BY <1>1, InvImpliesIsolation, PTL

-----------------------------------------------------------------------------
(* The LAN: what is assumed and the invariant. *)

\* What the results about a LAN assume: every client copies to a file of its
\* own that can be opened; a client has more tries than packets are lost and
\* other clients draw the port before it; a child waits longer than packets
\* are lost; and the system has processes for every try.
FilesDiffer      == \A c, d \in Clients : ToFile[c] = ToFile[d] => c = d
AllWritable      == Unwritable = {}
TriesSuffice     == MaxErrors + Cardinality(Clients) <= MaxTries
RetriesSuffice   == MaxErrors <= MaxRetry
ProcessesSuffice == MaxTries * Cardinality(Clients) <= MaxChildren

Lan ==
  /\ Prompt /\ IsFiniteSet(Clients)
  /\ FilesDiffer /\ AllWritable /\ TriesSuffice /\ RetriesSuffice /\ ProcessesSuffice

Naming(c)  == client[c].phase = "naming"
Reached(c) == client[c].fserver # MainServer
Asking(c)  == Naming(c) /\ ~ Reached(c)

\* A client knows its child, or still has tries.
PhaseOf(c) ==
  /\ client[c].phase # "exit1"
  /\ client[c].tries <= MaxTries
  /\ Naming(c) => client[c].tries < MaxTries
  /\ ~ Naming(c) => Reached(c)
  /\ Naming(c) /\ Reached(c) => errors > 0
  /\ Reached(c) /\ client[c].phase # "done" => ServesAt(client[c].fserver, c)

\* Between a client and its server at most one packet is under way, which the
\* client waits for an answer to.
Of(p, c) == p.src = c \/ p.dst = c

Asks(c, p) ==
  /\ p.src = c /\ p.dst = client[c].fserver
  /\ \/ p.flag = "FILENAME" /\ Naming(c)
     \/ p.flag = "DATA" /\ client[c].phase = "sending"

Answers(c, p) ==
  /\ p.dst = c
  /\ \/ /\ p.flag = "OK" /\ Asking(c)
        /\ \E n \in DOMAIN child :
             Serves(n, c) /\ child[n].port = p.src /\ child[n].retryCount = 0
     \/ p.flag = "RR" /\ client[c].phase = "sending" /\ p.src = client[c].fserver

WayOf(c) ==
  /\ \A p \in net : Of(p, c) => client[c].polling /\ (Asks(c, p) \/ Answers(c, p))
  /\ \A p, q \in net : Of(p, c) /\ Of(q, c) => p = q

\* A child that has not bound its port is all there is of its client's
\* request.
ForkedOf(c) ==
  \A n \in DOMAIN child : child[n].peer = c =>
    /\ child[n].name = ToFile[c]
    /\ child[n].state = "forked" =>
         /\ Asking(c) /\ client[c].polling /\ child[n].retryCount = 0
         /\ \A p \in net : ~ Of(p, c)
         /\ \A m \in DOMAIN child :
              child[m].peer = c /\ child[m].state = "forked" => m = n

\* The child a client talks to has waited for packets that were lost only.
RetryOf(c) ==
  \A n \in DOMAIN child :
    Serves(n, c) /\ Reached(c) /\ client[c].phase # "done" /\ child[n].state = "waiting" =>
      /\ child[n].retryCount <= errors
      /\ \/ child[n].retryCount < errors
         \/ ~ client[c].polling
         \/ \E p \in net : p.src = c

\* One child for each name that was sent.
Rounds(c) ==
  IF (Naming(c) /\ ~ client[c].polling) \/ client[c].tries = MaxTries
  THEN client[c].tries ELSE client[c].tries + 1

ForkedFor(c) == {n \in DOMAIN child : child[n].peer = c}
AtMain(c)    == \E p \in net : p.src = c /\ p.dst = MainServer

ProcessOf(c) ==
  /\ Cardinality(ForkedFor(c)) <= Rounds(c)
  /\ AtMain(c) => Cardinality(ForkedFor(c)) < Rounds(c)

ClientInv(c) == PhaseOf(c) /\ WayOf(c) /\ ForkedOf(c) /\ RetryOf(c) /\ ProcessOf(c)

\* A try that comes to nothing is paid for by an error, or by another client
\* that has drawn the port of this second and is served from now on.
ReachedClients == {c \in Clients : Reached(c)}
Spent          == errors + Cardinality(ReachedClients)
OkUnderWay     == \E p \in net : p.flag = "OK"
HasForked(c)   == \E n \in DOMAIN child : child[n].peer = c /\ child[n].state = "forked"

TriesInv ==
  \A c \in Clients : Asking(c) =>
    /\ client[c].tries <= Spent
    /\ \/ client[c].tries < Spent
       \/ ~ client[c].polling
       \/ \E p \in net : p.src = c
       \/ HasForked(c)
       \/ OkUnderWay

PortInv ==
  thisSecond # 0 /\ InUse(thisSecond) =>
    OkUnderWay \/ \A c \in Clients : Asking(c) => client[c].tries < Spent

BudgetInv ==
  /\ errors \in Nat /\ errors <= MaxErrors
  /\ TriesInv /\ PortInv

LanInv == IsolationInv /\ (\A c \in Clients : ClientInv(c)) /\ BudgetInv

-----------------------------------------------------------------------------
(* What is counted, and what a step leaves alone. *)

LEMMA Types ==
  ASSUME IsolationInv
  PROVE  /\ child \in Seq(ChildRecords) /\ DOMAIN child \subseteq Nat \ {0}
         /\ \A n \in DOMAIN child :
              /\ child[n] \in ChildRecords /\ child[n].peer \in Clients
              /\ child[n].retryCount \in Nat /\ child[n].port \in Nat
              /\ child[n].state \in {"forked", "waiting", "serving", "exited"}
              /\ Bound(n) => child[n].port # 0
         /\ client \in [Clients -> ClientRecords]
         /\ \A c \in Clients :
              /\ client[c] \in ClientRecords /\ client[c].tries \in Nat
              /\ client[c].fserver \in Nat /\ client[c].polling \in BOOLEAN
              /\ client[c].phase \in Phases /\ c \notin Nat
<1>1. /\ child \in Seq(ChildRecords) /\ client \in [Clients -> ClientRecords]
  BY DEF IsolationInv, TypeInv
<1>2. /\ DOMAIN child \subseteq Nat \ {0}
      /\ \A n \in DOMAIN child : child[n] \in ChildRecords
      /\ \A c \in Clients : client[c] \in ClientRecords /\ c \notin Nat
  BY <1>1
<1>3. \A n \in DOMAIN child : Bound(n) => child[n].port # 0
  BY DEF IsolationInv, PortsInv
<1>4. QED
  BY <1>1, <1>2, <1>3 DEF ChildRecords, ClientRecords

\* A child that serves a client keeps its port, and then the client is still
\* served there.
LEMMA StillServed ==
  ASSUME NEW c, NEW port, ServesAt(port, c),
         \A n \in DOMAIN child :
           Serves(n, c) => Serves(n, c)' /\ child'[n].port = child[n].port
  PROVE  ServesAt(port, c)'
  BY DEF ServesAt, Serves

\* The sets that are counted are finite.
LEMMA ForkedIsFinite ==
  ASSUME IsolationInv, NEW c
  PROVE  IsFiniteSet(ForkedFor(c)) /\ Cardinality(ForkedFor(c)) \in Nat
<1>1. PICK n \in Nat : DOMAIN child = 1 .. n
  BY Types
<1>2. IsFiniteSet(DOMAIN child)
  BY <1>1, FS_Interval
<1>3. ForkedFor(c) \in SUBSET DOMAIN child
  BY DEF ForkedFor
<1>4. QED
  BY <1>2, <1>3, FS_Subset, FS_CardinalityType

LEMMA ReachedIsFinite ==
  ASSUME IsFiniteSet(Clients)
  PROVE  /\ Cardinality(ReachedClients) \in Nat /\ Cardinality(Clients) \in Nat
         /\ (\E c \in Clients : ~ Reached(c)) =>
              Cardinality(ReachedClients) < Cardinality(Clients)
<1>1. ReachedClients \in SUBSET Clients
  BY DEF ReachedClients
<1>2. /\ IsFiniteSet(ReachedClients)
      /\ Cardinality(ReachedClients) <= Cardinality(Clients)
      /\ Cardinality(ReachedClients) = Cardinality(Clients) => ReachedClients = Clients
  BY <1>1, FS_Subset
<1>3. Cardinality(ReachedClients) \in Nat /\ Cardinality(Clients) \in Nat
  BY <1>2, FS_CardinalityType
<1>4. (\E c \in Clients : ~ Reached(c)) => ReachedClients # Clients
  BY DEF ReachedClients
<1>5. QED
  BY <1>2, <1>3, <1>4

\* A packet is about one client.
LEMMA AboutOne ==
  ASSUME IsolationInv, NEW p \in net
  PROVE  \E c \in Clients : Of(p, c) /\ \A d \in Clients : Of(p, d) => d = c
  BY Types DEF IsolationInv, NetInv, FromClient, FromChild, Knows, Of, MainServer

\* A step that is about client c alone leaves what is said of the others.
AboutOnly(c) ==
  /\ \A d \in Clients : d # c => client'[d] = client[d]
  /\ \A p \in net \cup net' : (p \in net /\ p \notin net') \/ (p \in net' /\ p \notin net)
       => \A d \in Clients : Of(p, d) => d = c
  /\ DOMAIN child \subseteq DOMAIN child'
  /\ \A n \in DOMAIN child : child'[n] = child[n] \/ (child[n].peer = c /\ child'[n].peer = c)
  /\ \A n \in DOMAIN child' : n \notin DOMAIN child => child'[n].peer = c
  /\ \A d \in Clients : d # c => opener'[ToFile[d]] = opener[ToFile[d]]
  /\ errors' \in Nat /\ errors <= errors'

LEMMA OthersStay ==
  ASSUME LanInv, IsolationInv', NEW c \in Clients, AboutOnly(c), NEW d \in Clients, d # c
  PROVE  ClientInv(d)'
<1> USE DEF LanInv, BudgetInv
<1>1. /\ client'[d] = client[d] /\ opener'[ToFile[d]] = opener[ToFile[d]]
      /\ errors \in Nat /\ errors' \in Nat /\ errors <= errors'
      /\ DOMAIN child \subseteq DOMAIN child'
      /\ \A p : Of(p, d) => (p \in net' <=> p \in net)
  BY DEF AboutOnly
<1>2. /\ \A n \in DOMAIN child : child[n].peer = d => child'[n] = child[n]
      /\ \A n \in DOMAIN child' : child'[n].peer = d => n \in DOMAIN child /\ child[n].peer = d
  BY DEF AboutOnly
<1>3. ClientInv(d)
  OBVIOUS
<1>4. /\ \A n : Serves(n, d)' = Serves(n, d)
      /\ \A n : Serves(n, d) => n \in DOMAIN child /\ child'[n] = child[n]
  BY <1>1, <1>2 DEF Serves, Bound
<1>5. /\ Naming(d)' = Naming(d) /\ Reached(d)' = Reached(d) /\ Asking(d)' = Asking(d)
  BY <1>1 DEF Naming, Reached, Asking
<1>6. PhaseOf(d)'
  <2>1. \A port : ServesAt(port, d) => ServesAt(port, d)'
    BY <1>4, StillServed
  <2>2. QED
    BY <1>1, <1>3, <1>5, <2>1 DEF ClientInv, PhaseOf
<1>7. \A p : Asks(d, p) => Asks(d, p)'
  BY <1>1, <1>5 DEF Asks
<1>8. \A p : Answers(d, p) => Answers(d, p)'
  BY <1>1, <1>4, <1>5 DEF Answers
<1>9. WayOf(d)'
  <2>1. \A p \in net : Of(p, d) => client[d].polling /\ (Asks(d, p) \/ Answers(d, p))
    BY <1>3 DEF ClientInv, WayOf
  <2>2. \A p, q \in net : Of(p, d) /\ Of(q, d) => p = q
    BY <1>3 DEF ClientInv, WayOf
  <2>3. QED
    BY <1>1, <1>7, <1>8, <2>1, <2>2 DEF WayOf, Of
<1>10. ForkedOf(d)'
  <2> SUFFICES ASSUME NEW n \in DOMAIN child', child'[n].peer = d
               PROVE  /\ child'[n].name = ToFile[d]
                      /\ child'[n].state = "forked" =>
                           /\ Asking(d)' /\ client'[d].polling /\ child'[n].retryCount = 0
                           /\ \A p \in net' : ~ Of(p, d)
                           /\ \A m \in DOMAIN child' :
                                child'[m].peer = d /\ child'[m].state = "forked" => m = n
    BY DEF ForkedOf, Of
  <2>1. n \in DOMAIN child /\ child[n].peer = d /\ child'[n] = child[n]
    BY <1>2
  <2>2. ForkedOf(d)
    BY <1>3 DEF ClientInv
  <2>3. \A m \in DOMAIN child' : child'[m].peer = d =>
          m \in DOMAIN child /\ child[m].peer = d /\ child'[m] = child[m]
    BY <1>2
  <2>4. QED
    BY <1>1, <1>5, <2>1, <2>2, <2>3 DEF ForkedOf
<1>11. \A p : p.src = d => (p \in net' <=> p \in net)
  BY <1>1 DEF Of
<1>12. RetryOf(d)'
  <2> SUFFICES ASSUME NEW n \in DOMAIN child', Serves(n, d)', Reached(d)',
                      client'[d].phase # "done", child'[n].state = "waiting"
               PROVE  /\ child'[n].retryCount <= errors'
                      /\ \/ child'[n].retryCount < errors'
                         \/ ~ client'[d].polling
                         \/ \E p \in net' : p.src = d
    BY DEF RetryOf
  <2>1. Serves(n, d) /\ Reached(d)
    BY <1>4, <1>5
  <2>2. n \in DOMAIN child /\ child'[n] = child[n] /\ child[n].retryCount \in Nat
    BY <1>4, <2>1, Types
  <2>3. /\ child[n].retryCount <= errors
        /\ \/ child[n].retryCount < errors
           \/ ~ client[d].polling
           \/ \E p \in net : p.src = d
    BY <1>1, <1>3, <2>1, <2>2 DEF ClientInv, RetryOf
  <2>4. QED
    BY <1>1, <1>11, <2>2, <2>3
<1>13. ProcessOf(d)'
  <2>1. ForkedFor(d)' = ForkedFor(d)
    BY <1>1, <1>2 DEF ForkedFor
  <2>2. AtMain(d)' = AtMain(d)
    BY <1>11 DEF AtMain
  <2>3. Rounds(d)' = Rounds(d)
    BY <1>1, <1>5 DEF Rounds
  <2>4. QED
    BY <1>3, <2>1, <2>2, <2>3 DEF ClientInv, ProcessOf
<1>14. QED
  BY <1>6, <1>9, <1>10, <1>12, <1>13 DEF ClientInv

\* What was spent only grows.
LEMMA SpentGrows ==
  ASSUME IsolationInv, IsFiniteSet(Clients), errors \in Nat, errors' \in Nat,
         errors <= errors', \A c \in Clients : Reached(c) => Reached(c)'
  PROVE  /\ Spent \in Nat /\ Spent' \in Nat /\ Spent <= Spent'
         /\ errors < errors' \/ (\E c \in Clients : Reached(c)' /\ ~ Reached(c))
              => Spent < Spent'
<1>1. PICK A, B : A = ReachedClients /\ B = ReachedClients'
  OBVIOUS
<1>2. A \in SUBSET B /\ B \in SUBSET Clients
  BY <1>1 DEF ReachedClients
<1>3. IsFiniteSet(B)
  BY <1>2, FS_Subset
<1>4. /\ IsFiniteSet(A) /\ Cardinality(A) <= Cardinality(B)
      /\ Cardinality(B) = Cardinality(A) => A = B
  BY <1>2, <1>3, FS_Subset
<1>5. Cardinality(A) \in Nat /\ Cardinality(B) \in Nat
  BY <1>3, <1>4, FS_CardinalityType
<1>6. Spent = errors + Cardinality(A) /\ Spent' = errors' + Cardinality(B)
  BY <1>1 DEF Spent
<1>7. (\E c \in Clients : Reached(c)' /\ ~ Reached(c)) => A # B
  BY <1>1 DEF ReachedClients
<1>8. QED
  BY <1>4, <1>5, <1>6, <1>7

LEMMA SpentStays ==
  ASSUME errors' = errors, \A c \in Clients : Reached(c) = Reached(c)'
  PROVE  Spent' = Spent
<1>1. ReachedClients' = ReachedClients
  BY DEF ReachedClients
<1>2. QED
  BY <1>1 DEF Spent

\* When more was spent every client that still asks has a try left.
LEMMA BudgetGrows ==
  ASSUME LanInv, IsolationInv', IsFiniteSet(Clients), errors' \in Nat, errors' <= MaxErrors,
         Spent \in Nat, Spent' \in Nat, Spent < Spent',
         \A c \in Clients : Asking(c)' => Asking(c) /\ client'[c].tries = client[c].tries
  PROVE  BudgetInv'
<1>1. ASSUME NEW c \in Clients, Asking(c)' PROVE client'[c].tries < Spent'
  <2>1. client[c].tries <= Spent /\ client'[c].tries = client[c].tries
    BY <1>1 DEF LanInv, BudgetInv, TriesInv
  <2>2. client[c].tries \in Nat
    BY Types DEF LanInv
  <2>3. QED
    BY <2>1, <2>2
<1>2. ASSUME NEW c \in Clients, Asking(c)' PROVE client'[c].tries <= Spent'
  <2>1. client[c].tries \in Nat /\ client'[c].tries = client[c].tries
    BY <1>2, Types DEF LanInv
  <2>2. QED
    BY <1>1, <1>2, <2>1
<1>3. TriesInv'
  BY <1>1, <1>2 DEF TriesInv
<1>4. PortInv'
  BY <1>1 DEF PortInv
<1>5. QED
  BY <1>3, <1>4 DEF BudgetInv

-----------------------------------------------------------------------------
(* The client on a LAN. *)

\* When a packet is lost, all else stays.
LEMMA Lost ==
  ASSUME LanInv, IsolationInv', IsFiniteSet(Clients), NEW p \in net, net' = net \ {p},
         errors' = errors + 1, errors < MaxErrors,
         UNCHANGED <<client, child, opener, thisSecond>>
  PROVE  LanInv'
<1> USE DEF LanInv
<1>1. PICK c \in Clients : Of(p, c) /\ \A d \in Clients : Of(p, d) => d = c
  BY AboutOne
<1>2. errors \in Nat /\ errors' \in Nat /\ errors <= errors' /\ errors' <= MaxErrors
  BY DEF BudgetInv
<1>3. AboutOnly(c)
  BY <1>1, <1>2 DEF AboutOnly
<1>4. ClientInv(c)
  OBVIOUS
<1>5. /\ Naming(c)' = Naming(c) /\ Reached(c)' = Reached(c) /\ Asking(c)' = Asking(c)
      /\ \A n : Serves(n, c)' = Serves(n, c)
  BY DEF Naming, Reached, Asking, Serves, Bound
<1>6. PhaseOf(c)'
  BY <1>2, <1>4, <1>5 DEF ClientInv, PhaseOf, ServesAt
<1>7. WayOf(c)'
  BY <1>4, <1>5 DEF ClientInv, WayOf, Of, Asks, Answers
<1>8. ForkedOf(c)'
  BY <1>4, <1>5 DEF ClientInv, ForkedOf, Of
<1>9. RetryOf(c)'
  <2>1. \A n \in DOMAIN child : child[n].retryCount \in Nat
    BY Types
  <2>2. QED
    BY <1>2, <1>4, <1>5, <2>1 DEF ClientInv, RetryOf
<1>10. ProcessOf(c)'
  <2>1. Rounds(c)' = Rounds(c) /\ ForkedFor(c)' = ForkedFor(c) /\ (AtMain(c)' => AtMain(c))
    BY <1>5 DEF Rounds, ForkedFor, AtMain
  <2>2. QED
    BY <1>4, <2>1 DEF ClientInv, ProcessOf
<1>11. \A d \in Clients : ClientInv(d)'
  <2> SUFFICES ASSUME NEW d \in Clients PROVE ClientInv(d)'
    OBVIOUS
  <2>1. CASE d = c
    BY <1>6, <1>7, <1>8, <1>9, <1>10, <2>1 DEF ClientInv
  <2>2. CASE d # c
    BY <1>3, <2>2, OthersStay
  <2>3. QED
    BY <2>1, <2>2
<1>12. Spent \in Nat /\ Spent' \in Nat /\ Spent < Spent'
  <2>1. \A d \in Clients : Reached(d) => Reached(d)'
    BY DEF Reached
  <2>2. errors < errors'
    BY <1>2
  <2>3. QED
    BY <1>2, <2>1, <2>2, SpentGrows
<1>13. BudgetInv'
  <2>1. \A d \in Clients : Asking(d)' => Asking(d) /\ client'[d].tries = client[d].tries
    BY DEF Asking, Naming, Reached
  <2>2. QED
    BY <1>2, <1>12, <2>1, BudgetGrows
<1>14. QED
  BY <1>11, <1>13

\* A client sends its name or its data.
LEMMA LanClientSends ==
  ASSUME LanInv, IsolationInv', NEW c \in Clients,
         UNCHANGED <<child, opener, thisSecond, errors>>,
         ClientSendsName(c) \/ ClientSendsData(c)
  PROVE  LanInv'
<1> USE DEF LanInv
<1>1. PICK flag : /\ net' = net \cup {Packet(c, client[c].fserver, flag)}
                  /\ \/ flag = "FILENAME" /\ Naming(c)
                     \/ flag = "DATA" /\ client[c].phase = "sending"
  BY DEF ClientSendsName, ClientSendsData, Naming
<1>2. PICK p : p = Packet(c, client[c].fserver, flag)
  OBVIOUS
<1>3. p.src = c /\ p.dst = client[c].fserver /\ p.flag = flag /\ net' = net \cup {p}
  BY <1>1, <1>2 DEF Packet
<1>4. /\ client \in [Clients -> ClientRecords] /\ client[c] \in ClientRecords
      /\ ~ client[c].polling /\ client' = [client EXCEPT ![c].polling = TRUE]
  BY Types DEF ClientSendsName, ClientSendsData
<1>5. /\ client'[c].phase = client[c].phase /\ client'[c].fserver = client[c].fserver
      /\ client'[c].tries = client[c].tries /\ client'[c].polling
      /\ \A d \in Clients : d # c => client'[d] = client[d]
  BY <1>4 DEF ClientRecords
<1>6. ClientInv(c)
  OBVIOUS
<1>7. /\ \A q \in net : ~ Of(q, c)
      /\ \A n \in DOMAIN child : child[n].peer = c => child[n].state # "forked"
  BY <1>4, <1>6 DEF ClientInv, WayOf, ForkedOf
<1>8. \A d \in Clients : /\ Naming(d)' = Naming(d) /\ Reached(d)' = Reached(d)
                         /\ Asking(d)' = Asking(d) /\ client'[d].tries = client[d].tries
  BY <1>5 DEF Naming, Reached, Asking
<1>9. client[c].fserver \in Nat /\ client[c].fserver \notin Clients /\ client[c].tries \in Nat
  BY Types
<1>10. errors \in Nat
  BY DEF BudgetInv
<1>11. AboutOnly(c)
  BY <1>3, <1>5, <1>9, <1>10 DEF AboutOnly, Of
<1>12. \A n : Serves(n, c)' = Serves(n, c)
  BY DEF Serves, Bound
<1>13. PhaseOf(c)'
  BY <1>5, <1>6, <1>8, <1>12 DEF ClientInv, PhaseOf, ServesAt
<1>14. WayOf(c)'
  <2>1. Asks(c, p)'
    BY <1>1, <1>3, <1>5, <1>8 DEF Asks
  <2>2. \A q \in net' : Of(q, c) => q = p
    BY <1>3, <1>7
  <2>3. QED
    BY <1>5, <2>1, <2>2 DEF WayOf, Of
<1>15. ForkedOf(c)'
  BY <1>6, <1>7 DEF ClientInv, ForkedOf
<1>16. RetryOf(c)'
  BY <1>3, <1>5, <1>6, <1>8, <1>12 DEF ClientInv, RetryOf
<1>17. ProcessOf(c)'
  <2>1. ForkedFor(c)' = ForkedFor(c) /\ ~ AtMain(c)
    BY <1>7 DEF ForkedFor, AtMain, Of
  <2>2. Cardinality(ForkedFor(c)) \in Nat
    BY ForkedIsFinite
  <2>3. CASE Naming(c)
    <3>1. client[c].tries < MaxTries
      BY <1>6, <2>3 DEF ClientInv, PhaseOf
    <3>2. Rounds(c) = client[c].tries /\ Rounds(c)' = client[c].tries + 1
      BY <1>4, <1>5, <1>8, <1>9, <2>3, <3>1 DEF Rounds
    <3>3. Cardinality(ForkedFor(c)) <= client[c].tries
      BY <1>6, <3>2 DEF ClientInv, ProcessOf
    <3>4. QED
      BY <1>9, <2>1, <2>2, <3>2, <3>3 DEF ProcessOf
  <2>4. CASE ~ Naming(c)
    <3>1. ~ AtMain(c)'
      <4>1. p.dst # MainServer
        BY <1>3, <1>6, <2>4 DEF ClientInv, PhaseOf, Reached
      <4>2. QED
        BY <1>3, <2>1, <4>1 DEF AtMain
    <3>2. Rounds(c)' = Rounds(c)
      BY <1>5, <1>8, <2>4 DEF Rounds
    <3>3. QED
      BY <1>6, <2>1, <3>1, <3>2 DEF ClientInv, ProcessOf
  <2>5. QED
    BY <2>3, <2>4
<1>18. \A d \in Clients : ClientInv(d)'
  <2> SUFFICES ASSUME NEW d \in Clients PROVE ClientInv(d)'
    OBVIOUS
  <2>1. CASE d = c
    BY <1>13, <1>14, <1>15, <1>16, <1>17, <2>1 DEF ClientInv
  <2>2. CASE d # c
    BY <1>11, <2>2, OthersStay
  <2>3. QED
    BY <2>1, <2>2
<1>19. BudgetInv'
  <2>1. Spent' = Spent
    BY <1>8, SpentStays
  <2>2. OkUnderWay => OkUnderWay'
    BY <1>3 DEF OkUnderWay
  <2>3. TriesInv'
    <3> SUFFICES ASSUME NEW d \in Clients, Asking(d)'
                 PROVE  /\ client'[d].tries <= Spent'
                        /\ \/ client'[d].tries < Spent'
                           \/ ~ client'[d].polling
                           \/ \E q \in net' : q.src = d
                           \/ HasForked(d)'
                           \/ OkUnderWay'
      BY DEF TriesInv
    <3>1. /\ client[d].tries <= Spent
          /\ \/ client[d].tries < Spent
             \/ ~ client[d].polling
             \/ \E q \in net : q.src = d
             \/ HasForked(d)
             \/ OkUnderWay
      BY <1>8 DEF BudgetInv, TriesInv
    <3>2. CASE d = c
      BY <1>3, <1>8, <2>1, <3>1, <3>2
    <3>3. CASE d # c
      BY <1>3, <1>5, <1>8, <2>1, <2>2, <3>1, <3>3 DEF HasForked
    <3>4. QED
      BY <3>2, <3>3
  <2>4. PortInv'
    BY <1>8, <2>1, <2>2 DEF BudgetInv, PortInv, InUse, Bound
  <2>5. QED
    BY <2>3, <2>4 DEF BudgetInv
<1>20. QED
  BY <1>18, <1>19

\* A client has read the packet p, intact or damaged.
Heard(c, p) ==
  /\ p.dst = c /\ net' = net \ {p}
  /\ UNCHANGED <<child, opener, thisSecond>>
  /\ \A d \in Clients : d # c => client'[d] = client[d]
  /\ client'[c].fserver = p.src /\ ~ client'[c].polling
  /\ \/ /\ errors' = errors /\ client'[c].tries = client[c].tries
        /\ client'[c].phase \in {"sending", "done"}
     \/ /\ errors' = errors + 1 /\ errors < MaxErrors
        /\ \/ ~ Naming(c) /\ client'[c].tries = client[c].tries
              /\ client'[c].phase = client[c].phase
           \/ /\ Naming(c) /\ client'[c].tries = client[c].tries + 1
              /\ client'[c].phase = IF client'[c].tries = MaxTries THEN "sending" ELSE "naming"

LEMMA NextTryFields ==
  ASSUME NEW r \in ClientRecords
  PROVE  /\ NextTry(r).tries = r.tries + 1 /\ NextTry(r).polling = FALSE
         /\ NextTry(r).fserver = r.fserver
         /\ NextTry(r).phase = IF r.tries + 1 = MaxTries THEN "sending" ELSE r.phase
<1> DEFINE phase == IF r.tries + 1 = MaxTries THEN "sending" ELSE r.phase
           tries == r.tries + 1
<1>1. NextTry(r) = [r EXCEPT !.tries = tries, !.polling = FALSE, !.phase = phase]
  BY DEF NextTry, ClientRecords
<1> HIDE DEF phase, tries
<1>2. QED
  BY <1>1 DEF ClientRecords, phase, tries

LEMMA AnswerHeard ==
  ASSUME LanInv, Prompt, NEW c \in Clients, NEW p \in net,
         UNCHANGED <<child, opener, thisSecond>>,
         \/ (ClientReceivesAnswer(c, p) \/ ClientReceivesInData(c, p)) /\ errors' = errors
         \/ /\ ClientReceivesDamaged(c, p) /\ net' = Consume(p)
            /\ errors < MaxErrors /\ errors' = errors + 1
  PROVE  Heard(c, p)
<1> USE DEF LanInv
<1> DEFINE s == [client[c] EXCEPT !.fserver = p.src]
<1>1. p.dst = c /\ client[c].polling /\ net' = net \ {p}
  BY DEF ClientReceivesAnswer, ClientReceivesInData, ClientReceivesDamaged, Consume
<1>2. /\ client \in [Clients -> ClientRecords] /\ client[c] \in ClientRecords
      /\ client[c].fserver \in Nat /\ c \notin Nat
  BY Types
<1>3. Answers(c, p)
  BY <1>1, <1>2 DEF ClientInv, WayOf, Of, Asks
<1>4. p.src \in Nat
  BY <1>1, AnswerIsForClient
<1>5. /\ s \in ClientRecords /\ s.fserver = p.src /\ s.phase = client[c].phase
      /\ s.tries = client[c].tries
  BY <1>2, <1>4 DEF ClientRecords
<1>6. CASE ClientReceivesAnswer(c, p) /\ errors' = errors
  <2> DEFINE accepted == [s EXCEPT !.phase = "sending", !.polling = FALSE]
  <2>1. p.flag = "OK"
    BY <1>3, <1>6 DEF Answers, ClientReceivesAnswer
  <2>2. client' = [client EXCEPT ![c] = accepted]
    BY <1>6, <2>1 DEF ClientReceivesAnswer, Sender
  <2>3. /\ accepted.phase = "sending" /\ accepted.polling = FALSE
        /\ accepted.fserver = p.src /\ accepted.tries = client[c].tries
    BY <1>5 DEF ClientRecords
  <2> HIDE DEF accepted
  <2>4. client'[c] = accepted /\ \A d \in Clients : d # c => client'[d] = client[d]
    BY <1>2, <2>2
  <2>5. QED
    BY <1>1, <1>6, <2>3, <2>4 DEF Heard
<1>7. CASE ClientReceivesInData(c, p) /\ errors' = errors
  <2> DEFINE phase == IF client[c].replies + 1 = MaxReplies THEN "done" ELSE client[c].phase
             replies == client[c].replies + 1
             new == [client[c] EXCEPT !.fserver = p.src, !.polling = FALSE,
                                      !.replies = replies, !.phase = phase]
  <2>1. client' = [client EXCEPT ![c] = new] /\ client[c].phase = "sending"
    BY <1>2, <1>7 DEF ClientReceivesInData, Sender, ClientRecords
  <2>2. phase \in {"sending", "done"}
    BY <2>1
  <2> HIDE DEF phase, replies
  <2>3. /\ new.phase = phase /\ new.polling = FALSE
        /\ new.fserver = p.src /\ new.tries = client[c].tries
    BY <1>2 DEF ClientRecords
  <2> HIDE DEF new
  <2>4. client'[c] = new /\ \A d \in Clients : d # c => client'[d] = client[d]
    BY <1>2, <2>1
  <2>5. QED
    BY <1>1, <1>7, <2>2, <2>3, <2>4 DEF Heard
<1>8. CASE /\ ClientReceivesDamaged(c, p)
           /\ errors < MaxErrors /\ errors' = errors + 1
  <2> DEFINE awake == [s EXCEPT !.polling = FALSE]
  <2>1. client' = [client EXCEPT ![c] = IF s.phase = "naming" THEN NextTry(s) ELSE awake]
    BY <1>8 DEF ClientReceivesDamaged, Sender
  <2>2. /\ awake.fserver = p.src /\ awake.phase = client[c].phase
        /\ awake.polling = FALSE /\ awake.tries = client[c].tries
    BY <1>5 DEF ClientRecords
  <2>3. /\ NextTry(s).tries = client[c].tries + 1 /\ NextTry(s).polling = FALSE
        /\ NextTry(s).fserver = p.src
        /\ NextTry(s).phase = IF client[c].tries + 1 = MaxTries THEN "sending"
                                                                ELSE client[c].phase
    BY <1>5, NextTryFields
  <2>4. s.phase = "naming" <=> Naming(c)
    BY <1>5 DEF Naming
  <2>5. \A d \in Clients : d # c => client'[d] = client[d]
    BY <2>1
  <2> HIDE DEF s, awake
  <2>6. CASE Naming(c)
    <3>1. client'[c] = NextTry(s)
      BY <1>2, <2>1, <2>4, <2>6
    <3>2. QED
      BY <1>1, <1>8, <2>3, <2>5, <2>6, <3>1 DEF Heard, Naming
  <2>7. CASE ~ Naming(c)
    <3>1. client'[c] = awake
      BY <1>2, <2>1, <2>4, <2>7
    <3>2. QED
      BY <1>1, <1>8, <2>2, <2>5, <2>7, <3>1 DEF Heard
  <2>8. QED
    BY <2>6, <2>7
<1>9. QED
  BY <1>6, <1>7, <1>8

LEMMA LanClientHears ==
  ASSUME LanInv, IsolationInv', IsFiniteSet(Clients), NEW c \in Clients, NEW p \in net,
         Heard(c, p)
  PROVE  LanInv'
<1> USE DEF LanInv
<1>1. /\ p.dst = c /\ net' = net \ {p} /\ UNCHANGED <<child, opener, thisSecond>>
      /\ \A d \in Clients : d # c => client'[d] = client[d]
      /\ client'[c].fserver = p.src /\ ~ client'[c].polling
  BY DEF Heard
<1>2. /\ client[c].fserver \in Nat /\ c \notin Nat /\ client[c].tries \in Nat
      /\ client'[c].tries \in Nat /\ DOMAIN child \subseteq Nat \ {0}
      /\ client[c].phase \in Phases
  <2>1. client'[c].tries \in Nat
    <3>1. client[c].tries \in Nat
      BY Types
    <3>2. QED
      BY <3>1 DEF Heard
  <2>2. QED
    BY <2>1, Types
<1>3. ClientInv(c) /\ errors \in Nat /\ errors <= MaxErrors
  BY DEF BudgetInv
<1>4. Answers(c, p) /\ client[c].polling
  BY <1>1, <1>2, <1>3 DEF ClientInv, WayOf, Of, Asks
<1>5. ServesAt(p.src, c) /\ p.src # MainServer /\ p.src \notin Clients
  <2>1. Knows(c, p.src)
    BY <1>1, AnswerIsForClient
  <2>2. p.src # MainServer /\ p.src \notin Clients
    BY <2>1, Types DEF Knows, MainServer
  <2>3. CASE p.flag = "OK"
    BY <1>4, <2>2, <2>3 DEF Answers, ServesAt
  <2>4. CASE p.flag # "OK"
    <3>1. p.src = client[c].fserver /\ client[c].phase = "sending"
      BY <1>4, <2>4 DEF Answers
    <3>2. QED
      BY <1>3, <2>2, <3>1 DEF ClientInv, PhaseOf, Reached, Naming
  <2>5. QED
    BY <2>3, <2>4
<1>6. Reached(c)' /\ ~ Asking(c)'
  BY <1>1, <1>5 DEF Reached, Asking
<1>7. /\ client[c].tries <= MaxTries /\ client[c].phase # "exit1"
      /\ Naming(c) => client[c].tries < MaxTries
  BY <1>3 DEF ClientInv, PhaseOf
<1>8. /\ errors' \in Nat /\ errors <= errors' /\ errors' <= MaxErrors
      /\ errors' = errors \/ errors' = errors + 1
      /\ client'[c].phase # "exit1" /\ client'[c].tries <= MaxTries
      /\ Naming(c)' => client'[c].tries < MaxTries /\ errors' > 0
  BY <1>2, <1>3, <1>7 DEF Heard, Naming
<1>9. Rounds(c)' = Rounds(c)
  <2>1. CASE /\ errors' = errors /\ client'[c].tries = client[c].tries
             /\ client'[c].phase \in {"sending", "done"}
    BY <1>4, <2>1 DEF Rounds, Naming
  <2>2. CASE /\ ~ Naming(c) /\ client'[c].tries = client[c].tries
             /\ client'[c].phase = client[c].phase
    BY <2>2 DEF Rounds, Naming
  <2>3. CASE /\ Naming(c) /\ client'[c].tries = client[c].tries + 1
             /\ client'[c].phase = IF client'[c].tries = MaxTries THEN "sending" ELSE "naming"
    BY <1>1, <1>2, <1>4, <1>7, <2>3 DEF Rounds, Naming
  <2>4. QED
    BY <2>1, <2>2, <2>3 DEF Heard
<1>10. /\ \A q \in net' : ~ Of(q, c)
       /\ \A n \in DOMAIN child : child[n].peer = c => child[n].state # "forked"
  BY <1>1, <1>3 DEF ClientInv, WayOf, ForkedOf, Of
<1>11. \A n : Serves(n, c)' = Serves(n, c)
  BY <1>1 DEF Serves, Bound
<1>12. AboutOnly(c)
  <2>1. \A d \in Clients : Of(p, d) => d = c
    BY <1>1, <1>5 DEF Of
  <2>2. QED
    BY <1>1, <1>8, <2>1 DEF AboutOnly
<1>13. PhaseOf(c)'
  BY <1>1, <1>5, <1>6, <1>8, <1>11 DEF PhaseOf, Naming, ServesAt
<1>14. WayOf(c)'
  BY <1>10 DEF WayOf, Of
<1>15. ForkedOf(c)'
  BY <1>1, <1>3, <1>10 DEF ClientInv, ForkedOf
<1>16. RetryOf(c)'
  <2> SUFFICES ASSUME NEW n \in DOMAIN child, Serves(n, c), client'[c].phase # "done",
                      child[n].state = "waiting"
               PROVE  child[n].retryCount <= errors'
    BY <1>1, <1>11 DEF RetryOf
  <2>1. child[n].retryCount \in Nat
    BY Types
  <2>2. CASE p.flag = "OK"
    <3>1. PICK m \in DOMAIN child : Serves(m, c) /\ child[m].retryCount = 0
      BY <1>4, <2>2 DEF Answers
    <3>2. m = n
      BY <3>1 DEF Serves
    <3>3. QED
      BY <1>3, <1>8, <3>1, <3>2
  <2>3. CASE p.flag # "OK"
    <3>1. Reached(c) /\ client[c].phase = "sending"
      BY <1>4, <1>5, <2>3 DEF Answers, Reached
    <3>2. child[n].retryCount <= errors
      BY <1>3, <3>1 DEF ClientInv, RetryOf
    <3>3. QED
      BY <1>3, <1>8, <2>1, <3>2
  <2>4. QED
    BY <2>2, <2>3
<1>17. ProcessOf(c)'
  <2>1. ForkedFor(c)' = ForkedFor(c) /\ ~ AtMain(c)'
    BY <1>1, <1>10 DEF ForkedFor, AtMain, Of
  <2>2. QED
    BY <1>3, <1>9, <2>1 DEF ClientInv, ProcessOf
<1>18. \A d \in Clients : ClientInv(d)'
  <2> SUFFICES ASSUME NEW d \in Clients PROVE ClientInv(d)'
    OBVIOUS
  <2>1. CASE d = c
    BY <1>13, <1>14, <1>15, <1>16, <1>17, <2>1 DEF ClientInv
  <2>2. CASE d # c
    BY <1>12, <2>2, OthersStay
  <2>3. QED
    BY <2>1, <2>2
<1>19. \A d \in Clients : /\ Asking(d)' => Asking(d) /\ client'[d].tries = client[d].tries
                          /\ d # c => Reached(d)' = Reached(d) /\ Asking(d)' = Asking(d)
  BY <1>1, <1>6 DEF Asking, Naming, Reached
<1>20. CASE errors < errors' \/ ~ Reached(c)
  <2>1. \A d \in Clients : Reached(d) => Reached(d)'
    BY <1>6, <1>19
  <2>2. Spent \in Nat /\ Spent' \in Nat /\ Spent < Spent'
    BY <1>3, <1>6, <1>8, <1>20, <2>1, SpentGrows
  <2>3. BudgetInv'
    BY <1>8, <1>19, <2>2, BudgetGrows
  <2>4. QED
    BY <1>18, <2>3
<1>21. CASE errors' = errors /\ Reached(c)
  <2>1. Spent' = Spent
    <3>1. \A d \in Clients : Reached(d) = Reached(d)'
      <4>1. Reached(c) = Reached(c)'
        BY <1>6, <1>21 DEF Reached
      <4>2. \A d \in Clients : d # c => Reached(d) = Reached(d)'
        BY <1>19 DEF Reached
      <4>3. QED
        BY <4>1, <4>2
    <3>2. QED
      BY <1>21, <3>1, SpentStays
  <2>2. OkUnderWay => OkUnderWay'
    <3>1. p.flag # "OK"
      BY <1>4, <1>21 DEF Answers, Asking
    <3>2. QED
      BY <1>1, <3>1 DEF OkUnderWay
  <2>3. \A d \in Clients : d # c => ((\E q \in net : q.src = d) => \E q \in net' : q.src = d)
    BY <1>1, <1>5
  <2>4. TriesInv'
    <3> SUFFICES ASSUME NEW d \in Clients, Asking(d)'
                 PROVE  /\ client'[d].tries <= Spent'
                        /\ \/ client'[d].tries < Spent'
                           \/ ~ client'[d].polling
                           \/ \E q \in net' : q.src = d
                           \/ HasForked(d)'
                           \/ OkUnderWay'
      BY DEF TriesInv
    <3>1. d # c /\ Asking(d) /\ client'[d] = client[d]
      BY <1>1, <1>6, <1>19
    <3>2. /\ client[d].tries <= Spent
          /\ \/ client[d].tries < Spent
             \/ ~ client[d].polling
             \/ \E q \in net : q.src = d
             \/ HasForked(d)
             \/ OkUnderWay
      BY <3>1 DEF BudgetInv, TriesInv
    <3>3. HasForked(d)' = HasForked(d)
      BY <1>1 DEF HasForked
    <3>4. QED
      BY <2>1, <2>2, <2>3, <3>1, <3>2, <3>3
  <2>5. PortInv'
    BY <1>1, <1>19, <2>1, <2>2 DEF BudgetInv, PortInv, InUse, Bound
  <2>6. BudgetInv'
    BY <1>8, <2>4, <2>5 DEF BudgetInv
  <2>7. QED
    BY <1>18, <2>6
<1>22. QED
  BY <1>3, <1>8, <1>20, <1>21

-----------------------------------------------------------------------------
(* The server on a LAN. *)

\* There are processes left when a name arrives.
LEMMA ProcessesLeft ==
  ASSUME LanInv, IsFiniteSet(Clients), ProcessesSuffice, NEW c \in Clients, AtMain(c)
  PROVE  Len(child) < MaxChildren
<1> USE DEF LanInv
<1>1. PICK n \in Nat : n = Len(child) /\ DOMAIN child = 1 .. n
  BY Types
<1>2. \A d \in Clients : Rounds(d) <= MaxTries
  <2> TAKE d \in Clients
  <2>1. client[d].tries <= MaxTries /\ client[d].tries \in Nat
    BY Types DEF ClientInv, PhaseOf
  <2>2. QED
    BY <2>1 DEF Rounds
<1>3. \A d \in Clients : Rounds(d) \in Nat
  BY Types DEF Rounds
<1> DEFINE f == [i \in 0 .. n |-> IF i = 0 THEN c ELSE child[i].peer]
<1>4. f \in [0 .. n -> Clients]
  <2>1. \A i \in 0 .. n : i # 0 => i \in DOMAIN child
    BY <1>1
  <2>2. \A i \in 0 .. n : f[i] \in Clients
    BY <2>1, Types
  <2>3. QED
    BY <2>2
<1>5. ASSUME NEW d \in Clients
      PROVE  Cardinality({i \in 0 .. n : f[i] = d}) <= MaxTries
  <2>1. PICK F, k : F = ForkedFor(d) /\ k = Cardinality(F)
    OBVIOUS
  <2>2. IsFiniteSet(F) /\ k \in Nat /\ k <= Rounds(d)
    BY <2>1, ForkedIsFinite DEF ClientInv, ProcessOf
  <2>3. F = {i \in 1 .. n : child[i].peer = d}
    BY <1>1, <2>1 DEF ForkedFor
  <2>4. CASE d = c
    <3>1. k < Rounds(d)
      BY <2>1, <2>4 DEF ClientInv, ProcessOf
    <3>2. {i \in 0 .. n : f[i] = d} = F \cup {0} /\ 0 \notin F
      BY <2>3, <2>4
    <3>3. Cardinality({i \in 0 .. n : f[i] = d}) = k + 1
      BY <2>1, <2>2, <3>2, FS_AddElement
    <3>4. QED
      BY <1>2, <1>3, <2>2, <3>1, <3>3
  <2>5. CASE d # c
    <3>1. {i \in 0 .. n : f[i] = d} = F
      BY <2>3, <2>5
    <3>2. Cardinality({i \in 0 .. n : f[i] = d}) = k
      BY <2>1, <3>1
    <3>3. QED
      BY <1>2, <1>3, <2>2, <3>2
  <2>6. QED
    BY <2>4, <2>5
<1>6. IsFiniteSet(0 .. n) /\ Cardinality(0 .. n) = n + 1
  BY FS_Interval
<1>7. n + 1 <= MaxTries * Cardinality(Clients)
  <2> HIDE DEF f
  <2>1. MaxTries \in Nat
    OBVIOUS
  <2>2. Cardinality(0 .. n) <= MaxTries * Cardinality(Clients)
    BY <1>4, <1>5, <1>6, <2>1, PartsBound
  <2>3. QED
    BY <1>6, <2>2
<1>8. MaxTries * Cardinality(Clients) \in Nat
  BY FS_CardinalityType
<1>9. QED
  BY <1>1, <1>7, <1>8 DEF ProcessesSuffice

\* Main forks for a name, and for nothing else.
LEMMA LanMainReceives ==
  ASSUME LanInv, IsolationInv', Lan, NEW p \in net, MainReceives(p), UNCHANGED client
  PROVE  LanInv'
<1> USE DEF LanInv
<1>1. PICK c \in Clients : Of(p, c) /\ \A d \in Clients : Of(p, d) => d = c
  BY AboutOne
<1>2. ClientInv(c) /\ errors \in Nat
  BY DEF BudgetInv
<1>3. p.dst = MainServer /\ net' = net \ {p} /\ UNCHANGED <<opener, thisSecond, errors>>
  BY DEF MainReceives, Consume, Lan
<1>4. Asks(c, p) /\ client[c].polling
  BY <1>1, <1>2, <1>3, Types DEF ClientInv, WayOf, Answers, MainServer
<1>5. p.src = c /\ p.flag = "FILENAME" /\ Asking(c)
  BY <1>2, <1>3, <1>4 DEF Asks, Asking, ClientInv, PhaseOf, Reached, Naming
<1>6. AtMain(c)
  BY <1>3, <1>5 DEF AtMain
<1>7. PICK new : new = [peer |-> c, name |-> ToFile[c], state |-> "forked", retryCount |-> 0,
                       port |-> 0]
  OBVIOUS
<1>8. child' = Append(child, new)
  <2>1. ForkSucceeds
    BY <1>6, ProcessesLeft DEF ForkSucceeds, Lan
  <2>2. QED
    BY <1>5, <1>7, <2>1 DEF MainReceives, ForksFor, Peer, NameIn
<1>9. PICK m : m = Len(child) + 1
  OBVIOUS
<1>10. /\ DOMAIN child' = DOMAIN child \cup {m} /\ m \notin DOMAIN child /\ m \in Nat \ {0}
       /\ child'[m] = new /\ \A n \in DOMAIN child : child'[n] = child[n]
  BY <1>8, <1>9, Types
<1>11. /\ \A q \in net' : ~ Of(q, c)
       /\ \A n \in DOMAIN child : child[n].peer = c => child[n].state # "forked"
  BY <1>1, <1>2, <1>3 DEF ClientInv, WayOf, ForkedOf
<1>12. /\ \A d \in Clients : /\ Naming(d)' = Naming(d) /\ Reached(d)' = Reached(d)
                             /\ Asking(d)' = Asking(d)
  BY DEF Naming, Reached, Asking
<1>13. AboutOnly(c)
  BY <1>1, <1>2, <1>3, <1>7, <1>10 DEF AboutOnly
<1>14. PhaseOf(c)'
  BY <1>2, <1>3, <1>5, <1>12 DEF ClientInv, PhaseOf, Asking
<1>15. WayOf(c)'
  BY <1>11 DEF WayOf, Of
<1>16. ForkedOf(c)'
  <2>1. ASSUME NEW n \in DOMAIN child', child'[n].peer = c
        PROVE  /\ child'[n].name = ToFile[c]
               /\ child'[n].state = "forked" => n = m /\ child'[n].retryCount = 0
    <3>1. CASE n = m
      BY <1>7, <1>10, <3>1
    <3>2. CASE n # m
      BY <1>2, <1>10, <1>11, <2>1, <3>2 DEF ClientInv, ForkedOf
    <3>3. QED
      BY <3>1, <3>2
  <2>2. QED
    BY <1>4, <1>5, <1>11, <1>12, <2>1 DEF ForkedOf, Of
<1>17. RetryOf(c)'
  BY <1>5, <1>12 DEF RetryOf, Asking
<1>18. ProcessOf(c)'
  <2>1. ForkedFor(c)' = ForkedFor(c) \cup {m} /\ m \notin ForkedFor(c)
    BY <1>7, <1>10 DEF ForkedFor
  <2>2. IsFiniteSet(ForkedFor(c)) /\ Cardinality(ForkedFor(c)) \in Nat
    BY ForkedIsFinite
  <2>3. Cardinality(ForkedFor(c)') = Cardinality(ForkedFor(c)) + 1
    BY <2>1, <2>2, FS_AddElement
  <2>4. ~ AtMain(c)'
    BY <1>11 DEF AtMain, Of
  <2>5. Rounds(c)' = Rounds(c) /\ Rounds(c) \in Nat
    BY <1>12, Types DEF Rounds
  <2>6. Cardinality(ForkedFor(c)) < Rounds(c)
    BY <1>2, <1>6 DEF ClientInv, ProcessOf
  <2>7. QED
    BY <2>2, <2>3, <2>4, <2>5, <2>6 DEF ProcessOf
<1>19. \A d \in Clients : ClientInv(d)'
  <2> SUFFICES ASSUME NEW d \in Clients PROVE ClientInv(d)'
    OBVIOUS
  <2>1. CASE d = c
    BY <1>14, <1>15, <1>16, <1>17, <1>18, <2>1 DEF ClientInv
  <2>2. CASE d # c
    BY <1>13, <2>2, OthersStay
  <2>3. QED
    BY <2>1, <2>2
<1>20. BudgetInv'
  <2>1. Spent' = Spent
    BY <1>3, <1>12, SpentStays
  <2>2. OkUnderWay => OkUnderWay'
    BY <1>3, <1>5 DEF OkUnderWay
  <2>3. HasForked(c)' /\ \A d : HasForked(d) => HasForked(d)'
    BY <1>7, <1>10 DEF HasForked
  <2>4. TriesInv'
    <3> SUFFICES ASSUME NEW d \in Clients, Asking(d)'
                 PROVE  /\ client[d].tries <= Spent'
                        /\ \/ client[d].tries < Spent'
                           \/ ~ client[d].polling
                           \/ \E q \in net' : q.src = d
                           \/ HasForked(d)'
                           \/ OkUnderWay'
      BY DEF TriesInv
    <3>1. /\ client[d].tries <= Spent
          /\ \/ client[d].tries < Spent
             \/ ~ client[d].polling
             \/ \E q \in net : q.src = d
             \/ HasForked(d)
             \/ OkUnderWay
      BY <1>12 DEF BudgetInv, TriesInv
    <3>2. CASE d = c
      BY <2>1, <2>3, <3>1, <3>2
    <3>3. CASE d # c
      BY <1>3, <1>5, <2>1, <2>2, <2>3, <3>1, <3>3
    <3>4. QED
      BY <3>2, <3>3
  <2>5. PortInv'
    <3>1. InUse(thisSecond)' => InUse(thisSecond)
      <4>1. ~ Bound(m)' /\ \A k \in DOMAIN child : Bound(k)' = Bound(k)
        BY <1>7, <1>10 DEF Bound
      <4>2. QED
        BY <1>3, <1>10, <4>1 DEF InUse
    <3>2. QED
      BY <1>3, <1>12, <2>1, <2>2, <3>1 DEF BudgetInv, PortInv
  <2>6. QED
    BY <1>3, <2>4, <2>5 DEF BudgetInv
<1>21. QED
  BY <1>19, <1>20

\* A step of a child, which keeps its peer and its name.
ChildBecomes(n, state, count, port) ==
  /\ n \in DOMAIN child /\ UNCHANGED client
  /\ child' = [child EXCEPT ![n] = [child[n] EXCEPT !.state = state, !.retryCount = count,
                                                   !.port = port]]

LEMMA ChildFields ==
  ASSUME IsolationInv, NEW n, NEW state, NEW count, NEW port,
         ChildBecomes(n, state, count, port)
  PROVE  /\ DOMAIN child' = DOMAIN child /\ n \in DOMAIN child
         /\ child'[n].peer = child[n].peer /\ child'[n].name = child[n].name
         /\ child'[n].state = state /\ child'[n].retryCount = count
         /\ child'[n].port = port
         /\ \A m \in DOMAIN child : m # n => child'[m] = child[m]
         /\ \A d \in Clients : /\ Naming(d)' = Naming(d) /\ Reached(d)' = Reached(d)
                               /\ Asking(d)' = Asking(d) /\ Rounds(d)' = Rounds(d)
                               /\ ForkedFor(d)' = ForkedFor(d)
<1>1. child \in Seq(ChildRecords) /\ child[n] \in ChildRecords /\ n \in DOMAIN child
  BY Types DEF ChildBecomes
<1>2. /\ DOMAIN child' = DOMAIN child
      /\ child'[n] = [child[n] EXCEPT !.state = state, !.retryCount = count, !.port = port]
      /\ \A m \in DOMAIN child : m # n => child'[m] = child[m]
  BY <1>1 DEF ChildBecomes
<1>3. /\ child'[n].peer = child[n].peer /\ child'[n].name = child[n].name
      /\ child'[n].state = state /\ child'[n].retryCount = count
      /\ child'[n].port = port
  BY <1>1, <1>2 DEF ChildRecords
<1>4. UNCHANGED client
  BY DEF ChildBecomes
<1>5. \A d \in Clients : /\ Naming(d)' = Naming(d) /\ Reached(d)' = Reached(d)
                         /\ Asking(d)' = Asking(d) /\ Rounds(d)' = Rounds(d)
  BY <1>4 DEF Naming, Reached, Asking, Rounds
<1>6. \A m \in DOMAIN child : child'[m].peer = child[m].peer
  BY <1>2, <1>3
<1>7. \A d \in Clients : ForkedFor(d)' = ForkedFor(d)
  BY <1>2, <1>6 DEF ForkedFor
<1>8. QED
  BY <1>1, <1>2, <1>3, <1>5, <1>7

\* A child finds its port taken: by another child of the second, or by an error.
LEMMA LanBindFails ==
  ASSUME LanInv, IsolationInv', Lan, NEW n \in DOMAIN child, BindFails(n), UNCHANGED client
  PROVE  LanInv'
<1> USE DEF LanInv
<1>1. PICK c \in Clients : c = child[n].peer
  BY Types
<1>2. ClientInv(c) /\ errors \in Nat /\ errors <= MaxErrors
  BY DEF BudgetInv
<1>3. /\ child[n].state = "forked" /\ UNCHANGED <<opener, net>>
      /\ ChildBecomes(n, "exited", child[n].retryCount, child[n].port)
  <2>1. child[n] \in ChildRecords /\ child' = [child EXCEPT ![n].state = "exited"]
    BY Types DEF BindFails
  <2>2. child' = [child EXCEPT ![n] =
                    [child[n] EXCEPT !.state = "exited", !.retryCount = child[n].retryCount,
                                     !.port = child[n].port]]
    BY <2>1 DEF ChildRecords
  <2>3. QED
    BY <2>2 DEF BindFails, ChildBecomes
<1>4. /\ DOMAIN child' = DOMAIN child
      /\ child'[n].peer = c /\ child'[n].name = child[n].name /\ child'[n].state = "exited"
      /\ \A m \in DOMAIN child : m # n => child'[m] = child[m]
      /\ \A d \in Clients : /\ Naming(d)' = Naming(d) /\ Reached(d)' = Reached(d)
                            /\ Asking(d)' = Asking(d) /\ Rounds(d)' = Rounds(d)
                            /\ ForkedFor(d)' = ForkedFor(d)
  BY <1>1, <1>3, ChildFields
<1>5. /\ Asking(c) /\ \A p \in net : ~ Of(p, c)
      /\ \A m \in DOMAIN child :
           child[m].peer = c /\ child[m].state = "forked" => m = n
  BY <1>1, <1>2, <1>3 DEF ClientInv, ForkedOf
<1>6. UNCHANGED client /\ errors' \in Nat /\ errors <= errors' /\ errors' <= MaxErrors
  <2>1. PICK port \in DOMAIN child : Draws(n, port)
    BY DEF BindFails
  <2>2. MaxErrors \in Nat
    OBVIOUS
  <2>3. QED
    BY <1>2, <2>1, <2>2 DEF Draws
<1>7. AboutOnly(c)
  BY <1>1, <1>3, <1>4, <1>6 DEF AboutOnly
<1>8. PhaseOf(c)'
  BY <1>2, <1>4, <1>5, <1>6 DEF ClientInv, PhaseOf, Asking
<1>9. WayOf(c)'
  BY <1>3, <1>5 DEF WayOf, Of
<1>10. ForkedOf(c)'
  BY <1>1, <1>2, <1>4, <1>5 DEF ClientInv, ForkedOf
<1>11. RetryOf(c)'
  BY <1>4, <1>5 DEF RetryOf, Asking
<1>12. ProcessOf(c)'
  <2>1. AtMain(c)' = AtMain(c)
    BY <1>3 DEF AtMain
  <2>2. QED
    BY <1>2, <1>4, <2>1 DEF ClientInv, ProcessOf
<1>13. \A d \in Clients : ClientInv(d)'
  <2> SUFFICES ASSUME NEW d \in Clients PROVE ClientInv(d)'
    OBVIOUS
  <2>1. CASE d = c
    BY <1>8, <1>9, <1>10, <1>11, <1>12, <2>1 DEF ClientInv
  <2>2. CASE d # c
    BY <1>7, <2>2, OthersStay
  <2>3. QED
    BY <2>1, <2>2
<1>14. \A d \in Clients : Asking(d)' => Asking(d) /\ client'[d].tries = client[d].tries
  BY <1>4, <1>6
<1>15. CASE errors < errors'
  <2>1. \A d \in Clients : Reached(d) => Reached(d)'
    BY <1>4
  <2>2. Spent \in Nat /\ Spent' \in Nat /\ Spent < Spent'
    BY <1>2, <1>6, <1>15, <2>1, SpentGrows DEF Lan
  <2>3. BudgetInv'
    BY <1>6, <1>14, <2>2, BudgetGrows DEF Lan
  <2>4. QED
    BY <1>13, <2>3
<1>16. CASE ~ errors < errors'
  <2>1. PICK port \in DOMAIN child : Draws(n, port) /\ InUse(port)
    BY DEF BindFails
  <2>2. errors' = errors /\ thisSecond' = port
    BY <1>2, <1>16, <2>1 DEF Draws
  <2>3. CASE thisSecond # 0
    <3>1. thisSecond = port /\ InUse(thisSecond)
      BY <2>1, <2>2, <2>3, <1>2 DEF Draws
    <3>2. Spent' = Spent
      BY <1>4, <2>2, SpentStays
    <3>3. OkUnderWay' = OkUnderWay
      BY <1>3 DEF OkUnderWay
    <3>4. OkUnderWay \/ \A d \in Clients : Asking(d) => client[d].tries < Spent
      BY <2>3, <3>1 DEF BudgetInv, PortInv
    <3>5. TriesInv'
      <4>1. \A d \in Clients : Asking(d) => client[d].tries <= Spent
        BY DEF BudgetInv, TriesInv
      <4>2. QED
        BY <1>4, <1>6, <3>2, <3>3, <3>4, <4>1 DEF TriesInv
    <3>6. PortInv'
      BY <1>4, <1>6, <3>2, <3>3, <3>4 DEF PortInv
    <3>7. BudgetInv'
      BY <1>6, <3>5, <3>6 DEF BudgetInv
    <3>8. QED
      BY <1>13, <3>7
  <2>4. CASE thisSecond = 0
    <3>1. ~ WasBound(port)
      BY <1>2, <2>1, <2>2, <2>4 DEF Draws
    <3>2. QED
      BY <2>1, <3>1 DEF InUse, WasBound
  <2>5. QED
    BY <2>3, <2>4
<1>17. QED
  BY <1>15, <1>16

\* A child binds its port, truncates its client's file and answers OK.
LEMMA LanRecvFilename ==
  ASSUME LanInv, IsolationInv', Lan, NEW n \in DOMAIN child, recv_filename(n),
         UNCHANGED client
  PROVE  LanInv'
<1> USE DEF LanInv
<1>1. PICK c \in Clients : c = child[n].peer
  BY Types
<1>2. ClientInv(c) /\ errors \in Nat /\ errors <= MaxErrors
  BY DEF BudgetInv
<1>3. child[n].state = "forked" /\ child[n].name = ToFile[c]
  BY <1>1, <1>2 DEF ClientInv, ForkedOf, recv_filename
<1>4. PICK port \in DOMAIN child :
        /\ Draws(n, port)
        /\ child' = [child EXCEPT ![n].port = port, ![n].state = "waiting"]
        /\ net' = net \cup {Packet(port, c, "OK")}
        /\ opener' = [opener EXCEPT ![ToFile[c]] = n]
  <2>1. ToFile[c] \in Files /\ Unwritable = {}
    BY DEF Lan, AllWritable
  <2>2. PICK port \in DOMAIN child, opens \in BOOLEAN :
          /\ Draws(n, port)
          /\ child[n].name \in Files => opens = (child[n].name \notin Unwritable)
          /\ child' = [child EXCEPT ![n].port = port,
                                   ![n].state = IF opens THEN "waiting" ELSE "exited"]
          /\ net' = net \cup
               {Packet(port, child[n].peer, IF opens THEN "OK" ELSE "NAK")}
          /\ opener' = IF opens /\ child[n].name \in Files
               THEN [opener EXCEPT ![child[n].name] = n] ELSE opener
    BY DEF recv_filename
  <2>3. opens
    BY <1>3, <2>1, <2>2
  <2>4. QED
    BY <1>1, <1>3, <2>1, <2>2, <2>3
<1>5. ChildBecomes(n, "waiting", child[n].retryCount, port)
  <2>1. child[n] \in ChildRecords
    BY Types
  <2>2. child' = [child EXCEPT ![n] =
                    [child[n] EXCEPT !.state = "waiting", !.retryCount = child[n].retryCount,
                                     !.port = port]]
    BY <1>4, <2>1 DEF ChildRecords
  <2>3. QED
    BY <2>2 DEF ChildBecomes
<1>6. /\ DOMAIN child' = DOMAIN child
      /\ child'[n].peer = c /\ child'[n].name = child[n].name /\ child'[n].state = "waiting"
      /\ child'[n].retryCount = child[n].retryCount /\ child'[n].port = port
      /\ \A m \in DOMAIN child : m # n => child'[m] = child[m]
      /\ \A d \in Clients : /\ Naming(d)' = Naming(d) /\ Reached(d)' = Reached(d)
                            /\ Asking(d)' = Asking(d) /\ Rounds(d)' = Rounds(d)
                            /\ ForkedFor(d)' = ForkedFor(d)
  BY <1>1, <1>5, ChildFields
<1>7. /\ Asking(c) /\ client[c].polling /\ child[n].retryCount = 0
      /\ \A p \in net : ~ Of(p, c)
      /\ \A m \in DOMAIN child :
           child[m].peer = c /\ child[m].state = "forked" => m = n
  BY <1>1, <1>2, <1>3 DEF ClientInv, ForkedOf
<1>8. PICK p : p = Packet(port, c, "OK")
  OBVIOUS
<1>9. /\ p.src = port /\ p.dst = c /\ p.flag = "OK" /\ net' = net \cup {p}
      /\ port \notin Clients
  BY <1>4, <1>8, Types DEF Packet
<1>10. /\ opener'[ToFile[c]] = n
       /\ \A d \in Clients : d # c => opener'[ToFile[d]] = opener[ToFile[d]]
  <2>1. opener \in [Files -> Nat] /\ \A d \in Clients : ToFile[d] \in Files
    BY DEF IsolationInv, TypeInv
  <2>2. \A d \in Clients : d # c => ToFile[d] # ToFile[c]
    BY DEF Lan, FilesDiffer
  <2>3. QED
    BY <1>4, <2>1, <2>2
<1>11. /\ errors' \in Nat /\ errors <= errors' /\ errors' <= MaxErrors
       /\ errors' # errors => errors < errors'
  <2>1. MaxErrors \in Nat
    OBVIOUS
  <2>2. QED
    BY <1>2, <1>4, <2>1 DEF Draws
<1>12. AboutOnly(c)
  BY <1>1, <1>6, <1>9, <1>10, <1>11 DEF AboutOnly, Of
<1>13. PhaseOf(c)'
  BY <1>2, <1>6, <1>7, <1>11 DEF ClientInv, PhaseOf, Asking
<1>14. WayOf(c)'
  <2>1. Serves(n, c)'
    BY <1>6, <1>10 DEF Serves, Bound
  <2>2. Answers(c, p)'
    BY <1>6, <1>7, <1>9, <2>1 DEF Answers
  <2>3. \A q \in net' : Of(q, c) => q = p
    BY <1>7, <1>9
  <2>4. QED
    BY <1>7, <2>2, <2>3 DEF WayOf, Of
<1>15. ForkedOf(c)'
  BY <1>1, <1>2, <1>6, <1>7 DEF ClientInv, ForkedOf
<1>16. RetryOf(c)'
  BY <1>6, <1>7 DEF RetryOf, Asking
<1>17. ProcessOf(c)'
  <2>1. ~ AtMain(c)'
    BY <1>7, <1>9 DEF AtMain, Of
  <2>2. QED
    BY <1>2, <1>6, <2>1 DEF ClientInv, ProcessOf
<1>18. \A d \in Clients : ClientInv(d)'
  <2> SUFFICES ASSUME NEW d \in Clients PROVE ClientInv(d)'
    OBVIOUS
  <2>1. CASE d = c
    BY <1>13, <1>14, <1>15, <1>16, <1>17, <2>1 DEF ClientInv
  <2>2. CASE d # c
    BY <1>12, <2>2, OthersStay
  <2>3. QED
    BY <2>1, <2>2
<1>19. OkUnderWay'
  BY <1>9 DEF OkUnderWay
<1>20. BudgetInv'
  <2>1. CASE errors < errors'
    <3>1. \A d \in Clients : Reached(d) => Reached(d)'
      BY <1>6
    <3>2. Spent \in Nat /\ Spent' \in Nat /\ Spent < Spent'
      BY <1>2, <1>11, <2>1, <3>1, SpentGrows DEF Lan
    <3>3. \A d \in Clients : Asking(d)' => Asking(d) /\ client'[d].tries = client[d].tries
      BY <1>6
    <3>4. QED
      BY <1>11, <3>2, <3>3, BudgetGrows DEF Lan
  <2>2. CASE errors' = errors
    <3>1. Spent' = Spent
      BY <1>6, <2>2, SpentStays
    <3>2. TriesInv'
      <4>1. \A d \in Clients : Asking(d) => client[d].tries <= Spent
        BY DEF BudgetInv, TriesInv
      <4>2. QED
        BY <1>6, <1>19, <3>1, <4>1 DEF TriesInv
    <3>3. PortInv'
      BY <1>19 DEF PortInv
    <3>4. QED
      BY <1>11, <3>2, <3>3 DEF BudgetInv
  <2>3. QED
    BY <1>11, <2>1, <2>2
<1>21. QED
  BY <1>18, <1>20

\* A child that waited too long serves nobody.
LEMMA LanChildGivesUp ==
  ASSUME LanInv, IsolationInv', Lan, NEW n \in DOMAIN child, ChildGivesUp(n),
         UNCHANGED client
  PROVE  LanInv'
<1> USE DEF LanInv
<1>1. PICK c \in Clients : c = child[n].peer
  BY Types
<1>2. ClientInv(c) /\ errors \in Nat /\ errors <= MaxErrors
  BY DEF BudgetInv
<1>3. /\ child[n].state = "waiting" /\ child[n].retryCount > MaxRetry
      /\ UNCHANGED <<opener, thisSecond, net, errors>>
      /\ ChildBecomes(n, "exited", child[n].retryCount, child[n].port)
  <2>1. child[n] \in ChildRecords /\ child' = [child EXCEPT ![n].state = "exited"]
    BY Types DEF ChildGivesUp
  <2>2. child' = [child EXCEPT ![n] =
                    [child[n] EXCEPT !.state = "exited", !.retryCount = child[n].retryCount,
                                     !.port = child[n].port]]
    BY <2>1 DEF ChildRecords
  <2>3. QED
    BY <2>2 DEF ChildGivesUp, ChildBecomes
<1>4. /\ DOMAIN child' = DOMAIN child
      /\ child'[n].peer = c /\ child'[n].name = child[n].name /\ child'[n].state = "exited"
      /\ \A m \in DOMAIN child : m # n => child'[m] = child[m]
      /\ \A d \in Clients : /\ Naming(d)' = Naming(d) /\ Reached(d)' = Reached(d)
                            /\ Asking(d)' = Asking(d) /\ Rounds(d)' = Rounds(d)
                            /\ ForkedFor(d)' = ForkedFor(d)
  BY <1>1, <1>3, ChildFields
<1>5. child[n].retryCount \in Nat /\ child[n].retryCount > errors
  <2>1. MaxErrors <= MaxRetry /\ MaxErrors \in Nat /\ MaxRetry \in Nat
    BY DEF Lan, RetriesSuffice
  <2>2. child[n].retryCount \in Nat
    BY Types
  <2>3. QED
    BY <1>2, <1>3, <2>1, <2>2
<1>6. Serves(n, c) /\ Reached(c) => client[c].phase = "done"
  BY <1>2, <1>3, <1>5 DEF ClientInv, RetryOf
<1>7. /\ \A k : k # n /\ Serves(k, c) => Serves(k, c)' /\ child'[k] = child[k]
      /\ \A k : Serves(k, c)' => k # n /\ Serves(k, c)
  BY <1>3, <1>4 DEF Serves, Bound
<1>8. AboutOnly(c)
  BY <1>1, <1>2, <1>3, <1>4 DEF AboutOnly, ChildBecomes
<1>9. UNCHANGED client
  OBVIOUS
<1>10. PhaseOf(c)'
  <2>1. ASSUME Reached(c), client[c].phase # "done" PROVE ServesAt(client[c].fserver, c)'
    <3>1. ServesAt(client[c].fserver, c)
      BY <1>2, <2>1 DEF ClientInv, PhaseOf
    <3>2. ~ Serves(n, c)
      BY <1>6, <2>1
    <3>3. QED
      BY <1>4, <1>7, <3>1, <3>2 DEF ServesAt, Serves
  <2>2. QED
    BY <1>2, <1>3, <1>4, <1>9, <2>1 DEF ClientInv, PhaseOf
<1>11. WayOf(c)'
  <2>1. ASSUME NEW p \in net, Of(p, c)
        PROVE  client'[c].polling /\ (Asks(c, p) \/ Answers(c, p))'
    <3>1. client[c].polling /\ (Asks(c, p) \/ Answers(c, p))
      BY <1>2, <2>1 DEF ClientInv, WayOf
    <3>2. CASE Asks(c, p)
      BY <1>4, <3>1, <3>2 DEF Asks
    <3>3. CASE Answers(c, p) /\ p.flag = "OK"
      <4>1. PICK k \in DOMAIN child :
              Serves(k, c) /\ child[k].port = p.src /\ child[k].retryCount = 0
        BY <3>3 DEF Answers
      <4>2. k # n
        BY <1>2, <1>5, <4>1
      <4>3. Serves(k, c)' /\ child'[k] = child[k]
        BY <1>7, <4>1, <4>2
      <4>4. Asking(c)'
        BY <1>4, <3>3 DEF Answers
      <4>5. Answers(c, p)'
        BY <1>4, <3>3, <4>1, <4>3, <4>4 DEF Answers
      <4>6. QED
        BY <1>9, <3>1, <4>5
    <3>4. CASE Answers(c, p) /\ p.flag # "OK"
      BY <3>1, <3>4 DEF Answers
    <3>5. QED
      BY <3>1, <3>2, <3>3, <3>4
  <2>2. \A p, q \in net : Of(p, c) /\ Of(q, c) => p = q
    BY <1>2 DEF ClientInv, WayOf
  <2>3. QED
    BY <1>3, <2>1, <2>2 DEF WayOf, Of
<1>12. ForkedOf(c)'
  <2>1. ForkedOf(c) /\ net' = net
    BY <1>2, <1>3 DEF ClientInv
  <2>2. \A m \in DOMAIN child' : child'[m].peer = c =>
          /\ child[m].peer = c /\ child'[m].name = child[m].name
          /\ child'[m].state = "forked" => child'[m] = child[m]
    BY <1>1, <1>4
  <2>3. QED
    BY <1>4, <2>1, <2>2 DEF ForkedOf, Of
<1>13. RetryOf(c)'
  <2>1. \A k \in DOMAIN child : Serves(k, c)' => Serves(k, c) /\ child'[k] = child[k]
    BY <1>4, <1>7 DEF Serves
  <2>2. QED
    BY <1>2, <1>3, <1>4, <1>9, <2>1 DEF ClientInv, RetryOf
<1>14. ProcessOf(c)'
  <2>1. AtMain(c)' = AtMain(c)
    BY <1>3 DEF AtMain
  <2>2. QED
    BY <1>2, <1>4, <2>1 DEF ClientInv, ProcessOf
<1>15. \A d \in Clients : ClientInv(d)'
  <2> SUFFICES ASSUME NEW d \in Clients PROVE ClientInv(d)'
    OBVIOUS
  <2>1. CASE d = c
    BY <1>10, <1>11, <1>12, <1>13, <1>14, <2>1 DEF ClientInv
  <2>2. CASE d # c
    BY <1>8, <2>2, OthersStay
  <2>3. QED
    BY <2>1, <2>2
<1>16. BudgetInv'
  <2>1. Spent' = Spent
    BY <1>3, <1>4, SpentStays
  <2>2. OkUnderWay' = OkUnderWay
    BY <1>3 DEF OkUnderWay
  <2>3. \A d \in Clients : HasForked(d)' = HasForked(d)
    <3>1. \A m \in DOMAIN child : /\ child'[m].peer = child[m].peer
                                  /\ (child'[m].state = "forked") = (child[m].state = "forked")
      BY <1>1, <1>3, <1>4
    <3>2. QED
      BY <1>4, <3>1 DEF HasForked
  <2>4. TriesInv'
    BY <1>3, <1>4, <2>1, <2>2, <2>3 DEF BudgetInv, TriesInv
  <2>5. PortInv'
    <3>1. InUse(thisSecond)' => InUse(thisSecond)
      BY <1>3, <1>4 DEF InUse, Bound
    <3>2. QED
      BY <1>3, <1>4, <2>1, <2>2, <3>1 DEF BudgetInv, PortInv
  <2>6. QED
    BY <1>3, <1>4, <2>4, <2>5 DEF BudgetInv
<1>17. QED
  BY <1>15, <1>16

\* A child reads a packet: a name again, data that it answers, or a damaged
\* packet.
LEMMA LanChildHears ==
  ASSUME LanInv, IsolationInv', Lan, NEW n \in DOMAIN child, NEW p \in net, Bound(n),
         p.dst = child[n].port, UNCHANGED <<client, opener, thisSecond>>,
         NEW state, ChildBecomes(n, state, 0, child[n].port),
         \/ /\ p.flag # "DATA" /\ errors' = errors /\ state = child[n].state
            /\ net' = net \ {p}
         \/ /\ p.flag = "DATA" /\ errors' = errors /\ state = "serving"
            /\ net' = (net \ {p}) \cup {Packet(child[n].port, p.src, "RR")}
         \/ /\ errors < MaxErrors /\ errors' = errors + 1 /\ state = child[n].state
            /\ net' = net \ {p}
  PROVE  LanInv'
<1> USE DEF LanInv
<1>1. PICK c \in Clients : Of(p, c) /\ \A d \in Clients : Of(p, d) => d = c
  BY AboutOne
<1>2. ClientInv(c) /\ errors \in Nat /\ errors <= MaxErrors
  BY DEF BudgetInv
<1>3. /\ child[n].port \in Nat \ {0} /\ child[n].port \notin Clients
      /\ child[n].state \in {"waiting", "serving"}
  BY Types DEF Bound
<1>4. Asks(c, p) /\ client[c].polling
  BY <1>1, <1>2, <1>3 DEF ClientInv, WayOf, Answers
<1>5. /\ p.src = c /\ client[c].fserver = child[n].port /\ Reached(c)
      /\ client[c].phase # "done"
  BY <1>3, <1>4 DEF Asks, Reached, MainServer, Naming
<1>6. Serves(n, c) /\ child[n].peer = c
  <2>1. PICK m \in DOMAIN child : Serves(m, c) /\ child[m].port = child[n].port
    BY <1>2, <1>5 DEF ClientInv, PhaseOf, ServesAt
  <2>2. m = n
    BY <2>1 DEF Serves, IsolationInv, PortsInv
  <2>3. QED
    BY <2>1, <2>2 DEF Serves
<1>7. /\ DOMAIN child' = DOMAIN child
      /\ child'[n].peer = c /\ child'[n].name = child[n].name /\ child'[n].state = state
      /\ child'[n].retryCount = 0 /\ child'[n].port = child[n].port
      /\ \A m \in DOMAIN child : m # n => child'[m] = child[m]
      /\ \A d \in Clients : /\ Naming(d)' = Naming(d) /\ Reached(d)' = Reached(d)
                            /\ Asking(d)' = Asking(d) /\ Rounds(d)' = Rounds(d)
                            /\ ForkedFor(d)' = ForkedFor(d)
  BY <1>6, ChildFields
<1>8. state \in {"waiting", "serving"}
  BY <1>3
<1>9. /\ \A q \in net : Of(q, c) => q = p
      /\ \A m \in DOMAIN child : child[m].peer = c => child[m].state # "forked"
  BY <1>1, <1>2 DEF ClientInv, WayOf, ForkedOf
<1>10. /\ \A k, d : Serves(k, d)' = Serves(k, d)
       /\ \A port, d : ServesAt(port, d) => ServesAt(port, d)'
  <2>1. \A k, d : Serves(k, d)' = Serves(k, d)
    BY <1>3, <1>6, <1>7, <1>8 DEF Serves, Bound
  <2>2. \A k \in DOMAIN child : child'[k].port = child[k].port
    BY <1>7
  <2>3. QED
    BY <2>1, <2>2, StillServed
<1>11. errors' \in Nat /\ errors <= errors' /\ errors' <= MaxErrors
  BY <1>2
<1>12. PICK q : q = Packet(child[n].port, c, "RR")
  OBVIOUS
<1>13. /\ q.src = child[n].port /\ q.dst = c /\ q.flag = "RR"
       /\ \A x \in net' : (x \in net /\ x # p) \/ x = q
       /\ \A x \in net : x # p => x \in net'
       /\ q \in net' => p.flag = "DATA" \/ q \in net
  BY <1>5, <1>12 DEF Packet
<1>14. AboutOnly(c)
  BY <1>1, <1>3, <1>6, <1>7, <1>11, <1>13 DEF AboutOnly, Of
<1>15. PhaseOf(c)'
  BY <1>2, <1>7, <1>10, <1>11 DEF ClientInv, PhaseOf
<1>16. WayOf(c)'
  <2>1. \A x \in net' : Of(x, c) => x = q /\ (p.flag = "DATA" \/ q \in net)
    BY <1>9, <1>13
  <2>2. q \in net => q = p
    BY <1>9, <1>13 DEF Of
  <2>3. q # p
    BY <1>3, <1>5, <1>13
  <2>4. p.flag = "DATA" => client[c].phase = "sending"
    BY <1>4 DEF Asks
  <2>5. p.flag = "DATA" => Answers(c, q)'
    BY <1>5, <1>13, <2>4 DEF Answers
  <2>6. QED
    BY <1>4, <2>1, <2>2, <2>3, <2>5 DEF WayOf, Of
<1>17. ForkedOf(c)'
  <2>1. \A m \in DOMAIN child' : child'[m].peer = c =>
          child'[m].name = ToFile[c] /\ child'[m].state # "forked"
    BY <1>2, <1>6, <1>7, <1>8, <1>9 DEF ClientInv, ForkedOf
  <2>2. QED
    BY <2>1 DEF ForkedOf
<1>18. RetryOf(c)'
  <2> SUFFICES ASSUME child'[n].state = "waiting"
               PROVE  child'[n].retryCount < errors'
    <3>1. \A k : Serves(k, c)' => k = n
      BY <1>6, <1>10 DEF Serves
    <3>2. QED
      BY <1>7, <1>11, <3>1 DEF RetryOf
  <2>1. CASE errors' = errors + 1
    BY <1>2, <1>7, <2>1
  <2>2. CASE errors' # errors + 1
    <3>1. p.flag # "DATA"
      BY <1>7, <2>2
    <3>2. Naming(c)
      BY <1>4, <3>1 DEF Asks
    <3>3. errors > 0
      BY <1>2, <1>5, <3>2 DEF ClientInv, PhaseOf
    <3>4. QED
      BY <1>2, <1>7, <1>11, <3>3
  <2>3. QED
    BY <2>1, <2>2
<1>19. ProcessOf(c)'
  <2>1. ~ AtMain(c)'
    BY <1>3, <1>9, <1>13 DEF AtMain, Of
  <2>2. QED
    BY <1>2, <1>7, <2>1 DEF ClientInv, ProcessOf
<1>20. \A d \in Clients : ClientInv(d)'
  <2> SUFFICES ASSUME NEW d \in Clients PROVE ClientInv(d)'
    OBVIOUS
  <2>1. CASE d = c
    BY <1>15, <1>16, <1>17, <1>18, <1>19, <2>1 DEF ClientInv
  <2>2. CASE d # c
    BY <1>14, <2>2, OthersStay
  <2>3. QED
    BY <2>1, <2>2
<1>21. CASE errors < errors'
  <2>1. \A d \in Clients : Reached(d) => Reached(d)'
    BY <1>7
  <2>2. Spent \in Nat /\ Spent' \in Nat /\ Spent < Spent'
    BY <1>2, <1>11, <1>21, <2>1, SpentGrows DEF Lan
  <2>3. \A d \in Clients : Asking(d)' => Asking(d) /\ client'[d].tries = client[d].tries
    BY <1>7
  <2>4. BudgetInv'
    BY <1>11, <2>2, <2>3, BudgetGrows DEF Lan
  <2>5. QED
    BY <1>20, <2>4
<1>22. CASE errors' = errors
  <2>1. Spent' = Spent
    BY <1>7, <1>22, SpentStays
  <2>2. OkUnderWay => OkUnderWay'
    <3>1. p.flag # "OK"
      BY <1>4 DEF Asks
    <3>2. QED
      BY <1>13, <3>1 DEF OkUnderWay
  <2>3. \A d \in Clients : HasForked(d)' = HasForked(d)
    <3>1. \A m \in DOMAIN child : /\ child'[m].peer = child[m].peer
                                  /\ (child'[m].state = "forked") = (child[m].state = "forked")
      BY <1>3, <1>6, <1>7, <1>8
    <3>2. QED
      BY <1>7, <3>1 DEF HasForked
  <2>4. \A d \in Clients : Asking(d)' => d # c /\ Asking(d)
    BY <1>5, <1>7 DEF Asking
  <2>5. \A d \in Clients : d # c => ((\E x \in net : x.src = d) => \E x \in net' : x.src = d)
    BY <1>5, <1>13
  <2>6. TriesInv'
    BY <2>1, <2>2, <2>3, <2>4, <2>5 DEF BudgetInv, TriesInv
  <2>7. PortInv'
    <3>1. InUse(thisSecond)' => InUse(thisSecond)
      <4>1. \A k \in DOMAIN child :
              (Bound(k)' => Bound(k)) /\ child'[k].port = child[k].port
        BY <1>3, <1>7, <1>8 DEF Bound
      <4>2. QED
        BY <1>7, <4>1 DEF InUse
    <3>2. QED
      BY <2>1, <2>2, <2>4, <3>1 DEF BudgetInv, PortInv
  <2>8. BudgetInv'
    BY <1>11, <2>6, <2>7 DEF BudgetInv
  <2>9. QED
    BY <1>20, <2>8
<1>23. QED
  BY <1>2, <1>21, <1>22

LEMMA LanChildReceives ==
  ASSUME LanInv, IsolationInv', Lan, NEW n \in DOMAIN child, NEW p \in net,
         ChildReceives(n, p), UNCHANGED client
  PROVE  LanInv'
<1>1. child[n] \in ChildRecords
  BY Types DEF LanInv
<1>2. PICK state : state = IF p.flag = "DATA" THEN "serving" ELSE child[n].state
  OBVIOUS
<1>3. ChildBecomes(n, state, 0, child[n].port)
  <2>1. child' = [child EXCEPT ![n] = [child[n] EXCEPT !.state = state, !.retryCount = 0,
                                                     !.port = child[n].port]]
    BY <1>1, <1>2 DEF ChildReceives, ChildRecords
  <2>2. QED
    BY <2>1 DEF ChildBecomes
<1>4. /\ Bound(n) /\ p.dst = child[n].port /\ UNCHANGED <<client, opener, thisSecond>> /\ errors' = errors
      /\ net' = (net \ {p}) \cup
           (IF p.flag = "DATA" THEN {Packet(child[n].port, p.src, "RR")} ELSE {})
  BY DEF ChildReceives, Consume, Lan
<1>5. CASE p.flag = "DATA"
  BY <1>2, <1>3, <1>4, <1>5, LanChildHears
<1>6. CASE p.flag # "DATA"
  <2>1. net' = net \ {p}
    BY <1>4, <1>6
  <2>2. QED
    BY <1>2, <1>3, <1>4, <1>6, <2>1, LanChildHears
<1>7. QED
  BY <1>5, <1>6

LEMMA LanReceiveDamaged ==
  ASSUME LanInv, IsolationInv', Lan, ReceiveDamaged
  PROVE  LanInv'
<1>1. PICK p \in net : /\ \/ \E c \in Clients : ClientReceivesDamaged(c, p)
                          \/ ServerReceivesDamaged(p)
                       /\ net' = net \ {p}
  BY DEF ReceiveDamaged, Consume, Lan
<1>2. errors < MaxErrors /\ errors' = errors + 1 /\ UNCHANGED <<opener, thisSecond>>
  BY DEF ReceiveDamaged
<1>3. ASSUME NEW c \in Clients, ClientReceivesDamaged(c, p) PROVE LanInv'
  <2>1. UNCHANGED <<child, opener, thisSecond>> /\ net' = Consume(p)
    BY <1>1, <1>2, <1>3 DEF ClientReceivesDamaged, Consume, Lan
  <2>2. Heard(c, p)
    BY <1>2, <1>3, <2>1, AnswerHeard DEF Lan
  <2>3. QED
    BY <2>2, LanClientHears DEF Lan
<1>4. CASE ServerReceivesDamaged(p)
  <2>1. UNCHANGED client
    BY <1>4 DEF ServerReceivesDamaged
  <2>2. CASE UNCHANGED child
    BY <1>1, <1>2, <2>1, <2>2, Lost DEF Lan
  <2>3. ASSUME NEW n \in DOMAIN child, p.dst = child[n].port, Bound(n),
               child' = [child EXCEPT ![n].retryCount = 0]
        PROVE  LanInv'
    <3>1. child[n] \in ChildRecords
      BY Types DEF LanInv
    <3>2. child' = [child EXCEPT ![n] =
                      [child[n] EXCEPT !.state = child[n].state, !.retryCount = 0,
                                       !.port = child[n].port]]
      BY <2>3, <3>1 DEF ChildRecords
    <3>3. ChildBecomes(n, child[n].state, 0, child[n].port)
      BY <2>1, <3>2 DEF ChildBecomes
    <3>4. QED
      BY <1>1, <1>2, <2>1, <2>3, <3>3, LanChildHears
  <2>4. QED
    BY <1>4, <2>2, <2>3 DEF ServerReceivesDamaged
<1>5. QED
  BY <1>1, <1>3, <1>4

-----------------------------------------------------------------------------
(* A second passes. *)

\* When nothing more can happen within a second nothing is under way: each
\* client that asks has lost its try, and what it was lost to is paid for.
LEMMA QuietMeansLost ==
  ASSUME LanInv, Quiet
  PROVE  /\ net = {}
         /\ \A c \in Clients : Asking(c) => client[c].tries < Spent
         /\ \A c \in Clients : \A n \in DOMAIN child :
              Serves(n, c) /\ Reached(c) /\ client[c].phase # "done"
                /\ child[n].state = "waiting" => child[n].retryCount < errors
<1> USE DEF LanInv
<1>1. ASSUME NEW p \in net PROVE FALSE
  <2>1. PICK c \in Clients : Of(p, c)
    BY AboutOne
  <2>2. client[c].polling /\ (Asks(c, p) \/ Answers(c, p)) /\ PhaseOf(c)
    BY <2>1 DEF ClientInv, WayOf
  <2>3. p.dst # MainServer /\ p.dst # c
    BY <2>2 DEF Quiet
  <2>4. Asks(c, p)
    BY <2>2, <2>3 DEF Answers
  <2>5. ServesAt(p.dst, c)
    BY <2>2, <2>3, <2>4 DEF Asks, PhaseOf, Reached, Naming
  <2>6. InUse(p.dst) /\ p.dst \notin Clients
    BY <2>5, Types DEF ServesAt, Serves, InUse
  <2>7. QED
    BY <2>6 DEF Quiet
<1>2. net = {}
  BY <1>1
<1>3. ASSUME NEW c \in Clients, Asking(c) PROVE client[c].tries < Spent
  <2>1. client[c].polling
    BY <1>3 DEF Quiet, Asking, Naming
  <2>2. ~ HasForked(c) /\ ~ OkUnderWay
    BY <1>2 DEF Quiet, HasForked, OkUnderWay
  <2>3. QED
    BY <1>2, <1>3, <2>1, <2>2 DEF BudgetInv, TriesInv
<1>4. ASSUME NEW c \in Clients, NEW n \in DOMAIN child, Serves(n, c), Reached(c),
             client[c].phase # "done", child[n].state = "waiting"
      PROVE  child[n].retryCount < errors
  <2>1. client[c].phase \in {"naming", "sending"}
    BY <1>4, Types DEF ClientInv, PhaseOf, Phases
  <2>2. client[c].polling
    BY <2>1 DEF Quiet
  <2>3. QED
    BY <1>2, <1>4, <2>2 DEF ClientInv, RetryOf
<1>5. QED
  BY <1>2, <1>3, <1>4

LEMMA AfterTimeoutFields ==
  ASSUME NEW r \in ClientRecords, NEW t, t = AfterTimeout(r)
  PROVE  /\ t.fserver = r.fserver /\ ~ t.polling
         /\ \/ t.phase = r.phase /\ t.tries = r.tries /\ (r.phase = "naming" => ~ r.polling)
            \/ /\ r.phase = "naming" /\ r.polling /\ t.tries = r.tries + 1
               /\ t.phase = IF t.tries = MaxTries THEN "sending" ELSE "naming"
<1>1. CASE ~ r.polling
  <2>1. t = r
    BY <1>1 DEF AfterTimeout
  <2>2. QED
    BY <1>1, <2>1
<1>2. CASE r.polling /\ r.phase = "naming"
  <2>1. t = NextTry(r)
    BY <1>2 DEF AfterTimeout
  <2>2. QED
    BY <1>2, <2>1, NextTryFields
<1>3. CASE r.polling /\ r.phase # "naming"
  <2>1. t = [r EXCEPT !.polling = FALSE]
    BY <1>3 DEF AfterTimeout
  <2>2. QED
    BY <1>3, <2>1 DEF ClientRecords
<1>4. QED
  BY <1>1, <1>2, <1>3 DEF ClientRecords

\* A second passes.
LEMMA LanTick ==
  ASSUME LanInv, IsolationInv', Lan, Tick
  PROVE  LanInv'
<1> USE DEF LanInv
<1>1. /\ Quiet /\ thisSecond' = 0 /\ net' = {} /\ UNCHANGED <<opener, errors>>
      /\ client' = [c \in Clients |-> AfterTimeout(client[c])]
      /\ child' = [n \in DOMAIN child |-> AnotherTimeout(child[n])]
  BY DEF Tick
<1>2. /\ net = {} /\ net' = {}
      /\ \A c \in Clients : Asking(c) => client[c].tries < Spent
      /\ \A c \in Clients : \A n \in DOMAIN child :
           Serves(n, c) /\ Reached(c) /\ client[c].phase # "done"
             /\ child[n].state = "waiting" => child[n].retryCount < errors
  BY <1>1, QuietMeansLost
<1>3. errors \in Nat /\ errors <= MaxErrors /\ errors' = errors
  BY <1>1 DEF BudgetInv
<1>4. /\ DOMAIN child' = DOMAIN child
      /\ \A n \in DOMAIN child :
           /\ child'[n].peer = child[n].peer /\ child'[n].name = child[n].name
           /\ child'[n].state = child[n].state /\ child'[n].port = child[n].port
           /\ child'[n].retryCount = IF child[n].state = "waiting" THEN child[n].retryCount + 1
                                                                   ELSE child[n].retryCount
  <2>1. \A n \in DOMAIN child : child'[n] = AnotherTimeout(child[n]) /\ child[n] \in ChildRecords
    BY <1>1, Types
  <2>2. QED
    BY <1>1, <2>1 DEF AnotherTimeout, ChildRecords
<1>5. \A c \in Clients :
        /\ client'[c].fserver = client[c].fserver /\ ~ client'[c].polling
        /\ \/ /\ client'[c].phase = client[c].phase /\ client'[c].tries = client[c].tries
              /\ client[c].phase = "naming" => ~ client[c].polling
           \/ /\ client[c].phase = "naming" /\ client[c].polling
              /\ client'[c].tries = client[c].tries + 1
              /\ client'[c].phase = IF client'[c].tries = MaxTries THEN "sending" ELSE "naming"
  <2> TAKE c \in Clients
  <2>1. client'[c] = AfterTimeout(client[c]) /\ client[c] \in ClientRecords
    BY <1>1, Types
  <2>2. QED
    BY <2>1, AfterTimeoutFields
<1>6. \A c \in Clients : Reached(c)' = Reached(c) /\ (Asking(c)' => Asking(c))
  BY <1>5 DEF Reached, Asking, Naming
<1>7. Spent' = Spent
  BY <1>3, <1>6, SpentStays
<1>8. /\ \A n, c : Serves(n, c)' = Serves(n, c)
      /\ \A port, c : ServesAt(port, c) => ServesAt(port, c)'
  <2>1. \A n, c : Serves(n, c)' = Serves(n, c)
    BY <1>1, <1>4 DEF Serves, Bound
  <2>2. QED
    BY <1>4, <2>1, StillServed
<1>9. \A n \in DOMAIN child : child[n].state # "forked"
  BY <1>1 DEF Quiet
<1>10. ASSUME NEW c \in Clients PROVE ClientInv(c)'
  <2>1. ClientInv(c) /\ client[c].tries \in Nat
    BY Types
  <2>2. \/ /\ client'[c].phase = client[c].phase /\ client'[c].tries = client[c].tries
           /\ client[c].phase = "naming" => ~ client[c].polling
        \/ /\ client[c].phase = "naming" /\ client[c].polling
           /\ client'[c].tries = client[c].tries + 1
           /\ client'[c].phase = IF client'[c].tries = MaxTries THEN "sending" ELSE "naming"
    BY <1>5
  <2>3. Asking(c) => client[c].tries + 1 < MaxTries
    <3>1. ASSUME Asking(c) PROVE client[c].tries + 1 < MaxTries
      <4>1. PICK k : k = Cardinality(ReachedClients)
        OBVIOUS
      <4>2. k \in Nat /\ Cardinality(Clients) \in Nat /\ k < Cardinality(Clients)
        BY <3>1, <4>1, ReachedIsFinite DEF Lan, Asking
      <4>3. client[c].tries < errors + k
        BY <1>2, <3>1, <4>1 DEF Spent
      <4>4. MaxErrors + Cardinality(Clients) <= MaxTries /\ MaxErrors \in Nat /\ MaxTries \in Nat
        BY DEF Lan, TriesSuffice
      <4>5. QED
        BY <1>3, <2>1, <4>2, <4>3, <4>4
    <3>2. QED
      BY <3>1
  <2>4. PhaseOf(c)'
    <3>1. PhaseOf(c)
      BY <2>1 DEF ClientInv
    <3>2. client'[c].phase # "exit1" /\ client'[c].tries <= MaxTries
      BY <2>1, <2>2, <3>1 DEF PhaseOf, Naming
    <3>3. Naming(c)' => client'[c].tries < MaxTries /\ Naming(c)
      BY <2>1, <2>2, <3>1 DEF PhaseOf, Naming
    <3>4. ~ Naming(c)' => Reached(c)'
      <4>1. CASE Naming(c) /\ client'[c].tries = client[c].tries + 1
        BY <1>6, <2>1, <2>2, <2>3, <4>1 DEF Asking, Naming
      <4>2. CASE client'[c].phase = client[c].phase
        BY <1>6, <3>1, <4>2 DEF PhaseOf, Naming
      <4>3. QED
        BY <2>2, <4>1, <4>2 DEF Naming
    <3>5. Naming(c)' /\ Reached(c)' => errors' > 0
      BY <1>3, <1>6, <3>1, <3>3 DEF PhaseOf
    <3>6. Reached(c)' /\ client'[c].phase # "done" => ServesAt(client[c].fserver, c)'
      BY <1>5, <1>6, <1>8, <2>2, <3>1 DEF PhaseOf
    <3>7. QED
      BY <3>2, <3>3, <3>4, <3>5, <3>6 DEF PhaseOf
  <2>5. WayOf(c)'
    BY <1>2 DEF WayOf, Of
  <2>6. ForkedOf(c)'
    BY <1>4, <1>9, <2>1 DEF ClientInv, ForkedOf
  <2>7. RetryOf(c)'
    <3> SUFFICES ASSUME NEW n \in DOMAIN child, Serves(n, c), Reached(c),
                        client'[c].phase # "done", child'[n].state = "waiting"
                 PROVE  child'[n].retryCount <= errors
      BY <1>3, <1>4, <1>5, <1>6, <1>8 DEF RetryOf
    <3>1. Serves(n, c) /\ client[c].phase # "done" /\ child[n].state = "waiting"
      BY <1>4, <1>5, <2>2
    <3>2. child[n].retryCount < errors /\ child'[n].retryCount = child[n].retryCount + 1
      BY <1>2, <1>4, <3>1
    <3>3. child[n].retryCount \in Nat
      BY Types
    <3>4. QED
      BY <1>3, <3>2, <3>3
  <2>8. ProcessOf(c)'
    <3>1. ForkedFor(c)' = ForkedFor(c) /\ ~ AtMain(c)'
      BY <1>2, <1>4 DEF ForkedFor, AtMain
    <3>2. Rounds(c)' = Rounds(c)
      <4>1. client[c].phase = "naming" => client[c].tries < MaxTries
        BY <2>1 DEF ClientInv, PhaseOf, Naming
      <4>2. ~ client'[c].polling /\ MaxTries \in Nat
        BY <1>5
      <4>3. QED
        BY <2>1, <2>2, <4>1, <4>2 DEF Rounds, Naming
    <3>3. QED
      BY <2>1, <3>1, <3>2 DEF ClientInv, ProcessOf
  <2>9. QED
    BY <2>4, <2>5, <2>6, <2>7, <2>8 DEF ClientInv
<1>11. BudgetInv'
  <2>1. TriesInv'
    <3> SUFFICES ASSUME NEW c \in Clients, Asking(c)'
                 PROVE  client'[c].tries <= Spent' /\ ~ client'[c].polling
      BY DEF TriesInv
    <3>1. client[c].tries < Spent /\ client[c].tries \in Nat
      BY <1>2, <1>6, Types
    <3>2. client'[c].tries \in {client[c].tries, client[c].tries + 1}
      BY <1>5
    <3>3. Spent \in Nat
      <4>1. \A d \in Clients : Reached(d) => Reached(d)'
        BY <1>6
      <4>2. QED
        BY <1>3, <4>1, SpentGrows DEF Lan
    <3>4. QED
      BY <1>5, <1>7, <3>1, <3>2, <3>3
  <2>2. PortInv'
    BY <1>1 DEF PortInv
  <2>3. QED
    BY <1>1, <1>3, <2>1, <2>2 DEF BudgetInv
<1>12. QED
  BY <1>10, <1>11

-----------------------------------------------------------------------------

LEMMA InitLan ==
  ASSUME Init, Lan
  PROVE  LanInv
<1>1. IsolationInv
  BY InitIsolation
<1>2. /\ \A c \in Clients : /\ client[c].phase = "naming" /\ client[c].tries = 0
                            /\ client[c].polling = FALSE /\ client[c].fserver = MainServer
      /\ child = <<>> /\ thisSecond = 0 /\ net = {} /\ errors = 0
  BY DEF Init
<1>3. DOMAIN child = {}
  BY <1>2
<1>4. MaxTries \in Nat /\ MaxTries > 0 /\ MaxErrors \in Nat
  OBVIOUS
<1>5. ASSUME NEW c \in Clients PROVE ClientInv(c)
  <2>1. PhaseOf(c)
    BY <1>2, <1>4 DEF PhaseOf, Naming, Reached
  <2>2. WayOf(c) /\ ForkedOf(c) /\ RetryOf(c)
    BY <1>2, <1>3 DEF WayOf, ForkedOf, RetryOf
  <2>3. ProcessOf(c)
    <3>1. ForkedFor(c) = {} /\ ~ AtMain(c)
      BY <1>2, <1>3 DEF ForkedFor, AtMain
    <3>2. Cardinality(ForkedFor(c)) = 0
      BY <3>1, FS_EmptySet
    <3>3. Rounds(c) = 0
      BY <1>2 DEF Rounds, Naming
    <3>4. QED
      BY <3>1, <3>2, <3>3 DEF ProcessOf
  <2>4. QED
    BY <2>1, <2>2, <2>3 DEF ClientInv
<1>6. BudgetInv
  <2>1. Cardinality(ReachedClients) \in Nat
    BY ReachedIsFinite DEF Lan
  <2>2. Spent \in Nat
    BY <1>2, <2>1 DEF Spent
  <2>3. TriesInv
    BY <1>2, <2>2 DEF TriesInv
  <2>4. PortInv
    BY <1>2 DEF PortInv
  <2>5. QED
    BY <1>2, <1>4, <2>3, <2>4 DEF BudgetInv
<1>7. QED
  BY <1>1, <1>5, <1>6 DEF LanInv

LEMMA NextLan ==
  ASSUME LanInv, Lan, [Next]_vars
  PROVE  LanInv'
<1>1. IsolationInv'
  BY NextIsolation DEF LanInv
<1>2. CASE ClientStep
  <2>1. /\ UNCHANGED <<child, opener, thisSecond, errors>>
        /\ \E c \in Clients :
             \/ ClientSendsName(c) \/ ClientSendsData(c)
             \/ \E p \in net : ClientReceivesAnswer(c, p) \/ ClientReceivesInData(c, p)
    BY <1>2 DEF ClientStep
  <2>2. ASSUME NEW c \in Clients, ClientSendsName(c) \/ ClientSendsData(c) PROVE LanInv'
    BY <1>1, <2>1, <2>2, LanClientSends
  <2>3. ASSUME NEW c \in Clients, NEW p \in net,
               ClientReceivesAnswer(c, p) \/ ClientReceivesInData(c, p)
        PROVE  LanInv'
    <3>1. Heard(c, p)
      BY <2>1, <2>3, AnswerHeard DEF Lan
    <3>2. QED
      BY <1>1, <3>1, LanClientHears DEF Lan
  <2>4. QED
    BY <2>1, <2>2, <2>3
<1>3. CASE ServerStep
  BY <1>1, <1>3, LanMainReceives, LanBindFails, LanRecvFilename, LanChildGivesUp,
     LanChildReceives DEF ServerStep
<1>4. CASE Drop
  <2>1. PICK p \in net : net' = net \ {p}
    BY <1>4 DEF Drop
  <2>2. errors < MaxErrors /\ errors' = errors + 1 /\ UNCHANGED <<client, child, opener, thisSecond>>
    BY <1>4 DEF Drop
  <2>3. QED
    BY <1>1, <2>1, <2>2, Lost DEF Lan
<1>5. CASE ReceiveDamaged
  BY <1>1, <1>5, LanReceiveDamaged
<1>6. CASE Tick
  BY <1>1, <1>6, LanTick
<1>7. CASE AnyTimeout
  BY <1>7 DEF AnyTimeout, Lan
<1>8. CASE UNCHANGED vars
  <2>1. UNCHANGED <<client, child, opener, thisSecond, net, errors>>
    BY <1>8 DEF vars
  <2>2. ASSUME NEW c \in Clients PROVE ClientInv(c)'
    <3>1. ClientInv(c)
      BY DEF LanInv
    <3>2. QED
      BY <2>1, <3>1 DEF ClientInv, PhaseOf, WayOf, ForkedOf, RetryOf, ProcessOf, Naming, Reached,
         Asking, Serves, ServesAt, Bound, Asks, Answers, Of, Rounds, ForkedFor, AtMain
  <2>3. BudgetInv'
    BY <2>1 DEF LanInv, BudgetInv, TriesInv, PortInv, Spent, ReachedClients, OkUnderWay,
       HasForked, Asking, Naming, Reached, InUse, Bound
  <2>4. QED
    BY <1>1, <2>2, <2>3 DEF LanInv
<1>9. QED
  BY <1>2, <1>3, <1>4, <1>5, <1>6, <1>7, <1>8 DEF Next

LEMMA LanInvariant == Lan /\ Spec => []LanInv
<1> SUFFICES ASSUME Lan PROVE Spec => []LanInv
  OBVIOUS
<1>1. Init => LanInv
  BY InitLan
<1>2. LanInv /\ [Next]_vars => LanInv'
  BY NextLan
<1>3. QED
  BY <1>1, <1>2, PTL DEF Spec

\* On a LAN every data packet is on its way to the child that truncated the
\* client's file last and still listens.
THEOREM DataReachesItsFileCorrect == Lan /\ Spec => []DataReachesItsFile
<1>1. LanInv => DataReachesItsFile
  <2> SUFFICES ASSUME LanInv, NEW p \in net, p.flag = "DATA" PROVE ServesAt(p.dst, p.src)
    BY DEF DataReachesItsFile
  <2>1. PICK c \in Clients : Of(p, c)
    BY AboutOne DEF LanInv
  <2>2. Asks(c, p) /\ PhaseOf(c)
    BY <2>1 DEF LanInv, ClientInv, WayOf, Answers
  <2>3. QED
    BY <2>2 DEF Asks, PhaseOf, Naming
<1>2. QED
  BY <1>1, LanInvariant, PTL

\* On a LAN a client sends data only while the child at its address has its
\* file open and listens, although it also begins to send when its tries are
\* used up: a damaged OK alone brings that about.
THEOREM SendsOnlyIfServedCorrect == Lan /\ Spec => []SendsOnlyIfServed
<1>1. LanInv => SendsOnlyIfServed
  <2> SUFFICES ASSUME LanInv, NEW c \in Clients, client[c].phase = "sending"
               PROVE  ServesAt(client[c].fserver, c)
    BY DEF SendsOnlyIfServed
  <2>1. QED
    BY DEF LanInv, ClientInv, PhaseOf, Naming
<1>2. QED
  BY <1>1, LanInvariant, PTL

\* On a LAN no child truncates a file whose transfer has begun.
THEOREM OneOpenPerTransferCorrect == Lan /\ Spec => OneOpenPerTransfer
<1> SUFFICES ASSUME Lan PROVE Spec => OneOpenPerTransfer
  OBVIOUS
<1>1. ASSUME LanInv, [Next]_vars, NEW c \in Clients,
             client[c].phase \in {"sending", "done"}
      PROVE  opener'[ToFile[c]] = opener[ToFile[c]]
  <2>1. CASE UNCHANGED opener
    BY <2>1
  <2>2. ASSUME NEW n \in DOMAIN child, recv_filename(n)
        PROVE  opener'[ToFile[c]] = opener[ToFile[c]]
    <3>1. PICK d \in Clients : d = child[n].peer
      BY <1>1, Types DEF LanInv
    <3>2. child[n].name = ToFile[d] /\ Asking(d)
      BY <1>1, <2>2, <3>1 DEF LanInv, ClientInv, ForkedOf, recv_filename
    <3>3. ToFile[c] # ToFile[d]
      <4>1. d # c
        BY <1>1, <3>2 DEF Asking, Naming
      <4>2. QED
        BY <1>1, <4>1 DEF Lan, FilesDiffer
    <3>4. opener' = opener \/ opener' = [opener EXCEPT ![ToFile[d]] = n]
      BY <2>2, <3>2 DEF recv_filename
    <3>5. opener \in [Files -> Nat] /\ ToFile[c] \in Files
      BY <1>1 DEF LanInv, IsolationInv, TypeInv
    <3>6. QED
      BY <3>3, <3>4, <3>5
  <2>3. CASE ClientStep
    BY <2>1, <2>3 DEF ClientStep
  <2>4. CASE ServerStep
    BY <2>1, <2>2, <2>4 DEF ServerStep, MainReceives, BindFails, ChildGivesUp, ChildReceives
  <2>5. CASE Drop \/ ReceiveDamaged \/ Tick \/ AnyTimeout \/ UNCHANGED vars
    BY <2>1, <2>5 DEF Drop, ReceiveDamaged, Tick, AnyTimeout, vars
  <2>6. QED
    BY <1>1, <2>3, <2>4, <2>5 DEF Next
<1>2. LanInv /\ [Next]_vars =>
        [\A c \in Clients : client[c].phase \in {"sending", "done"}
           => opener'[ToFile[c]] = opener[ToFile[c]]]_vars
  BY <1>1
<1>3. QED
  BY <1>2, LanInvariant, PTL DEF Spec, OneOpenPerTransfer
==============================================================================
