---------------------------- MODULE Noip2Proofs ----------------------------
(***************************************************************************)
(* For any daemons, configurations, addresses and size of the table: the    *)
(* variables of Noip2 keep their types, daemons that start one after the    *)
(* other get slots of their own, a second daemon for a configuration is     *)
(* detected unless its slot comes first, and what a daemon remembers as set *)
(* is what the service has.                                                 *)
(***************************************************************************)
EXTENDS Noip2, WellFoundedInduction, TLAPS
\* The record of a process.
ProcRecord ==
  [pc : {"off", "count", "attach", "claim", "check", "update", "ended", "crashed"},
   mine : Slots \cup {0}, term : BOOLEAN, fresh : BOOLEAN,
   ip : Addresses \cup {None}, parsed : Addresses \cup {None, Forced}]

\* A slot of the table.
SlotRecord ==
  [pid : Procs \cup {0, None}, cfile : Configs \cup {None},
   last : Addresses \cup {None, Forced}]

SlotTypes == slots \in [Slots -> SlotRecord]

\* A process that is attached has a slot, one that updates an address.
Sound(r) ==
  /\ r \in ProcRecord
  /\ r.pc \in {"claim", "check", "update"} => r.mine \in Slots
  /\ r.pc = "update" => r.ip \in Addresses

ProcTypes == proc \in [Procs -> ProcRecord] /\ \A p \in Procs : Sound(proc[p])

WorldTypes ==
  /\ saved \in [Configs -> Addresses \cup {None, Forced}]
  /\ dns \in [Configs -> Addresses \cup {None}]
  /\ net \in Addresses \cup {None}
  /\ met \subseteq Procs /\ unsure \subseteq Procs
  /\ banned \in BOOLEAN /\ overlap \in BOOLEAN
  /\ events \in 0 .. MaxEvents

LEMMA TypeParts ==
  /\ TypeOK <=> ProcTypes /\ SlotTypes /\ WorldTypes
  /\ TypeOK' <=> ProcTypes' /\ SlotTypes' /\ WorldTypes'
BY DEF TypeOK, ProcTypes, SlotTypes, WorldTypes, Sound, ProcRecord, SlotRecord,
       Attached, Looping, At

\* A step changes the record of at most one process.
LEMMA PutKeepsTypes ==
  ASSUME ProcTypes, NEW p \in Procs, NEW r, Sound(r), Put(p, r)
  PROVE  ProcTypes'
BY DEF ProcTypes, Put, Sound
-----------------------------------------------------------------------------

\* The least of some numbers is one of them.
LEMMA LeastOf ==
  ASSUME NEW S, S \subseteq Nat, S # {}
  PROVE  Min(S) \in S /\ \A i \in S : Min(S) <= i
<1> DEFINE R == {ss \in Nat \X Nat : ss[1] < ss[2]}
<1>1. OpToRel(<, Nat) = R
  BY Zenon DEF OpToRel
<1>2. IsWellFoundedOn(R, Nat)
  BY <1>1, NatLessThanWellFounded, Zenon
<1>3. PICK x \in S : \A y \in S : ~(<<y, x>> \in R)
  <2> HIDE DEF R
  <2>1. QED
    BY <1>2, WFMin
<1>4. ASSUME NEW y \in S PROVE x <= y
  <2>1. ~(y < x)
    BY <1>3
  <2>2. QED
    BY <2>1
<1>5. QED
  BY <1>4 DEF Min

\* Where a daemon's search ends: at a slot that names no process or none that
\* exists, with no slot of its configuration before it.
LEMMA SearchEnds ==
  ASSUME SlotTypes, NEW p \in Procs, FindSlot(p) \notin {0, -1}
  PROVE  /\ FindSlot(p) \in Slots
         /\ slots[FindSlot(p)].pid = None \/ ~Exists(slots[FindSlot(p)].pid)
         /\ \A i \in Slots : slots[i].cfile = ConfigOf[p] => FindSlot(p) <= i
<1> DEFINE stops == {i \in Slots : slots[i].pid = None \/ slots[i].cfile = ConfigOf[p]}
<1>1. stops # {} /\ FindSlot(p) = Min(stops)
      /\ (slots[Min(stops)].pid = None \/ ~Exists(slots[Min(stops)].pid))
  BY DEF FindSlot
<1>2. stops \subseteq Nat
  BY SlotAssumption DEF Slots
<1>3. Min(stops) \in stops /\ \A i \in stops : Min(stops) <= i
  <2> HIDE DEF stops
  <2>1. QED
    BY <1>1, <1>2, LeastOf
<1>4. QED
  BY <1>1, <1>3

\* None and 0 are not processes, and every process has a configuration.
LEMMA ProcsAre ==
  /\ Procs \subseteq Nat \ {0} /\ None \notin Procs
  /\ \A p \in Procs : ConfigOf[p] \in Configs
BY ConfigAssumption, NoneAssumption DEF Procs
-----------------------------------------------------------------------------
LEMMA GoneKeepsTypes ==
  ASSUME ProcTypes, NEW p \in Procs, NEW how \in {"ended", "crashed"}, Gone(p, how)
  PROVE  ProcTypes' /\ proc' = [proc EXCEPT ![p] = [Off EXCEPT !.pc = how]]
<1>1. Sound([Off EXCEPT !.pc = how])
  BY DEF Sound, ProcRecord, Off
<1>2. QED
  BY <1>1, PutKeepsTypes DEF Gone, Put

LEMMA InitTypes == Init => TypeOK
<1> SUFFICES ASSUME Init PROVE ProcTypes /\ SlotTypes /\ WorldTypes
  BY TypeParts
<1>1. Sound(Off)
  BY DEF Sound, ProcRecord, Off
<1>2. ProcTypes
  BY <1>1 DEF Init, ProcTypes, Sound
<1>3. SlotTypes
  BY ConfigAssumption DEF Init, SlotTypes, SlotRecord, Empty, Left
<1>4. WorldTypes
  <2>1. saved = [c \in Configs |-> None] /\ dns = [c \in Configs |-> None]
        /\ net \in Addresses /\ banned = FALSE /\ overlap = FALSE
        /\ met = {} /\ unsure = {} /\ events = 0
    BY DEF Init
  <2>2. events \in 0 .. MaxEvents
    BY <2>1, EventAssumption
  <2>3. QED
    BY <2>1, <2>2, Zenon DEF WorldTypes
<1>5. QED
  BY <1>2, <1>3, <1>4

LEMMA EventTypes ==
  ASSUME WorldTypes, Event
  PROVE  events' \in 0 .. MaxEvents
BY EventAssumption DEF WorldTypes, Event

LEMMA StartTypes ==
  ASSUME TypeOK, NEW p \in Procs, \/ Start(p) \/ StartFails(p) \/ Count(p) \/ Attach(p)
                         \/ Claim(p)
  PROVE  TypeOK'
<1>1. ProcTypes /\ SlotTypes /\ WorldTypes
  BY TypeParts
<1>2. SlotTypes' /\ WorldTypes'
  <2>1. CASE Start(p) \/ StartFails(p) \/ Count(p) \/ Attach(p)
    BY <1>1, <2>1, EventTypes
    DEF Start, StartFails, Count, Attach, SlotTypes, WorldTypes, world, history, At
  <2>2. CASE Claim(p)
    <3>1. [pid |-> p, cfile |-> ConfigOf[p], last |-> proc[p].parsed] \in SlotRecord
      BY <1>1, ProcsAre DEF ProcTypes, ProcRecord, SlotRecord
    <3>2. SlotTypes'
      BY <1>1, <2>2, <3>1 DEF Claim, SlotTypes
    <3>3. WorldTypes'
      BY <1>1, <2>2 DEF Claim, WorldTypes, Companions, world
    <3>4. QED
      BY <3>2, <3>3
  <2>3. QED
    BY <2>1, <2>2
<1>3. CASE Start(p)
  <2>1. CASE Put(p, [Off EXCEPT !.pc = "count", !.parsed = parse_config(ConfigOf[p]).last])
             /\ Readable(ConfigOf[p])
    <3>1. parse_config(ConfigOf[p]).last = saved[ConfigOf[p]]
      BY <2>1 DEF Readable, handle_config_error, parse_config
    <3>2. Sound([Off EXCEPT !.pc = "count", !.parsed = saved[ConfigOf[p]]])
      BY <1>1, ProcsAre DEF Sound, ProcRecord, Off, WorldTypes
    <3>3. QED
      BY <1>1, <1>2, <2>1, <3>1, <3>2, PutKeepsTypes, TypeParts
  <2>2. QED
    BY <1>1, <1>2, <1>3, <2>1, GoneKeepsTypes, TypeParts DEF Start
<1>4. CASE StartFails(p)
  BY <1>1, <1>2, <1>4, GoneKeepsTypes, TypeParts DEF StartFails
<1>5. CASE Attach(p)
  <2>1. ASSUME FindSlot(p) \notin {0, -1},
               Put(p, [proc[p] EXCEPT !.pc = "claim", !.mine = FindSlot(p)])
        PROVE  ProcTypes'
    <3>1. FindSlot(p) \in Slots
      BY <1>1, <2>1, SearchEnds
    <3>2. Sound([proc[p] EXCEPT !.pc = "claim", !.mine = FindSlot(p)])
      BY <1>1, <3>1 DEF ProcTypes, Sound, ProcRecord
    <3>3. QED
      BY <1>1, <2>1, <3>2, PutKeepsTypes
  <2>2. CASE banned \/ FindSlot(p) = -1
    BY <1>1, <1>2, <1>5, <2>2, GoneKeepsTypes, TypeParts DEF Attach
  <2>3. CASE ~banned /\ FindSlot(p) = 0
    BY <1>1, <1>2, <1>5, <2>3, GoneKeepsTypes, TypeParts DEF Attach
  <2>4. CASE ~banned /\ FindSlot(p) \notin {0, -1}
    BY <1>1, <1>2, <1>5, <2>1, <2>4, TypeParts DEF Attach
  <2>5. QED
    BY <2>2, <2>3, <2>4
<1>6. CASE Claim(p)
  <2>1. Sound([proc[p] EXCEPT !.pc = "check", !.parsed = None])
    BY <1>1, <1>6 DEF ProcTypes, Sound, ProcRecord, Claim, At
  <2>2. QED
    BY <1>1, <1>2, <1>6, <2>1, PutKeepsTypes, TypeParts DEF Claim
<1>7. CASE Count(p)
  <2>1. CASE Gone(p, "ended")
    BY <1>1, <1>2, <2>1, GoneKeepsTypes, TypeParts
  <2>2. CASE Goto(p, "attach")
    <3>1. Sound([proc[p] EXCEPT !.pc = "attach"])
      BY <1>1 DEF ProcTypes, Sound, ProcRecord
    <3>2. Put(p, [proc[p] EXCEPT !.pc = "attach"])
      BY <2>2 DEF Goto, Put
    <3>3. QED
      BY <1>1, <1>2, <3>1, <3>2, PutKeepsTypes, TypeParts
  <2>3. QED
    BY <1>7, <2>1, <2>2 DEF Count
<1>8. QED
  BY <1>3, <1>4, <1>5, <1>6, <1>7

LEMMA LoopTypes ==
  ASSUME TypeOK, NEW p \in Procs,
         \/ GotAddress(p) \/ NoAddress(p) \/ LoopEnds(p)
         \/ Confirmed(p) \/ NotReached(p) \/ ReplyLost(p) \/ Disabled(p)
  PROVE  TypeOK'
<1>1. ProcTypes /\ SlotTypes /\ WorldTypes
  BY TypeParts
<1>2. Sound(proc[p]) /\ slots[proc[p].mine] \in SlotRecord
      /\ (At(p, "check") \/ At(p, "update")) /\ proc[p].mine \in Slots
  BY <1>1 DEF ProcTypes, SlotTypes, Sound, GotAddress, NoAddress, CheckWith, LoopEnds,
     Confirmed, NotReached, ReplyLost, Disabled, At
<1>3. ASSUME NEW a \in Addresses \cup {None}, CheckWith(p, a) PROVE TypeOK'
  <2> DEFINE old == IF proc[p].fresh THEN Forced ELSE Slot(p).last
             new == a # None /\ a # old
             r == [proc[p] EXCEPT !.fresh = FALSE,
                                  !.pc = IF new THEN "update" ELSE "check",
                                  !.ip = IF new THEN a ELSE None]
  <2>1. Sound(r)
    <3>1. new \in BOOLEAN /\ (new => a \in Addresses)
      BY <1>3
    <3> HIDE DEF new
    <3>2. QED
      BY <1>2, <1>3, <3>1 DEF Sound, ProcRecord
  <2>2. Put(p, r) /\ slots' = [slots EXCEPT ![proc[p].mine].last = old]
        /\ UNCHANGED <<saved, banned, world, history>>
    BY <1>3 DEF CheckWith
  <2>3. old \in Addresses \cup {None, Forced}
    BY <1>2 DEF Slot, SlotRecord
  <2>4. SlotTypes'
    <3> HIDE DEF old
    <3>1. QED
      BY <1>1, <1>2, <2>2, <2>3 DEF SlotTypes, SlotRecord
  <2>5. WorldTypes'
    BY <1>1, <2>2 DEF WorldTypes, world, history
  <2>6. ProcTypes'
    <3> HIDE DEF r
    <3>1. QED
      BY <1>1, <2>1, <2>2, PutKeepsTypes
  <2>7. QED
    BY <2>4, <2>5, <2>6, TypeParts
<1>4. ASSUME At(p, "update"), NEW isDone \in BOOLEAN, NEW end \in BOOLEAN,
             Updated(p, isDone, end)
      PROVE  ProcTypes' /\ SlotTypes'
  <2>1. Sound([proc[p] EXCEPT !.pc = "check", !.ip = None, !.term = @ \/ end])
    BY <1>2 DEF Sound, ProcRecord
  <2>2. ProcTypes'
    BY <1>1, <1>4, <2>1, PutKeepsTypes DEF Updated
  <2>3. SlotTypes'
    BY <1>1, <1>2, <1>4 DEF Updated, SlotTypes, SlotRecord, Sound, ProcRecord
  <2>4. QED
    BY <2>2, <2>3
<1>5. ASSUME SetDns(p), At(p, "update") PROVE dns' \in [Configs -> Addresses \cup {None}]
  <2>1. proc[p].ip \in Addresses
    BY <1>2, <1>5 DEF Sound, At
  <2>2. QED
    BY <1>1, <1>5, <2>1 DEF SetDns, WorldTypes
<1>6. CASE GotAddress(p) \/ NoAddress(p)
  BY <1>1, <1>3, <1>6 DEF GotAddress, NoAddress, WorldTypes
<1>7. CASE LoopEnds(p)
  <2>1. Empty \in SlotRecord /\ Slot(p).last \in Addresses \cup {None, Forced}
    BY <1>2 DEF SlotRecord, Empty, Slot
  <2>2. SlotTypes'
    BY <1>1, <1>7, <2>1 DEF LoopEnds, SlotTypes
  <2>3. WorldTypes'
    BY <1>1, <1>7, <2>1 DEF LoopEnds, WorldTypes, world, history
  <2>4. QED
    BY <1>1, <1>7, <2>2, <2>3, GoneKeepsTypes, TypeParts DEF LoopEnds
<1>8. CASE Confirmed(p)
  BY <1>1, <1>4, <1>5, <1>8, TypeParts DEF Confirmed, WorldTypes
<1>9. CASE NotReached(p)
  BY <1>1, <1>4, <1>9, TypeParts DEF NotReached, WorldTypes, world, history
<1>10. CASE ReplyLost(p)
  BY <1>1, <1>4, <1>5, <1>10, EventTypes, TypeParts DEF ReplyLost, WorldTypes
<1>11. CASE Disabled(p)
  BY <1>1, <1>4, <1>11, EventTypes, TypeParts DEF Disabled, WorldTypes, history
<1>12. QED
  BY <1>6, <1>7, <1>8, <1>9, <1>10, <1>11

LEMMA StepTypes == TypeOK /\ [Next]_vars => TypeOK'
<1> SUFFICES ASSUME TypeOK, [Next]_vars PROVE TypeOK'
  OBVIOUS
<1>1. ProcTypes /\ SlotTypes /\ WorldTypes
  BY TypeParts
<1>2. CASE UNCHANGED vars
  BY <1>2 DEF vars, TypeOK, world, history, Attached, Looping, At
<1>3. ASSUME NEW p \in Procs, Sigterm(p) PROVE TypeOK'
  <2>1. ProcTypes' /\ SlotTypes'
    BY <1>1, <1>3 DEF Sigterm, ProcTypes, SlotTypes, Sound, ProcRecord
  <2>2. WorldTypes'
    BY <1>1, <1>3, EventTypes DEF Sigterm, WorldTypes, history
  <2>3. QED
    BY <2>1, <2>2, TypeParts
<1>4. ASSUME NEW p \in Procs, Crash(p) PROVE TypeOK'
  <2>1. ProcTypes' /\ SlotTypes'
    BY <1>1, <1>4, GoneKeepsTypes DEF Crash, SlotTypes
  <2>2. WorldTypes'
    BY <1>1, <1>4, EventTypes DEF Crash, WorldTypes, history
  <2>3. QED
    BY <2>1, <2>2, TypeParts
<1>5. ASSUME NEW i \in Slots, CleanSlot(i) PROVE TypeOK'
  <2>1. ProcTypes' /\ SlotTypes'
    BY <1>1, <1>5 DEF CleanSlot, ProcTypes, SlotTypes, SlotRecord, Empty
  <2>2. WorldTypes'
    BY <1>1, <1>5, EventTypes DEF CleanSlot, WorldTypes, history
  <2>3. QED
    BY <2>1, <2>2, TypeParts
<1>6. CASE AddressChanges
  <2>1. ProcTypes' /\ SlotTypes'
    BY <1>1, <1>6 DEF AddressChanges, ProcTypes, SlotTypes
  <2>2. WorldTypes'
    BY <1>1, <1>6, EventTypes DEF AddressChanges, WorldTypes, history
  <2>3. QED
    BY <2>1, <2>2, TypeParts
<1>7. QED
  BY <1>2, <1>3, <1>4, <1>5, <1>6, StartTypes, LoopTypes DEF Next, Daemon, AllOver

\* Every variable keeps its type: a daemon that is attached to the table has a
\* slot in it, and one that updates has an address to send, for any number of
\* daemons, configurations and addresses and any size of the table (noip2.c).
THEOREM TypeCorrect == Spec => []TypeOK
<1>1. QED
  BY InitTypes, StepTypes, PTL DEF Spec
-----------------------------------------------------------------------------
\* A process that a slot names has filled it in.
SlotsTellTheTruth ==
  \A i \in Slots : slots[i].pid \in Procs =>
    proc[slots[i].pid].pc \in {"check", "update", "ended", "crashed"}

FirstCheckIsForced ==
  \A p \in Procs : Begun(p) \/ At(p, "claim") => proc[p].fresh

\* As long as no two have looked for a slot at the same time, a daemon's slot
\* is its own, and so is the one that a process has found, from which no
\* daemon of its configuration can be seen behind it.
Separate ==
  ~overlap =>
    /\ \A p, q \in Procs : At(p, "claim") /\ At(q, "claim") => p = q
    /\ \A p \in Procs : Looping(p) => Slot(p).pid = p /\ Slot(p).cfile = ConfigOf[p]
    /\ \A p \in Procs : At(p, "claim") => ~Exists(Slot(p).pid)
    /\ \A p, q \in Procs :
         At(p, "claim") /\ Looping(q) /\ ConfigOf[q] = ConfigOf[p] =>
           proc[p].mine < proc[q].mine

\* A daemon that met no other is alone with its slot and its configuration.
Unmet ==
  \A p \in Procs \ met : Looping(p) =>
    /\ Slot(p).pid = p
    /\ \A q \in Procs \ {p} : Looping(q) =>
         proc[q].mine # proc[p].mine /\ ConfigOf[q] # ConfigOf[p]

TableInv == SlotsTellTheTruth /\ FirstCheckIsForced /\ Separate /\ Unmet

\* Nothing that TableInv speaks of changes.
Quiet ==
  /\ \A q \in Procs :
       /\ proc'[q].mine = proc[q].mine
       /\ proc'[q].pc = proc[q].pc \/ (Looping(q) /\ Looping(q)')
       /\ proc'[q].fresh = proc[q].fresh \/ Looping(q)
  /\ \A i \in Slots : slots'[i].pid = slots[i].pid /\ slots'[i].cfile = slots[i].cfile
  /\ overlap' = overlap /\ met' = met

\* All other processes and what they have met stay as they are.
Alone(p) ==
  /\ \A q \in Procs \ {p} : proc'[q] = proc[q]
  /\ met' = met /\ (overlap => overlap')

\* p ends, and takes itself out of the table or not.
Leaves(p) ==
  /\ Alone(p)
  /\ proc'[p].pc \in {"ended", "crashed"}
  /\ \/ slots' = slots
     \/ Looping(p) /\ slots' = [slots EXCEPT ![proc[p].mine] = Empty]

LEMMA QuietKeeps ==
  ASSUME TypeOK, TableInv, Quiet
  PROVE  TableInv'
<1>1. \A q \in Procs : /\ Attached(q) => proc[q].mine \in Slots
                       /\ Looping(q)' <=> Looping(q)
                       /\ At(q, "claim")' <=> At(q, "claim")
                       /\ Begun(q)' <=> Begun(q)
                       /\ proc'[q].mine = proc[q].mine
  BY DEF TypeOK, Quiet, Looping, At, Begun
<1>2. \A q \in Procs : Looping(q) \/ At(q, "claim") => Attached(q)
  BY DEF Attached
<1>3. SlotsTellTheTruth'
  BY DEF TableInv, SlotsTellTheTruth, Quiet, Looping
<1>4. FirstCheckIsForced'
  BY <1>1 DEF TableInv, FirstCheckIsForced, Quiet, Looping, At, Begun
<1>5. \A q \in Procs : Looping(q) \/ At(q, "claim") =>
        /\ Slot(q)'.pid = Slot(q).pid /\ Slot(q)'.cfile = Slot(q).cfile
  BY <1>1, <1>2 DEF Quiet, Slot
<1>6. \A x : Exists(x)' <=> Exists(x)
  BY <1>1 DEF Exists, Attached
<1>7. Separate'
  BY <1>1, <1>5, <1>6 DEF TableInv, Separate, Quiet
<1>8. Unmet'
  BY <1>1, <1>5 DEF TableInv, Unmet, Quiet
<1>9. QED
  BY <1>3, <1>4, <1>7, <1>8 DEF TableInv

LEMMA LeavesKeeps ==
  ASSUME TypeOK, TableInv, NEW p \in Procs, Leaves(p)
  PROVE  TableInv'
<1>1. /\ ~Looping(p)' /\ ~At(p, "claim")' /\ ~Begun(p)'
      /\ \A q \in Procs \ {p} : proc'[q] = proc[q]
  BY DEF Leaves, Alone, Looping, At, Begun
<1>2. \A q \in Procs \ {p} : Looping(q)' = Looping(q) /\ At(q, "claim")' = At(q, "claim")
                             /\ Begun(q)' = Begun(q)
  BY <1>1 DEF Looping, At, Begun
<1>3. \A q \in Procs : Looping(q) \/ At(q, "claim") => proc[q].mine \in Slots
  BY DEF TypeOK, Attached
<1>4. \A i \in Slots : slots'[i] \in {slots[i], Empty}
  BY DEF Leaves, TypeOK
<1>5. SlotsTellTheTruth'
  <2> SUFFICES ASSUME NEW i \in Slots, slots'[i].pid \in Procs
               PROVE  proc'[slots'[i].pid].pc \in {"check", "update", "ended", "crashed"}
    BY DEF SlotsTellTheTruth
  <2>1. slots'[i] = slots[i]
    BY <1>4, ProcsAre DEF Empty
  <2>2. QED
    BY <1>1, <2>1 DEF TableInv, SlotsTellTheTruth, Leaves
<1>6. FirstCheckIsForced'
  BY <1>1, <1>2 DEF TableInv, FirstCheckIsForced
<1>7. \A x : Exists(x)' => Exists(x)
  BY <1>1 DEF Exists, Attached, Looping, At, Begun, Leaves
<1>8. ASSUME NEW q \in Procs \ {p}, Looping(q), Slot(q).pid = q,
             Looping(p) => proc[p].mine # proc[q].mine
      PROVE  Slot(q)' = Slot(q)
  BY <1>1, <1>3, <1>8 DEF Leaves, Slot, TypeOK
<1>9. Separate'
  <2> SUFFICES ASSUME ~overlap' PROVE Separate'
    BY DEF Separate
  <2>1. ~overlap
    BY DEF Leaves, Alone
  <2>2. ASSUME NEW q \in Procs, Looping(q)'
        PROVE  (Slot(q).pid = q /\ Slot(q).cfile = ConfigOf[q])'
    <3>1. q # p /\ Looping(q) /\ Slot(q).pid = q /\ Slot(q).cfile = ConfigOf[q]
      BY <1>1, <1>2, <2>1, <2>2 DEF TableInv, Separate
    <3>2. Looping(p) => proc[p].mine # proc[q].mine
      BY <2>1, <3>1 DEF TableInv, Separate, Slot
    <3>3. QED
      BY <1>8, <3>1, <3>2
  <2>3. ASSUME NEW q \in Procs, At(q, "claim")' PROVE ~Exists(Slot(q).pid)'
    <3>1. q # p /\ At(q, "claim") /\ ~Exists(Slot(q).pid) /\ proc[q].mine \in Slots
      BY <1>1, <1>2, <1>3, <2>1, <2>3 DEF TableInv, Separate
    <3>2. Slot(q)' \in {Slot(q), Empty}
      BY <1>1, <1>4, <3>1 DEF Slot
    <3>3. QED
      BY <1>7, <3>1, <3>2, ProcsAre DEF Empty, Exists
  <2>4. QED
    BY <1>1, <1>2, <2>1, <2>2, <2>3 DEF TableInv, Separate
<1>10. Unmet'
  <2> SUFFICES ASSUME NEW q \in Procs \ met', Looping(q)'
               PROVE  /\ Slot(q)'.pid = q
                      /\ \A o \in Procs \ {q} : Looping(o)' =>
                           proc'[o].mine # proc'[q].mine /\ ConfigOf[o] # ConfigOf[q]
    BY DEF Unmet
  <2>1. q # p /\ Looping(q) /\ q \notin met
    BY <1>1, <1>2 DEF Leaves, Alone
  <2>2. /\ Slot(q).pid = q
        /\ \A o \in Procs \ {q} : Looping(o) =>
             proc[o].mine # proc[q].mine /\ ConfigOf[o] # ConfigOf[q]
    BY <2>1 DEF TableInv, Unmet
  <2>3. Slot(q)' = Slot(q)
    BY <1>8, <2>1, <2>2
  <2>4. QED
    BY <1>1, <1>2, <2>1, <2>2, <2>3
<1>11. QED
  BY <1>5, <1>6, <1>9, <1>10 DEF TableInv

LEMMA CleanKeeps ==
  ASSUME TypeOK, TableInv, NEW i \in Slots, CleanSlot(i)
  PROVE  TableInv'
<1>1. /\ proc' = proc /\ overlap' = overlap /\ met' = met
      /\ slots' = [slots EXCEPT ![i] = Empty] /\ ~Exists(slots[i].pid)
  BY DEF CleanSlot, history
<1>2. \A q \in Procs : Looping(q) \/ At(q, "claim") => proc[q].mine \in Slots
  BY DEF TypeOK, Attached
<1>3. \A j \in Slots : slots'[j] = slots[j] \/ slots'[j] = Empty
  BY <1>1 DEF TypeOK
<1>4. ASSUME NEW q \in Procs, Looping(q), Slot(q).pid = q
      PROVE  Slot(q)' = Slot(q)
  <2>1. Exists(q)
    BY <1>4 DEF Exists, Attached
  <2>2. QED
    BY <1>1, <1>2, <1>4, <2>1 DEF Slot, TypeOK
<1>5. SlotsTellTheTruth' /\ FirstCheckIsForced'
  BY <1>1, <1>3, ProcsAre DEF TableInv, SlotsTellTheTruth, FirstCheckIsForced, At, Begun,
     Empty
<1>6. ASSUME NEW q \in Procs, At(q, "claim"), ~Exists(Slot(q).pid) PROVE ~Exists(Slot(q).pid)'
  <2>1. Slot(q)' \in {Slot(q), Empty}
    BY <1>1, <1>2, <1>3, <1>6 DEF Slot
  <2>2. \A x : Exists(x)' <=> Exists(x)
    BY <1>1 DEF Exists, Attached, Looping, At, Begun
  <2>3. QED
    BY <1>6, <2>1, <2>2, ProcsAre DEF Empty, Exists
<1>7. \A q \in Procs : (Looping(q)' <=> Looping(q)) /\ (At(q, "claim")' <=> At(q, "claim"))
  BY <1>1 DEF Looping, At
<1>8. Separate'
  BY <1>1, <1>4, <1>6, <1>7 DEF TableInv, Separate
<1>9. Unmet'
  BY <1>1, <1>4, <1>7 DEF TableInv, Unmet
<1>10. QED
  BY <1>5, <1>8, <1>9 DEF TableInv

\* p finds its slot, alone unless overlap says otherwise.
LEMMA AttachKeeps ==
  ASSUME TypeOK, TableInv, NEW p \in Procs, Attach(p)
  PROVE  TableInv'
<1>1. /\ At(p, "attach") /\ ~Looping(p) /\ slots' = slots /\ met' = met
      /\ overlap' = (overlap \/ \E q \in Procs : At(q, "claim"))
      /\ \A q \in Procs \ {p} : proc'[q] = proc[q]
  BY DEF Attach, Gone, Put, At, Looping, TypeOK
<1>2. CASE proc'[p].pc \in {"ended", "crashed"}
  <2>1. Leaves(p)
    BY <1>1, <1>2 DEF Leaves, Alone
  <2>2. QED
    BY <2>1, LeavesKeeps
<1>3. CASE FindSlot(p) \notin {0, -1}
           /\ proc' = [proc EXCEPT ![p] = [proc[p] EXCEPT !.pc = "claim", !.mine = FindSlot(p)]]
  <2> DEFINE i == FindSlot(p)
  <2>1. /\ i \in Slots
        /\ slots[i].pid = None \/ ~Exists(slots[i].pid)
        /\ \A j \in Slots : slots[j].cfile = ConfigOf[p] => i <= j
    BY <1>3, SearchEnds, TypeParts
  <2>2. ~Exists(slots[i].pid)
    BY <2>1, ProcsAre DEF Exists
  <2>3. proc'[p].pc = "claim" /\ proc'[p].mine = i /\ proc'[p].fresh = proc[p].fresh
    BY <1>3 DEF TypeOK
  <2> HIDE DEF i
  <2>4. /\ ~Looping(p)' /\ At(p, "claim")' /\ ~Begun(p)' /\ proc[p].fresh
        /\ \A q \in Procs \ {p} : Looping(q)' = Looping(q) /\ At(q, "claim")' = At(q, "claim")
                                  /\ Begun(q)' = Begun(q)
    BY <1>1, <2>3 DEF Looping, At, Begun, TableInv, FirstCheckIsForced
  <2>5. SlotsTellTheTruth' /\ FirstCheckIsForced'
    <3>1. SlotsTellTheTruth'
      BY <1>1 DEF TableInv, SlotsTellTheTruth, At
    <3>2. FirstCheckIsForced'
      BY <1>1, <2>3, <2>4 DEF TableInv, FirstCheckIsForced
    <3>3. QED
      BY <3>1, <3>2
  <2>6. \A q \in Procs : Looping(q) \/ At(q, "claim") => proc[q].mine \in Slots
    BY DEF TypeOK, Attached
  <2>7. ASSUME ~overlap' PROVE Separate'
    <3>1. ~overlap /\ \A q \in Procs : ~At(q, "claim")
      BY <1>1, <2>7
    <3>2. \A q \in Procs : At(q, "claim")' => q = p
      BY <2>4, <3>1
    <3>3. ASSUME NEW q \in Procs, Looping(q)'
          PROVE  /\ q # p /\ Looping(q) /\ Slot(q).pid = q /\ Slot(q).cfile = ConfigOf[q]
                 /\ Slot(q)' = Slot(q)
      BY <1>1, <2>4, <3>1, <3>3 DEF TableInv, Separate, Slot
    <3>4. ~Exists(Slot(p).pid)'
      <4>1. Slot(p)' = slots[i]
        BY <1>1, <2>3 DEF Slot
      <4>2. \A x : x # p => (Exists(x)' <=> Exists(x))
        BY <1>1, <2>4 DEF Exists, Attached
      <4>3. slots[i].pid # p
        BY <1>1, <2>1 DEF TableInv, SlotsTellTheTruth, At
      <4>4. QED
        BY <2>2, <4>1, <4>2, <4>3
    <3>5. ASSUME NEW q \in Procs, Looping(q)', ConfigOf[q] = ConfigOf[p]
          PROVE  proc'[p].mine < proc'[q].mine
      <4>1. proc[q].mine \in Slots /\ slots[proc[q].mine].cfile = ConfigOf[p]
            /\ slots[proc[q].mine].pid = q /\ Exists(q) /\ proc'[q] = proc[q]
        BY <1>1, <2>6, <3>3, <3>5 DEF Slot, Exists, Attached
      <4>2. i <= proc[q].mine /\ i # proc[q].mine
        BY <2>1, <2>2, <4>1
      <4>3. QED
        BY <2>1, <2>3, <4>1, <4>2, SlotAssumption DEF Slots
    <3>6. QED
      BY <3>2, <3>3, <3>4, <3>5 DEF Separate
  <2>8. Separate'
    BY <2>7 DEF Separate
  <2>9. Unmet'
    BY <1>1, <2>4 DEF TableInv, Unmet, Slot
  <2>10. QED
    BY <2>5, <2>8, <2>9 DEF TableInv
<1>4. QED
  <2>1. CASE banned \/ FindSlot(p) = -1
    BY <1>2, <2>1, GoneKeepsTypes, TypeParts DEF Attach, ProcTypes, Off
  <2>2. CASE ~banned /\ FindSlot(p) = 0
    BY <1>2, <2>2, GoneKeepsTypes, TypeParts DEF Attach, ProcTypes, Off
  <2>3. CASE ~banned /\ FindSlot(p) \notin {0, -1}
    BY <1>3, <2>3 DEF Attach, Put
  <2>4. QED
    BY <2>1, <2>2, <2>3

\* p fills in the slot it has found.
LEMMA ClaimKeeps ==
  ASSUME TypeOK, TableInv, NEW p \in Procs, Claim(p)
  PROVE  TableInv'
<1>1. /\ At(p, "claim") /\ ~Looping(p) /\ overlap' = overlap
      /\ proc'[p].pc = "check" /\ proc'[p].mine = proc[p].mine
      /\ \A q \in Procs \ {p} : proc'[q] = proc[q]
      /\ met' = met \cup IF Companions(p) = {} THEN {} ELSE Companions(p) \cup {p}
  BY DEF Claim, Put, At, Looping, TypeOK
<1>2. /\ proc[p].mine \in Slots
      /\ slots'[proc[p].mine].pid = p /\ slots'[proc[p].mine].cfile = ConfigOf[p]
      /\ \A i \in Slots \ {proc[p].mine} : slots'[i] = slots[i]
  BY <1>1 DEF Claim, TypeOK, Attached
<1>3. /\ Looping(p)' /\ ~At(p, "claim")' /\ ~Begun(p)'
      /\ \A q \in Procs \ {p} : Looping(q)' = Looping(q) /\ At(q, "claim")' = At(q, "claim")
                                /\ Begun(q)' = Begun(q)
  BY <1>1 DEF Looping, At, Begun
<1>4. SlotsTellTheTruth' /\ FirstCheckIsForced'
  <2>1. SlotsTellTheTruth'
    BY <1>1, <1>2 DEF TableInv, SlotsTellTheTruth, At
  <2>2. FirstCheckIsForced'
    BY <1>1, <1>3 DEF TableInv, FirstCheckIsForced
  <2>3. QED
    BY <2>1, <2>2
<1>5. Slot(p)' = slots'[proc[p].mine]
  BY <1>1 DEF Slot
<1>6. ASSUME NEW q \in Procs \ {p}, Looping(q), proc[q].mine # proc[p].mine
      PROVE  Slot(q)' = Slot(q)
  BY <1>1, <1>2, <1>6 DEF Slot, TypeOK, Attached
<1>7. ASSUME ~overlap' PROVE Separate'
  <2>1. \A q \in Procs \ {p} : Looping(q) => proc[q].mine # proc[p].mine
    BY <1>1, <1>7 DEF TableInv, Separate, Slot, Exists, Attached
  <2>2. \A q \in Procs : ~At(q, "claim")'
    BY <1>1, <1>3, <1>7 DEF TableInv, Separate
  <2>3. QED
    BY <1>1, <1>2, <1>3, <1>5, <1>6, <1>7, <2>1, <2>2 DEF TableInv, Separate
<1>8. Separate'
  BY <1>7 DEF Separate
<1>9. ASSUME NEW q \in Procs \ met', Looping(q)'
      PROVE  /\ Slot(q)'.pid = q
             /\ \A o \in Procs \ {q} : Looping(o)' =>
                  proc'[o].mine # proc'[q].mine /\ ConfigOf[o] # ConfigOf[q]
  <2>1. \A o \in Procs \ {p} : Looping(o) /\ o \notin met' =>
          proc[o].mine # proc[p].mine /\ ConfigOf[o] # ConfigOf[p]
    BY <1>1 DEF Companions
  <2>2. CASE q = p
    <3>1. Companions(p) = {}
      BY <1>1, <1>9, <2>2
    <3>2. \A o \in Procs \ {p} : Looping(o) =>
            proc[o].mine # proc[p].mine /\ ConfigOf[o] # ConfigOf[p]
      BY <3>1 DEF Companions
    <3>3. QED
      BY <1>1, <1>2, <1>3, <1>5, <2>2, <3>2
  <2>3. CASE q # p
    <3>1. /\ Slot(q).pid = q /\ Looping(q)
          /\ \A o \in Procs \ {q} : Looping(o) =>
               proc[o].mine # proc[q].mine /\ ConfigOf[o] # ConfigOf[q]
      BY <1>1, <1>3, <1>9, <2>3 DEF TableInv, Unmet
    <3>2. proc[q].mine # proc[p].mine /\ ConfigOf[q] # ConfigOf[p]
      BY <1>9, <2>1, <2>3, <3>1
    <3>3. QED
      BY <1>1, <1>3, <1>6, <2>3, <3>1, <3>2
  <2>4. QED
    BY <2>2, <2>3
<1>10. Unmet'
  BY <1>9 DEF Unmet
<1>11. QED
  BY <1>4, <1>8, <1>10 DEF TableInv

\* p is started and goes on to look for a slot.
LEMMA BegunKeeps ==
  ASSUME TypeOK, TableInv, NEW p \in Procs, At(p, "off") \/ Begun(p), Begun(p)',
         proc'[p].fresh, \A q \in Procs \ {p} : proc'[q] = proc[q],
         slots' = slots, overlap' = overlap, met' = met
  PROVE  TableInv'
<1>1. proc[p].pc \in {"off", "count", "attach"}
  BY DEF At, Begun
<1>2. /\ ~Looping(p)' /\ ~At(p, "claim")' /\ ~Looping(p) /\ ~At(p, "claim")
      /\ \A q \in Procs \ {p} : Looping(q)' = Looping(q) /\ At(q, "claim")' = At(q, "claim")
                                /\ Begun(q)' = Begun(q)
  BY <1>1 DEF Looping, At, Begun
<1>3. \A q \in Procs : Looping(q) \/ At(q, "claim") => proc[q].mine \in Slots
  BY DEF TypeOK, Attached
<1>4. \A i \in Slots : slots[i].pid # p
  BY <1>1 DEF TableInv, SlotsTellTheTruth
<1>5. SlotsTellTheTruth' /\ FirstCheckIsForced'
  BY <1>1, <1>2, <1>4 DEF TableInv, SlotsTellTheTruth, FirstCheckIsForced, At, Begun
<1>6. \A x : x # p => (Exists(x)' <=> Exists(x))
  BY <1>1 DEF Exists, Attached, Looping, At, Begun
<1>7. \A q \in Procs : Looping(q) \/ At(q, "claim") => Slot(q)' = Slot(q) /\ Slot(q).pid # p
  BY <1>1, <1>2, <1>3, <1>4 DEF Slot
<1>8. Separate'
  BY <1>1, <1>2, <1>6, <1>7 DEF TableInv, Separate
<1>9. Unmet'
  BY <1>1, <1>2, <1>7 DEF TableInv, Unmet
<1>10. QED
  BY <1>5, <1>8, <1>9 DEF TableInv

\* The daemon's loop up to its end, signals and the world leave the table's
\* owners alone.
LEMMA LoopIsQuiet ==
  ASSUME TypeOK, NEW p \in Procs,
         \/ GotAddress(p) \/ NoAddress(p) \/ Confirmed(p) \/ NotReached(p)
         \/ ReplyLost(p) \/ Disabled(p)
  PROVE  /\ proc'[p].mine = proc[p].mine /\ Looping(p) /\ Looping(p)'
         /\ \A q \in Procs \ {p} : proc'[q] = proc[q]
         /\ proc[p].mine \in Slots
         /\ \A i \in Slots \ {proc[p].mine} : slots'[i] = slots[i]
         /\ \A i \in Slots : slots'[i].pid = slots[i].pid /\ slots'[i].cfile = slots[i].cfile
         /\ overlap' = overlap /\ met' = met
<1>1. CASE GotAddress(p) \/ NoAddress(p)
  <2>1. PICK r, old :
          /\ At(p, "check") /\ r.pc \in {"check", "update"} /\ r.mine = proc[p].mine
          /\ proc' = [proc EXCEPT ![p] = r]
          /\ slots' = [slots EXCEPT ![proc[p].mine].last = old]
          /\ overlap' = overlap /\ met' = met
    <3>1. PICK a \in {net, None} : CheckWith(p, a)
      BY <1>1 DEF GotAddress, NoAddress
    <3> DEFINE old == IF proc[p].fresh THEN Forced ELSE Slot(p).last
               new == a # None /\ a # old
               r == [proc[p] EXCEPT !.fresh = FALSE,
                                    !.pc = IF new THEN "update" ELSE "check",
                                    !.ip = IF new THEN a ELSE None]
    <3>2. /\ At(p, "check") /\ proc' = [proc EXCEPT ![p] = r]
          /\ slots' = [slots EXCEPT ![proc[p].mine].last = old]
          /\ overlap' = overlap /\ met' = met
      BY <3>1 DEF CheckWith, Put, history
    <3>3. r.pc \in {"check", "update"} /\ r.mine = proc[p].mine
      BY DEF TypeOK
    <3> HIDE DEF r, old
    <3>4. QED
      BY <3>2, <3>3
  <2>2. proc[p].mine \in Slots
    BY <2>1 DEF TypeOK, Attached, Looping, At
  <2>3. QED
    BY <2>1, <2>2 DEF At, Looping, TypeOK
<1>2. CASE Confirmed(p) \/ NotReached(p) \/ ReplyLost(p) \/ Disabled(p)
  <2>1. /\ At(p, "update") /\ overlap' = overlap /\ met' = met
        /\ \E isDone, end \in BOOLEAN : Updated(p, isDone, end)
    BY <1>2 DEF Confirmed, NotReached, ReplyLost, Disabled, history
  <2>2. QED
    BY <2>1 DEF Updated, Put, At, Looping, Attached, TypeOK
<1>3. QED
  BY <1>1, <1>2

LEMMA StepTable == TypeOK /\ TableInv /\ [Next]_vars => TableInv'
<1> SUFFICES ASSUME TypeOK, TableInv, [Next]_vars PROVE TableInv'
  OBVIOUS
<1>1. CASE UNCHANGED vars \/ AddressChanges
  BY <1>1, QuietKeeps DEF Quiet, vars, history, AddressChanges
<1>2. ASSUME NEW p \in Procs, Sigterm(p) PROVE TableInv'
  <2>1. Quiet
    BY <1>2 DEF Quiet, Sigterm, history, TypeOK
  <2>2. QED
    BY <2>1, QuietKeeps
<1>3. ASSUME NEW p \in Procs,
             \/ GotAddress(p) \/ NoAddress(p) \/ Confirmed(p) \/ NotReached(p)
             \/ ReplyLost(p) \/ Disabled(p)
      PROVE  TableInv'
  <2>1. Quiet
    BY <1>3, LoopIsQuiet DEF Quiet
  <2>2. QED
    BY <2>1, QuietKeeps
<1>4. ASSUME NEW p \in Procs, Crash(p) \/ StartFails(p) \/ LoopEnds(p) PROVE TableInv'
  <2>1. Leaves(p)
    <3>1. CASE Crash(p)
      BY <3>1 DEF Leaves, Alone, Crash, Gone, Put, history, TypeOK, Off
    <3>2. CASE StartFails(p)
      BY <3>2 DEF Leaves, Alone, StartFails, Gone, Put, history, TypeOK, Off
    <3>3. CASE LoopEnds(p)
      BY <3>3 DEF Leaves, Alone, LoopEnds, Gone, Put, history, TypeOK, Off, Looping, At
    <3>4. QED
      BY <1>4, <3>1, <3>2, <3>3
  <2>2. QED
    BY <2>1, LeavesKeeps
<1>5. ASSUME NEW p \in Procs, Start(p) PROVE TableInv'
  <2>1. CASE Gone(p, "ended")
    <3>1. Leaves(p)
      BY <1>5, <2>1 DEF Leaves, Alone, Start, Gone, Put, history, TypeOK
    <3>2. QED
      BY <3>1, LeavesKeeps
  <2>2. CASE Put(p, [Off EXCEPT !.pc = "count", !.parsed = parse_config(ConfigOf[p]).last])
    <3>1. Begun(p)' /\ proc'[p].fresh /\ \A q \in Procs \ {p} : proc'[q] = proc[q]
      BY <2>2 DEF Put, Off, TypeOK, Begun
    <3>2. At(p, "off") /\ slots' = slots /\ overlap' = overlap /\ met' = met
      BY <1>5 DEF Start, IsTurnOf, history
    <3>3. QED
      BY <3>1, <3>2, BegunKeeps
  <2>3. QED
    BY <1>5, <2>1, <2>2 DEF Start
<1>6. ASSUME NEW p \in Procs, Count(p) PROVE TableInv'
  <2>1. CASE Gone(p, "ended")
    <3>1. Leaves(p)
      BY <1>6, <2>1 DEF Leaves, Alone, Count, Gone, Put, history, TypeOK, Off
    <3>2. QED
      BY <3>1, LeavesKeeps
  <2>2. CASE Goto(p, "attach")
    <3>1. /\ Begun(p) /\ Begun(p)' /\ proc'[p].fresh = proc[p].fresh
          /\ \A q \in Procs \ {p} : proc'[q] = proc[q]
      BY <1>6, <2>2 DEF Count, Goto, At, Begun, TypeOK
    <3>2. proc'[p].fresh /\ slots' = slots /\ overlap' = overlap /\ met' = met
      BY <1>6, <3>1 DEF Count, TableInv, FirstCheckIsForced, history
    <3>3. QED
      BY <3>1, <3>2, BegunKeeps
  <2>3. QED
    BY <1>6, <2>1, <2>2 DEF Count
<1>7. QED
  BY <1>1, <1>2, <1>3, <1>4, <1>5, <1>6, AttachKeeps, ClaimKeeps, CleanKeeps
  DEF Next, Daemon, AllOver

LEMMA InitTable == Init => TableInv
<1> SUFFICES ASSUME Init PROVE TableInv
  OBVIOUS
<1>1. \A p \in Procs : proc[p].pc = "off"
  BY DEF Init, Off
<1>2. \A i \in Slots : slots[i].pid \notin Procs
  BY ProcsAre DEF Init, Empty, Left
<1>3. QED
  BY <1>1, <1>2 DEF TableInv, SlotsTellTheTruth, FirstCheckIsForced, Separate, Unmet,
     At, Begun, Looping
-----------------------------------------------------------------------------
\* Daemons started one after the other, each when the one before has filled in
\* its slot, never share one, for any number of daemons and slots and whatever
\* ends or cleans up after the others (get_shm_info, noip2.c).
THEOREM NeverASharedSlot == Spec => []SharedSlotOnlyAfterRace
<1>1. TypeOK /\ TableInv => SharedSlotOnlyAfterRace
  BY DEF TableInv, Separate, SharedSlotOnlyAfterRace, Slot
<1>2. QED
  BY InitTypes, StepTypes, InitTable, StepTable, <1>1, PTL DEF Spec

\* A daemon for a configuration that is running is never started into a slot
\* behind that of the first, unless two were looking for one at the same time
\* (get_shm_info).
THEOREM AlwaysDetectsRunning == Spec => DetectsRunning
<1> DEFINE Detected ==
      \A p, q \in Procs :
        (/\ At(p, "claim") /\ proc'[p].pc = "check"
         /\ Looping(q) /\ q # p /\ ConfigOf[q] = ConfigOf[p])
          => overlap \/ proc[p].mine < proc[q].mine
<1>1. TypeOK /\ TableInv /\ [Next]_vars => [Detected]_vars
  BY DEF TableInv, Separate
<1>2. QED
  BY InitTypes, StepTypes, InitTable, StepTable, <1>1, PTL DEF Spec, DetectsRunning
-----------------------------------------------------------------------------
\* p's slot can be taken at its word.
Trusted(p) ==
  /\ Looping(p) /\ p \notin met \cup unsure
  /\ ConfigOf[p] \in Known /\ ~proc[p].term
  /\ ~proc[p].fresh /\ Slot(p).last \notin Private \cup {Forced}

\* What other processes do to p's slot and to what the service has for p's
\* hosts: nothing, as long as p has not met them.
LEMMA OthersKnow ==
  ASSUME TypeOK, TableInv, KnowsService, NEW p \in Procs, Trusted(p)',
         proc'[p] = proc[p], p \in unsure => p \in unsure', p \in met => p \in met',
         dns'[ConfigOf[p]] = dns[ConfigOf[p]],
         slots'[proc[p].mine] = slots[proc[p].mine]
  PROVE  Slot(p)'.last = dns'[ConfigOf[p]]
<1>1. Slot(p)' = Slot(p)
  BY DEF Slot
<1>2. Trusted(p)
  BY <1>1 DEF Trusted, Looping, At
<1>3. QED
  BY <1>1, <1>2 DEF KnowsService, Trusted

\* What p's own steps do.
LEMMA OwnKnows ==
  ASSUME TypeOK, TableInv, KnowsService, NEW p \in Procs, Daemon(p), Trusted(p)'
  PROVE  Slot(p)'.last = dns'[ConfigOf[p]]
<1>1. ConfigOf[p] \in Configs
  BY ProcsAre
<1>2. CASE Count(p) \/ Attach(p)
  <2>1. ~Looping(p)'
    BY <1>2 DEF Count, Attach, Goto, Gone, Put, TypeOK, Looping, At, Off
  <2>2. QED
    BY <2>1 DEF Trusted
<1>3. CASE LoopEnds(p)
  <2>1. ~Looping(p)'
    BY <1>3 DEF LoopEnds, Gone, Put, TypeOK, Looping, At, Off
  <2>2. QED
    BY <2>1 DEF Trusted
<1>4. CASE Claim(p)
  <2>1. proc'[p].fresh
    BY <1>4 DEF Claim, Put, TableInv, FirstCheckIsForced, TypeOK
  <2>2. QED
    BY <2>1 DEF Trusted
<1>5. CASE GotAddress(p) \/ NoAddress(p)
  <2> DEFINE old == IF proc[p].fresh THEN Forced ELSE Slot(p).last
  <2>1. /\ slots' = [slots EXCEPT ![proc[p].mine].last = old]
        /\ At(p, "check") /\ ~proc[p].term /\ dns' = dns /\ met' = met /\ unsure' = unsure
    BY <1>5 DEF GotAddress, NoAddress, CheckWith, world, history
  <2>2. proc'[p].mine = proc[p].mine /\ proc[p].mine \in Slots
    BY <1>5, LoopIsQuiet
  <2>3. Slot(p)'.last = old
    <3> HIDE DEF old
    <3>1. QED
      BY <2>1, <2>2 DEF Slot, TypeOK
  <2>4. ~proc[p].fresh /\ Slot(p)'.last = Slot(p).last
        /\ Slot(p).last \notin Private \cup {Forced}
    BY <2>3 DEF Trusted
  <2>5. Trusted(p)
    <3>1. p \notin met \cup unsure /\ ConfigOf[p] \in Known
      BY <2>1 DEF Trusted
    <3>2. Looping(p) /\ ~proc[p].term
      BY <2>1 DEF Looping, At
    <3>3. QED
      BY <2>4, <3>1, <3>2 DEF Trusted
  <2>6. QED
    BY <2>1, <2>4, <2>5 DEF KnowsService, Trusted
<1>6. ASSUME At(p, "update"), NEW isDone \in BOOLEAN, Updated(p, isDone, FALSE)
      PROVE  /\ proc'[p].mine = proc[p].mine /\ proc'[p].term = proc[p].term
             /\ proc'[p].fresh = proc[p].fresh
             /\ Slot(p)'.last = IF isDone THEN proc[p].ip ELSE Slot(p).last
  <2>1. proc[p].mine \in Slots
    BY <1>6 DEF TypeOK, Attached, Looping, At
  <2>2. proc'[p] = [proc[p] EXCEPT !.pc = "check", !.ip = None, !.term = @ \/ FALSE]
    BY <1>6 DEF Updated, Put, TypeOK
  <2>3. proc'[p].mine = proc[p].mine /\ proc'[p].fresh = proc[p].fresh
        /\ proc'[p].term = proc[p].term
    BY <2>2 DEF TypeOK
  <2>4. Slot(p)'.last = IF isDone THEN proc[p].ip ELSE Slot(p).last
    BY <1>6, <2>1, <2>3 DEF Updated, Slot, TypeOK
  <2>5. QED
    BY <2>3, <2>4
<1>7. CASE Confirmed(p)
  <2>1. Slot(p)'.last = proc[p].ip
    BY <1>6, <1>7 DEF Confirmed
  <2>2. dns'[ConfigOf[p]] = proc[p].ip
    BY <1>1, <1>7, <2>1 DEF Confirmed, SetDns, Accepted, Trusted, TypeOK
  <2>3. QED
    BY <2>1, <2>2
<1>8. CASE NotReached(p)
  <2>1. /\ proc'[p].term = proc[p].term /\ proc'[p].fresh = proc[p].fresh
        /\ Slot(p)'.last = Slot(p).last
        /\ At(p, "update") /\ dns' = dns /\ met' = met /\ unsure' = unsure
    BY <1>6, <1>8 DEF NotReached, world, history
  <2>2. Trusted(p)
    BY <2>1 DEF Trusted, Looping, At
  <2>3. QED
    BY <2>1, <2>2 DEF KnowsService, Trusted
<1>9. CASE ReplyLost(p)
  BY <1>9 DEF ReplyLost, Trusted
<1>10. CASE Disabled(p)
  <2>1. proc'[p].term
    BY <1>10 DEF Disabled, Updated, Put, TypeOK
  <2>2. QED
    BY <2>1 DEF Trusted
<1>11. QED
  BY <1>2, <1>3, <1>4, <1>5, <1>7, <1>8, <1>9, <1>10 DEF Daemon

LEMMA StepKnows ==
  TypeOK /\ TableInv /\ TableInv' /\ KnowsService /\ [Next]_vars => KnowsService'
<1> SUFFICES ASSUME TypeOK, TableInv, TableInv', KnowsService, [Next]_vars,
                    NEW p \in Procs, Trusted(p)'
             PROVE  Slot(p)'.last = dns'[ConfigOf[p]]
  BY DEF KnowsService, Trusted
<1>1. CASE UNCHANGED vars \/ AddressChanges
  BY <1>1, OthersKnow DEF vars, world, history, AddressChanges
<1>2. CASE Start(p) \/ StartFails(p) \/ Crash(p)
  <2>1. ~Looping(p)'
    BY <1>2 DEF Start, StartFails, Crash, Gone, Put, TypeOK, Looping, At, Off
  <2>2. QED
    BY <2>1 DEF Trusted
<1>3. CASE Sigterm(p)
  <2>1. proc'[p].term
    BY <1>3 DEF Sigterm, TypeOK
  <2>2. QED
    BY <2>1 DEF Trusted
<1>4. CASE Daemon(p)
  BY <1>4, OwnKnows
<1>5. ASSUME proc'[p] = proc[p], p \in met => p \in met'
      PROVE  /\ Looping(p) /\ p \notin met /\ p \notin met' /\ proc[p].mine \in Slots
             /\ slots[proc[p].mine].pid = p
             /\ \A q \in Procs \ {p} : Looping(q) =>
                  proc[q].mine # proc[p].mine /\ ConfigOf[q] # ConfigOf[p]
  <2>1. Looping(p) /\ p \notin met /\ p \notin met'
    BY <1>5 DEF Trusted, Looping, At
  <2>2. QED
    BY <2>1 DEF TableInv, Unmet, TypeOK, Attached, Slot
<1>6. ASSUME NEW i \in Slots, CleanSlot(i) PROVE Slot(p)'.last = dns'[ConfigOf[p]]
  <2>1. proc' = proc /\ met' = met /\ unsure' = unsure /\ dns' = dns
    BY <1>6 DEF CleanSlot, history
  <2>2. proc[p].mine # i
    BY <1>5, <1>6, <2>1 DEF CleanSlot, Exists, Attached
  <2>3. QED
    BY <1>5, <1>6, <2>1, <2>2, OthersKnow DEF CleanSlot, TypeOK
<1>7. ASSUME NEW q \in Procs, q # p,
             \/ Start(q) \/ StartFails(q) \/ Daemon(q) \/ Sigterm(q) \/ Crash(q)
      PROVE  Slot(p)'.last = dns'[ConfigOf[p]]
  <2>1. CASE \/ Start(q) \/ StartFails(q) \/ Sigterm(q) \/ Crash(q)
             \/ Count(q) \/ Attach(q)
    <3>1. /\ proc'[p] = proc[p] /\ slots' = slots /\ dns' = dns
          /\ met' = met /\ unsure' = unsure
      BY <1>7, <2>1 DEF Start, StartFails, Sigterm, Crash, Count, Attach, Goto, Gone, Put, TypeOK,
         world, history
    <3>2. QED
      BY <3>1, OthersKnow
  <2>2. CASE Claim(q)
    <3>1. /\ proc'[p] = proc[p] /\ dns' = dns /\ unsure' = unsure /\ met \subseteq met'
          /\ proc'[q].mine = proc[q].mine /\ Looping(q)'
          /\ slots' = [slots EXCEPT ![proc[q].mine] =
               [pid |-> q, cfile |-> ConfigOf[q], last |-> proc[q].parsed]]
      BY <1>7, <2>2 DEF Claim, Put, TypeOK, world, Looping, At
    <3>2. Looping(p)' /\ p \notin met'
      BY DEF Trusted
    <3>3. proc'[q].mine # proc'[p].mine
      BY <1>7, <3>1, <3>2 DEF TableInv, Unmet
    <3>4. QED
      BY <1>5, <3>1, <3>3, OthersKnow DEF TypeOK
  <2>3. CASE LoopEnds(q)
    <3>1. /\ proc'[p] = proc[p] /\ dns' = dns /\ unsure' = unsure /\ met' = met
          /\ Looping(q) /\ slots' = [slots EXCEPT ![proc[q].mine] = Empty]
      <4>1. Looping(q)
        BY <2>3 DEF LoopEnds, Looping, At
      <4>2. proc'[p] = proc[p]
        BY <1>7, <2>3 DEF LoopEnds, Gone, Put, TypeOK
      <4>3. QED
        BY <2>3, <4>1, <4>2 DEF LoopEnds, world, history
    <3>2. QED
      BY <1>5, <1>7, <3>1, OthersKnow DEF TypeOK
  <2>4. CASE \/ GotAddress(q) \/ NoAddress(q) \/ Confirmed(q) \/ NotReached(q)
             \/ ReplyLost(q) \/ Disabled(q)
    <3>1. /\ proc'[p] = proc[p] /\ Looping(q) /\ met' = met
          /\ \A i \in Slots \ {proc[q].mine} : slots'[i] = slots[i]
      BY <1>7, <2>4, LoopIsQuiet
    <3>2. p \in unsure => p \in unsure'
      BY <1>7, <2>4 DEF GotAddress, NoAddress, CheckWith, Confirmed, NotReached,
         ReplyLost, Disabled, history
    <3>3. dns'[ConfigOf[p]] = dns[ConfigOf[p]]
      <4>1. dns' = dns \/ SetDns(q)
        BY <2>4 DEF GotAddress, NoAddress, CheckWith, Confirmed, NotReached,
           ReplyLost, Disabled, world
      <4>2. ConfigOf[q] # ConfigOf[p]
        BY <1>5, <1>7, <3>1
      <4>3. QED
        BY <4>1, <4>2, ProcsAre DEF SetDns, TypeOK
    <3>4. QED
      BY <1>5, <1>7, <3>1, <3>2, <3>3, OthersKnow
  <2>5. QED
    BY <1>7, <2>1, <2>2, <2>3, <2>4 DEF Daemon
<1>8. QED
  BY <1>1, <1>2, <1>3, <1>4, <1>6, <1>7 DEF Next, AllOver

LEMMA InitKnows == Init => KnowsService
<1>1. Init => \A p \in Procs : ~Looping(p)
  BY DEF Init, Looping, At, Off
<1>2. QED
  BY <1>1 DEF KnowsService

\* What a daemon that never met another remembers as set is what the service
\* has, whatever other daemons, signals and kills do to the table, for any number of
\* daemons and any configurations (run_as_background, dynamic_update,
\* handle_dynup_error).
THEOREM AlwaysKnowsService == Spec => []KnowsService
<1>1. QED
  BY InitTypes, StepTypes, InitTable, StepTable, InitKnows, StepKnows, PTL DEF Spec
=============================================================================
