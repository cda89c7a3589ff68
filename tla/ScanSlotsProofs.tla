-------------------------- MODULE ScanSlotsProofs --------------------------
(***************************************************************************)
(* Theorems about ScanSlots, for any number of calls and any limit.  The   *)
(* cap rests on the counter covering the slots held, which the TTL breaks  *)
(* on a busy host.                                                         *)
(***************************************************************************)
EXTENDS ScanSlots, FiniteSetTheorems, TLAPS

USE DEF Goto, HoldingPC, PC, Works, Fails

\* Every variable keeps its type.
THEOREM TypeCorrect == Spec => []TypeOK
<1>1. Init => TypeOK
  <2> SUFFICES ASSUME Init PROVE TypeOK
    OBVIOUS
  <2>1. healthy \in BOOLEAN /\ overrun \in BOOLEAN
    BY DEF Init
  <2> QED BY <2>1 DEF Init, TypeOK
<1>2. TypeOK /\ [Next]_vars => TypeOK'
  <2> SUFFICES ASSUME TypeOK, [Next]_vars PROVE TypeOK'
    OBVIOUS
  <2> USE DEF TypeOK
  <2>1. healthy' \in BOOLEAN
    <3>1. healthy' \in {healthy, FALSE}
      BY DEF Next, Step, Incr, Expire, FinishScan, Release, Crash, KeyExpires, vars
    <3> QED BY <3>1
  <2>2. overrun' \in BOOLEAN
    <3>1. overrun' \in {overrun, overrun \/ Holding # {}}
      BY DEF Next, Step, Incr, Expire, FinishScan, Release, Crash, KeyExpires, vars
    <3> QED BY <3>1
  <2> DEFINE Kept == /\ pc' \in [Scan -> PC] /\ count' \in Int
                     /\ key' \in {"absent", "volatile", "lasting"}
  <2>3. ASSUME NEW s \in Scan, Incr(s) PROVE Kept
    BY <2>3 DEF Incr, Add
  <2>4. ASSUME NEW s \in Scan, Expire(s) PROVE Kept
    BY <2>4 DEF Expire
  <2>5. ASSUME NEW s \in Scan, FinishScan(s) \/ Crash(s) PROVE Kept
    BY <2>5 DEF FinishScan, Crash
  <2>6. ASSUME NEW s \in Scan, Release(s) PROVE Kept
    BY <2>6 DEF Release, Add
  <2>7. ASSUME KeyExpires \/ UNCHANGED vars PROVE Kept
    BY <2>7 DEF KeyExpires, vars
  <2>8. Kept
    BY <2>3, <2>4, <2>5, <2>6, <2>7 DEF Next, Step
  <2> QED BY <2>1, <2>2, <2>8
<1> QED BY <1>1, <1>2, PTL DEF Spec

-----------------------------------------------------------------------------
(* The slots that were granted, before their release.                      *)

Granted == {s \in Scan : pc[s] \in {"expire", "scanning", "release"}}

SlotInv ==
    /\ Cardinality(Holding) <= count
    /\ Cardinality(Granted) <= MaxScans

LEMMA SlotsFinite ==
  /\ IsFiniteSet(Holding) /\ Cardinality(Holding) \in Nat
  /\ IsFiniteSet(Granted) /\ Cardinality(Granted) \in Nat
  /\ Cardinality(Granted) <= Cardinality(Holding)
<1>1. IsFiniteSet(Holding) /\ IsFiniteSet(Granted)
  BY ScanAssumption, FS_Subset DEF Holding, Granted
<1>2. Granted \in SUBSET Holding
  BY DEF Granted, Holding
<1> QED BY <1>1, <1>2, FS_CardinalityType, FS_Subset

\* A step that takes no slot and leaves the counter alone.
LEMMA SlotsShrink ==
  ASSUME TypeOK, SlotInv, count' = count,
         Holding' \subseteq Holding, Granted' \subseteq Granted
  PROVE  SlotInv'
<1>1. /\ Cardinality(Holding') \in Nat /\ Cardinality(Granted') \in Nat
      /\ Cardinality(Holding') <= Cardinality(Holding)
      /\ Cardinality(Granted') <= Cardinality(Granted)
  BY SlotsFinite, FS_Subset, FS_CardinalityType
<1> QED BY <1>1, SlotsFinite, LimitAssumption DEF SlotInv, TypeOK

LEMMA IncrKeepsSlots ==
  ASSUME TypeOK, SlotInv, NEW s \in Scan, Incr(s) PROVE SlotInv'
<1> USE DEF TypeOK
<1>1. pc[s] = "incr" /\ s \notin Holding /\ s \notin Granted
  BY DEF Incr, Holding, Granted
<1>2. CASE pc' = [pc EXCEPT ![s] = "refused"]
  <2>1. Holding' = Holding /\ Granted' = Granted /\ count' \in {count, count + 1}
    BY <1>1, <1>2 DEF Incr, Add, Holding, Granted
  <2> QED BY <2>1, SlotsFinite DEF SlotInv
<1>3. CASE /\ count' = count + 1
           /\ pc' = [pc EXCEPT ![s] = "undo"]
  <2>1. Holding' = Holding \cup {s} /\ Granted' = Granted
    BY <1>1, <1>3 DEF Holding, Granted
  <2>2. Cardinality(Holding') = Cardinality(Holding) + 1
    BY <1>1, <2>1, SlotsFinite, FS_AddElement
  <2> QED BY <1>3, <2>1, <2>2, SlotsFinite DEF SlotInv
<1>4. ASSUME NEW at \in {"expire", "scanning"},
             pc' = [pc EXCEPT ![s] = at],
             count' = count + 1, count + 1 <= MaxScans
      PROVE  SlotInv'
  <2>1. Holding' = Holding \cup {s} /\ Granted' = Granted \cup {s}
    BY <1>1, <1>4 DEF Holding, Granted
  <2>2. /\ Cardinality(Holding') = Cardinality(Holding) + 1
        /\ Cardinality(Granted') = Cardinality(Granted) + 1
    BY <1>1, <2>1, SlotsFinite, FS_AddElement
  <2> QED BY <1>4, <2>2, SlotsFinite, LimitAssumption DEF SlotInv
<1> QED BY <1>2, <1>3, <1>4, LimitAssumption DEF Incr, Add, Full

LEMMA ReleaseKeepsSlots ==
  ASSUME TypeOK, SlotInv, NEW s \in Scan, Release(s) PROVE SlotInv'
<1> USE DEF TypeOK
<1>1. /\ s \in Holding /\ Holding' = Holding \ {s}
      /\ Granted' \subseteq Granted
      /\ count' \in {count, count - 1}
  BY DEF Release, Add, Holding, Granted
<1>2. Cardinality(Holding') = Cardinality(Holding) - 1
  BY <1>1, SlotsFinite, FS_RemoveElement
<1>3. Cardinality(Granted') \in Nat /\ Cardinality(Granted') <= Cardinality(Granted)
  BY <1>1, SlotsFinite, FS_Subset, FS_CardinalityType
<1> QED BY <1>1, <1>2, <1>3, SlotsFinite, LimitAssumption
        DEF SlotInv

LEMMA SlotStep ==
  ASSUME TypeOK, SlotInv, [Next]_vars, ~overrun' PROVE SlotInv'
<1>1. ASSUME NEW s \in Scan, Expire(s) \/ FinishScan(s) \/ Crash(s)
      PROVE  SlotInv'
  <2>1. /\ count' = count
        /\ Holding' \subseteq Holding /\ Granted' \subseteq Granted
    BY <1>1 DEF TypeOK, Expire, FinishScan, Crash, Holding, Granted
  <2> QED BY <2>1, SlotsShrink
<1>2. CASE KeyExpires
  <2>1. Holding = {} /\ Holding' = Holding /\ Granted' = Granted /\ count' = 0
    BY <1>2 DEF KeyExpires, Holding, Granted
  <2>2. Cardinality(Holding') = 0
    BY <2>1, FS_EmptySet
  <2> QED BY <2>1, <2>2 DEF SlotInv
<1>3. CASE UNCHANGED vars
  BY <1>3 DEF vars, SlotInv, SlotsAccounted, Holding, Granted
<1> QED BY <1>1, <1>2, <1>3, IncrKeepsSlots, ReleaseKeepsSlots DEF Next, Step

LEMMA SlotInvHolds == Spec => [](~overrun => SlotInv)
<1>1. Init => SlotInv
  <2> SUFFICES ASSUME Init PROVE SlotInv
    OBVIOUS
  <2>1. Holding = {} /\ Granted = {} /\ count = 0
    BY DEF Init, Holding, Granted
  <2> QED BY <2>1, FS_EmptySet, LimitAssumption DEF SlotInv
<1>2. TypeOK /\ (~overrun => SlotInv) /\ [Next]_vars => (~overrun => SlotInv)'
  <2>1. TypeOK /\ [Next]_vars /\ overrun => overrun'
    BY DEF TypeOK, Next, Step, Incr, Expire, FinishScan, Release, Crash,
       KeyExpires, vars
  <2> QED BY <2>1, SlotStep
<1> QED BY TypeCorrect, <1>1, <1>2, PTL DEF Spec

\* Until a TTL ends under a scan in flight, never more scans in flight than
\* the limit, whatever fails.
THEOREM CapHolds == Spec => []InFlightCappedUntilOverrun
<1>1. SlotInv => InFlightCapped
  <2>1. InFlight \in SUBSET Granted
    BY DEF InFlight, Granted
  <2>2. Cardinality(InFlight) \in Nat /\ Cardinality(InFlight) <= Cardinality(Granted)
    BY <2>1, SlotsFinite, FS_Subset, FS_CardinalityType
  <2> QED BY <2>2, SlotsFinite, LimitAssumption DEF SlotInv, InFlightCapped
<1>2. (~overrun => SlotInv) => InFlightCappedUntilOverrun
  BY <1>1 DEF InFlightCappedUntilOverrun
<1> QED BY SlotInvHolds, <1>2, PTL

\* And the counter never reads less than the slots held.
THEOREM CounterCoversSlots == Spec => []SlotsAccounted
<1>1. (~overrun => SlotInv) => SlotsAccounted
  BY DEF SlotInv, SlotsAccounted
<1> QED BY SlotInvHolds, <1>1, PTL

-----------------------------------------------------------------------------
(* Without faults, and until an overrun, the counter is the slots held.    *)

ExactInv == healthy /\ ~overrun => count = Cardinality(Holding)

LEMMA StepKeepsExact ==
  ASSUME TypeOK, ExactInv, NEW s \in Scan, Step(s), healthy', ~overrun' PROVE ExactInv'
<1> USE DEF TypeOK
<1>0. healthy /\ ~overrun /\ count = Cardinality(Holding) /\ Cardinality(Holding) \in Nat
  BY SlotsFinite DEF Step, Incr, Expire, FinishScan, Release, ExactInv
<1>1. CASE Incr(s)
  <2>1. count' = count + 1 /\ s \notin Holding /\ Holding' = Holding \cup {s}
    BY <1>1 DEF Incr, Add, Holding
  <2>2. Cardinality(Holding') = Cardinality(Holding) + 1
    BY <2>1, SlotsFinite, FS_AddElement
  <2> QED BY <1>0, <2>1, <2>2 DEF ExactInv
<1>2. CASE Expire(s) \/ FinishScan(s)
  <2>1. count' = count /\ Holding' = Holding
    BY <1>2 DEF Expire, FinishScan, Holding
  <2> QED BY <1>0, <2>1 DEF ExactInv
<1>3. CASE Release(s)
  <2>1. count' = count - 1 /\ s \in Holding /\ Holding' = Holding \ {s}
    BY <1>3 DEF Release, Add, Holding
  <2>2. Cardinality(Holding') = Cardinality(Holding) - 1
    BY <2>1, SlotsFinite, FS_RemoveElement
  <2> QED BY <1>0, <2>1, <2>2 DEF ExactInv
<1> QED BY <1>1, <1>2, <1>3 DEF Step

\* Without faults no slot is lost: once every call has returned, refused ones
\* included, the counter is back at zero.
THEOREM NoSlotLeaks == Spec => []SlotsReturned
<1>1. Init => ExactInv
  <2> SUFFICES ASSUME Init PROVE ExactInv
    OBVIOUS
  <2>1. Holding = {} /\ count = 0
    BY DEF Init, Holding
  <2> QED BY <2>1, FS_EmptySet DEF ExactInv
<1>2. TypeOK /\ ExactInv /\ [Next]_vars => ExactInv'
  <2> SUFFICES ASSUME TypeOK, ExactInv, [Next]_vars, healthy', ~overrun' PROVE ExactInv'
    BY DEF ExactInv
  <2>1. CASE KeyExpires
    <3>1. Holding = {} /\ Holding' = Holding /\ count' = 0
      BY <2>1 DEF KeyExpires, Holding
    <3> QED BY <3>1, FS_EmptySet DEF ExactInv
  <2>2. CASE UNCHANGED vars
    BY <2>2 DEF vars, ExactInv, Holding
  <2>3. ASSUME NEW s \in Scan, Crash(s) PROVE FALSE
    BY <2>3 DEF Crash
  <2> QED BY <2>1, <2>2, <2>3, StepKeepsExact DEF Next
<1>3. ExactInv => SlotsReturned
  <2> SUFFICES ASSUME ExactInv, healthy, ~overrun,
                      \A s \in Scan : pc[s] \in {"incr", "refused", "done"}
               PROVE  count = 0
    BY DEF SlotsReturned
  <2>1. Holding = {}
    BY DEF Holding
  <2> QED BY <2>1, FS_EmptySet DEF ExactInv
<1> QED BY TypeCorrect, <1>1, <1>2, <1>3, PTL DEF Spec
=============================================================================
