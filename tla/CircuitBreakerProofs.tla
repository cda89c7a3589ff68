------------------------ MODULE CircuitBreakerProofs ------------------------
(***************************************************************************)
(* Theorems about CircuitBreaker, for any number of calls and any          *)
(* threshold.                                                              *)
(***************************************************************************)
EXTENDS CircuitBreaker, FiniteSetTheorems, TLAPS

USE DEF Goto, Call, RecorderPC, CheckerPC, callVars, keyVars, Works, Fails

\* The step of one call.
CallStep(c) == \/ c \in Recorder /\ Record(c)
               \/ c \in Checker /\ Check(c)
               \/ c \in Call /\ Crash(c)

LEMMA NextCases ==
  Next <=> (\E c \in Call : CallStep(c)) \/ Reset \/ WindowEnds
BY DEF Next, CallStep

-----------------------------------------------------------------------------
(* Type correctness.                                                       *)

LEMMA CallTyped ==
  ASSUME TypeOK, NEW c \in Call, CallStep(c) PROVE TypeOK'
<1> USE DEF TypeOK
<1>0. healthy' \in BOOLEAN
  <2>1. healthy' \in {healthy, FALSE}
    BY DEF CallStep, Record, Check, Incr, Expire, SetLatch, GetLatch,
       GetCounter, Crash
  <2> QED BY <2>1
<1>1. CASE c \in Recorder /\ Incr(c)
  <2>1. UNCHANGED <<expiring, latched, tripped>>
    BY <1>1 DEF Incr
  <2>2. counter' \in Nat /\ resetPc' = resetPc
    BY <1>1 DEF Incr
  <2>3. pc' \in [Call -> RecorderPC \cup CheckerPC]
    BY <1>1 DEF Incr
  <2>4. \A r \in Recorder : pc'[r] \in RecorderPC
    BY <1>1 DEF Incr
  <2> QED BY <1>0, <2>1, <2>2, <2>3, <2>4
<1>2. CASE c \in Recorder /\ Expire(c)
  <2>1. expiring' \in BOOLEAN
    BY <1>2 DEF Expire
  <2>2. UNCHANGED <<resetPc, counter, latched, tripped>>
    BY <1>2 DEF Expire
  <2>3. /\ pc' \in [Call -> RecorderPC \cup CheckerPC]
        /\ \A r \in Recorder : pc'[r] \in RecorderPC
    BY <1>2 DEF Expire
  <2> QED BY <1>0, <2>1, <2>2, <2>3
<1>3. CASE SetLatch(c)
  <2>1. latched' \in BOOLEAN /\ tripped' \in BOOLEAN
    BY <1>3 DEF SetLatch
  <2>2. UNCHANGED <<resetPc, counter, expiring>>
    BY <1>3 DEF SetLatch
  <2>3. /\ pc' \in [Call -> RecorderPC \cup CheckerPC]
        /\ \A r \in Recorder : pc'[r] \in RecorderPC
    BY <1>3 DEF SetLatch
  <2> QED BY <1>0, <2>1, <2>2, <2>3
<1>4. CASE c \in Checker /\ (GetLatch(c) \/ GetCounter(c))
  <2>1. UNCHANGED <<resetPc, counter, expiring, latched, tripped>>
    BY <1>4 DEF GetLatch, GetCounter
  <2>2. /\ pc' \in [Call -> RecorderPC \cup CheckerPC]
        /\ \A r \in Recorder : pc'[r] \in RecorderPC
    BY <1>4, CallAssumption DEF GetLatch, GetCounter
  <2> QED BY <1>0, <2>1, <2>2
<1>5. CASE Crash(c)
  <2>1. UNCHANGED <<resetPc, counter, expiring, latched, tripped>>
    BY <1>5 DEF Crash
  <2>2. /\ pc' \in [Call -> RecorderPC \cup CheckerPC]
        /\ \A r \in Recorder : pc'[r] \in RecorderPC
    BY <1>5 DEF Crash
  <2> QED BY <1>0, <2>1, <2>2
<1> QED BY <1>1, <1>2, <1>3, <1>4, <1>5 DEF CallStep, Record, Check

LEMMA KeysTyped ==
  ASSUME TypeOK, Reset \/ WindowEnds \/ UNCHANGED vars PROVE TypeOK'
<1> USE DEF TypeOK
<1>1. counter' \in Nat /\ resetPc' \in {"delCounter", "delLatch"} /\ pc' = pc
  <2>1. counter' \in {counter, 0} /\ pc' = pc
    BY DEF Reset, DeleteCounter, DeleteLatch, WindowEnds, vars
  <2>2. resetPc' \in {resetPc, "delCounter", "delLatch"}
    BY DEF Reset, DeleteCounter, DeleteLatch, WindowEnds, vars
  <2> QED BY <2>1, <2>2
<1>2. expiring' \in BOOLEAN /\ latched' \in BOOLEAN
  <2>1. expiring' \in {expiring, FALSE}
    BY DEF Reset, DeleteCounter, DeleteLatch, WindowEnds, vars
  <2>2. latched' \in {latched, FALSE}
    BY DEF Reset, DeleteCounter, DeleteLatch, WindowEnds, vars
  <2> QED BY <2>1, <2>2
<1>3. tripped' \in BOOLEAN /\ healthy' \in BOOLEAN
  <2>1. tripped' \in {tripped, FALSE}
    BY DEF Reset, DeleteCounter, DeleteLatch, WindowEnds, vars
  <2>2. healthy' \in {healthy, FALSE}
    BY DEF Reset, DeleteCounter, DeleteLatch, WindowEnds, vars
  <2> QED BY <2>1, <2>2
<1> QED BY <1>1, <1>2, <1>3

\* Every variable keeps its type.
THEOREM TypeCorrect == Spec => []TypeOK
<1>1. Init => TypeOK
  <2> SUFFICES ASSUME Init PROVE TypeOK
    OBVIOUS
  <2>1. /\ expiring \in BOOLEAN /\ latched \in BOOLEAN
        /\ tripped \in BOOLEAN /\ healthy \in BOOLEAN
    BY DEF Init
  <2>2. /\ pc \in [Call -> RecorderPC \cup CheckerPC]
        /\ \A r \in Recorder : pc[r] \in RecorderPC
        /\ resetPc \in {"delCounter", "delLatch"} /\ counter \in Nat
    BY DEF Init
  <2> QED BY <2>1, <2>2 DEF TypeOK
<1>2. TypeOK /\ [Next]_vars => TypeOK'
  BY NextCases, CallTyped, KeysTyped
<1> QED BY <1>1, <1>2, PTL DEF Spec

-----------------------------------------------------------------------------
(* The latch.                                                              *)

\* Up to the first fault the latch outlives every window, failure and check:
\* only a reset opens a breaker that a call has tripped.
THEOREM TripsUntilResetHolds == Spec => []TripsUntilReset
<1> DEFINE Inv == healthy /\ tripped => latched
<1>1. Init => Inv
  BY DEF Init
<1>2. Inv /\ [Next]_vars => Inv'
  <2> SUFFICES ASSUME Inv, [Next]_vars PROVE Inv'
    OBVIOUS
  <2>1. ASSUME NEW c \in Call, CallStep(c) PROVE Inv'
    BY <2>1 DEF CallStep, Record, Check, Incr, Expire, SetLatch, GetLatch,
       GetCounter, Crash
  <2>2. CASE Reset \/ WindowEnds
    BY <2>2 DEF Reset, DeleteCounter, DeleteLatch, WindowEnds
  <2>3. CASE UNCHANGED vars
    BY <2>3 DEF vars
  <2> QED BY <2>1, <2>2, <2>3, NextCases
<1>3. Inv => TripsUntilReset
  BY DEF TripsUntilReset, StaysTripped
<1> QED BY <1>1, <1>2, <1>3, PTL DEF Spec

-----------------------------------------------------------------------------
(* Enough failures.  Whatever shows the threshold reached -- the counter,  *)
(* a call about to latch, the latch -- rests on that many counted calls.   *)

EnoughInv ==
    /\ counter <= Cardinality(Counted)
    /\ \A c \in Call : pc[c] = "latch" => Cardinality(Counted) >= MaxFailures
    /\ \A c \in Call : pc[c] = "expire" => Cardinality(Counted) >= 1
    /\ latched => Cardinality(Counted) >= MaxFailures

LEMMA CountedFinite ==
  IsFiniteSet(Counted) /\ Cardinality(Counted) \in Nat
BY CallAssumption, FS_Subset, FS_CardinalityType DEF Counted

LEMMA EnoughStep ==
  ASSUME TypeOK, EnoughInv, NEW c \in Call, CallStep(c) PROVE EnoughInv'
<1> USE DEF TypeOK
<1>1. CASE c \in Recorder /\ Incr(c)
  <2>1. Counted' = Counted \cup {c} /\ c \notin Counted
    BY <1>1 DEF Incr, Counted
  <2>2. Cardinality(Counted') = Cardinality(Counted) + 1
    BY <2>1, CountedFinite, FS_AddElement
  <2>3. counter' \in {counter, counter + 1} /\ latched' = latched
    BY <1>1 DEF Incr
  <2>4. /\ pc'[c] \in {"done", "expire", "latch"}
        /\ pc'[c] = "latch" => counter + 1 >= MaxFailures
        /\ \A d \in Call \ {c} : pc'[d] = pc[d]
    BY <1>1 DEF Incr, Threshold
  <2> QED BY <2>2, <2>3, <2>4, CountedFinite, LimitAssumption DEF EnoughInv
<1>2. ASSUME ~(c \in Recorder /\ Incr(c)) PROVE EnoughInv'
  <2>1. CASE c \in Recorder /\ Expire(c)
    <3>1. Counted' = Counted /\ counter' = counter /\ latched' = latched
      BY <2>1 DEF Expire, Counted
    <3>2. /\ pc[c] = "expire" /\ pc'[c] \in {"done", "latch"}
          /\ pc'[c] = "latch" => 1 >= MaxFailures
          /\ \A d \in Call \ {c} : pc'[d] = pc[d]
      BY <2>1 DEF Expire, Threshold
    <3> QED BY <3>1, <3>2, CountedFinite, LimitAssumption DEF EnoughInv
  <2>2. CASE SetLatch(c)
    <3>1. Counted' = Counted /\ counter' = counter
      BY <2>2 DEF SetLatch, Counted
    <3>2. /\ pc[c] = "latch" /\ pc'[c] \in {"done", "refused"}
          /\ \A d \in Call \ {c} : pc'[d] = pc[d]
      BY <2>2 DEF SetLatch
    <3> QED BY <3>1, <3>2 DEF EnoughInv
  <2>3. CASE c \in Checker /\ (GetLatch(c) \/ GetCounter(c))
    <3>1. Counted' = Counted /\ counter' = counter /\ latched' = latched
      BY <2>3, CallAssumption DEF GetLatch, GetCounter, Counted
    <3>2. /\ pc'[c] \in {"getCounter", "refused", "open", "latch"}
          /\ pc'[c] = "latch" => counter >= MaxFailures
          /\ \A d \in Call \ {c} : pc'[d] = pc[d]
      BY <2>3 DEF GetLatch, GetCounter, Threshold
    <3> QED BY <3>1, <3>2, CountedFinite, LimitAssumption DEF EnoughInv
  <2>4. CASE Crash(c)
    <3>1. /\ Counted \subseteq Counted'
          /\ counter' = counter /\ latched' = latched
      BY <2>4 DEF Crash, Counted
    <3>2. Counted' \subseteq Recorder
      BY DEF Counted
    <3>3. IsFiniteSet(Counted') /\ Cardinality(Counted') \in Nat
      BY <3>2, CallAssumption, FS_Subset, FS_CardinalityType
    <3>4. Cardinality(Counted) <= Cardinality(Counted')
      BY <3>1, <3>3, FS_Subset
    <3>5. /\ pc'[c] = "crashed"
          /\ \A d \in Call \ {c} : pc'[d] = pc[d]
      BY <2>4 DEF Crash
    <3> QED BY <3>1, <3>3, <3>4, <3>5, CountedFinite, LimitAssumption
            DEF EnoughInv
  <2> QED BY <1>2, <2>1, <2>2, <2>3, <2>4 DEF CallStep, Record, Check
<1> QED BY <1>1, <1>2

\* A resource is taken down only on as many failures as the threshold says,
\* with failing Redis calls, crashes, resets and windows in any order.
THEOREM TripsOnEnough == Spec => []TripsOnEnoughFailures
<1>1. Init => EnoughInv
  <2> SUFFICES ASSUME Init PROVE EnoughInv
    OBVIOUS
  <2>1. /\ counter = 0 /\ latched = FALSE
        /\ \A c \in Call : pc[c] \in {"incr", "getLatch"}
    BY DEF Init
  <2> QED BY <2>1, CountedFinite DEF EnoughInv
<1>2. TypeOK /\ EnoughInv /\ [Next]_vars => EnoughInv'
  <2> SUFFICES ASSUME TypeOK, EnoughInv, [Next]_vars PROVE EnoughInv'
    OBVIOUS
  <2>1. CASE Reset \/ WindowEnds \/ UNCHANGED vars
    <3>1. pc' = pc /\ counter' \in {0, counter}
      BY <2>1 DEF Reset, DeleteCounter, DeleteLatch, WindowEnds, vars
    <3>2. latched' \in {latched, FALSE}
      BY <2>1 DEF Reset, DeleteCounter, DeleteLatch, WindowEnds, vars
    <3>3. Counted' = Counted
      BY <3>1 DEF Counted
    <3>4. latched' => Cardinality(Counted) >= MaxFailures
      BY <3>2 DEF EnoughInv
    <3>5. counter' <= Cardinality(Counted)
      BY <3>1, CountedFinite DEF EnoughInv
    <3> QED BY <3>1, <3>3, <3>4, <3>5 DEF EnoughInv
  <2> QED BY <2>1, EnoughStep, NextCases
<1>3. EnoughInv => TripsOnEnoughFailures
  BY DEF EnoughInv, TripsOnEnoughFailures
<1> QED BY TypeCorrect, <1>1, <1>2, <1>3, PTL DEF Spec
=============================================================================
