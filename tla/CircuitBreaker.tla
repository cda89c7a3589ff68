--------------------------- MODULE CircuitBreaker ---------------------------
(***************************************************************************)
(* The refund circuit breaker of one resource, one action per Redis        *)
(* command: requests that record a refund failure, requests that check the *)
(* breaker before the gate, and the admin's reset, on two shared keys.     *)
(* PaidRequest sees the same calls as single steps.                        *)
(***************************************************************************)
EXTENDS Integers, FiniteSets

CONSTANTS
    Recorder,     \* calls of record_refund_failure
    Checker,      \* calls of is_tripped
    MaxFailures   \* settings.x402_refund_breaker_max_failures

ASSUME CallAssumption == Recorder \cap Checker = {} /\ IsFiniteSet(Recorder)
ASSUME LimitAssumption == MaxFailures \in Nat \ {0}

VARIABLES
    pc,        \* pc[c]: the next Redis command of call c
    resetPc,   \* the next command of the admin's reset
    counter,   \* the rolling failure counter; 0 is "no key"
    expiring,  \* whether the counter key has a TTL
    latched,   \* whether the latch key exists
    tripped,   \* history: since the last reset, some call has ended with the
               \* breaker tripped
    healthy    \* history: no Redis call has failed and no process has died

callVars == <<pc, resetPc>>
keyVars  == <<counter, expiring, latched>>
vars == <<pc, resetPc, counter, expiring, latched, tripped, healthy>>

Call == Recorder \cup Checker

RecorderPC == {"incr", "expire", "latch", "done", "crashed"}
CheckerPC  == {"getLatch", "getCounter", "latch", "open", "refused", "crashed"}

TypeOK ==
    /\ pc \in [Call -> RecorderPC \cup CheckerPC]
    /\ \A r \in Recorder : pc[r] \in RecorderPC
    /\ resetPc \in {"delCounter", "delLatch"}
    /\ counter \in Nat
    /\ expiring \in BOOLEAN
    /\ latched \in BOOLEAN
    /\ tripped \in BOOLEAN
    /\ healthy \in BOOLEAN

Init ==
    /\ pc = [c \in Call |-> IF c \in Recorder THEN "incr" ELSE "getLatch"]
    /\ resetPc = "delCounter"
    /\ counter = 0
    /\ expiring = FALSE
    /\ latched = FALSE
    /\ tripped = FALSE
    /\ healthy = TRUE

Goto(c, next) == pc' = [pc EXCEPT ![c] = next]

Works == UNCHANGED healthy
Fails == healthy' = FALSE

\* Variant: off by one.
ThresholdEarly(count) == count + 1 >= MaxFailures

Threshold(count) == count >= MaxFailures

-----------------------------------------------------------------------------
(* record_refund_failure: incr_with_expiry, then the latch.                *)

\* The count an INCR returns decides the rest; a lost reply is a None count.
Incr(r) ==
    /\ pc[r] = "incr"
    /\ \/ /\ counter' = counter + 1
          /\ Goto(r, IF counter = 0 THEN "expire"
                     ELSE IF Threshold(counter + 1) THEN "latch" ELSE "done")
          /\ Works
       \/ /\ Fails
          /\ counter' \in {counter, counter + 1}
          /\ Goto(r, "done")
    /\ UNCHANGED <<resetPc, expiring, latched, tripped>>

\* Variant: the caller that creates the key is not the one that sets its TTL.
ExpireSkipped(r) ==
    /\ pc[r] = "expire"
    /\ Goto(r, IF Threshold(1) THEN "latch" ELSE "done")
    /\ UNCHANGED <<resetPc, keyVars, tripped, healthy>>

\* EXPIRE is a no-op when a reset has just deleted the key.  If it raises,
\* the count of 1 is lost with it.
Expire(r) ==
    /\ pc[r] = "expire"
    /\ \/ /\ expiring' = (expiring \/ counter > 0)
          /\ Goto(r, IF Threshold(1) THEN "latch" ELSE "done")
          /\ Works
       \/ /\ Fails
          /\ expiring' \in {expiring, expiring \/ counter > 0}
          /\ Goto(r, "done")
    /\ UNCHANGED <<resetPc, counter, latched, tripped>>

\* Variant: a checker refuses and leaves the latch to the recorders.
SetLatchByRecorder(c) ==
    /\ pc[c] = "latch"
    /\ latched' = (latched \/ c \in Recorder)
    /\ tripped' = TRUE
    /\ Goto(c, IF c \in Recorder THEN "done" ELSE "refused")
    /\ UNCHANGED <<resetPc, counter, expiring, healthy>>

\* _set_latch, by a recorder or by a checker that found the counter over the
\* threshold: no TTL, and an exception is swallowed.
SetLatch(c) ==
    /\ pc[c] = "latch"
    /\ \/ latched' = TRUE /\ Works
       \/ UNCHANGED latched /\ Fails
    /\ tripped' = TRUE
    /\ Goto(c, IF c \in Recorder THEN "done" ELSE "refused")
    /\ UNCHANGED <<resetPc, counter, expiring>>

-----------------------------------------------------------------------------
(* is_tripped: fails closed.                                               *)

GetLatch(c) ==
    /\ pc[c] = "getLatch"
    /\ \/ Goto(c, IF latched THEN "refused" ELSE "getCounter") /\ Works
       \/ Goto(c, "refused") /\ Fails
    /\ UNCHANGED <<resetPc, keyVars, tripped>>

GetCounter(c) ==
    /\ pc[c] = "getCounter"
    /\ \/ Goto(c, IF Threshold(counter) THEN "latch" ELSE "open") /\ Works
       \/ Goto(c, "refused") /\ Fails
    /\ UNCHANGED <<resetPc, keyVars, tripped>>

-----------------------------------------------------------------------------
(* reset, two DELETEs; an exception leaves it half done and reports False. *)

DeleteCounter ==
    /\ resetPc = "delCounter"
    /\ counter > 0 \/ latched
    /\ \/ /\ counter' = 0 /\ expiring' = FALSE
          /\ resetPc' = "delLatch"
          /\ tripped' = FALSE
          /\ Works
       \/ /\ Fails
          /\ \/ counter' = 0 /\ expiring' = FALSE
             \/ UNCHANGED <<counter, expiring>>
          /\ UNCHANGED <<resetPc, tripped>>
    /\ UNCHANGED <<pc, latched>>

DeleteLatch ==
    /\ resetPc = "delLatch"
    /\ \/ latched' = FALSE /\ tripped' = FALSE /\ Works
       \/ latched' \in {latched, FALSE} /\ UNCHANGED tripped /\ Fails
    /\ resetPc' = "delCounter"
    /\ UNCHANGED <<pc, counter, expiring>>

\* The counter's TTL runs out.
WindowEnds ==
    /\ expiring
    /\ counter' = 0 /\ expiring' = FALSE
    /\ UNCHANGED <<callVars, latched, tripped, healthy>>

Crash(c) ==
    /\ Fails
    /\ pc[c] \notin {"done", "open", "refused", "crashed"}
    /\ Goto(c, "crashed")
    /\ UNCHANGED <<resetPc, keyVars, tripped>>

Record(r) == Incr(r) \/ Expire(r) \/ SetLatch(r)
Check(c)  == GetLatch(c) \/ GetCounter(c) \/ SetLatch(c)
Reset     == DeleteCounter \/ DeleteLatch

Next ==
    \/ \E r \in Recorder : Record(r)
    \/ \E c \in Checker : Check(c)
    \/ Reset
    \/ WindowEnds
    \/ \E c \in Call : Crash(c)

Spec == Init /\ [][Next]_vars

FairSpec ==
    /\ Spec
    /\ \A c \in Call : WF_vars(Record(c) \/ Check(c))
    /\ WF_vars(WindowEnds)
    /\ WF_vars(DeleteLatch)

-----------------------------------------------------------------------------
\* A breaker that a call has tripped is tripped, by its latch or by its counter.
StaysTripped == tripped => latched \/ Threshold(counter)

\* circuit_breaker.py, "Only reset() clears it": once tripped, the breaker stays
\* tripped until an admin resets it.  The window ending, other failures and other
\* checks do not open it, in any order of commands, up to the first Redis call
\* that fails or process that dies: a lost SET of the latch leaves the counter
\* alone, which expires.
TripsUntilReset == healthy => StaysTripped

\* The calls whose failure has been counted, or whose INCR may have been.
Counted == {r \in Recorder : pc[r] # "incr"}

\* The breaker takes a resource down only after as many failures as the
\* threshold says, whatever the interleaving of resets, windows and lost
\* replies: no failure is counted twice.
TripsOnEnoughFailures == latched => Cardinality(Counted) >= MaxFailures

\* The counter is a rolling one (incr_with_expiry): without faults every count
\* ends with its window, also when a reset deletes the key between INCR and
\* EXPIRE.
WindowRolls == []healthy => (counter > 0 ~> counter = 0)
=============================================================================
