----------------------------- MODULE ScanSlots -----------------------------
(***************************************************************************)
(* The host-wide cap on in-flight scans (x402_scan concurrency.py) as the  *)
(* scan route uses it: INCR, EXPIRE on the first hit, the scan, DECR in a  *)
(* finally.  One Redis counter is shared by every worker process.          *)
(***************************************************************************)
EXTENDS Integers, FiniteSets

CONSTANTS
    Scan,     \* calls of the scan route that are not previews
    MaxScans  \* MAX_CONCURRENT_SCANS

ASSUME ScanAssumption == IsFiniteSet(Scan)
ASSUME LimitAssumption == MaxScans \in Nat \ {0}

VARIABLES
    pc,       \* pc[s]: what call s does next
    count,    \* the value of the counter, 0 when the key is absent
    key,      \* whether the key is absent, has a TTL or has none
    healthy,  \* history: no Redis call has failed and no process has died
    overrun   \* history: the key's TTL has ended under a scan in flight, on a
              \* host busy for all of _SAFETY_TTL_S

vars == <<pc, count, key, healthy, overrun>>

HoldingPC == {"expire", "scanning", "release", "undo"}
PC        == {"incr", "refused", "done", "crashed"} \cup HoldingPC

TypeOK ==
    /\ pc \in [Scan -> PC]
    /\ count \in Int
    /\ key \in {"absent", "volatile", "lasting"}
    /\ healthy \in BOOLEAN
    /\ overrun \in BOOLEAN

Init ==
    /\ pc = [s \in Scan |-> "incr"]
    /\ count = 0
    /\ key = "absent"
    /\ healthy = TRUE
    /\ overrun = FALSE

Goto(s, next) == pc' = [pc EXCEPT ![s] = next]

Works == UNCHANGED healthy
Fails == healthy' = FALSE

\* INCR and DECR create a missing key, without a TTL.
Add(n) ==
    /\ count' = count + n
    /\ key' = IF key = "absent" THEN "lasting" ELSE key

\* Variant: the slot past the last one is granted.
FullLate(n) == n > MaxScans + 1

Full(n) == n > MaxScans

\* acquire_scan_slot, its INCR.  An exception refuses the scan, whether or not
\* the increment took effect.
Incr(s) ==
    /\ pc[s] = "incr"
    /\ \/ /\ Add(1)
          /\ Goto(s, IF count = 0 THEN "expire"
                     ELSE IF Full(count + 1) THEN "undo" ELSE "scanning")
          /\ Works
       \/ /\ Fails
          /\ Add(1) \/ UNCHANGED <<count, key>>
          /\ Goto(s, "refused")
    /\ UNCHANGED overrun

\* The first slot's EXPIRE.
Expire(s) ==
    /\ pc[s] = "expire"
    /\ \/ /\ key' = IF key = "absent" THEN key ELSE "volatile"
          /\ Goto(s, "scanning")
          /\ Works
       \/ /\ Fails
          /\ UNCHANGED key \/ key' = IF key = "absent" THEN key ELSE "volatile"
          /\ Goto(s, "refused")
    /\ UNCHANGED <<count, overrun>>

\* The gate, the download and the sandbox.
FinishScan(s) ==
    /\ pc[s] = "scanning"
    /\ Goto(s, "release")
    /\ UNCHANGED <<count, key, healthy, overrun>>

\* Variant: the route's finally also covers acquire_scan_slot, so a refused
\* scan releases twice.
ReleaseThenFinally(s) ==
    /\ pc[s] \in {"release", "undo"}
    /\ Add(-1)
    /\ Goto(s, IF pc[s] = "undo" THEN "release" ELSE "done")
    /\ UNCHANGED <<healthy, overrun>>

\* release_scan_slot: DECR, an exception is swallowed.
Release(s) ==
    /\ pc[s] \in {"release", "undo"}
    /\ \/ Add(-1) /\ Works
       \/ UNCHANGED <<count, key>> /\ Fails
    /\ Goto(s, IF pc[s] = "undo" THEN "refused" ELSE "done")
    /\ UNCHANGED overrun

\* The worker process dies, without running its finally.
Crash(s) ==
    /\ Fails
    /\ pc[s] \in HoldingPC
    /\ Goto(s, "crashed")
    /\ UNCHANGED <<count, key, overrun>>

Holding == {s \in Scan : pc[s] \in HoldingPC}

\* _SAFETY_TTL_S runs out, whoever holds a slot.
KeyExpires ==
    /\ key = "volatile"
    /\ count' = 0 /\ key' = "absent"
    /\ overrun' = (overrun \/ Holding # {})
    /\ UNCHANGED <<pc, healthy>>

Step(s) == Incr(s) \/ Expire(s) \/ FinishScan(s) \/ Release(s)

Next ==
    \/ \E s \in Scan : Step(s) \/ Crash(s)
    \/ KeyExpires

Spec == Init /\ [][Next]_vars

-----------------------------------------------------------------------------
InFlight == {s \in Scan : pc[s] = "scanning"}

\* Never more scans in flight than the limit.
InFlightCapped == Cardinality(InFlight) <= MaxScans

\* "N concurrent payers means N x that resource cost with nothing else
\* bounding N.  This caps it": the cap, with failing Redis calls, refused calls'
\* undos and crashed workers, on a host that falls idle once per TTL of the key.
InFlightCappedUntilOverrun == ~overrun => InFlightCapped

\* On such a host the counter never reads less than the slots held, so no
\* release takes it below zero and hands out the difference later.
SlotsAccounted == ~overrun => Cardinality(Holding) <= count

\* Without faults no slot is lost there either: once every call has returned,
\* refused ones included, the counter is back at zero.
SlotsReturned ==
    healthy /\ ~overrun /\ (\A s \in Scan : pc[s] \in {"incr", "refused", "done"})
        => count = 0
=============================================================================
