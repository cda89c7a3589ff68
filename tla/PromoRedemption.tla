-------------------------- MODULE PromoRedemption --------------------------
(***************************************************************************)
(* Redeeming one promo code instead of paying (promo.py): a slot of the    *)
(* code and a slot of the wallet are reserved by DECR, the redemption is   *)
(* logged, and whatever does not go through gives its slots back.  Redis   *)
(* and Cassandra calls are separate steps of concurrent requests.          *)
(***************************************************************************)
EXTENDS Integers, FiniteSets

CONSTANTS
    Request,        \* redemption attempts for this code
    Wallet,         \* promo_wallet addresses
    WalletOf,       \* the wallet each attempt names
    StartingCount,  \* PromoRecord.starting_count
    PerWallet       \* PromoRecord.max_redemptions_per_wallet

ASSUME RequestAssumption ==
    IsFiniteSet(Request) /\ WalletOf \in [Request -> Wallet]
ASSUME CountAssumption ==
    StartingCount \in Nat \ {0} /\ PerWallet \in Nat \ {0}

VARIABLES
    pc,          \* pc[r]: the next call attempt r makes
    active,      \* the code's active flag in x402_promo_codes
    remaining,   \* the Redis remaining count of the code
    seeded,      \* whether that key exists
    walletLeft,  \* the Redis remaining count of each wallet
    known,       \* the wallets whose key exists
    logged,      \* the attempts with a row in x402_promo_redemptions_v2
    healthy      \* history: no call has failed and no process has died

codeVars   == <<remaining, seeded>>
walletVars == <<walletLeft, known>>
vars == <<pc, active, remaining, seeded, walletLeft, known, logged, healthy>>

\* "undoCode" and "undoWallet" end the attempt; the other two undo steps are
\* the first of two.
PC == {"lookup", "seed", "decr", "seedWallet", "decrWallet", "insert",
       "walletOver", "undoCode", "logFailed", "undoWallet",
       "redeemed", "refused", "crashed"}

TypeOK ==
    /\ pc \in [Request -> PC]
    /\ active \in BOOLEAN
    /\ remaining \in Int
    /\ seeded \in BOOLEAN
    /\ walletLeft \in [Wallet -> Int]
    /\ known \in SUBSET Wallet
    /\ logged \in SUBSET Request
    /\ healthy \in BOOLEAN

Init ==
    /\ pc = [r \in Request |-> "lookup"]
    /\ active = TRUE
    /\ remaining = 0
    /\ seeded = FALSE
    /\ walletLeft = [w \in Wallet |-> 0]
    /\ known = {}
    /\ logged = {}
    /\ healthy = TRUE

Goto(r, next) == pc' = [pc EXCEPT ![r] = next]

Works == UNCHANGED healthy
Fails == healthy' = FALSE

-----------------------------------------------------------------------------
\* _lookup_redeemable_record.  A failing read refuses the attempt, and so do
\* the per-IP limit and the expiry before it.
Lookup(r) ==
    /\ pc[r] = "lookup"
    /\ \/ active /\ Goto(r, "seed")
       \/ Goto(r, "refused")
    /\ UNCHANGED <<active, codeVars, walletVars, logged, healthy>>

\* SET NX of the remaining count.
SeedCode ==
    /\ remaining' = IF seeded THEN remaining ELSE StartingCount
    /\ seeded' = TRUE

\* _reserve_slot, the SET NX.
Seed(r) ==
    /\ pc[r] = "seed"
    /\ \/ SeedCode /\ Goto(r, "decr") /\ Works
       \/ /\ Fails
          /\ SeedCode \/ UNCHANGED codeVars
          /\ Goto(r, "refused")
    /\ UNCHANGED <<active, walletVars, logged>>

\* Variant: the last slot is taken for an exhausted one.
ExhaustedLate(left) == left < -1

Exhausted(left) == left < 0

\* _reserve_slot, the DECR.  A failure refuses the attempt and leaves a
\* decrement that took effect where it is.
Decr(r) ==
    /\ pc[r] = "decr"
    /\ \/ /\ remaining' = remaining - 1
          /\ Goto(r, IF Exhausted(remaining - 1) THEN "undoCode" ELSE "seedWallet")
          /\ Works
       \/ /\ Fails
          /\ remaining' \in {remaining, remaining - 1}
          /\ Goto(r, "refused")
    /\ UNCHANGED <<active, seeded, walletVars, logged>>

\* Variant: SET without NX.
SeedOneAgain(w) ==
    /\ walletLeft' = [walletLeft EXCEPT ![w] = PerWallet]
    /\ known' = known \cup {w}

SeedOne(w) ==
    /\ walletLeft' = IF w \in known THEN walletLeft
                     ELSE [walletLeft EXCEPT ![w] = PerWallet]
    /\ known' = known \cup {w}

\* _reserve_wallet_slot, the SET NX.  Its failure gives the code's slot back.
SeedWallet(r) ==
    /\ pc[r] = "seedWallet"
    /\ \/ SeedOne(WalletOf[r]) /\ Goto(r, "decrWallet") /\ Works
       \/ /\ Fails
          /\ SeedOne(WalletOf[r]) \/ UNCHANGED walletVars
          /\ Goto(r, "undoCode")
    /\ UNCHANGED <<active, codeVars, logged>>

Taken(w) == [walletLeft EXCEPT ![w] = @ - 1]

\* _reserve_wallet_slot, the DECR.
DecrWallet(r) ==
    /\ pc[r] = "decrWallet"
    /\ LET w == WalletOf[r] IN
       \/ /\ walletLeft' = Taken(w)
          /\ Goto(r, IF Exhausted(walletLeft[w] - 1) THEN "walletOver" ELSE "insert")
          /\ Works
       \/ /\ Fails
          /\ walletLeft' \in {walletLeft, Taken(w)}
          /\ Goto(r, "undoCode")
    /\ UNCHANGED <<active, codeVars, known, logged>>

\* Variant: a failing insert still redeems, since Redis is the boundary.
InsertBestEffort(r) ==
    /\ pc[r] = "insert"
    /\ \/ logged' = logged \cup {r} /\ Works
       \/ UNCHANGED logged /\ Fails
    /\ Goto(r, "redeemed")
    /\ UNCHANGED <<active, codeVars, walletVars>>

\* insert_redemption_if_absent: the row, or an exception with or without it.
Insert(r) ==
    /\ pc[r] = "insert"
    /\ \/ logged' = logged \cup {r} /\ Goto(r, "redeemed") /\ Works
       \/ /\ Fails
          /\ logged' \in {logged, logged \cup {r}}
          /\ Goto(r, "logFailed")
    /\ UNCHANGED <<active, codeVars, walletVars>>

\* Variant: a refused wallet does not give the code's slot back.
UndoCodeForgotten(r) ==
    /\ pc[r] \in {"undoCode", "logFailed"}
    /\ Goto(r, IF pc[r] = "logFailed" THEN "undoWallet" ELSE "refused")
    /\ UNCHANGED <<active, codeVars, walletVars, logged, healthy>>

\* _undo_reserved_slot, alone or before the wallet's undo.  A failure is
\* swallowed, and the slot may be lost.
UndoCode(r) ==
    /\ pc[r] \in {"undoCode", "logFailed"}
    /\ \/ remaining' = remaining + 1 /\ Works
       \/ UNCHANGED remaining /\ Fails
    /\ Goto(r, IF pc[r] = "logFailed" THEN "undoWallet" ELSE "refused")
    /\ UNCHANGED <<active, seeded, walletVars, logged>>

\* _undo_reserved_wallet_slot: the wallet's allowance was used up, or the log
\* write failed.
UndoWallet(r) ==
    /\ pc[r] \in {"walletOver", "undoWallet"}
    /\ \/ walletLeft' = [walletLeft EXCEPT ![WalletOf[r]] = @ + 1] /\ Works
       \/ UNCHANGED walletLeft /\ Fails
    /\ Goto(r, IF pc[r] = "walletOver" THEN "undoCode" ELSE "refused")
    /\ UNCHANGED <<active, codeVars, known, logged>>

\* deactivate_promo_code.
Deactivate ==
    /\ active
    /\ active' = FALSE
    /\ UNCHANGED <<pc, codeVars, walletVars, logged, healthy>>

Crash(r) ==
    /\ Fails
    /\ pc[r] \notin {"redeemed", "refused", "crashed"}
    /\ Goto(r, "crashed")
    /\ UNCHANGED <<active, codeVars, walletVars, logged>>

Step(r) ==
    \/ Lookup(r) \/ Seed(r) \/ Decr(r) \/ SeedWallet(r) \/ DecrWallet(r)
    \/ Insert(r) \/ UndoCode(r) \/ UndoWallet(r)

Next == Deactivate \/ \E r \in Request : Step(r) \/ Crash(r)

Spec == Init /\ [][Next]_vars

-----------------------------------------------------------------------------
Redeemed == {r \in Request : pc[r] = "redeemed"}

\* A code never hands out more free calls than its starting count, however
\* many attempts race through seed, decrement and undo, and whatever fails
\* (promo.py: a code must not hand "out redemptions the durable ledger never
\* authorised").
NoOverRedemption == Cardinality(Redeemed) <= StartingCount

\* No wallet gets more than its allowance of a code.
WalletCap ==
    \A w \in Wallet :
        Cardinality({r \in Redeemed : WalletOf[r] = w}) <= PerWallet

\* Every free call is in the audit log.
RedeemedIsLogged == Redeemed \subseteq logged

\* Without faults no slot is lost: when no attempt is under way, the count the
\* admin sees is what the code has left.
NoSlotLost ==
    healthy /\ seeded /\ (\A r \in Request : pc[r] \in {"lookup", "redeemed", "refused"})
        => remaining = StartingCount - Cardinality(Redeemed)
=============================================================================
