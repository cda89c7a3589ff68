----------------------- MODULE PromoRedemptionProofs -----------------------
(***************************************************************************)
(* Theorems about PromoRedemption, for any number of attempts and wallets  *)
(* and any counts.  The caps rest on each counter covering the slots that  *)
(* are reserved and not yet given back, including those that will be.      *)
(***************************************************************************)
EXTENDS PromoRedemption, FiniteSetTheorems, TLAPS

USE DEF Goto, PC, codeVars, walletVars, Works, Fails

-----------------------------------------------------------------------------
(* Type correctness.                                                       *)

LEMMA StepTyped ==
  ASSUME TypeOK, NEW r \in Request, Step(r) \/ Crash(r) PROVE TypeOK'
<1> USE DEF TypeOK
<1>0. WalletOf[r] \in Wallet
  BY RequestAssumption
<1>1. pc' \in [Request -> PC] /\ active' = active
  BY DEF Step, Lookup, Seed, Decr, SeedWallet, DecrWallet, Insert, UndoCode,
     UndoWallet, Crash
<1>2. remaining' \in Int /\ known' \in SUBSET Wallet /\ logged' \in SUBSET Request
  <2>1. remaining' \in Int
    BY CountAssumption DEF Step, Lookup, Seed, SeedCode, Decr, SeedWallet,
       DecrWallet, Insert, UndoCode, UndoWallet, Crash
  <2>2. known' \in SUBSET Wallet
    BY <1>0 DEF Step, Lookup, Seed, Decr, SeedWallet, SeedOne, DecrWallet,
       Insert, UndoCode, UndoWallet, Crash
  <2>3. logged' \in SUBSET Request
    BY DEF Step, Lookup, Seed, Decr, SeedWallet, DecrWallet, Insert, UndoCode,
       UndoWallet, Crash
  <2> QED BY <2>1, <2>2, <2>3
<1>3. seeded' \in {seeded, TRUE}
  BY DEF Step, Lookup, Seed, SeedCode, Decr, SeedWallet, DecrWallet, Insert,
     UndoCode, UndoWallet, Crash
<1>4. walletLeft' \in [Wallet -> Int]
  BY CountAssumption, <1>0 DEF Step, Lookup, Seed, Decr, SeedWallet, SeedOne,
     DecrWallet, Taken, Insert, UndoCode, UndoWallet, Crash
<1>5. seeded' \in BOOLEAN /\ active' \in BOOLEAN
  BY <1>1, <1>3
<1>6. healthy' \in BOOLEAN
  <2>1. healthy' \in {healthy, FALSE}
    BY DEF Step, Lookup, Seed, Decr, SeedWallet, DecrWallet, Insert, UndoCode,
       UndoWallet, Crash
  <2> QED BY <2>1
<1> QED BY <1>1, <1>2, <1>4, <1>5, <1>6

\* Every variable keeps its type.
THEOREM TypeCorrect == Spec => []TypeOK
<1>1. Init => TypeOK
  <2> SUFFICES ASSUME Init PROVE TypeOK
    OBVIOUS
  <2>1. active \in BOOLEAN /\ seeded \in BOOLEAN /\ healthy \in BOOLEAN
    BY DEF Init
  <2> QED BY <2>1 DEF Init, TypeOK
<1>2. TypeOK /\ [Next]_vars => TypeOK'
  <2>1. TypeOK /\ Deactivate => TypeOK'
    BY DEF TypeOK, Deactivate
  <2>2. TypeOK /\ UNCHANGED vars => TypeOK'
    BY DEF TypeOK, vars
  <2> QED BY <2>1, <2>2, StepTyped DEF Next
<1> QED BY <1>1, <1>2, PTL DEF Spec

-----------------------------------------------------------------------------
(* The code's slots.                                                       *)

CodeHolding == {r \in Request : pc[r] \in
    {"seedWallet", "decrWallet", "insert", "walletOver", "undoCode",
     "logFailed", "redeemed"}}
CodeGranted == {r \in Request : pc[r] \in
    {"seedWallet", "decrWallet", "insert", "redeemed"}}

CodeInv ==
    /\ \A r \in Request : pc[r] = "decr" => seeded
    /\ ~seeded => CodeHolding = {}
    /\ seeded => remaining + Cardinality(CodeHolding) <= StartingCount
    /\ Cardinality(CodeGranted) <= StartingCount

LEMMA CodeFinite ==
  /\ IsFiniteSet(CodeHolding) /\ Cardinality(CodeHolding) \in Nat
  /\ IsFiniteSet(CodeGranted) /\ Cardinality(CodeGranted) \in Nat
  /\ Cardinality(CodeGranted) <= Cardinality(CodeHolding)
<1>1. IsFiniteSet(CodeHolding) /\ IsFiniteSet(CodeGranted)
  BY RequestAssumption, FS_Subset DEF CodeHolding, CodeGranted
<1>2. CodeGranted \in SUBSET CodeHolding
  BY DEF CodeGranted, CodeHolding
<1> QED BY <1>1, <1>2, FS_CardinalityType, FS_Subset

LEMMA CodeShrinks ==
  ASSUME CodeHolding' \subseteq CodeHolding, CodeGranted' \subseteq CodeGranted
  PROVE  /\ Cardinality(CodeHolding') \in Nat /\ Cardinality(CodeGranted') \in Nat
         /\ Cardinality(CodeHolding') <= Cardinality(CodeHolding)
         /\ Cardinality(CodeGranted') <= Cardinality(CodeGranted)
BY CodeFinite, FS_Subset, FS_CardinalityType

\* The two steps that touch the code's counter without undoing.
LEMMA ReserveKeepsCode ==
  ASSUME TypeOK, CodeInv, NEW r \in Request, Seed(r) \/ Decr(r)
  PROVE  CodeInv'
<1> USE DEF TypeOK
<1>1. CASE Seed(r)
  <2>1. CodeHolding' = CodeHolding /\ CodeGranted' = CodeGranted
    BY <1>1 DEF Seed, CodeHolding, CodeGranted
  <2>2. \/ seeded' /\ remaining' = IF seeded THEN remaining ELSE StartingCount
        \/ UNCHANGED <<remaining, seeded>>
    BY <1>1 DEF Seed, SeedCode
  <2>3. \A q \in Request : pc'[q] = "decr" => pc[q] = "decr" \/ seeded'
    BY <1>1 DEF Seed, SeedCode
  <2>4. seeded => seeded'
    BY <2>2
  <2>5. ~seeded => Cardinality(CodeHolding) = 0
    BY FS_EmptySet DEF CodeInv
  <2> QED BY <2>1, <2>2, <2>3, <2>4, <2>5, CodeFinite, CountAssumption DEF CodeInv
<1>2. CASE Decr(r)
  <2>1. seeded /\ seeded' = seeded /\ r \notin CodeHolding /\ r \notin CodeGranted
    BY <1>2 DEF Decr, CodeInv, CodeHolding, CodeGranted
  <2>2. CASE pc' = [pc EXCEPT ![r] = "refused"]
    <3>1. CodeHolding' = CodeHolding /\ CodeGranted' = CodeGranted
      BY <1>2, <2>2 DEF Decr, CodeHolding, CodeGranted
    <3>2. remaining' \in {remaining, remaining - 1}
      BY <1>2 DEF Decr
    <3> QED BY <2>1, <2>2, <3>1, <3>2, CodeFinite, CountAssumption DEF CodeInv
  <2>3. CASE remaining' = remaining - 1 /\ pc' = [pc EXCEPT ![r] = "undoCode"]
    <3>1. CodeHolding' = CodeHolding \cup {r} /\ CodeGranted' = CodeGranted
      BY <1>2, <2>3 DEF Decr, CodeHolding, CodeGranted
    <3>2. Cardinality(CodeHolding') = Cardinality(CodeHolding) + 1
      BY <2>1, <3>1, CodeFinite, FS_AddElement
    <3> QED BY <2>1, <2>3, <3>1, <3>2, CodeFinite, CountAssumption DEF CodeInv
  <2>4. CASE /\ remaining' = remaining - 1 /\ remaining - 1 >= 0
             /\ pc' = [pc EXCEPT ![r] = "seedWallet"]
    <3>1. /\ CodeHolding' = CodeHolding \cup {r}
          /\ CodeGranted' = CodeGranted \cup {r}
      BY <1>2, <2>4 DEF Decr, CodeHolding, CodeGranted
    <3>2. /\ Cardinality(CodeHolding') = Cardinality(CodeHolding) + 1
          /\ Cardinality(CodeGranted') = Cardinality(CodeGranted) + 1
      BY <2>1, <3>1, CodeFinite, FS_AddElement
    <3> QED BY <2>1, <2>4, <3>2, CodeFinite, CountAssumption DEF CodeInv
  <2> QED BY <1>2, <2>2, <2>3, <2>4 DEF Decr, Exhausted
<1> QED BY <1>1, <1>2

LEMMA UndoKeepsCode ==
  ASSUME TypeOK, CodeInv, NEW r \in Request, UndoCode(r) PROVE CodeInv'
<1> USE DEF TypeOK
<1>1. /\ r \in CodeHolding /\ CodeHolding' = CodeHolding \ {r}
      /\ CodeGranted' = CodeGranted
      /\ remaining' \in {remaining, remaining + 1} /\ seeded' = seeded
      /\ \A q \in Request : pc'[q] = "decr" => pc[q] = "decr"
  BY DEF UndoCode, CodeHolding, CodeGranted
<1>2. Cardinality(CodeHolding') = Cardinality(CodeHolding) - 1
  BY <1>1, CodeFinite, FS_RemoveElement
<1> QED BY <1>1, <1>2, CodeFinite, CountAssumption DEF CodeInv

LEMMA CodeStep ==
  ASSUME TypeOK, CodeInv, NEW r \in Request, Step(r) \/ Crash(r)
  PROVE  CodeInv'
<1> USE DEF TypeOK
<1>1. CASE Lookup(r) \/ SeedWallet(r) \/ DecrWallet(r) \/ Insert(r)
           \/ UndoWallet(r) \/ Crash(r)
  <2>1. /\ CodeHolding' \subseteq CodeHolding
        /\ CodeGranted' \subseteq CodeGranted
        /\ \A q \in Request : pc'[q] = "decr" => pc[q] = "decr"
    BY <1>1 DEF Lookup, SeedWallet, DecrWallet, Insert, UndoWallet, Crash,
       CodeHolding, CodeGranted
  <2>2. remaining' = remaining /\ seeded' = seeded
    BY <1>1 DEF Lookup, SeedWallet, DecrWallet, Insert, UndoWallet, Crash
  <2> QED BY <2>1, <2>2, CodeShrinks, CodeFinite, CountAssumption DEF CodeInv
<1> QED BY <1>1, ReserveKeepsCode, UndoKeepsCode DEF Step

LEMMA CodeInvHolds == Spec => []CodeInv
<1>1. Init => CodeInv
  <2> SUFFICES ASSUME Init PROVE CodeInv
    OBVIOUS
  <2>1. CodeHolding = {} /\ CodeGranted = {} /\ ~seeded
        /\ \A r \in Request : pc[r] # "decr"
    BY DEF Init, CodeHolding, CodeGranted
  <2> QED BY <2>1, FS_EmptySet, CountAssumption DEF CodeInv
<1>2. TypeOK /\ CodeInv /\ [Next]_vars => CodeInv'
  <2>1. CodeInv /\ (Deactivate \/ UNCHANGED vars) => CodeInv'
    BY DEF CodeInv, CodeHolding, CodeGranted, Deactivate, vars
  <2> QED BY <2>1, CodeStep DEF Next
<1> QED BY TypeCorrect, <1>1, <1>2, PTL DEF Spec

\* Never more free calls than the code's starting count.
THEOREM CodeCapHolds == Spec => []NoOverRedemption
<1>1. CodeInv => NoOverRedemption
  <2>1. Redeemed \in SUBSET CodeGranted
    BY DEF Redeemed, CodeGranted
  <2>2. /\ Cardinality(Redeemed) \in Nat
        /\ Cardinality(Redeemed) <= Cardinality(CodeGranted)
    BY <2>1, CodeFinite, FS_Subset, FS_CardinalityType
  <2> QED BY <2>2, CodeFinite, CountAssumption DEF CodeInv, NoOverRedemption
<1> QED BY CodeInvHolds, <1>1, PTL

-----------------------------------------------------------------------------
(* Without faults the code's counter is exact.                             *)

CodeExact == healthy /\ seeded => remaining = StartingCount - Cardinality(CodeHolding)

LEMMA StepKeepsExact ==
  ASSUME TypeOK, CodeInv, CodeExact, NEW r \in Request, Step(r), healthy', seeded'
  PROVE  CodeExact'
<1> USE DEF TypeOK
<1>0. healthy
  BY DEF Step, Lookup, Seed, Decr, SeedWallet, DecrWallet, Insert, UndoCode, UndoWallet
<1>1. CASE Seed(r)
  <2>1. /\ CodeHolding' = CodeHolding
        /\ remaining' = IF seeded THEN remaining ELSE StartingCount
    BY <1>1 DEF Seed, SeedCode, CodeHolding
  <2>2. ~seeded => Cardinality(CodeHolding) = 0
    BY FS_EmptySet DEF CodeInv
  <2> QED BY <1>0, <2>1, <2>2, CountAssumption DEF CodeExact
<1>2. CASE Decr(r)
  <2>1. seeded /\ r \notin CodeHolding
    BY <1>2 DEF Decr, CodeInv, CodeHolding
  <2>2. remaining' = remaining - 1 /\ CodeHolding' = CodeHolding \cup {r}
    BY <1>2 DEF Decr, CodeHolding
  <2>3. Cardinality(CodeHolding') = Cardinality(CodeHolding) + 1
    BY <2>1, <2>2, CodeFinite, FS_AddElement
  <2> QED BY <1>0, <2>1, <2>2, <2>3, CodeFinite, CountAssumption DEF CodeExact
<1>3. CASE UndoCode(r)
  <2>1. /\ r \in CodeHolding /\ CodeHolding' = CodeHolding \ {r}
        /\ remaining' = remaining + 1 /\ seeded
    BY <1>3 DEF UndoCode, CodeHolding
  <2>2. Cardinality(CodeHolding') = Cardinality(CodeHolding) - 1
    BY <2>1, CodeFinite, FS_RemoveElement
  <2> QED BY <1>0, <2>1, <2>2, CodeFinite, CountAssumption DEF CodeExact
<1>4. CASE Lookup(r) \/ SeedWallet(r) \/ DecrWallet(r) \/ Insert(r) \/ UndoWallet(r)
  <2>1. CodeHolding' = CodeHolding /\ remaining' = remaining /\ seeded' = seeded
    BY <1>4 DEF Lookup, SeedWallet, DecrWallet, Insert, UndoWallet, CodeHolding
  <2> QED BY <1>0, <2>1 DEF CodeExact
<1> QED BY <1>1, <1>2, <1>3, <1>4 DEF Step

\* Without faults no slot is lost: when no attempt is under way, the count the
\* admin sees is what the code has left.
THEOREM NoSlotLeaks == Spec => []NoSlotLost
<1>1. Init => CodeExact
  BY DEF Init, CodeExact
<1>2. TypeOK /\ CodeInv /\ CodeExact /\ [Next]_vars => CodeExact'
  <2> SUFFICES ASSUME TypeOK, CodeInv, CodeExact, [Next]_vars, healthy', seeded'
               PROVE  CodeExact'
    BY DEF CodeExact
  <2>1. CASE Deactivate \/ UNCHANGED vars
    BY <2>1 DEF Deactivate, vars, CodeExact, CodeHolding
  <2>2. ASSUME NEW r \in Request, Crash(r) PROVE FALSE
    BY <2>2 DEF Crash
  <2> QED BY <2>1, <2>2, StepKeepsExact DEF Next
<1>3. CodeExact => NoSlotLost
  <2> SUFFICES ASSUME CodeExact, healthy, seeded,
                      \A r \in Request : pc[r] \in {"lookup", "redeemed", "refused"}
               PROVE  remaining = StartingCount - Cardinality(Redeemed)
    BY DEF NoSlotLost
  <2>1. CodeHolding = Redeemed
    BY DEF CodeHolding, Redeemed
  <2> QED BY <2>1 DEF CodeExact
<1> QED BY TypeCorrect, CodeInvHolds, <1>1, <1>2, <1>3, PTL DEF Spec

-----------------------------------------------------------------------------
(* The audit log.                                                          *)

\* Every free call is in the audit log.
THEOREM RedemptionsAreLogged == Spec => []RedeemedIsLogged
<1>1. Init => RedeemedIsLogged
  BY DEF Init, RedeemedIsLogged, Redeemed
<1>2. TypeOK /\ RedeemedIsLogged /\ [Next]_vars => RedeemedIsLogged'
  BY DEF RedeemedIsLogged, Redeemed, Next, Deactivate, Step, Lookup, Seed,
     Decr, SeedWallet, DecrWallet, Insert, UndoCode, UndoWallet, Crash, vars,
     TypeOK
<1> QED BY TypeCorrect, <1>1, <1>2, PTL DEF Spec
-----------------------------------------------------------------------------
(* The slots of one wallet.                                                *)

WalletHolding(w) == {r \in Request : WalletOf[r] = w /\ pc[r] \in
    {"insert", "walletOver", "logFailed", "undoWallet", "redeemed"}}
WalletGranted(w) == {r \in Request : WalletOf[r] = w /\ pc[r] \in
    {"insert", "redeemed"}}

OneWalletInv(w) ==
    /\ w \notin known => WalletHolding(w) = {}
    /\ w \in known => walletLeft[w] + Cardinality(WalletHolding(w)) <= PerWallet
    /\ Cardinality(WalletGranted(w)) <= PerWallet

WalletInv ==
    /\ \A r \in Request : pc[r] = "decrWallet" => WalletOf[r] \in known
    /\ \A w \in Wallet : OneWalletInv(w)

LEMMA WalletFinite ==
  ASSUME NEW w \in Wallet
  PROVE  /\ IsFiniteSet(WalletHolding(w)) /\ Cardinality(WalletHolding(w)) \in Nat
         /\ IsFiniteSet(WalletGranted(w)) /\ Cardinality(WalletGranted(w)) \in Nat
         /\ Cardinality(WalletGranted(w)) <= Cardinality(WalletHolding(w))
<1>1. IsFiniteSet(WalletHolding(w)) /\ IsFiniteSet(WalletGranted(w))
  BY RequestAssumption, FS_Subset DEF WalletHolding, WalletGranted
<1>2. WalletGranted(w) \in SUBSET WalletHolding(w)
  BY DEF WalletGranted, WalletHolding
<1> QED BY <1>1, <1>2, FS_CardinalityType, FS_Subset

\* A step that takes no slot of w and leaves its counter alone.
LEMMA WalletKept ==
  ASSUME TypeOK, NEW w \in Wallet, OneWalletInv(w),
         WalletHolding(w)' \subseteq WalletHolding(w),
         WalletGranted(w)' \subseteq WalletGranted(w),
         w \in known' <=> w \in known, walletLeft'[w] = walletLeft[w]
  PROVE  OneWalletInv(w)'
<1>1. /\ Cardinality(WalletHolding(w)') \in Nat
      /\ Cardinality(WalletGranted(w)') \in Nat
      /\ Cardinality(WalletHolding(w)') <= Cardinality(WalletHolding(w))
      /\ Cardinality(WalletGranted(w)') <= Cardinality(WalletGranted(w))
  BY WalletFinite, FS_Subset, FS_CardinalityType
<1>2. walletLeft[w] \in Int
  BY DEF TypeOK
<1> QED BY <1>1, <1>2, WalletFinite, CountAssumption DEF OneWalletInv

\* Steps of an attempt concern its own wallet.
LEMMA OtherWalletStep ==
  ASSUME TypeOK, NEW r \in Request, Step(r) \/ Crash(r),
         NEW w \in Wallet, w # WalletOf[r], OneWalletInv(w)
  PROVE  OneWalletInv(w)'
<1> USE DEF TypeOK
<1>1. \A q \in Request \ {r} : pc'[q] = pc[q]
  BY DEF Step, Lookup, Seed, Decr, SeedWallet, DecrWallet, Insert, UndoCode,
     UndoWallet, Crash
<1>2. /\ WalletHolding(w)' = WalletHolding(w)
      /\ WalletGranted(w)' = WalletGranted(w)
  BY <1>1 DEF WalletHolding, WalletGranted
<1>3. (w \in known' <=> w \in known) /\ walletLeft'[w] = walletLeft[w]
  BY RequestAssumption DEF Step, Lookup, Seed, Decr, SeedWallet, SeedOne,
     DecrWallet, Taken, Insert, UndoCode, UndoWallet, Crash
<1> QED BY <1>2, <1>3, WalletKept

LEMMA OwnWalletStep ==
  ASSUME TypeOK, WalletInv, NEW r \in Request, Step(r) \/ Crash(r)
  PROVE  OneWalletInv(WalletOf[r])'
<1> DEFINE w == WalletOf[r]
<1> USE DEF TypeOK
<1>0. w \in Wallet /\ OneWalletInv(w) /\ walletLeft[w] \in Int
  BY RequestAssumption DEF WalletInv
<1>1. CASE Lookup(r) \/ Seed(r) \/ Decr(r) \/ Insert(r) \/ UndoCode(r) \/ Crash(r)
  <2>1. /\ WalletHolding(w)' \subseteq WalletHolding(w)
        /\ WalletGranted(w)' \subseteq WalletGranted(w)
    BY <1>1 DEF Lookup, Seed, Decr, Insert, UndoCode, Crash,
       WalletHolding, WalletGranted
  <2>2. UNCHANGED <<walletLeft, known>>
    BY <1>1 DEF Lookup, Seed, Decr, Insert, UndoCode, Crash
  <2> QED BY <1>0, <2>1, <2>2, WalletKept
<1>2. CASE SeedWallet(r)
  <2>1. /\ WalletHolding(w)' = WalletHolding(w)
        /\ WalletGranted(w)' = WalletGranted(w)
    BY <1>2 DEF SeedWallet, WalletHolding, WalletGranted
  <2>2. CASE w \in known \/ UNCHANGED <<walletLeft, known>>
    <3>1. (w \in known' <=> w \in known) /\ walletLeft'[w] = walletLeft[w]
      BY <1>2, <2>2 DEF SeedWallet, SeedOne
    <3> QED BY <1>0, <2>1, <3>1, WalletKept
  <2>3. CASE w \notin known /\ ~UNCHANGED <<walletLeft, known>>
    <3>1. w \in known' /\ walletLeft'[w] = PerWallet
      BY <1>0, <1>2, <2>3 DEF SeedWallet, SeedOne
    <3>2. Cardinality(WalletHolding(w)') = 0
      BY <1>0, <2>1, <2>3, FS_EmptySet DEF OneWalletInv
    <3> QED BY <1>0, <2>1, <3>1, <3>2, CountAssumption DEF OneWalletInv
  <2> QED BY <2>2, <2>3
<1>3. CASE DecrWallet(r)
  <2>1. /\ w \in known /\ known' = known
        /\ r \notin WalletHolding(w) /\ r \notin WalletGranted(w)
    BY <1>3 DEF DecrWallet, WalletInv, WalletHolding, WalletGranted
  <2>2. CASE /\ pc' = [pc EXCEPT ![r] = "undoCode"]
             /\ walletLeft'[w] \in {walletLeft[w], walletLeft[w] - 1}
    <3>1. /\ WalletHolding(w)' = WalletHolding(w)
          /\ WalletGranted(w)' = WalletGranted(w)
      BY <1>3, <2>2 DEF DecrWallet, WalletHolding, WalletGranted
    <3> QED BY <1>0, <2>1, <2>2, <3>1, WalletFinite, CountAssumption
            DEF OneWalletInv
  <2>3. CASE /\ walletLeft'[w] = walletLeft[w] - 1
             /\ pc' = [pc EXCEPT ![r] = "walletOver"]
    <3>1. /\ WalletHolding(w)' = WalletHolding(w) \cup {r}
          /\ WalletGranted(w)' = WalletGranted(w)
      BY <1>3, <2>3 DEF DecrWallet, WalletHolding, WalletGranted
    <3>2. Cardinality(WalletHolding(w)') = Cardinality(WalletHolding(w)) + 1
      BY <1>0, <2>1, <3>1, WalletFinite, FS_AddElement
    <3> QED BY <1>0, <2>1, <2>3, <3>1, <3>2, WalletFinite, CountAssumption
            DEF OneWalletInv
  <2>4. CASE /\ walletLeft'[w] = walletLeft[w] - 1 /\ walletLeft[w] - 1 >= 0
             /\ pc' = [pc EXCEPT ![r] = "insert"]
    <3>1. /\ WalletHolding(w)' = WalletHolding(w) \cup {r}
          /\ WalletGranted(w)' = WalletGranted(w) \cup {r}
      BY <1>3, <2>4 DEF DecrWallet, WalletHolding, WalletGranted
    <3>2. /\ Cardinality(WalletHolding(w)') = Cardinality(WalletHolding(w)) + 1
          /\ Cardinality(WalletGranted(w)') = Cardinality(WalletGranted(w)) + 1
      BY <1>0, <2>1, <3>1, WalletFinite, FS_AddElement
    <3> QED BY <1>0, <2>1, <2>4, <3>2, WalletFinite, CountAssumption
            DEF OneWalletInv
  <2> QED BY <1>0, <1>3, <2>2, <2>3, <2>4 DEF DecrWallet, Exhausted, Taken
<1>4. CASE UndoWallet(r)
  <2>1. /\ r \in WalletHolding(w) /\ WalletHolding(w)' = WalletHolding(w) \ {r}
        /\ WalletGranted(w)' = WalletGranted(w)
    BY <1>4 DEF UndoWallet, WalletHolding, WalletGranted
  <2>2. /\ known' = known
        /\ walletLeft'[w] \in {walletLeft[w], walletLeft[w] + 1}
    BY <1>0, <1>4 DEF UndoWallet
  <2>3. Cardinality(WalletHolding(w)') = Cardinality(WalletHolding(w)) - 1
    <3>1. IsFiniteSet(WalletHolding(w))
      BY <1>0, WalletFinite
    <3>2. \A S : IsFiniteSet(S) /\ r \in S
                => Cardinality(S \ {r}) = Cardinality(S) - 1
      BY FS_RemoveElement
    <3> QED BY <2>1, <3>1, <3>2
  <2> QED BY <1>0, <2>1, <2>2, <2>3, WalletFinite, CountAssumption
          DEF OneWalletInv
<1> QED BY <1>1, <1>2, <1>3, <1>4 DEF Step

LEMMA WalletStep ==
  ASSUME TypeOK, WalletInv, NEW r \in Request, Step(r) \/ Crash(r)
  PROVE  WalletInv'
<1>1. \A w \in Wallet : OneWalletInv(w)'
  BY OtherWalletStep, OwnWalletStep DEF WalletInv
<1>2. \A q \in Request : pc'[q] = "decrWallet" => WalletOf[q] \in known'
  BY DEF TypeOK, WalletInv, Step, Lookup, Seed, Decr, SeedWallet, SeedOne,
     DecrWallet, Insert, UndoCode, UndoWallet, Crash
<1> QED BY <1>1, <1>2 DEF WalletInv

\* No wallet gets more than its allowance.
THEOREM WalletCapHolds == Spec => []WalletCap
<1>1. Init => WalletInv
  <2> SUFFICES ASSUME Init PROVE WalletInv
    OBVIOUS
  <2>1. /\ \A r \in Request : pc[r] # "decrWallet"
        /\ \A w \in Wallet : WalletHolding(w) = {} /\ WalletGranted(w) = {}
        /\ known = {}
    BY DEF Init, WalletHolding, WalletGranted
  <2> QED BY <2>1, FS_EmptySet, CountAssumption DEF WalletInv, OneWalletInv
<1>2. TypeOK /\ WalletInv /\ [Next]_vars => WalletInv'
  <2>1. WalletInv /\ (Deactivate \/ UNCHANGED vars) => WalletInv'
    BY DEF WalletInv, OneWalletInv, WalletHolding, WalletGranted, Deactivate, vars
  <2> QED BY <2>1, WalletStep DEF Next
<1>3. WalletInv => WalletCap
  <2> SUFFICES ASSUME WalletInv, NEW w \in Wallet
               PROVE  Cardinality({r \in Redeemed : WalletOf[r] = w}) <= PerWallet
    BY DEF WalletCap
  <2> DEFINE R == {r \in Redeemed : WalletOf[r] = w}
  <2>1. R \in SUBSET WalletGranted(w)
    BY DEF Redeemed, WalletGranted
  <2>2. Cardinality(R) \in Nat /\ Cardinality(R) <= Cardinality(WalletGranted(w))
    BY <2>1, WalletFinite, FS_Subset, FS_CardinalityType
  <2> QED BY <2>2, WalletFinite, CountAssumption DEF WalletInv, OneWalletInv
<1> QED BY TypeCorrect, <1>1, <1>2, <1>3, PTL DEF Spec
=============================================================================
