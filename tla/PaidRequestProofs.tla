------------------------- MODULE PaidRequestProofs -------------------------
(***************************************************************************)
(* Theorems about PaidRequest, for any finite set of requests, any set of  *)
(* payments, any breaker threshold and any budget.                         *)
(***************************************************************************)
EXTENDS PaidRequestInvariant, FiniteSetTheorems, TLAPS

USE DEF Goto, Answer, reqVars, moneyVars, ledgerVars, refundVars,
        PC, LivePC, GatePC, PaidPC, RecordPC, MarkPC, RefundPC, RefundStatus

-----------------------------------------------------------------------------
(* Type correctness, one group of variables at a time.                     *)

LEMMA InitTyped == Init => TypeOK
<1> SUFFICES ASSUME Init PROVE TypeOK
  OBVIOUS
<1>1. RequestsTypeOK
  BY DEF Init, RequestsTypeOK, Response
<1>2. MoneyTypeOK
  BY DEF Init, MoneyTypeOK
<1>3. BooksTypeOK
  BY DEF Init, BooksTypeOK, Row, NoRow
<1>4. latched \in BOOLEAN
  BY DEF Init
<1>5. RefundsTypeOK
  BY <1>4 DEF Init, RefundsTypeOK
<1> QED BY <1>1, <1>2, <1>3, <1>5 DEF TypeOK

LEMMA RequestsTyped ==
  ASSUME RequestsTypeOK, Next PROVE RequestsTypeOK'
<1> USE DEF RequestsTypeOK, Response
<1>1. ASSUME NEW r \in Request, Arrive(r) \/ IsTripped(r) \/ ClaimPayment(r)
      PROVE  RequestsTypeOK'
  BY <1>1 DEF Arrive, IsTripped, ClaimPayment
<1>2. ASSUME NEW r \in Request, Gate(r) PROVE RequestsTypeOK'
  BY <1>2 DEF Gate, Verify, Settle, ReleaseClaim, GateFails
<1>3. ASSUME NEW r \in Request, Record(r) \/ WriteProduct(r)
      PROVE  RequestsTypeOK'
  BY <1>3 DEF Record, InsertLedger, InsertByTx, WriteProduct, WriteSucceeds,
              WriteRejected, WriteRaises
<1>4. ASSUME NEW r \in Request, Mark(r) PROVE RequestsTypeOK'
  BY <1>4 DEF Mark, MarkRead, MarkLedger, MarkByTx, ReadRow
<1>5. ASSUME NEW r \in Request, Breaker(r) \/ Crash(r) \/ ChainDecides(r)
      PROVE  RequestsTypeOK'
  BY <1>5 DEF Breaker, CountFailure, SetLatch, Crash, ChainDecides
<1>6. ASSUME NEW r \in Request, Refund(r) PROVE RequestsTypeOK'
  BY <1>6 DEF Refund, ReserveBudget, UnreserveBudget, SendRefund,
              ConfirmRefund, RefundRead, RefundLedger, RefundByTx, ReadRow,
              RefundResponse, Outcome
<1>7. ASSUME NEW p \in Payment, ClaimExpires(p) PROVE RequestsTypeOK'
  BY <1>7 DEF ClaimExpires
<1>8. CASE CounterExpires \/ ResetBreaker
  BY <1>8 DEF CounterExpires, ResetBreaker
<1> QED BY <1>1, <1>2, <1>3, <1>4, <1>5, <1>6, <1>7, <1>8 DEF Next, Step

LEMMA MoneyTyped ==
  ASSUME RequestsTypeOK, MoneyTypeOK, Next PROVE MoneyTypeOK'
<1> USE DEF RequestsTypeOK, MoneyTypeOK
<1>1. ASSUME NEW r \in Request, ClaimPayment(r) \/ Gate(r) \/ WriteProduct(r)
      PROVE  MoneyTypeOK'
  BY <1>1 DEF ClaimPayment, Gate, Verify, Settle, Spend, ReleaseClaim,
              WriteProduct, WriteSucceeds, WriteRejected, WriteRaises
<1>2. ASSUME NEW p \in Payment, ClaimExpires(p) PROVE MoneyTypeOK'
  BY <1>2 DEF ClaimExpires
<1>3. ASSUME NEW r \in Request,
             Arrive(r) \/ IsTripped(r) \/ Record(r) \/ Mark(r) \/ Breaker(r)
             \/ Refund(r) \/ Crash(r) \/ ChainDecides(r)
      PROVE  UNCHANGED moneyVars
  BY <1>3 DEF Arrive, IsTripped, Record, InsertLedger, InsertByTx, Mark,
              MarkRead, MarkLedger, MarkByTx, ReadRow, Breaker, CountFailure,
              SetLatch, Refund, ReserveBudget, UnreserveBudget, SendRefund,
              ConfirmRefund, RefundRead, RefundLedger, RefundByTx, Crash,
              ChainDecides
<1>4. CASE CounterExpires \/ ResetBreaker
  BY <1>4 DEF CounterExpires, ResetBreaker
<1> QED BY <1>1, <1>2, <1>3, <1>4 DEF Next, Step

LEMMA BooksTyped ==
  ASSUME RequestsTypeOK, BooksTypeOK, Next PROVE BooksTypeOK'
<1> USE DEF RequestsTypeOK, BooksTypeOK, Row
<1>1. ASSUME NEW r \in Request, Record(r) PROVE BooksTypeOK'
  <2>1. NewRow \in Row /\ hdr[r] \in Payment
    BY DEF NewRow
  <2>2. CASE InsertLedger(r)
    BY <2>1, <2>2 DEF InsertLedger
  <2>3. CASE InsertByTx(r)
    <3>1. [byTx EXCEPT ![hdr[r]] = NewRow] \in [Payment -> Row]
      BY <2>1
    <3> QED BY <2>3, <3>1 DEF InsertByTx
  <2> QED BY <1>1, <2>2, <2>3 DEF Record
<1>2. ASSUME NEW r \in Request, RefundLedger(r) PROVE BooksTypeOK'
  <2>1. [ledger EXCEPT ![hdr[r]].refund = status[r]] \in [Payment -> Row]
    OBVIOUS
  <2> QED BY <1>2, <2>1 DEF RefundLedger
<1>3. ASSUME NEW r \in Request, RefundByTx(r) PROVE BooksTypeOK'
  <2>1. [byTx EXCEPT ![hdr[r]].refund = status[r]] \in [Payment -> Row]
    OBVIOUS
  <2> QED BY <1>3, <2>1 DEF RefundByTx
<1>4. ASSUME NEW r \in Request, MarkLedger(r) PROVE BooksTypeOK'
  <2>1. [ledger EXCEPT ![hdr[r]].state = "fulfilled"] \in [Payment -> Row]
    OBVIOUS
  <2> QED BY <1>4, <2>1 DEF MarkLedger
<1>5. ASSUME NEW r \in Request, MarkByTx(r) PROVE BooksTypeOK'
  <2>1. [byTx EXCEPT ![hdr[r]].state = "fulfilled"] \in [Payment -> Row]
    OBVIOUS
  <2> QED BY <1>5, <2>1 DEF MarkByTx
<1>6. ASSUME NEW r \in Request,
             Arrive(r) \/ IsTripped(r) \/ ClaimPayment(r) \/ Gate(r)
             \/ WriteProduct(r) \/ MarkRead(r) \/ Breaker(r) \/ Crash(r)
             \/ ChainDecides(r)
      PROVE  UNCHANGED ledgerVars
  BY <1>6 DEF Arrive, IsTripped, ClaimPayment, Gate, Verify, Settle,
              ReleaseClaim, WriteProduct, MarkRead, ReadRow, Breaker,
              CountFailure, SetLatch, Crash, ChainDecides
<1>7. ASSUME NEW r \in Request,
             ReserveBudget(r) \/ UnreserveBudget(r) \/ SendRefund(r)
             \/ ConfirmRefund(r) \/ RefundRead(r)
      PROVE  UNCHANGED ledgerVars
  BY <1>7 DEF ReserveBudget, UnreserveBudget, SendRefund, ConfirmRefund,
              RefundRead, ReadRow
<1>8. CASE CounterExpires \/ ResetBreaker
           \/ \E p \in Payment : ClaimExpires(p)
  BY <1>8 DEF CounterExpires, ResetBreaker, ClaimExpires
<1> QED BY <1>1, <1>2, <1>3, <1>4, <1>5, <1>6, <1>7, <1>8
        DEF Next, Step, Mark, Refund

LEMMA RefundsTyped ==
  ASSUME RefundsTypeOK, Next PROVE RefundsTypeOK'
<1> USE DEF RefundsTypeOK
<1>1. ASSUME NEW r \in Request, IsTripped(r) PROVE RefundsTypeOK'
  <2>1. latched' \in BOOLEAN
    BY <1>1 DEF IsTripped
  <2> QED BY <1>1, <2>1 DEF IsTripped
<1>2. ASSUME NEW r \in Request, Breaker(r) \/ ChainDecides(r)
      PROVE  RefundsTypeOK'
  <2>1. CASE CountFailure(r)
    BY <2>1 DEF CountFailure
  <2>2. CASE SetLatch(r)
    <3>1. latched' \in BOOLEAN
      BY <2>2 DEF SetLatch
    <3> QED BY <2>2, <3>1 DEF SetLatch
  <2>3. CASE ChainDecides(r)
    BY <2>3 DEF ChainDecides
  <2> QED BY <1>2, <2>1, <2>2, <2>3 DEF Breaker
<1>3. ASSUME NEW r \in Request, Refund(r) PROVE RefundsTypeOK'
  BY <1>3 DEF Refund, ReserveBudget, UnreserveBudget, SendRefund, Broadcast,
              ConfirmRefund, RefundRead, RefundLedger, RefundByTx, ReadRow
<1>4. ASSUME NEW r \in Request,
             Arrive(r) \/ ClaimPayment(r) \/ Gate(r) \/ Record(r)
             \/ WriteProduct(r) \/ Mark(r) \/ Crash(r)
      PROVE  UNCHANGED refundVars
  BY <1>4 DEF Arrive, ClaimPayment, Gate, Verify, Settle, ReleaseClaim,
              Record, InsertLedger, InsertByTx, WriteProduct, Mark, MarkRead,
              MarkLedger, MarkByTx, ReadRow, Crash
<1>5. CASE CounterExpires \/ ResetBreaker
  <2>1. latched' \in BOOLEAN
    BY <1>5 DEF CounterExpires, ResetBreaker
  <2> QED BY <1>5, <2>1 DEF CounterExpires, ResetBreaker
<1>6. ASSUME NEW p \in Payment, ClaimExpires(p) PROVE UNCHANGED refundVars
  BY <1>6 DEF ClaimExpires
<1> QED BY <1>1, <1>2, <1>3, <1>4, <1>5, <1>6 DEF Next, Step

LEMMA TypeStep == TypeOK /\ [Next]_vars => TypeOK'
<1>1. TypeOK /\ Next => TypeOK'
  BY RequestsTyped, MoneyTyped, BooksTyped, RefundsTyped DEF TypeOK
<1>2. TypeOK /\ UNCHANGED vars => TypeOK'
  BY DEF TypeOK, RequestsTypeOK, MoneyTypeOK, BooksTypeOK, RefundsTypeOK, vars
<1> QED BY <1>1, <1>2

\* Every variable keeps its type through every step of every request.
THEOREM TypeCorrect == Spec => []TypeOK
  BY InitTyped, TypeStep, PTL DEF Spec

-----------------------------------------------------------------------------
(* What one request does to the others: nothing but spending its payment.  *)

LocalStep(r) == Arrive(r) \/ Step(r) \/ Crash(r) \/ ChainDecides(r)

SameRequest(s) ==
    /\ pc'[s] = pc[s] /\ resp'[s] = resp[s] /\ status'[s] = status[s]
    /\ product'[s] = product[s] /\ refundTx'[s] = refundTx[s]

LEMMA StepIsLocal ==
  ASSUME TypeOK, NEW r \in Request, LocalStep(r), NEW s \in Request, s # r
  PROVE  SameRequest(s) /\ hdr' = hdr
<1> USE DEF TypeOK, RequestsTypeOK, MoneyTypeOK, RefundsTypeOK, SameRequest
<1>1. CASE Arrive(r) \/ IsTripped(r) \/ ClaimPayment(r) \/ Crash(r)
  BY <1>1 DEF Arrive, IsTripped, ClaimPayment, Crash
<1>2. CASE Gate(r)
  BY <1>2 DEF Gate, Verify, Settle, ReleaseClaim, GateFails
<1>3. CASE Record(r) \/ WriteProduct(r)
  BY <1>3 DEF Record, InsertLedger, InsertByTx, WriteProduct, WriteSucceeds,
              WriteRejected, WriteRaises
<1>4. CASE Mark(r)
  BY <1>4 DEF Mark, MarkRead, MarkLedger, MarkByTx, ReadRow
<1>5. CASE Breaker(r) \/ ChainDecides(r)
  BY <1>5 DEF Breaker, CountFailure, SetLatch, ChainDecides
<1>6. CASE Refund(r)
  BY <1>6 DEF Refund, ReserveBudget, UnreserveBudget, SendRefund, Broadcast,
              ConfirmRefund, RefundRead, RefundLedger, RefundByTx, ReadRow,
              Outcome
<1> QED BY <1>1, <1>2, <1>3, <1>4, <1>5, <1>6 DEF LocalStep, Step

\* The settle call is the only one that touches settledBy, and it takes only
\* a payment nobody has spent.
LEMMA SpendsItsOwn ==
  ASSUME TypeOK, NEW r \in Request, LocalStep(r)
  PROVE  \/ UNCHANGED settledBy
         \/ pc[r] = "settle" /\ Spend(hdr[r], r)
<1>1. CASE Settle(r)
  BY <1>1 DEF Settle
<1>2. CASE Arrive(r) \/ IsTripped(r) \/ ClaimPayment(r) \/ Crash(r)
  BY <1>2 DEF Arrive, IsTripped, ClaimPayment, Crash
<1>3. CASE Verify(r) \/ ReleaseClaim(r) \/ Record(r) \/ WriteProduct(r)
  BY <1>3 DEF Verify, ReleaseClaim, Record, InsertLedger, InsertByTx,
              WriteProduct
<1>4. CASE Mark(r) \/ Breaker(r) \/ ChainDecides(r)
  BY <1>4 DEF Mark, MarkRead, MarkLedger, MarkByTx, ReadRow, Breaker,
              CountFailure, SetLatch, ChainDecides
<1>5. CASE Refund(r)
  BY <1>5 DEF Refund, ReserveBudget, UnreserveBudget, SendRefund,
              ConfirmRefund, RefundRead, RefundLedger, RefundByTx, ReadRow
<1> QED BY <1>1, <1>2, <1>3, <1>4, <1>5 DEF LocalStep, Step, Gate

-----------------------------------------------------------------------------
(* Where a request stands tells what it has done: RequestInv is inductive. *)

LEMMA OwnRequestStep ==
  ASSUME TypeOK, NEW r \in Request, RequestPlaced(r), LocalStep(r)
  PROVE  RequestPlaced(r)'
<1> USE DEF TypeOK, RequestsTypeOK, MoneyTypeOK, RefundsTypeOK,
            RequestPlaced, OwnsPayment, ProductPlaced, RefundPlaced, Answered,
            AfterRefundPC, OverPC
<1>1. CASE Arrive(r)
  BY <1>1 DEF Arrive
<1>2. CASE IsTripped(r)
  BY <1>2 DEF IsTripped
<1>3. CASE ClaimPayment(r)
  BY <1>3 DEF ClaimPayment
<1>4. CASE Verify(r)
  BY <1>4 DEF Verify, GateFails
<1>5. CASE Settle(r)
  BY <1>5 DEF Settle, Spend, GateFails
<1>6. CASE ReleaseClaim(r)
  BY <1>6 DEF ReleaseClaim
<1>7. CASE Record(r)
  BY <1>7 DEF Record, InsertLedger, InsertByTx
<1>8. CASE WriteProduct(r)
  BY <1>8 DEF WriteProduct, WriteSucceeds, WriteRejected, WriteRaises
<1>9. CASE Mark(r)
  BY <1>9 DEF Mark, MarkRead, MarkLedger, MarkByTx, ReadRow
<1>10. CASE Breaker(r)
  BY <1>10 DEF Breaker, CountFailure, SetLatch
<1>11. CASE ReserveBudget(r) \/ UnreserveBudget(r)
  BY <1>11 DEF ReserveBudget, UnreserveBudget, Outcome
<1>12. CASE SendRefund(r)
  BY <1>12 DEF SendRefund, Broadcast, Outcome
<1>13. CASE ConfirmRefund(r)
  BY <1>13 DEF ConfirmRefund, Outcome
<1>14. CASE RefundRead(r)
  BY <1>14 DEF RefundRead, ReadRow, RefundResponse
<1>15. CASE RefundLedger(r)
  BY <1>15 DEF RefundLedger, RefundResponse
<1>16. CASE RefundByTx(r)
  BY <1>16 DEF RefundByTx, RefundResponse
<1>17. CASE Crash(r)
  BY <1>17 DEF Crash
<1>18. CASE ChainDecides(r)
  BY <1>18 DEF ChainDecides
<1> QED BY <1>1, <1>2, <1>3, <1>4, <1>5, <1>6, <1>7, <1>8, <1>9, <1>10,
           <1>11, <1>12, <1>13, <1>14, <1>15, <1>16, <1>17, <1>18
        DEF LocalStep, Step, Gate, Refund

LEMMA OtherRequestStep ==
  ASSUME TypeOK, NEW r \in Request, LocalStep(r),
         NEW s \in Request, s # r, RequestPlaced(s)
  PROVE  RequestPlaced(s)'
<1>1. SameRequest(s) /\ hdr' = hdr
  BY StepIsLocal
<1>2. OwnsPayment(s)'
  BY <1>1, SpendsItsOwn, RequestAssumption DEF OwnsPayment, RequestPlaced, SameRequest, Spend,
     TypeOK, RequestsTypeOK, MoneyTypeOK
<1>3. ProductPlaced(s)' /\ RefundPlaced(s)' /\ Answered(s)'
  BY <1>1 DEF ProductPlaced, RefundPlaced, Answered, RequestPlaced, SameRequest
<1> QED BY <1>2, <1>3 DEF RequestPlaced

-----------------------------------------------------------------------------
(* What the books say of a payment is what its settler has done.           *)

\* The two rows belong to the request that settled the payment.
LEMMA RowsAreOwned ==
  ASSUME TypeOK, NEW r \in Request, RequestPlaced(r), LocalStep(r),
         settledBy[hdr[r]] # r
  PROVE  UNCHANGED ledgerVars
<1>1. pc[r] \notin PaidPC
  BY DEF RequestPlaced, OwnsPayment
<1>2. CASE Arrive(r) \/ IsTripped(r) \/ ClaimPayment(r) \/ Crash(r)
  BY <1>2 DEF Arrive, IsTripped, ClaimPayment, Crash
<1>3. CASE Gate(r)
  BY <1>3 DEF Gate, Verify, Settle, ReleaseClaim
<1>4. CASE ChainDecides(r)
  BY <1>4 DEF ChainDecides
<1>5. CASE Record(r) \/ WriteProduct(r) \/ Mark(r) \/ Breaker(r) \/ Refund(r)
  BY <1>1, <1>5
     DEF Record, InsertLedger, InsertByTx, WriteProduct, Mark, MarkRead,
         MarkLedger, MarkByTx, ReadRow, Breaker, CountFailure, SetLatch,
         Refund, ReserveBudget, UnreserveBudget, SendRefund, ConfirmRefund,
         RefundRead, RefundLedger, RefundByTx
<1> QED BY <1>2, <1>3, <1>4, <1>5 DEF LocalStep, Step

LEMMA OtherRowsKept ==
  ASSUME TypeOK, NEW r \in Request, LocalStep(r),
         NEW p \in Payment, p # hdr[r]
  PROVE  ledger'[p] = ledger[p] /\ byTx'[p] = byTx[p] /\ settledBy'[p] = settledBy[p]
<1> USE DEF TypeOK, RequestsTypeOK, BooksTypeOK, MoneyTypeOK
<1>1. settledBy'[p] = settledBy[p]
  BY SpendsItsOwn DEF Spend
<1>2. CASE Arrive(r) \/ IsTripped(r) \/ ClaimPayment(r) \/ Crash(r)
           \/ ChainDecides(r)
  BY <1>1, <1>2 DEF Arrive, IsTripped, ClaimPayment, Crash, ChainDecides
<1>3. CASE Gate(r) \/ WriteProduct(r) \/ Breaker(r)
  BY <1>1, <1>3 DEF Gate, Verify, Settle, ReleaseClaim, WriteProduct, Breaker,
     CountFailure, SetLatch
<1>4. CASE Record(r)
  BY <1>1, <1>4 DEF Record, InsertLedger, InsertByTx
<1>5. CASE Mark(r)
  BY <1>1, <1>5 DEF Mark, MarkRead, MarkLedger, MarkByTx, ReadRow
<1>6. CASE Refund(r)
  BY <1>1, <1>6 DEF Refund, ReserveBudget, UnreserveBudget, SendRefund,
     ConfirmRefund, RefundRead, RefundLedger, RefundByTx, ReadRow
<1> QED BY <1>2, <1>3, <1>4, <1>5, <1>6 DEF LocalStep, Step

\* The steps of the settler itself, after the settlement.
LEMMA OwnRowsStep ==
  ASSUME TypeOK, NEW r \in Request, RequestPlaced(r),
         settledBy[hdr[r]] = r, RowsPlaced(hdr[r], r), LocalStep(r)
  PROVE  RowsPlaced(hdr[r], r)'
<1> USE DEF TypeOK, RequestsTypeOK, MoneyTypeOK, BooksTypeOK, Row,
            RowsPlaced, AfterRefundPC, OverPC
<1>1. CASE Arrive(r) \/ IsTripped(r) \/ ClaimPayment(r)
  BY <1>1 DEF Arrive, IsTripped, ClaimPayment, RequestPlaced, ProductPlaced
<1>2. CASE Gate(r)
  BY <1>2, RequestAssumption DEF Gate, Verify, Settle, ReleaseClaim, GateFails, Spend,
     RequestPlaced, RefundPlaced, ProductPlaced
<1>3. CASE InsertLedger(r)
  BY <1>3 DEF InsertLedger, NewRow
<1>4. CASE InsertByTx(r)
  BY <1>4 DEF InsertByTx, NewRow
<1>5. CASE WriteProduct(r)
  BY <1>5 DEF WriteProduct, WriteSucceeds, WriteRejected, WriteRaises,
     RequestPlaced, ProductPlaced
<1>6. CASE MarkRead(r)
  BY <1>6 DEF MarkRead, ReadRow
<1>7. CASE MarkLedger(r)
  BY <1>7 DEF MarkLedger, RequestPlaced, ProductPlaced
<1>8. CASE MarkByTx(r)
  BY <1>8 DEF MarkByTx
<1>9. CASE Breaker(r)
  BY <1>9 DEF Breaker, CountFailure, SetLatch
<1>10. CASE ReserveBudget(r) \/ UnreserveBudget(r)
  BY <1>10 DEF ReserveBudget, UnreserveBudget, Outcome
<1>11. CASE SendRefund(r) \/ ConfirmRefund(r)
  BY <1>11 DEF SendRefund, ConfirmRefund, Outcome
<1>12. CASE RefundRead(r)
  BY <1>12 DEF RefundRead, ReadRow
<1>13. CASE RefundLedger(r)
  BY <1>13 DEF RefundLedger
<1>14. CASE RefundByTx(r)
  BY <1>14 DEF RefundByTx
<1>15. CASE Crash(r) \/ ChainDecides(r)
  BY <1>15 DEF Crash, ChainDecides
<1> QED BY <1>1, <1>2, <1>3, <1>4, <1>5, <1>6, <1>7, <1>8, <1>9, <1>10,
           <1>11, <1>12, <1>13, <1>14, <1>15
        DEF LocalStep, Step, Record, Mark, Refund

-----------------------------------------------------------------------------
(* The inductive invariant.                                                *)

LEMMA InitPlaced == Init => OwnerInv /\ RequestInv /\ BooksInv
<1> SUFFICES ASSUME Init PROVE OwnerInv /\ RequestInv /\ BooksInv
  OBVIOUS
<1>1. OwnerInv /\ BooksInv
  BY DEF Init, OwnerInv, BooksInv
<1>2. RequestInv
  BY DEF Init, RequestInv, RequestPlaced, OwnsPayment, ProductPlaced,
         RefundPlaced, Answered, AfterRefundPC, OverPC
<1> QED BY <1>1, <1>2

LEMMA LocalStepPlaced ==
  ASSUME IInv, NEW r \in Request, LocalStep(r)
  PROVE  OwnerInv' /\ RequestInv' /\ BooksInv'
<1>1. RequestInv'
  BY OwnRequestStep, OtherRequestStep DEF IInv, RequestInv
<1>2. hdr' = hdr
  <2>1. CASE Arrive(r) \/ IsTripped(r) \/ ClaimPayment(r) \/ Crash(r)
             \/ ChainDecides(r)
    BY <2>1 DEF Arrive, IsTripped, ClaimPayment, Crash, ChainDecides
  <2>2. CASE Gate(r) \/ Record(r) \/ WriteProduct(r)
    BY <2>2 DEF Gate, Verify, Settle, ReleaseClaim, Record, InsertLedger,
       InsertByTx, WriteProduct
  <2>3. CASE Mark(r) \/ Breaker(r) \/ Refund(r)
    BY <2>3 DEF Mark, MarkRead, MarkLedger, MarkByTx, ReadRow, Breaker,
       CountFailure, SetLatch, Refund, ReserveBudget, UnreserveBudget,
       SendRefund, ConfirmRefund, RefundRead, RefundLedger, RefundByTx
  <2> QED BY <2>1, <2>2, <2>3 DEF LocalStep, Step
<1>3. OwnerInv'
  BY <1>2, SpendsItsOwn DEF IInv, OwnerInv, Spend, TypeOK, MoneyTypeOK,
     RequestsTypeOK
<1>4. BooksInv'
  <2> SUFFICES ASSUME NEW p \in Payment
               PROVE  IF settledBy'[p] = NoRequest
                      THEN ledger'[p] = NoRow /\ byTx'[p] = NoRow
                      ELSE RowsPlaced(p, settledBy[p])'
    BY DEF BooksInv
  <2> USE DEF IInv
  <2>1. TypeOK /\ RequestPlaced(r)
    BY DEF RequestInv
  <2>2. CASE settledBy[p] # NoRequest /\ settledBy[p] # r
    <3> DEFINE o == settledBy[p]
    <3>1. o \in Request /\ o # r /\ hdr[o] = p
      BY <2>2, <2>1 DEF OwnerInv, TypeOK, MoneyTypeOK
    <3>2. SameRequest(o)
      BY <3>1, <2>1, StepIsLocal
    <3>3. settledBy'[p] = o
      BY <2>1, <2>2, SpendsItsOwn DEF Spend, TypeOK, MoneyTypeOK, RequestsTypeOK
    <3>4. ledger'[p] = ledger[p] /\ byTx'[p] = byTx[p]
      <4>1. CASE p = hdr[r]
        BY <4>1, <2>1, <2>2, RowsAreOwned
      <4>2. CASE p # hdr[r]
        BY <4>2, <2>1, OtherRowsKept
      <4> QED BY <4>1, <4>2
    <3>5. RowsPlaced(p, o)
      BY <2>2 DEF BooksInv
    <3>6. RowsPlaced(p, o)'
      BY <3>2, <3>3, <3>4, <3>5 DEF RowsPlaced, SameRequest
    <3> QED BY <2>2, <3>3, <3>6
  <2>3. CASE settledBy[p] = r
    <3>1. hdr[r] = p /\ r # NoRequest
      BY <2>3, RequestAssumption DEF OwnerInv
    <3>2. RowsPlaced(hdr[r], r)
      BY <2>3, <3>1 DEF BooksInv
    <3>3. RowsPlaced(hdr[r], r)'
      BY <2>1, <2>3, <3>1, <3>2, OwnRowsStep
    <3>4. settledBy'[p] = r
      BY <2>1, <2>3, <3>1, SpendsItsOwn DEF Spend
    <3> QED BY <1>2, <3>1, <3>3, <3>4
  <2>4. CASE settledBy[p] = NoRequest
    <3>1. ledger[p] = NoRow /\ byTx[p] = NoRow
      BY <2>4 DEF BooksInv
    <3>2. ledger'[p] = NoRow /\ byTx'[p] = NoRow
      BY <2>1, <2>4, <3>1, RowsAreOwned, OtherRowsKept, RequestAssumption
    <3>3. CASE settledBy'[p] = NoRequest
      BY <3>2, <3>3
    <3>4. CASE settledBy'[p] # NoRequest
      <4>1. pc[r] = "settle" /\ settledBy'[p] = r /\ p = hdr[r]
        BY <2>1, <2>4, <3>4, SpendsItsOwn DEF Spend, TypeOK, MoneyTypeOK,
           RequestsTypeOK
      <4>2. pc'[r] \in {"insertLedger", "release", "done", "crashed"}
        BY <4>1, <2>1, <3>4, <2>4 DEF LocalStep, Step, Arrive, IsTripped, ClaimPayment,
           Gate, Verify, Settle, ReleaseClaim, GateFails, Record, InsertLedger,
           InsertByTx, WriteProduct, Mark, MarkRead, MarkLedger, MarkByTx,
           ReadRow, Breaker, CountFailure, SetLatch, Refund, ReserveBudget,
           UnreserveBudget, SendRefund, ConfirmRefund, RefundRead,
           RefundLedger, RefundByTx, Crash, ChainDecides, TypeOK, RequestsTypeOK
      <4>3. RowsPlaced(p, r)'
        BY <3>2, <4>2 DEF RowsPlaced, NoRow
      <4> QED BY <3>4, <4>1, <4>3
    <3> QED BY <3>3, <3>4
  <2> QED BY <2>2, <2>3, <2>4
<1> QED BY <1>1, <1>3, <1>4

\* Expiry of a key or of the counter and the breaker's reset touch nothing
\* the invariant speaks of.
LEMMA GlobalStepPlaced ==
  ASSUME IInv,
         \/ UNCHANGED vars
         \/ CounterExpires \/ ResetBreaker
         \/ \E p \in Payment : ClaimExpires(p)
  PROVE  OwnerInv' /\ RequestInv' /\ BooksInv'
<1>1. UNCHANGED <<reqVars, settledBy, product, ledgerVars, refundTx>>
  BY DEF vars, CounterExpires, ResetBreaker, ClaimExpires
<1>2. OwnerInv' /\ RequestInv'
  BY <1>1 DEF IInv, OwnerInv, RequestInv, RequestPlaced, OwnsPayment,
     ProductPlaced, RefundPlaced, Answered
<1>3. BooksInv'
  BY <1>1 DEF IInv, BooksInv, RowsPlaced
<1> QED BY <1>2, <1>3

\* What a request has done can be read off where it stands, and what the
\* books say of a payment off what its settler has done.
THEOREM InvariantHolds == Spec => []IInv
<1>1. Init => IInv
  BY InitTyped, InitPlaced DEF IInv
<1>2. IInv /\ [Next]_vars => IInv'
  BY TypeStep, LocalStepPlaced, GlobalStepPlaced DEF IInv, Next, LocalStep
<1> QED BY <1>1, <1>2, PTL DEF Spec

-----------------------------------------------------------------------------
(* What follows from it for every number of requests and payments.         *)

\* Product and refund come from the one request that settled the payment,
\* however often the header is resubmitted and whatever Redis answers.
THEOREM OnePaymentOneOutcome == Spec => []OnePayment
<1>1. IInv => OnePayment
  BY DEF IInv, RequestInv, RequestPlaced, OwnsPayment, OnePayment
<1> QED BY InvariantHolds, <1>1, PTL

\* A settlement marked fulfilled in either table has its product stored.
THEOREM StoredBeforeMarked == Spec => []StoreBeforeMark
<1>1. IInv => StoreBeforeMark
  <2> SUFFICES ASSUME IInv, NEW p \in Payment,
                      "fulfilled" \in {ledger[p].state, byTx[p].state}
               PROVE  /\ settledBy[p] \in Request
                      /\ product[settledBy[p]] = "stored"
    BY DEF StoreBeforeMark
  <2>1. settledBy[p] # NoRequest
    BY DEF IInv, BooksInv, NoRow
  <2>2. settledBy[p] \in Request
    BY <2>1 DEF IInv, TypeOK, MoneyTypeOK
  <2>3. RowsPlaced(p, settledBy[p])
    BY <2>1 DEF IInv, BooksInv
  <2> QED BY <2>2, <2>3 DEF RowsPlaced
<1> QED BY InvariantHolds, <1>1, PTL

\* No settlement is both fulfilled and refunded, in the books or on the chain.
THEOREM NeverFulfilledAndRefunded == Spec => []FulfilledXorRefunded
<1>1. IInv /\ StoreBeforeMark => FulfilledXorRefunded
  <2> SUFFICES ASSUME IInv, StoreBeforeMark, NEW p \in Payment,
                      "fulfilled" \in {ledger[p].state, byTx[p].state}
               PROVE  /\ ledger[p].refund = "none" /\ byTx[p].refund = "none"
                      /\ refundTx[settledBy[p]] = "none"
    BY DEF FulfilledXorRefunded
  <2> DEFINE o == settledBy[p]
  <2>1. o \in Request /\ product[o] = "stored"
    BY DEF StoreBeforeMark
  <2>2. refundTx[o] = "none" /\ status[o] = "none"
    BY <2>1 DEF IInv, RequestInv, RequestPlaced, ProductPlaced
  <2>3. RowsPlaced(p, o)
    BY <2>1, RequestAssumption DEF IInv, BooksInv
  <2> QED BY <2>2, <2>3 DEF RowsPlaced
<1> QED BY InvariantHolds, StoredBeforeMarked, <1>1, PTL

\* The lookup row is never ahead of the accounting row.
THEOREM LookupNeverAhead == Spec => []LookupFollowsLedger
<1>1. IInv => LookupFollowsLedger
  BY DEF IInv, BooksInv, RowsPlaced, LookupFollowsLedger, NoRow
<1> QED BY InvariantHolds, <1>1, PTL

\* What the ledger says of a refund is what happened on the chain.
THEOREM LedgerTellsTheChain == Spec => []LedgerRefundHonest
<1>1. IInv => LedgerRefundHonest
  <2> SUFFICES ASSUME IInv, NEW p \in Payment, ledger[p].refund # "none"
               PROVE  LET transfer == refundTx[settledBy[p]] IN
                      /\ ledger[p].refund = "sent" => transfer = "confirmed"
                      /\ ledger[p].refund = "sent_unconfirmed" =>
                             transfer # "none"
                      /\ ledger[p].refund = "skipped" => transfer = "none"
    BY DEF LedgerRefundHonest
  <2> DEFINE o == settledBy[p]
  <2>1. o # NoRequest
    BY DEF IInv, BooksInv, NoRow
  <2>2. ledger[p].refund = status[o]
    BY <2>1 DEF IInv, BooksInv, RowsPlaced
  <2>3. RefundPlaced(o)
    BY <2>1 DEF IInv, TypeOK, MoneyTypeOK, RequestInv, RequestPlaced
  <2> QED BY <2>2, <2>3 DEF RefundPlaced
<1> QED BY InvariantHolds, <1>1, PTL

\* The answer tells the payer what happened to the money.
THEOREM AnswersAreHonest == Spec => []AnswerHonest
<1>1. IInv => AnswerHonest
  BY DEF IInv, RequestInv, RequestPlaced, Answered, ProductPlaced, AnswerHonest
<1> QED BY InvariantHolds, <1>1, PTL

-----------------------------------------------------------------------------
(* The replay claim.                                                       *)

\* Nobody holds a claim before claim_payment.
ClaimInv ==
    /\ ClaimExclusive
    /\ \A r \in holders : pc[r] \notin {"idle", "breaker", "claim"}

LEMMA ClaimLocalStep ==
  ASSUME TypeOK, ClaimInv, NEW r \in Request, LocalStep(r)
  PROVE  ClaimInv'
<1> USE DEF TypeOK, RequestsTypeOK, MoneyTypeOK, ClaimInv, ClaimExclusive
<1>1. CASE ClaimPayment(r)
  BY <1>1 DEF ClaimPayment, ClaimFree
<1>2. CASE ReleaseClaim(r)
  BY <1>2 DEF ReleaseClaim
<1>3. ASSUME ~ClaimPayment(r), ~ReleaseClaim(r)
      PROVE  /\ UNCHANGED <<claims, holders, hdr>>
             /\ pc'[r] \in GatePC => pc[r] \in GatePC
             /\ pc'[r] \in {"idle", "breaker", "claim"} =>
                    pc[r] \in {"idle", "breaker", "claim"}
  <2>1. CASE Arrive(r) \/ IsTripped(r) \/ Crash(r) \/ ChainDecides(r)
    BY <2>1 DEF Arrive, IsTripped, Crash, ChainDecides
  <2>2. CASE Verify(r) \/ Settle(r) \/ Record(r) \/ WriteProduct(r)
    BY <2>2 DEF Verify, Settle, GateFails, Record, InsertLedger, InsertByTx,
       WriteProduct, WriteSucceeds, WriteRejected, WriteRaises
  <2>3. CASE Mark(r) \/ Breaker(r)
    BY <2>3 DEF Mark, MarkRead, MarkLedger, MarkByTx, ReadRow, Breaker,
       CountFailure, SetLatch
  <2>4. CASE Refund(r)
    BY <2>4 DEF Refund, ReserveBudget, UnreserveBudget, SendRefund, Outcome,
       ConfirmRefund, RefundRead, RefundLedger, RefundByTx, ReadRow
  <2> QED BY <1>3, <2>1, <2>2, <2>3, <2>4 DEF LocalStep, Step, Gate
<1>4. \A s \in Request \ {r} : pc'[s] = pc[s]
  BY StepIsLocal DEF SameRequest
<1>5. CASE ~ClaimPayment(r) /\ ~ReleaseClaim(r)
  BY <1>3, <1>4, <1>5
<1> QED BY <1>1, <1>2, <1>5

\* A claimant in the gate is alone with its key, whatever the others resubmit.
THEOREM ClaimsAreExclusive == Spec => []ClaimExclusive
<1>1. Init => ClaimInv
  BY DEF Init, ClaimInv, ClaimExclusive
<1>2. TypeOK /\ ClaimInv /\ [Next]_vars => ClaimInv'
  <2> SUFFICES ASSUME TypeOK, ClaimInv, [Next]_vars PROVE ClaimInv'
    OBVIOUS
  <2>1. ASSUME NEW p \in Payment, ClaimExpires(p) PROVE ClaimInv'
    BY <2>1 DEF ClaimExpires, ClaimInv, ClaimExclusive, TypeOK, RequestsTypeOK
  <2>2. CASE CounterExpires \/ ResetBreaker \/ UNCHANGED vars
    BY <2>2 DEF CounterExpires, ResetBreaker, vars, ClaimInv, ClaimExclusive
  <2> QED BY <2>1, <2>2, ClaimLocalStep DEF Next, LocalStep
<1>3. ClaimInv => ClaimExclusive
  BY DEF ClaimInv
<1> QED BY TypeCorrect, <1>1, <1>2, <1>3, PTL DEF Spec

-----------------------------------------------------------------------------
(* The refund budget.                                                      *)

LEMMA SendersFinite ==
  /\ Senders \subseteq Spenders
  /\ IsFiniteSet(Senders) /\ IsFiniteSet(Spenders)
  /\ Cardinality(Senders) \in Nat /\ Cardinality(Spenders) \in Nat
<1>1. IsFiniteSet(Senders) /\ IsFiniteSet(Spenders)
  BY RequestAssumption, FS_Subset DEF Senders, Spenders
<1> QED BY <1>1, FS_CardinalityType DEF Spenders

\* A step that adds no sender and no reservation keeps the budget.
LEMMA BudgetShrinks ==
  ASSUME TypeOK, BudgetInv, used' \in Int, used' >= used,
         Senders' \subseteq Senders, Spenders' \subseteq Spenders
  PROVE  BudgetInv'
<1>1. /\ Cardinality(Senders') \in Nat
      /\ Cardinality(Senders') <= Cardinality(Senders)
      /\ Cardinality(Spenders') \in Nat
      /\ Cardinality(Spenders') <= Cardinality(Spenders)
  BY SendersFinite, FS_Subset, FS_CardinalityType
<1> QED BY <1>1, SendersFinite, LimitAssumption
        DEF BudgetInv, TypeOK, RefundsTypeOK

LEMMA ReserveKeepsBudget ==
  ASSUME IInv, BudgetInv, NEW r \in Request, ReserveBudget(r)
  PROVE  BudgetInv'
<1> USE DEF IInv, TypeOK, RequestsTypeOK, RefundsTypeOK
<1>1. pc[r] = "reserve" /\ refundTx[r] = "none" /\ refundTx' = refundTx
  BY DEF ReserveBudget, RequestInv, RequestPlaced, RefundPlaced,
     AfterRefundPC, OverPC
<1>2. r \notin Spenders /\ r \notin Senders
  BY <1>1 DEF Senders, Spenders
<1>3. used' \in Int /\ used' >= used
  BY DEF ReserveBudget
<1>4. CASE pc' = [pc EXCEPT ![r] = "refundRead"]
  <2>1. Senders' \subseteq Senders /\ Spenders' \subseteq Spenders
    BY <1>1, <1>4 DEF Senders, Spenders
  <2> QED BY <1>3, <2>1, BudgetShrinks
<1>5. CASE /\ used' = used + 1 /\ ~OverBudget(used + 1)
           /\ pc' = [pc EXCEPT ![r] = "send"]
  <2>1. Senders' = Senders \cup {r} /\ Spenders' = Spenders \cup {r}
    BY <1>1, <1>5 DEF Senders, Spenders
  <2>2. /\ Cardinality(Senders') = Cardinality(Senders) + 1
        /\ Cardinality(Spenders') = Cardinality(Spenders) + 1
    BY <1>2, <2>1, SendersFinite, FS_AddElement
  <2>3. Cardinality(Senders) <= Cardinality(Spenders)
    BY SendersFinite, FS_Subset
  <2> QED BY <1>5, <2>2, <2>3, SendersFinite, LimitAssumption
          DEF BudgetInv, OverBudget
<1>6. CASE /\ used' = used + 1
           /\ pc' = [pc EXCEPT ![r] = "unreserve"]
  <2>1. Senders' = Senders /\ Spenders' = Spenders \cup {r}
    BY <1>1, <1>6 DEF Senders, Spenders
  <2>2. Cardinality(Spenders') = Cardinality(Spenders) + 1
    BY <1>2, <2>1, SendersFinite, FS_AddElement
  <2> QED BY <1>6, <2>1, <2>2, SendersFinite DEF BudgetInv
<1> QED BY <1>4, <1>5, <1>6 DEF ReserveBudget, Outcome

LEMMA UnreserveKeepsBudget ==
  ASSUME IInv, BudgetInv, NEW r \in Request, UnreserveBudget(r)
  PROVE  BudgetInv'
<1> USE DEF IInv, TypeOK, RequestsTypeOK, RefundsTypeOK
<1>1. /\ pc[r] = "unreserve" /\ refundTx[r] = "none" /\ refundTx' = refundTx
      /\ pc' = [pc EXCEPT ![r] = "refundRead"]
      /\ used' \in {used, used - 1}
  BY DEF UnreserveBudget, Outcome, RequestInv, RequestPlaced, RefundPlaced,
     AfterRefundPC, OverPC
<1>2. Senders' = Senders /\ Spenders' = Spenders \ {r} /\ r \in Spenders
  BY <1>1 DEF Senders, Spenders
<1>3. Cardinality(Spenders') = Cardinality(Spenders) - 1
  BY <1>2, SendersFinite, FS_RemoveElement
<1> QED BY <1>1, <1>2, <1>3, SendersFinite DEF BudgetInv

LEMMA BudgetStep ==
  ASSUME IInv, BudgetInv, Next PROVE BudgetInv'
<1> USE DEF IInv, TypeOK, RequestsTypeOK, RefundsTypeOK
<1>1. ASSUME NEW r \in Request, ReserveBudget(r) PROVE BudgetInv'
  BY <1>1, ReserveKeepsBudget
<1>2. ASSUME NEW r \in Request, UnreserveBudget(r) PROVE BudgetInv'
  BY <1>2, UnreserveKeepsBudget
<1>3. ASSUME NEW r \in Request, LocalStep(r),
             ~ReserveBudget(r), ~UnreserveBudget(r)
      PROVE  BudgetInv'
  <2>1. used' = used
    <3>1. CASE Arrive(r) \/ IsTripped(r) \/ ClaimPayment(r) \/ Crash(r)
               \/ ChainDecides(r) \/ Gate(r) \/ Record(r) \/ WriteProduct(r)
      BY <3>1 DEF Arrive, IsTripped, ClaimPayment, Crash, ChainDecides, Gate,
         Verify, Settle, ReleaseClaim, Record, InsertLedger, InsertByTx,
         WriteProduct
    <3>2. CASE Mark(r) \/ Breaker(r) \/ Refund(r)
      BY <1>3, <3>2 DEF Mark, MarkRead, MarkLedger, MarkByTx, ReadRow,
         Breaker, CountFailure, SetLatch, Refund, SendRefund, ConfirmRefund,
         RefundRead, RefundLedger, RefundByTx
    <3> QED BY <1>3, <3>1, <3>2 DEF LocalStep, Step
  <2>2. /\ pc'[r] \in {"send", "unreserve"} => pc'[r] = pc[r]
        /\ refundTx'[r] # "none" => refundTx[r] # "none" \/ pc[r] = "send"
    <3>1. CASE Arrive(r) \/ IsTripped(r) \/ ClaimPayment(r) \/ Crash(r)
               \/ Gate(r) \/ Record(r) \/ WriteProduct(r)
      BY <3>1 DEF Arrive, IsTripped, ClaimPayment, Crash, Gate, Verify, Settle,
         GateFails, ReleaseClaim, Record, InsertLedger, InsertByTx,
         WriteProduct, WriteSucceeds, WriteRejected, WriteRaises
    <3>2. CASE Mark(r) \/ Breaker(r)
      BY <3>2 DEF Mark, MarkRead, MarkLedger, MarkByTx, ReadRow, Breaker,
         CountFailure, SetLatch
    <3>3. CASE SendRefund(r) \/ ConfirmRefund(r)
      BY <3>3 DEF SendRefund, Broadcast, ConfirmRefund, Outcome
    <3>4. CASE RefundRead(r) \/ RefundLedger(r) \/ RefundByTx(r)
      BY <3>4 DEF RefundRead, ReadRow, RefundLedger, RefundByTx
    <3>5. CASE ChainDecides(r)
      <4>1. pc' = pc /\ refundTx[r] # "none"
        BY <3>5 DEF ChainDecides
      <4> QED BY <4>1
    <3> QED BY <1>3, <3>1, <3>2, <3>3, <3>4, <3>5 DEF LocalStep, Step, Refund
  <2>3. \A s \in Request \ {r} : pc'[s] = pc[s] /\ refundTx'[s] = refundTx[s]
    BY <1>3, StepIsLocal DEF SameRequest
  <2>4. Senders' \subseteq Senders /\ Spenders' \subseteq Spenders
    BY <2>2, <2>3 DEF Senders, Spenders
  <2> QED BY <2>1, <2>4, BudgetShrinks
<1>4. CASE CounterExpires \/ ResetBreaker \/ \E p \in Payment : ClaimExpires(p)
  BY <1>4 DEF CounterExpires, ResetBreaker, ClaimExpires, BudgetInv, Senders,
     Spenders
<1> QED BY <1>1, <1>2, <1>3, <1>4 DEF Next, LocalStep

\* Never more refunds on the chain than the day's budget pays for, and never
\* more than the counter shows, under any interleaving of reservations.
THEOREM BudgetIsNeverExceeded == Spec => []RefundsWithinBudget
<1>1. Init => BudgetInv
  <2> SUFFICES ASSUME Init PROVE BudgetInv
    OBVIOUS
  <2>1. Senders = {} /\ Spenders = {} /\ used = 0
    BY DEF Init, Senders, Spenders
  <2> QED BY <2>1, FS_EmptySet, LimitAssumption DEF BudgetInv
<1>2. IInv /\ BudgetInv /\ [Next]_vars => BudgetInv'
  <2>1. UNCHANGED vars => (BudgetInv => BudgetInv')
    BY DEF vars, BudgetInv, Senders, Spenders
  <2> QED BY <2>1, BudgetStep
<1>3. IInv /\ BudgetInv => RefundsWithinBudget
  <2> SUFFICES ASSUME IInv, BudgetInv PROVE RefundsWithinBudget
    OBVIOUS
  <2>1. Refunded \in SUBSET Senders /\ Refunded \in SUBSET Spenders
    BY DEF Refunded, Senders, Spenders
  <2>2. /\ Cardinality(Refunded) \in Nat
        /\ Cardinality(Refunded) <= Cardinality(Senders)
        /\ Cardinality(Refunded) <= Cardinality(Spenders)
    BY <2>1, SendersFinite, FS_Subset, FS_CardinalityType
  <2> QED BY <2>2, SendersFinite, LimitAssumption
          DEF BudgetInv, RefundsWithinBudget, IInv, TypeOK, RefundsTypeOK
<1> QED BY InvariantHolds, <1>1, <1>2, <1>3, PTL DEF Spec

-----------------------------------------------------------------------------
(***************************************************************************)
(* PaidRequest implements PaidCall.  A step of a request concerns the      *)
(* payment it settled and no other: it charges it, concludes it, or writes *)
(* its ledger entry, or it is a stuttering step of PaidCall.               *)
(***************************************************************************)

(* The mapped values of one payment.                                       *)

LEMMA MappedValues ==
  ASSUME NEW p \in Payment
  PROVE  /\ outcomeBar[p] = IF settledBy[p] = NoRequest THEN "unpaid"
                            ELSE OutcomeOf(settledBy[p])
         /\ booksBar[p] = EntryOf(ledger[p])
         /\ outcomeBar'[p] = IF settledBy'[p] = NoRequest THEN "unpaid"
                             ELSE OutcomeOf(settledBy[p])'
         /\ booksBar'[p] = EntryOf(ledger'[p])
BY DEF outcomeBar, booksBar

SamePayment(p) == outcomeBar'[p] = outcomeBar[p] /\ booksBar'[p] = booksBar[p]

LEMMA OtherPaymentsKept ==
  ASSUME IInv, NEW r \in Request, LocalStep(r),
         NEW p \in Payment, p # hdr[r] \/ settledBy'[p] # r
  PROVE  SamePayment(p)
<1> USE DEF IInv, TypeOK, RequestsTypeOK, MoneyTypeOK, BooksTypeOK
<1>1. settledBy'[p] = settledBy[p]
  BY SpendsItsOwn DEF Spend
<1>2. settledBy[p] # r
  BY <1>1, RequestAssumption DEF OwnerInv
<1>3. ledger'[p] = ledger[p]
  <2>1. CASE p # hdr[r]
    BY <2>1, OtherRowsKept
  <2>2. CASE p = hdr[r]
    BY <1>2, <2>2, RowsAreOwned DEF RequestInv
  <2> QED BY <2>1, <2>2
<1>4. CASE settledBy[p] = NoRequest
  BY <1>1, <1>3, <1>4, MappedValues DEF SamePayment
<1>5. CASE settledBy[p] # NoRequest
  <2>1. settledBy[p] \in Request
    BY <1>5
  <2>2. SameRequest(settledBy[p])
    BY <1>2, <2>1, StepIsLocal
  <2>3. OutcomeOf(settledBy[p])' = OutcomeOf(settledBy[p])
    BY <1>1, <2>2 DEF OutcomeOf, SameRequest
  <2> QED BY <1>1, <1>3, <1>5, <2>3, MappedValues DEF SamePayment
<1> QED BY <1>4, <1>5

-----------------------------------------------------------------------------
(* The step of the settler, seen at its payment.                           *)

PromisedStep(p) ==
    \/ SamePayment(p)
    \/ /\ outcomeBar[p] = "unpaid" /\ outcomeBar'[p] = "charged"
       /\ booksBar'[p] = booksBar[p]
    \/ /\ outcomeBar[p] = "charged" /\ booksBar[p] \in {"none", "open"}
       /\ outcomeBar'[p] \in {"delivered", "returned", "kept"}
       /\ booksBar'[p] = booksBar[p]
    \/ /\ outcomeBar[p] = "charged" /\ booksBar[p] = "none"
       /\ booksBar'[p] = "open" /\ outcomeBar'[p] = outcomeBar[p]
    \/ /\ booksBar[p] = "open" /\ outcomeBar'[p] = outcomeBar[p]
       /\ \/ outcomeBar[p] = "delivered" /\ booksBar'[p] = "fulfilled"
          \/ /\ outcomeBar[p] \in {"charged", "returned"}
             /\ booksBar'[p] = "refund"

\* The settlement itself.
LEMMA ChargeStep ==
  ASSUME IInv, NEW r \in Request, LocalStep(r), pc[r] = "settle",
         Spend(hdr[r], r)
  PROVE  PromisedStep(hdr[r])
<1> DEFINE p == hdr[r]
<1> USE DEF IInv, TypeOK, RequestsTypeOK, MoneyTypeOK, RefundsTypeOK
<1>1. settledBy[p] = NoRequest /\ settledBy'[p] = r /\ p \in Payment /\ r # NoRequest
  BY RequestAssumption DEF Spend
<1>2. UNCHANGED <<ledger, product, refundTx>> /\ resp'[r] # "rejected"
  <2>1. RequestPlaced(r) /\ resp[r] = "none"
    BY DEF RequestInv, RequestPlaced, Answered
  <2>2. Settle(r) \/ Crash(r) \/ ChainDecides(r)
    BY DEF LocalStep, Step, Arrive, IsTripped, ClaimPayment, Gate, Verify,
       ReleaseClaim, Record, InsertLedger, InsertByTx, WriteProduct, Mark,
       MarkRead, MarkLedger, MarkByTx, ReadRow, Breaker, CountFailure,
       SetLatch, Refund, ReserveBudget, UnreserveBudget, SendRefund,
       ConfirmRefund, RefundRead, RefundLedger, RefundByTx
  <2>3. ~Crash(r) /\ ~ChainDecides(r)
    BY <1>1 DEF Crash, ChainDecides
  <2> QED BY <2>1, <2>2, <2>3 DEF Settle, GateFails
<1>3. product[r] = "none" /\ refundTx[r] = "none"
  BY DEF RequestInv, RequestPlaced, ProductPlaced, RefundPlaced, AfterRefundPC, OverPC
<1>4. OutcomeOf(r)' = "charged"
  BY <1>2, <1>3 DEF OutcomeOf
<1> QED BY <1>1, <1>2, <1>4, MappedValues DEF PromisedStep

LEMMA SettlerStep ==
  ASSUME IInv, NEW r \in Request, LocalStep(r),
         settledBy[hdr[r]] = r, settledBy'[hdr[r]] = r
  PROVE  PromisedStep(hdr[r])
<1> DEFINE p == hdr[r]
<1> USE DEF IInv, TypeOK, RequestsTypeOK, MoneyTypeOK, RefundsTypeOK,
            BooksTypeOK, Row
<1>1. /\ p \in Payment /\ r # NoRequest
      /\ RequestPlaced(r) /\ RowsPlaced(p, r)
  BY RequestAssumption DEF RequestInv, BooksInv
<1>2. /\ outcomeBar[p] = OutcomeOf(r) /\ outcomeBar'[p] = OutcomeOf(r)'
      /\ booksBar[p] = EntryOf(ledger[p]) /\ booksBar'[p] = EntryOf(ledger'[p])
  BY <1>1, MappedValues
<1>3. CASE InsertLedger(r)
  <2>1. product[r] = "none" /\ refundTx[r] = "none" /\ resp[r] = "none"
    BY <1>1, <1>3 DEF InsertLedger, RequestPlaced, ProductPlaced,
       RefundPlaced, Answered, AfterRefundPC, OverPC
  <2>2. OutcomeOf(r) = "charged" /\ OutcomeOf(r)' = "charged"
    BY <1>3, <2>1 DEF OutcomeOf, InsertLedger
  <2>3. EntryOf(ledger[p]) = "none"
    BY <1>1, <1>3 DEF InsertLedger, RowsPlaced, EntryOf
  <2>4. ledger'[p] \in {ledger[p], NewRow}
    BY <1>1, <1>3 DEF InsertLedger
  <2>5. EntryOf(NewRow) = "open"
    BY DEF EntryOf, NewRow
  <2> QED BY <1>2, <2>2, <2>3, <2>4, <2>5 DEF PromisedStep, SamePayment
<1>4. CASE WriteProduct(r)
  <2>1. product[r] = "none" /\ refundTx[r] = "none" /\ resp[r] = "none"
        /\ status[r] = "none"
    BY <1>1, <1>4 DEF WriteProduct, RequestPlaced, ProductPlaced,
       RefundPlaced, Answered, AfterRefundPC, OverPC
  <2>2. OutcomeOf(r) = "charged"
    BY <2>1 DEF OutcomeOf
  <2>3. OutcomeOf(r)' \in {"charged", "delivered", "kept"}
    BY <1>4, <2>1 DEF OutcomeOf, WriteProduct, WriteSucceeds, WriteRejected,
       WriteRaises
  <2>4. ledger[p].state \in {"absent", "open"} /\ ledger[p].refund = "none"
    BY <1>1, <1>4, <2>1 DEF WriteProduct, RowsPlaced
  <2>5. EntryOf(ledger[p]) \in {"none", "open"} /\ ledger' = ledger
    BY <1>4, <2>4 DEF EntryOf, WriteProduct
  <2> QED BY <1>2, <2>2, <2>3, <2>5 DEF PromisedStep, SamePayment
<1>5. CASE SendRefund(r)
  <2>1. /\ product[r] # "stored" /\ refundTx[r] = "none"
        /\ resp[r] = "none" /\ status[r] = "none"
    BY <1>1, <1>5 DEF SendRefund, RequestPlaced, ProductPlaced,
       RefundPlaced, Answered, AfterRefundPC, OverPC
  <2>2. OutcomeOf(r) = "charged"
    BY <2>1 DEF OutcomeOf
  <2>3. OutcomeOf(r)' \in {"charged", "returned"}
    BY <1>5, <2>1 DEF OutcomeOf, SendRefund, Broadcast
  <2>4. ledger[p].state \in {"absent", "open"} /\ ledger[p].refund = "none"
    BY <1>1, <1>5, <2>1 DEF SendRefund, RowsPlaced
  <2>5. EntryOf(ledger[p]) \in {"none", "open"} /\ ledger' = ledger
    BY <1>5, <2>4 DEF EntryOf, SendRefund
  <2> QED BY <1>2, <2>2, <2>3, <2>5 DEF PromisedStep, SamePayment
<1>6. CASE MarkLedger(r)
  <2>1. product[r] = "stored" /\ status[r] = "none"
    BY <1>1, <1>6 DEF MarkLedger, RequestPlaced, ProductPlaced
  <2>2. OutcomeOf(r) = "delivered" /\ OutcomeOf(r)' = "delivered"
    <3>1. product' = product
      BY <1>6 DEF MarkLedger
    <3> QED BY <2>1, <3>1 DEF OutcomeOf
  <2>3. ledger[p].state # "absent" /\ ledger[p].refund = "none"
    BY <1>1, <1>6, <2>1 DEF MarkLedger, RowsPlaced
  <2>4. EntryOf(ledger[p]) \in {"open", "fulfilled"}
    BY <1>1, <2>3 DEF EntryOf
  <2>5. \/ ledger' = ledger
        \/ ledger'[p].state = "fulfilled"
    BY <1>1, <1>6 DEF MarkLedger
  <2>6. EntryOf(ledger'[p]) \in {EntryOf(ledger[p]), "fulfilled"}
    <3>1. CASE ledger'[p].state = "fulfilled"
      BY <3>1 DEF EntryOf
    <3> QED BY <2>5, <3>1
  <2> QED BY <1>2, <2>2, <2>4, <2>6 DEF PromisedStep, SamePayment
<1>7. CASE RefundLedger(r)
  <2>1. product[r] # "stored" /\ status[r] # "none" /\ resp[r] = "none"
    BY <1>1, <1>7 DEF RefundLedger, RequestPlaced, ProductPlaced,
       RefundPlaced, Answered, AfterRefundPC
  <2>2. OutcomeOf(r) \in {"charged", "returned"} /\ OutcomeOf(r)' = OutcomeOf(r)
    BY <1>7, <2>1 DEF OutcomeOf, RefundLedger, RefundResponse
  <2>3. ledger[p].state = "open" /\ ledger[p].refund = "none"
    BY <1>1, <1>7, <2>1 DEF RefundLedger, RowsPlaced, OverPC
  <2>4. EntryOf(ledger[p]) = "open"
    BY <2>3 DEF EntryOf
  <2>5. \/ ledger' = ledger
        \/ ledger'[p].state = "open" /\ ledger'[p].refund = status[r]
    BY <1>1, <1>7, <2>3 DEF RefundLedger
  <2>6. EntryOf(ledger'[p]) \in {EntryOf(ledger[p]), "refund"}
    BY <2>1, <2>5 DEF EntryOf
  <2> QED BY <1>2, <2>2, <2>4, <2>6 DEF PromisedStep, SamePayment
<1>8. ASSUME ~InsertLedger(r), ~WriteProduct(r), ~SendRefund(r),
             ~MarkLedger(r), ~RefundLedger(r)
      PROVE  SamePayment(p)
  <2>1. /\ ledger' = ledger /\ product' = product
        /\ refundTx'[r] = "none" <=> refundTx[r] = "none"
        /\ resp'[r] = "rejected" <=> resp[r] = "rejected"
    <3> USE DEF RequestPlaced, Answered
    <3>1. CASE Arrive(r) \/ IsTripped(r) \/ ClaimPayment(r) \/ Gate(r)
      BY <1>1, <3>1 DEF Arrive, IsTripped, ClaimPayment, Gate, Verify, Settle,
         ReleaseClaim, GateFails
    <3>2. CASE Crash(r) \/ ChainDecides(r)
      BY <3>2 DEF Crash, ChainDecides
    <3>3. CASE InsertByTx(r) \/ MarkRead(r) \/ MarkByTx(r) \/ Breaker(r)
      BY <1>1, <3>3 DEF InsertByTx, MarkRead, ReadRow, MarkByTx, Breaker,
         CountFailure, SetLatch
    <3>4. CASE ReserveBudget(r) \/ UnreserveBudget(r) \/ ConfirmRefund(r)
      BY <3>4 DEF ReserveBudget, UnreserveBudget, ConfirmRefund
    <3>5. CASE RefundRead(r) \/ RefundByTx(r)
      BY <1>1, <3>5 DEF RefundRead, ReadRow, RefundByTx, RefundResponse
    <3> QED BY <1>8, <3>1, <3>2, <3>3, <3>4, <3>5
            DEF LocalStep, Step, Record, Mark, Refund
  <2>2. OutcomeOf(r)' = OutcomeOf(r)
    BY <2>1 DEF OutcomeOf
  <2> QED BY <1>2, <2>1, <2>2 DEF SamePayment
<1> QED BY <1>3, <1>4, <1>5, <1>6, <1>7, <1>8 DEF PromisedStep

-----------------------------------------------------------------------------
(* Whole steps.                                                            *)

\* A mapped step at one payment, nothing elsewhere, is a step of PaidCall.
LEMMA AssembleStep ==
  ASSUME NEW p \in Payment, PromisedStep(p),
         \A q \in Payment \ {p} : SamePayment(q)
  PROVE  [Promise!Next]_(Promise!vars)
<1>1. /\ outcomeBar' = [outcomeBar EXCEPT ![p] = outcomeBar'[p]]
      /\ booksBar' = [booksBar EXCEPT ![p] = booksBar'[p]]
  BY DEF SamePayment, outcomeBar, booksBar
<1>2. /\ outcomeBar'[p] = outcomeBar[p] => outcomeBar' = outcomeBar
      /\ booksBar'[p] = booksBar[p] => booksBar' = booksBar
  BY DEF SamePayment, outcomeBar, booksBar
<1> QED
  BY <1>1, <1>2 DEF PromisedStep, SamePayment, Promise!Next, Promise!vars,
     Promise!Charge, Promise!Conclude, Promise!OpenBooks, Promise!CloseBooks

LEMMA LocalStepPromised ==
  ASSUME IInv, NEW r \in Request, LocalStep(r)
  PROVE  [Promise!Next]_(Promise!vars)
<1>1. hdr[r] \in Payment
  BY DEF IInv, TypeOK, RequestsTypeOK
<1>2. \A q \in Payment \ {hdr[r]} : SamePayment(q)
  BY OtherPaymentsKept
<1>3. PromisedStep(hdr[r])
  <2>1. CASE settledBy'[hdr[r]] # r
    BY <1>1, <2>1, OtherPaymentsKept DEF PromisedStep
  <2>2. CASE settledBy'[hdr[r]] = r /\ UNCHANGED settledBy
    BY <2>2, SettlerStep
  <2>3. CASE pc[r] = "settle" /\ Spend(hdr[r], r)
    BY <2>3, ChargeStep
  <2> QED BY <2>1, <2>2, <2>3, SpendsItsOwn DEF IInv
<1> QED BY <1>1, <1>2, <1>3, AssembleStep

LEMMA GlobalStepPromised ==
  ASSUME \/ UNCHANGED vars
         \/ CounterExpires \/ ResetBreaker
         \/ \E p \in Payment : ClaimExpires(p)
  PROVE  UNCHANGED Promise!vars
<1>1. UNCHANGED <<settledBy, product, ledger, refundTx, resp>>
  BY DEF vars, CounterExpires, ResetBreaker, ClaimExpires
<1> QED BY <1>1 DEF Promise!vars, outcomeBar, booksBar, OutcomeOf, EntryOf

LEMMA InitPromised == Init => Promise!Init
<1> SUFFICES ASSUME Init PROVE Promise!Init
  OBVIOUS
<1>1. \A p \in Payment : settledBy[p] = NoRequest /\ EntryOf(ledger[p]) = "none"
  BY DEF Init, EntryOf, NoRow
<1> QED BY <1>1 DEF Promise!Init, outcomeBar, booksBar

\* Every behaviour of the paid-request path, crashes, retries and lost
\* answers included, is one PaidCall allows.
THEOREM ImplementsPaidCall == Spec => RefinesPaidCall
<1>1. IInv /\ [Next]_vars => [Promise!Next]_(Promise!vars)
  BY LocalStepPromised, GlobalStepPromised DEF Next, LocalStep
<1> QED BY InitPromised, InvariantHolds, <1>1, PTL
        DEF Spec, RefinesPaidCall, Promise!Spec
=============================================================================
