------------------------ MODULE PaidRequestInvariant ------------------------
(***************************************************************************)
(* The inductive invariant behind the safety properties of PaidRequest:    *)
(* where a request stands tells what it has done, and what the books say   *)
(* of a payment is what the request that settled it has done.              *)
(***************************************************************************)
EXTENDS PaidRequestRefinement

AfterRefundPC == {"refundRead", "refundLedger", "refundByTx"}
OverPC        == {"done", "crashed"}

\* Only the request that settled a payment goes past the gate or leaves a
\* trace outside it.
OwnsPayment(r) ==
    \/ pc[r] \in PaidPC
    \/ product[r] # "none" \/ refundTx[r] # "none" \/ status[r] # "none"
    => settledBy[hdr[r]] = r

ProductPlaced(r) ==
    /\ product[r] = "stored" => /\ pc[r] \in MarkPC \cup OverPC
                                /\ refundTx[r] = "none" /\ status[r] = "none"
    /\ pc[r] \in MarkPC => product[r] = "stored"
    /\ pc[r] \in {"idle", "breaker", "claim", "write"} \cup GatePC \cup RecordPC =>
           product[r] = "none"

RefundPlaced(r) ==
    /\ refundTx[r] # "none" => pc[r] \in {"confirm"} \cup AfterRefundPC \cup OverPC
    /\ status[r] # "none" => pc[r] \in AfterRefundPC \cup OverPC
    /\ pc[r] = "confirm" => refundTx[r] # "none"
    /\ pc[r] \in AfterRefundPC => status[r] # "none"
    /\ status[r] = "sent" => refundTx[r] = "confirmed"
    /\ status[r] = "sent_unconfirmed" => refundTx[r] # "none"
    /\ status[r] = "skipped" => refundTx[r] = "none"

Answered(r) ==
    /\ resp[r] # "none" => pc[r] = "done"
    /\ resp[r] = "ok" => product[r] = "stored"
    /\ resp[r] = "product_failed_refunded" => refundTx[r] # "none"
    /\ resp[r] \in {"temporarily_disabled", "payment_replayed", "rejected",
                    "payment_required", "internal_error"} =>
           product[r] = "none" /\ refundTx[r] = "none" /\ status[r] = "none"

RequestPlaced(r) ==
    OwnsPayment(r) /\ ProductPlaced(r) /\ RefundPlaced(r) /\ Answered(r)

RequestInv == \A r \in Request : RequestPlaced(r)

OwnerInv ==
    \A p \in Payment : settledBy[p] # NoRequest => hdr[settledBy[p]] = p

\* What the two rows of payment p say, given the request o that settled it.
RowsPlaced(p, o) ==
    /\ ledger[p].state = "absent" => byTx[p].state = "absent"
    /\ pc[o] \in {"idle", "breaker", "claim", "insertLedger"} \cup GatePC =>
           ledger[p].state = "absent"
    /\ pc[o] = "insertByTx" => ledger[p].state = "open" /\ byTx[p].state = "absent"
    /\ pc[o] \in {"markLedger", "markByTx", "refundLedger", "refundByTx"} =>
           byTx[p].state # "absent"
    /\ pc[o] = "markByTx" => ledger[p].state = "fulfilled"
    /\ pc[o] = "refundByTx" => ledger[p].refund = status[o]
    /\ ledger[p].state = "absent" => ledger[p].refund = "none"
    /\ ledger[p].state = "fulfilled" => product[o] = "stored"
    /\ ledger[p].refund # "none" => /\ ledger[p].refund = status[o]
                                    /\ pc[o] \in {"refundByTx"} \cup OverPC
    /\ byTx[p].state = "fulfilled" => ledger[p].state = "fulfilled"
    /\ byTx[p].refund # "none" => byTx[p].refund = ledger[p].refund

BooksInv ==
    \A p \in Payment :
        IF settledBy[p] = NoRequest THEN ledger[p] = NoRow /\ byTx[p] = NoRow
                                    ELSE RowsPlaced(p, settledBy[p])

IInv == TypeOK /\ OwnerInv /\ RequestInv /\ BooksInv

\* The budget counter covers every refund that is sent or about to be, except
\* a reservation that is about to be undone, which it covers as well.
Senders  == {r \in Request : pc[r] = "send" \/ refundTx[r] # "none"}
Spenders == Senders \cup {r \in Request : pc[r] = "unreserve"}

BudgetInv ==
    /\ Cardinality(Senders) <= DailyBudget
    /\ Cardinality(Spenders) <= used
=============================================================================
