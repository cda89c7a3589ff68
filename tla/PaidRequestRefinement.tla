----------------------- MODULE PaidRequestRefinement -----------------------
(* PaidRequest implements PaidCall: the refinement mapping.                *)
EXTENDS PaidRequest

OutcomeOf(r) ==
    IF product[r] = "stored" THEN "delivered"
    ELSE IF refundTx[r] # "none" THEN "returned"
    ELSE IF resp[r] = "rejected" THEN "kept"
    ELSE "charged"

outcomeBar == [p \in Payment |->
    IF settledBy[p] = NoRequest THEN "unpaid" ELSE OutcomeOf(settledBy[p])]

EntryOf(row) ==
    IF row.state # "open" THEN IF row.state = "absent" THEN "none" ELSE "fulfilled"
    ELSE IF row.refund # "none" THEN "refund"
    ELSE "open"

booksBar == [p \in Payment |-> EntryOf(ledger[p])]

Promise == INSTANCE PaidCall WITH outcome <- outcomeBar, books <- booksBar

\* Every behaviour of the paid-request path, with its crashes and lost
\* answers, is one the payer and the bookkeeper were promised: one charge, one
\* outcome, and ledger entries that match it (paid_request.py's contract).
RefinesPaidCall == Promise!Spec
=============================================================================
