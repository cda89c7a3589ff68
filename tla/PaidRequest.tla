---------------------------- MODULE PaidRequest ----------------------------
(***************************************************************************)
(* The paid-request path of the x402 marketplace: what a route such as     *)
(* x402_scan_url or the storage routes does with one request that carries  *)
(* a payment header.  One resource, one UTC day, many concurrent requests, *)
(* several of which may carry the same header.                             *)
(*                                                                         *)
(*   breaker check -> claim header -> verify -> settle -> ledger (2 rows)  *)
(*     -> product write -> mark fulfilled (2 rows)                         *)
(*                      -> count failure, latch, reserve budget, send,     *)
(*                         confirm, record the refund (2 rows)             *)
(*                                                                         *)
(* Every arrow is a separate call to Redis, the facilitator, the chain or  *)
(* Cassandra, so it is a separate action: requests interleave between any  *)
(* two of them, any of them may fail, and the process may die after any.   *)
(***************************************************************************)
EXTENDS Integers, FiniteSets

CONSTANTS
    Request,      \* HTTP requests; each is served once
    Payment,      \* payment headers, each one signed transfer on the chain
    NoRequest,    \* "no request has spent this payment"
    MaxFailures,  \* settings.x402_refund_breaker_max_failures
    DailyBudget   \* settings.x402_refund_daily_budget_usd_atomic, in refunds

ASSUME RequestAssumption == NoRequest \notin Request /\ IsFiniteSet(Request)
ASSUME LimitAssumption == MaxFailures \in Nat \ {0} /\ DailyBudget \in Nat

VARIABLES
    pc,         \* pc[r]: the next call request r makes
    hdr,        \* hdr[r]: the payment its header carries
    holders,    \* the requests whose claim_key is not None
    resp,       \* resp[r]: the response it was answered with
    status,     \* status[r]: RefundResult.status of its refund attempt
    claims,     \* the payments whose Redis replay key exists
    settledBy,  \* settledBy[p]: whose settle call moved the money of p
    product,    \* product[r]: what the product write of r left behind
    ledger,     \* ledger[p]: the x402_settlements row of p
    byTx,       \* byTx[p]: the x402_settlements_by_tx row of p
    failures,   \* the breaker's rolling counter
    latched,    \* the breaker's latch
    used,       \* the refund budget counter of the day
    refundTx    \* refundTx[r]: the refund transfer r sent, on the chain

reqVars    == <<pc, hdr, holders, resp, status>>
moneyVars  == <<claims, settledBy, product>>
ledgerVars == <<ledger, byTx>>
refundVars == <<failures, latched, used, refundTx>>
vars == <<pc, hdr, holders, resp, status, claims, settledBy, product, ledger,
          byTx, failures, latched, used, refundTx>>

-----------------------------------------------------------------------------
(* The values the variables take.                                          *)

\* Steps between claiming the header and knowing whether it settled.
GatePC == {"verify", "settle", "release"}
\* Steps after a successful settlement.
RecordPC == {"insertLedger", "insertByTx"}
MarkPC   == {"markRead", "markLedger", "markByTx"}
RefundPC == {"count", "latch", "reserve", "unreserve", "send", "confirm",
             "refundRead", "refundLedger", "refundByTx"}
PaidPC   == RecordPC \cup {"write"} \cup MarkPC \cup RefundPC
LivePC   == {"breaker", "claim"} \cup GatePC \cup PaidPC
PC       == LivePC \cup {"idle", "done", "crashed"}

RefundStatus == {"sent", "sent_unconfirmed", "failed", "skipped"}

Response == {"none", "temporarily_disabled", "payment_replayed",
             "payment_required", "internal_error", "rejected", "ok",
             "product_failed_refunded", "product_failed_refund_pending"}

\* A settlement row: none, unfulfilled or fulfilled; refund is "none" while
\* the refund columns are null.
Row    == [state : {"absent", "open", "fulfilled"},
           refund : RefundStatus \cup {"none"}]
NoRow  == [state |-> "absent", refund |-> "none"]
NewRow == [state |-> "open", refund |-> "none"]

RequestsTypeOK ==
    /\ pc \in [Request -> PC]
    /\ hdr \in [Request -> Payment]
    /\ holders \in SUBSET Request
    /\ resp \in [Request -> Response]
    /\ status \in [Request -> RefundStatus \cup {"none"}]

MoneyTypeOK ==
    /\ claims \in SUBSET Payment
    /\ settledBy \in [Payment -> Request \cup {NoRequest}]
    /\ product \in [Request -> {"none", "stored", "partial"}]

BooksTypeOK ==
    /\ ledger \in [Payment -> Row]
    /\ byTx \in [Payment -> Row]

RefundsTypeOK ==
    /\ failures \in Nat
    /\ latched \in BOOLEAN
    /\ used \in Int
    /\ refundTx \in [Request -> {"none", "pool", "confirmed", "dropped"}]

TypeOK == RequestsTypeOK /\ MoneyTypeOK /\ BooksTypeOK /\ RefundsTypeOK

\* Every header is still unspent; which request carries which is arbitrary.
Init ==
    /\ pc = [r \in Request |-> "idle"]
    /\ hdr \in [Request -> Payment]
    /\ holders = {}
    /\ resp = [r \in Request |-> "none"]
    /\ status = [r \in Request |-> "none"]
    /\ claims = {}
    /\ settledBy = [p \in Payment |-> NoRequest]
    /\ product = [r \in Request |-> "none"]
    /\ ledger = [p \in Payment |-> NoRow]
    /\ byTx = [p \in Payment |-> NoRow]
    /\ failures = 0
    /\ latched = FALSE
    /\ used = 0
    /\ refundTx = [r \in Request |-> "none"]

-----------------------------------------------------------------------------
(* Control flow of one request.                                            *)

Goto(r, next) == pc' = [pc EXCEPT ![r] = next]

Answer(r, response) ==
    /\ Goto(r, "done")
    /\ resp' = [resp EXCEPT ![r] = response]

Arrive(r) ==
    /\ pc[r] = "idle"
    /\ Goto(r, "breaker")
    /\ UNCHANGED <<hdr, holders, resp, status, moneyVars, ledgerVars, refundVars>>

-----------------------------------------------------------------------------
(* circuit_breaker.is_tripped: the latch, then the counter; a counter over *)
(* the threshold without a latch is latched now, best effort.  Fails       *)
(* closed.                                                                 *)

CounterTripped == failures >= MaxFailures

IsTripped(r) ==
    /\ pc[r] = "breaker"
    /\ \/ /\ ~latched /\ ~CounterTripped
          /\ Goto(r, "claim")
          /\ UNCHANGED <<resp, latched>>
       \/ /\ ~latched /\ CounterTripped
          /\ Answer(r, "temporarily_disabled")
          /\ latched' \in BOOLEAN
       \/ /\ Answer(r, "temporarily_disabled")   \* latched, or Redis is down
          /\ UNCHANGED latched
    /\ UNCHANGED <<hdr, holders, status, moneyVars, ledgerVars, failures, used,
                   refundTx>>

-----------------------------------------------------------------------------
(* replay.claim_payment: SET NX; fails open with no claim to release.      *)

ClaimFree(p) == p \notin claims

ClaimPayment(r) ==
    /\ pc[r] = "claim"
    /\ LET p == hdr[r] IN
       \/ /\ ClaimFree(p)
          /\ claims' = claims \cup {p}
          /\ holders' = holders \cup {r}
          /\ Goto(r, "verify")
          /\ UNCHANGED resp
       \/ /\ ~ClaimFree(p)
          /\ Answer(r, "payment_replayed")
          /\ UNCHANGED <<claims, holders>>
       \/ /\ claims' \in {claims, claims \cup {p}}
          /\ Goto(r, "verify")                   \* Redis failed, or its answer
          /\ UNCHANGED <<holders, resp>>           \* was lost
    /\ UNCHANGED <<hdr, status, settledBy, product, ledgerVars, refundVars>>

\* Variant: SET NX without EX, the key never expires.
ClaimNeverExpires(p) ==
    /\ p \in claims /\ FALSE
    /\ UNCHANGED vars

\* The key's TTL runs out.  x402_replay_ttl_seconds is at least twice the
\* facilitator's timeout, so not while its owner is still in the gate.
ClaimExpires(p) ==
    /\ p \in claims
    /\ \A r \in Request : ~(hdr[r] = p /\ r \in holders /\ pc[r] \in GatePC)
    /\ claims' = claims \ {p}
    /\ UNCHANGED <<reqVars, settledBy, product, ledgerVars, refundVars>>

-----------------------------------------------------------------------------
(* guard.require_payment against the facilitator and the chain.            *)

\* The call returned an error result, or raised out of the route: only the
\* first reaches release_claim.
GateFails(r) ==
    \/ /\ Goto(r, "release")
       /\ UNCHANGED resp
    \/ Answer(r, "internal_error")

\* process_http_request: the facilitator's /verify.
Verify(r) ==
    /\ pc[r] = "verify"
    /\ \/ /\ Goto(r, "settle")
          /\ UNCHANGED resp
       \/ GateFails(r)
    /\ UNCHANGED <<hdr, holders, status, moneyVars, ledgerVars, refundVars>>

\* The chain accepts a signed transfer once, whoever submits it.
Spend(p, r) ==
    /\ settledBy[p] = NoRequest
    /\ settledBy' = [settledBy EXCEPT ![p] = r]

\* Variant: settle.success is not looked at.
SettleUnchecked(r) ==
    /\ pc[r] = "settle"
    /\ Spend(hdr[r], r) \/ UNCHANGED settledBy
    /\ Goto(r, "insertLedger")
    /\ UNCHANGED <<hdr, holders, resp, status, claims, product, ledgerVars,
                   refundVars>>

\* process_settlement: the facilitator's /settle.  Its answer can be lost
\* after the chain has accepted the transfer.
Settle(r) ==
    /\ pc[r] = "settle"
    /\ \/ /\ Spend(hdr[r], r)
          /\ Goto(r, "insertLedger")
          /\ UNCHANGED resp
       \/ /\ \/ Spend(hdr[r], r)
             \/ UNCHANGED settledBy
          /\ GateFails(r)
    /\ UNCHANGED <<hdr, holders, status, claims, product, ledgerVars, refundVars>>

\* Variant: the key is recomputed from the header and deleted even when this
\* request claimed nothing.
ReleaseClaimUnchecked(r) ==
    /\ pc[r] = "release"
    /\ claims' = claims \ {hdr[r]}
    /\ holders' = holders \ {r}
    /\ Answer(r, "payment_required")
    /\ UNCHANGED <<hdr, status, settledBy, product, ledgerVars, refundVars>>

\* replay.release_claim: a plain DELETE, nothing when claim_key is None.
ReleaseClaim(r) ==
    /\ pc[r] = "release"
    /\ \/ r \in holders /\ claims' = claims \ {hdr[r]}
       \/ UNCHANGED claims                       \* None, or the DELETE failed
    /\ holders' = holders \ {r}
    /\ Answer(r, "payment_required")
    /\ UNCHANGED <<hdr, status, settledBy, product, ledgerVars, refundVars>>

-----------------------------------------------------------------------------
(* settlement.record_settlement: ledger row, then lookup row; a failure of *)
(* either is logged and swallowed.                                         *)

\* Variant: each INSERT has its own try block, so the second one runs after
\* the first one failed.
InsertLedgerAlone(r) ==
    /\ pc[r] = "insertLedger"
    /\ ledger' \in {ledger, [ledger EXCEPT ![hdr[r]] = NewRow]}
    /\ Goto(r, "insertByTx")
    /\ UNCHANGED <<hdr, holders, resp, status, moneyVars, byTx, refundVars>>

InsertLedger(r) ==
    /\ pc[r] = "insertLedger"
    /\ \/ /\ ledger' = [ledger EXCEPT ![hdr[r]] = NewRow]
          /\ Goto(r, "insertByTx")
       \/ /\ Goto(r, "write")
          /\ UNCHANGED ledger
    /\ UNCHANGED <<hdr, holders, resp, status, moneyVars, byTx, refundVars>>

InsertByTx(r) ==
    /\ pc[r] = "insertByTx"
    /\ byTx' \in {byTx, [byTx EXCEPT ![hdr[r]] = NewRow]}
    /\ Goto(r, "write")
    /\ UNCHANGED <<hdr, holders, resp, status, moneyVars, ledger, refundVars>>

-----------------------------------------------------------------------------
(* run_with_refund: the product write, then one of its three branches.     *)

WriteSucceeds(r) ==
    /\ product' = [product EXCEPT ![r] = "stored"]
    /\ Goto(r, "markRead")
    /\ UNCHANGED resp

\* A PlatformError is the payer's fault: payment kept, nothing refunded.
WriteRejected(r) ==
    /\ Answer(r, "rejected")
    /\ UNCHANGED product

\* Variant: the exception is swallowed to keep the response going.
WriteRaisesSwallowed(r) ==
    /\ product' \in {product, [product EXCEPT ![r] = "partial"]}
    /\ Goto(r, "markRead")
    /\ UNCHANGED resp

\* Any other exception, before or after the write took effect.
WriteRaises(r) ==
    /\ product' \in {product, [product EXCEPT ![r] = "partial"]}
    /\ Goto(r, "count")
    /\ UNCHANGED resp

WriteProduct(r) ==
    /\ pc[r] = "write"
    /\ WriteSucceeds(r) \/ WriteRejected(r) \/ WriteRaises(r)
    /\ UNCHANGED <<hdr, holders, status, claims, settledBy, ledgerVars, refundVars>>

\* Variant: a Redis failure while counting escapes the handler.
CountFailureRaises(r) ==
    /\ pc[r] = "count"
    /\ \/ /\ failures' = failures + 1
          /\ Goto(r, IF failures + 1 >= MaxFailures THEN "latch" ELSE "reserve")
          /\ UNCHANGED resp
       \/ /\ failures' \in {failures, failures + 1}
          /\ Answer(r, "internal_error")
    /\ UNCHANGED <<hdr, holders, status, moneyVars, ledgerVars, latched, used,
                   refundTx>>

\* circuit_breaker.record_refund_failure: INCR, then the latch at the
\* threshold.  Redis may fail before the INCR, or after it but before the
\* caller learns the count.
CountFailure(r) ==
    /\ pc[r] = "count"
    /\ \/ /\ failures' = failures + 1
          /\ Goto(r, IF failures + 1 >= MaxFailures THEN "latch" ELSE "reserve")
       \/ /\ failures' \in {failures, failures + 1}
          /\ Goto(r, "reserve")
    /\ UNCHANGED <<hdr, holders, resp, status, moneyVars, ledgerVars, latched,
                   used, refundTx>>

SetLatch(r) ==
    /\ pc[r] = "latch"
    /\ latched' \in {latched, TRUE}
    /\ Goto(r, "reserve")
    /\ UNCHANGED <<hdr, holders, resp, status, moneyVars, ledgerVars, failures,
                   used, refundTx>>

\* The counter's window ends.
CounterExpires ==
    /\ failures > 0
    /\ failures' = 0
    /\ UNCHANGED <<reqVars, moneyVars, ledgerVars, latched, used, refundTx>>

\* circuit_breaker.reset, the admin route.
ResetBreaker ==
    /\ latched \/ failures > 0
    /\ failures' = 0
    /\ latched' = FALSE
    /\ UNCHANGED <<reqVars, moneyVars, ledgerVars, used, refundTx>>

-----------------------------------------------------------------------------
(* refund.send_refund.                                                     *)

\* The refund attempt is over with this RefundResult.
Outcome(r, result) ==
    /\ status' = [status EXCEPT ![r] = result]
    /\ Goto(r, "refundRead")

\* Variant: the total before the reservation is compared.
OverBudgetBefore(total) == total - 1 > DailyBudget

OverBudget(total) == total > DailyBudget

\* _prepare_refund: configuration and amount checks, then _reserve_daily_budget's
\* INCRBY.  A Redis failure skips the refund, with or without the increment.
ReserveBudget(r) ==
    /\ pc[r] = "reserve"
    /\ \/ /\ Outcome(r, "failed")                \* no payer, malformed amount
          /\ UNCHANGED used
       \/ /\ used' \in {used, used + 1}          \* no wallet, asset or price,
          /\ Outcome(r, "skipped")               \* or Redis is down
       \/ /\ used' = used + 1
          /\ Goto(r, IF OverBudget(used + 1) THEN "unreserve" ELSE "send")
          /\ UNCHANGED status
    /\ UNCHANGED <<hdr, holders, resp, moneyVars, ledgerVars, failures, latched,
                   refundTx>>

\* DECRBY back out; if it fails the counter stays overstated.
UnreserveBudget(r) ==
    /\ pc[r] = "unreserve"
    /\ used' \in {used, used - 1}
    /\ Outcome(r, "skipped")
    /\ UNCHANGED <<hdr, holders, resp, moneyVars, ledgerVars, failures, latched,
                   refundTx>>

Broadcast(r) == refundTx' = [refundTx EXCEPT ![r] = "pool"]

\* Sign and send_transaction: any exception is "failed", including an answer
\* lost after algod took the transfer.
SendRefund(r) ==
    /\ pc[r] = "send"
    /\ \/ /\ Broadcast(r)
          /\ Goto(r, "confirm")
          /\ UNCHANGED status
       \/ /\ Broadcast(r) \/ UNCHANGED refundTx
          /\ Outcome(r, "failed")
    /\ UNCHANGED <<hdr, holders, resp, moneyVars, ledgerVars, failures, latched,
                   used>>

\* Variant: a timeout waiting for confirmation is reported as sent.
ConfirmRefundAssumed(r) ==
    /\ pc[r] = "confirm"
    /\ Outcome(r, "sent")
    /\ UNCHANGED <<hdr, holders, resp, moneyVars, ledgerVars, refundVars>>

\* wait_for_confirmation: sees the transfer confirmed, or gives up.
ConfirmRefund(r) ==
    /\ pc[r] = "confirm"
    /\ \/ /\ refundTx[r] = "confirmed"
          /\ Outcome(r, "sent")
       \/ Outcome(r, "sent_unconfirmed")
    /\ UNCHANGED <<hdr, holders, resp, moneyVars, ledgerVars, refundVars>>

\* The chain confirms a pending transfer, or its validity window ends.
ChainDecides(r) ==
    /\ refundTx[r] = "pool"
    /\ \E fate \in {"confirmed", "dropped"} :
           refundTx' = [refundTx EXCEPT ![r] = fate]
    /\ UNCHANGED <<reqVars, moneyVars, ledgerVars, failures, latched, used>>

-----------------------------------------------------------------------------
(* settlement.record_refund and settlement.mark_fulfilled: read the lookup *)
(* row, update the ledger, update the lookup row.  Both refuse to write    *)
(* without a lookup row, and a failure at any point is swallowed.          *)

RefundResponse(r) ==
    IF status[r] \in {"sent", "sent_unconfirmed"}
    THEN "product_failed_refunded" ELSE "product_failed_refund_pending"

ReadRow(r, at, next, response) ==
    /\ pc[r] = at
    /\ \/ /\ byTx[hdr[r]].state # "absent"
          /\ Goto(r, next)
          /\ UNCHANGED resp
       \/ Answer(r, response)                    \* no row, or the read failed
    /\ UNCHANGED <<hdr, holders, status, moneyVars, ledgerVars, refundVars>>

RefundRead(r) == ReadRow(r, "refundRead", "refundLedger", RefundResponse(r))

RefundLedger(r) ==
    /\ pc[r] = "refundLedger"
    /\ \/ /\ ledger' = [ledger EXCEPT ![hdr[r]].refund = status[r]]
          /\ Goto(r, "refundByTx")
          /\ UNCHANGED resp
       \/ /\ Answer(r, RefundResponse(r))
          /\ UNCHANGED ledger
    /\ UNCHANGED <<hdr, holders, status, moneyVars, byTx, refundVars>>

\* Variant: the route does not look at the kind of outcome and goes on to
\* mark_fulfilled after a refund.
RefundByTxThenMark(r) ==
    /\ pc[r] = "refundByTx"
    /\ byTx' = [byTx EXCEPT ![hdr[r]].refund = status[r]]
    /\ Goto(r, "markRead")
    /\ UNCHANGED <<hdr, holders, resp, status, moneyVars, ledger, refundVars>>

RefundByTx(r) ==
    /\ pc[r] = "refundByTx"
    /\ byTx' \in {byTx, [byTx EXCEPT ![hdr[r]].refund = status[r]]}
    /\ Answer(r, RefundResponse(r))
    /\ UNCHANGED <<hdr, holders, status, moneyVars, ledger, refundVars>>

MarkRead(r) == ReadRow(r, "markRead", "markLedger", "ok")

MarkLedger(r) ==
    /\ pc[r] = "markLedger"
    /\ \/ /\ ledger' = [ledger EXCEPT ![hdr[r]].state = "fulfilled"]
          /\ Goto(r, "markByTx")
          /\ UNCHANGED resp
       \/ /\ Answer(r, "ok")
          /\ UNCHANGED ledger
    /\ UNCHANGED <<hdr, holders, status, moneyVars, byTx, refundVars>>

MarkByTx(r) ==
    /\ pc[r] = "markByTx"
    /\ byTx' \in {byTx, [byTx EXCEPT ![hdr[r]].state = "fulfilled"]}
    /\ Answer(r, "ok")
    /\ UNCHANGED <<hdr, holders, status, moneyVars, ledger, refundVars>>

-----------------------------------------------------------------------------
\* The worker process serving r dies; Redis, Cassandra and the chain stay.
Crash(r) ==
    /\ pc[r] \in LivePC
    /\ Goto(r, "crashed")
    /\ UNCHANGED <<hdr, holders, resp, status, moneyVars, ledgerVars, refundVars>>

Gate(r)    == Verify(r) \/ Settle(r) \/ ReleaseClaim(r)
Record(r)  == InsertLedger(r) \/ InsertByTx(r)
Mark(r)    == MarkRead(r) \/ MarkLedger(r) \/ MarkByTx(r)
Breaker(r) == CountFailure(r) \/ SetLatch(r)
Refund(r)  == ReserveBudget(r) \/ UnreserveBudget(r) \/ SendRefund(r)
              \/ ConfirmRefund(r) \/ RefundRead(r) \/ RefundLedger(r)
              \/ RefundByTx(r)

\* One more call of the request that is being served.
Step(r) == IsTripped(r) \/ ClaimPayment(r) \/ Gate(r) \/ Record(r)
           \/ WriteProduct(r) \/ Mark(r) \/ Breaker(r) \/ Refund(r)

Next ==
    \/ \E r \in Request : Arrive(r) \/ Step(r) \/ Crash(r) \/ ChainDecides(r)
    \/ \E p \in Payment : ClaimExpires(p)
    \/ CounterExpires
    \/ ResetBreaker

Spec == Init /\ [][Next]_vars

\* The server keeps running the requests it accepted, and Redis expires keys.
Fairness ==
    /\ \A r \in Request : WF_vars(Step(r))
    /\ \A p \in Payment : WF_vars(ClaimExpires(p))

FairSpec == Spec /\ Fairness

-----------------------------------------------------------------------------
(* Safety.                                                                 *)

\* A claim the gate relies on is never taken from under it: while a request
\* that claimed its header is between claim_payment and release_claim, the
\* replay key exists and no second claimant of the same header is in the gate
\* (replay.claim_payment / release_claim under concurrent resubmission).
ClaimExclusive ==
    \A r \in holders : pc[r] \in GatePC =>
        /\ hdr[r] \in claims
        /\ \A s \in holders \ {r} : hdr[s] = hdr[r] => pc[s] \notin GatePC

\* One payment buys one outcome: whatever product or refund exists for a
\* header was produced by the one request that settled it, so resubmitting a
\* header (even with Redis down and the replay check failing open) yields
\* neither a second product nor a second refund.
OnePayment ==
    \A r \in Request : product[r] # "none" \/ refundTx[r] # "none" =>
        settledBy[hdr[r]] = r

\* Store before mark (paid_request.py rule 1): a settlement marked fulfilled,
\* in either table, has its product durably stored.
StoreBeforeMark ==
    \A p \in Payment : "fulfilled" \in {ledger[p].state, byTx[p].state} =>
        /\ settledBy[p] \in Request
        /\ product[settledBy[p]] = "stored"

\* The books never show a sale both delivered and refunded, and no refund is
\* ever sent for a payment that was marked fulfilled (settlement.py's reading
\* of the (fulfilled, refund_status) pair has no such row).
FulfilledXorRefunded ==
    \A p \in Payment : "fulfilled" \in {ledger[p].state, byTx[p].state} =>
        /\ ledger[p].refund = "none" /\ byTx[p].refund = "none"
        /\ refundTx[settledBy[p]] = "none"

\* The by-txid row is never ahead of the accounting row, whichever writes
\* failed and wherever the process died (the order of the two INSERTs and of
\* the two UPDATEs in CassandraSettlementStore).
LookupFollowsLedger ==
    \A p \in Payment :
        /\ byTx[p].state # "absent" => ledger[p].state # "absent"
        /\ byTx[p].state = "fulfilled" => ledger[p].state = "fulfilled"
        /\ byTx[p].refund # "none" => ledger[p].refund = byTx[p].refund

\* What the ledger says of a refund is true of the chain: "sent" is confirmed,
\* "sent_unconfirmed" was broadcast, "skipped" moved nothing.
LedgerRefundHonest ==
    \A p \in Payment : ledger[p].refund # "none" =>
        LET transfer == refundTx[settledBy[p]] IN
        /\ ledger[p].refund = "sent" => transfer = "confirmed"
        /\ ledger[p].refund = "sent_unconfirmed" => transfer # "none"
        /\ ledger[p].refund = "skipped" => transfer = "none"

\* The requests whose refund reached the chain.
Refunded == {r \in Request : refundTx[r] # "none"}

\* The refund wallet never sends more than the day's budget, however many
\* refunds race through reserve-then-undo and whichever undo is lost, and the
\* counter never reads less than what was sent (refund._reserve_daily_budget).
RefundsWithinBudget ==
    /\ Cardinality(Refunded) <= DailyBudget
    /\ Cardinality(Refunded) <= used

\* The response tells the payer the truth: a 200 has its product and no
\* refund, a "refunded" 503 has a transfer, and any answer given before the
\* gate let the request through comes with no product and no refund.
AnswerHonest ==
    \A r \in Request :
        /\ resp[r] = "ok" => product[r] = "stored" /\ refundTx[r] = "none"
        /\ resp[r] = "product_failed_refunded" =>
               refundTx[r] # "none" /\ product[r] # "stored"
        /\ resp[r] \in {"temporarily_disabled", "payment_replayed",
                        "payment_required", "internal_error"} =>
               product[r] = "none" /\ refundTx[r] = "none"

-----------------------------------------------------------------------------
(* Liveness.                                                               *)

\* A header is never burned for good: a replay claim left by a crash, a lost
\* release or an unhandled exception ends (the claim's TTL), so a payer whose
\* payment did not settle can retry.
ClaimEnds == \A p \in Payment : p \in claims ~> p \notin claims

\* The answers that tell a payer what became of the money: product, business
\* rejection, refund, or refund pending.
Told(r) == resp[r] \in {"ok", "rejected", "product_failed_refunded",
                        "product_failed_refund_pending"}

\* Charged by a settle whose answer was lost: answered as if nothing had been
\* paid, no row in either table, no product and no refund.
ChargedUnseen(r) ==
    /\ resp[r] \in {"payment_required", "internal_error"}
    /\ ledger[hdr[r]] = NoRow /\ byTx[hdr[r]] = NoRow
    /\ product[r] = "none" /\ refundTx[r] = "none"

\* Whoever the gate let through is told what became of the money, unless the
\* process died.  Of all who were charged, the only others left without word
\* of it are those whose settle call's answer was lost: the gate turns them
\* away and no trace of their payment is kept (guard.require_payment's early
\* returns, run_with_refund's branches).
ChargedIsAnswered ==
    \A r \in Request :
        /\ pc[r] \in PaidPC ~> pc[r] = "crashed" \/ Told(r)
        /\ settledBy[hdr[r]] = r ~>
               pc[r] = "crashed" \/ Told(r) \/ ChargedUnseen(r)

=============================================================================
