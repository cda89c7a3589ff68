\* Two requests, over one shared header or two separate ones.
CONSTANTS
    Request = {r1, r2}
    Payment = {p1, p2}
    NoRequest = NoRequest
    MaxFailures = 2
    DailyBudget = 1
SYMMETRY Symmetry
SPECIFICATION Spec
INVARIANTS
    ClaimExclusive
    OnePayment
    LookupFollowsLedger
    StoreBeforeMark
    LedgerRefundHonest
    RefundsWithinBudget
    AnswerHonest
\* Every request ends.
CHECK_DEADLOCK FALSE
