\* Two requests resubmitting one header, under the fairness of FairSpec.
CONSTANTS
    Request = {r1, r2}
    Payment = {p1}
    NoRequest = NoRequest
    MaxFailures = 1
    DailyBudget = 1
SPECIFICATION FairSpec
PROPERTIES
    ClaimEnds
    ChargedIsAnswered
    RefinesPaidCall
\* Every request ends.
CHECK_DEADLOCK FALSE
