----------------------------- MODULE PaidCall ------------------------------
(***************************************************************************)
(* What a payer and the bookkeeper are promised about one payment of the   *)
(* x402 marketplace, whatever the requests, retries and failures behind    *)
(* it: it is charged at most once, it ends in at most one of three ways,   *)
(* and the books say only what happened.                                   *)
(***************************************************************************)
CONSTANT Payment

VARIABLES
    outcome,  \* outcome[p]: what became of the money
    books     \* books[p]: what the settlement ledger says of it

vars == <<outcome, books>>

\* "returned": a refund of the full amount went to the chain.
\* "kept": the call was refused for a reason of the payer's own making.
Outcome == {"unpaid", "charged", "delivered", "returned", "kept"}
Entry   == {"none", "open", "fulfilled", "refund"}

TypeOK ==
    /\ outcome \in [Payment -> Outcome]
    /\ books \in [Payment -> Entry]

Init ==
    /\ outcome = [p \in Payment |-> "unpaid"]
    /\ books = [p \in Payment |-> "none"]

Charge(p) ==
    /\ outcome[p] = "unpaid"
    /\ outcome' = [outcome EXCEPT ![p] = "charged"]
    /\ UNCHANGED books

Conclude(p) ==
    /\ outcome[p] = "charged"
    /\ books[p] \in {"none", "open"}
    /\ \E o \in {"delivered", "returned", "kept"} :
           outcome' = [outcome EXCEPT ![p] = o]
    /\ UNCHANGED books

\* The ledger row is written, unfulfilled, before the outcome is known.
OpenBooks(p) ==
    /\ outcome[p] = "charged"
    /\ books[p] = "none"
    /\ books' = [books EXCEPT ![p] = "open"]
    /\ UNCHANGED outcome

\* "refund": an attempt was made, including one that moved nothing.
CloseBooks(p) ==
    /\ books[p] = "open"
    /\ \/ /\ outcome[p] = "delivered"
          /\ books' = [books EXCEPT ![p] = "fulfilled"]
       \/ /\ outcome[p] \in {"charged", "returned"}
          /\ books' = [books EXCEPT ![p] = "refund"]
    /\ UNCHANGED outcome

Next == \E p \in Payment :
            Charge(p) \/ Conclude(p) \/ OpenBooks(p) \/ CloseBooks(p)

Spec == Init /\ [][Next]_vars
=============================================================================
