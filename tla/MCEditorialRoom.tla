--------------------------- MODULE MCEditorialRoom ---------------------------
EXTENDS EditorialRoom

CONSTANTS t1, t2, svc, none

\* The tasks are interchangeable.
Symmetry == Permutations(Task)

\* What a stale write leads to is not followed: the properties end there.
UpToStale == ~stale

\* Once a call has failed, only the properties of the slate are left, and they
\* do not ask what an artifact says or what has been told.
Unsaid(d) == [d EXCEPT !.art = [i \in Id |-> [@[i] EXCEPT !.content = <<>>]]]
View == IF failures = 0 THEN vars
        ELSE <<today, Unsaid(db), pc, job, covered, failures, stale>>

=============================================================================
