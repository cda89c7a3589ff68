---------------------------- MODULE MCPublishing ----------------------------
EXTENDS Publishing, TLC

CONSTANTS t1, t2, t3, a, none, nobody

\* One article of a service is out, another waits for a slot, and one that is
\* of no service for its review.
Standing ==
    {[id |-> 1, status |-> "published", at |-> nobody, day |-> 0, service |-> a],
     [id |-> 2, status |-> "backlog", at |-> nobody, day |-> 0, service |-> a],
     [id |-> 3, status |-> "on_hold", at |-> nobody, day |-> 0, service |-> none]}

\* The runs are interchangeable.
Symmetry == Permutations(Task)

=============================================================================
