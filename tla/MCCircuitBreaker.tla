--------------------------- MODULE MCCircuitBreaker ---------------------------
(* CircuitBreaker on small sets of interchangeable calls.                  *)
EXTENDS CircuitBreaker, TLC

Symmetry == Permutations(Recorder) \cup Permutations(Checker)
=============================================================================
