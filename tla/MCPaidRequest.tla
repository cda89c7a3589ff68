--------------------------- MODULE MCPaidRequest ---------------------------
(* PaidRequest on small instances. *)
EXTENDS PaidRequest, TLC

Symmetry == Permutations(Request) \cup Permutations(Payment)
=============================================================================
