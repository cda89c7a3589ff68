---------------------- MODULE MCPaidRequestRefinement ----------------------
(* PaidRequestRefinement on small instances. *)
EXTENDS PaidRequestRefinement
=============================================================================
