---------------------------- MODULE MCScanSlots ----------------------------
(* ScanSlots on a few interchangeable scans.                               *)
EXTENDS ScanSlots, TLC

Symmetry == Permutations(Scan)
=============================================================================
