----------------------------- MODULE MCScanCache -----------------------------
(***************************************************************************)
(* ScanCache on a small instance; processes and contents are               *)
(* interchangeable, files are ordered.                                     *)
(***************************************************************************)
EXTENDS ScanCache, TLC

Symmetric == Permutations(Procs) \cup Permutations(Contents)

=============================================================================
