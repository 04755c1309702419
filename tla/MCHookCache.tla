----------------------------- MODULE MCHookCache -----------------------------
(* Instances of HookCache for TLC: callbacks, files and terms are interchangeable. *)
EXTENDS HookCache, TLC

Symmetry == Permutations(Callbacks) \cup Permutations(Files) \cup Permutations(Terms)
=============================================================================
