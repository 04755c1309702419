------------------------- MODULE MCTranslationMemory -------------------------
(***************************************************************************)
(* TranslationMemory on a small instance: one term more than the cap, so   *)
(* that a full list refuses it.  Processes and terms are interchangeable.  *)
(***************************************************************************)
EXTENDS TranslationMemory

Symmetric == Permutations(Procs) \cup Permutations(Terms)

=============================================================================
