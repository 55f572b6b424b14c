------------------------- MODULE MCProfileLifecycle -------------------------
(* ProfileLifecycle with model values: calls of one kind are interchangeable. *)
EXTENDS ProfileLifecycle, TLC

CallSymmetry ==
  Permutations(ExtraCalls) \cup Permutations(StartCalls \ ExtraCalls)
    \cup Permutations(StopCalls)
=============================================================================
