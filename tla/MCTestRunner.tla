----------------------------- MODULE MCTestRunner -----------------------------
(* TestRunner with model values for the runs, which are interchangeable.  b is *)
(* a full configuration, d cannot be built, e is skipped, one id is gone.      *)
EXTENDS TestRunner

\* A batch of two pool functions and a rest, and a single profile.
BatchAndRest == {<<"a", "b", "c">>, <<"c">>}

\* A profile that cannot be built, an id that is gone, a skipped one, a full batch.
Failing == {<<"a", "gone", "d", "c">>, <<"e">>, <<"d">>,
            <<"a", "b">>}

RunSymmetry == Permutations(Runs)
===============================================================================
