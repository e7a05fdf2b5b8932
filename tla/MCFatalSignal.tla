--------------------------- MODULE MCFatalSignal ---------------------------
(* Small instances of FatalSignal.                                         *)
EXTENDS FatalSignal, TLC

CONSTANTS f1, f2, f3

TwoJobs == {f1, f2}
ThreeJobs == {f1, f2, f3}
Symmetric == Permutations(ThreeJobs)
=============================================================================
