------------------------- MODULE MCTransitionPolicy -------------------------
(* Small instances of TransitionPolicy: the threads of the Launcher are      *)
(* managed, or those of the system, the auxiliary process or the limit.      *)
EXTENDS TransitionPolicy, TLC

CONSTANTS t1, t2

MCSymmetry == Permutations({t1, t2})

MCConfigurations == {{"launcher"}, {"systemui"}, {"auxiliary"}, {"frequency"}}
=============================================================================
