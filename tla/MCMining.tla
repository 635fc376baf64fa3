------------------------------ MODULE MCMining ------------------------------
(***************************************************************************)
(* Mining for TLC: two callers (the thread that builds templates and the   *)
(* thread that handles the clients' messages), two option values, a valid  *)
(* and an invalid solution.                                                *)
(***************************************************************************)
EXTENDS Mining, TLC

CONSTANTS c1, c2, o1, o2, good, bad

MCCallers == {c1, c2}
MCOptions == {o1, o2}
MCSolutions == {good, bad}
MCValidSolutions == {good}

\* The callers are interchangeable: no definition names one of them.
Symmetry == Permutations(MCCallers)

=============================================================================
