----------------------------- MODULE MCSettings -----------------------------
(***************************************************************************)
(* Settings for TLC: two callers, two names of which one is also given on  *)
(* the command line, one value.                                            *)
(***************************************************************************)
EXTENDS Settings, TLC

CONSTANTS c1, c2, n1, n2, v1

MCCommandLine == (n1 :> {v1})

\* The callers are interchangeable: no definition names one of them.
Symmetry == Permutations({c1, c2})

=============================================================================
