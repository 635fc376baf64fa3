----------------------------- MODULE MCFuzzedSock -----------------------------
(***************************************************************************)
(* FuzzedSock for TLC: a listening socket and one it accepts, reads of up  *)
(* to two bytes, and input enough for a read with MSG_PEEK, the read after *)
(* it and the choices in between.                                          *)
(***************************************************************************)
EXTENDS FuzzedSock

CONSTANTS s1, s2

MCSocks == {s1, s2}

Symmetry == Permutations(MCSocks)

=============================================================================
