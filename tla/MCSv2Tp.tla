------------------------------- MODULE MCSv2Tp -------------------------------
(***************************************************************************)
(* Sv2Tp for TLC: command lines that give each option not at all, with a   *)
(* value main() accepts, and with one at or past the edge of its range.    *)
(***************************************************************************)
EXTENDS Sv2Tp

CONSTANTS Unset_, NoPort_, BadPort_

\* A port, port 0, and two values no uint16_t holds.
MCPortArgs == {8442, 0, 65536 + 8442, -1}

MCBindArgs == {NoPort_, BadPort_, 3333}

\* The smallest interval main() accepts and the values on either side of it.
MCFeeDeltaArgs == {-1, 0}

MCIntervalArgs == {0, 1, 2}

=============================================================================
