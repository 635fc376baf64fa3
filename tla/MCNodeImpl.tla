----------------------------- MODULE MCNodeImpl -----------------------------
(***************************************************************************)
(* NodeImpl for TLC, on the block tree                                     *)
(*                                                                         *)
(*     g <- a1 <- a2                                                       *)
(*           ^--- b2                                                       *)
(*                                                                         *)
(* and two transactions, t2 spending from t1.                             *)
(***************************************************************************)
EXTENDS NodeImpl, TLC

CONSTANTS g, a1, a2, b2, t1, t2

ForkAboveGenesis == (g :> Null) @@ (a1 :> g) @@ (a2 :> a1) @@ (b2 :> a1)

SpendsInARow == (t1 :> {}) @@ (t2 :> {t1})

Options(count, rate, dust, size) ==
    [limits |-> [ancestor_count |-> count, descendant_count |-> count],
     min_relay_feerate |-> rate, incremental_relay_feerate |-> rate,
     dust_relay_feerate |-> dust, max_size_bytes |-> size]

\* DEFAULT_ANCESTOR_LIMIT and DEFAULT_DESCENDANT_LIMIT, the fee rates in
\* satoshis per 1000 bytes, the size in megabytes.
PolicyDefaults == Options(25, 100, 3000, 300)
Configured == Options(2, 200, 3000, 5)

EstimatesByTarget == (1 :> 30) @@ (2 :> 20) @@ (3 :> 10)

=============================================================================
