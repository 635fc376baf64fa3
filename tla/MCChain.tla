------------------------------ MODULE MCChain ------------------------------
(***************************************************************************)
(* Chain for TLC, on a tree that forks at the genesis block:               *)
(*                                                                         *)
(*     g <- a1                                                             *)
(*     ^--- b1                                                             *)
(*                                                                         *)
(* for the queries that run while the node changes the chain.  The         *)
(* queries that hold cs_main throughout are checked on a larger tree in    *)
(* MCNodeImpl.                                                             *)
(***************************************************************************)
EXTENDS Chain

CONSTANTS g, a1, b1

ForkAtGenesis == (g :> Null) @@ (a1 :> g) @@ (b1 :> g)

MCRequests == {[data |-> FALSE, next |-> "no"],
               [data |-> TRUE, next |-> "fields"],
               [data |-> FALSE, next |-> "data"]}

=============================================================================
