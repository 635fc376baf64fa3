------------------------------ MODULE Mempool ------------------------------
(***************************************************************************)
(* The mempool and fee queries of ChainImpl (src/node/interfaces.cpp       *)
(* 485-583) and of NodeImpl (195-197, 243-256).  m_node.mempool and        *)
(* m_node.fee_estimator are optional members of NodeContext: every query   *)
(* but broadcastTransaction tests for the member and answers a default     *)
(* without it.                                                             *)
(*                                                                         *)
(* A transaction is identified with its txid and with the outpoints it     *)
(* creates.  Spends gives the transactions a transaction spends from and   *)
(* Signal the transactions that signal BIP 125, which is all the queries   *)
(* tell apart; sizes and fees are left out.                                *)
(***************************************************************************)
EXTENDS Naturals, FiniteSets, FiniteSetsExt, Graphs

CONSTANTS
    Txs,         \* every transaction that can exist
    Spends,      \* the transactions whose outputs a transaction spends
    Signal,      \* the transactions with a sequence number below 0xfffffffe
    Null,        \* nullptr
    m_opts,      \* CTxMemPool::Options of the node
    Default,     \* the same record, of the DEFAULT_ constants of policy.h
    GetMinFee,   \* the fee rate below which the mempool takes nothing
    Estimates    \* the fee rate CBlockPolicyEstimator has for each target

VARIABLES
    mempool,        \* m_node.mempool: Null, or the transactions it holds
    fee_estimator   \* m_node.fee_estimator: Null, or its estimates

poolVars == <<mempool, fee_estimator>>

-----------------------------------------------------------------------------
(* CTxMemPool *)

\* The mempool with tx as a graph: an edge leads from a transaction to one
\* that spends from it.
Spending(tx) ==
    LET node == mempool \cup {tx}
    IN  [node |-> node, edge |-> {e \in node \X node : e[1] \in Spends[e[2]]}]

WithAncestors(tx) == Ancestors(Spending(tx), tx) \cup {tx}
WithDescendants(tx) == Descendants(Spending(tx), tx) \cup {tx}

GetCountWithAncestors(tx) == Cardinality(WithAncestors(tx))
GetCountWithDescendants(tx) == Cardinality(WithDescendants(tx))

\* The descendant count of a transaction is the largest one among its
\* ancestors that spend from no transaction of the mempool.
GetTransactionAncestry(txid) ==
    [ancestors   |-> GetCountWithAncestors(txid),
     descendants |-> Max({GetCountWithDescendants(a) :
                          a \in WithAncestors(txid) \cap Roots(Spending(txid))})]

\* A transaction may join when it and each transaction it would descend
\* from stay within the limits.
CheckPackageLimits(tx) ==
    /\ GetCountWithAncestors(tx) <= m_opts.limits.ancestor_count
    /\ \A a \in WithAncestors(tx) \ {tx} :
           GetCountWithDescendants(a) + 1 <= m_opts.limits.descendant_count

IsRBFOptInEmptyMempool(tx) ==
    IF tx \in Signal THEN "REPLACEABLE_BIP125" ELSE "UNKNOWN"

IsRBFOptIn(tx) ==
    IF tx \in Signal THEN "REPLACEABLE_BIP125"
    ELSE IF tx \notin mempool THEN "UNKNOWN"
    ELSE IF WithAncestors(tx) \cap Signal # {} THEN "REPLACEABLE_BIP125"
    ELSE "FINAL"

\* MiniMiner: what the unconfirmed transactions behind the outpoints lack
\* at the target rate, each of them counted once.
BumpFee(outpoints) ==
    Cardinality(UNION {WithAncestors(o) : o \in outpoints \cap mempool})

-----------------------------------------------------------------------------
(* The queries *)

isRBFOptIn(tx) ==
    IF mempool = Null THEN IsRBFOptInEmptyMempool(tx) ELSE IsRBFOptIn(tx)

isInMempool(txid) == mempool # Null /\ txid \in mempool

\* Mutation: the count is taken for the number of descendants, while it
\* includes the entry itself.
hasDescendantsInMempool_CountsSelf(txid) ==
    isInMempool(txid) /\ GetCountWithDescendants(txid) > 0

hasDescendantsInMempool(txid) ==
    isInMempool(txid) /\ GetCountWithDescendants(txid) > 1

getTransactionAncestry(txid) ==
    IF isInMempool(txid) THEN GetTransactionAncestry(txid)
    ELSE [ancestors |-> 0, descendants |-> 0]

calculateIndividualBumpFees(outpoints) ==
    [o \in outpoints |-> IF mempool = Null THEN 0 ELSE BumpFee({o})]

calculateCombinedBumpFee(outpoints) ==
    IF mempool = Null THEN 0 ELSE BumpFee(outpoints)

Options == IF mempool = Null THEN Default ELSE m_opts

getPackageLimits == Options.limits

checkChainLimits(tx) == mempool = Null \/ CheckPackageLimits(tx)

estimateSmartFee(num_blocks) ==
    IF fee_estimator = Null THEN 0 ELSE fee_estimator[num_blocks]

estimateMaxBlocks ==
    IF fee_estimator = Null THEN 0 ELSE Max(DOMAIN fee_estimator)

mempoolMinFee == IF mempool = Null THEN 0 ELSE GetMinFee
relayMinFee == Options.min_relay_feerate
relayIncrementalFee == Options.incremental_relay_feerate
relayDustFee == Options.dust_relay_feerate

\* NodeImpl
getMempoolSize == IF mempool = Null THEN 0 ELSE Cardinality(mempool)
getMempoolMaxUsage == IF mempool = Null THEN 0 ELSE m_opts.max_size_bytes
getDustRelayFee == Options.dust_relay_feerate

-----------------------------------------------------------------------------
(* What changes the mempool *)

\* BroadcastTransaction: a transaction the mempool holds is relayed again,
\* another one is accepted when the mempool takes it.
TransactionError(tx) ==
    IF tx \in mempool THEN {"OK"}
    ELSE {"MEMPOOL_REJECTED", "MAX_FEE_EXCEEDED"}
             \cup (IF CheckPackageLimits(tx) THEN {"OK"} ELSE {})

\* ChainImpl and NodeImpl: the first answers whether the error is OK, the
\* second with the error.  Neither tests for the mempool.
broadcastTransaction(tx) ==
    /\ mempool # Null
    /\ \E err \in TransactionError(tx) :
           mempool' = IF err = "OK" THEN mempool \cup {tx} ELSE mempool
    /\ UNCHANGED fee_estimator

\* A block confirms the transaction, or the mempool evicts it.
removeForBlock(tx) ==
    /\ mempool # Null
    /\ tx \in mempool
    /\ mempool' = mempool \ {tx}
    /\ UNCHANGED fee_estimator

-----------------------------------------------------------------------------

\* The type of the state: a set of transactions or no mempool, and a fee
\* estimator or none.
TypeOK ==
    /\ mempool \in SUBSET Txs \cup {Null}
    /\ fee_estimator \in {Null, Estimates}

\* Reference for hasDescendantsInMempool: a transaction of the mempool
\* that some transaction of the mempool spends from.
SpentInMempool(txid) ==
    mempool # Null /\ txid \in mempool /\ \E c \in mempool : txid \in Spends[c]

\* hasDescendantsInMempool answers true exactly for the transactions of
\* the mempool that another transaction of the mempool spends from:
\* GetCountWithDescendants counts the entry itself, which the comparison
\* with 1 in ChainImpl::hasDescendantsInMempool has to leave out.
DescendantsAreSpenders ==
    \A txid \in Txs : hasDescendantsInMempool(txid) <=> SpentInMempool(txid)

=============================================================================
