------------------------------ MODULE NodeImpl ------------------------------
(***************************************************************************)
(* NodeImpl (src/node/interfaces.cpp 80-314): the life of a node from      *)
(* baseInitialize to appShutdown, the getters a client calls meanwhile     *)
(* and the handlers it connects to the signals of uiInterface.  The chain  *)
(* is that of module Chain and the mempool that of module Mempool: AppInit *)
(* creates them, Shutdown destroys them, and in between the node accepts   *)
(* blocks and transactions while the client asks.                          *)
(*                                                                         *)
(* The thread of main() calls baseInitialize, then appInitMain, and        *)
(* appShutdown when it likes; a client calls the other methods at any      *)
(* time.  A getter is an operator on the state it reads under its lock;    *)
(* it is Abort where an Assert of the code fails.  What the class forwards *)
(* to (AppInitMain, Shutdown, the signals of uiInterface) is outside the   *)
(* source tree and stands here as the set of its outcomes.                 *)
(***************************************************************************)
EXTENDS Integers, FiniteSets

CONSTANTS
    Blocks, pprev, Null, NoMax, Requests,                 \* of Chain
    Txs, Spends, Signal, m_opts, Default, GetMinFee, Estimates, \* of Mempool
    Connectable, \* the signals of uiInterface a client connects to
    Abort        \* the process is aborted by an Assert

VARIABLES
    index, have_data, tip, cs_main, q, out,   \* of Chain
    mempool, fee_estimator,                   \* of Mempool
    main,           \* where the thread of main() is
    members,        \* the members of NodeContext that exist
    exit_status,    \* m_context->exit_status
    shutdown,       \* what ShutdownRequested answers
    best_header,    \* chainman().m_best_header
    loading,        \* m_blockman.LoadingBlocks()
    ibd,            \* chainman().IsInitialBlockDownload()
    connected,      \* the signals that have a handler of the client
    shown,          \* what the handler of each signal was last called with
    pending         \* the signal the node has still to send for a change

Chainman == INSTANCE Chain
Pool == INSTANCE Mempool

chainVars == <<index, have_data, tip, cs_main, q, out>>
poolVars == <<mempool, fee_estimator>>
tipVars == <<best_header, loading, ibd>>
lifeVars == <<main, members, exit_status, shutdown>>
uiVars == <<connected, shown, pending>>
vars == <<chainVars, poolVars, tipVars, lifeVars, uiVars>>

\* What baseInitialize creates before the sanity checks, and AppInitMain.
Base == {"warnings", "kernel", "ecc_context"}
Services == {"chainman", "mempool", "fee_estimator"}

-----------------------------------------------------------------------------
(* Getters *)

\* chainman(): the getters of the chain assert that it exists.
chainman(value) == IF "chainman" \in members THEN value ELSE Abort

getWarnings == IF "warnings" \in members THEN {} ELSE Abort
getExitStatus == exit_status
shutdownRequested == shutdown

\* The time of a block is its height.
GetBlockTime(block) == Chainman!nHeight(block)

BlockTip(block, hash) ==
    [block_height |-> Chainman!nHeight(block),
     block_time |-> GetBlockTime(block), block_hash |-> hash]

getHeaderTip ==
    chainman(IF best_header = Null THEN FALSE
             ELSE [height |-> Chainman!nHeight(best_header),
                   block_time |-> GetBlockTime(best_header)])

getNumBlocks == chainman(Chainman!Height)

Genesis == CHOOSE block \in Blocks : pprev[block] = Null

getBestBlockHash == chainman(IF tip # Null THEN tip ELSE Genesis)

getLastBlockTime ==
    chainman(GetBlockTime(IF tip # Null THEN tip ELSE Genesis))

isInitialBlockDownload == chainman(ibd)
isLoadingBlocks == chainman(loading)

\* ChainImpl
isReadyToBroadcast == chainman(~loading /\ ~ibd)

-----------------------------------------------------------------------------
(* uiInterface *)

\* Mutation: the handler of the block tip is written like that of the
\* header tip.
Convert_NullHash(signal, block) == BlockTip(block, Null)

\* handleNotifyBlockTip passes height, time and hash of the block on,
\* handleNotifyHeaderTip height and time with a null hash.
Convert(signal, block) ==
    BlockTip(block, IF signal = "NotifyBlockTip" THEN block ELSE Null)

\* The node has changed its tip or its best header and is to send a signal.
Changed(signal, block) == pending' = [signal |-> signal, block |-> block]

\* The node sends the signal, after the change and outside its lock: the
\* handler that is connected by then is called with it.
Fire ==
    /\ pending # Null
    /\ shown' = IF pending.signal \in connected
                THEN [shown EXCEPT ![pending.signal] =
                          Convert(pending.signal, pending.block)]
                ELSE shown
    /\ pending' = Null
    /\ UNCHANGED <<chainVars, poolVars, tipVars, lifeVars, connected>>

\* handleNotifyBlockTip and handleNotifyHeaderTip: MakeSignalHandler
\* connects the function that converts.
handle(signal) ==
    /\ signal \notin connected
    /\ connected' = connected \cup {signal}
    /\ UNCHANGED <<chainVars, poolVars, tipVars, lifeVars, shown, pending>>

\* Handler::disconnect of the handler a handle method returned; the
\* function it called goes with it.
disconnect(signal) ==
    /\ signal \in connected
    /\ connected' = connected \ {signal}
    /\ shown' = [shown EXCEPT ![signal] = Null]
    /\ UNCHANGED <<chainVars, poolVars, tipVars, lifeVars, pending>>

-----------------------------------------------------------------------------
(* The thread of main() *)

\* The six steps of baseInitialize; step 0 is that none fails.  Warnings,
\* kernel and ECC context exist from the third step on.
baseInitialize ==
    /\ main = "new"
    /\ \E failing \in 0..5 :
           /\ main' = IF failing = 0 THEN "based" ELSE "failed"
           /\ members' = IF failing \in {1, 2} THEN members
                         ELSE members \cup Base
    /\ UNCHANGED <<chainVars, poolVars, tipVars, exit_status, shutdown, uiVars>>

\* AppInitMain of the node: it answers true when it has made the chain,
\* the mempool and the fee estimator; when it fails, some of them can
\* exist.
AppInitMain ==
    /\ \E made \in SUBSET Services :
           /\ members' = members \cup (made \ {"mempool", "fee_estimator"})
           /\ mempool' = IF "mempool" \in made THEN {} ELSE Null
           /\ fee_estimator' =
                  IF "fee_estimator" \in made THEN Estimates ELSE Null
    /\ UNCHANGED <<chainVars, tipVars, shutdown, uiVars>>

\* What AppInitMain has answered.
Initialized == "chainman" \in members' /\ mempool' # Null /\ fee_estimator' # Null

\* Mutation: the result of AppInitMain is not looked at.
appInitMain_IgnoresResult ==
    /\ main = "based"
    /\ AppInitMain
    /\ main' = "running"
    /\ UNCHANGED exit_status

\* The result is passed on, and a failure stored as the exit status.
appInitMain ==
    /\ main = "based"
    /\ AppInitMain
    /\ main' = IF Initialized THEN "running" ELSE "failed"
    /\ exit_status' = IF Initialized THEN exit_status ELSE "EXIT_FAILURE"

\* startShutdown: a shutdown signal that cannot be sent is logged.
startShutdown ==
    /\ main # "down"
    /\ shutdown' \in {TRUE, shutdown}
    /\ UNCHANGED <<chainVars, poolVars, tipVars, main, members, exit_status,
                   uiVars>>

\* appShutdown: Interrupt and Shutdown take down what there is, wherever
\* main() has come to; a node is shut down once.
appShutdown ==
    /\ main # "down"
    /\ main' = "down"
    /\ members' = {}
    /\ index' = {} /\ have_data' = {} /\ tip' = Null
    /\ mempool' = Null /\ fee_estimator' = Null
    /\ best_header' = Null /\ loading' = TRUE /\ ibd' = TRUE
    /\ UNCHANGED <<cs_main, q, out, exit_status, shutdown, uiVars>>

-----------------------------------------------------------------------------
(* The node while it runs *)

Running == main = "running"

\* A header or a block arrives; a header with more work than the best one
\* is announced as the header tip.
AcceptBlock(block) ==
    /\ Running
    /\ Chainman!AcceptBlock(block)
    /\ pending = Null
    /\ IF best_header = Null
          \/ Chainman!nHeight(block) > Chainman!nHeight(best_header)
       THEN best_header' = block /\ Changed("NotifyHeaderTip", block)
       ELSE UNCHANGED <<best_header, pending>>
    /\ UNCHANGED <<poolVars, loading, ibd, lifeVars, connected, shown>>

\* The tip changes and is announced.
ActivateBestChain(block) ==
    /\ Running
    /\ pending = Null
    /\ Chainman!ActivateBestChain(block)
    /\ Changed("NotifyBlockTip", block)
    /\ UNCHANGED <<poolVars, tipVars, lifeVars, connected, shown>>

PruneBlock(block) ==
    /\ Running
    /\ Chainman!PruneBlock(block)
    /\ UNCHANGED <<poolVars, tipVars, lifeVars, uiVars>>

\* The import of block files ends; with a tip, the initial block download
\* ends after it and for good.
Synced ==
    /\ Running
    /\ \/ loading /\ loading' = FALSE /\ UNCHANGED ibd
       \/ ~loading /\ ibd /\ tip # Null /\ ibd' = FALSE /\ UNCHANGED loading
    /\ UNCHANGED <<chainVars, poolVars, best_header, lifeVars, uiVars>>

broadcastTransaction(tx) ==
    /\ Running
    /\ Pool!broadcastTransaction(tx)
    /\ UNCHANGED <<chainVars, tipVars, lifeVars, uiVars>>

removeForBlock(tx) ==
    /\ Running
    /\ Pool!removeForBlock(tx)
    /\ UNCHANGED <<chainVars, tipVars, lifeVars, uiVars>>

-----------------------------------------------------------------------------

Init ==
    /\ Chainman!Init
    /\ mempool = Null /\ fee_estimator = Null
    /\ main = "new" /\ members = {} /\ exit_status = "EXIT_SUCCESS"
    /\ shutdown = FALSE
    /\ best_header = Null /\ loading = TRUE /\ ibd = TRUE
    /\ connected = {} /\ shown = [signal \in Connectable |-> Null]
    /\ pending = Null

Main == baseInitialize \/ appInitMain \/ appShutdown

Client ==
    \/ startShutdown
    \/ \E signal \in Connectable : handle(signal) \/ disconnect(signal)
    \/ \E tx \in Txs : broadcastTransaction(tx)

Node ==
    \/ \E block \in Blocks :
           AcceptBlock(block) \/ ActivateBestChain(block) \/ PruneBlock(block)
    \/ \E tx \in Txs : removeForBlock(tx)
    \/ Synced
    \/ Fire

Next == Main \/ Client \/ Node

Spec == Init /\ [][Next]_vars

-----------------------------------------------------------------------------
(* Properties *)

\* The type of the state of the node: where main() is, the members of the
\* context, and what each connected handler was last shown.
TypeOK ==
    /\ Pool!TypeOK
    /\ main \in {"new", "based", "running", "failed", "down"}
    /\ members \subseteq Base \cup {"chainman"}
    /\ exit_status \in {"EXIT_SUCCESS", "EXIT_FAILURE"}
    /\ shutdown \in BOOLEAN /\ loading \in BOOLEAN /\ ibd \in BOOLEAN
    /\ best_header \in Blocks \cup {Null}
    /\ connected \subseteq Connectable
    /\ \A signal \in Connectable :
           shown[signal] \in {Null} \cup
               [block_height : Nat, block_time : Nat,
                block_hash : Blocks \cup {Null}]
    /\ pending \in {Null} \cup [signal : Connectable, block : Blocks]

\* ChainImpl::hasBlocks on the block index of this node: the answer of the
\* loop is that of the set definition in its comment (Chain).
HasBlocksInRange == Chainman!HasBlocksInRange

\* Whenever the node has no signal to send, what the connected handlers of
\* handleNotifyBlockTip and handleNotifyHeaderTip were last called with is
\* what getNumBlocks, getLastBlockTime and getBestBlockHash, and
\* getHeaderTip, answer: the BlockTip the handler gets names the block the
\* getters name, for a handler that was connected before the change, between
\* the change and its signal, or connected again.  The hash of a header tip
\* is null.
TipsShownAreCurrent ==
    Running /\ pending = Null =>
        /\ "NotifyBlockTip" \in connected /\ shown.NotifyBlockTip # Null =>
               shown.NotifyBlockTip =
                   [block_height |-> getNumBlocks,
                    block_time |-> getLastBlockTime,
                    block_hash |-> getBestBlockHash]
        /\ "NotifyHeaderTip" \in connected /\ shown.NotifyHeaderTip # Null =>
               /\ shown.NotifyHeaderTip.block_height = getHeaderTip.height
               /\ shown.NotifyHeaderTip.block_time = getHeaderTip.block_time
               /\ shown.NotifyHeaderTip.block_hash = Null

\* ChainImpl::hasDescendantsInMempool on the mempool of this node: true
\* exactly for a transaction another one in the mempool spends (Mempool).
DescendantsAreSpenders == Pool!DescendantsAreSpenders

\* No getter of a node that runs meets a member that is missing: the
\* getters Assert on m_context->warnings and on m_context->chainman, which
\* baseInitialize makes only past its second step and AppInitMain only
\* when it succeeds, and which appShutdown takes away.
GettersAnswerWhileRunning ==
    Running =>
        /\ getWarnings # Abort /\ getHeaderTip # Abort
        /\ getNumBlocks # Abort /\ getBestBlockHash # Abort
        /\ getLastBlockTime # Abort /\ isReadyToBroadcast # Abort
        /\ isInitialBlockDownload # Abort /\ isLoadingBlocks # Abort

=============================================================================
