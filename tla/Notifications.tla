--------------------------- MODULE Notifications ---------------------------
(***************************************************************************)
(* Validation notifications through the Chain interface                    *)
(* (src/node/interfaces.cpp): NotificationsProxy (336-366),                *)
(* NotificationsHandlerImpl (368-386), ChainImpl::handleNotifications,     *)
(* waitForNotificationsIfTipChanged (607-615) and                          *)
(* requestMempoolTransactions (663-670).                                   *)
(*                                                                         *)
(* The node's validation and mempool threads put events on the queue of    *)
(* ValidationSignals; its scheduler thread executes them in order, each    *)
(* for the proxies registered at that moment.  A client owns one           *)
(* Notifications object, at most one handler at a time, and calls the      *)
(* interface from its own thread; every handler is made for a new          *)
(* Notifications object.  A block is the number of the tip it makes, 0     *)
(* for the null hash.                                                      *)
(***************************************************************************)
EXTENDS Naturals, Sequences, FiniteSets

CONSTANTS
    Clients,    \* the owners of Notifications objects
    Txs,        \* transactions
    NoMempool,  \* m_node.mempool of a node without a mempool
    MaxHeight,  \* bound: blocks connected
    MaxQueue    \* bound: events of the node waiting in the queue

VARIABLES
    tip,         \* ActiveChain().Tip(), 0 for an empty chain
    mempool,     \* the transactions of m_node.mempool, or NoMempool
    queue,       \* the callbacks ValidationSignals has not executed yet
    registered,  \* the proxies registered with ValidationSignals
    m_proxy,     \* per client: the m_proxy of its handler
    seen,        \* per client: the last block its Notifications was told
    known,       \* per client: the transactions its Notifications holds
    wait,        \* per client: its call of waitForNotificationsIfTipChanged
    replayed     \* history: the clients that asked for the mempool since
                 \* they registered

vars == <<tip, mempool, queue, registered, m_proxy, seen, known, wait,
          replayed>>
nodeVars == <<tip, mempool>>
clientVars == <<seen, known, replayed>>

Event(kind, arg) == [kind |-> kind, arg |-> arg]

\* NotificationsProxy: the method of Notifications each callback is passed
\* on to.
NotificationsProxy ==
    [TransactionAddedToMempool |-> "transactionAddedToMempool",
     TransactionRemovedFromMempool |-> "transactionRemovedFromMempool",
     BlockConnected |-> "blockConnected",
     BlockDisconnected |-> "blockDisconnected",
     UpdatedBlockTip |-> "updatedBlockTip",
     ChainStateFlushed |-> "chainStateFlushed"]

\* What the Notifications of a client holds after a call.
Told(view, method, arg) ==
    CASE method = "transactionAddedToMempool" ->
             [view EXCEPT !.known = @ \cup {arg}]
      [] method = "transactionRemovedFromMempool" ->
             [view EXCEPT !.known = @ \ {arg}]
      [] method = "blockConnected" -> [view EXCEPT !.seen = arg]
      [] OTHER -> view

View(c) == [seen |-> seen[c], known |-> known[c]]
NoView == [seen |-> 0, known |-> {}]

SetViews(views) ==
    /\ seen' = [c \in Clients |-> views[c].seen]
    /\ known' = [c \in Clients |-> views[c].known]

-----------------------------------------------------------------------------
(* The handler *)

\* The constructor: a proxy for the Notifications, registered with
\* ValidationSignals.
NotificationsHandlerImpl(c) ==
    /\ m_proxy' = [m_proxy EXCEPT ![c] = "set"]
    /\ registered' = registered \cup {c}

handleNotifications(c) ==
    /\ m_proxy[c] = "none"
    /\ NotificationsHandlerImpl(c)
    /\ SetViews([d \in Clients |-> IF d = c THEN NoView ELSE View(d)])
    /\ replayed' = replayed \ {c}
    /\ UNCHANGED <<nodeVars, queue, wait>>

\* Mutation: the proxy is unregistered and kept.
Disconnected_KeepsProxy(proxy) == proxy

\* m_proxy after disconnect()
Disconnected(proxy) == IF proxy = "set" THEN "reset" ELSE proxy

disconnect(c) ==
    /\ m_proxy[c] # "none"
    /\ registered' = IF m_proxy[c] = "set" THEN registered \ {c}
                                           ELSE registered
    /\ m_proxy' = [m_proxy EXCEPT ![c] = Disconnected(@)]
    /\ UNCHANGED <<nodeVars, queue, clientVars, wait>>

\* ~NotificationsHandlerImpl: disconnect(), and the handler is gone.
Destroy(c) ==
    /\ m_proxy[c] # "none"
    /\ registered' = IF m_proxy[c] = "set" THEN registered \ {c}
                                           ELSE registered
    /\ m_proxy' = [m_proxy EXCEPT ![c] = "none"]
    /\ UNCHANGED <<nodeVars, queue, clientVars, wait>>

-----------------------------------------------------------------------------
(* The calls of a client *)

Idle == [pc |-> "idle"]

\* Mutation: a null old_tip counts as the current tip.
TipUnchanged_NullIsCurrent(old_tip) == old_tip = 0 \/ old_tip = tip

\* The test of waitForNotificationsIfTipChanged for the early return.
TipUnchanged(old_tip) == old_tip # 0 /\ old_tip = tip

\* Mutation: the caller waits for a callback it never queued.
waitForNotificationsIfTipChanged_NoCallback(c, old_tip) ==
    /\ wait[c] = Idle
    /\ wait' = [wait EXCEPT ![c] = [pc |-> IF TipUnchanged(old_tip)
                                           THEN "done" ELSE "sync",
                                    tip |-> tip]]
    /\ UNCHANGED <<nodeVars, queue, registered, m_proxy, clientVars>>

\* The call, up to the return or to the callback that
\* SyncWithValidationInterfaceQueue puts on the queue.  A client passes the
\* last block it processed.
waitForNotificationsIfTipChanged(c, old_tip) ==
    /\ wait[c] = Idle
    /\ IF TipUnchanged(old_tip)
       THEN /\ wait' = [wait EXCEPT ![c] = [pc |-> "done", tip |-> tip]]
            /\ UNCHANGED queue
       ELSE /\ wait' = [wait EXCEPT ![c] = [pc |-> "sync", tip |-> tip]]
            /\ queue' = Append(queue, Event("Sync", c))
    /\ UNCHANGED <<nodeVars, registered, m_proxy, clientVars>>

WaitReturn(c) ==
    /\ wait[c].pc = "done"
    /\ wait' = [wait EXCEPT ![c] = Idle]
    /\ UNCHANGED <<nodeVars, queue, registered, m_proxy, clientVars>>

\* Mutation: the transactions are announced as removed.
MempoolReplay_Removed(view) ==
    IF mempool = NoMempool THEN view
    ELSE [view EXCEPT !.known = @ \ mempool]

\* requestMempoolTransactions: nothing without a mempool, else the loop
\* over entryAll().
MempoolReplay(view) ==
    IF mempool = NoMempool THEN view
    ELSE [view EXCEPT !.known = @ \cup mempool]

requestMempoolTransactions(c) ==
    /\ wait[c] = Idle
    /\ SetViews([d \in Clients |-> IF d = c THEN MempoolReplay(View(c))
                                            ELSE View(d)])
    /\ replayed' = replayed \cup {c}
    /\ UNCHANGED <<nodeVars, queue, registered, m_proxy, wait>>

-----------------------------------------------------------------------------
(* ValidationSignals and the node *)

Pending == Len(SelectSeq(queue, LAMBDA e : e.kind # "Sync"))

Enqueue(events) ==
    /\ Pending + Len(events) <= MaxQueue
    /\ queue' = queue \o events

ConnectBlock ==
    /\ tip < MaxHeight
    /\ tip' = tip + 1
    /\ Enqueue(<<Event("BlockConnected", tip + 1),
                 Event("UpdatedBlockTip", tip + 1)>>)
    /\ UNCHANGED <<mempool, registered, m_proxy, clientVars, wait>>

AddToMempool(tx) ==
    /\ mempool # NoMempool
    /\ tx \notin mempool
    /\ mempool' = mempool \cup {tx}
    /\ Enqueue(<<Event("TransactionAddedToMempool", tx)>>)
    /\ UNCHANGED <<tip, registered, m_proxy, clientVars, wait>>

RemoveFromMempool(tx) ==
    /\ mempool # NoMempool
    /\ tx \in mempool
    /\ mempool' = mempool \ {tx}
    /\ Enqueue(<<Event("TransactionRemovedFromMempool", tx)>>)
    /\ UNCHANGED <<tip, registered, m_proxy, clientVars, wait>>

\* The scheduler thread executes the callback at the head of the queue: an
\* event goes to every proxy registered now, the callback of a
\* SyncWithValidationInterfaceQueue releases its caller.
Execute ==
    /\ queue # <<>>
    /\ queue' = Tail(queue)
    /\ LET e == Head(queue)
       IN  IF e.kind = "Sync"
           THEN /\ wait' = [wait EXCEPT ![e.arg].pc = "done"]
                /\ UNCHANGED <<seen, known>>
           ELSE /\ SetViews([c \in Clients |->
                       IF c \in registered
                       THEN Told(View(c), NotificationsProxy[e.kind], e.arg)
                       ELSE View(c)])
                /\ UNCHANGED wait
    /\ UNCHANGED <<nodeVars, registered, m_proxy, replayed>>

-----------------------------------------------------------------------------

Init ==
    /\ tip = 0
    /\ mempool \in {{}, NoMempool}
    /\ queue = <<>>
    /\ registered = {}
    /\ m_proxy = [c \in Clients |-> "none"]
    /\ seen = [c \in Clients |-> 0]
    /\ known = [c \in Clients |-> {}]
    /\ wait = [c \in Clients |-> Idle]
    /\ replayed = {}

Client(c) ==
    \/ handleNotifications(c)
    \/ disconnect(c)
    \/ Destroy(c)
    \/ \E old_tip \in {0, seen[c]} : waitForNotificationsIfTipChanged(c, old_tip)
    \/ WaitReturn(c)
    \/ requestMempoolTransactions(c)

Node ==
    \/ ConnectBlock
    \/ \E tx \in Txs : AddToMempool(tx) \/ RemoveFromMempool(tx)

Next == (\E c \in Clients : Client(c)) \/ Node \/ Execute

Spec == Init /\ [][Next]_vars

\* The scheduler thread runs whenever the queue holds a callback.
FairSpec == Spec /\ WF_vars(Execute)

-----------------------------------------------------------------------------

Events == [kind : DOMAIN NotificationsProxy, arg : Txs \cup (1..MaxHeight)]
              \cup [kind : {"Sync"}, arg : Clients]

\* The type of the state, and that a handler is registered exactly while its
\* m_proxy is set: disconnect() and the destructor after it unregister once.
TypeOK ==
    /\ tip \in 0..MaxHeight
    /\ mempool = NoMempool \/ mempool \subseteq Txs
    /\ queue \in Seq(Events)
    /\ m_proxy \in [Clients -> {"none", "set", "reset"}]
    /\ registered = {c \in Clients : m_proxy[c] = "set"}
    /\ seen \in [Clients -> 0..MaxHeight]
    /\ known \in [Clients -> SUBSET Txs]
    /\ \A c \in Clients : wait[c].pc \in {"idle", "sync", "done"}

\* When waitForNotificationsIfTipChanged returns to a client that passed the
\* last block it was told of, no notification of a block that was connected
\* before the call is still waiting in the queue: the early return for an
\* unchanged tip skips nothing.
NothingPendingAfterWait ==
    \A c \in Clients : wait[c].pc = "done" =>
        \A i \in 1..Len(queue) :
            queue[i].kind = "BlockConnected" => queue[i].arg > wait[c].tip

\* A client that registered and then called requestMempoolTransactions holds
\* exactly the mempool whenever the queue is empty, although the replay
\* overtakes the events that were waiting in the queue when it ran.
MempoolViewConverges ==
    \A c \in Clients :
        (queue = <<>> /\ c \in registered /\ c \in replayed) =>
            known[c] = IF mempool = NoMempool THEN {} ELSE mempool

\* Under a scheduler thread that keeps running, every call of
\* waitForNotificationsIfTipChanged returns.
WaitReturns ==
    \A c \in Clients : wait[c].pc = "sync" ~> wait[c].pc = "done"

=============================================================================
