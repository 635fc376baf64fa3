-------------------------- MODULE TemplateProvider --------------------------
(***************************************************************************)
(* The core of the Template Provider, composed with the node it calls:     *)
(* the connection manager that takes each peer from the handshake to       *)
(* STREAMING, and the template engine whose template loop is the one       *)
(* caller of the Mining interface (module Mining: MinerImpl and            *)
(* BlockTemplateImpl of src/node/interfaces.cpp).                          *)
(*                                                                         *)
(* The core is not part of the sources this project has; it is modelled    *)
(* from the specification of the system (sections 3, 4.5, 4.6, 5 and 7).   *)
(* Handshake, transport and codec are abstracted to their outcome: the     *)
(* bytes of a handshake step are well formed or not, a record decodes to   *)
(* a message or the connection fails.  A message a peer sends is received  *)
(* in the step the peer sends it: the socket keeps the order.              *)
(***************************************************************************)
EXTENDS Mining, SequencesExt

CONSTANTS
    Peers,      \* the sockets the listener may accept
    Loop,       \* the template loop, the caller of the Mining interface
    Version,    \* the protocol version the Template Provider supports
    fee_delta,  \* a candidate is pushed when its fees rose by this much
    MaxQueue,   \* the messages an outbound queue holds (64 by default)
    MaxId,      \* u64::MAX, where the template_id counter saturates
    MaxSubmit,  \* bound: the solutions waiting for the template loop
    MaxReplies, \* bound: the replies of a receive task in a queue
    Subsidy     \* the block subsidy

ASSUME
    /\ Loop \in Callers
    /\ fee_delta \in Nat \ {0}
    /\ MaxQueue \in Nat /\ MaxId \in Nat \ {0}
    /\ MaxSubmit \in Nat /\ MaxReplies \in Nat /\ Subsidy \in Nat

VARIABLES
    phase,      \* per peer: the state of its connection
    constraints,\* per peer: the options of its CoinbaseOutputConstraints
    records,    \* per peer: the TemplateRecords it may submit a solution for
    sent,       \* per peer: the TemplateRecord last pushed to it
    outq,       \* per peer: the outbound queue
    next_id,    \* the template_id counter
    loop,       \* the template loop
    submissions,\* the solutions the receive tasks hand to the template loop
    shutdown    \* the shutdown flag

peerVars == <<phase, constraints, records, sent, outq>>
engineVars == <<next_id, loop, submissions>>
miningVars == <<tip, fees, interrupt, templates, call, ret>>
allVars == <<miningVars, peerVars, engineVars, shutdown>>

Phases == {"NONE", "HANDSHAKE_STEP1", "HANDSHAKE_STEP2", "SETUP",
           "CONSTRAINED_WAIT", "STREAMING", "CLOSED"}

Open == {p \in Peers : phase[p] \notin {"NONE", "CLOSED"}}
Streaming == {p \in Peers : phase[p] = "STREAMING"}

-----------------------------------------------------------------------------
(* Data *)

\* What of a coinbase differs between two templates on one tip: the
\* subsidy and the fees left for the outputs of the client.  version,
\* sequence, script_sig_prefix, witness, required_outputs and lock_time
\* follow from the tip.
CoinbaseTemplate == [value_remaining : Subsidy..(Subsidy + MaxFees)]

\* The coinbase of template t of the node.
CoinbaseOf(t) == [value_remaining |-> Subsidy + getCoinbaseTx(t).fees]

\* tmpl is the BlockTemplate the record was built from.
TemplateRecord == [template_id : 1..MaxId, prev_hash : 1..MaxHeight,
                   coinbase_template : CoinbaseTemplate,
                   fees : 0..MaxFees, tmpl : 1..MaxTemplates]

\* A session that was sent no template: template_id 0 is reserved.
NoTemplate == [template_id |-> 0, prev_hash |-> ZERO,
               coinbase_template |-> [value_remaining |-> 0],
               fees |-> 0, tmpl |-> Null]

\* SHA256(prev_hash || coinbase || count || txids): what two templates
\* with the same content share.
Fingerprint(r) == <<r.prev_hash, r.coinbase_template, r.fees>>

Msg(type, id) == [type |-> type, id |-> id]

\* What the template loop queues; any other message is the reply of a
\* receive task.
Broadcasts == {"NEW_TEMPLATE", "SET_NEW_PREV_HASH"}

ServerTypes == {"SETUP_CONNECTION.SUCCESS", "SETUP_CONNECTION.ERROR",
                "NEW_TEMPLATE", "SET_NEW_PREV_HASH",
                "REQUEST_TRANSACTION_DATA.SUCCESS",
                "REQUEST_TRANSACTION_DATA.ERROR"}

\* protocol 2 is Template Distribution; the message of the test peer has
\* protocol 2 and both versions 2.
SetupConnection == [type : {"SETUP_CONNECTION"}, protocol : {1, 2},
                    min_ver : {Version, Version + 1},
                    max_ver : {Version - 1, Version}]

ClientMessages ==
    SetupConnection
    \cup [type : {"COINBASE_OUTPUT_CONSTRAINTS"}, options : Options]
    \cup [type : {"SUBMIT_SOLUTION"}, id : 1..MaxId, solution : Solutions]
    \cup [type : {"REQUEST_TRANSACTION_DATA"}, id : 1..MaxId]

-----------------------------------------------------------------------------
(* Connection manager *)

\* f with the value v for the peers ps.
Reset(f, ps, v) == [p \in Peers |-> IF p \in ps THEN v ELSE f[p]]

\* The sessions end: the socket is released, the outbound buffer cleared,
\* the ClientSession destroyed; the peer reads no more.
Closed(ps) ==
    /\ phase' = Reset(phase, ps, "CLOSED")
    /\ outq' = Reset(outq, ps, <<>>)
    /\ records' = Reset(records, ps, {})
    /\ sent' = Reset(sent, ps, NoTemplate)
    /\ constraints' = Reset(constraints, ps, DefaultOptions)

Goes(p, to) == phase' = [phase EXCEPT ![p] = to]

Replies(p) == SelectSeq(outq[p], LAMBDA m : m.type \notin Broadcasts)

\* A reply of the receive task: it waits for room in the queue.
Reply(p, type) ==
    /\ Len(outq[p]) < MaxQueue
    /\ Len(Replies(p)) < MaxReplies                      \* bound
    /\ outq' = [outq EXCEPT ![p] = Append(@, Msg(type, 0))]

\* The listener accepts a socket.
Accept(p) ==
    /\ ~shutdown
    /\ phase[p] = "NONE"
    /\ Goes(p, "HANDSHAKE_STEP1")
    /\ UNCHANGED <<miningVars, constraints, records, sent, outq, engineVars,
                   shutdown>>

\* The 32 bytes of the first handshake message, the 170 bytes of the
\* answer: a step that fails closes the connection and emits nothing.
Handshake(p) ==
    /\ ~shutdown
    /\ \/ phase[p] = "HANDSHAKE_STEP1" /\ Goes(p, "HANDSHAKE_STEP2")
       \/ phase[p] = "HANDSHAKE_STEP2" /\ Goes(p, "SETUP")
    /\ UNCHANGED <<miningVars, constraints, records, sent, outq, engineVars,
                   shutdown>>

\* A malformed or unauthentic handshake, the 10 s of the handshake over,
\* a record that does not decrypt, a socket error, the peer gone.
Fails(p) ==
    /\ p \in Open
    /\ Closed({p})
    /\ UNCHANGED <<miningVars, engineVars, shutdown>>

\* The receive task of p has a message to handle in phase ph.
Reading(p, ph) == ~shutdown /\ phase[p] = ph

\* protocol must be 2 and the supported version within [min_ver, max_ver].
Valid(m) ==
    /\ m.protocol = 2
    /\ m.min_ver <= Version
    /\ Version <= m.max_ver

\* SETUP_CONNECTION in SETUP: SUCCESS, or ERROR and the end of the
\* connection.
Setup(p, m) ==
    /\ Reading(p, "SETUP")
    /\ m.type = "SETUP_CONNECTION"
    /\ IF Valid(m)
       THEN /\ Reply(p, "SETUP_CONNECTION.SUCCESS")
            /\ Goes(p, "CONSTRAINED_WAIT")
            /\ UNCHANGED <<constraints, records, sent>>
       ELSE Closed({p})
    /\ UNCHANGED <<miningVars, engineVars, shutdown>>

\* COINBASE_OUTPUT_CONSTRAINTS in CONSTRAINED_WAIT: the session streams.
Constrain(p, m) ==
    /\ Reading(p, "CONSTRAINED_WAIT")
    /\ m.type = "COINBASE_OUTPUT_CONSTRAINTS"
    /\ constraints' = [constraints EXCEPT ![p] = m.options]
    /\ Goes(p, "STREAMING")
    /\ UNCHANGED <<miningVars, records, sent, outq, engineVars, shutdown>>

\* What a phase expects of a peer.
Expected(ph) ==
    CASE ph = "SETUP" -> {"SETUP_CONNECTION"}
      [] ph = "CONSTRAINED_WAIT" -> {"COINBASE_OUTPUT_CONSTRAINTS"}
      [] ph = "STREAMING" -> {"SUBMIT_SOLUTION", "REQUEST_TRANSACTION_DATA"}
      [] OTHER -> {}

\* ProtocolViolation: SETUP_CONNECTION.ERROR before STREAMING, the end of
\* the connection in STREAMING.
Violates(p, m) ==
    /\ \E ph \in {"SETUP", "CONSTRAINED_WAIT", "STREAMING"} : Reading(p, ph)
    /\ m.type \notin Expected(phase[p])
    /\ IF phase[p] = "STREAMING"
       THEN Closed({p})
       ELSE /\ Reply(p, "SETUP_CONNECTION.ERROR")
            /\ UNCHANGED <<phase, constraints, records, sent>>
    /\ UNCHANGED <<miningVars, engineVars, shutdown>>

\* The guarded lookup in the map of the session.
Lookup(p, id) == {r \in records[p] : r.template_id = id}

\* SUBMIT_SOLUTION: a solution for a template of this session goes to the
\* template loop, in the order of receipt; any other is dropped and not
\* answered.
Submit(p, m) ==
    /\ Reading(p, "STREAMING")
    /\ m.type = "SUBMIT_SOLUTION"
    /\ Lookup(p, m.id) # {}
    /\ Len(submissions) < MaxSubmit                       \* bound
    /\ submissions' = Append(submissions,
                             [peer |-> p, solution |-> m.solution,
                              tmpl |-> (CHOOSE r \in Lookup(p, m.id) : TRUE).tmpl])
    /\ UNCHANGED <<miningVars, peerVars, next_id, loop, shutdown>>

\* REQUEST_TRANSACTION_DATA: the transactions of a template of this
\* session, or template-id-not-found.
RequestTransactionData(p, m) ==
    /\ Reading(p, "STREAMING")
    /\ m.type = "REQUEST_TRANSACTION_DATA"
    /\ Reply(p, IF Lookup(p, m.id) # {}
                THEN "REQUEST_TRANSACTION_DATA.SUCCESS"
                ELSE "REQUEST_TRANSACTION_DATA.ERROR")
    /\ UNCHANGED <<miningVars, phase, constraints, records, sent, engineVars,
                   shutdown>>

\* The send side of a session writes the head of its queue to the socket,
\* and the peer reads it.
Deliver(p) ==
    /\ ~shutdown
    /\ outq[p] # <<>>
    /\ outq' = [outq EXCEPT ![p] = Tail(@)]
    /\ UNCHANGED <<miningVars, phase, constraints, records, sent, engineVars,
                   shutdown>>

\* The receive task of a peer.
Receive(p) ==
    \/ Handshake(p)
    \/ Fails(p)
    \/ \E m \in ClientMessages :
          \/ Setup(p, m) \/ Constrain(p, m) \/ Violates(p, m)
          \/ Submit(p, m) \/ RequestTransactionData(p, m)

-----------------------------------------------------------------------------
(* Template engine *)

NoPeer == Null

Waiting == [pc |-> "idle", current |-> loop.current, todo |-> {},
            peer |-> NoPeer]

\* The template loop has the answer of the call it made, and no shutdown
\* flag to see first.
Answered(pc) == loop.pc = pc /\ ~Blocked(Loop) /\ ~shutdown

\* NodeUnavailable: every peer is closed, the loop backs off.
NodeUnavailable ==
    /\ Closed(Open)
    /\ loop' = [Waiting EXCEPT !.pc = "backoff"]

\* The round of a trigger: a candidate for each of the peers.
Round(peers) == [Waiting EXCEPT !.pc = "round", !.todo = peers]

\* A session that streams and was sent nothing yet.
New(p) == p \in Streaming /\ sent[p] = NoTemplate

\* Trigger (c): a client that has begun to stream gets the best template
\* at once.
ServesNew ==
    /\ loop.pc = "idle"
    /\ ~shutdown
    /\ \E p \in Peers : New(p) /\ loop' = Round({p})
    /\ UNCHANGED <<miningVars, peerVars, next_id, submissions, shutdown>>

\* With nothing else to do the loop waits for trigger (a), with the
\* fee_check_interval of trigger (b) as the timeout.
Waits ==
    /\ loop.pc = "idle"
    /\ ~shutdown
    /\ submissions = <<>> /\ \A p \in Peers : ~New(p)
    /\ WaitTipChangedCall(Loop, loop.current, TRUE)
    /\ loop' = [loop EXCEPT !.pc = "wait"]
    /\ UNCHANGED <<peerVars, next_id, submissions, shutdown>>

\* The wait answers, with another tip (a) or at the end of the interval
\* (b): a round for every session that streams.
Triggered ==
    /\ Answered("wait")
    /\ LET best == ret[Loop].val
       IN  IF best = Null
           THEN NodeUnavailable
           ELSE /\ loop' = [Round(Streaming) EXCEPT !.current = best]
                /\ UNCHANGED peerVars
    /\ UNCHANGED <<miningVars, next_id, submissions, shutdown>>

\* createNewBlock with the constraints of a peer of the round.
Builds(p) ==
    /\ loop.pc = "round"
    /\ ~shutdown
    /\ p \in loop.todo \cap Streaming
    /\ CreateNewBlockCall(Loop, constraints[p])
    /\ loop' = [loop EXCEPT !.pc = "build", !.todo = @ \ {p}, !.peer = p]
    /\ UNCHANGED <<peerVars, next_id, submissions, shutdown>>

RoundEnds ==
    /\ loop.pc = "round"
    /\ loop.todo \cap Streaming = {}
    /\ loop' = Waiting
    /\ UNCHANGED <<miningVars, peerVars, next_id, submissions, shutdown>>

\* What the block template yields: the record but for its template_id.
Candidate(t) ==
    [template_id |-> 0, prev_hash |-> templates[t].prev,
     coinbase_template |-> CoinbaseOf(t), fees |-> getTxFees(t), tmpl |-> t]

\* Mutation: the fee threshold decides whatever the tip.
Wanted_FeesOnly(p, r) ==
    /\ Fingerprint(r) # Fingerprint(sent[p])
    /\ sent[p] # NoTemplate => r.fees >= sent[p].fees + fee_delta

\* A candidate with the fingerprint of the template last sent is not
\* news; one on the same prev_hash is news when its fees are fee_delta
\* above those last sent; one on another prev_hash always is.
Wanted(p, r) ==
    /\ Fingerprint(r) # Fingerprint(sent[p])
    /\ r.prev_hash = sent[p].prev_hash => r.fees >= sent[p].fees + fee_delta

\* Mutation: the peer of the call is taken to be there still.
Eligible_AtCall(p) == TRUE

\* The session may have ended while the node assembled.
Eligible(p) == p \in Streaming

\* Mutation: a queue with room for one frame takes the broadcast.
HasRoom_ForOne(p) == Len(outq[p]) < MaxQueue

\* Both frames of a broadcast are queued, or none.
HasRoom(p) == Len(outq[p]) + 2 <= MaxQueue

\* Mutation: SET_NEW_PREV_HASH goes first.
Pair_PrevHashFirst(id) == <<Msg("SET_NEW_PREV_HASH", id), Msg("NEW_TEMPLATE", id)>>

\* NEW_TEMPLATE, then its SET_NEW_PREV_HASH.
Pair(id) == <<Msg("NEW_TEMPLATE", id), Msg("SET_NEW_PREV_HASH", id)>>

\* The records of another prev_hash go when SET_NEW_PREV_HASH is sent.
Pruned(rs, prev_hash) == {r \in rs : r.prev_hash = prev_hash}

\* The record is kept; the broadcast is queued, or dropped when the queue
\* of the peer is full.
Push(p, r) ==
    IF HasRoom(p)
    THEN /\ outq' = [outq EXCEPT ![p] = @ \o Pair(r.template_id)]
         /\ sent' = [sent EXCEPT ![p] = r]
         /\ records' = [records EXCEPT ![p] = Pruned(@ \cup {r}, r.prev_hash)]
    ELSE /\ records' = [records EXCEPT ![p] = @ \cup {r}]
         /\ UNCHANGED <<outq, sent>>

\* The answer of createNewBlock: a candidate that is news takes the next
\* template_id, unless the counter is at its end, and is pushed.
Built ==
    /\ Answered("build")
    /\ LET p == loop.peer
           t == ret[Loop].val
       IN  IF t = Null
           THEN NodeUnavailable /\ UNCHANGED next_id
           ELSE /\ loop' = Round(loop.todo)
                /\ IF Eligible(p) /\ Wanted(p, Candidate(t)) /\ next_id < MaxId
                   THEN /\ Push(p, [Candidate(t) EXCEPT !.template_id = next_id])
                        /\ next_id' = next_id + 1
                   ELSE UNCHANGED <<outq, sent, records, next_id>>
                /\ UNCHANGED <<phase, constraints>>
    /\ UNCHANGED <<miningVars, submissions, shutdown>>

\* submitSolution for the oldest solution that waits; what the node
\* answers is not passed on.
Forwards ==
    /\ loop.pc = "idle"
    /\ ~shutdown
    /\ submissions # <<>>
    /\ SubmitSolution(Loop, Head(submissions).tmpl, Head(submissions).solution)
    /\ submissions' = Tail(submissions)
    /\ UNCHANGED <<peerVars, next_id, loop, shutdown>>

\* The upstream connection is tried again.
Retries ==
    /\ loop.pc = "backoff"
    /\ ~shutdown
    /\ loop' = Waiting
    /\ UNCHANGED <<miningVars, peerVars, next_id, submissions, shutdown>>

\* The loop sees the shutdown flag: between two calls, or when a call in
\* flight has had its 5 s.
Exits ==
    /\ shutdown
    /\ loop.pc # "exited"
    /\ loop' = [Waiting EXCEPT !.pc = "exited"]
    /\ UNCHANGED <<miningVars, peerVars, next_id, submissions, shutdown>>

TemplateLoop ==
    \/ ServesNew \/ Waits \/ Triggered \/ RoundEnds \/ Built
    \/ Forwards \/ Retries \/ Exits
    \/ \E p \in Peers : Builds(p)

-----------------------------------------------------------------------------

\* The process is told to stop: the listener accepts no more, the receive
\* tasks end (Fails) and the template loop exits when they see the flag.
Shutdown ==
    /\ ~shutdown
    /\ shutdown' = TRUE
    /\ UNCHANGED <<miningVars, peerVars, engineVars>>

ProviderInit ==
    /\ Init
    /\ phase = [p \in Peers |-> "NONE"]
    /\ constraints = [p \in Peers |-> DefaultOptions]
    /\ records = [p \in Peers |-> {}]
    /\ sent = [p \in Peers |-> NoTemplate]
    /\ outq = [p \in Peers |-> <<>>]
    /\ next_id = 1
    /\ loop = [pc |-> "idle", current |-> ZERO, todo |-> {}, peer |-> NoPeer]
    /\ submissions = <<>>
    /\ shutdown = FALSE

\* The answers of the node to the calls of the loop.
Answers == Answer(Loop) /\ UNCHANGED <<peerVars, engineVars, shutdown>>

\* What the node does by itself.
Upstream == Node /\ UNCHANGED <<peerVars, engineVars, shutdown>>

ProviderNext ==
    \/ \E p \in Peers : Accept(p) \/ Receive(p) \/ Deliver(p)
    \/ TemplateLoop
    \/ Answers
    \/ Upstream
    \/ Shutdown

\* The template loop is a task of its own and runs when it can; a call of
\* the loop that can answer does (Mining!Fairness).  Nothing is assumed of
\* the peers, of the chain or of the mempool.
ProviderFairness == WF_allVars(TemplateLoop) /\ WF_allVars(Answers)

ProviderSpec == ProviderInit /\ [][ProviderNext]_allVars /\ ProviderFairness

-----------------------------------------------------------------------------

Message == [type : ServerTypes, id : 0..MaxId]

LoopState == [pc : {"idle", "wait", "round", "build", "backoff", "exited"},
              current : 0..MaxHeight, todo : SUBSET Peers,
              peer : Peers \cup {NoPeer}]

Submission == [peer : Peers, solution : Solutions, tmpl : 1..MaxTemplates]

\* The queues stay within the MaxQueue messages of the backpressure rule,
\* whatever replies of a receive task and broadcasts of the template loop
\* meet in them.
ProviderTypeOK ==
    /\ TypeOK
    /\ phase \in [Peers -> Phases]
    /\ constraints \in [Peers -> Options]
    /\ \A p \in Peers : records[p] \subseteq TemplateRecord
    /\ sent \in [Peers -> TemplateRecord \cup {NoTemplate}]
    /\ \A p \in Peers : outq[p] \in Seq(Message) /\ Len(outq[p]) <= MaxQueue
    /\ next_id \in 1..MaxId
    /\ loop \in LoopState
    /\ submissions \in Seq(Submission) /\ Len(submissions) <= MaxSubmit
    /\ shutdown \in BOOLEAN

-----------------------------------------------------------------------------
(* Properties *)

\* The ordering guarantee of a peer's send stream, which the test peer
\* relies on when it reads "NewTemplate + SetNewPrevHash": in a queue every
\* NEW_TEMPLATE is followed at once by the SET_NEW_PREV_HASH of its
\* template_id, no reply of the receive task between them; a
\* SET_NEW_PREV_HASH without its NEW_TEMPLATE before it is the head of the
\* queue (its NEW_TEMPLATE was written); and the template_ids rise.
PairsInOrder ==
    \A p \in Peers :
        LET q == outq[p]
        IN  \A i \in DOMAIN q :
              /\ q[i].type = "NEW_TEMPLATE" =>
                     i < Len(q) /\ q[i + 1] = Msg("SET_NEW_PREV_HASH", q[i].id)
              /\ q[i].type = "SET_NEW_PREV_HASH" /\ i > 1 =>
                     q[i - 1] = Msg("NEW_TEMPLATE", q[i].id)
              /\ \A j \in DOMAIN q :
                     (i < j /\ q[i].type = q[j].type /\ q[i].type \in Broadcasts)
                         => q[i].id < q[j].id

\* Trigger (a) is mandatory: when the loop has dealt with a tip and waits
\* again, every session that streams and had a template before holds a
\* record of a template on that tip or a later one, whatever the fees did,
\* whether its queue had room or not, and however the session's messages
\* and the node's steps fell between the calls of the round.  Only the end
\* of the template_id counter stops it.
TipChangeReachesEveryPeer ==
    (loop.pc \in {"idle", "wait"} /\ next_id < MaxId) =>
        \A p \in Streaming :
            sent[p] # NoTemplate =>
                \E r \in records[p] : r.prev_hash >= loop.current

\* What SUBMIT_SOLUTION and REQUEST_TRANSACTION_DATA can find: records
\* exist only for a session that streams (createNewBlock may answer after
\* the session it was called for has ended), and each is a template on the
\* prev_hash last announced to the session or a later template whose
\* broadcast was dropped.
SubmittableIsCurrent ==
    \A p \in Peers : \A r \in records[p] :
        /\ p \in Streaming
        /\ \/ r.prev_hash = sent[p].prev_hash
           \/ r.template_id > sent[p].template_id

\* Trigger (c), and what the lifecycle test waits for after it has sent its
\* CoinbaseOutputConstraints: a session that streams on a node with a tip
\* is sent a first template, also when it begins to stream while the loop
\* is blocked in the node, unless the session ends or the process stops.
FirstTemplateArrives ==
    \A p \in Peers : (New(p) /\ tip # ZERO) ~> (~New(p) \/ shutdown)

=============================================================================
