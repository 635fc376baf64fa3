------------------------------- MODULE Mining -------------------------------
(***************************************************************************)
(* The node side of the Mining interface the Template Provider consumes:   *)
(* MinerImpl and BlockTemplateImpl of src/node/interfaces.cpp.             *)
(*                                                                         *)
(* A caller is a thread of the Template Provider that calls through IPC.   *)
(* A blocking call is a Call step (the caller enters) followed by a Return *)
(* step (the call answers); the node's own threads move between the two.   *)
(*                                                                         *)
(* The chain is abstracted to the number of the current tip: 0 is          *)
(* uint256::ZERO, the hash no tip has, so tip = 0 reads "no tip yet".      *)
(* A template is abstracted to what the interface tells apart: the tip it  *)
(* builds on, the fees it collects, the options it was assembled with and  *)
(* the solution its block carries.                                         *)
(***************************************************************************)
EXTENDS Naturals, Sequences, FiniteSets

CONSTANTS
    Callers,        \* threads calling into the interface
    Options,        \* BlockCreateOptions values a caller may pass
    Solutions,      \* (version, timestamp, nonce, coinbase) a caller may submit
    ValidSolutions, \* the solutions ProcessNewBlock accepts
    Thresholds,     \* fee_threshold values a caller may pass to waitNext
    Unsolved,       \* the block of a template nobody submitted a solution for
    DefaultOptions, \* BlockCreateOptions{}
    MaxHeight,      \* bound: the tip never gets past this number
    MaxFees,        \* bound: the fees waiting in the mempool
    MaxTemplates    \* bound: BlockTemplateImpl objects created

ASSUME
    /\ DefaultOptions \in Options
    /\ ValidSolutions \subseteq Solutions
    /\ Unsolved \notin Solutions
    /\ Thresholds \subseteq Nat \ {0}
    /\ MaxHeight \in Nat /\ MaxFees \in Nat /\ MaxTemplates \in Nat

VARIABLES
    tip,        \* the node's tip; 0 until the node has one
    fees,       \* the fees a block assembled now would collect
    interrupt,  \* chainman.m_interrupt
    templates,  \* the BlockTemplateImpl objects, in order of creation
    call,       \* per caller: the call it is blocked in
    ret         \* per caller: what its last call returned

nodeVars == <<tip, fees, interrupt>>
vars == <<tip, fees, interrupt, templates, call, ret>>

ZERO == 0       \* uint256::ZERO
Null == 0       \* std::nullopt, nullptr: no tip, no template

Ops == {"idle", "waitTipChanged", "createNewBlock",
        "submitSolution", "waitNext"}

Template == [prev : 1..MaxHeight, fees : 0..MaxFees, options : Options,
             block : Solutions \cup {Unsolved}]

Call == [op : Ops, current : 0..MaxHeight, tmpl : 0..MaxTemplates,
         threshold : Thresholds \cup {0}, timed : BOOLEAN, options : Options,
         tipSeen : BOOLEAN]

\* val is the tip or the template handed back (Null for none), or the bool of
\* submitSolution as 0 and 1.
Return == [op : Ops, val : 0..MaxHeight \cup 0..MaxTemplates,
           tmpl : 0..MaxTemplates, threshold : Thresholds \cup {0}]

Idle == [op |-> "idle", current |-> ZERO, tmpl |-> Null, threshold |-> 0,
         timed |-> FALSE, options |-> DefaultOptions, tipSeen |-> FALSE]

Blocked(c) == call[c].op # "idle"

\* The calls under way that end by creating a BlockTemplateImpl.
Assembling == {c \in Callers : call[c].op \in {"createNewBlock", "waitNext"}}

\* Bound: a call that may create a template is entered only while the
\* templates it and the calls under way may create fit in MaxTemplates.
Room == Len(templates) + Cardinality(Assembling) < MaxTemplates

Enter(c, entered) ==
    /\ ~Blocked(c)
    /\ call' = [call EXCEPT ![c] = entered]

Leave(c, val) ==
    /\ call' = [call EXCEPT ![c] = Idle]
    /\ ret' = [ret EXCEPT ![c] = [op |-> call[c].op, val |-> val,
                                  tmpl |-> call[c].tmpl,
                                  threshold |-> call[c].threshold]]

-----------------------------------------------------------------------------
(* BlockTemplateImpl *)

\* The constructor, with what BlockAssembler::CreateNewBlock builds now.
BlockTemplateImpl(options) ==
    [prev |-> tip, fees |-> fees, options |-> options, block |-> Unsolved]

getBlock(t) == templates[t].block

getTxFees(t) == templates[t].fees

\* vtx[0] of the block: the coinbase the assembler made, which collects the
\* fees, until submitSolution has put the one of a solution in its place.
getCoinbaseTx(t) == [fees |-> getTxFees(t), solution |-> getBlock(t)]

\* ProcessNewBlock: a valid block on the tip becomes the tip and takes its
\* transactions out of the mempool; a valid block on an older tip is stored
\* and changes nothing; an invalid one is refused.
BecomesTip(t, solution) ==
    solution \in ValidSolutions /\ templates[t].prev = tip

ProcessNewBlock(t, solution) ==
    IF BecomesTip(t, solution)
    THEN /\ tip' = tip + 1
         /\ fees' \in 0..fees
    ELSE UNCHANGED <<tip, fees>>

\* submitSolution writes the solution into the template's own block, then
\* hands a copy of that block to the node.
SubmitSolution(c, t, solution) ==
    /\ ~Blocked(c)
    /\ t \in DOMAIN templates
    /\ BecomesTip(t, solution) => tip < MaxHeight      \* bound
    /\ templates' = [templates EXCEPT ![t].block = solution]
    /\ ProcessNewBlock(t, solution)
    /\ ret' = [ret EXCEPT ![c] = [op |-> "submitSolution",
                                  val |-> IF solution \in ValidSolutions
                                          THEN 1 ELSE 0,
                                  tmpl |-> t, threshold |-> 0]]
    /\ UNCHANGED <<interrupt, call>>

TipChanged(t) == tip # templates[t].prev

FeesRose(t, threshold) == fees >= getTxFees(t) + threshold

WaitNextCall(c, t, threshold, timed) ==
    /\ t \in DOMAIN templates
    /\ Room
    /\ Enter(c, [Idle EXCEPT !.op = "waitNext", !.tmpl = t,
                             !.threshold = threshold, !.timed = timed])
    /\ UNCHANGED <<nodeVars, templates, ret>>

\* Mutation: the new template is wrapped with default options instead of
\* m_assemble_options.
WaitNextReturn_DefaultOptions(c) ==
    /\ call[c].op = "waitNext"
    /\ \/ /\ ~interrupt
          /\ TipChanged(call[c].tmpl) \/ FeesRose(call[c].tmpl, call[c].threshold)
          /\ templates' = Append(templates, BlockTemplateImpl(DefaultOptions))
          /\ Leave(c, Len(templates) + 1)
       \/ /\ interrupt \/ call[c].timed
          /\ Leave(c, Null)
          /\ UNCHANGED templates
    /\ UNCHANGED nodeVars

\* waitNext answers with a template assembled with the options of the one it
\* was called on, or with nullptr.
WaitNextReturn(c) ==
    /\ call[c].op = "waitNext"
    /\ \/ /\ ~interrupt
          /\ TipChanged(call[c].tmpl) \/ FeesRose(call[c].tmpl, call[c].threshold)
          /\ templates' = Append(templates,
                                 BlockTemplateImpl(templates[call[c].tmpl].options))
          /\ Leave(c, Len(templates) + 1)
       \/ /\ interrupt \/ call[c].timed
          /\ Leave(c, Null)
          /\ UNCHANGED templates
    /\ UNCHANGED nodeVars

-----------------------------------------------------------------------------
(* MinerImpl *)

\* getTip reads the tip and changes nothing: Null while the node has none.
getTip == tip

\* Mutation: the timeout of the caller is not passed on.
WaitTipChangedCall_Untimed(c, current, timed) ==
    /\ Enter(c, [Idle EXCEPT !.op = "waitTipChanged", !.current = current])
    /\ UNCHANGED <<nodeVars, templates, ret>>

WaitTipChangedCall(c, current, timed) ==
    /\ Enter(c, [Idle EXCEPT !.op = "waitTipChanged", !.current = current,
                             !.timed = timed])
    /\ UNCHANGED <<nodeVars, templates, ret>>

\* Mutation: a wakeup answers without looking at the tip the caller has.
WaitTipChanged_Spurious(c) ==
    \/ interrupt /\ Leave(c, Null)
    \/ ~interrupt /\ tip # ZERO /\ Leave(c, tip)

\* The wait for a first tip has no timeout; with a tip, the call answers when
\* the tip differs from current_tip or the timeout is over, with the tip of
\* that moment. An interrupted node answers nothing.
WaitTipChanged(c) ==
    \/ /\ interrupt
       /\ Leave(c, Null)
    \/ /\ ~interrupt
       /\ tip # ZERO
       /\ tip # call[c].current \/ call[c].timed
       /\ Leave(c, tip)

WaitTipChangedReturn(c) ==
    /\ call[c].op = "waitTipChanged"
    /\ WaitTipChanged(c)
    /\ UNCHANGED <<nodeVars, templates>>

CreateNewBlockCall(c, options) ==
    /\ Room
    /\ Enter(c, [Idle EXCEPT !.op = "createNewBlock", !.options = options])
    /\ UNCHANGED <<nodeVars, templates, ret>>

\* Mutation: the wait for a tip is left out.
CreateNewBlockWait_NoTipCheck(c) ==
    /\ call[c].op = "createNewBlock"
    /\ ~call[c].tipSeen
    /\ call' = [call EXCEPT ![c].tipSeen = TRUE]
    /\ UNCHANGED <<nodeVars, templates, ret>>

\* Mutation: the wait for a tip is given a timeout and gives up without a tip.
CreateNewBlockWait_TimesOut(c) ==
    /\ call[c].op = "createNewBlock"
    /\ ~call[c].tipSeen
    /\ \/ /\ interrupt \/ tip = ZERO
          /\ Leave(c, Null)
       \/ /\ ~interrupt
          /\ tip # ZERO
          /\ call' = [call EXCEPT ![c].tipSeen = TRUE]
          /\ UNCHANGED ret
    /\ UNCHANGED <<nodeVars, templates>>

\* Mutation: the wait for a tip does not look at the interrupt.
CreateNewBlockWait_IgnoresInterrupt(c) ==
    /\ call[c].op = "createNewBlock"
    /\ ~call[c].tipSeen
    /\ tip # ZERO
    /\ call' = [call EXCEPT ![c].tipSeen = TRUE]
    /\ UNCHANGED <<nodeVars, templates, ret>>

\* "Ensure m_tip_block is set": waitTipChanged(uint256::ZERO, max) decides
\* whether createNewBlock goes on to assemble or gives up.
CreateNewBlockWait(c) ==
    /\ call[c].op = "createNewBlock"
    /\ ~call[c].tipSeen
    /\ \/ /\ interrupt
          /\ Leave(c, Null)
       \/ /\ ~interrupt
          /\ tip # ZERO
          /\ call' = [call EXCEPT ![c].tipSeen = TRUE]
          /\ UNCHANGED ret
    /\ UNCHANGED <<nodeVars, templates>>

\* The template is assembled on the chain as it is now, not as the wait saw it.
CreateNewBlockAssemble(c) ==
    /\ call[c].op = "createNewBlock"
    /\ call[c].tipSeen
    /\ templates' = Append(templates, BlockTemplateImpl(call[c].options))
    /\ Leave(c, Len(templates) + 1)
    /\ UNCHANGED nodeVars

-----------------------------------------------------------------------------
(* The node's own threads *)

\* Validation connects a block: the first tip at the end of start-up, later
\* ones as the network finds them.
TipAdvance ==
    /\ tip < MaxHeight
    /\ ~interrupt
    /\ tip' = tip + 1
    /\ fees' \in 0..fees
    /\ UNCHANGED <<interrupt, templates, call, ret>>

MempoolAccept ==
    /\ fees < MaxFees
    /\ ~interrupt
    /\ fees' = fees + 1
    /\ UNCHANGED <<tip, interrupt, templates, call, ret>>

Interrupt ==
    /\ ~interrupt
    /\ interrupt' = TRUE
    /\ UNCHANGED <<tip, fees, templates, call, ret>>

-----------------------------------------------------------------------------

Init ==
    /\ tip = ZERO
    /\ fees = 0
    /\ interrupt = FALSE
    /\ templates = <<>>
    /\ call = [c \in Callers |-> Idle]
    /\ ret = [c \in Callers |-> [op |-> "idle", val |-> Null,
                                 tmpl |-> Null, threshold |-> 0]]

CallerStep(c) ==
    \/ \E current \in 0..tip, timed \in BOOLEAN :
           WaitTipChangedCall(c, current, timed)
    \/ \E options \in Options : CreateNewBlockCall(c, options)
    \/ \E t \in DOMAIN templates, s \in Solutions : SubmitSolution(c, t, s)
    \/ \E t \in DOMAIN templates, th \in Thresholds, timed \in BOOLEAN :
           WaitNextCall(c, t, th, timed)

Answer(c) ==
    \/ WaitTipChangedReturn(c)
    \/ CreateNewBlockWait(c)
    \/ CreateNewBlockAssemble(c)
    \/ WaitNextReturn(c)

Node == TipAdvance \/ MempoolAccept \/ Interrupt

Next ==
    \/ \E c \in Callers : CallerStep(c) \/ Answer(c)
    \/ Node

\* A blocked call whose condition holds is woken and answers: the condition
\* variable is notified on every tip change and on interrupt, and a timed
\* wait ends by itself.
Fairness == \A c \in Callers : WF_vars(Answer(c))

Spec == Init /\ [][Next]_vars /\ Fairness

-----------------------------------------------------------------------------

\* The type of the state: the tip and the fees of the node, at most
\* MaxTemplates templates, and per caller its call and what it returned.
TypeOK ==
    /\ tip \in 0..MaxHeight
    /\ fees \in 0..MaxFees
    /\ interrupt \in BOOLEAN
    /\ templates \in Seq(Template)
    /\ Len(templates) <= MaxTemplates
    /\ call \in [Callers -> Call]
    /\ ret \in [Callers -> Return]

-----------------------------------------------------------------------------
(* Properties *)

\* BlockTemplateImpl::waitNext hands out a template only when it is news to
\* the caller: it builds on another tip than the template the call was made
\* on, or collects at least fee_threshold more fees; and it is assembled with
\* that template's options, whatever other callers created in between.
WaitNextReturnsNews ==
    \A c \in Callers :
        (ret[c].op = "waitNext" /\ ret[c].val # Null) =>
            LET old == templates[ret[c].tmpl]
                new == templates[ret[c].val]
            IN  /\ new.options = old.options
                /\ \/ new.prev # old.prev
                   \/ new.fees >= old.fees + ret[c].threshold

\* MinerImpl::createNewBlock answers without a template only to a caller of a
\* node that is shutting down: before the first tip it waits, however long.
NullOnlyWhenInterrupted ==
    \A c \in Callers :
        (ret[c].op = "createNewBlock" /\ ret[c].val = Null) => interrupt

\* What a blocked call waits for.  A timed waitTipChanged outlasts its timeout
\* while the node has no tip, and createNewBlock has no timeout at all.
Answerable(c) ==
    \/ interrupt
    \/ /\ call[c].op = "waitTipChanged"
       /\ tip # ZERO
       /\ call[c].timed \/ tip # call[c].current
    \/ /\ call[c].op = "createNewBlock"
       /\ tip # ZERO
    \/ /\ call[c].op = "waitNext"
       /\ call[c].timed \/ TipChanged(call[c].tmpl)

\* No caller of waitTipChanged, createNewBlock or waitNext stays blocked once
\* the node shuts down, once its timeout can end, or once the tip it waits
\* for is there; in particular an interrupt releases a createNewBlock that
\* waits for a first tip.
CallsAnswer ==
    \A c \in Callers : (Blocked(c) /\ Answerable(c)) ~> ~Blocked(c)

-----------------------------------------------------------------------------
(* Refinement *)

\* What a caller waits on, without the progress of the call in the node.
Pending(c) ==
    [op |-> call[c].op, current |-> call[c].current, tmpl |-> call[c].tmpl,
     threshold |-> call[c].threshold, timed |-> call[c].timed,
     options |-> call[c].options]

Service == INSTANCE MiningService
               WITH pending <- [c \in Callers |-> Pending(c)], answer <- ret

\* MinerImpl and BlockTemplateImpl implement MiningService: a call that
\* waits inside the node and then assembles (createNewBlock: waitTipChanged,
\* then BlockAssembler under cs_main) looks to its caller like one step
\* taken at the moment of the assembly, a template is the tip and the fees
\* of that moment, and submitSolution moves the tip only with a valid
\* block on the current tip.
ImplementsService == Service!Spec

=============================================================================
