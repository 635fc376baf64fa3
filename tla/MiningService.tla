--------------------------- MODULE MiningService ---------------------------
(***************************************************************************)
(* What the Mining interface promises the Template Provider, whatever the  *)
(* node does inside a call: a call takes effect at one moment between the  *)
(* request and the answer.  A template is a picture of tip and fees taken  *)
(* at that moment; a tip that is answered is the tip of that moment.       *)
(*                                                                         *)
(* Module Mining, which follows MinerImpl and BlockTemplateImpl step by    *)
(* step, implements this specification when the progress of a call inside  *)
(* the node is hidden (Mining!Service).                                    *)
(***************************************************************************)
EXTENDS Naturals, Sequences

CONSTANTS Callers, Options, Solutions, ValidSolutions, Thresholds, Unsolved,
          MaxHeight, MaxTemplates

VARIABLES
    tip,        \* the tip of the node, 0 while it has none
    fees,       \* the fees a template taken now collects
    interrupt,  \* the node is shutting down
    templates,  \* the templates handed out, in order
    pending,    \* per caller: the request it waits on
    answer      \* per caller: the last answer it got

vars == <<tip, fees, interrupt, templates, pending, answer>>

Request == [op : {"idle", "waitTipChanged", "createNewBlock", "waitNext"},
            current : 0..MaxHeight, tmpl : 0..MaxTemplates,
            threshold : Thresholds \cup {0}, timed : BOOLEAN,
            options : Options]

Waits(c, op) == pending[c].op = op

\* The caller asks; a waitNext names a template that exists.
Ask(c) ==
    /\ Waits(c, "idle")
    /\ pending'[c] \in Request
    /\ pending'[c].op # "idle"
    /\ pending'[c].op = "waitNext" => pending'[c].tmpl \in DOMAIN templates
    /\ \A d \in Callers \ {c} : pending'[d] = pending[d]
    /\ UNCHANGED <<tip, fees, interrupt, templates, answer>>

\* The caller is answered with val and waits no more.
Answered(c, val) ==
    /\ pending'[c].op = "idle"
    /\ \A d \in Callers \ {c} : pending'[d] = pending[d]
    /\ answer' = [answer EXCEPT ![c] =
                      [op |-> pending[c].op, val |-> val,
                       tmpl |-> pending[c].tmpl,
                       threshold |-> pending[c].threshold]]

\* A new template: tip and fees of this moment.
Take(c, options) ==
    /\ tip # 0
    /\ templates' = Append(templates, [prev |-> tip, fees |-> fees,
                                       options |-> options, block |-> Unsolved])
    /\ Answered(c, Len(templates) + 1)

GiveUp(c) == Answered(c, 0) /\ UNCHANGED templates

\* The tip of this moment, to a caller that has seen another or whose
\* timeout is over.
waitTipChanged(c) ==
    /\ Waits(c, "waitTipChanged")
    /\ \/ interrupt /\ Answered(c, 0)
       \/ /\ tip # 0
          /\ tip # pending[c].current \/ pending[c].timed
          /\ Answered(c, tip)
    /\ UNCHANGED <<tip, fees, interrupt, templates>>

\* A template, or nothing from a node that is shutting down.
createNewBlock(c) ==
    /\ Waits(c, "createNewBlock")
    /\ Take(c, pending[c].options) \/ (interrupt /\ GiveUp(c))
    /\ UNCHANGED <<tip, fees, interrupt>>

\* A template that is news, with the options of the one asked about; or
\* nothing, after the timeout or from a node that is shutting down.
waitNext(c) ==
    /\ Waits(c, "waitNext")
    /\ LET old == templates[pending[c].tmpl]
       IN  \/ /\ tip # old.prev \/ fees >= old.fees + pending[c].threshold
              /\ Take(c, old.options)
           \/ (interrupt \/ pending[c].timed) /\ GiveUp(c)
    /\ UNCHANGED <<tip, fees, interrupt>>

\* The template keeps the solution.  A valid solution for the tip's
\* successor moves the tip; the answer tells only whether it was valid.
submitSolution(c) ==
    /\ Waits(c, "idle")
    /\ \E t \in DOMAIN templates, solution \in Solutions :
           /\ templates' = [templates EXCEPT ![t].block = solution]
           /\ IF solution \in ValidSolutions /\ templates[t].prev = tip
              THEN tip' = tip + 1 /\ fees' <= fees
              ELSE UNCHANGED <<tip, fees>>
           /\ answer' = [answer EXCEPT ![c] =
                             [op |-> "submitSolution",
                              val |-> IF solution \in ValidSolutions
                                      THEN 1 ELSE 0,
                              tmpl |-> t, threshold |-> 0]]
    /\ UNCHANGED <<interrupt, pending>>

\* The chain grows by a block, the mempool by a fee, the node is told to
\* stop.
Node ==
    /\ \/ tip' = tip + 1 /\ fees' <= fees /\ UNCHANGED interrupt
       \/ fees' = fees + 1 /\ UNCHANGED <<tip, interrupt>>
       \/ interrupt' = TRUE /\ UNCHANGED <<tip, fees>>
    /\ UNCHANGED <<templates, pending, answer>>

Init ==
    /\ tip = 0 /\ fees = 0 /\ interrupt = FALSE /\ templates = <<>>
    /\ \A c \in Callers : Waits(c, "idle")
    /\ \A c \in Callers : answer[c].op = "idle"

Next ==
    \/ \E c \in Callers :
           \/ Ask(c) \/ waitTipChanged(c) \/ createNewBlock(c)
           \/ waitNext(c) \/ submitSolution(c)
    \/ Node

Spec == Init /\ [][Next]_vars

=============================================================================
