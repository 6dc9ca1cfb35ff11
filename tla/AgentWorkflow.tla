--------------------------- MODULE AgentWorkflow ---------------------------
(***************************************************************************)
(* The agent graph (app/agents) and the routes that run it (app/api/routes/*)
(* chat.py, invoke.py, approvals.py).  A run loads the thread's GraphState *)
(* from its latest checkpoint, steps from node to node and saves after each*)
(* of them.  The nodes await services, so runs interleave at every node,   *)
(* and any node may raise.                                                 *)
(*                                                                         *)
(* What LangGraph does is external: a new input restarts the graph at the  *)
(* supervisor, Command(resume) runs the node the checkpoint names, a node  *)
(* that raises or interrupts saves nothing, and a run of too many steps    *)
(* ends with an error.                                                     *)
(***************************************************************************)
EXTENDS PolicyRules, FiniteSets

CONSTANTS
    Threads, Runs,      \* threads, and runs in flight together
    Materials,          \* material ids
    DefaultMaterial,    \* M-1042
    NoMaterial, NoQty, NoProposal, NoOutcome,   \* None
    OnHand, Demand,     \* stock levels and forecasts, in units
    RuleBooks,          \* the rule lists extraction may return
    Obedient,           \* does the language model follow ROUTER_SYSTEM
    HasThreadId,        \* do queue items carry their thread
    MaxRuns, MaxHops, MaxItems      \* bounds: runs, nodes a run, queue items

Recommendation == [material : Materials, vendor_id : Vendors, qty : Nat]

ASSUME WorkflowAssumption ==
    /\ DefaultMaterial \in Materials
    /\ NoMaterial \notin Materials
    /\ OnHand \subseteq Nat /\ Demand \subseteq Nat
    /\ NoQty \notin Int /\ NoOutcome \notin Outcomes
    /\ NoProposal \notin Recommendation
    /\ RuleBooks \subseteq Seq(PolicyRule)
    /\ Obedient \in BOOLEAN /\ HasThreadId \in BOOLEAN /\ IsFiniteSet(Runs)
    /\ MaxRuns \in Nat /\ MaxHops \in Nat /\ MaxItems \in Nat

VARIABLES
    saved,      \* the latest checkpoint of each thread
    pc,         \* the node each run is at, "idle" when there is none
    run,        \* what the run was started with and has in memory
    queue,      \* the approval queue, in the order of its writes
    reply,      \* how the last chat on each thread was answered
    metrics,    \* the counters of the routes and of policy_node
    cancelled,  \* history: the chats that were cancelled
    inputs,     \* history: the inputs each thread was sent
    deciding,   \* the items that were decided and whose request goes on
    started     \* the number of runs, for its bound

vars == <<saved, pc, run, queue, reply, metrics, cancelled, inputs, deciding, started>>

Specialists == {"inventory_agent", "forecast_agent", "procurement_agent",
                "policy_agent", "knowledge_agent", "analytics_agent"}
Kinds == {"reorder", "question", "refresh", "resume"}

(***************************************************************************)
(* GraphState: `said' is the material id found in the last message;        *)
(* inventory_result and forecast_result are reduced to the quantity that   *)
(* procurement reads.                                                      *)
(***************************************************************************)
GraphState ==
    [said                 : Materials \cup {NoMaterial},
     next_agent           : Specialists \cup {"supervisor", "END", "__end__"},
     material_id          : Materials \cup {NoMaterial},
     inventory_result     : OnHand \cup {NoQty},
     forecast_result      : Demand \cup {NoQty},
     procurement_proposal : Recommendation \cup {NoProposal},
     policy_decision      : Outcomes \cup {NoOutcome},
     approval_required    : BOOLEAN]

Fresh ==
    [said |-> NoMaterial, next_agent |-> "END", material_id |-> NoMaterial,
     inventory_result |-> NoQty, forecast_result |-> NoQty,
     procurement_proposal |-> NoProposal, policy_decision |-> NoOutcome,
     approval_required |-> FALSE]

\* A checkpoint: the state, and the node to run next.
Checkpoint == [at : Specialists \cup {"supervisor", "END"}, state : GraphState]

\* `hops' are the nodes run so far, `last' the last specialist among them,
\* `outcome' what policy_node has decided and not yet returned.  History: did
\* procurement propose anything in this run, is it the first on its thread.
NoRun == [kind |-> "none"]
Run ==
    [thread : Threads, kind : Kinds, asked : Materials \cup {NoMaterial},
     state : GraphState, hops : 0..MaxHops, last : Specialists \cup {"none"},
     outcome : Outcomes \cup {NoOutcome}, resuming : BOOLEAN,
     proposed : {"none", "order", "no_reorder"}, first : BOOLEAN]

NoReply == [ending |-> "none", approval_required |-> FALSE]

Unused == [at |-> "END", state |-> Fresh]

\* workflow_requests_total by its status, workflows_in_progress, the count of
\* workflow_total_duration_seconds; compliance_checks_total,
\* compliance_flags_requiring_review_total, audit_records_written_total.
NoMetrics ==
    [started |-> 0, completed |-> 0, failed |-> 0, in_progress |-> 0,
     durations |-> 0, checks |-> 0, flags |-> 0, records |-> 0]

Init ==
    /\ saved = [t \in Threads |-> Unused]
    /\ pc = [r \in Runs |-> "idle"]
    /\ run = [r \in Runs |-> NoRun]
    /\ queue = <<>>
    /\ reply = [t \in Threads |-> NoReply]
    /\ metrics = NoMetrics
    /\ cancelled = 0
    /\ inputs = [t \in Threads |-> 0]
    /\ deciding = {}
    /\ started = 0

Chats == {"reorder", "question"}
IsChat(r) == run[r].kind \in Chats
g(r) == run[r].state

-----------------------------------------------------------------------------
(***************************************************************************)
(* The routes.                                                             *)
(***************************************************************************)

\* ainvoke on a thread.  Every field of the state the input does not name is
\* the one the thread was left with.
Begin(r, t, kind, m) ==
    LET s == [saved[t].state EXCEPT !.said = m, !.next_agent = "supervisor",
                                    !.approval_required = FALSE]
    IN  /\ pc[r] = "idle"
        /\ started < MaxRuns
        /\ started' = started + 1
        /\ inputs' = [inputs EXCEPT ![t] = @ + 1]
        /\ pc' = [pc EXCEPT ![r] = "supervisor"]
        /\ run' = [run EXCEPT ![r] =
              [thread |-> t, kind |-> kind, asked |-> m, state |-> s, hops |-> 0,
               last |-> "none", outcome |-> NoOutcome, resuming |-> FALSE,
               proposed |-> "none", first |-> saved[t] = Unused]]
        /\ saved' = [saved EXCEPT ![t] = [at |-> "supervisor", state |-> s]]
        /\ reply' = [reply EXCEPT ![t] = NoReply]
        /\ UNCHANGED <<queue, cancelled, deciding>>

\* POST /chat.
Chat(r, t, kind, m) ==
    /\ Begin(r, t, kind, m)
    /\ metrics' = [metrics EXCEPT !.started = @ + 1, !.in_progress = @ + 1]

\* POST /invoke, by the CronJob.
Invoke(r, t) ==
    /\ Begin(r, t, "refresh", NoMaterial)
    /\ UNCHANGED metrics

\* Defect: the decision is not stored.
DecideItem_NotStored(i, decision) ==
    /\ queue[i].status = "pending"
    /\ UNCHANGED queue

\* POST /approvals/{id}/decide up to the upsert.  ApprovalQueue has its steps
\* one by one; requests that share no copy of an item decide each item once.
DecideItem(i, decision) ==
    /\ queue[i].status = "pending"
    /\ queue' = [queue EXCEPT ![i].status = decision]

Decide(i, decision) ==
    /\ DecideItem(i, decision)
    /\ deciding' = IF HasThreadId THEN deciding \cup {i} ELSE deciding
    /\ UNCHANGED <<saved, pc, run, reply, metrics, cancelled, inputs, started>>

\* The request has pushed its audit record and comes to the thread of the item:
\* the graph goes on at the node the checkpoint names by then.
Resume(r, i) ==
    LET t == queue[i].thread
    IN  /\ i \in deciding
        /\ saved[t].at # "END"
        /\ deciding' = deciding \ {i}
        /\ pc[r] = "idle"
        /\ started < MaxRuns
        /\ started' = started + 1
        /\ pc' = [pc EXCEPT ![r] = saved[t].at]
        /\ run' = [run EXCEPT ![r] =
              [thread |-> t, kind |-> "resume", asked |-> NoMaterial,
               state |-> saved[t].state, hops |-> 0, last |-> "none",
               outcome |-> NoOutcome, resuming |-> TRUE,
               proposed |-> "none", first |-> FALSE]]
        /\ reply' = [reply EXCEPT ![t] = NoReply]
        /\ UNCHANGED <<saved, queue, metrics, cancelled, inputs>>

\* There is nothing to resume, or the request is lost before.
DecideEnds(i) ==
    /\ i \in deciding
    /\ deciding' = deciding \ {i}
    /\ UNCHANGED <<saved, pc, run, queue, reply, metrics, cancelled, inputs, started>>

Forget(r) ==
    /\ pc' = [pc EXCEPT ![r] = "idle"]
    /\ run' = [run EXCEPT ![r] = NoRun]

\* The finally clause of /chat, with the status it has counted, if any.
Counted(r, status) ==
    metrics' = IF IsChat(r)
               THEN [metrics EXCEPT ![status] = @ + 1, !.durations = @ + 1,
                                    !.in_progress = @ - 1]
               ELSE metrics

\* ainvoke returned: the counters and the answer of /chat.  The flag is read
\* from the state, which the interrupted node has not updated.
Answer(r, ending) ==
    /\ Counted(r, "completed")
    /\ reply' = IF IsChat(r)
                THEN [reply EXCEPT ![run[r].thread] =
                         [ending |-> ending,
                          approval_required |-> g(r).approval_required]]
                ELSE reply
    /\ Forget(r)

Finish(r) ==
    /\ pc[r] = "END"
    /\ Answer(r, "ended")
    /\ UNCHANGED <<saved, queue, cancelled, inputs, deciding, started>>

InNode(r) == pc[r] \notin {"idle", "END"}

\* The except clause: /chat counts the failure and raises.
Fail(r) ==
    /\ Counted(r, "failed")
    /\ Forget(r)
    /\ UNCHANGED <<saved, reply, cancelled, inputs, deciding, started>>

\* The item policy_node queues for its proposal.
Item(r) == [status |-> "pending", thread |-> run[r].thread,
            proposal |-> g(r).procurement_proposal]

\* A run that ends inside policy_node may have written its item: upsert_item
\* made the write and did not return.
MaybeQueued(r) ==
    \/ UNCHANGED queue
    \/ /\ pc[r] = "audit" /\ run[r].outcome = "needs_human"
       /\ Len(queue) < MaxItems
       /\ queue' = Append(queue, Item(r))

NodeRaises(r) == InNode(r) /\ Fail(r) /\ MaybeQueued(r)

\* Defect: as if a cancelled request ran the except clause only.
Cancel_NoFinally(r) ==
    /\ InNode(r)
    /\ Forget(r)
    /\ MaybeQueued(r)
    /\ cancelled' = IF IsChat(r) THEN cancelled + 1 ELSE cancelled
    /\ UNCHANGED <<saved, reply, metrics, inputs, deciding, started>>

\* CancelledError is no Exception: the request counts no status, and runs the
\* finally clause.
Cancel(r) ==
    /\ InNode(r)
    /\ metrics' = IF IsChat(r)
                  THEN [metrics EXCEPT !.durations = @ + 1, !.in_progress = @ - 1]
                  ELSE metrics
    /\ Forget(r)
    /\ MaybeQueued(r)
    /\ cancelled' = IF IsChat(r) THEN cancelled + 1 ELSE cancelled
    /\ UNCHANGED <<saved, reply, inputs, deciding, started>>

\* External: LangGraph ends a run that takes too many steps.
RecursionLimit(r) ==
    /\ InNode(r)
    /\ run[r].hops = MaxHops
    /\ Fail(r)
    /\ UNCHANGED queue

-----------------------------------------------------------------------------
(***************************************************************************)
(* The graph.                                                              *)
(***************************************************************************)

\* A node's update is applied, saved, and the next node is due.
Save(r, s, node) ==
    /\ pc' = [pc EXCEPT ![r] = node]
    /\ saved' = [saved EXCEPT ![run[r].thread] = [at |-> node, state |-> s]]
    /\ UNCHANGED <<reply, cancelled, inputs, deciding, started>>

\* Command(goto="supervisor", update=...) of a specialist.
Return(r, s, proposed) ==
    /\ Save(r, s, "supervisor")
    /\ run' = [run EXCEPT ![r].state = s, ![r].proposed = proposed,
                          ![r].last = IF pc[r] \in Specialists THEN pc[r]
                                      ELSE "policy_agent",
                          ![r].outcome = NoOutcome, ![r].resuming = FALSE]

Node(r, name) == pc[r] = name /\ run[r].hops < MaxHops

\* Defect: a policy result sends the run round again.
Successor_Loop ==
    [none |-> "inventory_agent", inventory_agent |-> "forecast_agent",
     forecast_agent |-> "procurement_agent", procurement_agent |-> "policy_agent",
     policy_agent |-> "inventory_agent", knowledge_agent |-> "END",
     analytics_agent |-> "END"]

(***************************************************************************)
(* ROUTER_SYSTEM, for a model that follows it: the order of rule 1, the two*)
(* specialists of rules 4 and 5, and END once the state it is shown holds  *)
(* an approval or a denial (rules 2 and 3) or nothing is to be ordered.    *)
(***************************************************************************)
Successor ==
    [none |-> "inventory_agent", inventory_agent |-> "forecast_agent",
     forecast_agent |-> "procurement_agent", procurement_agent |-> "policy_agent",
     policy_agent |-> "END", knowledge_agent |-> "END", analytics_agent |-> "END"]

Prompted(r) ==
    CASE run[r].kind = "refresh"  /\ run[r].last = "none" -> {"analytics_agent"}
      [] run[r].kind = "question" /\ run[r].last = "none" -> {"knowledge_agent"}
      [] OTHER -> {Successor[run[r].last]}
                  \cup {n \in {"END"} :
                          \/ g(r).policy_decision \in {"auto_approved", "denied"}
                          \/ run[r].proposed = "no_reorder"}

\* Defect: a name that is no node is not turned into END.
Route_NoDefault(r) ==
    IF Obedient THEN Prompted(r) ELSE Specialists \cup {"END", "finance_agent"}

\* Any answer that names no specialist ends the run.
Route(r) == IF Obedient THEN Prompted(r) ELSE Specialists \cup {"END"}

Supervisor(r) ==
    /\ Node(r, "supervisor")
    /\ \E next \in Route(r) :
          LET s == [g(r) EXCEPT !.next_agent = next]
          IN  /\ Save(r, s, next)
              /\ run' = [run EXCEPT ![r].state = s, ![r].hops = @ + 1,
                                    ![r].resuming = FALSE]
    /\ UNCHANGED <<queue, metrics>>

\* get_inventory and get_stock_locations: SAP may answer any level.
StockLevels == OnHand

\* Defect: the message is not searched for a material.
InventoryAgent_NoSearch(r) ==
    /\ Node(r, "inventory_agent")
    /\ \E stock \in StockLevels :
          Return(r, [g(r) EXCEPT !.said = DefaultMaterial,
                                 !.material_id = DefaultMaterial,
                                 !.inventory_result = stock], run[r].proposed)
    /\ UNCHANGED <<queue, metrics>>

\* The material of the thread, else the one named by the last message.
InventoryAgent(r) ==
    /\ Node(r, "inventory_agent")
    /\ LET m == IF g(r).material_id # NoMaterial THEN g(r).material_id
                ELSE IF g(r).said # NoMaterial THEN g(r).said ELSE DefaultMaterial
       IN  \E stock \in StockLevels :
              Return(r, [g(r) EXCEPT !.said = m, !.material_id = m,
                                     !.inventory_result = stock], run[r].proposed)
    /\ UNCHANGED <<queue, metrics>>

MaterialOr(r) == IF g(r).material_id = NoMaterial THEN DefaultMaterial
                 ELSE g(r).material_id

\* forecast_qty, as a language model reads it from the shipment history.
Forecasts == Demand

ForecastAgent(r) ==
    /\ Node(r, "forecast_agent")
    /\ \E qty \in Forecasts :
          Return(r, [g(r) EXCEPT !.said = MaterialOr(r), !.forecast_result = qty],
                 run[r].proposed)
    /\ UNCHANGED <<queue, metrics>>

Qty(q) == IF q = NoQty THEN 0 ELSE q

\* round(net_demand * 1.1), never negative: the nearest whole number.  Of a tie
\* the code takes either: the even one, or what 1.1 as a float makes nearer.
ReorderQty(net) ==
    IF net <= 0 THEN {0}
    ELSE {q \in {(net * 11) \div 10, (net * 11) \div 10 + 1} :
             10 * q - net * 11 \in -5..5}

\* get_preferred_vendors: V-7 when it is among them, else the first.
PreferredVendors == Vendors

\* Defect: no early return, a proposal of nothing is made.
ProcurementAgent_NoReturn(r) ==
    /\ Node(r, "procurement_agent")
    /\ LET s == [g(r) EXCEPT !.said = MaterialOr(r)]
       IN  \E qty \in ReorderQty(Qty(s.forecast_result) - Qty(s.inventory_result)),
              v \in PreferredVendors :
              Return(r, [s EXCEPT !.procurement_proposal =
                            [material |-> MaterialOr(r), vendor_id |-> v, qty |-> qty]],
                     IF qty = 0 THEN "no_reorder" ELSE "order")
    /\ UNCHANGED <<queue, metrics>>

\* A proposal that is not needed is reported, and the field left as it is.
ProcurementAgent(r) ==
    /\ Node(r, "procurement_agent")
    /\ LET s == [g(r) EXCEPT !.said = MaterialOr(r)]
       IN  \E qty \in ReorderQty(Qty(s.forecast_result) - Qty(s.inventory_result)) :
              \/ qty = 0 /\ Return(r, s, "no_reorder")
              \/ /\ qty > 0
                 /\ \E v \in PreferredVendors :
                       Return(r, [s EXCEPT !.procurement_proposal =
                                     [material |-> MaterialOr(r), vendor_id |-> v,
                                      qty |-> qty]], "order")
    /\ UNCHANGED <<queue, metrics>>

\* Documents are summarised; the answer may name any material.
KnowledgeAgent(r) ==
    /\ Node(r, "knowledge_agent")
    /\ \E m \in Materials \cup {NoMaterial} :
          Return(r, [g(r) EXCEPT !.said = m], run[r].proposed)
    /\ UNCHANGED <<queue, metrics>>

\* The KPI rows it writes are no part of this module.
AnalyticsAgent(r) ==
    /\ Node(r, "analytics_agent")
    /\ Return(r, [g(r) EXCEPT !.said = NoMaterial], run[r].proposed)
    /\ UNCHANGED <<queue, metrics>>

-----------------------------------------------------------------------------
\* policy_node.

UnitPrice == 21

\* One urgency stands for all: no rule reads the word (Matches in PolicyRules;
\* UrgencyIdle in PolicyEvaluatorProofs).
AsProposal(p) ==
    [vendor_id |-> p.vendor_id, estimated_cost |-> p.qty * UnitPrice,
     recommended_qty |-> p.qty, urgency |-> "low"]

Evaluates(p, rules, outcome) ==
    \E i \in {NONE} \cup 0..Len(rules) :
        IsDecisionOf(Decision(outcome, i), AsProposal(p), rules)

NothingToEvaluate(r) ==
    /\ Node(r, "policy_agent")
    /\ g(r).procurement_proposal = NoProposal
    /\ Return(r, [g(r) EXCEPT !.said = NoMaterial], run[r].proposed)
    /\ UNCHANGED <<queue, metrics>>

\* Defect: the record is counted before it is written.
PolicyAgent_CountsFirst(r) ==
    /\ Node(r, "policy_agent")
    /\ g(r).procurement_proposal # NoProposal
    /\ pc' = [pc EXCEPT ![r] = "audit"]
    /\ \E rules \in RuleBooks, outcome \in Outcomes :
          /\ Evaluates(g(r).procurement_proposal, rules, outcome)
          /\ run' = [run EXCEPT ![r].outcome = outcome]
          /\ metrics' = IF outcome = "needs_human"
                        THEN [metrics EXCEPT !.checks = @ + 1, !.flags = @ + 1,
                                             !.records = @ + 1]
                        ELSE [metrics EXCEPT !.checks = @ + 1]
    /\ UNCHANGED <<saved, queue, reply, cancelled, inputs, deciding, started>>

\* The rules decide and the decision is counted; push_policy_audit is awaited.
PolicyAgent(r) ==
    /\ Node(r, "policy_agent")
    /\ g(r).procurement_proposal # NoProposal
    /\ pc' = [pc EXCEPT ![r] = "audit"]
    /\ \E rules \in RuleBooks, outcome \in Outcomes :
          /\ Evaluates(g(r).procurement_proposal, rules, outcome)
          /\ run' = [run EXCEPT ![r].outcome = outcome]
          /\ metrics' = IF outcome = "needs_human"
                        THEN [metrics EXCEPT !.checks = @ + 1, !.flags = @ + 1]
                        ELSE [metrics EXCEPT !.checks = @ + 1]
    /\ UNCHANGED <<saved, queue, reply, cancelled, inputs, deciding, started>>

Decided(r, outcome) == pc[r] = "audit" /\ run[r].outcome = outcome

\* A denial also asks for the end of the workflow.
Deny(r) ==
    /\ Decided(r, "denied")
    /\ Return(r, [g(r) EXCEPT !.said = NoMaterial, !.policy_decision = "denied",
                              !.next_agent = "__end__"], run[r].proposed)
    /\ UNCHANGED <<queue, metrics>>

\* Defect: without its branch a denial falls through to the approval.
Approve_FallsThrough(r) ==
    /\ Decided(r, "auto_approved") \/ Decided(r, "denied")
    /\ Return(r, [g(r) EXCEPT !.said = NoMaterial,
                              !.policy_decision = "auto_approved",
                              !.approval_required = FALSE], run[r].proposed)
    /\ UNCHANGED <<queue, metrics>>

Approve(r) ==
    /\ Decided(r, "auto_approved")
    /\ Return(r, [g(r) EXCEPT !.said = NoMaterial,
                              !.policy_decision = "auto_approved",
                              !.approval_required = FALSE], run[r].proposed)
    /\ UNCHANGED <<queue, metrics>>

\* Defect: a failed write of the item goes unnoticed.
Enqueue_Lost(r) ==
    /\ Decided(r, "needs_human")
    /\ pc' = [pc EXCEPT ![r] = "interrupt"]
    /\ UNCHANGED <<saved, run, queue, reply, metrics, cancelled, inputs, deciding, started>>

\* _write_approval_queue.  The item is in the queue before the graph stops.
Enqueue(r) ==
    /\ Decided(r, "needs_human")
    /\ Len(queue) < MaxItems
    /\ queue' = Append(queue, Item(r))
    /\ metrics' = [metrics EXCEPT !.records = @ + 1]
    /\ pc' = [pc EXCEPT ![r] = "interrupt"]
    /\ UNCHANGED <<saved, run, reply, cancelled, inputs, deciding, started>>

\* interrupt(): nothing is saved, ainvoke returns the state before the node.
Interrupt(r) ==
    /\ pc[r] = "interrupt"
    /\ ~run[r].resuming
    /\ Answer(r, "paused")
    /\ UNCHANGED <<saved, queue, cancelled, inputs, deciding, started>>

\* In a resumed run interrupt() returns the human's answer, which is not read.
AfterInterrupt(r) ==
    /\ pc[r] = "interrupt"
    /\ run[r].resuming
    /\ Return(r, [g(r) EXCEPT !.said = g(r).procurement_proposal.material,
                              !.policy_decision = "needs_human",
                              !.approval_required = TRUE], run[r].proposed)
    /\ UNCHANGED <<queue, metrics>>

-----------------------------------------------------------------------------

Step(r) ==
    \/ Supervisor(r) \/ InventoryAgent(r) \/ ForecastAgent(r)
    \/ ProcurementAgent(r) \/ KnowledgeAgent(r) \/ AnalyticsAgent(r)
    \/ NothingToEvaluate(r) \/ PolicyAgent(r) \/ Deny(r) \/ Approve(r)
    \/ Enqueue(r) \/ Interrupt(r) \/ AfterInterrupt(r) \/ Finish(r)

Next ==
    \/ \E r \in Runs : Step(r) \/ NodeRaises(r) \/ Cancel(r) \/ RecursionLimit(r)
    \/ \E r \in Runs, t \in Threads :
          \/ Invoke(r, t)
          \/ \E kind \in Chats, m \in Materials \cup {NoMaterial} : Chat(r, t, kind, m)
    \/ \E i \in 1..Len(queue) :
          \/ \E d \in {"approved", "rejected"} : Decide(i, d)
          \/ \E r \in Runs : Resume(r, i)
          \/ DecideEnds(i)

Spec == Init /\ [][Next]_vars

\* Services answer and the event loop goes on with every run that can go on.
\* No run is made to fail, so none ends thanks to the step limit.
FairSpec == Spec /\ \A r \in Runs : WF_vars(Step(r))

-----------------------------------------------------------------------------

TypeOK ==
    /\ saved \in [Threads -> Checkpoint]
    /\ pc \in [Runs -> Specialists \cup {"idle", "supervisor", "audit", "interrupt", "END"}]
    /\ \A r \in Runs : IF pc[r] = "idle" THEN run[r] = NoRun ELSE run[r] \in Run
    /\ \A i \in 1..Len(queue) :
          /\ queue[i].thread \in Threads
          /\ queue[i].proposal \in Recommendation
          /\ queue[i].status \in {"pending", "approved", "rejected"}
    /\ metrics \in [started : Nat, completed : Nat, failed : Nat, in_progress : Nat,
                   durations : Nat, checks : Nat, flags : Nat, records : Nat]
    /\ cancelled \in Nat
    /\ inputs \in [Threads -> Nat]
    /\ deciding \subseteq 1..Len(queue)

\* The gauge of running workflows counts the chats that run, every chat that
\* is started is measured once when it ends, and has then completed, failed or
\* been cancelled: in whichever node a run raises, and also when it pauses.
ChatsCounted ==
    /\ metrics.in_progress = Cardinality({r \in Runs : pc[r] # "idle" /\ IsChat(r)})
    /\ metrics.started = metrics.durations + metrics.in_progress
    /\ metrics.durations = metrics.completed + metrics.failed + cancelled

\* audit_records_counter: approval queue records written.  Every record counted
\* is in the queue, every item in the queue was flagged for review, and so was
\* every decision about to be queued: whatever fails around the write.
Queueing(r) == Decided(r, "needs_human")
RecordsAreItems ==
    /\ metrics.records <= Len(queue)
    /\ Len(queue) + Cardinality({r \in Runs : Queueing(r)}) <= metrics.flags
    /\ metrics.flags <= metrics.checks

\* While runs on a thread do not overlap, a thread left paused has an item in
\* the queue for the very proposal it would resume with.
PauseIsQueued ==
    \A t \in Threads : reply[t].ending = "paused" =>
        /\ saved[t].at = "policy_agent"
        /\ \E i \in 1..Len(queue) :
              /\ queue[i].thread = t
              /\ queue[i].proposal = saved[t].state.procurement_proposal

\* GraphState: material_id is extracted from the user message.  The first
\* reorder run of a thread, if its message names a material, ends with an
\* answer about that material, whatever other runs do to the thread meanwhile.
AnswersTheQuestion ==
    \A r \in Runs :
        /\ pc[r] = "END" /\ run[r].first
        /\ run[r].kind = "reorder" /\ run[r].asked # NoMaterial
        => g(r).material_id = run[r].asked

DecisionFits(s) ==
    s.policy_decision # NoOutcome =>
        /\ s.procurement_proposal # NoProposal
        /\ \E rules \in RuleBooks :
              Evaluates(s.procurement_proposal, rules, s.policy_decision)

\* README, approval flow: a proposal is made, then evaluated.  The decision a
\* run ends with is one the rules give to the proposal it ends with.
DecisionFitsProposal ==
    \A r \in Runs : pc[r] = "END" => DecisionFits(g(r))

\* So it is for the first run on a thread, whatever other runs do to the
\* thread meanwhile.
FirstDecisionFits ==
    \A r \in Runs : pc[r] = "END" /\ run[r].first => DecisionFits(g(r))

\* So it is for every run on a thread that was sent one input and is otherwise
\* only resumed: in it an old decision never meets a new proposal.
OneInputDecisionFits ==
    \A r \in Runs : pc[r] = "END" /\ inputs[run[r].thread] <= 1 => DecisionFits(g(r))

\* Such a thread has one item at a time for a human to review, although a
\* resumed policy_node queues its proposal again, and one that ended in the
\* middle of the write may have queued it.  (Each item is decided once here.)
OneReviewAtATime ==
    \A i, j \in 1..Len(queue) :
        /\ queue[i].status = "pending" /\ queue[j].status = "pending"
        /\ queue[i].thread = queue[j].thread /\ inputs[queue[i].thread] <= 1
        => i = j

\* test_no_reorder_when_stock_sufficient: when stock covers the demand there
\* is nothing to approve.  The first chat of a thread asks a human about a
\* proposal of its own only.
ReviewsOwnProposal ==
    \A r \in Runs : (Queueing(r) \/ pc[r] = "interrupt") /\ run[r].first =>
        run[r].proposed = "order"

\* How far a run has come on the way of rule 1.
Rank == [none |-> 0, inventory_agent |-> 1, forecast_agent |-> 2,
         procurement_agent |-> 3, policy_agent |-> 4, knowledge_agent |-> 4,
         analytics_agent |-> 4]

Height(node, last) ==
    CASE node = "supervisor"   -> 4 * Rank[last]
      [] node \in Specialists  -> 4 * Rank[node] - 3
      [] node = "audit"        -> 14
      [] node = "interrupt"    -> 15
      [] OTHER                 -> 17

Place(r) == Height(pc[r], run[r].last)

\* A model that follows the routing prompt never sends a run back: each of its
\* steps brings it further, on whatever thread and also when it was resumed.
RunsAdvance ==
    [][\A r \in Runs :
          pc[r] # "idle" /\ pc'[r] # "idle" /\ <<pc[r], run[r]>>' # <<pc[r], run[r]>>
              => Place(r)' > Place(r)]_vars

\* A model that follows the routing prompt brings every run to an end within
\* the hops of rule 1, without the help of the step limit: also when the run
\* works on a thread that others use, or has been resumed.
RunEnds == \A r \in Runs : pc[r] # "idle" ~> pc[r] = "idle"

=============================================================================
