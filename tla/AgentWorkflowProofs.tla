------------------------- MODULE AgentWorkflowProofs -------------------------
(***************************************************************************)
(* Theorems of AgentWorkflow, for any threads, runs, stock levels, rules   *)
(* and bounds.                                                             *)
(***************************************************************************)
EXTENDS AgentWorkflow, FiniteSetTheorems, TLAPS

Nodes == Specialists \cup {"supervisor"}
Places == Nodes \cup {"idle", "audit", "interrupt", "END"}
Items == [status : {"pending", "approved", "rejected"}, thread : Threads,
          proposal : Recommendation]
Counters == [started : Nat, completed : Nat, failed : Nat, in_progress : Nat,
             durations : Nat, checks : Nat, flags : Nat, records : Nat]

Types ==
    /\ saved \in [Threads -> Checkpoint]
    /\ pc \in [Runs -> Places]
    /\ run \in [Runs -> Run \cup {NoRun}]
    /\ queue \in Seq(Items)
    /\ metrics \in Counters
    /\ cancelled \in Nat
    /\ inputs \in [Threads -> Nat]

\* What policy_node has decided it decided on a proposal, by some rules.
Weighed(s, outcome) ==
    /\ s.procurement_proposal # NoProposal
    /\ \E rules \in RuleBooks : Evaluates(s.procurement_proposal, rules, outcome)

InPolicy(r) == pc[r] \in {"audit", "interrupt"}

Running(r) ==
    /\ pc[r] = "idle" <=> run[r] = NoRun
    /\ InPolicy(r) => Weighed(g(r), run[r].outcome)

Busy == {r \in Runs : pc[r] # "idle" /\ IsChat(r)}
Flagged == {r \in Runs : Queueing(r)}

Counts(busy, flagged) ==
    /\ metrics.in_progress = busy
    /\ metrics.started = metrics.durations + metrics.in_progress
    /\ metrics.durations = metrics.completed + metrics.failed + cancelled
    /\ metrics.records <= Len(queue)
    /\ Len(queue) + flagged <= metrics.flags
    /\ metrics.flags <= metrics.checks

IInv ==
    /\ Types
    /\ \A r \in Runs : Running(r)
    /\ Counts(Cardinality(Busy), Cardinality(Flagged))

-----------------------------------------------------------------------------

LEMMA FreshType == Fresh \in GraphState /\ Unused \in Checkpoint
  BY DEF Fresh, Unused, GraphState, Checkpoint

LEMMA NoRunIsNone == NoRun \notin Run
  BY DEF NoRun, Run

LEMMA SetsFinite ==
  /\ IsFiniteSet(Busy) /\ Cardinality(Busy) \in Nat
  /\ IsFiniteSet(Flagged) /\ Cardinality(Flagged) \in Nat
  <1>1. IsFiniteSet(Runs) /\ Busy \subseteq Runs /\ Flagged \subseteq Runs
    BY WorkflowAssumption DEF Busy, Flagged
  <1> QED
    BY <1>1, FS_Subset, FS_CardinalityType

LEMMA InitInv == Init => IInv
  <1> SUFFICES ASSUME Init PROVE IInv
    OBVIOUS
  <1>1. Types
    BY FreshType DEF Init, Types, Places, NoMetrics, Counters
  <1>2. \A r \in Runs : Running(r)
    BY DEF Init, Running, InPolicy
  <1>3. Busy = {} /\ Flagged = {}
    BY DEF Init, Busy, Flagged, Queueing, Decided
  <1>4. Counts(0, 0)
    BY DEF Init, Counts, NoMetrics
  <1> QED
    BY <1>1, <1>2, <1>3, <1>4, FS_EmptySet DEF IInv

\* A run that a step leaves alone.
Rests(r) == pc'[r] = pc[r] /\ run'[r] = run[r]

LEMMA RestsKeeps ==
  ASSUME NEW r, Running(r), Rests(r)
  PROVE  Running(r)'
  BY DEF Running, Rests, InPolicy, Weighed, g

\* How the two sets change with one run.
LEMMA BusyChanges ==
  ASSUME NEW r \in Runs, \A x \in Runs : x # r => Rests(x)
  PROVE  /\ Busy' = (IF r \in Busy' THEN Busy \cup {r} ELSE Busy \ {r})
         /\ Flagged' = (IF r \in Flagged' THEN Flagged \cup {r} ELSE Flagged \ {r})
  BY DEF Busy, Flagged, Queueing, Decided, IsChat, Rests

LEMMA CardinalitiesChange ==
  ASSUME NEW r \in Runs, \A x \in Runs : x # r => Rests(x)
  PROVE  /\ Cardinality(Busy') =
                Cardinality(Busy) + (IF r \in Busy' THEN 1 ELSE 0)
                                  - (IF r \in Busy THEN 1 ELSE 0)
         /\ Cardinality(Flagged') =
                Cardinality(Flagged) + (IF r \in Flagged' THEN 1 ELSE 0)
                                     - (IF r \in Flagged THEN 1 ELSE 0)
         /\ Cardinality(Busy) \in Nat /\ Cardinality(Busy') \in Nat
         /\ Cardinality(Flagged) \in Nat /\ Cardinality(Flagged') \in Nat
  <1>1. ASSUME NEW S, IsFiniteSet(S), NEW T, T = S \cup {r} \/ T = S \ {r}
        PROVE  Cardinality(T) = Cardinality(S) + (IF r \in T THEN 1 ELSE 0)
                                               - (IF r \in S THEN 1 ELSE 0)
    <2>1. Cardinality(S) \in Nat
      BY <1>1, FS_CardinalityType
    <2>2. CASE T = S \cup {r}
      <3>1. Cardinality(T) = IF r \in S THEN Cardinality(S) ELSE Cardinality(S) + 1
        BY <1>1, <2>2, FS_AddElement
      <3> QED
        BY <2>1, <2>2, <3>1
    <2>3. CASE T = S \ {r}
      <3>1. Cardinality(T) = IF r \in S THEN Cardinality(S) - 1 ELSE Cardinality(S)
        BY <1>1, <2>3, FS_RemoveElement
      <3> QED
        BY <2>1, <2>3, <3>1
    <2> QED
      BY <1>1, <2>2, <2>3
  <1>2. Busy' \subseteq Runs /\ Flagged' \subseteq Runs
    BY DEF Busy, Flagged
  <1> QED
    BY <1>1, <1>2, BusyChanges, SetsFinite, WorkflowAssumption, FS_Subset, FS_CardinalityType

\* The frame of a step of one run: what it does to the two sets and the counters
\* is said with their sizes before and after it.
LEMMA OneRun ==
  ASSUME IInv, NEW r \in Runs, \A x \in Runs : x # r => Rests(x), Types', Running(r)',
         \A busy, flagged, busier, more \in Nat :
            /\ Counts(busy, flagged)
            /\ busier = busy + (IF r \in Busy' THEN 1 ELSE 0) - (IF r \in Busy THEN 1 ELSE 0)
            /\ more = flagged + (IF r \in Flagged' THEN 1 ELSE 0)
                              - (IF r \in Flagged THEN 1 ELSE 0)
            => Counts(busier, more)'
  PROVE  IInv'
  <1>1. PICK busy, flagged, busier, more \in Nat :
           /\ busy = Cardinality(Busy) /\ busier = Cardinality(Busy')
           /\ flagged = Cardinality(Flagged) /\ more = Cardinality(Flagged')
    BY CardinalitiesChange
  <1>2. Counts(busier, more)'
    BY <1>1, CardinalitiesChange DEF IInv
  <1>3. \A x \in Runs : Running(x)'
    BY RestsKeeps DEF IInv
  <1> QED
    BY <1>1, <1>2, <1>3 DEF IInv

-----------------------------------------------------------------------------
(***************************************************************************)
(* What the steps inside the graph do.                                     *)
(***************************************************************************)

LEMMA RunType ==
  ASSUME IInv, NEW r \in Runs, pc[r] # "idle"
  PROVE  run[r] \in Run /\ g(r) \in GraphState /\ run[r].thread \in Threads
  BY DEF IInv, Types, Running, Run, g

\* The run of a step that returns to the supervisor, or to any other node.
After(r, s, node, new) ==
    /\ pc' = [pc EXCEPT ![r] = node]
    /\ run' = [run EXCEPT ![r] = new]
    /\ saved' = [saved EXCEPT ![run[r].thread] = [at |-> node, state |-> s]]
    /\ UNCHANGED <<reply, cancelled, inputs, deciding, started>>
    /\ new \in Run /\ new.state = s /\ new.kind = run[r].kind
    /\ new.thread = run[r].thread /\ new.asked = run[r].asked
    /\ new.first = run[r].first /\ new.resuming = FALSE

Returned(r, new, proposed) ==
    /\ new.proposed = proposed /\ new.hops = run[r].hops
    /\ new.last = IF pc[r] \in Specialists THEN pc[r] ELSE "policy_agent"

LEMMA ReturnIs ==
  ASSUME IInv, NEW r \in Runs, pc[r] # "idle", NEW s \in GraphState,
         NEW proposed \in {"none", "order", "no_reorder"}, Return(r, s, proposed)
  PROVE  \E new : After(r, s, "supervisor", new) /\ Returned(r, new, proposed)
  <1> DEFINE last == IF pc[r] \in Specialists THEN pc[r] ELSE "policy_agent"
             new == [run[r] EXCEPT !.state = s, !.proposed = proposed, !.last = last,
                                   !.outcome = NoOutcome, !.resuming = FALSE]
  <1>1. run[r] \in Run
    BY RunType
  <1>2. last \in Specialists
    BY DEF Specialists
  <1>3. run' = [run EXCEPT ![r] = new]
    BY <1>1 DEF Return, IInv, Types
  <1> HIDE DEF last
  <1>4. /\ new \in Run /\ new.state = s /\ new.kind = run[r].kind
        /\ new.thread = run[r].thread /\ new.asked = run[r].asked
        /\ new.first = run[r].first /\ new.resuming = FALSE
        /\ new.proposed = proposed /\ new.last = last /\ new.hops = run[r].hops
    BY <1>1, <1>2 DEF Run
  <1> HIDE DEF new
  <1>5. After(r, s, "supervisor", new)
    BY <1>3, <1>4 DEF After, Return, Save
  <1> QED
    BY <1>4, <1>5 DEF Returned, last

\* The order of the routing prompt, name by name.
LEMMA SuccessorIs ==
  /\ Successor["none"] = "inventory_agent"
  /\ Successor["inventory_agent"] = "forecast_agent"
  /\ Successor["forecast_agent"] = "procurement_agent"
  /\ Successor["procurement_agent"] = "policy_agent"
  /\ Successor["policy_agent"] = "END"
  /\ Successor["knowledge_agent"] = "END"
  /\ Successor["analytics_agent"] = "END"
  BY DEF Successor

LEMMA RouteType ==
  ASSUME NEW r, run[r] \in Run
  PROVE  Route(r) \subseteq Specialists \cup {"END"}
  <1>1. run[r].last \in Specialists \cup {"none"}
    BY DEF Run
  <1>2. Successor[run[r].last] \in Specialists \cup {"END"}
    BY <1>1, SuccessorIs DEF Specialists
  <1> QED
    BY <1>2 DEF Route, Prompted, Specialists

LEMMA SupervisorIs ==
  ASSUME IInv, NEW r \in Runs, Supervisor(r)
  PROVE  /\ pc[r] = "supervisor" /\ UNCHANGED <<queue, metrics>>
         /\ \E next \in Route(r), s \in GraphState : \E new :
               /\ next \in Specialists \cup {"END"}
               /\ s = [g(r) EXCEPT !.next_agent = next]
               /\ After(r, s, next, new) /\ new.hops = run[r].hops + 1
               /\ new.proposed = run[r].proposed /\ new.last = run[r].last
  <1>1. /\ pc[r] = "supervisor" /\ UNCHANGED <<queue, metrics>>
        /\ run[r].hops < MaxHops
    BY DEF Supervisor, Node
  <1>2. PICK next \in Route(r) :
           /\ Save(r, [g(r) EXCEPT !.next_agent = next], next)
           /\ run' = [run EXCEPT ![r].state = [g(r) EXCEPT !.next_agent = next],
                                 ![r].hops = @ + 1, ![r].resuming = FALSE]
    BY DEF Supervisor
  <1>3. run[r] \in Run /\ g(r) \in GraphState
    BY <1>1, RunType
  <1>4. next \in Specialists \cup {"END"}
    BY RouteType, <1>3
  <1> DEFINE s == [g(r) EXCEPT !.next_agent = next]
             hops == run[r].hops + 1
             new == [run[r] EXCEPT !.state = s, !.hops = hops, !.resuming = FALSE]
  <1>5. s \in GraphState /\ s = [g(r) EXCEPT !.next_agent = next]
    BY <1>3, <1>4 DEF GraphState
  <1>6. run' = [run EXCEPT ![r] = new] /\ Save(r, s, next)
    BY <1>2, <1>3 DEF IInv, Types
  <1> HIDE DEF s
  <1>7. hops \in 0..MaxHops
    <2>1. run[r].hops \in 0..MaxHops
      BY <1>3 DEF Run
    <2> QED
      BY <1>1, <2>1, WorkflowAssumption
  <1> HIDE DEF hops
  <1>8. /\ new \in Run /\ new.state = s /\ new.kind = run[r].kind
        /\ new.thread = run[r].thread /\ new.asked = run[r].asked
        /\ new.first = run[r].first /\ new.resuming = FALSE
        /\ new.proposed = run[r].proposed /\ new.last = run[r].last /\ new.hops = hops
    BY <1>3, <1>5, <1>7 DEF Run
  <1> HIDE DEF new
  <1>9. After(r, s, next, new)
    BY <1>6, <1>8 DEF After, Save
  <1> QED
    BY <1>1, <1>4, <1>5, <1>8, <1>9 DEF hops

LEMMA SpecialistIs ==
  ASSUME IInv, NEW r \in Runs,
         \/ InventoryAgent(r) \/ ForecastAgent(r) \/ KnowledgeAgent(r)
         \/ AnalyticsAgent(r) \/ NothingToEvaluate(r)
  PROVE  /\ pc[r] \in Specialists /\ UNCHANGED <<queue, metrics>>
         /\ \E s \in GraphState :
               /\ Return(r, s, run[r].proposed)
               /\ s.procurement_proposal = g(r).procurement_proposal
               /\ s.policy_decision = g(r).policy_decision
               /\ s.material_id =
                     IF pc[r] # "inventory_agent" \/ g(r).material_id # NoMaterial
                     THEN g(r).material_id
                     ELSE IF g(r).said # NoMaterial THEN g(r).said ELSE DefaultMaterial
  <1>1. pc[r] \in Specialists /\ UNCHANGED <<queue, metrics>>
    BY DEF InventoryAgent, ForecastAgent, KnowledgeAgent, AnalyticsAgent,
           NothingToEvaluate, Node, Specialists
  <1>2. g(r) \in GraphState
    BY <1>1, RunType DEF Specialists
  <1>3. CASE InventoryAgent(r)
    <2> DEFINE m == IF g(r).material_id # NoMaterial THEN g(r).material_id
                    ELSE IF g(r).said # NoMaterial THEN g(r).said ELSE DefaultMaterial
    <2>1. m \in Materials
      BY <1>2, WorkflowAssumption DEF GraphState
    <2>2. pc[r] = "inventory_agent"
      BY <1>3 DEF InventoryAgent, Node
    <2>3. PICK stock \in OnHand :
             Return(r, [g(r) EXCEPT !.said = m, !.material_id = m,
                                    !.inventory_result = stock], run[r].proposed)
      BY <1>3 DEF InventoryAgent, StockLevels
    <2> HIDE DEF m
    <2> DEFINE s == [g(r) EXCEPT !.said = m, !.material_id = m, !.inventory_result = stock]
    <2>4. /\ s \in GraphState /\ s.procurement_proposal = g(r).procurement_proposal
          /\ s.policy_decision = g(r).policy_decision /\ s.material_id = m
      BY <1>2, <2>1 DEF GraphState
    <2> HIDE DEF s
    <2>5. Return(r, s, run[r].proposed)
      BY <2>3 DEF s
    <2> QED
      BY <1>1, <2>2, <2>4, <2>5 DEF m
  <1>4. CASE ForecastAgent(r)
    <2>1. pc[r] = "forecast_agent"
      BY <1>4 DEF ForecastAgent, Node
    <2>2. PICK qty \in Demand :
             Return(r, [g(r) EXCEPT !.said = MaterialOr(r), !.forecast_result = qty],
                    run[r].proposed)
      BY <1>4 DEF ForecastAgent, Forecasts
    <2>3. MaterialOr(r) \in Materials
      BY <1>2, WorkflowAssumption DEF MaterialOr, GraphState
    <2> DEFINE s == [g(r) EXCEPT !.said = MaterialOr(r), !.forecast_result = qty]
    <2>4. /\ s \in GraphState /\ s.procurement_proposal = g(r).procurement_proposal
          /\ s.policy_decision = g(r).policy_decision /\ s.material_id = g(r).material_id
      BY <1>2, <2>3 DEF GraphState
    <2> HIDE DEF s
    <2>5. Return(r, s, run[r].proposed)
      BY <2>2 DEF s
    <2> QED
      BY <1>1, <2>1, <2>4, <2>5
  <1>5. CASE KnowledgeAgent(r) \/ AnalyticsAgent(r) \/ NothingToEvaluate(r)
    <2>1. pc[r] # "inventory_agent"
      BY <1>5 DEF KnowledgeAgent, AnalyticsAgent, NothingToEvaluate, Node
    <2>2. PICK m \in Materials \cup {NoMaterial} :
             Return(r, [g(r) EXCEPT !.said = m], run[r].proposed)
      BY <1>5 DEF KnowledgeAgent, AnalyticsAgent, NothingToEvaluate
    <2> DEFINE s == [g(r) EXCEPT !.said = m]
    <2>3. /\ s \in GraphState /\ s.procurement_proposal = g(r).procurement_proposal
          /\ s.policy_decision = g(r).policy_decision /\ s.material_id = g(r).material_id
      BY <1>2 DEF GraphState
    <2> HIDE DEF s
    <2>4. Return(r, s, run[r].proposed)
      BY <2>2 DEF s
    <2> QED
      BY <1>1, <2>1, <2>3, <2>4
  <1> QED
    BY <1>3, <1>4, <1>5

LEMMA ProcurementIs ==
  ASSUME IInv, NEW r \in Runs, ProcurementAgent(r)
  PROVE  /\ pc[r] = "procurement_agent" /\ UNCHANGED <<queue, metrics>>
         /\ \E s \in GraphState, proposed \in {"order", "no_reorder"} :
               /\ Return(r, s, proposed)
               /\ s.policy_decision = g(r).policy_decision
               /\ s.material_id = g(r).material_id
               /\ \/ proposed = "order" /\ s.procurement_proposal # NoProposal
                  \/ /\ proposed = "no_reorder"
                     /\ s.procurement_proposal = g(r).procurement_proposal
  <1> DEFINE said == [g(r) EXCEPT !.said = MaterialOr(r)]
             net == Qty(said.forecast_result) - Qty(said.inventory_result)
  <1>0. PICK qty \in ReorderQty(net) :
           \/ qty = 0 /\ Return(r, said, "no_reorder")
           \/ /\ qty > 0
              /\ \E v \in Vendors :
                    Return(r, [said EXCEPT !.procurement_proposal =
                                  [material |-> MaterialOr(r), vendor_id |-> v,
                                   qty |-> qty]], "order")
    BY DEF ProcurementAgent, PreferredVendors
  <1>1. pc[r] = "procurement_agent" /\ UNCHANGED <<queue, metrics>> /\ g(r) \in GraphState
    BY RunType DEF ProcurementAgent, Node
  <1>2. MaterialOr(r) \in Materials
    BY <1>1, WorkflowAssumption DEF MaterialOr, GraphState
  <1>3. /\ said \in GraphState
        /\ said.policy_decision = g(r).policy_decision
        /\ said.material_id = g(r).material_id
        /\ said.procurement_proposal = g(r).procurement_proposal
    BY <1>1, <1>2 DEF GraphState
  <1>4. CASE qty = 0 /\ Return(r, said, "no_reorder")
    BY <1>1, <1>3, <1>4
  <1>5. CASE qty > 0 /\ \E v \in Vendors :
                 Return(r, [said EXCEPT !.procurement_proposal =
                               [material |-> MaterialOr(r), vendor_id |-> v,
                                qty |-> qty]], "order")
    <2>1. qty \in Nat
      <3>1. net \in Int
        BY <1>3, WorkflowAssumption DEF Qty, GraphState
      <3> HIDE DEF net
      <3>2. ReorderQty(net) \subseteq Int
        BY <3>1 DEF ReorderQty
      <3>3. qty \in ReorderQty(net)
        BY <1>0
      <3>4. qty > 0
        BY <1>5
      <3> QED
        BY <3>2, <3>3, <3>4
    <2>2. PICK v \in Vendors :
             Return(r, [said EXCEPT !.procurement_proposal =
                           [material |-> MaterialOr(r), vendor_id |-> v,
                            qty |-> qty]], "order")
      BY <1>5
    <2> HIDE DEF said
    <2> DEFINE order == [material |-> MaterialOr(r), vendor_id |-> v, qty |-> qty]
               s == [said EXCEPT !.procurement_proposal = order]
    <2>3. order \in Recommendation
      BY <1>2, <2>1 DEF Recommendation
    <2> HIDE DEF order
    <2>4. /\ s \in GraphState /\ s.policy_decision = g(r).policy_decision
          /\ s.material_id = g(r).material_id /\ s.procurement_proposal = order
      BY <1>3, <2>3 DEF GraphState
    <2>5. order # NoProposal
      BY <2>3, WorkflowAssumption
    <2> HIDE DEF s
    <2>6. Return(r, s, "order")
      BY <2>2 DEF s, order
    <2> QED
      BY <1>1, <2>4, <2>5, <2>6
  <1> QED
    BY <1>0, <1>4, <1>5

\* policy_node returns what it has decided on the proposal.
LEMMA PolicyReturns ==
  ASSUME IInv, NEW r \in Runs, Deny(r) \/ Approve(r) \/ AfterInterrupt(r)
  PROVE  /\ InPolicy(r) /\ ~Queueing(r) /\ UNCHANGED <<queue, metrics>>
         /\ \E s \in GraphState :
               /\ Return(r, s, run[r].proposed)
               /\ s.procurement_proposal = g(r).procurement_proposal
               /\ s.material_id = g(r).material_id
               /\ run[r].resuming \/ s.policy_decision = run[r].outcome
               /\ s.policy_decision = IF pc[r] = "interrupt" THEN "needs_human"
                                      ELSE run[r].outcome
  <1>1. InPolicy(r) /\ ~Queueing(r) /\ UNCHANGED <<queue, metrics>>
    BY DEF Deny, Approve, AfterInterrupt, InPolicy, Queueing, Decided
  <1>2. g(r) \in GraphState /\ run[r].outcome \in Outcomes \cup {NoOutcome}
    BY <1>1, RunType DEF InPolicy, Run
  <1>3. CASE Deny(r)
    <2> DEFINE s == [g(r) EXCEPT !.said = NoMaterial, !.policy_decision = "denied",
                                 !.next_agent = "__end__"]
    <2>1. /\ s \in GraphState /\ s.procurement_proposal = g(r).procurement_proposal
          /\ s.material_id = g(r).material_id /\ s.policy_decision = "denied"
      BY <1>2 DEF GraphState, Outcomes
    <2>2. /\ Return(r, s, run[r].proposed) /\ run[r].outcome = "denied"
          /\ pc[r] = "audit"
      BY <1>3 DEF Deny, Decided
    <2> QED
      BY <1>1, <2>1, <2>2
  <1>4. CASE Approve(r)
    <2> DEFINE s == [g(r) EXCEPT !.said = NoMaterial, !.policy_decision = "auto_approved",
                                 !.approval_required = FALSE]
    <2>1. /\ s \in GraphState /\ s.procurement_proposal = g(r).procurement_proposal
          /\ s.material_id = g(r).material_id /\ s.policy_decision = "auto_approved"
      BY <1>2 DEF GraphState, Outcomes
    <2>2. /\ Return(r, s, run[r].proposed) /\ run[r].outcome = "auto_approved"
          /\ pc[r] = "audit"
      BY <1>4 DEF Approve, Decided
    <2> QED
      BY <1>1, <2>1, <2>2
  <1>5. CASE AfterInterrupt(r)
    <2> DEFINE m == g(r).procurement_proposal.material
               s == [g(r) EXCEPT !.said = m, !.policy_decision = "needs_human",
                                 !.approval_required = TRUE]
    <2>1. m \in Materials
      <3>1. g(r).procurement_proposal # NoProposal
        BY <1>1 DEF IInv, Running, Weighed
      <3>2. g(r).procurement_proposal \in Recommendation
        BY <1>2, <3>1 DEF GraphState
      <3> QED
        BY <3>2 DEF Recommendation
    <2> HIDE DEF m
    <2>2. /\ s \in GraphState /\ s.procurement_proposal = g(r).procurement_proposal
          /\ s.material_id = g(r).material_id /\ s.policy_decision = "needs_human"
      BY <1>2, <2>1 DEF GraphState, Outcomes
    <2> HIDE DEF s
    <2>3. /\ Return(r, s, run[r].proposed) /\ run[r].resuming
          /\ pc[r] = "interrupt"
      BY <1>5 DEF AfterInterrupt, s, m
    <2> QED
      BY <1>1, <2>2, <2>3
  <1> QED
    BY <1>3, <1>4, <1>5

-----------------------------------------------------------------------------
(***************************************************************************)
(* The invariant is kept.                                                  *)
(***************************************************************************)

\* A step to another node counts nothing.
LEMMA AfterKeeps ==
  ASSUME IInv, NEW r \in Runs, NEW s \in GraphState, NEW node \in Nodes \cup {"END"}, NEW new,
         pc[r] # "idle", ~Queueing(r), After(r, s, node, new), UNCHANGED <<queue, metrics>>
  PROVE  IInv'
  <1>1. run[r] \in Run /\ run[r].thread \in Threads
    BY RunType
  <1>2. /\ pc' = [pc EXCEPT ![r] = node] /\ run' = [run EXCEPT ![r] = new]
        /\ saved' = [saved EXCEPT ![run[r].thread] = [at |-> node, state |-> s]]
        /\ new \in Run /\ new.kind = run[r].kind /\ UNCHANGED <<cancelled, inputs>>
    BY DEF After
  <1>3. pc'[r] = node /\ run'[r] = new /\ \A x \in Runs : x # r => Rests(x)
    BY <1>2 DEF IInv, Types, Rests
  <1>4. Types'
    <2>1. [at |-> node, state |-> s] \in Checkpoint /\ node \in Places
      BY DEF Checkpoint, Nodes, Places
    <2> QED
      BY <1>1, <1>2, <2>1 DEF IInv, Types
  <1>5. node \notin {"idle", "audit", "interrupt"}
    BY DEF Nodes, Specialists
  <1>6. Running(r)'
    BY <1>2, <1>3, <1>5, NoRunIsNone DEF Running, InPolicy
  <1>7. r \in Busy' <=> r \in Busy
    BY <1>2, <1>3, <1>5 DEF Busy, IsChat
  <1>8. r \notin Flagged /\ r \notin Flagged'
    BY <1>3, <1>5 DEF Flagged, Queueing, Decided
  <1>9. ASSUME NEW busy \in Nat, NEW flagged \in Nat, NEW busier \in Nat, NEW more \in Nat,
               Counts(busy, flagged),
               busier = busy + (IF r \in Busy' THEN 1 ELSE 0) - (IF r \in Busy THEN 1 ELSE 0),
               more = flagged + (IF r \in Flagged' THEN 1 ELSE 0)
                              - (IF r \in Flagged THEN 1 ELSE 0)
        PROVE  Counts(busier, more)'
    <2>1. busier = busy /\ more = flagged
      BY <1>7, <1>8, <1>9
    <2> QED
      BY <1>2, <1>9, <2>1 DEF Counts
  <1> QED
    BY <1>3, <1>4, <1>6, <1>9, OneRun

GraphStep(r) ==
    \/ Supervisor(r) \/ InventoryAgent(r) \/ ForecastAgent(r) \/ ProcurementAgent(r)
    \/ KnowledgeAgent(r) \/ AnalyticsAgent(r) \/ NothingToEvaluate(r)
    \/ Deny(r) \/ Approve(r) \/ AfterInterrupt(r)

Moves(r, s, node, new) ==
    /\ s \in GraphState /\ node \in Nodes \cup {"END"} /\ After(r, s, node, new)
    /\ pc[r] # "idle" /\ ~Queueing(r) /\ UNCHANGED <<queue, metrics>>

LEMMA GraphIs ==
  ASSUME IInv, NEW r \in Runs, GraphStep(r)
  PROVE  \E s, node, new : Moves(r, s, node, new)
  <1>1. ASSUME NEW s \in GraphState, NEW proposed \in {"none", "order", "no_reorder"},
               Return(r, s, proposed), pc[r] # "idle", ~Queueing(r),
               UNCHANGED <<queue, metrics>>
        PROVE  \E x, node, new : Moves(r, x, node, new)
    <2>1. PICK new : After(r, s, "supervisor", new)
      BY <1>1, ReturnIs
    <2>2. Moves(r, s, "supervisor", new)
      BY <1>1, <2>1 DEF Moves, Nodes
    <2> QED
      BY <2>2
  <1>2. pc[r] # "idle" => run[r].proposed \in {"none", "order", "no_reorder"}
    BY RunType DEF Run
  <1>3. CASE Supervisor(r)
    <2>1. pc[r] # "idle" /\ ~Queueing(r)
      BY <1>3, SupervisorIs DEF Queueing, Decided
    <2>2. UNCHANGED <<queue, metrics>>
      BY <1>3, SupervisorIs
    <2>3. PICK next \in Route(r), s \in GraphState : \E new :
             next \in Specialists \cup {"END"} /\ After(r, s, next, new)
      BY <1>3, SupervisorIs
    <2>4. PICK new : After(r, s, next, new)
      BY <2>3
    <2>5. Moves(r, s, next, new)
      BY <2>1, <2>2, <2>3, <2>4 DEF Moves, Nodes
    <2> QED
      BY <2>5
  <1>4. CASE \/ InventoryAgent(r) \/ ForecastAgent(r) \/ KnowledgeAgent(r)
             \/ AnalyticsAgent(r) \/ NothingToEvaluate(r)
    <2>1. pc[r] \in Specialists
      BY <1>4, SpecialistIs
    <2>2. pc[r] # "idle" /\ ~Queueing(r)
      BY <2>1 DEF Queueing, Decided, Specialists
    <2> QED
      BY <1>1, <1>2, <1>4, <2>2, SpecialistIs
  <1>5. CASE ProcurementAgent(r)
    <2>1. pc[r] # "idle" /\ ~Queueing(r)
      BY <1>5, ProcurementIs DEF Queueing, Decided
    <2> QED
      BY <1>1, <1>5, <2>1, ProcurementIs
  <1>6. CASE Deny(r) \/ Approve(r) \/ AfterInterrupt(r)
    <2>1. pc[r] # "idle"
      BY <1>6, PolicyReturns DEF InPolicy
    <2> QED
      BY <1>1, <1>2, <1>6, <2>1, PolicyReturns
  <1> QED
    BY <1>3, <1>4, <1>5, <1>6 DEF GraphStep

LEMMA GraphKeeps ==
  ASSUME IInv, NEW r \in Runs, GraphStep(r)
  PROVE  IInv'
  <1>1. PICK s, node, new : Moves(r, s, node, new)
    BY GraphIs
  <1> QED
    BY <1>1, AfterKeeps DEF Moves

LEMMA CounterTypes ==
  ASSUME NEW m \in Counters
  PROVE  /\ m.started \in Nat /\ m.completed \in Nat /\ m.failed \in Nat
         /\ m.in_progress \in Nat /\ m.durations \in Nat /\ m.checks \in Nat
         /\ m.flags \in Nat /\ m.records \in Nat
  BY DEF Counters

\* What counting does to the other counters: nothing.
SameChats(m, n) ==
    /\ n.started = m.started /\ n.completed = m.completed /\ n.failed = m.failed
    /\ n.in_progress = m.in_progress /\ n.durations = m.durations

LEMMA CheckCounted ==
  ASSUME NEW m \in Counters, NEW n, n = [m EXCEPT !.checks = @ + 1]
  PROVE  n \in Counters /\ SameChats(m, n) /\ n.records = m.records
         /\ n.checks = m.checks + 1 /\ n.flags = m.flags
  BY CounterTypes DEF Counters, SameChats

LEMMA FlagCounted ==
  ASSUME NEW m \in Counters, NEW n, n = [m EXCEPT !.checks = @ + 1, !.flags = @ + 1]
  PROVE  n \in Counters /\ SameChats(m, n) /\ n.records = m.records
         /\ n.checks = m.checks + 1 /\ n.flags = m.flags + 1
  <1> DEFINE c == m.checks + 1
             f == m.flags + 1
  <1>1. c \in Nat /\ f \in Nat
    BY CounterTypes
  <1>2. n = [m EXCEPT !.checks = c, !.flags = f]
    OBVIOUS
  <1> HIDE DEF c, f
  <1>3. /\ n \in Counters /\ SameChats(m, n) /\ n.records = m.records
        /\ n.checks = c /\ n.flags = f
    BY <1>1, <1>2 DEF Counters, SameChats
  <1> QED
    BY <1>3 DEF c, f

LEMMA RecordCounted ==
  ASSUME NEW m \in Counters, NEW n, n = [m EXCEPT !.records = @ + 1]
  PROVE  n \in Counters /\ SameChats(m, n) /\ n.records = m.records + 1
         /\ n.checks = m.checks /\ n.flags = m.flags
  BY CounterTypes DEF Counters, SameChats

LEMMA PolicyAgentKeeps ==
  ASSUME IInv, NEW r \in Runs, PolicyAgent(r)
  PROVE  IInv'
  <1>1. PICK outcome \in Outcomes :
           /\ pc[r] = "policy_agent" /\ UNCHANGED <<saved, queue, reply, cancelled, inputs, deciding, started>>
           /\ pc' = [pc EXCEPT ![r] = "audit"]
           /\ run' = [run EXCEPT ![r].outcome = outcome]
           /\ Weighed(g(r), outcome)
           /\ metrics' = IF outcome = "needs_human"
                         THEN [metrics EXCEPT !.checks = @ + 1, !.flags = @ + 1]
                         ELSE [metrics EXCEPT !.checks = @ + 1]
    BY DEF PolicyAgent, Node, Weighed
  <1> DEFINE new == [run[r] EXCEPT !.outcome = outcome]
  <1>2. run[r] \in Run
    BY <1>1, RunType
  <1>3. run' = [run EXCEPT ![r] = new]
    BY <1>1, <1>2 DEF IInv, Types
  <1>4. /\ new \in Run /\ new.outcome = outcome /\ new.state = g(r)
        /\ new.kind = run[r].kind
    BY <1>2 DEF Run, g
  <1> HIDE DEF new
  <1>5. pc'[r] = "audit" /\ run'[r] = new /\ \A x \in Runs : x # r => Rests(x)
    BY <1>1, <1>3 DEF IInv, Types, Rests
  <1>10. /\ metrics' \in Counters /\ SameChats(metrics, metrics')
        /\ metrics'.records = metrics.records /\ metrics'.checks = metrics.checks + 1
        /\ metrics'.flags = metrics.flags + IF outcome = "needs_human" THEN 1 ELSE 0
    <2>1. metrics \in Counters /\ metrics.flags \in Nat
      BY CounterTypes DEF IInv, Types
    <2>2. CASE outcome = "needs_human"
      <3>1. metrics' = [metrics EXCEPT !.checks = @ + 1, !.flags = @ + 1]
        BY <1>1, <2>2
      <3> QED
        BY <2>1, <2>2, <3>1, FlagCounted
    <2>3. CASE outcome # "needs_human"
      <3>1. metrics' = [metrics EXCEPT !.checks = @ + 1]
        BY <1>1, <2>3
      <3> QED
        BY <2>1, <2>3, <3>1, CheckCounted
    <2> QED
      BY <2>2, <2>3
  <1>6. Types'
    BY <1>1, <1>3, <1>4, <1>10 DEF IInv, Types, Places
  <1>7. Running(r)'
    BY <1>1, <1>4, <1>5, NoRunIsNone DEF Running, InPolicy, Weighed, g
  <1>8. /\ r \in Busy' <=> r \in Busy
        /\ r \notin Flagged /\ (r \in Flagged' <=> outcome = "needs_human")
    BY <1>1, <1>4, <1>5 DEF Busy, IsChat, Flagged, Queueing, Decided
  <1>9. ASSUME NEW busy \in Nat, NEW flagged \in Nat, NEW busier \in Nat, NEW more \in Nat,
               Counts(busy, flagged),
               busier = busy + (IF r \in Busy' THEN 1 ELSE 0) - (IF r \in Busy THEN 1 ELSE 0),
               more = flagged + (IF r \in Flagged' THEN 1 ELSE 0)
                              - (IF r \in Flagged THEN 1 ELSE 0)
        PROVE  Counts(busier, more)'
    <2>1. busier = busy /\ more = flagged + IF outcome = "needs_human" THEN 1 ELSE 0
      BY <1>8, <1>9
    <2>2. Len(queue) \in Nat /\ metrics \in Counters /\ queue' = queue /\ cancelled' = cancelled
      BY <1>1 DEF IInv, Types
    <2>3. metrics.flags \in Nat /\ metrics.checks \in Nat
      BY <2>2, CounterTypes
    <2>4. /\ Len(queue) + flagged <= metrics.flags /\ metrics.flags <= metrics.checks
          /\ metrics.records <= Len(queue)
      BY <1>9 DEF Counts
    <2>5. Len(queue) + more <= metrics'.flags /\ metrics'.flags <= metrics'.checks
      BY <1>10, <2>1, <2>2, <2>3, <2>4
    <2> QED
      BY <1>9, <1>10, <2>1, <2>2, <2>4, <2>5 DEF Counts, SameChats
  <1> QED
    BY <1>5, <1>6, <1>7, <1>9, OneRun

LEMMA ItemType ==
  ASSUME IInv, NEW r \in Runs, InPolicy(r)
  PROVE  Item(r) \in Items
  <1>1. run[r].thread \in Threads /\ g(r) \in GraphState /\ Weighed(g(r), run[r].outcome)
    BY RunType DEF IInv, Running, InPolicy
  <1>2. g(r).procurement_proposal \in Recommendation
    BY <1>1 DEF Weighed, GraphState
  <1> QED
    BY <1>1, <1>2 DEF Item, Items

LEMMA EnqueueKeeps ==
  ASSUME IInv, NEW r \in Runs, Enqueue(r)
  PROVE  IInv'
  <1>1. /\ pc[r] = "audit" /\ run[r].outcome = "needs_human"
        /\ queue' = Append(queue, Item(r))
        /\ metrics' = [metrics EXCEPT !.records = @ + 1]
        /\ pc' = [pc EXCEPT ![r] = "interrupt"]
        /\ UNCHANGED <<saved, run, reply, cancelled, inputs, deciding, started>>
    BY DEF Enqueue, Decided
  <1>2. queue' \in Seq(Items) /\ Len(queue') = Len(queue) + 1 /\ Len(queue) \in Nat
    <2>1. Item(r) \in Items /\ queue \in Seq(Items)
      BY <1>1, ItemType DEF InPolicy, IInv, Types
    <2> QED
      BY <1>1, <2>1
  <1>3. pc'[r] = "interrupt" /\ run'[r] = run[r] /\ \A x \in Runs : x # r => Rests(x)
    BY <1>1 DEF IInv, Types, Rests
  <1>4. /\ metrics' \in Counters /\ SameChats(metrics, metrics')
        /\ metrics'.records = metrics.records + 1
        /\ metrics'.checks = metrics.checks /\ metrics'.flags = metrics.flags
    BY <1>1, RecordCounted DEF IInv, Types
  <1>8. Types'
    BY <1>1, <1>2, <1>4 DEF IInv, Types, Places
  <1>5. Running(r)'
    BY <1>1, <1>3 DEF IInv, Running, InPolicy, Weighed, g
  <1>6. /\ r \in Busy' <=> r \in Busy
        /\ r \in Flagged /\ r \notin Flagged'
    BY <1>1, <1>3 DEF Busy, IsChat, Flagged, Queueing, Decided
  <1>7. ASSUME NEW busy \in Nat, NEW flagged \in Nat, NEW busier \in Nat, NEW more \in Nat,
               Counts(busy, flagged),
               busier = busy + (IF r \in Busy' THEN 1 ELSE 0) - (IF r \in Busy THEN 1 ELSE 0),
               more = flagged + (IF r \in Flagged' THEN 1 ELSE 0)
                              - (IF r \in Flagged THEN 1 ELSE 0)
        PROVE  Counts(busier, more)'
    <2>1. busier = busy /\ more = flagged - 1
      BY <1>6, <1>7
    <2>2. metrics.flags \in Nat /\ metrics.checks \in Nat /\ metrics.records \in Nat
      BY CounterTypes DEF IInv, Types
    <2>3. cancelled' = cancelled
      BY <1>1
    <2> QED
      BY <1>2, <1>4, <1>7, <2>1, <2>2, <2>3 DEF Counts, SameChats
  <1> QED
    BY <1>3, <1>5, <1>7, <1>8, OneRun

\* The end of a chat in the counters; the number of chats that run may be
\* anything until the number of runs is looked at.
EndOfChat(m, n) ==
    /\ n \in [started : Nat, completed : Nat, failed : Nat, in_progress : Int,
              durations : Nat, checks : Nat, flags : Nat, records : Nat]
    /\ n.in_progress = m.in_progress - 1 /\ n.durations = m.durations + 1
    /\ n.started = m.started /\ n.checks = m.checks
    /\ n.flags = m.flags /\ n.records = m.records

LEMMA CompletedCounted ==
  ASSUME NEW m \in Counters, NEW n,
         n = [m EXCEPT !.completed = @ + 1, !.durations = @ + 1, !.in_progress = @ - 1]
  PROVE  EndOfChat(m, n) /\ n.completed + n.failed = m.completed + m.failed + 1
  <1> DEFINE c == m.completed + 1
             d == m.durations + 1
             p == m.in_progress - 1
  <1>1. c \in Nat /\ d \in Nat /\ p \in Int /\ m.completed \in Nat /\ m.failed \in Nat
    BY CounterTypes
  <1>2. n = [m EXCEPT !.completed = c, !.durations = d, !.in_progress = p]
    OBVIOUS
  <1> HIDE DEF c, d, p
  <1>3. /\ n \in [started : Nat, completed : Nat, failed : Nat, in_progress : Int,
                  durations : Nat, checks : Nat, flags : Nat, records : Nat]
        /\ n.completed = c /\ n.failed = m.failed /\ n.durations = d
        /\ n.in_progress = p /\ n.started = m.started /\ n.checks = m.checks
        /\ n.flags = m.flags /\ n.records = m.records
    BY <1>1, <1>2 DEF Counters
  <1>4. n.completed + n.failed = m.completed + m.failed + 1
    BY <1>1, <1>3 DEF c
  <1> QED
    BY <1>3, <1>4 DEF EndOfChat, d, p

LEMMA FailedCounted ==
  ASSUME NEW m \in Counters, NEW n,
         n = [m EXCEPT !.failed = @ + 1, !.durations = @ + 1, !.in_progress = @ - 1]
  PROVE  EndOfChat(m, n) /\ n.completed + n.failed = m.completed + m.failed + 1
  <1> DEFINE c == m.failed + 1
             d == m.durations + 1
             p == m.in_progress - 1
  <1>1. c \in Nat /\ d \in Nat /\ p \in Int /\ m.completed \in Nat /\ m.failed \in Nat
    BY CounterTypes
  <1>2. n = [m EXCEPT !.failed = c, !.durations = d, !.in_progress = p]
    OBVIOUS
  <1> HIDE DEF c, d, p
  <1>3. /\ n \in [started : Nat, completed : Nat, failed : Nat, in_progress : Int,
                  durations : Nat, checks : Nat, flags : Nat, records : Nat]
        /\ n.failed = c /\ n.completed = m.completed /\ n.durations = d
        /\ n.in_progress = p /\ n.started = m.started /\ n.checks = m.checks
        /\ n.flags = m.flags /\ n.records = m.records
    BY <1>1, <1>2 DEF Counters
  <1>4. n.completed + n.failed = m.completed + m.failed + 1
    BY <1>1, <1>3 DEF c
  <1> QED
    BY <1>3, <1>4 DEF EndOfChat, d, p

LEMMA CancelCounted ==
  ASSUME NEW m \in Counters, NEW n, n = [m EXCEPT !.durations = @ + 1, !.in_progress = @ - 1]
  PROVE  EndOfChat(m, n) /\ n.completed + n.failed = m.completed + m.failed
  <1> DEFINE d == m.durations + 1
             p == m.in_progress - 1
  <1>1. d \in Nat /\ p \in Int
    BY CounterTypes
  <1>2. n = [m EXCEPT !.durations = d, !.in_progress = p]
    OBVIOUS
  <1> HIDE DEF d, p
  <1>3. /\ n \in [started : Nat, completed : Nat, failed : Nat, in_progress : Int,
                  durations : Nat, checks : Nat, flags : Nat, records : Nat]
        /\ n.failed = m.failed /\ n.completed = m.completed /\ n.durations = d
        /\ n.in_progress = p /\ n.started = m.started /\ n.checks = m.checks
        /\ n.flags = m.flags /\ n.records = m.records
    BY <1>1, <1>2 DEF Counters
  <1> QED
    BY <1>3 DEF EndOfChat, d, p

\* The end of a run, with what it counts.
EndCounts(r) ==
    IF IsChat(r)
    THEN /\ EndOfChat(metrics, metrics')
         /\ metrics'.completed + metrics'.failed + cancelled' =
               metrics.completed + metrics.failed + cancelled + 1
    ELSE UNCHANGED <<metrics, cancelled>>

LEMMA ForgetKeeps ==
  ASSUME IInv, NEW r \in Runs, pc[r] # "idle", Forget(r), MaybeQueued(r), EndCounts(r),
         UNCHANGED <<saved, inputs>>, cancelled' \in Nat
  PROVE  IInv'
  <1>1. /\ pc' = [pc EXCEPT ![r] = "idle"] /\ run' = [run EXCEPT ![r] = NoRun]
        /\ metrics \in Counters /\ Len(queue) \in Nat
    BY DEF Forget, IInv, Types
  <1>2. pc'[r] = "idle" /\ run'[r] = NoRun /\ \A x \in Runs : x # r => Rests(x)
    BY <1>1 DEF IInv, Types, Rests
  <1>3. /\ queue' \in Seq(Items) /\ Len(queue') \in Nat
        /\ \/ Len(queue') = Len(queue)
           \/ r \in Flagged /\ Len(queue') = Len(queue) + 1
    <2>1. CASE UNCHANGED queue
      BY <2>1 DEF IInv, Types
    <2>2. CASE /\ pc[r] = "audit" /\ run[r].outcome = "needs_human"
               /\ queue' = Append(queue, Item(r))
      <3>1. Item(r) \in Items /\ queue \in Seq(Items)
        BY <2>2, ItemType DEF InPolicy, IInv, Types
      <3> QED
        BY <2>2, <3>1 DEF Flagged, Queueing, Decided
    <2> QED
      BY <2>1, <2>2 DEF MaybeQueued
  <1>4. Running(r)'
    BY <1>2 DEF Running, InPolicy
  <1>5. r \notin Busy' /\ r \notin Flagged' /\ (r \in Busy <=> IsChat(r))
    BY <1>2 DEF Busy, Flagged, Queueing, Decided
  <1>6. metrics' \in Counters
    <2>1. PICK busy, busier \in Nat : /\ metrics.in_progress = busy
                                      /\ busier = busy - (IF r \in Busy THEN 1 ELSE 0)
      BY <1>2, <1>5, CardinalitiesChange DEF IInv, Counts
    <2>2. CASE IsChat(r)
      <3>1. metrics'.in_progress = busier
        BY <1>5, <2>1, <2>2 DEF EndCounts, EndOfChat
      <3> QED
        BY <2>1, <2>2, <3>1 DEF EndCounts, EndOfChat, Counters
    <2>3. CASE ~IsChat(r)
      BY <1>1, <2>3 DEF EndCounts
    <2> QED
      BY <2>2, <2>3
  <1>7. Types'
    BY <1>1, <1>3, <1>6 DEF IInv, Types, Places
  <1>8. ASSUME NEW busy \in Nat, NEW flagged \in Nat, NEW busier \in Nat, NEW more \in Nat,
               Counts(busy, flagged),
               busier = busy + (IF r \in Busy' THEN 1 ELSE 0) - (IF r \in Busy THEN 1 ELSE 0),
               more = flagged + (IF r \in Flagged' THEN 1 ELSE 0)
                              - (IF r \in Flagged THEN 1 ELSE 0)
        PROVE  Counts(busier, more)'
    <2>1. busier = busy - (IF IsChat(r) THEN 1 ELSE 0)
      BY <1>5, <1>8
    <2>2. Len(queue') + more <= Len(queue) + flagged /\ Len(queue) <= Len(queue')
      BY <1>1, <1>3, <1>5, <1>8
    <2>3. cancelled \in Nat
      BY DEF IInv, Types
    <2>4. /\ metrics.started \in Nat /\ metrics.completed \in Nat /\ metrics.failed \in Nat
          /\ metrics.in_progress \in Nat /\ metrics.durations \in Nat
          /\ metrics.checks \in Nat /\ metrics.flags \in Nat /\ metrics.records \in Nat
      BY <1>1, CounterTypes
    <2>5. /\ metrics'.completed \in Nat /\ metrics'.failed \in Nat
      BY <1>6, CounterTypes
    <2>6. /\ metrics.in_progress = busy
          /\ metrics.started = metrics.durations + metrics.in_progress
          /\ metrics.durations = metrics.completed + metrics.failed + cancelled
          /\ metrics.records <= Len(queue)
          /\ Len(queue) + flagged <= metrics.flags
          /\ metrics.flags <= metrics.checks
      BY <1>8 DEF Counts
    <2>7. /\ metrics.records <= Len(queue') /\ Len(queue') + more <= metrics.flags
          /\ metrics.flags <= metrics.checks
      <3>1. busy \in Nat /\ flagged \in Nat /\ more \in Nat
        BY <1>8
      <3> QED
        BY <1>1, <1>3, <2>2, <2>4, <2>6, <3>1, SMTT(30)
    <2>8. CASE IsChat(r)
      <3>1. /\ metrics'.in_progress = metrics.in_progress - 1
            /\ metrics'.durations = metrics.durations + 1
            /\ metrics'.completed + metrics'.failed + cancelled' =
                  metrics.completed + metrics.failed + cancelled + 1
            /\ metrics'.started = metrics.started /\ metrics'.checks = metrics.checks
            /\ metrics'.flags = metrics.flags /\ metrics'.records = metrics.records
        BY <2>8 DEF EndCounts, EndOfChat
      <3>2. /\ metrics'.in_progress = busier
            /\ metrics'.started = metrics'.durations + metrics'.in_progress
            /\ metrics'.durations = metrics'.completed + metrics'.failed + cancelled'
        <4>1. metrics'.in_progress = busier
          BY <2>1, <2>8, <2>6, <3>1
        <4>2. metrics'.started = metrics'.durations + metrics'.in_progress
          BY <2>4, <2>6, <3>1, SMTT(30)
        <4>3. metrics'.durations = metrics'.completed + metrics'.failed + cancelled'
          BY <2>3, <2>4, <2>5, <2>6, <3>1
        <4> QED
          BY <4>1, <4>2, <4>3
      <3> QED
        BY <2>7, <3>1, <3>2 DEF Counts
    <2>9. CASE ~IsChat(r)
      <3>1. metrics' = metrics /\ cancelled' = cancelled
        BY <2>9 DEF EndCounts
      <3> QED
        BY <2>1, <2>9, <2>6, <2>7, <3>1 DEF Counts
    <2> QED
      BY <2>8, <2>9
  <1> QED
    BY <1>2, <1>4, <1>7, <1>8, OneRun

LEMMA EndsKeep ==
  ASSUME IInv, NEW r \in Runs,
         Interrupt(r) \/ Finish(r) \/ NodeRaises(r) \/ Cancel(r) \/ RecursionLimit(r)
  PROVE  IInv'
  <1>1. /\ pc[r] # "idle" /\ Forget(r) /\ UNCHANGED <<saved, inputs>> /\ MaybeQueued(r)
        /\ metrics \in Counters /\ cancelled \in Nat
    BY DEF Interrupt, Finish, NodeRaises, Cancel, RecursionLimit, Answer, Fail, InNode,
           MaybeQueued, IInv, Types
  <1>2. ASSUME NEW status \in {"completed", "failed"}, Counted(r, status), cancelled' = cancelled
        PROVE  EndCounts(r)
    <2>1. CASE IsChat(r)
      <3>1. /\ EndOfChat(metrics, metrics')
            /\ metrics'.completed + metrics'.failed = metrics.completed + metrics.failed + 1
        <4>1. CASE status = "completed"
          <5>1. metrics' = [metrics EXCEPT !.completed = @ + 1, !.durations = @ + 1,
                                           !.in_progress = @ - 1]
            BY <1>2, <2>1, <4>1 DEF Counted
          <5> QED
            BY <1>1, <5>1, CompletedCounted
        <4>2. CASE status = "failed"
          <5>1. metrics' = [metrics EXCEPT !.failed = @ + 1, !.durations = @ + 1,
                                           !.in_progress = @ - 1]
            BY <1>2, <2>1, <4>2 DEF Counted
          <5> QED
            BY <1>1, <5>1, FailedCounted
        <4> QED
          BY <4>1, <4>2
      <3>2. metrics.completed \in Nat /\ metrics.failed \in Nat
        BY <1>1, CounterTypes
      <3>3. metrics'.completed \in Nat /\ metrics'.failed \in Nat
        BY <3>1 DEF EndOfChat
      <3> QED
        BY <1>1, <1>2, <2>1, <3>1, <3>2, <3>3 DEF EndCounts
    <2>2. CASE ~IsChat(r)
      BY <1>2, <2>2 DEF Counted, EndCounts
    <2> QED
      BY <2>1, <2>2
  <1>3. CASE Interrupt(r) \/ Finish(r)
    <2>1. EndCounts(r) /\ cancelled' = cancelled
      BY <1>2, <1>3 DEF Interrupt, Finish, Answer
    <2> QED
      BY <1>1, <2>1, ForgetKeeps
  <1>4. CASE NodeRaises(r) \/ RecursionLimit(r)
    <2>1. EndCounts(r) /\ cancelled' = cancelled
      BY <1>2, <1>4 DEF NodeRaises, RecursionLimit, Fail
    <2> QED
      BY <1>1, <2>1, ForgetKeeps
  <1>5. CASE Cancel(r)
    <2>1. CASE IsChat(r)
      <3>1. /\ metrics' = [metrics EXCEPT !.durations = @ + 1, !.in_progress = @ - 1]
            /\ cancelled' = cancelled + 1
        BY <1>5, <2>1 DEF Cancel
      <3>2. /\ EndOfChat(metrics, metrics')
            /\ metrics'.completed + metrics'.failed = metrics.completed + metrics.failed
        BY <1>1, <3>1, CancelCounted
      <3>3. /\ metrics.completed \in Nat /\ metrics.failed \in Nat
            /\ metrics'.completed \in Nat /\ metrics'.failed \in Nat
        BY <1>1, <3>2, CounterTypes DEF EndOfChat
      <3>4. EndCounts(r)
        BY <1>1, <2>1, <3>1, <3>2, <3>3 DEF EndCounts
      <3> QED
        BY <1>1, <3>1, <3>4, ForgetKeeps
    <2>2. CASE ~IsChat(r)
      <3>1. EndCounts(r) /\ cancelled' = cancelled
        BY <1>5, <2>2 DEF Cancel, EndCounts
      <3> QED
        BY <1>1, <3>1, ForgetKeeps
    <2> QED
      BY <2>1, <2>2
  <1> QED
    BY <1>3, <1>4, <1>5

\* A run begins with the state of its thread.
Begun(r, t, kind, m, s, new) ==
    /\ pc[r] = "idle" /\ UNCHANGED <<queue, cancelled, deciding>>
    /\ reply' = [reply EXCEPT ![t] = NoReply]
    /\ pc' = [pc EXCEPT ![r] = "supervisor"]
    /\ run' = [run EXCEPT ![r] = new]
    /\ saved' = [saved EXCEPT ![t] = [at |-> "supervisor", state |-> s]]
    /\ inputs' = [inputs EXCEPT ![t] = @ + 1]
    /\ s = [saved[t].state EXCEPT !.said = m, !.next_agent = "supervisor",
                                  !.approval_required = FALSE]
    /\ new.state = s /\ new.thread = t /\ new.kind = kind /\ new.asked = m
    /\ new.last = "none" /\ new.resuming = FALSE /\ new.proposed = "none"
    /\ new.hops = 0
    /\ new.first <=> saved[t] = Unused

LEMMA BeginIs ==
  ASSUME IInv, NEW r \in Runs, NEW t \in Threads, NEW kind \in Kinds,
         NEW m \in Materials \cup {NoMaterial}, Begin(r, t, kind, m)
  PROVE  \E s \in GraphState, new \in Run : Begun(r, t, kind, m, s, new)
  <1> DEFINE s == [saved[t].state EXCEPT !.said = m, !.next_agent = "supervisor",
                                         !.approval_required = FALSE]
             first == saved[t] = Unused
             new == [thread |-> t, kind |-> kind, asked |-> m, state |-> s, hops |-> 0,
                     last |-> "none", outcome |-> NoOutcome, resuming |-> FALSE,
                     proposed |-> "none", first |-> first]
  <1>1. saved[t].state \in GraphState
    BY DEF IInv, Types, Checkpoint
  <1>2. s \in GraphState
    BY <1>1 DEF GraphState
  <1>3. first \in BOOLEAN /\ 0 \in 0..MaxHops
    BY WorkflowAssumption
  <1>4. /\ pc[r] = "idle" /\ UNCHANGED <<queue, cancelled, deciding>>
        /\ reply' = [reply EXCEPT ![t] = NoReply]
        /\ pc' = [pc EXCEPT ![r] = "supervisor"]
        /\ run' = [run EXCEPT ![r] = new]
        /\ saved' = [saved EXCEPT ![t] = [at |-> "supervisor", state |-> s]]
        /\ inputs' = [inputs EXCEPT ![t] = @ + 1]
    BY DEF Begin
  <1> HIDE DEF s, first
  <1>5. /\ new \in Run /\ new.state = s /\ new.thread = t /\ new.kind = kind
        /\ new.asked = m /\ new.last = "none" /\ new.resuming = FALSE
        /\ new.proposed = "none" /\ new.first = first /\ new.hops = 0
    BY <1>2, <1>3 DEF Run
  <1> HIDE DEF new
  <1>6. s = [saved[t].state EXCEPT !.said = m, !.next_agent = "supervisor",
                                   !.approval_required = FALSE]
    BY DEF s
  <1>7. new.first <=> saved[t] = Unused
    BY <1>5 DEF first
  <1> QED
    BY <1>2, <1>4, <1>5, <1>6, <1>7 DEF Begun

LEMMA StartCounted ==
  ASSUME NEW m \in Counters, NEW n,
         n = [m EXCEPT !.started = @ + 1, !.in_progress = @ + 1]
  PROVE  /\ n \in Counters /\ n.started = m.started + 1 /\ n.in_progress = m.in_progress + 1
         /\ n.completed = m.completed /\ n.failed = m.failed /\ n.durations = m.durations
         /\ n.checks = m.checks /\ n.flags = m.flags /\ n.records = m.records
  <1> DEFINE c == m.started + 1
             p == m.in_progress + 1
  <1>1. c \in Nat /\ p \in Nat
    BY CounterTypes
  <1>2. n = [m EXCEPT !.started = c, !.in_progress = p]
    OBVIOUS
  <1> HIDE DEF c, p
  <1>3. /\ n \in Counters /\ n.started = c /\ n.in_progress = p
        /\ n.completed = m.completed /\ n.failed = m.failed /\ n.durations = m.durations
        /\ n.checks = m.checks /\ n.flags = m.flags /\ n.records = m.records
    BY <1>1, <1>2 DEF Counters
  <1> QED
    BY <1>3 DEF c, p

LEMMA BeginKeeps ==
  ASSUME IInv, NEW r \in Runs, NEW t \in Threads,
         \/ Invoke(r, t)
         \/ \E kind \in Chats, m \in Materials \cup {NoMaterial} : Chat(r, t, kind, m)
  PROVE  IInv'
  <1>1. PICK kind \in Kinds, m \in Materials \cup {NoMaterial} :
           /\ Begin(r, t, kind, m)
           /\ IF kind \in Chats
              THEN metrics' = [metrics EXCEPT !.started = @ + 1, !.in_progress = @ + 1]
              ELSE UNCHANGED metrics
    BY DEF Invoke, Chat, Chats, Kinds
  <1>2. PICK s \in GraphState, new \in Run :
           /\ pc[r] = "idle" /\ UNCHANGED <<queue, cancelled>> /\ new.kind = kind
           /\ pc' = [pc EXCEPT ![r] = "supervisor"] /\ run' = [run EXCEPT ![r] = new]
           /\ saved' = [saved EXCEPT ![t] = [at |-> "supervisor", state |-> s]]
           /\ inputs' = [inputs EXCEPT ![t] = @ + 1]
    <2>1. PICK s \in GraphState, new \in Run : Begun(r, t, kind, m, s, new)
      BY <1>1, BeginIs
    <2> QED
      BY <2>1 DEF Begun
  <1>3. pc'[r] = "supervisor" /\ run'[r] = new /\ \A x \in Runs : x # r => Rests(x)
    BY <1>2 DEF IInv, Types, Rests
  <1>4. Running(r)'
    BY <1>2, <1>3, NoRunIsNone DEF Running, InPolicy
  <1>5. /\ r \notin Busy /\ (r \in Busy' <=> kind \in Chats)
        /\ r \notin Flagged /\ r \notin Flagged'
    BY <1>2, <1>3 DEF Busy, IsChat, Flagged, Queueing, Decided
  <1>6. /\ metrics' \in Counters /\ metrics \in Counters
        /\ metrics'.started = metrics.started + (IF kind \in Chats THEN 1 ELSE 0)
        /\ metrics'.in_progress = metrics.in_progress + (IF kind \in Chats THEN 1 ELSE 0)
        /\ metrics'.completed = metrics.completed /\ metrics'.failed = metrics.failed
        /\ metrics'.durations = metrics.durations /\ metrics'.checks = metrics.checks
        /\ metrics'.flags = metrics.flags /\ metrics'.records = metrics.records
    <2>1. metrics \in Counters
      BY DEF IInv, Types
    <2>2. CASE kind \in Chats
      BY <1>1, <2>1, <2>2, StartCounted
    <2>3. CASE kind \notin Chats
      BY <1>1, <2>1, <2>3, CounterTypes
    <2> QED
      BY <2>2, <2>3
  <1>7. Types'
    <2>1. [at |-> "supervisor", state |-> s] \in Checkpoint
      BY DEF Checkpoint
    <2> QED
      BY <1>2, <1>6, <2>1 DEF IInv, Types, Places, Nodes
  <1>8. ASSUME NEW busy \in Nat, NEW flagged \in Nat, NEW busier \in Nat, NEW more \in Nat,
               Counts(busy, flagged),
               busier = busy + (IF r \in Busy' THEN 1 ELSE 0) - (IF r \in Busy THEN 1 ELSE 0),
               more = flagged + (IF r \in Flagged' THEN 1 ELSE 0)
                              - (IF r \in Flagged THEN 1 ELSE 0)
        PROVE  Counts(busier, more)'
    <2>1. busier = busy + (IF kind \in Chats THEN 1 ELSE 0) /\ more = flagged
      BY <1>5, <1>8
    <2>2. metrics.started \in Nat /\ metrics.durations \in Nat /\ metrics.in_progress \in Nat
      BY <1>6, CounterTypes
    <2>3. metrics.in_progress = busy /\ metrics.started = metrics.durations + metrics.in_progress
      BY <1>8 DEF Counts
    <2>4. /\ metrics'.in_progress = busier
          /\ metrics'.started = metrics'.durations + metrics'.in_progress
      BY <1>6, <2>1, <2>2, <2>3
    <2> QED
      BY <1>2, <1>6, <1>8, <2>1, <2>4 DEF Counts
  <1> QED
    BY <1>3, <1>4, <1>7, <1>8, OneRun

\* A decision changes the status of an item.
LEMMA DecideItemIs ==
  ASSUME IInv, NEW i \in 1..Len(queue), NEW decision \in {"approved", "rejected"},
         DecideItem(i, decision)
  PROVE  /\ queue' \in Seq(Items) /\ Len(queue') = Len(queue)
         /\ \A j \in 1..Len(queue) : /\ queue'[j].thread = queue[j].thread
                                     /\ queue'[j].proposal = queue[j].proposal
  <1> DEFINE new == [queue[i] EXCEPT !.status = decision]
  <1>1. queue \in Seq(Items) /\ queue[i] \in Items
    BY DEF IInv, Types
  <1>2. queue' = [queue EXCEPT ![i] = new]
    BY <1>1 DEF DecideItem
  <1>3. new \in Items /\ new.thread = queue[i].thread /\ new.proposal = queue[i].proposal
    BY <1>1 DEF Items
  <1> HIDE DEF new
  <1> QED
    BY <1>1, <1>2, <1>3

LEMMA DecideKeeps ==
  ASSUME IInv, NEW i \in 1..Len(queue), NEW decision \in {"approved", "rejected"},
         Decide(i, decision)
  PROVE  IInv'
  <1>1. /\ queue' \in Seq(Items) /\ Len(queue') = Len(queue)
        /\ UNCHANGED <<saved, pc, run, reply, metrics, cancelled, inputs, started>>
    BY DecideItemIs DEF Decide
  <1>2. Busy' = Busy /\ Flagged' = Flagged /\ \A x \in Runs : Rests(x)
    BY <1>1 DEF Busy, IsChat, Flagged, Queueing, Decided, Rests
  <1> QED
    BY <1>1, <1>2, RestsKeeps DEF IInv, Types, Counts

\* The run that a decision resumes.
Resumed(r, t, new) ==
    /\ pc[r] = "idle" /\ UNCHANGED <<saved, metrics, cancelled, inputs>>
    /\ reply' = [reply EXCEPT ![t] = NoReply]
    /\ pc' = [pc EXCEPT ![r] = saved[t].at] /\ saved[t].at \in Nodes
    /\ run' = [run EXCEPT ![r] = new]
    /\ new.kind = "resume" /\ new.thread = t
    /\ new.state = saved[t].state /\ new.first = FALSE /\ new.hops = 0
    /\ new.last = "none"

LEMMA ResumeIs ==
  ASSUME IInv, NEW r \in Runs, NEW i \in 1..Len(queue), Resume(r, i)
  PROVE  queue[i].thread \in Threads /\ \E new \in Run : Resumed(r, queue[i].thread, new)
  <1> DEFINE t == queue[i].thread
             new == [thread |-> t, kind |-> "resume", asked |-> NoMaterial,
                     state |-> saved[t].state, hops |-> 0, last |-> "none",
                     outcome |-> NoOutcome, resuming |-> TRUE,
                     proposed |-> "none", first |-> FALSE]
  <1>1. t \in Threads
    <2>1. queue[i] \in Items
      BY DEF IInv, Types
    <2> QED
      BY <2>1 DEF Items
  <1>2. saved[t].state \in GraphState /\ saved[t].at \in Nodes \cup {"END"}
    BY <1>1 DEF IInv, Types, Checkpoint, Nodes
  <1>3. /\ pc[r] = "idle" /\ UNCHANGED <<saved, metrics, cancelled, inputs>>
        /\ saved[t].at # "END"
        /\ reply' = [reply EXCEPT ![t] = NoReply]
        /\ pc' = [pc EXCEPT ![r] = saved[t].at]
        /\ run' = [run EXCEPT ![r] = new]
    BY DEF Resume
  <1> HIDE DEF t
  <1>4. /\ new \in Run /\ new.kind = "resume" /\ new.thread = t
        /\ new.state = saved[t].state /\ new.first = FALSE /\ new.hops = 0
        /\ new.last = "none"
    BY <1>1, <1>2, WorkflowAssumption DEF Run, Kinds
  <1> HIDE DEF new
  <1> QED
    BY <1>1, <1>2, <1>3, <1>4 DEF t, Resumed

LEMMA ResumeKeeps ==
  ASSUME IInv, NEW r \in Runs, NEW i \in 1..Len(queue), Resume(r, i)
  PROVE  IInv'
  <1>1. PICK new \in Run, node \in Nodes :
           /\ pc[r] = "idle" /\ UNCHANGED <<saved, metrics, cancelled, inputs>>
           /\ new.kind = "resume"
           /\ pc' = [pc EXCEPT ![r] = node] /\ run' = [run EXCEPT ![r] = new]
    <2>1. PICK new \in Run : Resumed(r, queue[i].thread, new)
      BY ResumeIs
    <2> QED
      BY <2>1 DEF Resumed
  <1>2. queue' \in Seq(Items) /\ Len(queue') = Len(queue)
    BY DEF Resume, IInv, Types
  <1>3. pc'[r] = node /\ run'[r] = new /\ \A x \in Runs : x # r => Rests(x)
    BY <1>1 DEF IInv, Types, Rests
  <1>4. node \notin {"idle", "audit", "interrupt"}
    BY DEF Nodes, Specialists
  <1>5. Running(r)'
    BY <1>1, <1>3, <1>4, NoRunIsNone DEF Running, InPolicy
  <1>6. /\ r \notin Busy /\ r \notin Busy' /\ r \notin Flagged /\ r \notin Flagged'
    BY <1>1, <1>3, <1>4 DEF Busy, IsChat, Chats, Flagged, Queueing, Decided
  <1>7. Types'
    BY <1>1, <1>2 DEF IInv, Types, Places
  <1>8. ASSUME NEW busy \in Nat, NEW flagged \in Nat, NEW busier \in Nat, NEW more \in Nat,
               Counts(busy, flagged),
               busier = busy + (IF r \in Busy' THEN 1 ELSE 0) - (IF r \in Busy THEN 1 ELSE 0),
               more = flagged + (IF r \in Flagged' THEN 1 ELSE 0)
                              - (IF r \in Flagged THEN 1 ELSE 0)
        PROVE  Counts(busier, more)'
    <2>1. busier = busy /\ more = flagged
      BY <1>6, <1>8
    <2> QED
      BY <1>1, <1>2, <1>8, <2>1 DEF Counts
  <1> QED
    BY <1>3, <1>5, <1>7, <1>8, OneRun

\* Where nothing changes but what requests are about to do.
SameElse == UNCHANGED <<saved, pc, run, queue, reply, metrics, cancelled, inputs>>

LEMMA SameKeeps ==
  ASSUME IInv, SameElse
  PROVE  IInv'
  <1>1. Busy' = Busy /\ Flagged' = Flagged /\ \A x \in Runs : Rests(x)
    BY DEF SameElse, Busy, IsChat, Flagged, Queueing, Decided, Rests
  <1> QED
    BY <1>1, RestsKeeps DEF SameElse, IInv, Types, Counts

LEMMA NextInv ==
  ASSUME IInv, [Next]_vars
  PROVE  IInv'
  <1>1. CASE UNCHANGED vars
    BY <1>1, SameKeeps DEF vars, SameElse
  <1>2. ASSUME NEW r \in Runs, Step(r) \/ NodeRaises(r) \/ Cancel(r) \/ RecursionLimit(r)
        PROVE  IInv'
    BY <1>2, GraphKeeps, PolicyAgentKeeps, EnqueueKeeps, EndsKeep DEF Step, GraphStep
  <1>3. ASSUME NEW r \in Runs, NEW t \in Threads,
               \/ Invoke(r, t)
               \/ \E kind \in Chats, m \in Materials \cup {NoMaterial} : Chat(r, t, kind, m)
        PROVE  IInv'
    BY <1>3, BeginKeeps
  <1>4. ASSUME NEW i \in 1..Len(queue), NEW d \in {"approved", "rejected"}, Decide(i, d)
        PROVE  IInv'
    BY <1>4, DecideKeeps
  <1>5. ASSUME NEW i \in 1..Len(queue), NEW r \in Runs, Resume(r, i)
        PROVE  IInv'
    BY <1>5, ResumeKeeps
  <1>6. ASSUME NEW i \in 1..Len(queue), DecideEnds(i)
        PROVE  IInv'
    BY <1>6, SameKeeps DEF DecideEnds, SameElse
  <1> QED
    BY <1>1, <1>2, <1>3, <1>4, <1>5, <1>6 DEF Next

THEOREM Invariance == Spec => []IInv
  BY InitInv, NextInv, PTL DEF Spec

\* A request in hand is about an item of the queue that is decided: items are
\* neither removed nor reopened.
InQueue ==
    /\ deciding \subseteq 1..Len(queue)
    /\ \A i \in deciding : queue[i].status # "pending"

LEMMA InQueueKept ==
  ASSUME IInv, InQueue, [Next]_vars
  PROVE  InQueue'
  <1> USE DEF InQueue
  <1>1. queue \in Seq(Items) /\ Len(queue) \in Nat
    BY DEF IInv, Types
  <1>2. ASSUME deciding' = deciding, queue' = queue \/ \E item : queue' = Append(queue, item)
        PROVE  InQueue'
    BY <1>1, <1>2
  <1>3. CASE UNCHANGED vars
    BY <1>2, <1>3 DEF vars
  <1>4. ASSUME NEW r \in Runs, Step(r) PROVE InQueue'
    <2>1. CASE GraphStep(r)
      <3>1. PICK s, node, new : Moves(r, s, node, new)
        BY <2>1, GraphIs
      <3> QED
        BY <1>2, <3>1 DEF Moves, After
    <2>2. CASE PolicyAgent(r) \/ Enqueue(r) \/ Interrupt(r) \/ Finish(r)
      BY <1>2, <2>2 DEF PolicyAgent, Enqueue, Interrupt, Finish
    <2> QED
      BY <1>4, <2>1, <2>2 DEF Step, GraphStep
  <1>5. ASSUME NEW r \in Runs, NodeRaises(r) \/ Cancel(r) \/ RecursionLimit(r) PROVE InQueue'
    BY <1>2, <1>5 DEF NodeRaises, Cancel, RecursionLimit, Fail, MaybeQueued
  <1>6. ASSUME NEW r \in Runs, NEW t \in Threads,
               \/ Invoke(r, t)
               \/ \E kind \in Chats, m \in Materials \cup {NoMaterial} : Chat(r, t, kind, m)
        PROVE  InQueue'
    BY <1>2, <1>6 DEF Invoke, Chat, Begin
  <1>7. ASSUME NEW i \in 1..Len(queue), NEW d \in {"approved", "rejected"}, Decide(i, d)
        PROVE  InQueue'
    <2>1. Len(queue') = Len(queue) /\ DecideItem(i, d)
      BY <1>7, DecideItemIs DEF Decide
    <2>2. queue[i] \in Items
      BY <1>1
    <2>3. \A j \in 1..Len(queue) : queue'[j] = IF j = i THEN [queue[i] EXCEPT !.status = d]
                                               ELSE queue[j]
      BY <1>1, <2>1 DEF DecideItem
    <2>4. queue'[i].status # "pending"
      BY <2>2, <2>3 DEF Items
    <2> QED
      BY <1>7, <2>1, <2>3, <2>4 DEF Decide
  <1>8. ASSUME NEW i \in 1..Len(queue), DecideEnds(i) \/ \E r \in Runs : Resume(r, i)
        PROVE  InQueue'
    BY <1>8 DEF DecideEnds, Resume
  <1> QED
    BY <1>3, <1>4, <1>5, <1>6, <1>7, <1>8 DEF Next

\* The type invariant.
THEOREM TypeCorrect == Spec => []TypeOK
  <1>1. IInv /\ InQueue => TypeOK
    <2> SUFFICES ASSUME IInv, InQueue PROVE TypeOK
      OBVIOUS
    <2>1. \A i \in 1..Len(queue) : queue[i] \in Items
      BY DEF IInv, Types
    <2>2. \A r \in Runs : IF pc[r] = "idle" THEN run[r] = NoRun ELSE run[r] \in Run
      BY DEF IInv, Types, Running
    <2> QED
      BY <2>1, <2>2 DEF IInv, InQueue, Types, TypeOK, Items, Counters, Places, Nodes
  <1>2. Init => InQueue
    BY DEF Init, InQueue
  <1>3. IInv /\ InQueue /\ [Next]_vars => InQueue'
    BY InQueueKept
  <1> QED
    BY <1>1, <1>2, <1>3, Invariance, PTL DEF Spec

\* Every chat is counted once, however it ends.
THEOREM ChatsCorrect == Spec => []ChatsCounted
  <1>1. IInv => ChatsCounted
    BY DEF IInv, Counts, ChatsCounted, Busy
  <1> QED
    BY <1>1, Invariance, PTL

\* What is counted as recorded is in the queue, what is in the queue was flagged.
THEOREM RecordsCorrect == Spec => []RecordsAreItems
  <1>1. IInv => RecordsAreItems
    BY DEF IInv, Counts, RecordsAreItems, Flagged
  <1> QED
    BY <1>1, Invariance, PTL

-----------------------------------------------------------------------------
(***************************************************************************)
(* The first run on a thread, when the model follows the routing prompt.   *)
(***************************************************************************)

\* The order of rule 1, as the places a run can be at after its last specialist.
OnItsWay(r) ==
    /\ pc[r] \in Specialists =>
          IF run[r].last = "none"
          THEN /\ pc[r] \in {"inventory_agent", "knowledge_agent", "analytics_agent"}
               /\ run[r].kind = "reorder" => pc[r] = "inventory_agent"
          ELSE pc[r] = Successor[run[r].last]
    /\ InPolicy(r) => run[r].last = "procurement_agent"
    /\ pc[r] = "END" /\ run[r].kind = "reorder" => run[r].last # "none"

Late == {"procurement_agent", "policy_agent"}

\* What the state holds after the last specialist.
Carries(new) ==
    /\ new.kind # "resume" /\ new.resuming = FALSE
    /\ new.last = "none" => new.proposed = "none"
    /\ new.last \notin Late => new.state.procurement_proposal = NoProposal
    /\ new.last # "policy_agent" => new.state.policy_decision = NoOutcome
    /\ new.state.procurement_proposal # NoProposal => new.proposed = "order"
    /\ DecisionFits(new.state)
    /\ new.kind = "reorder" /\ new.asked # NoMaterial =>
          IF new.last = "none"
          THEN new.state.said = new.asked /\ new.state.material_id = NoMaterial
          ELSE new.state.material_id = new.asked

FirstRun(r) == pc[r] # "idle" /\ run[r].first => OnItsWay(r) /\ Carries(run[r])

FirstRuns == \A r \in Runs : FirstRun(r)

\* Where the prompt sends a run, read backwards.
LEMMA CameFrom ==
  ASSUME NEW last \in Specialists
  PROVE  /\ Successor[last] # "inventory_agent"
         /\ Successor[last] = "forecast_agent" => last = "inventory_agent"
         /\ Successor[last] = "procurement_agent" => last = "forecast_agent"
         /\ Successor[last] = "policy_agent" => last = "procurement_agent"
         /\ Successor[last] # "knowledge_agent" /\ Successor[last] # "analytics_agent"
  BY SuccessorIs DEF Specialists

LEMMA FirstRests ==
  ASSUME NEW r, FirstRun(r), Rests(r)
  PROVE  FirstRun(r)'
  BY DEF FirstRun, OnItsWay, InPolicy, Carries, DecisionFits, Rests

\* The step of one run: the others rest.
LEMMA OneFirst ==
  ASSUME FirstRuns, NEW r \in Runs, FirstRun(r)', \A x \in Runs : x # r => Rests(x)
  PROVE  FirstRuns'
  BY FirstRests DEF FirstRuns

LEMMA AfterRests ==
  ASSUME IInv, NEW r \in Runs, NEW s, NEW node, NEW new, After(r, s, node, new)
  PROVE  /\ pc'[r] = node /\ run'[r] = new
         /\ \A x \in Runs : x # r => Rests(x)
  BY DEF After, IInv, Types, Rests

\* A specialist, or policy_node, that returns to the supervisor.
LEMMA ReturnFirst ==
  ASSUME IInv, FirstRuns, NEW r \in Runs, pc[r] # "idle", NEW s \in GraphState,
         NEW proposed \in {"none", "order", "no_reorder"}, Return(r, s, proposed),
         \A new : /\ new.state = s /\ new.kind = run[r].kind /\ new.asked = run[r].asked
                  /\ new.first = run[r].first /\ new.resuming = FALSE
                  /\ Returned(r, new, proposed) /\ run[r].first
                  => Carries(new)
  PROVE  FirstRuns'
  <1>1. PICK new : After(r, s, "supervisor", new) /\ Returned(r, new, proposed)
    BY ReturnIs
  <1>2. /\ pc'[r] = "supervisor" /\ run'[r] = new
        /\ \A x \in Runs : x # r => Rests(x)
    BY <1>1, AfterRests
  <1>3. new.first => Carries(new)
    BY <1>1 DEF After
  <1>4. OnItsWay(r)'
    BY <1>2 DEF OnItsWay, InPolicy, Specialists
  <1>5. Carries(new) => Carries(run[r])'
    BY <1>2 DEF Carries, DecisionFits
  <1>6. FirstRun(r)'
    BY <1>2, <1>3, <1>4, <1>5 DEF FirstRun
  <1> QED
    BY <1>2, <1>6, OneFirst

LEMMA SupervisorFirst ==
  ASSUME IInv, FirstRuns, Obedient, NEW r \in Runs, Supervisor(r)
  PROVE  FirstRuns'
  <1>1. PICK next \in Route(r), s \in GraphState : \E new :
           /\ next \in Specialists \cup {"END"}
           /\ s = [g(r) EXCEPT !.next_agent = next]
           /\ After(r, s, next, new)
           /\ new.proposed = run[r].proposed /\ new.last = run[r].last
    BY SupervisorIs
  <1>2. PICK new :
           /\ After(r, s, next, new)
           /\ new.proposed = run[r].proposed /\ new.last = run[r].last
    BY <1>1
  <1>3. pc[r] = "supervisor"
    BY SupervisorIs
  <1>4. /\ pc'[r] = next /\ run'[r] = new
        /\ \A x \in Runs : x # r => Rests(x)
    BY <1>2, AfterRests
  <1>5. run[r] \in Run /\ g(r) \in GraphState
    BY <1>3, RunType
  <1>6. /\ s.procurement_proposal = g(r).procurement_proposal
        /\ s.policy_decision = g(r).policy_decision
        /\ s.material_id = g(r).material_id /\ s.said = g(r).said
    BY <1>1, <1>5 DEF GraphState
  <1>7. ASSUME new.first PROVE OnItsWay(r)' /\ Carries(run[r])'
    <2>1. /\ new.state = s /\ new.kind = run[r].kind /\ new.asked = run[r].asked
          /\ new.first = run[r].first /\ new.resuming = FALSE
      BY <1>2 DEF After
    <2>2. Carries(run[r])
      BY <1>3, <1>7, <2>1 DEF FirstRuns, FirstRun
    <2>3. Carries(run[r])'
      BY <1>2, <1>4, <1>6, <2>1, <2>2 DEF Carries, DecisionFits, g
    <2>4. next \in Prompted(r)
      BY <1>1 DEF Route
    <2>5. CASE run[r].last = "none"
      <3>1. g(r).policy_decision = NoOutcome /\ run[r].proposed = "none"
        BY <2>2, <2>5 DEF Carries, g
      <3>2. g(r).policy_decision \notin {"auto_approved", "denied"}
        BY <3>1, WorkflowAssumption DEF Outcomes
      <3>3. /\ next \in {"inventory_agent", "knowledge_agent", "analytics_agent"}
            /\ run[r].kind = "reorder" => next = "inventory_agent"
        BY <2>4, <2>5, <3>1, <3>2, SuccessorIs DEF Prompted
      <3> QED
        BY <1>2, <1>4, <2>1, <2>3, <2>5, <3>3 DEF OnItsWay, InPolicy, Specialists
    <2>6. CASE run[r].last # "none"
      <3>1. next = Successor[run[r].last] \/ next = "END"
        BY <2>4, <2>6 DEF Prompted
      <3> QED
        BY <1>1, <1>2, <1>4, <2>3, <2>6, <3>1 DEF OnItsWay, InPolicy, Specialists
    <2> QED
      BY <2>5, <2>6
  <1> QED
    BY <1>4, <1>7, OneFirst DEF FirstRun

LEMMA SpecialistFirst ==
  ASSUME IInv, FirstRuns, NEW r \in Runs,
         \/ InventoryAgent(r) \/ ForecastAgent(r) \/ KnowledgeAgent(r)
         \/ AnalyticsAgent(r) \/ NothingToEvaluate(r)
  PROVE  FirstRuns'
  <1>1. PICK s \in GraphState :
           /\ Return(r, s, run[r].proposed)
           /\ s.procurement_proposal = g(r).procurement_proposal
           /\ s.policy_decision = g(r).policy_decision
           /\ s.material_id =
                 IF pc[r] # "inventory_agent" \/ g(r).material_id # NoMaterial
                 THEN g(r).material_id
                 ELSE IF g(r).said # NoMaterial THEN g(r).said ELSE DefaultMaterial
    BY SpecialistIs
  <1>2. pc[r] \in Specialists
    BY SpecialistIs
  <1>3. pc[r] # "idle"
    BY <1>2 DEF Specialists
  <1>4. /\ run[r].proposed \in {"none", "order", "no_reorder"}
        /\ run[r].last \in Specialists \cup {"none"}
    BY <1>3, RunType DEF Run
  <1>5. ASSUME NEW new, new.state = s, new.kind = run[r].kind, new.asked = run[r].asked,
               new.first = run[r].first, new.resuming = FALSE,
               Returned(r, new, run[r].proposed), run[r].first
        PROVE  Carries(new)
    <2>1. OnItsWay(r) /\ Carries(run[r])
      BY <1>3, <1>5 DEF FirstRuns, FirstRun
    <2>2. new.proposed = run[r].proposed /\ new.last = pc[r]
      BY <1>2, <1>5 DEF Returned
    <2>3. /\ pc[r] # "none"
          /\ pc[r] = "policy_agent" => run[r].last = "procurement_agent"
          /\ pc[r] \notin Late => run[r].last \notin Late
          /\ pc[r] = "inventory_agent" <=> run[r].last = "none" /\ pc[r] = "inventory_agent"
          /\ run[r].last = "none" /\ run[r].kind = "reorder" => pc[r] = "inventory_agent"
          /\ pc[r] # "policy_agent" => run[r].last # "policy_agent"
      BY <1>2, <1>4, <2>1, CameFrom, SuccessorIs DEF OnItsWay, Late, Specialists
    <2>4. /\ new.kind # "resume" /\ new.last # "none"
          /\ new.last \notin Late => new.state.procurement_proposal = NoProposal
          /\ new.last # "policy_agent" => new.state.policy_decision = NoOutcome
          /\ new.state.procurement_proposal # NoProposal => new.proposed = "order"
      BY <1>1, <1>5, <2>1, <2>2, <2>3 DEF Carries, g
    <2>5. DecisionFits(new.state)
      BY <1>1, <1>5, <2>1 DEF Carries, DecisionFits, g
    <2>6. new.kind = "reorder" /\ new.asked # NoMaterial => new.state.material_id = new.asked
      BY <1>1, <1>5, <2>1, <2>3 DEF Carries, g
    <2> QED
      BY <1>5, <2>4, <2>5, <2>6 DEF Carries
  <1> QED
    BY <1>1, <1>3, <1>4, <1>5, ReturnFirst

LEMMA ProcurementFirst ==
  ASSUME IInv, FirstRuns, NEW r \in Runs, ProcurementAgent(r)
  PROVE  FirstRuns'
  <1>1. pc[r] = "procurement_agent"
    BY ProcurementIs
  <1>2. PICK s \in GraphState, proposed \in {"order", "no_reorder"} :
           /\ Return(r, s, proposed)
           /\ s.policy_decision = g(r).policy_decision
           /\ s.material_id = g(r).material_id
           /\ \/ proposed = "order"
              \/ s.procurement_proposal = g(r).procurement_proposal
    BY ProcurementIs
  <1>3. run[r].last \in Specialists \cup {"none"}
    BY <1>1, RunType DEF Run
  <1>4. ASSUME NEW new, new.state = s, new.kind = run[r].kind, new.asked = run[r].asked,
               new.first = run[r].first, new.resuming = FALSE,
               Returned(r, new, proposed), run[r].first
        PROVE  Carries(new)
    <2>1. OnItsWay(r) /\ Carries(run[r])
      BY <1>1, <1>4 DEF FirstRuns, FirstRun
    <2>2. new.proposed = proposed /\ new.last = "procurement_agent"
      BY <1>1, <1>4 DEF Returned, Specialists
    <2>3. run[r].last = "forecast_agent"
      BY <1>1, <1>3, <2>1, CameFrom DEF OnItsWay, Specialists
    <2>4. /\ g(r).procurement_proposal = NoProposal /\ g(r).policy_decision = NoOutcome
          /\ run[r].kind # "resume"
          /\ run[r].kind = "reorder" /\ run[r].asked # NoMaterial =>
                g(r).material_id = run[r].asked
      BY <2>1, <2>3 DEF Carries, Late, g
    <2>5. DecisionFits(new.state)
      BY <1>2, <1>4, <2>4 DEF DecisionFits
    <2> QED
      BY <1>2, <1>4, <2>2, <2>4, <2>5 DEF Carries, Late
  <1> QED
    BY <1>1, <1>2, <1>4, ReturnFirst

LEMMA PolicyFirst ==
  ASSUME IInv, FirstRuns, NEW r \in Runs, Deny(r) \/ Approve(r) \/ AfterInterrupt(r)
  PROVE  FirstRuns'
  <1>1. InPolicy(r)
    BY PolicyReturns
  <1>2. PICK s \in GraphState :
           /\ Return(r, s, run[r].proposed)
           /\ s.procurement_proposal = g(r).procurement_proposal
           /\ s.material_id = g(r).material_id
           /\ run[r].resuming \/ s.policy_decision = run[r].outcome
    BY PolicyReturns
  <1>3. pc[r] # "idle" /\ pc[r] \notin Specialists
    BY <1>1 DEF InPolicy, Specialists
  <1>4. run[r].proposed \in {"none", "order", "no_reorder"}
    BY <1>3, RunType DEF Run
  <1>5. ASSUME NEW new, new.state = s, new.kind = run[r].kind, new.asked = run[r].asked,
               new.first = run[r].first, new.resuming = FALSE,
               Returned(r, new, run[r].proposed), run[r].first
        PROVE  Carries(new)
    <2>1. OnItsWay(r) /\ Carries(run[r]) /\ Weighed(g(r), run[r].outcome)
      BY <1>1, <1>3, <1>5 DEF FirstRuns, FirstRun, IInv, Running
    <2>2. new.proposed = run[r].proposed /\ new.last = "policy_agent"
      BY <1>3, <1>5 DEF Returned
    <2>3. run[r].last = "procurement_agent"
      BY <1>1, <2>1 DEF OnItsWay
    <2>4. /\ run[r].kind # "resume" /\ run[r].resuming = FALSE
          /\ g(r).procurement_proposal # NoProposal => run[r].proposed = "order"
          /\ run[r].kind = "reorder" /\ run[r].asked # NoMaterial =>
                g(r).material_id = run[r].asked
      BY <2>1, <2>3 DEF Carries, g
    <2>5. DecisionFits(new.state)
      BY <1>2, <1>5, <2>1, <2>4 DEF DecisionFits, Weighed
    <2> QED
      BY <1>2, <1>5, <2>2, <2>4, <2>5 DEF Carries, Late
  <1> QED
    BY <1>2, <1>3, <1>4, <1>5, ReturnFirst

\* Inside policy_node the run stays on its way.
LEMMA InsideFirst ==
  ASSUME IInv, FirstRuns, NEW r \in Runs, PolicyAgent(r) \/ Enqueue(r)
  PROVE  FirstRuns'
  <1>1. CASE PolicyAgent(r)
    <2>1. PICK outcome \in Outcomes :
             /\ pc[r] = "policy_agent"
             /\ pc' = [pc EXCEPT ![r] = "audit"]
             /\ run' = [run EXCEPT ![r].outcome = outcome]
      BY <1>1 DEF PolicyAgent, Node
    <2> DEFINE new == [run[r] EXCEPT !.outcome = outcome]
    <2>2. run[r] \in Run
      BY <2>1, RunType
    <2>3. run' = [run EXCEPT ![r] = new]
      BY <2>1, <2>2 DEF IInv, Types
    <2>4. /\ new.state = run[r].state /\ new.kind = run[r].kind /\ new.asked = run[r].asked
          /\ new.first = run[r].first /\ new.resuming = run[r].resuming
          /\ new.proposed = run[r].proposed /\ new.last = run[r].last
      BY <2>2 DEF Run
    <2> HIDE DEF new
    <2>5. pc'[r] = "audit" /\ run'[r] = new /\ \A x \in Runs : x # r => Rests(x)
      BY <2>1, <2>3 DEF IInv, Types, Rests
    <2>6. ASSUME run[r].first PROVE OnItsWay(r)' /\ Carries(run[r])'
      <3>1. OnItsWay(r) /\ Carries(run[r])
        BY <2>1, <2>6 DEF FirstRuns, FirstRun
      <3>2. run[r].last = "procurement_agent"
        <4>1. run[r].last \in Specialists \cup {"none"}
          BY <2>2 DEF Run
        <4> QED
          BY <2>1, <3>1, <4>1, CameFrom DEF OnItsWay, Specialists
      <3>3. OnItsWay(r)'
        BY <2>4, <2>5, <3>2 DEF OnItsWay, InPolicy, Specialists
      <3>4. Carries(run[r])'
        BY <2>4, <2>5, <3>1 DEF Carries, DecisionFits
      <3> QED
        BY <3>3, <3>4
    <2> QED
      BY <2>4, <2>5, <2>6, OneFirst DEF FirstRun
  <1>2. CASE Enqueue(r)
    <2>1. pc[r] = "audit" /\ pc' = [pc EXCEPT ![r] = "interrupt"] /\ run' = run
      BY <1>2 DEF Enqueue, Decided
    <2>2. pc'[r] = "interrupt" /\ \A x \in Runs : x # r => Rests(x)
      BY <2>1 DEF IInv, Types, Rests
    <2>3. FirstRun(r)'
      BY <2>1, <2>2
         DEF FirstRuns, FirstRun, OnItsWay, InPolicy, Specialists, Carries, DecisionFits
    <2> QED
      BY <2>2, <2>3, OneFirst
  <1> QED
    BY <1>1, <1>2

\* A thread that has no checkpoint yet gives a run nothing to start with.
LEMMA BeginFirst ==
  ASSUME IInv, FirstRuns, NEW r \in Runs, NEW t \in Threads,
         NEW kind \in Chats \cup {"refresh"}, NEW m \in Materials \cup {NoMaterial},
         Begin(r, t, kind, m)
  PROVE  FirstRuns'
  <1>1. kind \in Kinds /\ kind # "resume"
    BY DEF Chats, Kinds
  <1>2. PICK s \in GraphState, new \in Run : Begun(r, t, kind, m, s, new)
    BY <1>1, BeginIs
  <1>3. pc'[r] = "supervisor" /\ run'[r] = new /\ \A x \in Runs : x # r => Rests(x)
    BY <1>2 DEF Begun, IInv, Types, Rests
  <1>4. ASSUME new.first PROVE Carries(new)
    <2>1. saved[t].state = Fresh /\ Fresh \in GraphState
      BY <1>2, <1>4, FreshType DEF Begun, Unused
    <2>2. /\ s.procurement_proposal = NoProposal /\ s.policy_decision = NoOutcome
          /\ s.material_id = NoMaterial /\ s.said = m
      <3>1. s = [Fresh EXCEPT !.said = m, !.next_agent = "supervisor",
                              !.approval_required = FALSE]
        BY <1>2, <2>1 DEF Begun
      <3> QED
        BY <3>1 DEF Fresh
    <2> QED
      BY <1>1, <1>2, <2>2 DEF Begun, Carries, DecisionFits, Late
  <1>5. OnItsWay(r)'
    BY <1>3 DEF OnItsWay, InPolicy, Specialists
  <1>6. Carries(new) => Carries(run[r])'
    BY <1>3 DEF Carries, DecisionFits
  <1>7. FirstRun(r)'
    BY <1>3, <1>4, <1>5, <1>6 DEF FirstRun
  <1> QED
    BY <1>3, <1>7, OneFirst

LEMMA FirstKept ==
  ASSUME Obedient, IInv, FirstRuns, [Next]_vars
  PROVE  FirstRuns'
  <1>1. CASE UNCHANGED vars
    BY <1>1, FirstRests DEF vars, FirstRuns, Rests
  <1>2. ASSUME NEW r \in Runs, Step(r) \/ NodeRaises(r) \/ Cancel(r) \/ RecursionLimit(r)
        PROVE  FirstRuns'
    <2>1. CASE GraphStep(r) \/ PolicyAgent(r) \/ Enqueue(r)
      BY <2>1, SupervisorFirst, SpecialistFirst, ProcurementFirst, PolicyFirst, InsideFirst
         DEF GraphStep
    <2>2. CASE Interrupt(r) \/ Finish(r) \/ NodeRaises(r) \/ Cancel(r) \/ RecursionLimit(r)
      <3>1. pc' = [pc EXCEPT ![r] = "idle"] /\ run' = [run EXCEPT ![r] = NoRun]
        BY <2>2 DEF Interrupt, Finish, NodeRaises, Cancel, RecursionLimit, Answer, Fail, Forget
      <3>2. pc'[r] = "idle" /\ \A x \in Runs : x # r => Rests(x)
        BY <3>1 DEF IInv, Types, Rests
      <3>3. FirstRun(r)'
        BY <3>2 DEF FirstRun
      <3> QED
        BY <3>2, <3>3, OneFirst
    <2> QED
      BY <1>2, <2>1, <2>2 DEF Step, GraphStep
  <1>3. ASSUME NEW r \in Runs, NEW t \in Threads,
               \/ Invoke(r, t)
               \/ \E kind \in Chats, m \in Materials \cup {NoMaterial} : Chat(r, t, kind, m)
        PROVE  FirstRuns'
    BY <1>3, BeginFirst DEF Invoke, Chat
  <1>4. ASSUME NEW i \in 1..Len(queue), DecideEnds(i) \/ \E d \in {"approved", "rejected"} : Decide(i, d)
        PROVE  FirstRuns'
    BY <1>4, FirstRests DEF Decide, DecideEnds, FirstRuns, Rests
  <1>5. ASSUME NEW i \in 1..Len(queue), NEW r \in Runs, Resume(r, i)
        PROVE  FirstRuns'
    <2>1. PICK new \in Run : Resumed(r, queue[i].thread, new)
      BY <1>5, ResumeIs
    <2>2. run'[r] = new /\ new.first = FALSE /\ \A x \in Runs : x # r => Rests(x)
      BY <2>1 DEF Resumed, IInv, Types, Rests
    <2>3. FirstRun(r)'
      BY <2>2 DEF FirstRun
    <2> QED
      BY <2>2, <2>3, OneFirst
  <1> QED
    BY <1>1, <1>2, <1>3, <1>4, <1>5 DEF Next

THEOREM FirstRunInvariance == ASSUME Obedient PROVE Spec => [](IInv /\ FirstRuns)
  <1>1. Init => FirstRuns
    BY DEF Init, FirstRuns, FirstRun
  <1>2. IInv /\ FirstRuns /\ [Next]_vars => FirstRuns'
    BY FirstKept
  <1>3. IInv /\ [Next]_vars => IInv'
    BY NextInv
  <1> QED
    BY <1>1, <1>2, <1>3, InitInv, PTL DEF Spec

\* The first reorder run on a thread answers about the material it was asked for.
THEOREM AnswerCorrect == ASSUME Obedient PROVE Spec => []AnswersTheQuestion
  <1>1. IInv /\ FirstRuns => AnswersTheQuestion
    BY DEF FirstRuns, FirstRun, OnItsWay, Carries, AnswersTheQuestion, g
  <1> QED
    BY <1>1, FirstRunInvariance, PTL

\* Its decision is one the rules give to its proposal.
THEOREM DecisionCorrect == ASSUME Obedient PROVE Spec => []FirstDecisionFits
  <1>1. IInv /\ FirstRuns => FirstDecisionFits
    BY DEF FirstRuns, FirstRun, Carries, FirstDecisionFits, g
  <1> QED
    BY <1>1, FirstRunInvariance, PTL

\* It asks a human about a proposal of its own.
THEOREM ReviewCorrect == ASSUME Obedient PROVE Spec => []ReviewsOwnProposal
  <1>1. IInv /\ FirstRuns => ReviewsOwnProposal
    BY DEF IInv, Running, InPolicy, Weighed, Queueing, Decided, FirstRuns, FirstRun,
           Carries, ReviewsOwnProposal, g
  <1> QED
    BY <1>1, FirstRunInvariance, PTL

-----------------------------------------------------------------------------
(***************************************************************************)
(* A model that follows the routing prompt brings every run forward.       *)
(***************************************************************************)

Marks == Specialists \cup {"none"}

LEMMA RankIs ==
  /\ Rank["none"] = 0 /\ Rank["inventory_agent"] = 1 /\ Rank["forecast_agent"] = 2
  /\ Rank["procurement_agent"] = 3 /\ Rank["policy_agent"] = 4
  /\ Rank["knowledge_agent"] = 4 /\ Rank["analytics_agent"] = 4
  /\ \A last \in Marks : Rank[last] \in 0..4
  BY DEF Rank, Marks, Specialists

LEMMA HeightIs ==
  ASSUME NEW last
  PROVE  /\ Height("supervisor", last) = 4 * Rank[last]
         /\ \A node \in Specialists : Height(node, last) = 4 * Rank[node] - 3
         /\ Height("audit", last) = 14 /\ Height("interrupt", last) = 15
         /\ Height("END", last) = 17
  BY DEF Height, Specialists

LEMMA HeightType ==
  ASSUME NEW node \in Places \ {"idle"}, NEW last \in Marks
  PROVE  Height(node, last) \in 0..17
  <1>1. CASE node = "supervisor"
    BY <1>1, HeightIs, RankIs
  <1>2. CASE node \in Specialists
    <2>1. Height(node, last) = 4 * Rank[node] - 3 /\ Rank[node] \in 1..4
      BY <1>2, HeightIs, RankIs DEF Specialists
    <2> QED
      BY <2>1
  <1>3. CASE node \in {"audit", "interrupt", "END"}
    BY <1>3, HeightIs
  <1> QED
    BY <1>1, <1>2, <1>3 DEF Places, Nodes

\* Where the prompt sends a run is further on than where its last specialist is.
LEMMA RouteLeadsOn ==
  ASSUME Obedient, NEW r, run[r] \in Run, NEW next \in Route(r), NEW mark
  PROVE  Height(next, mark) > Height("supervisor", run[r].last)
  <1>1. run[r].last \in Marks
    BY DEF Run, Marks
  <1>2. next \in Prompted(r)
    BY DEF Route
  <1>3. Height("supervisor", run[r].last) = 4 * Rank[run[r].last] /\ Rank[run[r].last] \in 0..4
    BY <1>1, HeightIs, RankIs
  <1>4. CASE next = "END"
    BY <1>3, <1>4, HeightIs
  <1>5. CASE next # "END"
    <2>1. next \in Specialists
      BY <1>5, RouteType
    <2>2. Height(next, mark) = 4 * Rank[next] - 3
      BY <2>1, HeightIs
    <2>3. Rank[next] \in 1..4
      BY <2>1, RankIs DEF Specialists
    <2>4. CASE run[r].last = "none"
      BY <1>3, <2>2, <2>3, <2>4, RankIs
    <2>5. CASE run[r].last # "none"
      <3>1. next = Successor[run[r].last]
        BY <1>2, <1>5, <2>5 DEF Prompted
      <3>2. Rank[next] = Rank[run[r].last] + 1
        BY <1>1, <1>5, <2>5, <3>1, SuccessorIs, RankIs DEF Marks, Specialists
      <3> QED
        BY <1>3, <2>2, <3>2
    <2> QED
      BY <2>4, <2>5
  <1> QED
    BY <1>4, <1>5

\* One step of a run that goes on.
Onward(r) ==
    /\ Place(r)' > Place(r)
    /\ \/ run'[r].hops = run[r].hops
       \/ pc[r] = "supervisor" /\ run'[r].hops = run[r].hops + 1

LEMMA SupervisorOnward ==
  ASSUME IInv, Obedient, NEW r \in Runs, Supervisor(r)
  PROVE  Onward(r) /\ \A x \in Runs : x # r => Rests(x)
  <1>1. PICK next \in Route(r), s \in GraphState : \E new :
           After(r, s, next, new) /\ new.hops = run[r].hops + 1
    BY SupervisorIs
  <1>2. PICK new : After(r, s, next, new) /\ new.hops = run[r].hops + 1
    BY <1>1
  <1>3. pc[r] = "supervisor" /\ run[r] \in Run
    BY SupervisorIs, RunType
  <1>4. pc'[r] = next /\ run'[r] = new /\ \A x \in Runs : x # r => Rests(x)
    BY <1>2, AfterRests
  <1>5. Height(next, new.last) > Height("supervisor", run[r].last)
    BY <1>1, <1>3, RouteLeadsOn
  <1> QED
    BY <1>2, <1>3, <1>4, <1>5 DEF Onward, Place

\* A specialist and policy_node return to the supervisor, which counts them done.
LEMMA ReturnOnward ==
  ASSUME IInv, NEW r \in Runs, pc[r] \in Specialists \/ InPolicy(r), NEW s \in GraphState,
         NEW proposed \in {"none", "order", "no_reorder"}, Return(r, s, proposed)
  PROVE  Onward(r) /\ \A x \in Runs : x # r => Rests(x)
  <1>1. pc[r] # "idle"
    BY DEF Specialists, InPolicy
  <1>2. PICK new : After(r, s, "supervisor", new) /\ Returned(r, new, proposed)
    BY <1>1, ReturnIs
  <1>3. pc'[r] = "supervisor" /\ run'[r] = new /\ \A x \in Runs : x # r => Rests(x)
    BY <1>2, AfterRests
  <1>4. Height("supervisor", new.last) > Height(pc[r], run[r].last)
    <2>1. CASE pc[r] \in Specialists
      <3>1. new.last = pc[r]
        BY <1>2, <2>1 DEF Returned
      <3>2. /\ Height("supervisor", new.last) = 4 * Rank[pc[r]]
            /\ Height(pc[r], run[r].last) = 4 * Rank[pc[r]] - 3
        BY <2>1, <3>1, HeightIs
      <3>3. Rank[pc[r]] \in 0..4
        BY <2>1, RankIs DEF Marks
      <3> QED
        BY <3>2, <3>3
    <2>2. CASE InPolicy(r)
      <3>1. new.last = "policy_agent"
        BY <1>2, <2>2 DEF Returned, InPolicy, Specialists
      <3> QED
        BY <2>2, <3>1, HeightIs, RankIs DEF InPolicy
    <2> QED
      BY <2>1, <2>2
  <1> QED
    BY <1>2, <1>3, <1>4 DEF Onward, Place, Returned

LEMMA InsideOnward ==
  ASSUME IInv, NEW r \in Runs, PolicyAgent(r) \/ Enqueue(r)
  PROVE  Onward(r) /\ \A x \in Runs : x # r => Rests(x)
  <1>1. CASE PolicyAgent(r)
    <2>1. PICK outcome \in Outcomes :
             /\ pc[r] = "policy_agent"
             /\ pc' = [pc EXCEPT ![r] = "audit"]
             /\ run' = [run EXCEPT ![r].outcome = outcome]
      BY <1>1 DEF PolicyAgent, Node
    <2>2. run[r] \in Run
      BY <2>1, RunType
    <2>3. pc'[r] = "audit" /\ run'[r].hops = run[r].hops
      BY <2>1, <2>2 DEF IInv, Types, Run
    <2>4. \A x \in Runs : x # r => Rests(x)
      BY <2>1 DEF IInv, Types, Rests
    <2>5. \A last : Height("policy_agent", last) = 13
      BY HeightIs, RankIs DEF Specialists
    <2> QED
      BY <2>1, <2>3, <2>4, <2>5, HeightIs DEF Onward, Place
  <1>2. CASE Enqueue(r)
    <2>1. pc[r] = "audit" /\ pc' = [pc EXCEPT ![r] = "interrupt"] /\ run' = run
      BY <1>2 DEF Enqueue, Decided
    <2>2. pc'[r] = "interrupt" /\ \A x \in Runs : x # r => Rests(x)
      BY <2>1 DEF IInv, Types, Rests
    <2> QED
      BY <2>1, <2>2, HeightIs DEF Onward, Place
  <1> QED
    BY <1>1, <1>2

LEMMA StepOnward ==
  ASSUME IInv, Obedient, NEW r \in Runs, GraphStep(r) \/ PolicyAgent(r) \/ Enqueue(r)
  PROVE  Onward(r) /\ \A x \in Runs : x # r => Rests(x)
  <1>1. pc[r] # "idle" => run[r].proposed \in {"none", "order", "no_reorder"}
    BY RunType DEF Run
  <1>2. CASE \/ InventoryAgent(r) \/ ForecastAgent(r) \/ KnowledgeAgent(r)
             \/ AnalyticsAgent(r) \/ NothingToEvaluate(r)
    <2>1. pc[r] \in Specialists /\ pc[r] # "idle"
      BY <1>2, SpecialistIs DEF Specialists
    <2>2. PICK s \in GraphState : Return(r, s, run[r].proposed)
      BY <1>2, SpecialistIs
    <2> QED
      BY <1>1, <2>1, <2>2, ReturnOnward
  <1>3. CASE ProcurementAgent(r)
    <2>1. pc[r] \in Specialists
      BY <1>3, ProcurementIs DEF Specialists
    <2>2. PICK s \in GraphState, proposed \in {"order", "no_reorder"} : Return(r, s, proposed)
      BY <1>3, ProcurementIs
    <2> QED
      BY <2>1, <2>2, ReturnOnward
  <1>4. CASE Deny(r) \/ Approve(r) \/ AfterInterrupt(r)
    <2>1. InPolicy(r) /\ pc[r] # "idle"
      BY <1>4, PolicyReturns DEF InPolicy
    <2>2. PICK s \in GraphState : Return(r, s, run[r].proposed)
      BY <1>4, PolicyReturns
    <2> QED
      BY <1>1, <2>1, <2>2, ReturnOnward
  <1> QED
    BY <1>2, <1>3, <1>4, SupervisorOnward, InsideOnward DEF GraphStep

\* What a step of the system is to the runs: one of them goes on, or one begins,
\* or ends, or none has moved.
LEMMA RunsMove ==
  ASSUME IInv, Obedient, [Next]_vars
  PROVE  \/ \A x \in Runs : Rests(x)
         \/ \E r \in Runs :
               /\ \A x \in Runs : x # r => Rests(x)
               /\ \/ pc[r] # "idle" /\ Onward(r)
                  \/ pc'[r] = "idle"
                  \/ pc[r] = "idle" /\ run'[r].hops = 0
  <1>1. CASE UNCHANGED vars
    BY <1>1 DEF vars, Rests
  <1>2. ASSUME NEW r \in Runs, Step(r) \/ NodeRaises(r) \/ Cancel(r) \/ RecursionLimit(r)
        PROVE  /\ \A x \in Runs : x # r => Rests(x)
               /\ \/ pc[r] # "idle" /\ Onward(r)
                  \/ pc'[r] = "idle"
    <2>1. CASE GraphStep(r) \/ PolicyAgent(r) \/ Enqueue(r)
      <3>1. pc[r] # "idle"
        BY <2>1, GraphIs DEF Moves, PolicyAgent, Enqueue, Node, Decided
      <3> QED
        BY <2>1, <3>1, StepOnward
    <2>2. CASE Interrupt(r) \/ Finish(r) \/ NodeRaises(r) \/ Cancel(r) \/ RecursionLimit(r)
      <3>1. pc' = [pc EXCEPT ![r] = "idle"] /\ run' = [run EXCEPT ![r] = NoRun]
        BY <2>2 DEF Interrupt, Finish, NodeRaises, Cancel, RecursionLimit, Answer, Fail, Forget
      <3> QED
        BY <3>1 DEF IInv, Types, Rests
    <2> QED
      BY <1>2, <2>1, <2>2 DEF Step, GraphStep
  <1>3. ASSUME NEW r \in Runs, NEW t \in Threads,
               \/ Invoke(r, t)
               \/ \E kind \in Chats, m \in Materials \cup {NoMaterial} : Chat(r, t, kind, m)
        PROVE  /\ \A x \in Runs : x # r => Rests(x)
               /\ pc[r] = "idle" /\ run'[r].hops = 0
    <2>1. PICK kind \in Kinds, m \in Materials \cup {NoMaterial} : Begin(r, t, kind, m)
      BY <1>3 DEF Invoke, Chat, Chats, Kinds
    <2>2. PICK s \in GraphState, new \in Run : Begun(r, t, kind, m, s, new)
      BY <2>1, BeginIs
    <2> QED
      BY <2>2 DEF Begun, IInv, Types, Rests
  <1>4. ASSUME NEW i \in 1..Len(queue), NEW r \in Runs, Resume(r, i)
        PROVE  /\ \A x \in Runs : x # r => Rests(x)
               /\ pc[r] = "idle" /\ run'[r].hops = 0
    <2>1. PICK new \in Run : Resumed(r, queue[i].thread, new)
      BY <1>4, ResumeIs
    <2> QED
      BY <2>1 DEF Resumed, IInv, Types, Rests
  <1>5. ASSUME NEW i \in 1..Len(queue), DecideEnds(i) \/ \E d \in {"approved", "rejected"} : Decide(i, d)
        PROVE  \A x \in Runs : Rests(x)
    BY <1>5 DEF Decide, DecideEnds, Rests
  <1> QED
    BY <1>1, <1>2, <1>3, <1>4, <1>5 DEF Next

\* The turns of the supervisor are counted by how far the run has come.
HopsInPlace == \A r \in Runs : pc[r] # "idle" => 4 * run[r].hops <= Place(r) + 3

LEMMA PlaceType ==
  ASSUME IInv, NEW r \in Runs, pc[r] # "idle"
  PROVE  Place(r) \in 0..17 /\ run[r].hops \in Nat
  <1>1. pc[r] \in Places \ {"idle"} /\ run[r] \in Run
    BY RunType DEF IInv, Types
  <1>2. run[r].last \in Marks /\ run[r].hops \in 0..MaxHops
    BY <1>1 DEF Run, Marks
  <1>3. Place(r) \in 0..17
    BY <1>1, <1>2, HeightType DEF Place
  <1>4. MaxHops \in Nat
    BY WorkflowAssumption
  <1> QED
    BY <1>2, <1>3, <1>4

LEMMA HopsKept ==
  ASSUME IInv, IInv', Obedient, HopsInPlace, [Next]_vars
  PROVE  HopsInPlace'
  <1>1. ASSUME NEW r \in Runs, Rests(r), pc'[r] # "idle"
        PROVE  4 * run'[r].hops <= Place(r)' + 3
    BY <1>1 DEF Rests, HopsInPlace, Place
  <1>2. ASSUME NEW r \in Runs, pc'[r] # "idle"
        PROVE  Place(r)' \in 0..17 /\ run'[r].hops \in Nat
    <2>1. pc'[r] \in Places \ {"idle"} /\ run'[r] \in Run
      BY <1>2 DEF IInv, Types, Running
    <2>2. run'[r].last \in Marks /\ run'[r].hops \in 0..MaxHops
      BY <2>1 DEF Run, Marks
    <2>3. Place(r)' \in 0..17
      BY <2>1, <2>2, HeightType DEF Place
    <2>4. MaxHops \in Nat
      BY WorkflowAssumption
    <2> QED
      BY <2>2, <2>3, <2>4
  <1>3. ASSUME NEW r \in Runs, pc[r] # "idle", Onward(r), pc'[r] # "idle"
        PROVE  4 * run'[r].hops <= Place(r)' + 3
    <2>1. /\ Place(r) \in 0..17 /\ run[r].hops \in Nat
          /\ Place(r)' \in 0..17 /\ run'[r].hops \in Nat
          /\ 4 * run[r].hops <= Place(r) + 3
      BY <1>2, <1>3, PlaceType DEF HopsInPlace
    <2>2. CASE run'[r].hops = run[r].hops
      BY <1>3, <2>1, <2>2 DEF Onward
    <2>3. CASE pc[r] = "supervisor" /\ run'[r].hops = run[r].hops + 1
      <3>1. PICK k \in 0..4 : Place(r) = 4 * k
        <4>1. run[r].last \in Marks
          BY <1>3, RunType DEF Run, Marks
        <4> QED
          BY <2>3, <4>1, HeightIs, RankIs DEF Place
      <3>2. run[r].hops <= k
        BY <2>1, <3>1
      <3> QED
        BY <1>3, <2>1, <2>3, <3>1, <3>2 DEF Onward
    <2> QED
      BY <1>3, <2>2, <2>3 DEF Onward
  <1>4. ASSUME NEW r \in Runs, run'[r].hops = 0, pc'[r] # "idle"
        PROVE  4 * run'[r].hops <= Place(r)' + 3
    BY <1>2, <1>4
  <1> QED
    BY <1>1, <1>3, <1>4, RunsMove DEF HopsInPlace

THEOREM HopsInvariance == ASSUME Obedient PROVE Spec => [](IInv /\ HopsInPlace)
  <1>1. Init => HopsInPlace
    BY DEF Init, HopsInPlace
  <1>2. IInv /\ IInv' /\ HopsInPlace /\ [Next]_vars => HopsInPlace'
    BY HopsKept
  <1>3. IInv /\ [Next]_vars => IInv'
    BY NextInv
  <1> QED
    BY <1>1, <1>2, <1>3, InitInv, PTL DEF Spec

\* Five turns of the supervisor are enough for a run: with its specialists nine
\* steps of the twenty-five LangGraph allows.
LimitNotReached == \A r \in Runs : pc[r] # "idle" => run[r].hops <= 5

THEOREM TurnsBounded == ASSUME Obedient PROVE Spec => []LimitNotReached
  <1>1. IInv /\ HopsInPlace => LimitNotReached
    <2> SUFFICES ASSUME IInv, HopsInPlace, NEW r \in Runs, pc[r] # "idle"
                 PROVE  run[r].hops <= 5
      BY DEF LimitNotReached
    <2>1. Place(r) \in 0..17 /\ run[r].hops \in Nat
      BY PlaceType
    <2> QED
      BY <2>1 DEF HopsInPlace
  <1> QED
    BY <1>1, HopsInvariance, PTL

\* No step of a run leads back.
THEOREM NoWayBack == ASSUME Obedient PROVE Spec => RunsAdvance
  <1>1. IInv /\ [Next]_vars =>
           [\A r \in Runs :
               pc[r] # "idle" /\ pc'[r] # "idle" /\ <<pc[r], run[r]>>' # <<pc[r], run[r]>>
                   => Place(r)' > Place(r)]_vars
    BY RunsMove DEF Rests, Onward
  <1> QED
    BY <1>1, Invariance, PTL DEF Spec, RunsAdvance

-----------------------------------------------------------------------------
(***************************************************************************)
(* A pause, on threads whose runs do not overlap.                          *)
(***************************************************************************)

NoOverlap ==
    \A r, q \in Runs :
        pc[r] # "idle" /\ pc[q] # "idle" /\ run[r].thread = run[q].thread => r = q

Queued(t, p) ==
    \E i \in 1..Len(queue) : queue[i].thread = t /\ queue[i].proposal = p

\* The checkpoint of a thread is where its run is; only the item is ahead of it.
InStep(r) ==
    pc[r] # "idle" =>
        /\ saved[run[r].thread] = [at |-> IF InPolicy(r) THEN "policy_agent" ELSE pc[r],
                                   state |-> g(r)]
        /\ reply[run[r].thread].ending # "paused"
        /\ pc[r] = "interrupt" => Queued(run[r].thread, g(r).procurement_proposal)

Paused(t) ==
    reply[t].ending = "paused" =>
        /\ saved[t].at = "policy_agent"
        /\ Queued(t, saved[t].state.procurement_proposal)

PauseInv ==
    /\ reply \in [Threads -> [ending : {"none", "ended", "paused"},
                              approval_required : BOOLEAN]]
    /\ \A r \in Runs : InStep(r)
    /\ \A t \in Threads : Paused(t)

\* Items stay in the queue, with their thread and proposal.
QueueGrows ==
    \A i \in 1..Len(queue) :
        /\ i \in 1..Len(queue')
        /\ queue'[i].thread = queue[i].thread /\ queue'[i].proposal = queue[i].proposal

LEMMA AppendGrows ==
  ASSUME queue \in Seq(Items), NEW item \in Items, queue' = Append(queue, item)
  PROVE  QueueGrows /\ Queued(item.thread, item.proposal)'
  <1>1. /\ Len(queue) \in Nat /\ Len(queue') = Len(queue) + 1
        /\ queue'[Len(queue) + 1] = item
        /\ \A i \in 1..Len(queue) : queue'[i] = queue[i]
    OBVIOUS
  <1>2. QueueGrows
    BY <1>1 DEF QueueGrows
  <1>3. Len(queue) + 1 \in 1..Len(queue')
    BY <1>1
  <1> QED
    BY <1>1, <1>2, <1>3 DEF Queued

LEMMA SameQueueGrows ==
  ASSUME queue' = queue
  PROVE  QueueGrows
  BY DEF QueueGrows

LEMMA QueuedStays ==
  ASSUME QueueGrows, NEW t, NEW p, Queued(t, p)
  PROVE  Queued(t, p)'
  BY DEF QueueGrows, Queued

\* A run that a step leaves alone, on a thread it leaves alone.
LEMMA InStepRests ==
  ASSUME NEW r, InStep(r), Rests(r), QueueGrows,
         pc[r] # "idle" => saved'[run[r].thread] = saved[run[r].thread]
                           /\ reply'[run[r].thread] = reply[run[r].thread]
  PROVE  InStep(r)'
  <1> SUFFICES ASSUME pc[r] # "idle" PROVE InStep(r)'
    BY DEF InStep, Rests
  <1> DEFINE t == run[r].thread
             p == g(r).procurement_proposal
  <1>1. pc'[r] = pc[r] /\ run'[r] = run[r]
    BY DEF Rests
  <1>2. pc[r] = "interrupt" => Queued(t, p)
    BY DEF InStep
  <1>3. PICK u, q : u = t /\ q = p
    OBVIOUS
  <1>4. pc[r] = "interrupt" => Queued(u, q)'
    BY <1>2, <1>3, QueuedStays
  <1>5. run'[r].thread = u /\ g(r)'.procurement_proposal = q /\ g(r)' = g(r)
    BY <1>1, <1>3 DEF g
  <1>6. pc'[r] = "interrupt" => Queued(run[r].thread, g(r).procurement_proposal)'
    BY <1>1, <1>4, <1>5 DEF Queued
  <1>7. InPolicy(r)' <=> InPolicy(r)
    BY <1>1 DEF InPolicy
  <1> QED
    BY <1>1, <1>5, <1>6, <1>7 DEF InStep

LEMMA PausedRests ==
  ASSUME NEW t, Paused(t), QueueGrows, saved'[t] = saved[t], reply'[t] = reply[t]
  PROVE  Paused(t)'
  <1>1. PICK p : p = saved[t].state.procurement_proposal
    OBVIOUS
  <1>2. Queued(t, p) => Queued(t, p)'
    BY QueuedStays
  <1>3. reply'[t].ending = "paused" => saved[t].at = "policy_agent" /\ Queued(t, p)'
    BY <1>1, <1>2 DEF Paused
  <1> QED
    BY <1>1, <1>3 DEF Paused, Queued

\* A step of one run on its thread.
LEMMA OnePause ==
  ASSUME IInv, NoOverlap, NoOverlap', PauseInv, NEW r \in Runs, NEW t \in Threads, QueueGrows,
         \A x \in Runs : x # r => Rests(x),
         \/ pc[r] # "idle" /\ run[r].thread = t
         \/ pc'[r] # "idle" /\ run'[r].thread = t,
         reply' \in [Threads -> [ending : {"none", "ended", "paused"},
                                 approval_required : BOOLEAN]],
         \A u \in Threads : u # t => saved'[u] = saved[u] /\ reply'[u] = reply[u],
         InStep(r)', Paused(t)'
  PROVE  PauseInv'
  <1>1. ASSUME NEW x \in Runs, x # r PROVE InStep(x)'
    <2>1. InStep(x) /\ Rests(x)
      BY <1>1 DEF PauseInv
    <2>2. pc[x] # "idle" => run[x].thread \in Threads /\ run[x].thread # t
      <3> SUFFICES ASSUME pc[x] # "idle" PROVE run[x].thread \in Threads /\ run[x].thread # t
        OBVIOUS
      <3>1. run[x].thread \in Threads
        BY RunType
      <3>2. CASE pc[r] # "idle" /\ run[r].thread = t
        BY <1>1, <3>1, <3>2 DEF NoOverlap
      <3>3. CASE pc'[r] # "idle" /\ run'[r].thread = t
        <4>1. pc'[x] # "idle" /\ run'[x].thread = run[x].thread
          BY <2>1 DEF Rests
        <4> QED
          BY <1>1, <3>1, <3>3, <4>1 DEF NoOverlap
      <3> QED
        BY <3>1, <3>2, <3>3
    <2> QED
      BY <2>1, <2>2, InStepRests
  <1>2. ASSUME NEW u \in Threads, u # t PROVE Paused(u)'
    BY <1>2, PausedRests DEF PauseInv
  <1> QED
    BY <1>1, <1>2 DEF PauseInv

Replies == [ending : {"none", "ended", "paused"}, approval_required : BOOLEAN]

LEMMA ReplyType ==
  ASSUME reply \in [Threads -> Replies], NEW t \in Threads, NEW answer \in Replies,
         reply' = [reply EXCEPT ![t] = answer]
  PROVE  /\ reply' \in [Threads -> Replies] /\ reply'[t] = answer
         /\ \A u \in Threads : u # t => reply'[u] = reply[u]
  OBVIOUS

LEMMA NoReplyType == NoReply \in Replies /\ NoReply.ending = "none"
  BY DEF NoReply, Replies

\* A node that saves: the run and its thread move together.
LEMMA GraphPause ==
  ASSUME IInv, NoOverlap, NoOverlap', PauseInv, NEW r \in Runs, GraphStep(r)
  PROVE  PauseInv'
  <1>1. PICK s, node, new : Moves(r, s, node, new)
    BY GraphIs
  <1>2. pc[r] # "idle" /\ queue' = queue /\ reply' = reply /\ node \notin {"audit", "interrupt"}
    BY <1>1 DEF Moves, After, Nodes, Specialists
  <1>3. PICK t \in Threads : t = run[r].thread
    BY <1>2, RunType
  <1>4. pc'[r] = node /\ run'[r] = new /\ \A x \in Runs : x # r => Rests(x)
    BY <1>1, AfterRests DEF Moves
  <1>5. new.state = s /\ new.thread = t
    BY <1>1, <1>3 DEF Moves, After
  <1>6. /\ saved'[t] = [at |-> node, state |-> s]
        /\ \A u \in Threads : u # t => saved'[u] = saved[u]
    BY <1>1, <1>3 DEF Moves, After, IInv, Types
  <1>7. reply[t].ending # "paused"
    BY <1>2, <1>3 DEF PauseInv, InStep
  <1>8. InStep(r)'
    <2>1. run'[r].thread = t /\ g(r)' = s /\ ~InPolicy(r)'
      BY <1>2, <1>4, <1>5 DEF InPolicy, g
    <2> QED
      BY <1>2, <1>4, <1>6, <1>7, <2>1 DEF InStep
  <1>9. Paused(t)'
    BY <1>2, <1>7 DEF Paused
  <1> QED
    BY <1>2, <1>3, <1>4, <1>6, <1>8, <1>9, SameQueueGrows, OnePause DEF PauseInv

\* policy_node, up to its interrupt: the thread waits where it is.
LEMMA PolicyPause ==
  ASSUME IInv, NoOverlap, NoOverlap', PauseInv, NEW r \in Runs, PolicyAgent(r) \/ Enqueue(r)
  PROVE  PauseInv'
  <1> DEFINE t == run[r].thread
             p == g(r).procurement_proposal
  <1>1. /\ pc[r] # "idle" /\ saved' = saved /\ reply' = reply
        /\ pc[r] \in {"policy_agent", "audit"}
        /\ \E place \in {"audit", "interrupt"} : pc' = [pc EXCEPT ![r] = place]
        /\ \/ run' = run
           \/ \E outcome : run' = [run EXCEPT ![r].outcome = outcome]
    BY DEF PolicyAgent, Enqueue, Node, Decided
  <1>2. run[r] \in Run /\ t \in Threads
    BY <1>1, RunType
  <1>3. /\ run'[r].thread = t /\ run'[r].state = g(r) /\ pc'[r] \in {"audit", "interrupt"}
        /\ \A x \in Runs : x # r => Rests(x)
    BY <1>1, <1>2 DEF IInv, Types, Rests, Run, g
  <1>4. /\ QueueGrows
        /\ pc'[r] = "interrupt" => Queued(t, p)'
    <2>1. CASE PolicyAgent(r)
      BY <1>1, <2>1, SameQueueGrows DEF PolicyAgent, IInv, Types
    <2>2. CASE Enqueue(r)
      <3>1. /\ queue \in Seq(Items) /\ Item(r) \in Items /\ queue' = Append(queue, Item(r))
            /\ run' = run
        BY <2>2, ItemType DEF Enqueue, Decided, InPolicy, IInv, Types
      <3>2. PICK item \in Items : item = Item(r)
        BY <3>1
      <3>3. item.thread = t /\ item.proposal = p
        BY <3>2 DEF Item
      <3>4. QueueGrows /\ Queued(item.thread, item.proposal)'
        BY <3>1, <3>2, AppendGrows
      <3>5. t' = t /\ p' = p
        BY <3>1 DEF g
      <3> QED
        BY <3>3, <3>4, <3>5 DEF Queued
    <2> QED
      BY <2>1, <2>2
  <1>5. /\ saved[t] = [at |-> "policy_agent", state |-> g(r)]
        /\ reply[t].ending # "paused"
    BY <1>1 DEF PauseInv, InStep, InPolicy
  <1>6. g(r)' = g(r) /\ t' = t /\ p' = p
    BY <1>3 DEF g
  <1>7. InStep(r)'
    BY <1>1, <1>3, <1>4, <1>5, <1>6 DEF InStep, InPolicy, Queued
  <1>8. reply'[t].ending # "paused"
    BY <1>1, <1>5
  <1>9. PICK u \in Threads : u = t
    BY <1>2
  <1>10. Paused(u)'
    BY <1>8, <1>9 DEF Paused
  <1> QED
    BY <1>1, <1>3, <1>4, <1>7, <1>9, <1>10, OnePause DEF PauseInv

\* The end of a run leaves its thread paused only where it was interrupted.
LEMMA EndPause ==
  ASSUME IInv, NoOverlap, NoOverlap', PauseInv, NEW r \in Runs,
         Interrupt(r) \/ Finish(r) \/ NodeRaises(r) \/ Cancel(r) \/ RecursionLimit(r)
  PROVE  PauseInv'
  <1>1. pc[r] # "idle" /\ Forget(r) /\ saved' = saved /\ MaybeQueued(r)
    BY DEF Interrupt, Finish, NodeRaises, Cancel, RecursionLimit, Answer, Fail, InNode,
           MaybeQueued
  <1>2. PICK t \in Threads : t = run[r].thread
    BY <1>1, RunType
  <1>3. /\ pc'[r] = "idle" /\ \A x \in Runs : x # r => Rests(x)
    BY <1>1 DEF Forget, IInv, Types, Rests
  <1>4. QueueGrows
    <2>1. CASE UNCHANGED queue
      BY <2>1, SameQueueGrows
    <2>2. CASE pc[r] = "audit" /\ queue' = Append(queue, Item(r))
      BY <2>2, ItemType, AppendGrows DEF InPolicy, IInv, Types
    <2> QED
      BY <1>1, <2>1, <2>2 DEF MaybeQueued
  <1>5. reply[t].ending # "paused"
    BY <1>1, <1>2 DEF PauseInv, InStep
  <1>6. InStep(r)'
    BY <1>3 DEF InStep
  <1>7. CASE reply' = reply
    <2>1. Paused(t)'
      BY <1>5, <1>7 DEF Paused
    <2> QED
      BY <1>1, <1>2, <1>3, <1>4, <1>6, <1>7, <2>1, OnePause DEF PauseInv
  <1>8. ASSUME NEW ending \in {"ended", "paused"},
               reply' = [reply EXCEPT ![t] =
                  [ending |-> ending, approval_required |-> g(r).approval_required]],
               ending = "paused" => pc[r] = "interrupt" /\ queue' = queue
        PROVE  PauseInv'
    <2> DEFINE answer == [ending |-> ending, approval_required |-> g(r).approval_required]
    <2>1. g(r).approval_required \in BOOLEAN
      BY <1>1, RunType DEF GraphState
    <2>2. answer \in Replies /\ answer.ending = ending
      BY <2>1 DEF Replies
    <2>3. reply' = [reply EXCEPT ![t] = answer] /\ reply \in [Threads -> Replies]
      BY <1>8 DEF PauseInv, Replies
    <2> HIDE DEF answer
    <2>4. /\ reply' \in [Threads -> Replies] /\ reply'[t] = answer
          /\ \A u \in Threads : u # t => reply'[u] = reply[u]
      BY <2>2, <2>3, ReplyType
    <2>5. CASE ending = "ended"
      <3>1. Paused(t)'
        BY <2>2, <2>4, <2>5 DEF Paused
      <3> QED
        BY <1>1, <1>2, <1>3, <1>4, <1>6, <2>4, <3>1, OnePause DEF Replies
    <2>6. CASE ending = "paused"
      <3>1. pc[r] = "interrupt" /\ queue' = queue
        BY <1>8, <2>6
      <3>2. saved[t] = [at |-> "policy_agent", state |-> g(r)]
            /\ Queued(t, g(r).procurement_proposal)
        BY <1>1, <1>2, <3>1 DEF PauseInv, InStep, InPolicy
      <3>3. saved'[t].at = "policy_agent" /\ Queued(t, saved[t].state.procurement_proposal)
        BY <1>1, <3>2
      <3>4. Paused(t)'
        BY <1>1, <3>1, <3>3 DEF Paused, Queued
      <3> QED
        BY <1>1, <1>2, <1>3, <1>4, <1>6, <2>4, <3>4, OnePause DEF Replies
    <2> QED
      BY <2>5, <2>6
  <1>9. CASE Interrupt(r)
    BY <1>2, <1>7, <1>8, <1>9 DEF Interrupt, Answer
  <1>10. CASE Finish(r)
    BY <1>2, <1>7, <1>8, <1>10 DEF Finish, Answer
  <1> QED
    BY <1>7, <1>9, <1>10 DEF NodeRaises, Cancel, RecursionLimit, Fail

\* A run that begins or resumes takes its thread out of the pause.
LEMMA StartPause ==
  ASSUME IInv, NoOverlap, NoOverlap', PauseInv, NEW r \in Runs, NEW t \in Threads,
         NEW node \in Nodes, NEW s, NEW new, QueueGrows,
         pc' = [pc EXCEPT ![r] = node], run' = [run EXCEPT ![r] = new],
         new.thread = t, new.state = s, reply' = [reply EXCEPT ![t] = NoReply],
         saved'[t] = [at |-> node, state |-> s],
         \A u \in Threads : u # t => saved'[u] = saved[u]
  PROVE  PauseInv'
  <1>1. pc'[r] = node /\ run'[r] = new /\ \A x \in Runs : x # r => Rests(x)
    BY DEF IInv, Types, Rests
  <1>2. PICK answer \in Replies : answer = NoReply /\ answer.ending = "none"
    BY NoReplyType
  <1>3. /\ reply' \in [Threads -> Replies] /\ reply'[t].ending = "none"
        /\ \A u \in Threads : u # t => reply'[u] = reply[u]
    <2>1. reply' = [reply EXCEPT ![t] = answer] /\ reply \in [Threads -> Replies]
      BY <1>2 DEF PauseInv, Replies
    <2> QED
      BY <1>2, <2>1, ReplyType
  <1>4. node \notin {"idle", "audit", "interrupt"}
    BY DEF Nodes, Specialists
  <1>5. InStep(r)'
    <2>1. run'[r].thread = t /\ g(r)' = s /\ ~InPolicy(r)'
      BY <1>1, <1>4 DEF InPolicy, g
    <2> QED
      BY <1>1, <1>3, <1>4, <2>1 DEF InStep
  <1>6. Paused(t)'
    BY <1>3 DEF Paused
  <1> QED
    BY <1>1, <1>3, <1>4, <1>5, <1>6, OnePause DEF Replies

LEMMA NextPause ==
  ASSUME IInv, NoOverlap, NoOverlap', PauseInv, [Next]_vars
  PROVE  PauseInv'
  <1>1. ASSUME UNCHANGED <<saved, pc, run, reply>>, QueueGrows PROVE PauseInv'
    <2>1. \A x \in Runs : InStep(x)'
      BY <1>1, InStepRests DEF PauseInv, Rests
    <2>2. \A t \in Threads : Paused(t)'
      BY <1>1, PausedRests DEF PauseInv
    <2> QED
      BY <1>1, <2>1, <2>2 DEF PauseInv
  <1>2. CASE UNCHANGED vars
    BY <1>1, <1>2, SameQueueGrows DEF vars
  <1>3. ASSUME NEW r \in Runs, Step(r) \/ NodeRaises(r) \/ Cancel(r) \/ RecursionLimit(r)
        PROVE  PauseInv'
    BY <1>3, GraphPause, PolicyPause, EndPause DEF Step, GraphStep
  <1>4. ASSUME NEW r \in Runs, NEW t \in Threads,
               \/ Invoke(r, t)
               \/ \E kind \in Chats, m \in Materials \cup {NoMaterial} : Chat(r, t, kind, m)
        PROVE  PauseInv'
    <2>1. PICK kind \in Kinds, m \in Materials \cup {NoMaterial} : Begin(r, t, kind, m)
      BY <1>4 DEF Invoke, Chat, Chats, Kinds
    <2>2. PICK s \in GraphState, new \in Run : Begun(r, t, kind, m, s, new)
      BY <2>1, BeginIs
    <2>3. /\ QueueGrows /\ "supervisor" \in Nodes
          /\ pc' = [pc EXCEPT ![r] = "supervisor"] /\ run' = [run EXCEPT ![r] = new]
          /\ new.thread = t /\ new.state = s /\ reply' = [reply EXCEPT ![t] = NoReply]
      BY <2>2, SameQueueGrows DEF Begun, Nodes
    <2>4. /\ saved'[t] = [at |-> "supervisor", state |-> s]
          /\ \A u \in Threads : u # t => saved'[u] = saved[u]
      BY <2>2 DEF Begun, IInv, Types
    <2> QED
      BY <2>3, <2>4, StartPause
  <1>5. ASSUME NEW i \in 1..Len(queue), NEW d \in {"approved", "rejected"}, Decide(i, d)
        PROVE  PauseInv'
    <2>1. QueueGrows
      BY <1>5, DecideItemIs DEF Decide, QueueGrows
    <2> QED
      BY <1>1, <1>5, <2>1 DEF Decide
  <1>6. ASSUME NEW i \in 1..Len(queue), DecideEnds(i)
        PROVE  PauseInv'
    BY <1>1, <1>6, SameQueueGrows DEF DecideEnds
  <1>7. ASSUME NEW i \in 1..Len(queue), NEW r \in Runs, Resume(r, i)
        PROVE  PauseInv'
    <2>1. PICK t \in Threads : t = queue[i].thread
      BY <1>7, ResumeIs
    <2>2. PICK new \in Run : Resumed(r, t, new)
      BY <1>7, <2>1, ResumeIs
    <2>3. PICK node \in Nodes, s \in GraphState : saved[t] = [at |-> node, state |-> s]
      <3>1. saved[t] \in Checkpoint /\ saved[t].at \in Nodes
        BY <2>2 DEF Resumed, IInv, Types
      <3> QED
        BY <3>1 DEF Checkpoint
    <2>4. /\ pc' = [pc EXCEPT ![r] = node] /\ run' = [run EXCEPT ![r] = new]
          /\ new.thread = t /\ new.state = s /\ reply' = [reply EXCEPT ![t] = NoReply]
          /\ saved' = saved
      BY <2>2, <2>3 DEF Resumed
    <2>5. QueueGrows
      BY <1>7, SameQueueGrows DEF Resume
    <2> QED
      BY <2>3, <2>4, <2>5, StartPause
  <1> QED
    BY <1>2, <1>3, <1>4, <1>5, <1>6, <1>7 DEF Next

\* While no two runs share a thread, a paused thread has its proposal in the queue.
THEOREM PauseCorrect == Spec /\ []NoOverlap => []PauseIsQueued
  <1>1. Init => PauseInv
    BY DEF Init, PauseInv, InStep, Paused, NoReply
  <1>2. IInv /\ NoOverlap /\ NoOverlap' /\ PauseInv /\ [Next]_vars => PauseInv'
    BY NextPause
  <1>3. PauseInv => PauseIsQueued
    BY DEF PauseInv, Paused, Queued, PauseIsQueued
  <1> QED
    BY <1>1, <1>2, <1>3, Invariance, PTL DEF Spec

=============================================================================
