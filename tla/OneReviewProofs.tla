--------------------------- MODULE OneReviewProofs ---------------------------
(***************************************************************************)
(* Theorems of AgentWorkflow about a thread that was sent one input and is *)
(* otherwise only resumed.  However often its runs fail, are cancelled, end*)
(* in the middle of a write or are resumed, the work on it is handed on    *)
(* like a token: one run at most is on the way to the policy decision, or  *)
(* one item at most waits for a human, and never both.                     *)
(***************************************************************************)
EXTENDS AgentWorkflowProofs

On(r, t) == pc[r] # "idle" /\ run[r].thread = t

\* A run that has been through policy_node, or has queued its proposal.
Past(node, x) ==
    \/ node \in {"interrupt", "END"}
    \/ node = "supervisor" /\ x.last = "policy_agent"

\* The run that has the token of its thread, and the items that have it: from
\* the moment they are queued until the decision on them resumes the thread.
Holds(r, t) == On(r, t) /\ ~Past(pc[r], run[r])
Filed(t) == {i \in 1..Len(queue) : queue[i].thread = t}
Waiting(t) == {i \in Filed(t) : queue[i].status = "pending" \/ i \in deciding}

\* No decision without a proposal; none that ends the run without a human.
Backed(s) == s.policy_decision # NoOutcome => s.procurement_proposal # NoProposal
Open(s) == s.policy_decision \in {NoOutcome, "needs_human"}
Settled(s) == s.policy_decision = "needs_human" /\ DecisionFits(s)

\* What a run x knows at a node.
Sound(node, x) ==
    /\ Backed(x.state)
    /\ ~Past(node, x) => Open(x.state)
    /\ node = "interrupt" => x.outcome = "needs_human"
    /\ \/ DecisionFits(x.state)
       \/ node \in {"policy_agent", "audit", "interrupt"}
       \/ /\ node = "supervisor" /\ x.last = "procurement_agent"
          /\ x.proposed = "order"

\* The token may have to be taken from the checkpoint, when a human decides.
SavedFits(t) ==
    /\ Backed(saved[t].state) /\ Open(saved[t].state)
    /\ saved[t].at = "policy_agent" \/ Settled(saved[t].state)

AtPolicy(r) == pc[r] \in {"policy_agent", "audit"}

Once(t) ==
    /\ \A r, x \in Runs : Holds(r, t) /\ Holds(x, t) => r = x
    /\ \A i, j \in Waiting(t) : i = j
    /\ \A r \in Runs : Holds(r, t) => Waiting(t) = {}
    /\ \A r \in Runs : On(r, t) => Sound(pc[r], run[r])
    /\ Waiting(t) # {} \/ (\E r \in Runs : Holds(r, t) /\ AtPolicy(r)) => SavedFits(t)
    /\ Waiting(t) # {} \/ (\E r \in Runs : Holds(r, t)) =>
          \A r \in Runs : On(r, t) /\ pc[r] = "supervisor" /\ run[r].last = "policy_agent"
              => Settled(g(r))

\* A thread nobody has used.
New(t) == saved[t] = Unused /\ Filed(t) = {} /\ \A r \in Runs : ~On(r, t)

Tidy(t) == (inputs[t] = 0 => New(t)) /\ (inputs[t] <= 1 => Once(t))

AllTidy == \A t \in Threads : Tidy(t)

-----------------------------------------------------------------------------
(***************************************************************************)
(* What one step can reach: its run and the thread of it.                  *)
(***************************************************************************)

\* A thread that a step leaves alone.
Apart(u) ==
    /\ saved'[u] = saved[u] /\ inputs'[u] = inputs[u]
    /\ Filed(u)' = Filed(u) /\ Waiting(u)' = Waiting(u)
    /\ \A x \in Runs : On(x, u) \/ On(x, u)' => Rests(x)

LEMMA ApartKeeps ==
  ASSUME NEW u, Tidy(u), Apart(u)
  PROVE  Tidy(u)'
  <1>1. ASSUME NEW x \in Runs
        PROVE  /\ On(x, u)' <=> On(x, u)
               /\ On(x, u) => pc'[x] = pc[x] /\ run'[x] = run[x]
               /\ Holds(x, u)' <=> Holds(x, u)
    BY <1>1 DEF Apart, On, Holds, Past, Rests
  <1>2. New(u) => New(u)'
    BY <1>1 DEF New, Apart
  <1>3. SavedFits(u)' <=> SavedFits(u)
    BY DEF SavedFits, Apart, Backed, Open, Settled, DecisionFits
  <1>4. Once(u) => Once(u)'
    <2> SUFFICES ASSUME Once(u) PROVE Once(u)'
      OBVIOUS
    <2>1. \A r, x \in Runs : Holds(r, u)' /\ Holds(x, u)' => r = x
      BY <1>1 DEF Once
    <2>2. \A i, j \in Waiting(u)' : i = j
      BY DEF Once, Apart
    <2>3. \A r \in Runs : Holds(r, u)' => Waiting(u)' = {}
      BY <1>1 DEF Once, Apart
    <2>4. \A r \in Runs : On(r, u)' => Sound(pc[r], run[r])'
      BY <1>1 DEF Once, Sound, Backed, Open, Past, DecisionFits
    <2>5. Waiting(u)' # {} \/ (\E r \in Runs : Holds(r, u)' /\ AtPolicy(r)') => SavedFits(u)'
      BY <1>1, <1>3 DEF Once, Apart, AtPolicy, Holds
    <2>6. Waiting(u)' # {} \/ (\E r \in Runs : Holds(r, u)') =>
             \A r \in Runs :
                On(r, u)' /\ pc'[r] = "supervisor" /\ run'[r].last = "policy_agent"
                   => Settled(g(r))'
      BY <1>1 DEF Once, Apart, Settled, DecisionFits, g
    <2> QED
      BY <2>1, <2>2, <2>3, <2>4, <2>5, <2>6 DEF Once
  <1> QED
    BY <1>2, <1>4 DEF Tidy, Apart

\* The step of one run on one thread leaves the other threads alone.
LEMMA OthersApart ==
  ASSUME NEW r \in Runs, NEW t, \A x \in Runs : x # r => Rests(x),
         NEW u, u # t, pc[r] # "idle" => run[r].thread = t,
         pc'[r] # "idle" => run'[r].thread = t,
         saved'[u] = saved[u], inputs'[u] = inputs[u],
         Filed(u)' = Filed(u), Waiting(u)' = Waiting(u)
  PROVE  Apart(u)
  <1>1. ~On(r, u) /\ ~On(r, u)'
    BY DEF On
  <1> QED
    BY <1>1 DEF Apart

LEMMA SameQueue ==
  ASSUME queue' = queue, deciding' = deciding, NEW u
  PROVE  Filed(u)' = Filed(u) /\ Waiting(u)' = Waiting(u)
  BY DEF Filed, Waiting

LEMMA QueueAppended ==
  ASSUME queue \in Seq(Items), NEW item \in Items, queue' = Append(queue, item),
         deciding' = deciding, NEW u
  PROVE  /\ item.thread # u => Filed(u)' = Filed(u) /\ Waiting(u)' = Waiting(u)
         /\ Waiting(u)' \subseteq Waiting(u) \cup {Len(queue) + 1}
  <1>1. /\ Len(queue) \in Nat /\ Len(queue') = Len(queue) + 1
        /\ queue'[Len(queue) + 1] = item
        /\ \A i \in 1..Len(queue) : queue'[i] = queue[i]
        /\ 1..Len(queue') = 1..Len(queue) \cup {Len(queue) + 1}
    OBVIOUS
  <1>2. item.thread # u => Filed(u)' = Filed(u)
    BY <1>1 DEF Filed
  <1>3. item.thread # u => Waiting(u)' = Waiting(u)
    BY <1>1 DEF Filed, Waiting
  <1>4. Waiting(u)' \subseteq Waiting(u) \cup {Len(queue) + 1}
    BY <1>1 DEF Filed, Waiting
  <1> QED
    BY <1>2, <1>3, <1>4

LEMMA QueueDecided ==
  ASSUME IInv, NEW i \in 1..Len(queue), NEW d \in {"approved", "rejected"},
         Decide(i, d), NEW u
  PROVE  Filed(u)' = Filed(u) /\ Waiting(u)' \subseteq Waiting(u)
  <1>1. queue \in Seq(Items) /\ queue[i] \in Items
    BY DEF IInv, Types
  <1>2. /\ DecideItem(i, d) /\ queue[i].status = "pending" /\ Len(queue') = Len(queue)
        /\ \A j \in 1..Len(queue) : queue'[j].thread = queue[j].thread
    BY DecideItemIs DEF Decide, DecideItem
  <1>3. \A j \in 1..Len(queue) : j # i => queue'[j] = queue[j]
    BY <1>1, <1>2 DEF DecideItem, Items
  <1>4. Filed(u)' = Filed(u)
    BY <1>2 DEF Filed
  <1>5. Waiting(u)' \subseteq Waiting(u)
    BY <1>2, <1>3, <1>4 DEF Decide, Waiting, Filed
  <1> QED
    BY <1>4, <1>5

\* A request that ends, or comes to the thread of its item, which it had.
LEMMA QueueSettled ==
  ASSUME NEW i \in 1..Len(queue), i \in deciding, deciding' = deciding \ {i},
         queue' = queue, NEW u
  PROVE  /\ i \in Waiting(queue[i].thread)
         /\ Filed(u)' = Filed(u) /\ Waiting(u)' \subseteq Waiting(u)
         /\ queue[i].thread # u => Waiting(u)' = Waiting(u)
  BY DEF Waiting, Filed

-----------------------------------------------------------------------------
(***************************************************************************)
(* The token is handed on.                                                 *)
(***************************************************************************)

LEMMA OneTidy ==
  ASSUME AllTidy, NEW t \in Threads, Tidy(t)', \A u \in Threads : u # t => Apart(u)
  PROVE  AllTidy'
  BY ApartKeeps DEF AllTidy

\* A step of a run on its thread, which has been sent an input.
LEMMA StepOfRun ==
  ASSUME IInv, AllTidy, NEW r \in Runs, NEW t \in Threads, On(r, t),
         \A x \in Runs : x # r => Rests(x), inputs' = inputs,
         pc'[r] # "idle" => run'[r].thread = t,
         \A u \in Threads : u # t => /\ saved'[u] = saved[u] /\ Filed(u)' = Filed(u)
                                    /\ Waiting(u)' = Waiting(u),
         Once(t) => Once(t)'
  PROVE  AllTidy'
  <1>1. Tidy(t)'
    <2>1. inputs[t] # 0
      BY DEF AllTidy, Tidy, New
    <2> QED
      BY <2>1 DEF AllTidy, Tidy
  <1>2. ASSUME NEW u \in Threads, u # t PROVE Apart(u)
    BY <1>2, OthersApart DEF On
  <1> QED
    BY <1>1, <1>2, OneTidy

\* The others on the thread, seen after the step.
LEMMA Others ==
  ASSUME NEW r \in Runs, \A x \in Runs : x # r => Rests(x), NEW x \in Runs, x # r, NEW t
  PROVE  /\ On(x, t)' <=> On(x, t)
         /\ Holds(x, t)' <=> Holds(x, t)
         /\ pc'[x] = pc[x] /\ run'[x] = run[x]
  BY DEF Rests, On, Holds, Past

Turn(t) == Waiting(t) # {} \/ \E r \in Runs : Holds(r, t)

LEMMA HolderMoves ==
  ASSUME NEW r \in Runs, NEW t, Once(t), Holds(r, t), \A x \in Runs : x # r => Rests(x),
         NEW node, NEW new, pc'[r] = node, run'[r] = new, node \notin {"idle", "audit"},
         new.thread = t, saved'[t] = [at |-> node, state |-> new.state],
         Waiting(t)' = Waiting(t), Sound(node, new)
  PROVE  Once(t)'
  <1>1. Waiting(t)' = {}
    BY DEF Once
  <1>2. \A x \in Runs : x # r => ~Holds(x, t)'
    BY Others DEF Once
  <1>3. \A x \in Runs : On(x, t)' => Sound(pc[x], run[x])'
    <2>1. Sound(pc[r], run[r])'
      BY DEF Sound, Backed, Open, Past, DecisionFits
    <2>2. ASSUME NEW x \in Runs, x # r, On(x, t)' PROVE Sound(pc[x], run[x])'
      BY <2>2, Others DEF Once, Sound, Backed, Open, Past, DecisionFits
    <2> QED
      BY <2>1, <2>2
  <1>4. Holds(r, t)' /\ AtPolicy(r)' => SavedFits(t)'
    BY DEF Sound, Holds, Past, AtPolicy, SavedFits, Backed, Open
  <1>5. ASSUME NEW x \in Runs, Holds(r, t)', On(x, t)', pc'[x] = "supervisor",
               run'[x].last = "policy_agent"
        PROVE  Settled(g(x))'
    <2>1. x # r
      BY <1>5 DEF Holds, Past
    <2>2. Settled(g(x))
      BY <1>5, <2>1, Others DEF Once
    <2> QED
      BY <1>5, <2>1, <2>2, Others DEF Settled, DecisionFits, g
  <1> QED
    BY <1>1, <1>2, <1>3, <1>4, <1>5 DEF Once

LEMMA PastMoves ==
  ASSUME NEW r \in Runs, NEW t, Once(t), On(r, t), ~Holds(r, t),
         \A x \in Runs : x # r => Rests(x),
         NEW node, NEW new, pc'[r] = node, run'[r] = new, node # "idle", Past(node, new),
         new.thread = t, saved'[t] = [at |-> node, state |-> new.state],
         Waiting(t)' = Waiting(t), Sound(node, new), Turn(t) => Settled(new.state)
  PROVE  Once(t)'
  <1>1. ~Holds(r, t)'
    BY DEF Holds, Past
  <1>2. ASSUME NEW x \in Runs
        PROVE  /\ Holds(x, t)' <=> Holds(x, t)
               /\ Holds(x, t) => pc'[x] = pc[x]
    <2>1. CASE x = r
      BY <1>1, <2>1
    <2>2. CASE x # r
      BY <2>2, Others
    <2> QED
      BY <2>1, <2>2
  <1>3. \A x \in Runs : On(x, t)' => Sound(pc[x], run[x])'
    <2>1. Sound(pc[r], run[r])'
      BY DEF Sound, Backed, Open, Past, DecisionFits
    <2>2. ASSUME NEW x \in Runs, x # r, On(x, t)' PROVE Sound(pc[x], run[x])'
      BY <2>2, Others DEF Once, Sound, Backed, Open, Past, DecisionFits
    <2> QED
      BY <2>1, <2>2
  <1>4. Turn(t) => SavedFits(t)'
    BY DEF Sound, SavedFits, Settled, Backed, Open, DecisionFits
  <1>5. ASSUME NEW x \in Runs, Turn(t), On(x, t)', pc'[x] = "supervisor",
               run'[x].last = "policy_agent"
        PROVE  Settled(g(x))'
    <2>1. CASE x = r
      BY <1>5, <2>1 DEF Settled, DecisionFits, g
    <2>2. CASE x # r
      <3>1. Settled(g(x))
        BY <1>5, <2>2, Others DEF Once, Turn
      <3> QED
        BY <2>2, <3>1, Others DEF Settled, DecisionFits, g
    <2> QED
      BY <2>1, <2>2
  <1>6. Turn(t)' => Turn(t)
    BY <1>2 DEF Turn
  <1>7. /\ \A y, x \in Runs : Holds(y, t)' /\ Holds(x, t)' => y = x
        /\ \A i, j \in Waiting(t)' : i = j
        /\ \A x \in Runs : Holds(x, t)' => Waiting(t)' = {}
    BY <1>2 DEF Once
  <1>8. Waiting(t)' # {} \/ (\E x \in Runs : Holds(x, t)' /\ AtPolicy(x)') => SavedFits(t)'
    BY <1>4, <1>6 DEF Turn
  <1>9. Waiting(t)' # {} \/ (\E x \in Runs : Holds(x, t)') =>
           \A x \in Runs :
              On(x, t)' /\ pc'[x] = "supervisor" /\ run'[x].last = "policy_agent"
                 => Settled(g(x))'
    BY <1>5, <1>6 DEF Turn
  <1> QED
    BY <1>3, <1>7, <1>8, <1>9 DEF Once

\* A run that leaves the thread, or queues its proposal: an item may come to
\* wait in its place.
LEMMA HolderStops ==
  ASSUME NEW r \in Runs, NEW t, Once(t), On(r, t), \A x \in Runs : x # r => Rests(x),
         saved'[t] = saved[t], ~Holds(r, t)', ~(pc'[r] = "supervisor" /\ On(r, t)'),
         On(r, t)' => Sound(pc'[r], run'[r]),
         \/ Waiting(t)' = Waiting(t)
         \/ /\ Holds(r, t) /\ AtPolicy(r)
            /\ \E k : Waiting(t)' \subseteq Waiting(t) \cup {k}
  PROVE  Once(t)'
  <1>1. \A x \in Runs : x # r => (Holds(x, t)' <=> Holds(x, t)) /\ pc'[x] = pc[x]
    BY Others
  <1>2. \A x \in Runs : On(x, t)' => Sound(pc[x], run[x])'
    <2>1. On(r, t)' => Sound(pc[r], run[r])'
      BY DEF Sound, Backed, Open, Past, DecisionFits
    <2>2. ASSUME NEW x \in Runs, x # r, On(x, t)' PROVE Sound(pc[x], run[x])'
      BY <2>2, Others DEF Once, Sound, Backed, Open, Past, DecisionFits
    <2> QED
      BY <2>1, <2>2
  <1>3. SavedFits(t) => SavedFits(t)'
    BY DEF SavedFits, Backed, Open, Settled, DecisionFits
  <1>4. ASSUME NEW x \in Runs, Turn(t), On(x, t)', pc'[x] = "supervisor",
               run'[x].last = "policy_agent"
        PROVE  Settled(g(x))'
    <2>1. x # r
      BY <1>4
    <2>2. Settled(g(x))
      BY <1>4, <2>1, Others DEF Once, Turn
    <2> QED
      BY <2>1, <2>2, Others DEF Settled, DecisionFits, g
  <1>5. CASE Waiting(t)' = Waiting(t)
    <2>1. Turn(t)' => Turn(t)
      BY <1>1, <1>5 DEF Turn
    <2>2. /\ \A y, x \in Runs : Holds(y, t)' /\ Holds(x, t)' => y = x
          /\ \A i, j \in Waiting(t)' : i = j
          /\ \A x \in Runs : Holds(x, t)' => Waiting(t)' = {}
      BY <1>1, <1>5 DEF Once
    <2>3. Waiting(t)' # {} \/ (\E x \in Runs : Holds(x, t)' /\ AtPolicy(x)') => SavedFits(t)'
      BY <1>1, <1>3, <1>5 DEF Once, AtPolicy
    <2>4. Waiting(t)' # {} \/ (\E x \in Runs : Holds(x, t)') =>
             \A x \in Runs :
                On(x, t)' /\ pc'[x] = "supervisor" /\ run'[x].last = "policy_agent"
                   => Settled(g(x))'
      BY <1>4, <2>1 DEF Turn
    <2> QED
      BY <1>2, <2>2, <2>3, <2>4 DEF Once
  <1>6. ASSUME Holds(r, t), AtPolicy(r), NEW k, Waiting(t)' \subseteq Waiting(t) \cup {k}
        PROVE  Once(t)'
    <2>1. Waiting(t)' \subseteq {k}
      BY <1>6 DEF Once
    <2>2. \A x \in Runs : ~Holds(x, t)'
      BY <1>1, <1>6 DEF Once
    <2>3. SavedFits(t)' /\ Turn(t)
      BY <1>3, <1>6 DEF Once, Turn
    <2> QED
      BY <1>2, <1>4, <2>1, <2>2, <2>3 DEF Once
  <1> QED
    BY <1>5, <1>6

-----------------------------------------------------------------------------
(***************************************************************************)
(* Step by step.                                                           *)
(***************************************************************************)

\* What Once says of a run, on its own thread.
LEMMA RunSound ==
  ASSUME NEW r \in Runs, pc[r] # "idle", NEW t, t = run[r].thread, Once(t)
  PROVE  On(r, t) /\ Sound(pc[r], run[r])
  BY DEF On, Once

LEMMA MoveTidy ==
  ASSUME IInv, AllTidy, NEW r \in Runs, pc[r] # "idle", NEW t, t = run[r].thread,
         NEW s, NEW node \in Nodes \cup {"END"}, NEW new, After(r, s, node, new),
         queue' = queue,
         Once(t) => /\ Sound(node, new)
                    /\ Holds(r, t) \/ (Past(node, new) /\ (Turn(t) => Settled(s)))
  PROVE  AllTidy'
  <1>1. t \in Threads /\ On(r, t)
    BY RunType DEF On
  <1>2. pc'[r] = node /\ run'[r] = new /\ \A x \in Runs : x # r => Rests(x)
    BY AfterRests
  <1>3. node \notin {"idle", "audit"} /\ new.thread = t /\ new.state = s
        /\ inputs' = inputs /\ deciding' = deciding
    BY DEF After, Nodes, Specialists
  <1>4. /\ saved'[t] = [at |-> node, state |-> s]
        /\ \A u \in Threads : u # t => saved'[u] = saved[u]
    BY <1>1 DEF After, IInv, Types
  <1>5. Once(t) => Once(t)'
    BY <1>1, <1>2, <1>3, <1>4, SameQueue, HolderMoves, PastMoves
  <1> QED
    BY <1>1, <1>2, <1>3, <1>4, <1>5, SameQueue, StepOfRun

LEMMA SupervisorTidy ==
  ASSUME Obedient, IInv, AllTidy, NEW r \in Runs, Supervisor(r)
  PROVE  AllTidy'
  <1>1. pc[r] = "supervisor" /\ queue' = queue
    BY SupervisorIs
  <1>2. PICK next \in Route(r), s \in GraphState : \E new :
           /\ next \in Specialists \cup {"END"}
           /\ s = [g(r) EXCEPT !.next_agent = next]
           /\ After(r, s, next, new)
           /\ new.proposed = run[r].proposed /\ new.last = run[r].last
    BY SupervisorIs
  <1>3. PICK new :
           /\ After(r, s, next, new)
           /\ new.proposed = run[r].proposed /\ new.last = run[r].last
    BY <1>2
  <1>4. new.state = s /\ next \in Nodes \cup {"END"}
    BY <1>2, <1>3 DEF After, Nodes
  <1>5. /\ s.procurement_proposal = g(r).procurement_proposal
        /\ s.policy_decision = g(r).policy_decision
    BY <1>1, <1>2, RunType DEF GraphState
  <1>6. (Backed(s) <=> Backed(g(r))) /\ (Open(s) <=> Open(g(r)))
    BY <1>5 DEF Backed, Open
  <1>7. (DecisionFits(s) <=> DecisionFits(g(r))) /\ (Settled(s) <=> Settled(g(r)))
    BY <1>5 DEF Settled, DecisionFits
  <1>8. next \in Prompted(r)
    BY <1>2 DEF Route
  <1>9. PICK t : t = run[r].thread
    OBVIOUS
  <1>10. ASSUME Once(t)
         PROVE  /\ Sound(next, new)
                /\ Holds(r, t) \/ (Past(next, new) /\ (Turn(t) => Settled(s)))
    <2>1. On(r, t) /\ Sound("supervisor", run[r])
      BY <1>1, <1>9, <1>10, RunSound
    <2>2. Backed(g(r)) /\ next # "interrupt" /\ next # "supervisor"
      BY <1>2, <2>1 DEF Sound, g, Specialists
    <2>3. CASE run[r].last = "policy_agent"
      <3>1. next = "END"
        BY <1>8, <2>3, SuccessorIs DEF Prompted
      <3>2. DecisionFits(g(r))
        BY <2>1, <2>3 DEF Sound, g
      <3>3. Turn(t) => Settled(g(r))
        BY <1>1, <1>10, <2>1, <2>3 DEF Once, Turn
      <3> QED
        BY <1>4, <1>6, <1>7, <2>2, <3>1, <3>2, <3>3 DEF Sound, Past
    <2>4. CASE run[r].last # "policy_agent"
      <3>1. Holds(r, t) /\ Open(g(r))
        BY <1>1, <2>1, <2>4 DEF Holds, Past, Sound, g
      <3>2. DecisionFits(g(r)) \/ next = "policy_agent"
        <4>1. CASE run[r].last = "procurement_agent" /\ run[r].proposed = "order"
          <5>1. g(r).policy_decision \notin {"auto_approved", "denied"}
            BY <3>1, WorkflowAssumption DEF Open, Outcomes
          <5> QED
            BY <1>8, <4>1, <5>1, SuccessorIs DEF Prompted
        <4> QED
          BY <2>1, <4>1 DEF Sound, g
      <3> QED
        BY <1>4, <1>6, <1>7, <2>2, <3>1, <3>2 DEF Sound
    <2> QED
      BY <2>3, <2>4
  <1> QED
    BY <1>1, <1>3, <1>4, <1>9, <1>10, MoveTidy

\* A node that returns to the supervisor.
LEMMA ReturnTidy ==
  ASSUME IInv, AllTidy, NEW r \in Runs, pc[r] # "idle", NEW s \in GraphState,
         NEW proposed \in {"none", "order", "no_reorder"}, Return(r, s, proposed),
         queue' = queue, NEW t, t = run[r].thread,
         \A new : /\ Once(t) /\ new.state = s /\ Returned(r, new, proposed)
                  => /\ Sound("supervisor", new)
                     /\ \/ Holds(r, t)
                        \/ Past("supervisor", new) /\ (Turn(t) => Settled(s))
  PROVE  AllTidy'
  <1>1. PICK new : After(r, s, "supervisor", new) /\ Returned(r, new, proposed)
    BY ReturnIs
  <1>2. new.state = s /\ "supervisor" \in Nodes \cup {"END"}
    BY <1>1 DEF After, Nodes
  <1> QED
    BY <1>1, <1>2, MoveTidy

LEMMA SpecialistTidy ==
  ASSUME IInv, AllTidy, NEW r \in Runs,
         \/ InventoryAgent(r) \/ ForecastAgent(r) \/ KnowledgeAgent(r)
         \/ AnalyticsAgent(r) \/ NothingToEvaluate(r)
  PROVE  AllTidy'
  <1>1. pc[r] \in Specialists /\ queue' = queue
    BY SpecialistIs
  <1>2. PICK s \in GraphState :
           /\ Return(r, s, run[r].proposed)
           /\ s.procurement_proposal = g(r).procurement_proposal
           /\ s.policy_decision = g(r).policy_decision
    BY SpecialistIs
  <1>3. pc[r] # "idle" /\ pc[r] \notin {"supervisor", "audit", "interrupt", "END"}
    BY <1>1 DEF Specialists
  <1>4. pc[r] = "policy_agent" => g(r).procurement_proposal = NoProposal
    BY DEF InventoryAgent, ForecastAgent, KnowledgeAgent, AnalyticsAgent,
           NothingToEvaluate, Node
  <1>5. run[r].proposed \in {"none", "order", "no_reorder"}
    BY <1>3, RunType DEF Run
  <1>6. PICK t : t = run[r].thread
    OBVIOUS
  <1>7. ASSUME NEW new, Once(t), new.state = s, Returned(r, new, run[r].proposed)
        PROVE  Sound("supervisor", new) /\ Holds(r, t)
    <2>1. On(r, t) /\ Sound(pc[r], run[r])
      BY <1>3, <1>6, <1>7, RunSound
    <2>2. Holds(r, t)
      BY <1>3, <2>1 DEF Holds, Past
    <2>3. Backed(s) /\ Open(s)
      BY <1>2, <2>1, <2>2 DEF Sound, Holds, Backed, Open, g
    <2>4. DecisionFits(s)
      BY <1>2, <1>3, <1>4, <2>1, <2>3 DEF Sound, Backed, DecisionFits, g
    <2> QED
      BY <1>7, <2>2, <2>3, <2>4 DEF Sound
  <1> QED
    BY <1>1, <1>2, <1>3, <1>5, <1>6, <1>7, ReturnTidy

LEMMA ProcurementTidy ==
  ASSUME IInv, AllTidy, NEW r \in Runs, ProcurementAgent(r)
  PROVE  AllTidy'
  <1>1. pc[r] = "procurement_agent" /\ queue' = queue
    BY ProcurementIs
  <1>2. PICK s \in GraphState, proposed \in {"order", "no_reorder"} :
           /\ Return(r, s, proposed)
           /\ s.policy_decision = g(r).policy_decision
           /\ \/ proposed = "order" /\ s.procurement_proposal # NoProposal
              \/ /\ proposed = "no_reorder"
                 /\ s.procurement_proposal = g(r).procurement_proposal
    BY ProcurementIs
  <1>3. PICK t : t = run[r].thread
    OBVIOUS
  <1>4. ASSUME NEW new, Once(t), new.state = s, Returned(r, new, proposed)
        PROVE  Sound("supervisor", new) /\ Holds(r, t)
    <2>1. On(r, t) /\ Sound("procurement_agent", run[r])
      BY <1>1, <1>3, <1>4, RunSound
    <2>2. Holds(r, t)
      BY <1>1, <2>1 DEF Holds, Past
    <2>3. Backed(s) /\ Open(s)
      BY <1>2, <2>1 DEF Sound, Past, Backed, Open, g
    <2>4. new.last = "procurement_agent" /\ new.proposed = proposed
      BY <1>1, <1>4 DEF Returned, Specialists
    <2>5. DecisionFits(s) \/ proposed = "order"
      BY <1>2, <2>1 DEF Sound, DecisionFits, g
    <2> QED
      BY <1>4, <2>2, <2>3, <2>4, <2>5 DEF Sound
  <1> QED
    BY <1>1, <1>2, <1>3, <1>4, ReturnTidy

LEMMA PolicyTidy ==
  ASSUME IInv, AllTidy, NEW r \in Runs, Deny(r) \/ Approve(r) \/ AfterInterrupt(r)
  PROVE  AllTidy'
  <1>1. InPolicy(r) /\ queue' = queue
    BY PolicyReturns
  <1>2. PICK s \in GraphState :
           /\ Return(r, s, run[r].proposed)
           /\ s.procurement_proposal = g(r).procurement_proposal
           /\ s.policy_decision = IF pc[r] = "interrupt" THEN "needs_human"
                                  ELSE run[r].outcome
    BY PolicyReturns
  <1>3. pc[r] \in {"audit", "interrupt"} /\ pc[r] # "idle" /\ pc[r] \notin Specialists
    BY <1>1 DEF InPolicy, Specialists
  <1>4. run[r].proposed \in {"none", "order", "no_reorder"}
    BY <1>3, RunType DEF Run
  <1>5. Weighed(g(r), run[r].outcome)
    BY <1>1 DEF IInv, Running
  <1>6. PICK t : t = run[r].thread
    OBVIOUS
  <1>7. ASSUME NEW new, Once(t), new.state = s, Returned(r, new, run[r].proposed)
        PROVE  /\ Sound("supervisor", new)
               /\ Holds(r, t) \/ (Past("supervisor", new) /\ (Turn(t) => Settled(s)))
    <2>1. On(r, t) /\ Sound(pc[r], run[r])
      BY <1>3, <1>6, <1>7, RunSound
    <2>2. s.policy_decision = run[r].outcome
      BY <1>2, <2>1 DEF Sound
    <2>3. Backed(s) /\ DecisionFits(s)
      BY <1>2, <1>5, <2>2 DEF Backed, DecisionFits, Weighed
    <2>4. Past("supervisor", new)
      BY <1>3, <1>7 DEF Returned, Past
    <2>5. Holds(r, t) \/ Settled(s)
      BY <1>2, <1>3, <2>1, <2>3 DEF Holds, Past, Settled
    <2> QED
      BY <1>7, <2>3, <2>4, <2>5 DEF Sound
  <1> QED
    BY <1>1, <1>2, <1>3, <1>4, <1>6, <1>7, ReturnTidy

\* The rules decide: the run keeps the token, the thread its checkpoint.
LEMMA PolicyAgentTidy ==
  ASSUME IInv, AllTidy, NEW r \in Runs, PolicyAgent(r)
  PROVE  AllTidy'
  <1>1. PICK outcome \in Outcomes :
           /\ pc[r] = "policy_agent" /\ UNCHANGED <<saved, queue, inputs, deciding>>
           /\ pc' = [pc EXCEPT ![r] = "audit"]
           /\ run' = [run EXCEPT ![r].outcome = outcome]
    BY DEF PolicyAgent, Node
  <1> DEFINE new == [run[r] EXCEPT !.outcome = outcome]
  <1>2. run[r] \in Run /\ run[r].thread \in Threads
    BY <1>1, RunType
  <1>3. run' = [run EXCEPT ![r] = new]
    BY <1>1, <1>2 DEF IInv, Types
  <1>4. new.state = run[r].state /\ new.thread = run[r].thread /\ new.last = run[r].last
    BY <1>2 DEF Run
  <1> HIDE DEF new
  <1>5. pc'[r] = "audit" /\ run'[r] = new /\ \A x \in Runs : x # r => Rests(x)
    BY <1>1, <1>3 DEF IInv, Types, Rests
  <1>6. PICK t \in Threads : t = run[r].thread
    BY <1>2
  <1>7. ASSUME Once(t) PROVE Once(t)'
    <2>1. On(r, t) /\ Sound("policy_agent", run[r])
      BY <1>1, <1>6, <1>7, RunSound
    <2>2. Holds(r, t) /\ AtPolicy(r)
      BY <1>1, <2>1 DEF Holds, Past, AtPolicy
    <2>3. Waiting(t)' = {} /\ SavedFits(t)
      BY <1>1, <1>7, <2>2, SameQueue DEF Once
    <2>4. SavedFits(t)'
      BY <1>1, <2>3 DEF SavedFits, Backed, Open, Settled, DecisionFits
    <2>5. \A x \in Runs : x # r => ~Holds(x, t)'
      BY <1>5, <1>7, <2>2, Others DEF Once
    <2>6. \A x \in Runs : On(x, t)' => Sound(pc[x], run[x])'
      <3>1. Sound(pc[r], run[r])'
        BY <1>4, <1>5, <2>1 DEF Sound, Past, Backed, Open, DecisionFits
      <3>2. ASSUME NEW x \in Runs, x # r, On(x, t)' PROVE Sound(pc[x], run[x])'
        BY <1>5, <1>7, <3>2, Others DEF Once, Sound, Backed, Open, Past, DecisionFits
      <3> QED
        BY <3>1, <3>2
    <2>7. ASSUME NEW x \in Runs, On(x, t)', pc'[x] = "supervisor",
                 run'[x].last = "policy_agent"
          PROVE  Settled(g(x))'
      <3>1. x # r
        BY <1>5, <2>7
      <3>2. Settled(g(x))
        BY <1>5, <1>7, <2>2, <2>7, <3>1, Others DEF Once
      <3> QED
        BY <1>5, <3>1, <3>2, Others DEF Settled, DecisionFits, g
    <2> QED
      BY <2>3, <2>4, <2>5, <2>6, <2>7 DEF Once
  <1> QED
    BY <1>1, <1>4, <1>5, <1>6, <1>7, SameQueue, StepOfRun DEF On

\* The item is queued: the token is with it, and the run is past it.
LEMMA EnqueueTidy ==
  ASSUME IInv, AllTidy, NEW r \in Runs, Enqueue(r)
  PROVE  AllTidy'
  <1>1. /\ pc[r] = "audit" /\ run[r].outcome = "needs_human"
        /\ queue' = Append(queue, Item(r)) /\ pc' = [pc EXCEPT ![r] = "interrupt"]
        /\ UNCHANGED <<saved, run, inputs, deciding>>
    BY DEF Enqueue, Decided
  <1>2. queue \in Seq(Items) /\ Item(r) \in Items
    BY <1>1, ItemType DEF InPolicy, IInv, Types
  <1>3. PICK t \in Threads : t = run[r].thread
    BY <1>1, RunType
  <1>4. Item(r).thread = t
    BY <1>3 DEF Item
  <1>5. pc'[r] = "interrupt" /\ run'[r] = run[r] /\ \A x \in Runs : x # r => Rests(x)
    BY <1>1 DEF IInv, Types, Rests
  <1>6. \A u \in Threads : u # t => Filed(u)' = Filed(u) /\ Waiting(u)' = Waiting(u)
    BY <1>1, <1>2, <1>4, QueueAppended
  <1>7. ASSUME Once(t) PROVE Once(t)'
    <2>1. On(r, t) /\ Sound("audit", run[r])
      BY <1>1, <1>3, <1>7, RunSound
    <2>2. Holds(r, t) /\ AtPolicy(r)
      BY <1>1, <2>1 DEF Holds, Past, AtPolicy
    <2>3. ~Holds(r, t)' /\ Sound(pc'[r], run'[r])
      BY <1>1, <1>5, <2>1 DEF Holds, Past, Sound
    <2>4. \E k : Waiting(t)' \subseteq Waiting(t) \cup {k}
      BY <1>1, <1>2, QueueAppended
    <2> QED
      BY <1>1, <1>5, <1>7, <2>1, <2>2, <2>3, <2>4, HolderStops
  <1> QED
    BY <1>1, <1>3, <1>5, <1>6, <1>7, StepOfRun DEF On

\* A run ends, and may have queued its item.
LEMMA EndTidy ==
  ASSUME IInv, AllTidy, NEW r \in Runs,
         Interrupt(r) \/ Finish(r) \/ NodeRaises(r) \/ Cancel(r) \/ RecursionLimit(r)
  PROVE  AllTidy'
  <1>1. pc[r] # "idle" /\ Forget(r) /\ UNCHANGED <<saved, inputs, deciding>> /\ MaybeQueued(r)
    BY DEF Interrupt, Finish, NodeRaises, Cancel, RecursionLimit, Answer, Fail, InNode,
           MaybeQueued
  <1>2. PICK t \in Threads : t = run[r].thread
    BY <1>1, RunType
  <1>3. pc'[r] = "idle" /\ \A x \in Runs : x # r => Rests(x)
    BY <1>1 DEF Forget, IInv, Types, Rests
  <1>4. On(r, t) /\ ~On(r, t)' /\ ~Holds(r, t)'
    BY <1>1, <1>2, <1>3 DEF On, Holds
  <1>5. CASE queue' = queue
    <2>1. Once(t) => Once(t)'
      BY <1>1, <1>3, <1>4, <1>5, SameQueue, HolderStops
    <2> QED
      BY <1>1, <1>3, <1>4, <1>5, <2>1, SameQueue, StepOfRun
  <1>6. CASE pc[r] = "audit" /\ queue' = Append(queue, Item(r))
    <2>1. queue \in Seq(Items) /\ Item(r) \in Items
      BY <1>6, ItemType DEF InPolicy, IInv, Types
    <2>2. Item(r).thread = t
      BY <1>2 DEF Item
    <2>3. Holds(r, t) /\ AtPolicy(r)
      BY <1>4, <1>6 DEF Holds, Past, AtPolicy
    <2>4. \E k : Waiting(t)' \subseteq Waiting(t) \cup {k}
      BY <1>1, <1>6, <2>1, QueueAppended
    <2>5. Once(t) => Once(t)'
      BY <1>1, <1>3, <1>4, <2>3, <2>4, HolderStops
    <2>6. \A u \in Threads : u # t => Filed(u)' = Filed(u) /\ Waiting(u)' = Waiting(u)
      BY <1>1, <1>6, <2>1, <2>2, QueueAppended
    <2> QED
      BY <1>1, <1>3, <1>4, <2>5, <2>6, StepOfRun
  <1> QED
    BY <1>1, <1>5, <1>6 DEF MaybeQueued

\* The first input finds the thread unused and brings the token; with a second
\* one nothing is claimed any more.
LEMMA BeginTidy ==
  ASSUME IInv, AllTidy, NEW r \in Runs, NEW t \in Threads, NEW kind \in Kinds,
         NEW m \in Materials \cup {NoMaterial}, Begin(r, t, kind, m)
  PROVE  AllTidy'
  <1>1. PICK s \in GraphState, new \in Run : Begun(r, t, kind, m, s, new)
    BY BeginIs
  <1>2. /\ pc[r] = "idle" /\ pc'[r] = "supervisor" /\ run'[r] = new
        /\ queue' = queue /\ deciding' = deciding
        /\ \A x \in Runs : x # r => Rests(x)
    BY <1>1 DEF Begun, IInv, Types, Rests
  <1>3. /\ inputs[t] \in Nat /\ inputs'[t] = inputs[t] + 1
        /\ \A u \in Threads : u # t => saved'[u] = saved[u] /\ inputs'[u] = inputs[u]
    BY <1>1 DEF Begun, IInv, Types
  <1>4. new.thread = t /\ new.state = s /\ new.last = "none"
    BY <1>1 DEF Begun
  <1>5. ASSUME inputs[t] = 0 PROVE Once(t)'
    <2>1. New(t)
      BY <1>5 DEF AllTidy, Tidy
    <2>2. s.policy_decision = NoOutcome
      <3>1. s = [Fresh EXCEPT !.said = m, !.next_agent = "supervisor",
                              !.approval_required = FALSE]
        BY <1>1, <2>1 DEF Begun, New, Unused
      <3> QED
        BY <3>1 DEF Fresh
    <2>3. Waiting(t)' = {}
      BY <1>2, <2>1, SameQueue DEF New, Waiting
    <2>4. \A x \in Runs : x # r => ~On(x, t)'
      BY <1>2, <2>1, Others DEF New
    <2>5. Sound("supervisor", new)
      BY <1>4, <2>2 DEF Sound, Backed, Open, DecisionFits
    <2>6. Sound(pc[r], run[r])'
      BY <1>2, <2>5 DEF Sound, Past, Backed, Open, DecisionFits
    <2>7. ~AtPolicy(r)' /\ run'[r].last # "policy_agent"
      BY <1>2, <1>4 DEF AtPolicy
    <2> QED
      BY <2>3, <2>4, <2>6, <2>7 DEF Once, Holds
  <1>6. Tidy(t)'
    BY <1>3, <1>5 DEF Tidy
  <1>7. ASSUME NEW u \in Threads, u # t PROVE Apart(u)
    BY <1>2, <1>3, <1>4, <1>7, SameQueue, OthersApart
  <1> QED
    BY <1>6, <1>7, OneTidy

\* A decision leaves the token with its item, or with nobody when it resumes
\* nothing.  So does a request that ends before it has resumed.
LEMMA DecideTidy ==
  ASSUME IInv, AllTidy, NEW i \in 1..Len(queue),
         DecideEnds(i) \/ \E d \in {"approved", "rejected"} : Decide(i, d)
  PROVE  AllTidy'
  <1>1. UNCHANGED <<saved, pc, run, inputs>>
    BY DEF Decide, DecideEnds
  <1>2. ASSUME NEW t \in Threads
        PROVE  Filed(t)' = Filed(t) /\ Waiting(t)' \subseteq Waiting(t)
    BY QueueDecided, QueueSettled DEF DecideEnds
  <1>3. ASSUME NEW t \in Threads, Once(t) PROVE Once(t)'
    <2>1. ASSUME NEW x \in Runs
          PROVE  (Holds(x, t)' <=> Holds(x, t)) /\ (On(x, t)' <=> On(x, t))
      BY <1>1 DEF Holds, On, Past
    <2>2. SavedFits(t) => SavedFits(t)'
      BY <1>1 DEF SavedFits, Backed, Open, Settled, DecisionFits
    <2>3. \A x \in Runs : On(x, t)' => Sound(pc[x], run[x])'
      BY <1>1, <1>3, <2>1 DEF Once, Sound, Backed, Open, Past, DecisionFits
    <2>4. Waiting(t)' # {} \/ (\E x \in Runs : Holds(x, t)') =>
             \A x \in Runs :
                On(x, t)' /\ pc'[x] = "supervisor" /\ run'[x].last = "policy_agent"
                   => Settled(g(x))'
      BY <1>1, <1>2, <1>3, <2>1 DEF Once, Settled, DecisionFits, g
    <2>5. Waiting(t)' # {} \/ (\E x \in Runs : Holds(x, t)' /\ AtPolicy(x)') => SavedFits(t)'
      BY <1>1, <1>2, <1>3, <2>1, <2>2 DEF Once, AtPolicy
    <2>6. /\ \A y, x \in Runs : Holds(y, t)' /\ Holds(x, t)' => y = x
          /\ \A j, k \in Waiting(t)' : j = k
          /\ \A x \in Runs : Holds(x, t)' => Waiting(t)' = {}
      BY <1>2, <1>3, <2>1 DEF Once
    <2> QED
      BY <2>3, <2>4, <2>5, <2>6 DEF Once
  <1>4. ASSUME NEW t \in Threads, New(t) PROVE New(t)'
    BY <1>1, <1>2, <1>4 DEF New, On
  <1> QED
    BY <1>1, <1>3, <1>4 DEF AllTidy, Tidy

\* The token goes from the item to the run that its decision resumes.
LEMMA ResumeTidy ==
  ASSUME IInv, InQueue, AllTidy, NEW r \in Runs, NEW i \in 1..Len(queue), Resume(r, i)
  PROVE  AllTidy'
  <1>1. PICK t \in Threads : t = queue[i].thread
    BY ResumeIs
  <1>2. PICK new \in Run : Resumed(r, t, new)
    BY <1>1, ResumeIs
  <1>3. /\ pc[r] = "idle" /\ pc'[r] = saved[t].at /\ run'[r] = new
        /\ saved' = saved /\ inputs' = inputs /\ \A x \in Runs : x # r => Rests(x)
    BY <1>2 DEF Resumed, IInv, Types, Rests
  <1>4. /\ new.thread = t /\ new.state = saved[t].state /\ new.last = "none"
        /\ saved[t].at \in Nodes
    BY <1>2 DEF Resumed
  <1>5. saved[t].at \notin {"idle", "audit", "interrupt", "END"}
    BY <1>4 DEF Nodes, Specialists
  <1>6. /\ i \in Waiting(t) /\ i \in Filed(t) /\ Waiting(t)' \subseteq Waiting(t) \ {i}
        /\ \A u \in Threads : u # t => Filed(u)' = Filed(u) /\ Waiting(u)' = Waiting(u)
    <2>1. i \in deciding /\ deciding' = deciding \ {i} /\ queue' = queue
      BY DEF Resume
    <2>2. i \in Waiting(t) /\ Waiting(t)' \subseteq Waiting(t)
      BY <1>1, <2>1, QueueSettled
    <2>3. i \notin Waiting(t)'
      BY <2>1 DEF Waiting, InQueue
    <2> QED
      BY <1>1, <2>1, <2>2, <2>3, QueueSettled DEF Waiting
  <1>7. ASSUME Once(t) PROVE Once(t)'
    <2>1. Waiting(t)' = {}
      BY <1>6, <1>7 DEF Once
    <2>2. SavedFits(t)
      BY <1>6, <1>7 DEF Once
    <2>3. SavedFits(t)'
      BY <1>3, <2>2 DEF SavedFits, Backed, Open, Settled, DecisionFits
    <2>4. \A x \in Runs : x # r => ~Holds(x, t)'
      BY <1>3, <1>6, <1>7, Others DEF Once
    <2>5. \A x \in Runs : On(x, t)' => Sound(pc[x], run[x])'
      <3>1. Sound(pc'[r], run'[r])
        BY <1>3, <1>4, <1>5, <2>2 DEF SavedFits, Settled, Sound
      <3>2. Sound(pc[r], run[r])'
        BY <3>1 DEF Sound, Past, Backed, Open, DecisionFits
      <3>3. ASSUME NEW x \in Runs, x # r, On(x, t)' PROVE Sound(pc[x], run[x])'
        BY <1>3, <1>7, <3>3, Others DEF Once, Sound, Backed, Open, Past, DecisionFits
      <3> QED
        BY <3>2, <3>3
    <2>6. ASSUME NEW x \in Runs, On(x, t)', pc'[x] = "supervisor",
                 run'[x].last = "policy_agent"
          PROVE  Settled(g(x))'
      <3>1. x # r
        BY <1>3, <1>4, <2>6
      <3>2. Settled(g(x))
        BY <1>3, <1>6, <1>7, <2>6, <3>1, Others DEF Once
      <3> QED
        BY <1>3, <3>1, <3>2, Others DEF Settled, DecisionFits, g
    <2> QED
      BY <2>1, <2>3, <2>4, <2>5, <2>6 DEF Once
  <1>8. Tidy(t)'
    <2>1. inputs[t] # 0
      BY <1>6 DEF AllTidy, Tidy, New
    <2> QED
      BY <1>3, <1>7, <2>1 DEF AllTidy, Tidy
  <1>9. ASSUME NEW u \in Threads, u # t PROVE Apart(u)
    BY <1>3, <1>4, <1>6, <1>9, OthersApart
  <1> QED
    BY <1>8, <1>9, OneTidy

LEMMA TidyKept ==
  ASSUME Obedient, IInv, InQueue, AllTidy, [Next]_vars
  PROVE  AllTidy'
  <1>1. CASE UNCHANGED vars
    <2>1. \A u \in Threads : Apart(u)
      BY <1>1 DEF vars, Apart, Filed, Waiting, Rests
    <2> QED
      BY <2>1, ApartKeeps DEF AllTidy
  <1>2. ASSUME NEW r \in Runs, Step(r) \/ NodeRaises(r) \/ Cancel(r) \/ RecursionLimit(r)
        PROVE  AllTidy'
    BY <1>2, SupervisorTidy, SpecialistTidy, ProcurementTidy, PolicyTidy, PolicyAgentTidy,
       EnqueueTidy, EndTidy DEF Step
  <1>3. ASSUME NEW r \in Runs, NEW t \in Threads,
               \/ Invoke(r, t)
               \/ \E kind \in Chats, m \in Materials \cup {NoMaterial} : Chat(r, t, kind, m)
        PROVE  AllTidy'
    BY <1>3, BeginTidy DEF Invoke, Chat, Chats, Kinds
  <1>4. ASSUME NEW i \in 1..Len(queue),
               \/ \E d \in {"approved", "rejected"} : Decide(i, d)
               \/ \E r \in Runs : Resume(r, i)
               \/ DecideEnds(i)
        PROVE  AllTidy'
    BY <1>4, DecideTidy, ResumeTidy
  <1> QED
    BY <1>1, <1>2, <1>3, <1>4 DEF Next

THEOREM TidyInvariance == ASSUME Obedient PROVE Spec => [](IInv /\ AllTidy)
  <1>1. Init => AllTidy
    BY DEF Init, AllTidy, Tidy, New, Once, Filed, Waiting, On, Holds
  <1>2. IInv /\ InQueue /\ AllTidy /\ [Next]_vars => AllTidy'
    BY TidyKept
  <1>3. IInv /\ [Next]_vars => IInv'
    BY NextInv
  <1>4. IInv /\ InQueue /\ [Next]_vars => InQueue'
    BY InQueueKept
  <1>5. Init => InQueue
    BY DEF Init, InQueue
  <1> QED
    BY <1>1, <1>2, <1>3, <1>4, <1>5, InitInv, PTL DEF Spec

\* A thread that was sent one input never has two items waiting for a human.
THEOREM OneReviewCorrect == ASSUME Obedient PROVE Spec => []OneReviewAtATime
  <1>1. IInv /\ AllTidy => OneReviewAtATime
    <2> SUFFICES ASSUME IInv, AllTidy, NEW i \in 1..Len(queue), NEW j \in 1..Len(queue),
                        queue[i].status = "pending", queue[j].status = "pending",
                        queue[i].thread = queue[j].thread, inputs[queue[i].thread] <= 1
                 PROVE  i = j
      BY DEF OneReviewAtATime
    <2>1. queue[i].thread \in Threads
      <3>1. queue[i] \in Items
        BY DEF IInv, Types
      <3> QED
        BY <3>1 DEF Items
    <2>2. i \in Waiting(queue[i].thread) /\ j \in Waiting(queue[i].thread)
      BY DEF Waiting, Filed
    <2> QED
      BY <2>1, <2>2 DEF AllTidy, Tidy, Once
  <1> QED
    BY <1>1, TidyInvariance, PTL

\* Every run on such a thread, the first or a resumed one, ends with a decision
\* the rules give to the proposal it ends with.
THEOREM OneInputCorrect == ASSUME Obedient PROVE Spec => []OneInputDecisionFits
  <1>1. IInv /\ AllTidy => OneInputDecisionFits
    <2> SUFFICES ASSUME IInv, AllTidy, NEW r \in Runs, pc[r] = "END",
                        inputs[run[r].thread] <= 1
                 PROVE  DecisionFits(g(r))
      BY DEF OneInputDecisionFits
    <2>1. run[r].thread \in Threads
      BY RunType
    <2> QED
      BY <2>1 DEF AllTidy, Tidy, Once, On, Sound, g
  <1> QED
    BY <1>1, TidyInvariance, PTL

=============================================================================
