# Verification of the supply-chain agent

This directory holds TLA+ models of the supply-chain agent under `src/`: model
checking with TLC on small instances, and proofs checked by TLAPS for every
value of the constants. Each module was translated from the code; paths below
are relative to `src/`.

## 1. The system and its parts

The program is a FastAPI service (`app/main.py`), deployed as two replicas
(`deploy/k8s/`), around a LangGraph graph: a supervisor, which is a language
model that names the next node, and six specialists. Conversations ("threads"),
the approval queue and the KPI rows live in Cosmos DB; stock and orders come
from SAP over HTTP (`sap_mock/`); policies and contracts come from Azure AI
Search; approvals are also written to Loki as an audit stream. Everything in a
process is one asyncio event loop, so what interleaves is the code between two
`await`s.

```
 POST /chat ----+                       +--> SAP (stock, orders, demand)
 POST /invoke --+--> agent graph -------+--> AI Search --> rule extraction --> evaluator
 (CronJob)      |    (nodes, GraphState)+--> kpis container <-- GET /dashboards
                |        ^   |
                |        |   +--> checkpoints container (or process memory)
 POST /approvals/{id}/decide +--> approval-queue container --> GET /approvals
                                  Loki audit stream
```

| Component | State it keeps | Operations | What is hard, and what must be right |
|---|---|---|---|
| Policy evaluator (`app/policy/evaluator.py`, `schema.py`) | none | `evaluate_rules` | Two loops over rules in the order a model listed them; a forbidden vendor must be denied wherever its rule stands, and boundary amounts belong to one tier. |
| Approval queue (`app/api/routes/approvals.py`, `app/agents/policy.py`, `observability/loki.py`) | items, paused threads, audit records, a gauge | raise, list, decide, resume | Decide is read, write without ETag, audit, resume, each awaited: overlapping requests, failures between any two steps, retries. |
| Agent graph (`app/agents/graph.py`, `supervisor.py`, `state.py`, the specialists) | `GraphState` of a thread | one node per step | State of earlier runs stays on a thread; a language model routes; nodes raise; a resumed node runs again from its first line. |
| Routes (`chat.py`, `invoke.py`) | request counters, gauge | start a run, answer | Counters must add up however a run ends: a cancelled request is no `Exception`. |
| Checkpointer (`app/memory/checkpointer.py`, `get_graph`) | checkpoints by thread | `aput`, `aget_tuple` | The newest stamp wins and stamps are local clocks; restarts; overlapping runs; which route compiled the graph. |
| Policy extraction (`app/policy/extraction.py`) | an LRU cache in each process | `extract_rules` | A cached answer must belong to the text retrieved; invalid rules are dropped; an answer that is no list is cached and then raises. |
| Policy retrieval and rotation (`app/tools/rag_tools.py`, `ops/upload_policies.py`, `ops/reindex_policies.py`) | search indexes, settings | upload, clone, retrieve | Uploads that stop half way or overlap, document by document; versions that are not yet in force, processes with old settings. |
| KPI store (`app/agents/analytics.py`, `app/tools/kpi_tools.py`, `dashboards.py`, the CronJob) | two KPI rows | refresh, read | A refresh is many requests while SAP changes; the second row is written after further calls; retries overlap; a model must send the run to the agent that refreshes. |
| SAP tools and mock | stock, orders | read | Environment of the above. |
| Metrics (`observability/metrics.py`) | counters, gauges | | Those that are counted around calls that may fail. |
| Authentication (`middleware/auth.py`) | a cached key set in each process | check a token | Several requests fetch the set at once while the tenant rotates its keys; the set is read again after an await. |
| Tracing, PII filter (`middleware/tracing.py`, `observability/spans.py`, `otel.py`, `pii.py`) | open spans of a request, a queue for the exporter | open, close, redact, export | Exceptions and pauses pass through spans inside each other, unless they are handled where they were raised; a span must be redacted before it is queued; a full queue must not stop a request. |
| Configuration and clients; seeding, reports, dashboard scripts | settings of a process | | |

The components meet in these places. A policy check (extraction, retrieval,
evaluator) runs inside a node of the graph. That node raises an item in the
queue and pauses the thread, and the decide route resumes it. Every run loads
from and saves to the checkpointer. Around all of it stand the middleware and, for
chats, the token check.

## 2. Modules

Written, in the order of the plan:

| Module | Models | State ~ code |
|---|---|---|
| `PolicyRules` | proposals, rules, decisions, and what one rule says of one proposal (`schema.py`, `evaluator.py`). No variables; the declared decision `IsDecisionOf` is the reference the loops are compared with. | |
| `PolicyEvaluator` | `evaluate_rules`, an action per branch of its loops. | `loop`, `i` are the loop and its position, `decision` the return value. |
| `ApprovalLedger` | the abstract promise of the queue (ADR-004): raised once, decided once, for good. | |
| `ApprovalQueue` | the queue and its requests, an action per `await`. | `queue` the container, `pc`/`call` each request with the *copy* of the item it read, `waiting` what each thread's checkpoint is paused on, `audit` Loki, `depth` the gauge. |
| `AgentWorkflow` | the graph, the routes that run it, the queue as far as runs see it. Uses `PolicyRules` for decisions. | `saved` the newest checkpoint, `run` the state a run has in memory, `reply` the answer of a chat, `metrics` the counters, `deciding` the items whose decision is stored and whose thread its request has not reached yet; `cancelled` and `inputs` are history. |
| `ThreadMemory` | the abstract promise of the checkpointer: one memory a thread, which every save replaces and every load returns. | |
| `CheckpointStore` | where checkpoints go, which one is loaded. | `cosmos`, `memory`, `saver` (the checkpointer `get_graph` compiled with), `offset` the clocks; `done`, `last`, `disturbed` are history. |
| `PolicyLibrary` | indexes, uploads that merge a document at a time, deployments, retrieval with its filter, extraction and its cache. | `disk`, `index`, `job` (with what it has `left` to merge), `config`, `settings`, `cache`, `check`; `uploaded`, `recent` and a job's `intact` are history. |
| `KpiStore` | the KPI refresh from the supervisor's first turn to its last, the CronJob and SAP changing. | `row` the container, `pc`/`run` the locals of each refresh, `cron` the job. |
| `SigningKeys` | `validate_token` and the key set a process keeps, an action per `await`. | `cache` is `_jwks_cache`, `stage` where a request is, `answer` what the tenant has told it, `verdict` the outcome; `ever`, `always` are history. |
| `HttpService` | a request on its way: the middleware, the token check (it extends `SigningKeys`), the spans of the body, the errors handled in them, the refusals of the routes, the processors and the exporter. | `stack` the open spans, `exc` the exception on its way up, `ending` the span in the processors, `exportable` the queue of the `BatchSpanProcessor`; `hit` is history. |
| `MC...` | instances for TLC; `...Proofs` hold the theorems. | |

`ApprovalQueue` has the decide handler await by await. `AgentWorkflow` keeps of it
what runs see: the decision (`Decide`) and, after any number of other steps, the
resume (`Resume`) or its end without one (`DecideEnds`); it takes the read and
the upsert together, which is right as long as no two requests hold copies of one
pending item (`OnlyTheRaceBreaksTheLedger`, section 6). `AgentWorkflow` keeps one checkpoint a thread and
`CheckpointStore`, which implements `ThreadMemory`, says when that is right;
`AgentWorkflow` takes any of a set of rule lists and `PolicyLibrary` says which
text they come from. `HttpService` runs the steps of `SigningKeys` inside a
request and is proved to implement it; the body of a route is only spans and
exceptions there, and `AgentWorkflow` has what it does.

The definitions named `X_Y` preceded by "Defect:" are not part of the system.
Each is `X` with a plausible bug, and the property named with it in
`PROJECT.json` is violated when it takes the place of `X`.

## 3. How the code becomes actions

- *Granularity.* In `ApprovalQueue`, `CheckpointStore`, `PolicyLibrary` and
  `KpiStore` a step ends at an await of another service. In `AgentWorkflow` a
  step is a node, because a node's update is applied and saved at once when it
  returns; `policy_node` has three, split where the decision has been counted
  and where `interrupt()` stands; the decide route has two, the decision and the
  resume, so that a chat, a cancellation or the paused run itself comes between. In `HttpService` the end of a span takes two
  steps, since the exporter is a thread, and no other request moves between them.
- *Failure.* A request can end at any await (`Fail`, `NodeRaises`,
  `CheckRaises`, `JobRaises`, `FetchFails`) or be cancelled (`Cancel`,
  `Abandon`); a write that raised may have been made, and a document the service
  did not take is reported with the others (`Reject`). `push_approval_audit`
  swallows its failures and so does its action. In `HttpService` an error the
  code around the call expects is raised (`Raise(r, "expected")`) and handled
  inside the same span (`Handle`): `read_kpi` and the checkpointer when Cosmos has no record,
  the audit push, a rule that does not validate. The routes turn what is missing
  or decided already into 404 and 409 outside every span of the body
  (`Refusals`); FastAPI answers 422 for a body it cannot parse, before the token
  check, or does not take, after it. The model does not record whether the body
  ran, so it has these answers also after spans. A process can restart in `CheckpointStore`, `PolicyLibrary`
  and `HttpService`; in the others a lost process is a request that ends.
- *Language models.* Every answer is a choice: any specialist or any other
  word (which the code turns into the end) for the router, any of a set of
  answers for extraction, one of them no list at all (`NOT_A_LIST`). `Obedient`
  restricts the router to what `ROUTER_SYSTEM` tells it to do. In `KpiStore` its
  rule 4 sends a refresh to the analytics agent (`Route`) and ends the run after
  it; up to `MaxFaults` answers do otherwise (`Stray`: the run ends with 200 and
  nothing refreshed, or the agent is sent for again).
- *External.* LangGraph: a new input starts at the supervisor,
  `Command(resume=...)` runs the node the checkpoint names from its first line,
  a node that raises or interrupts saves nothing, and a run of too many steps
  raises. The Azure services: reads and writes of one item are atomic, and a
  batch of documents is merged in any order, one by one. The search: every policy
  matches a word of the keyword query, and `top_k=5` cuts none off (the
  assumption `Cardinality(Policies) <= 5`; `policies/` has three); what is left
  of retrieval is the filter on `doc_type` and date and any order of the scores.
  curl has no `--max-time` and the job no `activeDeadlineSeconds`: a lost
  connection is noticed, at some time, by curl's keep-alive probes (`Notice`). The tenant
  publishes a set of keys, never an empty one. OpenTelemetry: processors run in
  the order they were added, and a full queue drops its oldest span.
- *Data.* Amounts are whole dollars; inventory and forecast results are the
  quantity procurement reads; a text is a document and a version; the health
  KPI, a percentage of the tracked materials, is the number of low ones. A tie
  of `round` may go either way (`ReorderQty` is a set). One urgency stands for all,
  since no rule reads it (`UrgencyIdle` in `PolicyEvaluatorProofs`). Texts of rationales, narratives and messages are left out.
- *Ids* are fresh: the approval id is eight hexadecimal digits of a uuid and is
  assumed not to repeat.
- `HasThreadId` says whether a queue item carries its thread. `policy_node`
  writes items without one (`app/agents/policy.py:71-82`): FALSE. The decide
  route and `docs/runbooks/approval-queue-stuck.md` expect one: TRUE. Proofs
  cover both.

## 4. Runs

| Run | Question and instance | Properties |
|---|---|---|
| `PolicyEvaluator` | All lists of up to three rules from 18 kinds in every order, amounts 4,999, 5,000, 25,000, 25,001, two vendors, and the fallback rules. Three rules let a skipped rule, a deciding one and a forbidding one stand in any order. | `DecisionCorrect` (the loops agree with the declared decision), `ForbiddenVendorDenied`, `FallbackFollowsTiers` (POL-PROC-001) |
| `ApprovalApart` | Two requests that overlap but hold no copies of the same pending item, three items, two threads, two faults, one message to a paused thread. | `LedgerSpec` (refinement), `AuditMatchesRecord` |
| `ApprovalRace` | Two overlapping requests, a fault, a message to a paused thread; items carry their thread. | `AuditedIsDecided`, `ReleasedByDecision`, liveness `DecisionReleases` |
| `ApprovalDecidedTwice` | *Violated*: two requests read the item pending, both decide it. | `DecidedOnce` |
| `ApprovalNoThread` | *Violated*: items without a thread release nobody, however often an operator tries. | `DecisionReleases` |
| `WorkflowAnyRouter` | One thread, two runs one after the other, any router, 4 nodes a run (as many as lead to a queue item), failures, cancelled requests and resumes. | `ChatsCounted`, `RecordsAreItems`, `PauseIsQueued` |
| `WorkflowObedient` | Two runs that overlap on one thread in every way, or follow each other, a router that follows its prompt, stock and demand that lead to no order, to a denial and, by stricter rules, to a human (an approval is in `WorkflowAnyRouter`, and the proofs cover all). | `AnswersTheQuestion`, `FirstDecisionFits`, `ReviewsOwnProposal`, `OneInputDecisionFits`, `OneReviewAtATime`, action property `RunsAdvance`, liveness `RunEnds` |
| `WorkflowOldDecision` | *Violated*: a second question on a thread ends with the first one's decision. | `DecisionFitsProposal` |
| `CheckpointStore` | Two pods or one development process, two runs on a thread, clocks one apart, six ticks: two runs of two saves with a pause between them. | `ResumableAnywhere`, `NothingForgotten`, `MemorySpec` (refinement) |
| `PolicyLibrary` | Three documents, of which two are policies and one a procedure that is uploaded with them and that no check retrieves; the first policy is there from the start; two versions, two days, two indexes, two uploads that may overlap document by document, a cache of two texts (a third evicts the one used longest ago, as the 257th does in the code). | `RulesFromRetrieved`, `SameTextSameRules`, `NothingBeforeItsDay`, `UploadTakesEffect` |
| `KpiStore` | Two materials, two refreshes at once, two changes of SAP, a chat that refreshes, a fault: a call that fails, a connection that is lost, or an answer of the router against its rule. | `HealthPlausible`, `RefreshComplete`, liveness `DashboardCatchesUp` |
| `HttpService` | Two requests at once, two keys of which one is published at first, a rotation, valid and invalid tokens, three spans inside each other, errors that are handled and errors that are not, refusals, a queue of two spans, restarts. | `AcceptedWasPublished`, `LastingKeyKnown`, `NothingRaw`, `FailureTold`, `NeverWaits` |

Three runs with three items, too large for a run of the project (3.7 million
states), satisfied all invariants of `WorkflowObedient` as well, and the inductive
invariant of `OneReviewProofs`.

Each module's type invariant is checked in one of its runs, those of
`AgentWorkflow` and `ApprovalQueue` in `WorkflowAnyRouter` and `ApprovalApart`.
Symmetry is used only in runs without liveness. Deadlock is checked except where
the system may stop: the evaluator returns, and the number of workflow runs is
bounded.

*Bounds.* `MaxFaults`, `MaxMessages`, `MaxChanges`, `MaxAsks`, `MaxRuns`,
`MaxItems`, `MaxHops`, `MaxTime`, `MaxVersion`, `MaxDay`, `MaxRotations`,
`MaxDepth` cap what the environment does, in guards, and nothing else. They are chosen so that the
cases a property is about happen: a fault at every step, a second run on a used
thread, two texts for one document, a retry that overlaps what it retries, a rotation
between two fetches of the keys, a queue that is full while a span ends, an
upload that overtakes another between two documents. For the theorems of section 6 all bounds are arbitrary.

*Fairness.* Weak fairness on the steps of a request or run that is in flight:
one event loop runs them and nothing in it waits for another request. Faults
are finitely many by their bound. `RetrySpec` adds strong fairness on posting a
decision, the operator who tries again. `KpiStore` adds weak fairness on the
CronJob's posts, its schedule and `restartPolicy: OnFailure`, and on its learning
of a lost connection; that the router keeps to rule 4 but for finitely many answers
is an assumption on a language model, which nothing in the code enforces. No fairness is
assumed of users, of SAP or of failures; `RunEnds` needs no step limit. `NeverWaits` is a
safety property and needs no fairness: it says that each open request can move
whatever the exporter has done.

## 5. What the runs show beside the properties that hold

Three disagreements between the code and what its documents, tests or comments
say are runs of their own:

- **An item is decided twice.** `decide_approval` reads an item, checks that it
  is pending and upserts without an ETag; of two overlapping requests the later
  write wins and both are answered 200 (`approvals.py:95-109`).
- **A decision releases nobody.** `policy_node` writes its item without
  `thread_id`, so `decide_approval` finds no thread to resume.
- **The decision of an earlier run ends the next one.** Every field the input
  does not name is the one the thread was left with; the router is shown the
  old `policy_decision` and ends before the new proposal is evaluated.

The models contain the following too; no run is spent on them:

- On a used thread the material of the earlier run wins over the one the message
  names (`inventory.py:25`), and a proposal that was made earlier stays when
  nothing is to be ordered (`procurement.py:45`), so policy may review it again.
  `AnswersTheQuestion`, `FirstDecisionFits` and `ReviewsOwnProposal` are
  therefore stated of the first run on a thread, and `OneInputDecisionFits` of
  all runs on a thread that was sent one input. Whatever other runs do to the
  thread meanwhile does not disturb it, since a run works on the state it has in
  memory.
- A resumed run executes `policy_node` from its first line and writes a second
  item before `interrupt()` returns (`policy.py:164`): an item in the queue may
  be awaited by nobody. On a thread of one input there is one such item at a time
  (`OneReviewAtATime`), wherever a chat, a cancellation or a lost request falls between a decision and
  its resume, as long as each item is decided once, as `AgentWorkflow` has it: two
  decisions on one item, which `ApprovalDecidedTwice` shows to be
  possible, would resume the thread twice.
- A request that is lost after its upsert cannot be repeated: the retry is
  answered 409 (`approvals.py:95`), so the thread stays paused, against step 2
  of `docs/runbooks/approval-queue-stuck.md`. `DecisionReleases` excludes lost
  requests for this reason.
- A chat that pauses is answered with `approval_required` false and counts as
  completed, because `ainvoke` returns the state before the interrupted node
  (`chat.py:65`, `chat.py:83`).
- The end that a denial asks for is written to `next_agent`, which the
  supervisor overwrites (`policy.py:196`, `supervisor.py:72`); only the router
  ends the run.
- Rules are taken one by one, so an ambiguous rule after an approving one is
  never looked at (`evaluator.py:59`, against `docs/adr/ADR-002`).
- The queue gauge is set when somebody lists the queue and is old otherwise
  (`approvals.py:54`).
- Identical text may give different rules in two processes, and after a restart
  or an eviction; `SameTextSameRules` holds within a process and the capacity
  of its cache (`extraction.py:44`).
- An answer whose `rules` are null or a number is returned by
  `_cached_extraction`, hence cached (`extraction.py:54-57`), and the loop over it raises
  `TypeError` (`extraction.py:74`). Every check of that text in that process then
  raises until other texts evict the answer; no model is asked again. It
  takes a place in the cache like any other. `SameTextSameRules` counts "it
  raised" (`RAISED`) as what the text gave.
- A later version of a policy replaces the current one in an index, also when
  it is not yet in force. Until it is, neither decides, and with no other text
  the fallback rules do. A withdrawn document stays in its index.
- Two uploads to one index mix, document by document, and both may exit with 0.
  `UploadTakesEffect` therefore speaks of an upload that exited with 0, whose documents
  no other job overwrote while it ran, and after which none has written to the
  index. It speaks of policies: the scripts upload `SOP-PROC-001` with them, which the
  filter of `policy.py:111` keeps from every check.
- Retrieval reads `azure_search_index_policy`. The rotation procedure sets
  `policy_index`, which nothing reads (`config.py:21,25`,
  `ops/reindex_policies.py:191`); `PolicyLibrary` deploys the one that is read,
  so no property is about a rotation that sets the wrong one.
- A refresh whose router names no agent ends with 200 and nothing refreshed
  (`supervisor.py:69-72`): the CronJob takes that for success and does not try again, and
  the KPIs stay old until its next post. `DashboardCatchesUp` holds because such
  answers are finitely many, by assumption.
- The CronJob's curl has no limit of time (`deploy/k8s/cronjob.yaml:17-28`). If the
  keep-alive probes of its connection did not tell it of a loss, it would wait on, and
  `concurrencyPolicy: Forbid` would hold back every later refresh: the defect
  `AfterLoss_Unnoticed` shows it.
- In development the first route that asks decides which checkpointer the
  process uses (`graph.py:57-60`), so chat may keep its threads in Cosmos or a
  decision may be resumed from memory.

- A key that the tenant adds after the set was cached is unknown to the process
  until it restarts (`auth.py:15`); the approval and KPI routes check no token.
  Of two requests that fetch the set at once the later *store* wins, which may
  be the older answer. `AcceptedWasPublished` therefore speaks of keys published
  at some time, also since retired, and `LastingKeyKnown` of those published all
  the time.
- A cancelled chat counts neither as completed nor as failed (`chat.py:66`); the
  gauge and the durations stay right. `workflow_requests_total` has the statuses
  `started`, `completed` and `failed`: the `interrupted` of its description
  (`metrics.py:61`) is never counted, and the success rate of
  `create_dashboards.py:460` divides by all of them, `started` included.
- A record may be in the queue and not be counted, when the write or the run was
  lost after it; never the other way round (`RecordsAreItems`).
- Every pause for a human ends the agent's span as an error: `interrupt()` raises
  an exception, which `agent_span` catches and raises again (`spans.py:32`).
- A request that raises is timed by nobody: `http_request_duration_seconds` is
  recorded after `call_next` returned (`tracing.py:34-56`), so it has no status
  500 from an unhandled exception, although `README.md:177` names the status as its
  label. `FailureTold` holds of the span and the answer.
- `FailureTold` is about errors that no code around the call expects. Those that are handled
  where they were raised leave no trace in the span or the answer: a KPI that is not there is
  404, and an audit record Loki did not take is lost by design (`loki.py:7-8,130-132`).
- `llm_span` is opened nowhere, although `README.md:202` lists its `llm.call`.

## 6. What is proved

`PolicyEvaluatorProofs`. For all proposals and all rule lists of any length,
from `SentinelAssumption` and `InputAssumption`:

- `LoopInvariant`: the inductive invariant. It says what the positions already
  passed exclude: before `i` no rule forbids (first loop), no rule forbids and
  all are skipped (second loop), and once `loop = "done"` the decision is the
  declared one. `DecisionCorrect` alone is not inductive, since it says nothing
  before the function returns.
- `TypeCorrect`, `EvaluatorCorrect`, `ForbiddenNeverApproved`, `FallbackCorrect`
  follow; the last by cases on the amount and the vendor.
- `UrgencyIdle`: proposals that differ in their urgency only have the same decisions.
- `DecisionDetermined`: every proposal and every list of rules has exactly one
  decision, so what `EvaluatorCorrect` compares the loops with is a function, and
  the evaluation is deterministic, as `README.md:146` says. It needs the first
  rule that applies to exist and be unique (well-founded induction on positions).

`ApprovalQueueProofs`. For any finite set of ids, any threads, any number of
overlapping requests, with or without `HasThreadId`, from `ConstantAssumption`:

- `Invariance`: a request past its read holds a copy of an item that exists and
  whose thread is the copy's; past its upsert the item is decided; no step
  removes an item, moves it to another thread or takes its decision back.
  `AuditedIsDecided` is not inductive without the second fact, nor is
  `ReleasedByDecision` provable without both.
- `TypeCorrect`, `AuditCorrect`, `ReleaseCorrect` follow for any overlap.
- `DecisionTaken`: unless a call failed, a thread that still waits for a decided
  item is in the hands of a request on its way to resume it. This is the safety
  half of `DecisionReleases`, whose other half is that the request goes on. It
  needs `PausedInv`: the item a thread waits for exists and is the thread's own.
- `NoThreadNoRelease`: with items that carry no thread (`HasThreadId` FALSE, what
  `policy_node` writes) only a message of its user ever takes a thread out of its
  pause. It is what the run `ApprovalNoThread` shows on one instance.
- `ApartInvariance` is about `ApartSpec`, in which requests overlap freely and
  never hold copies of the same pending item (`Apart`). Then the item a request is
  about to write is still pending, and the one it has written holds its decision.
  `ApartAuditCorrect` and `ApartImplementsLedger` (the refinement of
  `ApprovalLedger`, step by step) follow.
- `OnlyTheRaceBreaksTheLedger`: `Spec /\ []Apart => LedgerSpec`. So whatever a
  request that fails, times out or repeats may do, only the one race the run
  `ApprovalDecidedTwice` shows can break the ledger: an ETag, which restores
  `Apart`, is enough. `OneAtATime` says that deciding one request at a time is, too.

`CheckpointStoreProofs`. For any threads, pods, runs, skew and time, from
`StoreAssumption`:

- `Invariance`: every stamp is within the skew of the thread's last save; on an
  undisturbed thread at most one run is active, and what it saves next will be
  stamped later than all that is stored; a process that has compiled no graph
  runs nothing; what a load returns contains all that was saved. The stamps are
  needed because the newest *stamp* is loaded, not the last write.
- `TypeCorrect`, `ResumeCorrect`, `NothingLost` follow.
- `StoreImplementsMemory`: the store, with its stamps, clocks, containers and
  process memories, implements `ThreadMemory`, one memory for each thread: a save
  replaces what the thread remembers, a load returns it, until something disturbs
  the thread. Each action is shown to be a step or a stutter of it; `NothingElse`
  (a load on an undisturbed thread returns the last save and nothing beside it) is
  the fact the two invariants do not say, as they bound from below only.

"Undisturbed" is part of the statement: runs on the thread do not overlap and
follow each other by more than the clocks differ. Without it both properties
fail, as two runs that save in turn hide each other's results.

`KpiStoreProofs`. For any list of distinct tracked materials, any number of
refreshes in flight, failures and changes of SAP, from `KpiAssumption`:

- `Invariance`: what a refresh has counted lies between the materials already
  read that were low throughout and those that were low at some time, where
  both sets bracket what is low now; a refresh that was never overlapped is
  alone, and each KPI it has stored is the container's. `HealthPlausible`
  speaks only of the step after the write and `RefreshComplete` of the last
  one, so neither is inductive. The materials must be distinct, or one would be
  counted twice.
- `TypeCorrect`, `HealthCorrect`, `RefreshesComplete` follow.
- `CronServed`: a post of the CronJob is out exactly while one refresh owes it an
  answer, and it never waits for two, whatever fails, loses its connection or is routed
  elsewhere. So but for a loss it has not noticed yet, its next try is never blocked by
  a refresh that is gone.
- `DashboardStays`: once the rows show what SAP has and each refresh in flight
  has read nothing else (`InStep`), they go on showing it until SAP changes. That the
  rows are right is not enough: an overlapping refresh that has read old stock
  would write it over them. The two are the safety halves of `DashboardCatchesUp`.

`AgentWorkflowProofs`. For any threads, rule books, stock levels, queue and
bounds and any finite set of overlapping runs, from `WorkflowAssumption`:

- `Invariance`, for any router: the counters stand against the *finite sets* of
  busy chats and of runs that have flagged a decision and not yet queued it;
  each action changes each set by one element or not at all. That the runs are
  finitely many is needed for the cardinalities. `RecordsAreItems` is not
  inductive without the second set. `TypeCorrect`, `ChatsCorrect`,
  `RecordsCorrect` follow.
- `FirstRunInvariance`, for a router that follows its prompt (`Obedient`): the
  last specialist that ran says at which node a first run is and what its state
  can hold: no proposal before procurement, no decision before policy, the
  material that was asked for from the start. `AnswerCorrect`,
  `DecisionCorrect`, `ReviewCorrect` follow. No assumption on overlapping runs
  is made.
- `HopsInvariance`, for such a router: each place on the way of rule 1 has a
  height, a step of a run always leads higher (`NoWayBack`, the action property
  `RunsAdvance`), and the height bounds the turns taken, so no run exceeds five
  turns of the supervisor (`TurnsBounded`). That is the safety half of `RunEnds`:
  the step limit of LangGraph is never what ends a run.
- `PauseCorrect`, for any router: while runs on a thread do not overlap
  (`[]NoOverlap`, part of the statement), the checkpoint of a thread is where
  its run is, so a pause leaves it at `policy_agent` with the proposal that was
  queued. With overlap it fails: another run saves over the paused checkpoint.

`OneReviewProofs`. From the same assumption, for a router that follows its
prompt and a thread that was sent one input and is otherwise only resumed:

- `TidyInvariance`: the work on such a thread is a *token*. One run at most is on
  its way to the policy decision (`Holds`), or one item at most waits for a human
  (`Waiting`), and never both; writing the item hands the token from the run to
  the item, the decision from the item to the request that made it (`deciding`),
  the resume from that request to the run it starts. A request that is lost, or
  finds the thread ended, drops it for good. Runs that have passed it on may still
  be there, saving: so the invariant also says what they may save while the token
  is out (`Settled`), and what the checkpoint must hold for whoever takes it
  (`SavedFits`). A thread without input is untouched, which is where the token
  comes from.
- `OneReviewCorrect`, `OneInputCorrect` follow: neither a failure in the middle of
  the write, nor a cancellation, nor a decision that comes before the run has
  stopped, nor a run that ends between a decision and its resume, makes two items
  wait at once or lets an old decision meet a new proposal.

`PolicyLibraryProofs`. For any finite set of documents, any indexes, processes,
jobs, checks, answers and cache size, from `LibraryAssumption`:

- `Invariance`: while jobs overlap document by document, an index holds what a job has
  merged so far, if none was rejected and no other job overwrote one; so it holds what
  `uploaded` says, until another job writes there. A check in flight has retrieved
  only what was in force, and every policy in force that was promised. The
  cache and the history of its uses *agree*: every recently used text is still
  cached with the same answer, also when that answer is no list and every use of it
  raised, and no further from the recent end than in the history, so it is not
  evicted while the history remembers it. That last conjunct is what makes
  `SameTextSameRules` inductive for every capacity.
- `TypeCorrect`, `RulesCorrect`, `SameRules`, `InForceCorrect`, `UploadCorrect`
  follow.

`HttpServiceProofs`. For any requests, keys, tokens, spans and queue size, from
`KeysAssumption` and `ServiceAssumption`:

- `KeysInvariance` of `SigningKeys` alone: what is cached, or is an answer on
  its way there, holds every key published throughout and none never published.
  The answers in flight are what makes it inductive, since any of them may be
  stored at any time.
- `ServiceImplementsKeys`: every step of `HttpService` is a step of the token
  check or leaves it alone, so `AcceptedCorrect` and `LastingKeyCorrect` carry
  over.
- `Invariance`: an error on its way up is one that was raised and not expected, and
  such an error is always on its way up until the request is answered; a
  refused request carries none; and a span past the first processor is not raw.
  `TypeCorrect`, `RedactionCorrect`, `FailureCorrect` follow.
- `AlwaysAStep`: wherever an open request is, the guards of one of its own steps,
  or of the processors that hold a span, are true. It is `NeverWaits` with the
  guards written out (`StepDue`, `ProcessDue`) for ENABLED, which the prover does
  not know. `Placed` strengthens it: the server span stays outermost, `interrupt()`
  is on its way only inside an agent's span, so there is always a handler for it,
  an expected error is in the body of a route, where `Handle` can take it, and a fetch
  that failed left its exception.

Only model-checked: the liveness properties `DecisionReleases`, `RunEnds` and
`DashboardCatchesUp`, and `NeverWaits`, which is about what is ENABLED. Of each
the part that is safety is proved (`DecisionTaken`; `NoWayBack` and `TurnsBounded`;
`CronServed` and `DashboardStays`; `AlwaysAStep`); that the fair steps are then
taken, and that a step whose guards hold is enabled, the prover does not reach.
The properties of the runs that expect a violation cannot be proved.

## 7. Not modelled

Scripts that run once and keep no state: seeding, the reports and the dashboard
and Grafana generators (`create_dashboards.py`, `populate_dashboards.py`,
`dashboard_live.py`, `grafana_setup.py`, `ops/generate_*.py`); they format what
others computed. The LLM client is a cached object. Within modelled parts:

- `GET /approvals/{id}` changes nothing; what the dashboards show is an operator
  of `KpiStore` and no action.
- The episodic index is never written by this program; `create_pr_mock` is called
  by no agent; `ops/diff_policy_rules.py` changes no state and imports
  `extract_policy_rules`, a function that does not exist.
- Log records take the same two processors in the same order as spans and are
  not modelled a second time. Of the redaction filter `HttpService` models that
  it replaces the attribute; the other names of `REDACT_ATTRS` are set nowhere.
- The values of histograms, labels of counters and token costs.
- What a language model makes of a text, and the claims inside a token.

## 8. What is next

1. A composition of `ApprovalQueue` and `AgentWorkflow` below the decision: the
   read and the upsert of the decide handler as steps of their own in the graph's
   model, so that an item decided twice resumes a real run twice.
2. A composition of `CheckpointStore` and `AgentWorkflow`: runs on one thread in
   two processes whose clocks differ, so that `PauseCorrect` could be stated of
   the newest stamp in place of the last save.
3. The rule diff of `ops/diff_policy_rules.py`, once it runs.
