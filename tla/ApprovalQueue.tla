--------------------------- MODULE ApprovalQueue ---------------------------
(***************************************************************************)
(* The approval queue in Cosmos and the requests that work on it.  The     *)
(* policy agent raises an item and pauses its thread (app/agents/policy.py)*)
(* and POST /approvals/{id}/decide records a decision and resumes the      *)
(* thread (app/api/routes/approvals.py).  The handler awaits between all of*)
(* its steps, so each is an action, and any number of requests run at once *)
(* on the replicas of the API.                                             *)
(***************************************************************************)
EXTENDS Integers, FiniteSets

CONSTANTS
    Ids,            \* approval ids
    Threads,        \* conversation threads
    Reqs,           \* decide requests that can be in flight together
    NoId, NoThread, \* None
    HasThreadId,    \* does an item carry the thread it was raised on
    MaxFaults,      \* bound: requests lost and calls failed
    MaxMessages     \* bound: messages sent to a paused thread

ASSUME ConstantAssumption ==
    /\ IsFiniteSet(Ids)     \* eight hexadecimal digits
    /\ NoId \notin Ids
    /\ NoThread \notin Threads
    /\ HasThreadId \in BOOLEAN
    /\ MaxFaults \in Nat
    /\ MaxMessages \in Nat

VARIABLES
    queue,      \* the approval-queue container: an item for each id
    waiting,    \* the item each thread's saved checkpoint is paused on
    pc,         \* the step each request is at, "idle" when there is none
    call,       \* the request's id, decision and copy of the item
    audit,      \* the approval.decision records in Loki
    depth,      \* the human_review_queue_depth gauge
    faults, messages

vars  == <<queue, waiting, pc, call, audit, depth, faults, messages>>
store == <<queue, waiting, audit, depth>>
bounds == <<faults, messages>>

Decisions == {"approved", "rejected"}
Statuses  == {"absent", "pending"} \cup Decisions
Item  == [status : Statuses, thread : Threads \cup {NoThread}]
Call  == [id : Ids, decision : Decisions, item : Item]
Audit == [id : Ids, decision : Decisions]
Steps == {"idle", "read", "upsert", "audit", "resume", "rerun", "resumed"}

NoCall  == [id |-> NoId]
Absent  == [status |-> "absent", thread |-> NoThread]
Pending == {id \in Ids : queue[id].status = "pending"}

Init ==
    /\ queue = [id \in Ids |-> Absent]
    /\ waiting = [t \in Threads |-> NoId]
    /\ pc = [r \in Reqs |-> "idle"]
    /\ call = [r \in Reqs |-> NoCall]
    /\ audit = {}
    /\ depth = 0
    /\ faults = 0
    /\ messages = 0

-----------------------------------------------------------------------------
(***************************************************************************)
(* The policy agent.  Ids are fresh: the first 32 bits of a uuid4 are      *)
(* assumed not to repeat.                                                  *)
(***************************************************************************)

\* _write_approval_queue.
Write(id, t) ==
    /\ queue[id].status = "absent"
    /\ queue' = [queue EXCEPT ![id] =
           [status |-> "pending", thread |-> IF HasThreadId THEN t ELSE NoThread]]

\* policy_node writes the item and calls interrupt().  The checkpoint saved
\* after the supervisor already names policy_agent as the next node, so a
\* thread that stops anywhere after the write is one a resume can continue.
Raise(id, t) ==
    /\ waiting[t] = NoId
    /\ Write(id, t)
    /\ waiting' = [waiting EXCEPT ![t] = id]
    /\ UNCHANGED <<pc, call, audit, depth, bounds>>

\* The user writes to a paused thread: the graph starts again at the
\* supervisor and the interrupted node is forgotten.  The item stays.
Message(t) ==
    /\ waiting[t] # NoId
    /\ messages < MaxMessages
    /\ messages' = messages + 1
    /\ waiting' = [waiting EXCEPT ![t] = NoId]
    /\ UNCHANGED <<queue, pc, call, audit, depth, faults>>

-----------------------------------------------------------------------------
\* decide_approval

Goto(r, step) ==
    /\ pc' = [pc EXCEPT ![r] = step]
    /\ UNCHANGED call

Reply(r) ==
    /\ pc' = [pc EXCEPT ![r] = "idle"]
    /\ call' = [call EXCEPT ![r] = NoCall]

Post(r, id, d) ==
    /\ pc[r] = "idle"
    /\ pc' = [pc EXCEPT ![r] = "read"]
    /\ call' = [call EXCEPT ![r] = [id |-> id, decision |-> d, item |-> Absent]]
    /\ UNCHANGED <<store, bounds>>

\* Defect: no 409, an item is decided whatever its status.
Read_NoConflict(r) ==
    /\ pc[r] = "read"
    /\ LET item == queue[call[r].id]
       IN  \/ /\ item.status = "absent"
              /\ Reply(r)
           \/ /\ item.status # "absent"
              /\ pc' = [pc EXCEPT ![r] = "upsert"]
              /\ call' = [call EXCEPT ![r].item = item]
    /\ UNCHANGED <<store, bounds>>

\* Defect: the thread is resumed before the decision is stored.
Read_ResumesFirst(r) ==
    /\ pc[r] = "read"
    /\ LET item == queue[call[r].id]
       IN  \/ /\ item.status # "pending"
              /\ Reply(r)
           \/ /\ item.status = "pending"
              /\ pc' = [pc EXCEPT ![r] = "resume"]
              /\ call' = [call EXCEPT ![r].item = item]
    /\ UNCHANGED <<store, bounds>>

\* read_item.  The request ends with 404 when there is no such item and with
\* 409 when it is not pending.
Read(r) ==
    /\ pc[r] = "read"
    /\ LET item == queue[call[r].id]
       IN  \/ /\ item.status # "pending"
              /\ Reply(r)
           \/ /\ item.status = "pending"
              /\ pc' = [pc EXCEPT ![r] = "upsert"]
              /\ call' = [call EXCEPT ![r].item = item]
    /\ UNCHANGED <<store, bounds>>

\* Defect: the copy is written back with its old status.
Stored_Unchanged(r) == [queue EXCEPT ![call[r].id] = call[r].item]

\* upsert_item replaces the whole item by the copy with its new status,
\* whatever the container holds by now: no ETag is sent.
Stored(r) == [queue EXCEPT ![call[r].id] =
                 [call[r].item EXCEPT !.status = call[r].decision]]

Upsert(r) ==
    /\ pc[r] = "upsert"
    /\ queue' = Stored(r)
    /\ Goto(r, "audit")
    /\ UNCHANGED <<waiting, audit, depth, bounds>>

\* push_approval_audit logs a failed push and never raises.
PushAudit(r) ==
    /\ pc[r] = "audit"
    /\ \/ /\ audit' = audit \cup
                 {[id |-> call[r].id, decision |-> call[r].decision]}
          /\ UNCHANGED faults
       \/ /\ faults < MaxFaults
          /\ faults' = faults + 1
          /\ UNCHANGED audit
    /\ Goto(r, "resume")
    /\ UNCHANGED <<queue, waiting, depth, messages>>

\* graph.ainvoke(Command(resume=...)) on the thread of the item, when it has
\* one.  A thread with no interrupted node has nothing to run.
Resume(r) ==
    /\ pc[r] = "resume"
    /\ LET t == call[r].item.thread
       IN  \/ /\ \/ t = NoThread
                 \/ t # NoThread /\ waiting[t] = NoId
              /\ Reply(r)
           \/ /\ t # NoThread
              /\ waiting[t] # NoId
              /\ Goto(r, "rerun")
    /\ UNCHANGED <<store, bounds>>

\* The graph runs the interrupted node again from its first line: policy_node
\* evaluates the proposal again and, unless the rules have changed, writes
\* another item before interrupt() returns the decision.
Rerun(r) ==
    /\ pc[r] = "rerun"
    /\ \/ \E id \in Ids : Write(id, call[r].item.thread)
       \/ UNCHANGED queue
    /\ Goto(r, "resumed")
    /\ UNCHANGED <<waiting, audit, depth, bounds>>

\* Defect: the request is answered before the thread's state is saved.
Resumed_NotSaved(r) ==
    /\ pc[r] = "resumed"
    /\ Reply(r)
    /\ UNCHANGED <<store, bounds>>

\* The node returned and its checkpoint is saved.
Resumed(r) ==
    /\ pc[r] = "resumed"
    /\ waiting' = [waiting EXCEPT ![call[r].item.thread] = NoId]
    /\ Reply(r)
    /\ UNCHANGED <<queue, audit, depth, bounds>>

\* The request ends early at any step: its process dies, or Cosmos or the
\* graph raises.  A write that timed out may have been made.
Fail(r) ==
    /\ pc[r] # "idle"
    /\ faults < MaxFaults
    /\ faults' = faults + 1
    /\ Reply(r)
    /\ \/ UNCHANGED queue
       \/ pc[r] = "upsert" /\ queue' = Stored(r)
    /\ UNCHANGED <<waiting, audit, depth, messages>>

-----------------------------------------------------------------------------

\* set_human_review_queue_depth.
SetQueueDepth(n) == depth' = n

\* Defect: the item being looked at is not counted.
List_OffByOne ==
    /\ SetQueueDepth(Cardinality(Pending) - 1)
    /\ UNCHANGED <<queue, waiting, pc, call, audit, bounds>>

\* list_pending_approvals, the only place that sets the gauge.
List ==
    /\ SetQueueDepth(Cardinality(Pending))
    /\ UNCHANGED <<queue, waiting, pc, call, audit, bounds>>

Handle(r) ==
    Read(r) \/ Upsert(r) \/ PushAudit(r) \/ Resume(r) \/ Rerun(r) \/ Resumed(r)

Next ==
    \/ \E id \in Ids, t \in Threads : Raise(id, t)
    \/ \E t \in Threads : Message(t)
    \/ \E r \in Reqs : Handle(r) \/ Fail(r)
    \/ \E r \in Reqs, id \in Ids, d \in Decisions : Post(r, id, d)
    \/ List

Spec == Init /\ [][Next]_vars

\* The event loop runs every request that can go on.  Nothing makes a user
\* send a message or list the queue.
FairSpec == Spec /\ \A r \in Reqs : WF_vars(Handle(r))

\* No two requests hold a copy of the same pending item.  Nothing in the code
\* sees to it: an ETag on upsert_item would.
Apart ==
    \A r, s \in Reqs :
        pc[r] = "upsert" /\ pc[s] = "upsert" /\ call[r].id = call[s].id => r = s

ApartSpec == Init /\ [][Next /\ Apart']_vars

-----------------------------------------------------------------------------
\* Safety.

TypeOK ==
    /\ queue \in [Ids -> Item]
    /\ waiting \in [Threads -> Ids \cup {NoId}]
    /\ pc \in [Reqs -> Steps]
    /\ call \in [Reqs -> Call \cup {NoCall}]
    /\ \A r \in Reqs :
          /\ pc[r] # "idle" => call[r] \in Call
          /\ pc[r] \in {"rerun", "resumed"} => call[r].item.thread \in Threads
    /\ audit \subseteq Audit
    /\ depth \in Nat
    /\ faults \in 0..MaxFaults
    /\ messages \in 0..MaxMessages

\* Under ApartSpec the queue keeps the promise of ApprovalLedger, also when
\* requests overlap elsewhere, calls fail and an upsert times out.
Ledger == INSTANCE ApprovalLedger WITH status <- [id \in Ids |-> queue[id].status]

LedgerSpec == Ledger!Spec

\* Under ApartSpec every decision in the audit stream of Loki is the decision
\* the container holds.
AuditMatchesRecord == \A a \in audit : queue[a.id].status = a.decision

\* Whatever requests overlap, the audit stream never names an item that is
\* still, or again, pending: the record is stored first and stays decided.
AuditedIsDecided == \A a \in audit : queue[a.id].status \in Decisions

\* Whatever requests overlap or fail, a paused thread goes on only when its
\* user writes to it or when a decision on an item of that thread is stored.
ReleasedByDecision ==
    [][\A t \in Threads :
          waiting[t] # NoId /\ waiting'[t] = NoId /\ messages' = messages =>
              \E id \in Ids : /\ queue[id].thread = t
                              /\ queue[id].status \in Decisions]_vars

\* docs/adr/ADR-004 and the 409 of decide_approval: a decided item is not
\* decided again.  Two requests that both read it pending decide it twice.
DecidedOnce ==
    [][\A id \in Ids : queue[id].status \in Decisions =>
          queue'[id].status = queue[id].status]_vars

-----------------------------------------------------------------------------
\* Liveness.

\* An operator retries: some request for each item is posted again and again.
RetrySpec ==
    /\ FairSpec
    /\ \A id \in Ids : SF_vars(\E r \in Reqs, d \in Decisions : Post(r, id, d))

\* The comment on interrupt() in policy_node: execution resumes when a human
\* decides.  Unless a request was lost or failed, a thread paused on an item
\* goes on once the item is decided.
DecisionReleases ==
    \A t \in Threads, id \in Ids :
        waiting[t] = id /\ queue[id].status \in Decisions
            ~> waiting[t] # id \/ faults > 0

=============================================================================
