------------------------ MODULE ApprovalQueueProofs ------------------------
(***************************************************************************)
(* Theorems of ApprovalQueue, for any ids, threads and requests.  The first*)
(* part holds however many requests overlap; the second part shows that the*)
(* queue implements ApprovalLedger unless two of them hold copies of the   *)
(* same pending item: that race, and no failure, is what breaks it.        *)
(***************************************************************************)
EXTENDS ApprovalQueue, FiniteSetTheorems, TLAPS

(***************************************************************************)
(* A request past its read holds a copy of an item that exists and whose   *)
(* thread never changes; past its upsert the item is decided.  The audit   *)
(* property is not inductive without the second fact, nor the release of a *)
(* thread without both.                                                    *)
(***************************************************************************)
Holding == {"upsert", "audit", "resume", "rerun", "resumed"}
Settled == {"audit", "resume", "rerun", "resumed"}

CopyInv ==
    \A r \in Reqs : pc[r] \in Holding =>
        /\ queue[call[r].id].status # "absent"
        /\ queue[call[r].id].thread = call[r].item.thread

SettledInv ==
    \A r \in Reqs : pc[r] \in Settled => queue[call[r].id].status \in Decisions

IInv == TypeOK /\ CopyInv /\ SettledInv /\ AuditedIsDecided

\* What no step does to the container: remove an item, move it to another
\* thread, or take a decision back.
Keeps(q, qq) ==
    \A id \in Ids :
        /\ q[id].status # "absent" =>
              qq[id].status # "absent" /\ qq[id].thread = q[id].thread
        /\ q[id].status \in Decisions => qq[id].status \in Decisions

-----------------------------------------------------------------------------
\* Facts about the helpers.

LEMMA WriteKeeps ==
    ASSUME queue \in [Ids -> Item], NEW id \in Ids, NEW t \in Threads, Write(id, t)
    PROVE  queue' \in [Ids -> Item] /\ Keeps(queue, queue')
  BY DEF Write, Item, Statuses, Decisions, Keeps

\* An upsert by a request that holds a copy.
LEMMA StoredKeeps ==
    ASSUME TypeOK, CopyInv, NEW r \in Reqs, pc[r] = "upsert", queue' = Stored(r)
    PROVE  /\ queue' \in [Ids -> Item]
           /\ Keeps(queue, queue')
           /\ call[r] \in Call
           /\ queue'[call[r].id].status = call[r].decision
           /\ \A id \in Ids : id # call[r].id => queue'[id] = queue[id]
  <1>1. /\ call[r] \in Call
        /\ queue \in [Ids -> Item]
        /\ queue[call[r].id].thread = call[r].item.thread
    BY DEF TypeOK, CopyInv, Holding
  <1>2. /\ call[r].id \in Ids
        /\ call[r].decision \in Decisions
        /\ call[r].item \in Item
    BY <1>1 DEF Call
  <1>3. [call[r].item EXCEPT !.status = call[r].decision] \in Item
    BY <1>2 DEF Item, Statuses
  <1>4. /\ [call[r].item EXCEPT !.status = call[r].decision].status = call[r].decision
        /\ [call[r].item EXCEPT !.status = call[r].decision].thread = call[r].item.thread
    BY <1>2 DEF Item
  <1>5. /\ queue' \in [Ids -> Item]
        /\ queue'[call[r].id] = [call[r].item EXCEPT !.status = call[r].decision]
        /\ \A id \in Ids : id # call[r].id => queue'[id] = queue[id]
    BY <1>1, <1>2, <1>3 DEF Stored
  <1>6. Keeps(queue, queue')
    BY <1>1, <1>2, <1>4, <1>5 DEF Keeps, Decisions
  <1> QED
    BY <1>1, <1>4, <1>5, <1>6

\* When the container keeps its items and neither the requests nor the audit
\* stream change, the invariants other than TypeOK are kept.
LEMMA KeepsInv ==
    ASSUME TypeOK, Keeps(queue, queue')
    PROVE  /\ CopyInv /\ UNCHANGED <<pc, call>> => CopyInv'
           /\ SettledInv /\ UNCHANGED <<pc, call>> => SettledInv'
           /\ AuditedIsDecided /\ UNCHANGED audit => AuditedIsDecided'
  <1>1. \A r \in Reqs : pc[r] \in Holding => call[r].id \in Ids
    BY DEF TypeOK, Holding, Call
  <1>2. \A a \in audit : a.id \in Ids
    BY DEF TypeOK, Audit
  <1>3. CopyInv /\ UNCHANGED <<pc, call>> => CopyInv'
    BY <1>1 DEF CopyInv, Keeps
  <1>4. SettledInv /\ UNCHANGED <<pc, call>> => SettledInv'
    BY <1>1 DEF SettledInv, Keeps, Settled, Holding
  <1> QED
    BY <1>2, <1>3, <1>4 DEF AuditedIsDecided, Keeps

\* A request that moves on, or ends, while the others stay.
LEMMA MoveInv ==
    ASSUME IInv, Keeps(queue, queue'), NEW r \in Reqs, NEW step \in Steps,
           pc' = [pc EXCEPT ![r] = step],
           \/ step = "idle" /\ call' = [call EXCEPT ![r] = NoCall]
           \/ UNCHANGED call,
           step \in Holding => pc[r] \in Holding,
           step \in Settled => queue'[call[r].id].status \in Decisions
    PROVE  CopyInv' /\ SettledInv'
  <1>1. /\ pc \in [Reqs -> Steps]
        /\ call \in [Reqs -> Call \cup {NoCall}]
        /\ \A s \in Reqs : pc[s] \in Holding => call[s].id \in Ids
    BY DEF IInv, TypeOK, Holding, Call
  <1>2. ASSUME NEW s \in Reqs, pc'[s] \in Holding
        PROVE  pc[s] \in Holding /\ call'[s] = call[s]
    BY <1>1, <1>2 DEF Holding, Steps
  <1>3. CopyInv'
    BY <1>1, <1>2 DEF IInv, CopyInv, Keeps
  <1>4. ASSUME NEW s \in Reqs, pc'[s] \in Settled
        PROVE  queue'[call'[s].id].status \in Decisions
    <2>1. pc[s] \in Holding /\ call'[s] = call[s] /\ call[s].id \in Ids
      BY <1>1, <1>2, <1>4 DEF Settled, Holding
    <2>2. CASE s = r
      BY <1>1, <1>4, <2>1, <2>2
    <2>3. CASE s # r
      BY <1>1, <1>4, <2>1, <2>3 DEF IInv, SettledInv, Keeps
    <2> QED
      BY <2>2, <2>3
  <1> QED
    BY <1>3, <1>4 DEF SettledInv

-----------------------------------------------------------------------------
\* Each action keeps the invariant and the items.

LEMMA InitInv == Init => IInv
  <1> SUFFICES ASSUME Init PROVE IInv
    OBVIOUS
  <1>1. Absent \in Item
    BY DEF Absent, Item, Statuses
  <1>2. TypeOK
    BY <1>1, ConstantAssumption DEF Init, TypeOK, Steps
  <1> QED
    BY <1>2 DEF Init, IInv, CopyInv, SettledInv, AuditedIsDecided, Holding, Settled

LEMMA RaiseStep ==
    ASSUME IInv, NEW id \in Ids, NEW t \in Threads, Raise(id, t)
    PROVE  IInv' /\ Keeps(queue, queue')
  <1>1. queue' \in [Ids -> Item] /\ Keeps(queue, queue')
    BY WriteKeeps DEF IInv, TypeOK, Raise
  <1>2. TypeOK'
    BY <1>1 DEF IInv, TypeOK, Raise, bounds
  <1> QED
    BY <1>1, <1>2, KeepsInv DEF IInv, Raise

LEMMA MessageStep ==
    ASSUME IInv, NEW t \in Threads, Message(t)
    PROVE  IInv' /\ Keeps(queue, queue')
  <1>1. Keeps(queue, queue')
    BY DEF Keeps, Message
  <1>2. TypeOK'
    BY ConstantAssumption DEF IInv, TypeOK, Message
  <1> QED
    BY <1>1, <1>2, KeepsInv DEF IInv, Message

LEMMA ListStep ==
    ASSUME IInv, List
    PROVE  IInv' /\ Keeps(queue, queue')
  <1>1. Keeps(queue, queue')
    BY DEF Keeps, List
  <1>2. Cardinality(Pending) \in Nat
    BY ConstantAssumption, FS_Subset, FS_CardinalityType DEF Pending
  <1>3. TypeOK'
    BY <1>2 DEF IInv, TypeOK, List, SetQueueDepth, bounds
  <1> QED
    BY <1>1, <1>3, KeepsInv DEF IInv, List

LEMMA PostStep ==
    ASSUME IInv, NEW r \in Reqs, NEW id \in Ids, NEW d \in Decisions, Post(r, id, d)
    PROVE  IInv' /\ Keeps(queue, queue')
  <1> DEFINE c == [id |-> id, decision |-> d, item |-> Absent]
  <1>1. UNCHANGED <<queue, waiting, audit, depth, faults, messages>>
    BY DEF Post, store, bounds
  <1>2. Keeps(queue, queue')
    BY <1>1 DEF Keeps
  <1>3. c \in Call
    BY DEF Call, Absent, Item, Statuses
  <1>4. TypeOK'
    BY <1>1, <1>3 DEF IInv, TypeOK, Post, Steps
  <1>5. CopyInv' /\ SettledInv'
    BY <1>1 DEF IInv, TypeOK, CopyInv, SettledInv, Holding, Settled, Post
  <1>6. AuditedIsDecided'
    BY <1>1, <1>2, KeepsInv DEF IInv
  <1> QED
    BY <1>2, <1>4, <1>5, <1>6 DEF IInv

LEMMA ReadStep ==
    ASSUME IInv, NEW r \in Reqs, Read(r)
    PROVE  IInv' /\ Keeps(queue, queue')
  <1>1. UNCHANGED <<queue, waiting, audit, depth, faults, messages>>
    BY DEF Read, store, bounds
  <1>2. Keeps(queue, queue')
    BY <1>1 DEF Keeps
  <1>3. AuditedIsDecided'
    BY <1>1, <1>2, KeepsInv DEF IInv
  <1>4. CASE Reply(r)
    <2>1. TypeOK'
      BY <1>1, <1>4 DEF IInv, TypeOK, Reply, Steps
    <2>2. CopyInv' /\ SettledInv'
      BY <1>2, <1>4, MoveInv DEF Reply, Steps, Holding, Settled
    <2> QED
      BY <1>2, <1>3, <2>1, <2>2 DEF IInv
  <1>5. CASE /\ queue[call[r].id].status = "pending"
             /\ pc' = [pc EXCEPT ![r] = "upsert"]
             /\ call' = [call EXCEPT ![r].item = queue[call[r].id]]
    <2>1. /\ call[r] \in Call
          /\ call[r].id \in Ids
          /\ queue[call[r].id] \in Item
      BY DEF IInv, TypeOK, Read, Call
    <2>2. /\ call'[r] \in Call
          /\ call'[r].id = call[r].id
          /\ call'[r].item = queue[call[r].id]
      BY <1>5, <2>1 DEF IInv, TypeOK, Call
    <2>3. TypeOK'
      BY <1>1, <1>5, <2>2 DEF IInv, TypeOK, Steps
    <2>4. CopyInv' /\ SettledInv'
      BY <1>1, <1>5, <2>2 DEF IInv, TypeOK, CopyInv, SettledInv, Holding, Settled
    <2> QED
      BY <1>2, <1>3, <2>3, <2>4 DEF IInv
  <1> QED
    BY <1>4, <1>5 DEF Read

LEMMA UpsertStep ==
    ASSUME IInv, NEW r \in Reqs, Upsert(r)
    PROVE  IInv' /\ Keeps(queue, queue')
  <1>1. /\ queue' \in [Ids -> Item]
        /\ Keeps(queue, queue')
        /\ call[r] \in Call
        /\ queue'[call[r].id].status = call[r].decision
    BY StoredKeeps DEF IInv, Upsert
  <1>2. /\ pc[r] = "upsert"
        /\ pc' = [pc EXCEPT ![r] = "audit"]
        /\ UNCHANGED <<call, waiting, audit, depth, faults, messages>>
    BY DEF Upsert, Goto, bounds
  <1>3. TypeOK'
    BY <1>1, <1>2 DEF IInv, TypeOK, Steps
  <1>4. CopyInv' /\ SettledInv'
    BY <1>1, <1>2, MoveInv DEF Holding, Settled, Steps, Call
  <1>5. AuditedIsDecided'
    BY <1>1, <1>2, KeepsInv DEF IInv
  <1> QED
    BY <1>1, <1>3, <1>4, <1>5 DEF IInv

LEMMA PushAuditStep ==
    ASSUME IInv, NEW r \in Reqs, PushAudit(r)
    PROVE  IInv' /\ Keeps(queue, queue')
  <1>1. /\ pc[r] = "audit"
        /\ pc' = [pc EXCEPT ![r] = "resume"]
        /\ UNCHANGED <<queue, call, waiting, depth, messages>>
        /\ faults' \in 0..MaxFaults
    BY ConstantAssumption DEF PushAudit, Goto, IInv, TypeOK
  <1>2. Keeps(queue, queue')
    BY <1>1 DEF Keeps
  <1>3. /\ call[r] \in Call
        /\ queue[call[r].id].status \in Decisions
    BY <1>1 DEF IInv, TypeOK, SettledInv, Settled
  <1>4. audit' \subseteq audit \cup {[id |-> call[r].id, decision |-> call[r].decision]}
    BY DEF PushAudit
  <1>5. audit' \subseteq Audit
    BY <1>3, <1>4 DEF IInv, TypeOK, Call, Audit
  <1>6. TypeOK'
    BY <1>1, <1>5 DEF IInv, TypeOK, Steps
  <1>7. CopyInv' /\ SettledInv'
    BY <1>1, <1>2, <1>3, MoveInv DEF Holding, Settled, Steps
  <1>8. AuditedIsDecided'
    BY <1>1, <1>3, <1>4 DEF IInv, AuditedIsDecided
  <1> QED
    BY <1>2, <1>6, <1>7, <1>8 DEF IInv

LEMMA ResumeStep ==
    ASSUME IInv, NEW r \in Reqs, Resume(r)
    PROVE  IInv' /\ Keeps(queue, queue')
  <1>1. /\ pc[r] = "resume"
        /\ UNCHANGED <<queue, waiting, audit, depth, faults, messages>>
    BY DEF Resume, store, bounds
  <1>2. Keeps(queue, queue')
    BY <1>1 DEF Keeps
  <1>3. AuditedIsDecided'
    BY <1>1, <1>2, KeepsInv DEF IInv
  <1>4. CASE Reply(r)
    <2>1. TypeOK'
      BY <1>1, <1>4 DEF IInv, TypeOK, Reply, Steps
    <2>2. CopyInv' /\ SettledInv'
      BY <1>2, <1>4, MoveInv DEF Reply, Steps, Holding, Settled
    <2> QED
      BY <1>2, <1>3, <2>1, <2>2 DEF IInv
  <1>5. CASE call[r].item.thread # NoThread /\ Goto(r, "rerun")
    <2>1. /\ call[r] \in Call
          /\ call[r].item.thread \in Threads
          /\ queue[call[r].id].status \in Decisions
      BY <1>1, <1>5 DEF IInv, TypeOK, SettledInv, Settled, Call, Item
    <2>2. TypeOK'
      BY <1>1, <1>5, <2>1 DEF IInv, TypeOK, Goto, Steps
    <2>3. CopyInv' /\ SettledInv'
      BY <1>1, <1>2, <1>5, <2>1, MoveInv DEF Goto, Steps, Holding, Settled
    <2> QED
      BY <1>2, <1>3, <2>2, <2>3 DEF IInv
  <1> QED
    BY <1>4, <1>5 DEF Resume

LEMMA RerunStep ==
    ASSUME IInv, NEW r \in Reqs, Rerun(r)
    PROVE  IInv' /\ Keeps(queue, queue')
  <1>1. /\ pc[r] = "rerun"
        /\ Goto(r, "resumed")
        /\ UNCHANGED <<waiting, audit, depth, faults, messages>>
    BY DEF Rerun, bounds
  <1>2. call[r].item.thread \in Threads /\ call[r] \in Call
    BY <1>1 DEF IInv, TypeOK
  <1>3. queue' \in [Ids -> Item] /\ Keeps(queue, queue')
    <2>1. CASE UNCHANGED queue
      BY <2>1 DEF IInv, TypeOK, Keeps
    <2>2. CASE \E id \in Ids : Write(id, call[r].item.thread)
      BY <1>2, <2>2, WriteKeeps DEF IInv, TypeOK
    <2> QED
      BY <2>1, <2>2 DEF Rerun
  <1>4. TypeOK'
    BY <1>1, <1>2, <1>3 DEF IInv, TypeOK, Goto, Steps
  <1>5. queue'[call[r].id].status \in Decisions
    BY <1>1, <1>2, <1>3 DEF IInv, SettledInv, Settled, Keeps, Call
  <1>6. CopyInv' /\ SettledInv'
    BY <1>1, <1>3, <1>5, MoveInv DEF Goto, Steps, Holding, Settled
  <1>7. AuditedIsDecided'
    BY <1>1, <1>3, KeepsInv DEF IInv
  <1> QED
    BY <1>3, <1>4, <1>6, <1>7 DEF IInv

LEMMA ResumedStep ==
    ASSUME IInv, NEW r \in Reqs, Resumed(r)
    PROVE  IInv' /\ Keeps(queue, queue')
  <1>1. /\ pc[r] = "resumed"
        /\ Reply(r)
        /\ UNCHANGED <<queue, audit, depth, faults, messages>>
    BY DEF Resumed, bounds
  <1>2. Keeps(queue, queue')
    BY <1>1 DEF Keeps
  <1>3. TypeOK'
    BY <1>1 DEF IInv, TypeOK, Resumed, Reply, Steps
  <1>4. CopyInv' /\ SettledInv'
    BY <1>1, <1>2, MoveInv DEF Reply, Steps, Holding, Settled
  <1>5. AuditedIsDecided'
    BY <1>1, <1>2, KeepsInv DEF IInv
  <1> QED
    BY <1>2, <1>3, <1>4, <1>5 DEF IInv

LEMMA FailStep ==
    ASSUME IInv, NEW r \in Reqs, Fail(r)
    PROVE  IInv' /\ Keeps(queue, queue')
  <1>1. /\ Reply(r)
        /\ UNCHANGED <<waiting, audit, depth, messages>>
        /\ faults' \in 0..MaxFaults
    BY ConstantAssumption DEF Fail, IInv, TypeOK
  <1>2. queue' \in [Ids -> Item] /\ Keeps(queue, queue')
    <2>1. CASE UNCHANGED queue
      BY <2>1 DEF IInv, TypeOK, Keeps
    <2>2. CASE pc[r] = "upsert" /\ queue' = Stored(r)
      BY <2>2, StoredKeeps DEF IInv
    <2> QED
      BY <2>1, <2>2 DEF Fail
  <1>3. TypeOK'
    BY <1>1, <1>2 DEF IInv, TypeOK, Reply, Steps
  <1>4. CopyInv' /\ SettledInv'
    BY <1>1, <1>2, MoveInv DEF Reply, Steps, Holding, Settled
  <1>5. AuditedIsDecided'
    BY <1>1, <1>2, KeepsInv DEF IInv
  <1> QED
    BY <1>2, <1>3, <1>4, <1>5 DEF IInv

LEMMA NextInv == IInv /\ [Next]_vars => IInv' /\ Keeps(queue, queue')
  <1>1. IInv /\ UNCHANGED vars => IInv' /\ Keeps(queue, queue')
    BY DEF vars, IInv, TypeOK, CopyInv, SettledInv, AuditedIsDecided, Keeps
  <1>2. IInv /\ Next => IInv' /\ Keeps(queue, queue')
    BY RaiseStep, MessageStep, PostStep, ReadStep, UpsertStep, PushAuditStep,
       ResumeStep, RerunStep, ResumedStep, FailStep, ListStep DEF Next, Handle
  <1> QED
    BY <1>1, <1>2

\* Every reachable state satisfies the invariant.
THEOREM Invariance == Spec => []IInv
  BY InitInv, NextInv, PTL DEF Spec

-----------------------------------------------------------------------------
\* However many requests overlap.

\* The variables keep their types.
THEOREM TypeCorrect == Spec => []TypeOK
  <1>1. IInv => TypeOK
    BY DEF IInv
  <1> QED
    BY <1>1, Invariance, PTL

\* What the audit stream names has been decided, and stays so.
THEOREM AuditCorrect == Spec => []AuditedIsDecided
  <1>1. IInv => AuditedIsDecided
    BY DEF IInv
  <1> QED
    BY <1>1, Invariance, PTL

\* A paused thread that is not written to goes on only after a decision on
\* one of its items is stored.
THEOREM ReleaseCorrect == Spec => ReleasedByDecision
  <1> DEFINE Released(t) == /\ waiting[t] # NoId
                            /\ waiting'[t] = NoId
                            /\ messages' = messages
             Allowed(t) == \E id \in Ids : /\ queue[id].thread = t
                                           /\ queue[id].status \in Decisions
  <1>1. ASSUME IInv, Next, NEW t \in Threads, Released(t) PROVE Allowed(t)
    <2>1. PICK r \in Reqs : Resumed(r)
      <3>1. ASSUME NEW id \in Ids, NEW u \in Threads, Raise(id, u) PROVE FALSE
        BY <1>1, <3>1, ConstantAssumption DEF Raise, IInv, TypeOK
      <3>2. ASSUME NEW u \in Threads, Message(u) PROVE FALSE
        BY <1>1, <3>2 DEF Message, IInv, TypeOK
      <3>3. List => UNCHANGED waiting
        BY DEF List
      <3>4. ASSUME NEW r \in Reqs
            PROVE  /\ (Read(r) \/ Upsert(r) \/ PushAudit(r) \/ Resume(r)) => UNCHANGED waiting
                   /\ (Rerun(r) \/ Fail(r)) => UNCHANGED waiting
                   /\ \A id \in Ids, d \in Decisions : Post(r, id, d) => UNCHANGED waiting
        BY DEF Read, Upsert, PushAudit, Resume, Rerun, Fail, Post, store
      <3> QED
        BY <1>1, <3>1, <3>2, <3>3, <3>4 DEF Next, Handle
    <2>2. /\ pc[r] = "resumed"
          /\ waiting' = [waiting EXCEPT ![call[r].item.thread] = NoId]
      BY <2>1 DEF Resumed
    <2>3. call[r] \in Call /\ t = call[r].item.thread
      BY <1>1, <2>2 DEF IInv, TypeOK
    <2>4. /\ call[r].id \in Ids
          /\ queue[call[r].id].thread = t
          /\ queue[call[r].id].status \in Decisions
      BY <1>1, <2>2, <2>3 DEF IInv, CopyInv, SettledInv, Holding, Settled, Call
    <2> QED
      BY <2>4
  <1>2. IInv /\ [Next]_vars =>
            [\A t \in Threads :
                waiting[t] # NoId /\ waiting'[t] = NoId /\ messages' = messages =>
                    \E id \in Ids : /\ queue[id].thread = t
                                    /\ queue[id].status \in Decisions]_vars
    BY <1>1
  <1> QED
    BY <1>2, Invariance, PTL DEF Spec, ReleasedByDecision

-----------------------------------------------------------------------------
(***************************************************************************)
(* What a decision does to the thread that waits for it.  The safety half  *)
(* of DecisionReleases: as long as nothing fails, a decided item whose     *)
(* thread still waits is in the hands of a request that comes to resume it,*)
(* so the fair steps of one request are enough.                            *)
(***************************************************************************)
PausedInv ==
    \A t \in Threads : waiting[t] # NoId =>
        /\ queue[waiting[t]].status # "absent"
        /\ HasThreadId => queue[waiting[t]].thread = t

InHand(t) == \E r \in Reqs : pc[r] \in Settled /\ call[r].item.thread = t

DecisionInHand ==
    HasThreadId /\ faults = 0 =>
        \A t \in Threads, id \in Ids :
            waiting[t] = id /\ queue[id].status \in Decisions => InHand(t)

\* Only a new item makes a thread wait; only a message, or the end of a
\* resumed run, lets it go.
LEMMA WaitingSteps ==
    ASSUME IInv, [Next]_vars, NEW t \in Threads, waiting'[t] # waiting[t]
    PROVE  \/ \E id \in Ids : waiting'[t] = id /\ Raise(id, t)
           \/ /\ waiting'[t] = NoId
              /\ \/ Message(t)
                 \/ \E r \in Reqs : Resumed(r) /\ call[r].item.thread = t
  <1>1. waiting \in [Threads -> Ids \cup {NoId}]
    BY DEF IInv, TypeOK
  <1>2. ASSUME NEW id \in Ids, NEW u \in Threads, Raise(id, u)
        PROVE  waiting'[t] = id /\ u = t
    BY <1>1, <1>2 DEF Raise
  <1>3. ASSUME NEW u \in Threads, Message(u) PROVE waiting'[t] = NoId /\ u = t
    BY <1>1, <1>3 DEF Message
  <1>4. ASSUME NEW r \in Reqs, Resumed(r)
        PROVE  waiting'[t] = NoId /\ call[r].item.thread = t
    BY <1>1, <1>4 DEF Resumed
  <1>5. ASSUME NEW r \in Reqs
        PROVE  /\ Read(r) \/ Upsert(r) \/ PushAudit(r) \/ Resume(r) => UNCHANGED waiting
               /\ Rerun(r) \/ Fail(r) => UNCHANGED waiting
               /\ \A id \in Ids, d \in Decisions : Post(r, id, d) => UNCHANGED waiting
    BY DEF Read, Upsert, PushAudit, Resume, Rerun, Fail, Post, store
  <1>6. (UNCHANGED vars => UNCHANGED waiting) /\ (List => UNCHANGED waiting)
    BY DEF vars, List
  <1> QED
    BY <1>2, <1>3, <1>4, <1>5, <1>6 DEF Next, Handle

LEMMA PausedStep ==
    ASSUME IInv, PausedInv, [Next]_vars
    PROVE  PausedInv'
  <1> SUFFICES ASSUME NEW t \in Threads, waiting'[t] # NoId
               PROVE  /\ queue'[waiting'[t]].status # "absent"
                      /\ HasThreadId => queue'[waiting'[t]].thread = t
    BY DEF PausedInv
  <1>1. CASE waiting'[t] = waiting[t]
    <2>1. waiting[t] \in Ids
      BY <1>1 DEF IInv, TypeOK
    <2>2. Keeps(queue, queue')
      BY NextInv
    <2> QED
      BY <1>1, <2>1, <2>2 DEF PausedInv, Keeps
  <1>2. CASE waiting'[t] # waiting[t]
    <2>1. PICK id \in Ids : waiting'[t] = id /\ Raise(id, t)
      BY <1>2, WaitingSteps
    <2> QED
      BY <2>1 DEF IInv, TypeOK, Raise, Write
  <1> QED
    BY <1>1, <1>2

\* An item becomes decided in the hands of the request that stored it.
LEMMA HandStep ==
    ASSUME IInv, PausedInv, DecisionInHand, [Next]_vars
    PROVE  DecisionInHand'
  <1> SUFFICES ASSUME HasThreadId, faults' = 0, NEW t \in Threads, NEW id \in Ids,
                      waiting'[t] = id, queue'[id].status \in Decisions
               PROVE  InHand(t)'
    BY DEF DecisionInHand
  <1>1. /\ queue \in [Ids -> Item] /\ pc \in [Reqs -> Steps] /\ faults \in Nat
        /\ call \in [Reqs -> Call \cup {NoCall}]
    BY ConstantAssumption DEF IInv, TypeOK
  <1>2. waiting[t] = id
    <2>1. ASSUME Raise(id, t) PROVE FALSE
      BY <1>1, <2>1 DEF Raise, Write, Decisions
    <2>2. id # NoId
      BY ConstantAssumption
    <2> QED
      BY <2>1, <2>2, WaitingSteps
  <1>3. faults = 0 /\ ~\E r \in Reqs : Fail(r)
    <2>1. \A r \in Reqs : Fail(r) => faults' = faults + 1
      BY DEF Fail
    <2>2. \A r \in Reqs : PushAudit(r) => faults' \in {faults, faults + 1}
      BY DEF PushAudit
    <2>3. \/ UNCHANGED faults
          \/ \E r \in Reqs : Fail(r) \/ PushAudit(r)
      BY DEF Next, vars, Handle, Raise, Message, List, Post, Read, Upsert, Resume, Rerun,
             Resumed, bounds
    <2> QED
      BY <1>1, <2>1, <2>2, <2>3
  \* Another request's step, and the steps of a request that goes on.
  <1>4. ASSUME NEW r \in Reqs, pc[r] \in Settled, call[r].item.thread = t,
               ~(Resume(r) \/ Resumed(r))
        PROVE  InHand(t)'
    <2>1. pc'[r] \in Settled /\ call'[r] = call[r]
      <3>1. ASSUME NEW s \in Reqs, s # r,
                   Handle(s) \/ \E k \in Ids, d \in Decisions : Post(s, k, d)
            PROVE  pc'[r] = pc[r] /\ call'[r] = call[r]
        BY <1>1, <3>1 DEF Handle, Read, Upsert, PushAudit, Resume, Rerun, Resumed, Post,
                          Goto, Reply
      <3>2. (PushAudit(r) => pc'[r] = "resume") /\ (Rerun(r) => pc'[r] = "resumed")
        BY <1>1 DEF PushAudit, Rerun, Goto
      <3>3. PushAudit(r) \/ Rerun(r) => call'[r] = call[r]
        BY DEF PushAudit, Rerun, Goto
      <3>4. ~Read(r) /\ ~Upsert(r) /\ \A k \in Ids, d \in Decisions : ~Post(r, k, d)
        BY <1>4 DEF Read, Upsert, Post, Settled
      <3>5. ASSUME \/ UNCHANGED vars \/ List
                   \/ \E k \in Ids, u \in Threads : Raise(k, u)
                   \/ \E u \in Threads : Message(u)
            PROVE  UNCHANGED <<pc, call>>
        BY <3>5 DEF vars, List, Raise, Message
      <3> QED
        BY <1>3, <1>4, <3>1, <3>2, <3>3, <3>4, <3>5 DEF Next, Handle, Settled
    <2> QED
      BY <1>4, <2>1 DEF InHand
  \* A request that resumes the thread finds it waiting, and one that ends
  \* leaves it released.
  <1>5. ASSUME NEW r \in Reqs, pc[r] \in Settled, call[r].item.thread = t,
               Resume(r) \/ Resumed(r)
        PROVE  InHand(t)'
    <2>1. ~Resumed(r)
      BY <1>2, <1>5, ConstantAssumption DEF Resumed, IInv, TypeOK
    <2>2. pc'[r] = "rerun" /\ call'[r] = call[r]
      BY <1>1, <1>2, <1>5, <2>1, ConstantAssumption DEF Resume, Goto
    <2> QED
      BY <1>5, <2>2 DEF InHand, Settled
  <1>6. CASE queue[id].status \in Decisions
    <2>1. PICK r \in Reqs : pc[r] \in Settled /\ call[r].item.thread = t
      BY <1>2, <1>3, <1>6 DEF DecisionInHand, InHand
    <2> QED
      BY <1>4, <1>5, <2>1
  <1>7. CASE queue[id].status \notin Decisions
    <2>1. PICK r \in Reqs : Upsert(r)
      <3>1. ASSUME NEW k \in Ids, NEW u, Write(k, u)
            PROVE  queue'[id].status = queue[id].status \/ queue'[id].status = "pending"
        BY <1>1, <3>1 DEF Write
      <3>2. \A u \in Threads, k \in Ids : Raise(k, u) => Write(k, u)
        BY DEF Raise
      <3>3. \A r \in Reqs : Rerun(r) =>
               UNCHANGED queue \/ \E k \in Ids : Write(k, call[r].item.thread)
        BY DEF Rerun
      <3>4. ASSUME \/ UNCHANGED vars \/ List
                   \/ \E u \in Threads : Message(u)
                   \/ \E s \in Reqs :
                         \/ Read(s) \/ PushAudit(s) \/ Resume(s) \/ Resumed(s)
                         \/ \E k \in Ids, d \in Decisions : Post(s, k, d)
            PROVE  UNCHANGED queue
        BY <3>4 DEF vars, List, Message, Read, PushAudit, Resume, Resumed, Post, store
      <3>5. "pending" \notin Decisions
        BY DEF Decisions
      <3> QED
        BY <1>3, <1>7, <3>1, <3>2, <3>3, <3>4, <3>5 DEF Next, Handle
    <2>2. /\ pc[r] = "upsert" /\ call[r] \in Call /\ queue[call[r].id].thread = call[r].item.thread
          /\ queue' = Stored(r)
      BY <2>1 DEF Upsert, IInv, TypeOK, CopyInv, Holding
    <2>3. call[r].id = id
      BY <1>1, <1>7, <2>1, <2>2, StoredKeeps DEF IInv
    <2>4. call[r].item.thread = t
      BY <1>2, <2>2, <2>3, ConstantAssumption DEF PausedInv
    <2>5. pc'[r] = "audit" /\ call'[r] = call[r]
      BY <1>1, <2>1 DEF Upsert, Goto
    <2> QED
      BY <2>4, <2>5 DEF InHand, Settled
  <1> QED
    BY <1>6, <1>7

\* Unless a call failed, a thread that still waits for a decided item is in the
\* hands of a request on its way to resume it, whatever requests overlap.
THEOREM DecisionTaken == Spec => []DecisionInHand
  <1>1. Init => PausedInv /\ DecisionInHand
    BY ConstantAssumption DEF Init, PausedInv, DecisionInHand
  <1>2. IInv /\ PausedInv /\ [Next]_vars => PausedInv'
    BY PausedStep
  <1>3. IInv /\ PausedInv /\ DecisionInHand /\ [Next]_vars => DecisionInHand'
    BY HandStep
  <1> QED
    BY <1>1, <1>2, <1>3, Invariance, PTL DEF Spec

\* Only a message of a user takes a thread out of its pause.
NeverReleased ==
    [][\A t \in Threads : waiting[t] # NoId /\ messages' = messages =>
          waiting'[t] = waiting[t]]_vars

\* The items the policy agent writes have no thread: then no decision, failure
\* or retry ever resumes one, and a paused thread waits until its user writes
\* to it.
THEOREM NoThreadNoRelease == ASSUME ~HasThreadId PROVE Spec => NeverReleased
  <1> DEFINE Threadless == \A id \in Ids : queue[id].thread = NoThread
  <1>1. Init => Threadless
    BY DEF Init, Absent
  <1>2. ASSUME IInv, Threadless, [Next]_vars PROVE Threadless'
    <2>1. queue \in [Ids -> Item]
      BY <1>2 DEF IInv, TypeOK
    <2>2. ASSUME NEW k \in Ids, NEW u, Write(k, u) PROVE Threadless'
      BY <1>2, <2>1, <2>2 DEF Write
    <2>3. ASSUME NEW r \in Reqs, pc[r] = "upsert", queue' = Stored(r) PROVE Threadless'
      <3>1. /\ Keeps(queue, queue') /\ \A id \in Ids : id # call[r].id => queue'[id] = queue[id]
            /\ queue[call[r].id].status # "absent"
        BY <1>2, <2>3, StoredKeeps DEF IInv, CopyInv, Holding
      <3> QED
        BY <1>2, <3>1 DEF Keeps
    <2>4. \/ UNCHANGED queue
          \/ \E k \in Ids : \E u : Write(k, u)
          \/ \E r \in Reqs : pc[r] = "upsert" /\ queue' = Stored(r)
      BY <1>2 DEF Next, vars, Handle, Raise, Message, List, Post, Read, Upsert, PushAudit,
                  Resume, Rerun, Resumed, Fail, store
    <2> QED
      BY <1>2, <2>2, <2>3, <2>4
  <1>3. ASSUME IInv, Threadless, [Next]_vars, NEW t \in Threads,
               waiting[t] # NoId, messages' = messages
        PROVE  waiting'[t] = waiting[t]
    <2>1. ASSUME NEW id \in Ids, Raise(id, t) PROVE FALSE
      BY <1>3, <2>1 DEF Raise
    <2>2. ASSUME Message(t) PROVE FALSE
      BY <1>3, <2>2 DEF Message, IInv, TypeOK
    <2>3. ASSUME NEW r \in Reqs, Resumed(r) PROVE FALSE
      <3>1. call[r].item.thread \in Threads /\ call[r].id \in Ids
        BY <1>3, <2>3 DEF Resumed, IInv, TypeOK, Call
      <3>2. queue[call[r].id].thread = call[r].item.thread
        BY <1>3, <2>3 DEF Resumed, IInv, CopyInv, Holding
      <3> QED
        BY <1>3, <3>1, <3>2, ConstantAssumption
    <2> QED
      BY <1>3, <2>1, <2>2, <2>3, WaitingSteps
  <1>4. IInv /\ Threadless /\ [Next]_vars =>
           [\A t \in Threads : waiting[t] # NoId /\ messages' = messages =>
               waiting'[t] = waiting[t]]_vars
    BY <1>3
  <1>5. IInv /\ Threadless /\ [Next]_vars => Threadless'
    BY <1>2
  <1> HIDE DEF Threadless
  <1> QED
    BY <1>1, <1>4, <1>5, Invariance, PTL DEF Spec, NeverReleased

-----------------------------------------------------------------------------
(***************************************************************************)
(* Requests that hold no two copies of the same pending item.  The item a  *)
(* request is about to write is then still pending, and the one it has     *)
(* written holds its decision.                                             *)
(***************************************************************************)
ApartInv ==
    /\ Apart
    /\ \A r \in Reqs : pc[r] = "upsert" => queue[call[r].id].status = "pending"
    /\ \A r \in Reqs : pc[r] \in Settled => queue[call[r].id].status = call[r].decision
    /\ AuditMatchesRecord

\* A new item is raised in the ledger.
LEMMA WriteRaises ==
    ASSUME TypeOK, NEW id \in Ids, NEW t \in Threads, Write(id, t)
    PROVE  /\ Ledger!Next
           /\ \A i \in Ids : queue[i].status # "absent" => queue'[i] = queue[i]
  <1>1. Ledger!Raise(id)
    BY DEF TypeOK, Write, Ledger!Raise
  <1> QED
    BY <1>1 DEF TypeOK, Write, Ledger!Next

\* The items that the other requests and the audit stream know.
Known(r) == {call[s].id : s \in {x \in Reqs : x # r /\ pc[x] \in Holding}}
                \cup {a.id : a \in audit}

LEMMA KnownExist ==
    ASSUME IInv, NEW r, NEW id \in Known(r)
    PROVE  id \in Ids /\ queue[id].status # "absent"
  <1>1. CASE \E s \in Reqs : pc[s] \in Holding /\ id = call[s].id
    BY <1>1 DEF IInv, TypeOK, CopyInv, Holding, Call
  <1>2. CASE \E a \in audit : id = a.id
    BY <1>2 DEF IInv, TypeOK, AuditedIsDecided, Audit, Decisions
  <1> QED
    BY <1>1, <1>2 DEF Known

\* An upsert decides in the ledger, and writes to no item that anyone else
\* knows.
LEMMA StoredDecides ==
    ASSUME IInv, ApartInv, NEW r \in Reqs, pc[r] = "upsert", queue' = Stored(r)
    PROVE  /\ Ledger!Next
           /\ \A id \in Known(r) : queue'[id] = queue[id]
  <1>1. /\ queue' \in [Ids -> Item]
        /\ call[r] \in Call
        /\ queue'[call[r].id].status = call[r].decision
        /\ \A id \in Ids : id # call[r].id => queue'[id] = queue[id]
    BY StoredKeeps DEF IInv
  <1>2. queue[call[r].id].status = "pending"
    BY DEF ApartInv
  <1>3. call[r].id \in Ids /\ call[r].decision \in Decisions
    BY <1>1 DEF Call
  <1>4. Ledger!Decide(call[r].id, call[r].decision)
    BY <1>1, <1>2, <1>3 DEF Ledger!Decide
  <1>5. Ledger!Next
    <2>1. call[r].decision \in Ledger!Decisions
      BY <1>3 DEF Ledger!Decisions, Decisions
    <2>2. \E d \in Ledger!Decisions : Ledger!Decide(call[r].id, d)
      BY <1>4, <2>1 DEF Ledger!Decide
    <2> QED
      BY <1>3, <2>2 DEF Ledger!Next, Ledger!Decide
  <1>6. ASSUME NEW s \in Reqs, s # r, pc[s] \in Holding, call[s].id = call[r].id
        PROVE  FALSE
    <2>1. CASE pc[s] = "upsert"
      BY <1>6, <2>1 DEF ApartInv, Apart
    <2>2. CASE pc[s] \in Settled
      BY <1>2, <1>6, <2>2 DEF IInv, SettledInv, Decisions
    <2> QED
      BY <1>6, <2>1, <2>2 DEF Holding, Settled
  <1>7. \A a \in audit : a.id # call[r].id
    BY <1>2 DEF IInv, AuditedIsDecided, Decisions
  <1>8. \A id \in Known(r) : id \in Ids /\ id # call[r].id
    BY <1>6, <1>7, KnownExist DEF Known
  <1> QED
    BY <1>1, <1>5, <1>8

\* A request that moves on, or ends, and changes no item that others know.
LEMMA ApartMove ==
    ASSUME IInv, ApartInv, Apart', NEW r \in Reqs, NEW step \in Steps \ {"upsert"},
           pc' = [pc EXCEPT ![r] = step],
           \A s \in Reqs : s # r => call'[s] = call[s],
           \A id \in Known(r) : queue'[id] = queue[id],
           step \in Settled => queue'[call'[r].id].status = call'[r].decision,
           AuditMatchesRecord'
    PROVE  ApartInv'
  <1>1. pc \in [Reqs -> Steps]
    BY DEF IInv, TypeOK
  <1>2. ASSUME NEW s \in Reqs, pc'[s] \in Holding, s # r
        PROVE  pc'[s] = pc[s] /\ call'[s] = call[s] /\ queue'[call[s].id] = queue[call[s].id]
    BY <1>1, <1>2 DEF Known
  <1>3. \A s \in Reqs : pc'[s] = "upsert" => queue'[call'[s].id].status = "pending"
    BY <1>1, <1>2 DEF ApartInv, Holding
  <1>4. \A s \in Reqs : pc'[s] \in Settled =>
            queue'[call'[s].id].status = call'[s].decision
    BY <1>1, <1>2 DEF ApartInv, Holding, Settled
  <1> QED
    BY <1>3, <1>4 DEF ApartInv

LEMMA InitApart == Init => ApartInv /\ Ledger!Init
  BY DEF Init, ApartInv, Apart, AuditMatchesRecord, Settled, Absent, Ledger!Init

\* The audit stream goes on matching when it does not grow and nobody changes
\* what is in it.
LEMMA AuditStays ==
    ASSUME ApartInv, UNCHANGED audit, NEW r,
           \A id \in Known(r) : queue'[id] = queue[id]
    PROVE  AuditMatchesRecord'
  BY DEF ApartInv, AuditMatchesRecord, Known

\* Steps of a request.
LEMMA ApartHandle ==
    ASSUME IInv, ApartInv, Apart', NEW r \in Reqs, Handle(r) \/ Fail(r)
    PROVE  ApartInv' /\ (Ledger!Next \/ UNCHANGED queue)
  <1>1. /\ queue \in [Ids -> Item]
        /\ pc \in [Reqs -> Steps]
        /\ call \in [Reqs -> Call \cup {NoCall}]
    BY DEF IInv, TypeOK
  <1>2. call[r] \in Call /\ call[r].id \in Ids /\ call[r].decision \in Decisions
    BY DEF IInv, TypeOK, Call, Handle, Read, Upsert, PushAudit, Resume, Rerun,
           Resumed, Fail
  <1>3. ASSUME Reply(r)
        PROVE  /\ pc' = [pc EXCEPT ![r] = "idle"]
               /\ \A s \in Reqs : s # r => call'[s] = call[s]
               /\ "idle" \in Steps \ {"upsert"} /\ "idle" \notin Settled
    BY <1>1, <1>3 DEF Reply, Steps, Settled
  <1>4. CASE Read(r)
    <2>1. UNCHANGED <<queue, audit>>
      BY <1>4 DEF Read, store
    <2>2. AuditMatchesRecord'
      BY <2>1, AuditStays DEF ApartInv
    <2>3. CASE Reply(r)
      BY <1>3, <2>1, <2>2, <2>3, ApartMove
    <2>4. CASE /\ queue[call[r].id].status = "pending"
               /\ pc' = [pc EXCEPT ![r] = "upsert"]
               /\ call' = [call EXCEPT ![r].item = queue[call[r].id]]
      <3>1. /\ call'[r].id = call[r].id
            /\ \A s \in Reqs : s # r => pc'[s] = pc[s] /\ call'[s] = call[s]
        BY <1>1, <1>2, <2>4 DEF Call
      <3>2. pc'[r] = "upsert"
        BY <1>1, <2>4
      <3> QED
        BY <2>1, <2>2, <2>4, <3>1, <3>2 DEF ApartInv, Settled
    <2> QED
      BY <1>4, <2>3, <2>4 DEF Read
  <1>5. CASE Upsert(r)
    <2>1. /\ queue'[call[r].id].status = call[r].decision
          /\ Ledger!Next
          /\ \A id \in Known(r) : queue'[id] = queue[id]
      BY <1>5, StoredKeeps, StoredDecides DEF IInv, Upsert
    <2>2. pc' = [pc EXCEPT ![r] = "audit"] /\ UNCHANGED <<call, audit>>
      BY <1>5 DEF Upsert, Goto
    <2>3. AuditMatchesRecord'
      BY <2>1, <2>2, AuditStays
    <2> QED
      BY <2>1, <2>2, <2>3, ApartMove DEF Steps
  <1>6. CASE PushAudit(r)
    <2>1. /\ pc[r] = "audit" /\ pc' = [pc EXCEPT ![r] = "resume"]
          /\ UNCHANGED <<queue, call>>
          /\ audit' \subseteq audit \cup {[id |-> call[r].id, decision |-> call[r].decision]}
      BY <1>6 DEF PushAudit, Goto
    <2>2. queue[call[r].id].status = call[r].decision
      BY <2>1 DEF ApartInv, Settled
    <2>3. AuditMatchesRecord'
      BY <2>1, <2>2 DEF ApartInv, AuditMatchesRecord
    <2> QED
      BY <2>1, <2>2, <2>3, ApartMove DEF Steps
  <1>7. CASE Resume(r)
    <2>1. UNCHANGED <<queue, audit>> /\ pc[r] = "resume"
      BY <1>7 DEF Resume, store
    <2>2. AuditMatchesRecord'
      BY <2>1, AuditStays
    <2>3. CASE Reply(r)
      BY <1>3, <2>1, <2>2, <2>3, ApartMove
    <2>4. CASE Goto(r, "rerun")
      <3>1. queue[call[r].id].status = call[r].decision
        BY <2>1 DEF ApartInv, Settled
      <3> QED
        BY <2>1, <2>2, <2>4, <3>1, ApartMove DEF Goto, Steps
    <2> QED
      BY <1>7, <2>3, <2>4 DEF Resume
  <1>8. CASE Rerun(r)
    <2>1. /\ pc[r] = "rerun" /\ pc' = [pc EXCEPT ![r] = "resumed"]
          /\ UNCHANGED <<call, audit>>
          /\ call[r].item.thread \in Threads
      BY <1>8 DEF Rerun, Goto, IInv, TypeOK
    <2>2. /\ Ledger!Next \/ UNCHANGED queue
          /\ \A i \in Ids : queue[i].status # "absent" => queue'[i] = queue[i]
      BY <1>8, <2>1, WriteRaises DEF Rerun, IInv
    <2>3. \A id \in Known(r) : queue'[id] = queue[id]
      BY <2>2, KnownExist
    <2>4. queue[call[r].id].status = call[r].decision
      BY <2>1 DEF ApartInv, Settled
    <2>5. queue'[call[r].id].status = call[r].decision
      BY <1>2, <2>2, <2>4 DEF Decisions
    <2>6. AuditMatchesRecord'
      BY <2>1, <2>3, AuditStays
    <2> QED
      BY <2>1, <2>2, <2>3, <2>5, <2>6, ApartMove DEF Steps
  <1>9. CASE Resumed(r)
    <2>1. UNCHANGED <<queue, audit>> /\ Reply(r)
      BY <1>9 DEF Resumed
    <2>2. AuditMatchesRecord'
      BY <2>1, AuditStays
    <2> QED
      BY <1>3, <2>1, <2>2, ApartMove
  <1>10. CASE Fail(r)
    <2>1. Reply(r) /\ UNCHANGED audit
      BY <1>10 DEF Fail
    <2>2. /\ Ledger!Next \/ UNCHANGED queue
          /\ \A id \in Known(r) : queue'[id] = queue[id]
      BY <1>10, StoredDecides DEF Fail
    <2>3. AuditMatchesRecord'
      BY <2>1, <2>2, AuditStays
    <2> QED
      BY <1>3, <2>1, <2>2, <2>3, ApartMove
  <1> QED
    BY <1>4, <1>5, <1>6, <1>7, <1>8, <1>9, <1>10 DEF Handle

LEMMA ApartStep ==
    ASSUME IInv, ApartInv, [Next /\ Apart']_vars
    PROVE  ApartInv' /\ (Ledger!Next \/ UNCHANGED queue)
  <1>1. CASE UNCHANGED vars
    BY <1>1 DEF ApartInv, Apart, AuditMatchesRecord, Settled, vars
  <1>2. CASE Apart' /\ \E id \in Ids, t \in Threads : Raise(id, t)
    <2>1. PICK id \in Ids, t \in Threads : Raise(id, t)
      BY <1>2
    <2>2. /\ Ledger!Next
          /\ \A i \in Ids : queue[i].status # "absent" => queue'[i] = queue[i]
          /\ UNCHANGED <<pc, call, audit>>
      BY <2>1, WriteRaises DEF Raise, IInv
    <2>3. \A r \in Reqs : pc[r] \in Holding =>
              call[r].id \in Ids /\ queue[call[r].id].status # "absent"
      BY DEF IInv, TypeOK, CopyInv, Holding, Call
    <2>4. \A a \in audit : a.id \in Ids /\ queue[a.id].status # "absent"
      BY DEF IInv, TypeOK, AuditedIsDecided, Audit, Decisions
    <2> QED
      BY <1>2, <2>2, <2>3, <2>4 DEF ApartInv, AuditMatchesRecord, Holding, Settled
  <1>3. CASE Apart' /\ (\/ \E t \in Threads : Message(t)
                        \/ List)
    BY <1>3 DEF ApartInv, AuditMatchesRecord, Settled, Message, List
  <1>4. CASE Apart' /\ \E r \in Reqs, id \in Ids, d \in Decisions : Post(r, id, d)
    <2>1. PICK r \in Reqs, id \in Ids, d \in Decisions : Post(r, id, d)
      BY <1>4
    <2>2. /\ pc' = [pc EXCEPT ![r] = "read"]
          /\ \A s \in Reqs : s # r => call'[s] = call[s]
          /\ UNCHANGED <<queue, audit>>
      BY <2>1 DEF Post, IInv, TypeOK, store
    <2>3. AuditMatchesRecord'
      BY <2>2, AuditStays
    <2> QED
      BY <1>4, <2>2, <2>3, ApartMove DEF Steps, Settled
  <1>5. CASE Apart' /\ \E r \in Reqs : Handle(r) \/ Fail(r)
    BY <1>5, ApartHandle
  <1> QED
    BY <1>1, <1>2, <1>3, <1>4, <1>5 DEF Next

\* The invariant of a queue whose requests keep apart.
THEOREM ApartInvariance == ApartSpec => [](IInv /\ ApartInv)
  <1>1. Init => IInv /\ ApartInv
    BY InitInv, InitApart
  <1>2. IInv /\ ApartInv /\ [Next /\ Apart']_vars => (IInv /\ ApartInv)'
    BY NextInv, ApartStep
  <1> QED
    BY <1>1, <1>2, PTL DEF ApartSpec

\* Then the audit stream and the container agree, whatever fails.
THEOREM ApartAuditCorrect == ApartSpec => []AuditMatchesRecord
  <1>1. ApartInv => AuditMatchesRecord
    BY DEF ApartInv
  <1> QED
    BY <1>1, ApartInvariance, PTL

\* And the queue implements the ledger: every item is decided at most once.
THEOREM ApartImplementsLedger == ApartSpec => LedgerSpec
  <1>1. Init => Ledger!Init
    BY InitApart
  <1>2. IInv /\ ApartInv /\ [Next /\ Apart']_vars =>
            [Ledger!Next]_([id \in Ids |-> queue[id].status])
    BY ApartStep
  <1> QED
    BY <1>1, <1>2, ApartInvariance, PTL DEF ApartSpec, LedgerSpec, Ledger!Spec

\* ApartSpec is Spec with nothing but the race taken out: a behaviour of the
\* queue in which two requests never hold copies of one pending item.
THEOREM OnlyTheRaceBreaksTheLedger == Spec /\ []Apart => LedgerSpec
  <1>1. Apart' /\ [Next]_vars => [Next /\ Apart']_vars
    OBVIOUS
  <1>2. Spec /\ []Apart => ApartSpec
    BY <1>1, PTL DEF Spec, ApartSpec
  <1> QED
    BY <1>2, ApartImplementsLedger, PTL

\* In particular nothing is decided twice when one request runs at a time.
THEOREM OneAtATime ==
    ASSUME \A r, s \in Reqs : r = s PROVE Spec => LedgerSpec
  <1>1. Apart
    BY DEF Apart
  <1> QED
    BY <1>1, OnlyTheRaceBreaksTheLedger, PTL

=============================================================================
