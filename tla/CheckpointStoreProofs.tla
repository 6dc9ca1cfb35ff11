----------------------- MODULE CheckpointStoreProofs -----------------------
(***************************************************************************)
(* The latest checkpoint of a thread holds all that was saved on it, for   *)
(* any number of pods and runs, any skew of their clocks, and any restarts.*)
(* The stamps in the container say nothing of the order of two saves made  *)
(* by different pods within the skew: the invariant keeps, for a thread    *)
(* that was not disturbed, a run that may save ahead of every stamp.       *)
(***************************************************************************)
EXTENDS CheckpointStore, TLAPS

\* Every stamp is within the skew of the thread's last save.
StampsBounded ==
    \A t \in Threads : /\ last[t] <= now
                       /\ \A c \in cosmos[t] : c.ts <= last[t] + Skew

\* A process that compiled no graph runs nothing, and in development it has
\* lost what was saved; in production every graph uses the container.
SaversUsed ==
    /\ \A r \in Runs : run[r] # NoRun => saver[run[r].pod] # "none"
    /\ \A r \in Runs : run[r] # NoRun => run[r].pod \in replicas
    /\ development =>
          /\ \E p \in Pods : replicas = {p}
          /\ \A p \in replicas, t \in Threads : saver[p] = "none" => done[t] = {}
    /\ ~development => \A p \in Pods : saver[p] # "memory"

\* At most one run works on a thread that was not disturbed, and what it
\* saves next will be stamped later than all that is stored.
RunsAhead ==
    \A r \in Runs : run[r] # NoRun /\ ~disturbed[run[r].thread] =>
        /\ Active(run[r].thread) = {r}
        /\ \A c \in cosmos[run[r].thread] : c.ts < now + offset[run[r].pod]

\* What a load returns holds all that was saved.
Held ==
    \A t \in Threads, p \in replicas, route \in Routes :
        ~disturbed[t] =>
            \A state \in Loaded(p, t, Saver(p, route)) : done[t] \subseteq state

StoreInv ==
    /\ TypeOK
    /\ StampsBounded
    /\ SaversUsed
    /\ RunsAhead
    /\ Held
    /\ NothingForgotten

-----------------------------------------------------------------------------

\* The missing run is not a run.
LEMMA NoRunIsNoRun == NoRun \notin Run
  BY DEF NoRun, Run

\* What a route hands to get_graph is a checkpointer.
LEMMA SaverType ==
  ASSUME TypeOK, NEW p \in Pods, NEW route \in Routes
  PROVE  Saver(p, route) \in {"memory", "cosmos"}
  BY DEF TypeOK, Saver, Wanted, Savers

\* In production every graph reads and writes the container.
LEMMA ProductionSaver ==
  ASSUME SaversUsed, TypeOK, ~development, NEW p \in Pods, NEW route \in Routes
  PROVE  Saver(p, route) = "cosmos"
  BY DEF TypeOK, SaversUsed, Saver, Wanted, Savers

\* A load returns a state.
LEMMA LoadedType ==
  ASSUME TypeOK, NEW p \in Pods, NEW t \in Threads,
         NEW s \in {"memory", "cosmos"}
  PROVE  Loaded(p, t, s) \subseteq State
  <1>1. CASE s = "memory"
    BY <1>1 DEF TypeOK, Loaded
  <1>2. CASE s = "cosmos" /\ cosmos[t] = {}
    BY <1>2 DEF Loaded, State
  <1>3. CASE s = "cosmos" /\ cosmos[t] # {}
    <2>1. \A c \in Newest(t) : c.state \in State
      BY DEF TypeOK, Newest, Checkpoint
    <2>2. Loaded(p, t, s) = {c.state : c \in Newest(t)}
      BY <1>3 DEF Loaded
    <2> QED BY <2>1, <2>2
  <1> QED BY <1>1, <1>2, <1>3

LEMMA InitInv == Init => StoreInv
  <1> SUFFICES ASSUME Init PROVE StoreInv
    OBVIOUS
  <1> USE StoreAssumption
  <1>1. TypeOK
    BY DEF Init, TypeOK, Node, State, Savers
  <1>2. StampsBounded
    <2>1. \A t \in Threads : last[t] = -1 - Skew /\ cosmos[t] = {} /\ now = 0
      BY DEF Init
    <2>2. -1 - Skew <= 0
      OBVIOUS
    <2> QED BY <2>1, <2>2 DEF StampsBounded
  <1>3. SaversUsed
    BY DEF Init, SaversUsed
  <1>4. RunsAhead /\ NothingForgotten
    BY DEF Init, RunsAhead, NothingForgotten
  <1>5. Held
    BY DEF Init, Held
  <1> QED BY <1>1, <1>2, <1>3, <1>4, <1>5 DEF StoreInv

-----------------------------------------------------------------------------

\* A run that starts on a thread that stays undisturbed finds no other run
\* there, and every stamp in its past.
LEMMA StartKeeps ==
  ASSUME StoreInv, NEW r \in Runs, NEW p \in Pods, NEW t \in Threads,
         NEW route \in Routes, Start(r, p, t, route)
  PROVE  StoreInv'
  <1> USE StoreAssumption
  <1> DEFINE sv == Saver(p, route)
  <1>1. sv \in {"memory", "cosmos"}
    BY SaverType DEF StoreInv
  <1>2. PICK state \in Loaded(p, t, sv) :
          run' = [run EXCEPT ![r] = [pod |-> p, thread |-> t, state |-> state]]
    BY DEF Start
  <1>3. state \in State
    BY <1>1, <1>2, LoadedType DEF StoreInv
  <1>4. [pod |-> p, thread |-> t, state |-> state] \in Run
    BY <1>3 DEF Run
  <1>5. TypeOK'
    BY <1>1, <1>2, <1>4 DEF StoreInv, TypeOK, Start, setting, Savers
  <1>6. StampsBounded'
    BY DEF StoreInv, StampsBounded, Start
  <1>7. SaversUsed'
    <2>1. \A q \in Pods : saver'[q] = IF q = p THEN sv ELSE saver[q]
      BY DEF StoreInv, TypeOK, Start
    <2>2. p \in replicas /\ UNCHANGED <<replicas, development, done>>
      BY DEF Start, setting
    <2>3. \A x \in Runs : run'[x] # NoRun =>
             \/ x = r /\ run'[x].pod = p
             \/ x # r /\ run'[x] = run[x] /\ run[x].pod \in Pods
      BY <1>2 DEF StoreInv, TypeOK, Run
    <2>4. ~development => sv = "cosmos"
      BY ProductionSaver DEF StoreInv
    <2>5. \A x \in Runs : run'[x] # NoRun =>
             saver'[run'[x].pod] # "none" /\ run'[x].pod \in replicas
      BY <1>1, <2>1, <2>2, <2>3 DEF StoreInv, SaversUsed
    <2>6. development' =>
            /\ \E q \in Pods : replicas' = {q}
            /\ \A q \in replicas', u \in Threads : saver'[q] = "none" => done'[u] = {}
      BY <1>1, <2>1, <2>2 DEF StoreInv, SaversUsed
    <2>7. ~development' => \A q \in Pods : saver'[q] # "memory"
      BY <2>1, <2>2, <2>4 DEF StoreInv, SaversUsed
    <2> QED BY <2>2, <2>5, <2>6, <2>7 DEF SaversUsed
  <1>8. \A q \in replicas, rt \in Routes :
            Saver(q, rt)' = IF q = p THEN sv ELSE Saver(q, rt)
    BY <1>1 DEF StoreInv, TypeOK, Start, setting, Saver, Wanted
  <1>9. \A q, u, s : Loaded(q, u, s)' = Loaded(q, u, s)
    BY DEF Start, Loaded, Newest
  <1>10. \A u \in Threads : ~disturbed'[u] => ~disturbed[u]
    BY DEF StoreInv, TypeOK, Start
  <1>11. Held'
    BY <1>8, <1>9, <1>10 DEF StoreInv, Held, Start, setting
  <1>12. ~disturbed'[t] => Active(t) = {} /\ now > last[t] + Skew
    <2>1. disturbed'[t] = (disturbed[t] \/ Active(t) # {} \/ now <= last[t] + Skew)
      BY DEF StoreInv, TypeOK, Start
    <2>2. now \in Int /\ last[t] \in Int
      BY DEF StoreInv, TypeOK, Node
    <2>3. ~disturbed'[t] => Active(t) = {} /\ ~(now <= last[t] + Skew)
      BY <2>1, Zenon
    <2> QED BY <2>2, <2>3
  <1>13. RunsAhead'
    <2> SUFFICES ASSUME NEW x \in Runs, run'[x] # NoRun,
                        ~disturbed'[run'[x].thread]
                 PROVE  /\ Active(run[x].thread)' = {x}
                        /\ \A c \in cosmos'[run'[x].thread] :
                              c.ts < now' + offset'[run'[x].pod]
      BY DEF RunsAhead
    <2>1. CASE x = r
      <3>1. run'[x].thread = t /\ run'[x].pod = p /\ run'[x] # NoRun
        BY <2>1, <1>2, <1>4, NoRunIsNoRun DEF StoreInv, TypeOK
      <3>2. Active(t)' = {r}
        BY <3>1, <2>1, <1>2, <1>12 DEF Active, StoreInv, TypeOK
      <3>3. \A c \in cosmos[t] : c.ts < now + offset[p]
        BY <3>1, <1>12 DEF StoreInv, TypeOK, StampsBounded, Node, Checkpoint
      <3> QED BY <2>1, <3>1, <3>2, <3>3 DEF Start, setting
    <2>2. CASE x # r
      <3>1. run'[x] = run[x] /\ run[x].thread \in Threads
        BY <2>2, <1>2 DEF StoreInv, TypeOK, Run
      <3>2. run[x].thread # t
        BY <3>1, <1>12 DEF Active
      <3>3. Active(run[x].thread)' = Active(run[x].thread)
        <4>1. \A y \in Runs : y # r => run'[y] = run[y]
          BY <1>2 DEF StoreInv, TypeOK
        <4>2. run[r] = NoRun /\ run'[r].thread = t
          BY <1>2 DEF StoreInv, TypeOK, Start
        <4> QED BY <3>1, <3>2, <4>1, <4>2 DEF Active
      <3> QED BY <3>1, <3>3, <1>10 DEF StoreInv, RunsAhead, Start, setting
    <2> QED BY <2>1, <2>2
  <1>14. NothingForgotten'
    <2> SUFFICES ASSUME NEW x \in Runs, run'[x] # NoRun,
                        ~disturbed'[run'[x].thread]
                 PROVE  done'[run'[x].thread] \subseteq run'[x].state
      BY DEF NothingForgotten
    <2>1. CASE x = r
      BY <2>1, <1>2, <1>10 DEF StoreInv, TypeOK, Held, Start
    <2>2. CASE x # r
      BY <2>2, <1>2, <1>10 DEF StoreInv, TypeOK, Run, NothingForgotten, Start
    <2> QED BY <2>1, <2>2
  <1> QED BY <1>5, <1>6, <1>7, <1>11, <1>13, <1>14 DEF StoreInv

--------------------------------------------------------

\* A save on an undisturbed thread becomes its only newest checkpoint, and
\* the state it stores is that of the one run there.
LEMMA SaveKeeps ==
  ASSUME StoreInv, NEW r \in Runs, Save(r)
  PROVE  StoreInv'
  <1> USE StoreAssumption
  <1> DEFINE p == run[r].pod
             t == run[r].thread
             s == run[r].state \cup {now}
             new == [ts |-> now + offset[p], state |-> s]
  <1>1. /\ run[r] \in Run /\ run[r] # NoRun
        /\ p \in Pods /\ t \in Threads /\ p \in replicas
    BY DEF StoreInv, TypeOK, Save, Run, SaversUsed
  <1>2. now \in Nat /\ now < MaxTime /\ offset[p] \in 0..Skew
    BY <1>1 DEF StoreInv, TypeOK, Save, Node
  <1>3. s \in State /\ new \in Checkpoint
    BY <1>1, <1>2 DEF Run, State, Node, Checkpoint
  <1>4. \/ /\ saver[p] = "memory"
           /\ memory' = [memory EXCEPT ![p][t] = s]
           /\ cosmos' = cosmos
        \/ /\ saver[p] = "cosmos"
           /\ cosmos' = [cosmos EXCEPT ![t] = @ \cup {new}]
           /\ memory' = memory
    BY DEF Save, Stamp
  <1>5. /\ run' = [run EXCEPT ![r].state = s]
        /\ now' = now + 1
        /\ done' = [done EXCEPT ![t] = @ \cup {now}]
        /\ last' = [last EXCEPT ![t] = now]
        /\ UNCHANGED <<development, replicas, offset, saver, disturbed>>
    BY DEF Save, setting
  <1>6. \A x \in Runs :
            /\ x # r => run'[x] = run[x]
            /\ x = r => run'[x] = [run[r] EXCEPT !.state = s]
    BY <1>5 DEF StoreInv, TypeOK
  <1>7. /\ run'[r] \in Run /\ run'[r].pod = p /\ run'[r].thread = t
        /\ run'[r].state = s
    BY <1>1, <1>3, <1>6 DEF Run
  <1>8. \A x \in Runs : run'[x] # NoRun =>
            /\ run[x] # NoRun
            /\ run'[x].pod = run[x].pod /\ run'[x].thread = run[x].thread
    BY <1>1, <1>6, <1>7
  <1>9. TypeOK'
    <2> HIDE DEF s, new
    <2>0. /\ cosmos \in [Threads -> SUBSET Checkpoint]
          /\ memory \in [Pods -> [Threads -> State]]
          /\ done \in [Threads -> State]
          /\ last \in [Threads -> (-1 - Skew)..MaxTime]
      BY DEF StoreInv, TypeOK
    <2>1. cosmos' \in [Threads -> SUBSET Checkpoint]
      <3>1. cosmos[t] \cup {new} \in SUBSET Checkpoint
        BY <1>1, <1>3, <2>0
      <3> QED BY <1>4, <2>0, <3>1
    <2>2. memory' \in [Pods -> [Threads -> State]]
      <3>1. [memory[p] EXCEPT ![t] = s] \in [Threads -> State]
        BY <1>1, <1>3, <2>0
      <3> QED BY <1>4, <2>0, <3>1
    <2>3. run' \in [Runs -> Run \cup {NoRun}]
      BY <1>5, <1>6, <1>7 DEF StoreInv, TypeOK
    <2>4. now' \in Node /\ done' \in [Threads -> State]
      <3>1. now' \in Node /\ now \in Node
        BY <1>2, <1>5 DEF Node
      <3>2. done[t] \cup {now} \in State
        BY <1>1, <2>0, <3>1 DEF State
      <3> QED BY <1>5, <2>0, <3>1, <3>2
    <2>5. last' \in [Threads -> (-1 - Skew)..MaxTime]
      <3>1. now \in (-1 - Skew)..MaxTime
        BY <1>2
      <3> QED BY <1>5, <2>0, <3>1
    <2> QED BY <1>5, <2>1, <2>2, <2>3, <2>4, <2>5 DEF StoreInv, TypeOK
  <1>10. StampsBounded'
    <2> SUFFICES ASSUME NEW u \in Threads
                 PROVE  /\ last'[u] <= now'
                        /\ \A c \in cosmos'[u] : c.ts <= last'[u] + Skew
      BY DEF StampsBounded
    <2>1. CASE u = t
      <3>1. last'[u] = now
        BY <2>1, <1>5 DEF StoreInv, TypeOK
      <3>2. cosmos'[u] \subseteq cosmos[u] \cup {new}
        BY <2>1, <1>4 DEF StoreInv, TypeOK
      <3>3. last[u] <= now /\ \A c \in cosmos[u] : c.ts <= last[u] + Skew
        BY DEF StoreInv, StampsBounded
      <3>4. /\ last[u] \in Int
            /\ \A c \in cosmos[u] : c.ts \in Int
        BY DEF StoreInv, TypeOK, Checkpoint
      <3>5. \A c \in cosmos[u] : c.ts <= now + Skew
        BY <1>2, <3>3, <3>4
      <3>6. new.ts <= now + Skew
        BY <1>2
      <3> QED BY <1>2, <1>5, <3>1, <3>2, <3>5, <3>6
    <2>2. CASE u # t
      <3>1. last'[u] = last[u] /\ cosmos'[u] = cosmos[u] /\ last[u] \in Int
        BY <2>2, <1>4, <1>5 DEF StoreInv, TypeOK
      <3> QED BY <3>1, <1>2, <1>5 DEF StoreInv, StampsBounded
    <2> QED BY <2>1, <2>2
  <1>11. SaversUsed'
    <2>1. \A q \in replicas, u \in Threads :
              development /\ saver[q] = "none" => done'[u] = {}
      <3>1. development => replicas = {p}
        BY <1>1 DEF StoreInv, SaversUsed
      <3>2. saver[p] # "none"
        BY <1>1 DEF StoreInv, SaversUsed
      <3> QED BY <3>1, <3>2
    <2> QED BY <1>5, <1>8, <2>1 DEF StoreInv, SaversUsed
  <1>12. ~disturbed[t] =>
            /\ Active(t) = {r} /\ done[t] \subseteq run[r].state
            /\ \A c \in cosmos[t] : c.ts < now + offset[p]
    BY <1>1 DEF StoreInv, RunsAhead, NothingForgotten
  <1>13. RunsAhead'
    <2> SUFFICES ASSUME NEW x \in Runs, run'[x] # NoRun,
                        ~disturbed'[run'[x].thread]
                 PROVE  /\ Active(run[x].thread)' = {x}
                        /\ \A c \in cosmos'[run'[x].thread] :
                              c.ts < now' + offset'[run'[x].pod]
      BY DEF RunsAhead
    <2> DEFINE u == run[x].thread
    <2>1. /\ run[x] # NoRun /\ ~disturbed[u] /\ u \in Threads
          /\ run'[x].thread = u /\ run'[x].pod = run[x].pod
          /\ run[x].pod \in Pods
      BY <1>5, <1>8 DEF StoreInv, TypeOK, Run
    <2>2. /\ Active(u) = {x}
          /\ \A c \in cosmos[u] : c.ts < now + offset[run[x].pod]
      BY <2>1 DEF StoreInv, RunsAhead
    <2>3. \A y \in Runs :
             (run'[y] # NoRun) = (run[y] # NoRun) /\ run'[y].thread = run[y].thread
      BY <1>1, <1>6, <1>7, NoRunIsNoRun
    <2>4. Active(run[x].thread)' = {x}
      BY <2>1, <2>2, <2>3 DEF Active
    <2>5. \A c \in cosmos[u] : c.ts < now + 1 + offset[run[x].pod]
      <3>1. \A c \in cosmos[u] : c.ts \in Int
        BY <2>1 DEF StoreInv, TypeOK, Checkpoint
      <3>2. offset[run[x].pod] \in Int
        BY <2>1 DEF StoreInv, TypeOK
      <3> QED BY <1>2, <2>2, <3>1, <3>2
    <2>6. CASE u # t
      <3>1. cosmos'[u] = cosmos[u]
        BY <1>4, <2>1, <2>6 DEF StoreInv, TypeOK
      <3> QED BY <1>5, <2>1, <2>4, <2>5, <3>1
    <2>7. CASE u = t
      <3>1. x = r
        BY <1>1, <2>2, <2>7 DEF Active
      <3>2. cosmos'[u] \subseteq cosmos[u] \cup {new}
        BY <1>4, <2>1, <2>7 DEF StoreInv, TypeOK
      <3>3. new.ts < now + 1 + offset[run[x].pod]
        BY <1>2, <3>1
      <3> QED BY <1>5, <2>1, <2>4, <2>5, <3>2, <3>3
    <2> QED BY <2>6, <2>7
  <1>14. \A q, rt : Saver(q, rt)' = Saver(q, rt)
    BY <1>5 DEF Saver, Wanted
  <1>15. Held'
    <2> SUFFICES ASSUME NEW u \in Threads, NEW q \in replicas', NEW rt \in Routes,
                        ~disturbed'[u],
                        NEW state \in Loaded(q, u, Saver(q, rt))'
                 PROVE  done'[u] \subseteq state
      BY DEF Held
    <2>1. q \in replicas /\ q \in Pods /\ ~disturbed[u]
      BY <1>5 DEF StoreInv, TypeOK
    <2>3. CASE u # t
      <3>1. /\ cosmos'[u] = cosmos[u] /\ memory'[q][u] = memory[q][u]
            /\ done'[u] = done[u]
        <4> HIDE DEF s, new
        <4>1. cosmos'[u] = cosmos[u]
          BY <1>4, <2>3 DEF StoreInv, TypeOK
        <4>2. memory'[q][u] = memory[q][u]
          BY <1>4, <2>1, <2>3, SMTT(30) DEF StoreInv, TypeOK
        <4>3. done'[u] = done[u]
          BY <1>5, <2>3 DEF StoreInv, TypeOK
        <4> QED BY <4>1, <4>2, <4>3
      <3>2. Loaded(q, u, Saver(q, rt))' = Loaded(q, u, Saver(q, rt))
        BY <1>14, <3>1 DEF Loaded, Newest
      <3> QED BY <2>1, <3>1, <3>2 DEF StoreInv, Held
    <2>4. CASE u = t
      <3>1. done'[t] = done[t] \cup {now}
        BY <1>1, <1>5 DEF StoreInv, TypeOK
      <3>2. done'[t] \subseteq s
        BY <1>12, <2>1, <2>4, <3>1
      <3>3. CASE saver[p] = "memory"
        <4>1. q = p
          BY <1>1, <2>1, <3>3 DEF StoreInv, SaversUsed
        <4>2. Saver(q, rt) = "memory" /\ memory'[p][t] = s
          BY <1>1, <1>4, <3>3, <4>1 DEF StoreInv, TypeOK, Saver
        <4>3. state = s
          BY <1>14, <2>4, <4>1, <4>2 DEF Loaded
        <4> QED BY <2>4, <3>2, <4>3
      <3>4. CASE saver[p] = "cosmos"
        <4>1. Saver(q, rt) = "cosmos"
          <5>1. CASE development
            BY <1>1, <2>1, <3>4, <5>1 DEF StoreInv, SaversUsed, Saver
          <5>2. CASE ~development
            BY <2>1, <5>2, ProductionSaver DEF StoreInv
          <5> QED BY <5>1, <5>2
        <4>2. cosmos'[u] = cosmos[u] \cup {new}
          BY <1>1, <1>4, <2>4, <3>4 DEF StoreInv, TypeOK
        <4>3. \A c \in cosmos[u] : c.ts \in Int /\ c.ts < new.ts
          BY <1>1, <1>12, <2>1, <2>4 DEF StoreInv, TypeOK, Checkpoint
        <4>4. \A c \in cosmos[u] : ~(new.ts <= c.ts)
          BY <1>2, <4>3
        <4> HIDE DEF new
        <4>5. \A c \in Newest(u)' : c = new
          BY <4>2, <4>4 DEF Newest
        <4>6. state \in {c.state : c \in Newest(u)'}
          BY <1>14, <4>1, <4>2 DEF Loaded
        <4> USE DEF new
        <4>7. state = s
          BY <4>5, <4>6
        <4> QED BY <2>4, <3>2, <4>7
      <3> QED BY <1>4, <3>3, <3>4
    <2> QED BY <2>3, <2>4
  <1>16. NothingForgotten'
    <2> SUFFICES ASSUME NEW x \in Runs, run'[x] # NoRun,
                        ~disturbed'[run'[x].thread]
                 PROVE  done'[run'[x].thread] \subseteq run'[x].state
      BY DEF NothingForgotten
    <2>1. run[x] # NoRun /\ run'[x].thread = run[x].thread
          /\ run[x].thread \in Threads /\ ~disturbed[run[x].thread]
      BY <1>5, <1>8 DEF StoreInv, TypeOK, Run
    <2>2. CASE x = r
      BY <1>1, <1>5, <1>7, <1>12, <2>1, <2>2 DEF StoreInv, TypeOK
    <2>3. CASE x # r
      <3>1. run[x].thread # t
        BY <1>12, <2>1, <2>3 DEF Active
      <3>2. done'[run[x].thread] = done[run[x].thread] /\ run'[x] = run[x]
        BY <1>5, <1>6, <2>1, <2>3, <3>1 DEF StoreInv, TypeOK
      <3> QED BY <2>1, <3>2 DEF StoreInv, NothingForgotten
    <2> QED BY <2>2, <2>3
  <1> QED BY <1>9, <1>10, <1>11, <1>13, <1>15, <1>16 DEF StoreInv

--------------------------------------------------------

LEMMA EndKeeps ==
  ASSUME StoreInv, NEW r \in Runs, End(r)
  PROVE  StoreInv'
  <1> USE DEF StoreInv, End, setting
  <1>1. \A x \in Runs :
            run'[x] = (IF x = r THEN NoRun ELSE run[x])
    BY DEF TypeOK
  <1>2. TypeOK'
    BY DEF TypeOK
  <1>3. StampsBounded' /\ SaversUsed'
    BY <1>1 DEF StampsBounded, SaversUsed
  <1>4. \A x \in Runs : run'[x] # NoRun => x # r /\ run'[x] = run[x]
    BY <1>1
  <1>5. RunsAhead'
    <2> SUFFICES ASSUME NEW x \in Runs, run'[x] # NoRun,
                        ~disturbed'[run'[x].thread]
                 PROVE  /\ Active(run[x].thread)' = {x}
                        /\ \A c \in cosmos'[run'[x].thread] :
                              c.ts < now' + offset'[run'[x].pod]
      BY DEF RunsAhead
    <2>1. /\ run[x] # NoRun /\ run'[x] = run[x]
          /\ Active(run[x].thread) = {x}
          /\ \A c \in cosmos[run[x].thread] : c.ts < now + offset[run[x].pod]
      BY <1>4 DEF RunsAhead
    <2>2. Active(run[x].thread)' = {x}
      BY <1>4, <2>1 DEF Active
    <2> QED BY <2>1, <2>2
  <1>6. \A q, t, rt : Loaded(q, t, Saver(q, rt))' = Loaded(q, t, Saver(q, rt))
    BY DEF Loaded, Newest, Saver, Wanted
  <1>7. Held'
    BY <1>6 DEF Held
  <1>8. NothingForgotten'
    BY <1>4 DEF NothingForgotten
  <1> QED BY <1>2, <1>3, <1>5, <1>7, <1>8

\* A restart loses runs and memory, in production nothing a load would return.
LEMMA RestartKeeps ==
  ASSUME StoreInv, NEW p \in Pods, Restart(p)
  PROVE  StoreInv'
  <1> USE DEF StoreInv, setting
  <1>1. /\ \A x \in Runs : run'[x] = (IF run[x].pod = p THEN NoRun ELSE run[x])
        /\ \A q \in Pods : saver'[q] = (IF q = p THEN "none" ELSE saver[q])
        /\ \A t \in Threads : done'[t] = (IF development THEN {} ELSE done[t])
        /\ UNCHANGED <<development, replicas, offset, now, cosmos, last, disturbed>>
    BY DEF TypeOK, Restart
  <1>2. \A x \in Runs : run'[x] # NoRun => run[x].pod # p /\ run'[x] = run[x]
    BY <1>1
  <1>3. TypeOK'
    <2>1. run' \in [Runs -> Run \cup {NoRun}]
      BY DEF TypeOK, Restart
    <2>2. memory' \in [Pods -> [Threads -> State]]
      BY DEF TypeOK, Restart, State
    <2>3. saver' \in [Pods -> Savers]
      BY DEF TypeOK, Restart, Savers
    <2>4. done' \in [Threads -> State]
      BY DEF TypeOK, Restart, State
    <2> QED BY <1>1, <2>1, <2>2, <2>3, <2>4 DEF TypeOK
  <1>4. StampsBounded'
    BY <1>1 DEF StampsBounded
  <1>5. SaversUsed'
    <2>1. \A x \in Runs : run'[x] # NoRun =>
             saver'[run'[x].pod] # "none" /\ run'[x].pod \in replicas
      <3> SUFFICES ASSUME NEW x \in Runs, run'[x] # NoRun
                   PROVE  saver'[run'[x].pod] # "none" /\ run'[x].pod \in replicas
        OBVIOUS
      <3>1. run'[x] = run[x] /\ run[x].pod # p /\ run[x] \in Run
        BY <1>2 DEF TypeOK
      <3> QED BY <1>1, <3>1 DEF SaversUsed, Run
    <2>2. development' =>
            /\ \E q \in Pods : replicas' = {q}
            /\ \A q \in replicas', t \in Threads : saver'[q] = "none" => done'[t] = {}
      BY <1>1 DEF SaversUsed
    <2>3. ~development' => \A q \in Pods : saver'[q] # "memory"
      BY <1>1 DEF SaversUsed
    <2> QED BY <1>1, <2>1, <2>2, <2>3 DEF SaversUsed
  <1>6. RunsAhead'
    <2> SUFFICES ASSUME NEW x \in Runs, run'[x] # NoRun,
                        ~disturbed'[run'[x].thread]
                 PROVE  /\ Active(run[x].thread)' = {x}
                        /\ \A c \in cosmos'[run'[x].thread] :
                              c.ts < now' + offset'[run'[x].pod]
      BY DEF RunsAhead
    <2>1. /\ run[x] # NoRun /\ run'[x] = run[x]
          /\ Active(run[x].thread) = {x}
          /\ \A c \in cosmos[run[x].thread] : c.ts < now + offset[run[x].pod]
      BY <1>1, <1>2 DEF RunsAhead
    <2>2. Active(run[x].thread)' = {x}
      BY <1>2, <2>1 DEF Active
    <2> QED BY <1>1, <2>1, <2>2
  <1>7. CASE development
    <2>1. \A t \in Threads : done'[t] = {}
      BY <1>1, <1>7
    <2>2. Held'
      BY <2>1 DEF Held
    <2>3. NothingForgotten'
      <3>1. \A x \in Runs : run'[x] # NoRun => run'[x].thread \in Threads
        BY <1>3 DEF TypeOK, Run
      <3> QED BY <2>1, <3>1 DEF NothingForgotten
    <2> QED BY <1>3, <1>4, <1>5, <1>6, <2>2, <2>3
  <1>8. CASE ~development
    <2>1. Held'
      <3> SUFFICES ASSUME NEW t \in Threads, NEW q \in replicas', NEW rt \in Routes,
                          ~disturbed'[t],
                          NEW state \in Loaded(q, t, Saver(q, rt))'
                   PROVE  done'[t] \subseteq state
        BY DEF Held
      <3>1. q \in replicas /\ q \in Pods /\ ~disturbed[t]
        BY <1>1 DEF TypeOK
      <3>2. Saver(q, rt) = "cosmos"
        BY <1>8, <3>1, ProductionSaver
      <3>3. Saver(q, rt)' = "cosmos"
        BY <1>1, <1>8, <3>1, <3>2 DEF Saver, Wanted
      <3>4. Loaded(q, t, "cosmos")' = Loaded(q, t, "cosmos")
        BY <1>1 DEF Loaded, Newest
      <3>5. state \in Loaded(q, t, Saver(q, rt))
        BY <3>2, <3>3, <3>4
      <3> QED BY <1>1, <1>8, <3>1, <3>5 DEF Held
    <2>2. NothingForgotten'
      <3>1. \A x \in Runs : run'[x] # NoRun =>
               run'[x] = run[x] /\ run[x] # NoRun /\ run[x].thread \in Threads
        BY <1>2 DEF TypeOK, Run
      <3> QED BY <1>1, <1>8, <3>1 DEF NothingForgotten
    <2> QED BY <1>3, <1>4, <1>5, <1>6, <2>1, <2>2
  <1> QED BY <1>7, <1>8

LEMMA WaitKeeps ==
  ASSUME StoreInv, Wait
  PROVE  StoreInv'
  <1> USE StoreAssumption DEF StoreInv, Wait, setting
  <1>1. now \in Nat /\ now < MaxTime /\ now' = now + 1
    BY DEF TypeOK, Node
  <1>2. TypeOK'
    BY <1>1 DEF TypeOK, Node
  <1>3. StampsBounded'
    <2>1. \A t \in Threads : last[t] \in Int
      BY DEF TypeOK
    <2> QED BY <1>1, <2>1 DEF StampsBounded
  <1>4. SaversUsed'
    BY DEF SaversUsed
  <1>5. RunsAhead'
    <2> SUFFICES ASSUME NEW x \in Runs, run[x] # NoRun, ~disturbed[run[x].thread]
                 PROVE  /\ Active(run[x].thread)' = {x}
                        /\ \A c \in cosmos[run[x].thread] :
                              c.ts < now' + offset[run[x].pod]
      BY DEF RunsAhead
    <2>1. /\ Active(run[x].thread) = {x}
          /\ \A c \in cosmos[run[x].thread] : c.ts < now + offset[run[x].pod]
      BY DEF RunsAhead
    <2>2. Active(run[x].thread)' = {x}
      BY <2>1 DEF Active
    <2>3. /\ offset[run[x].pod] \in Int
          /\ \A c \in cosmos[run[x].thread] : c.ts \in Int
      BY DEF TypeOK, Run, Checkpoint
    <2> QED BY <1>1, <2>1, <2>2, <2>3
  <1>6. \A q, t, rt : Loaded(q, t, Saver(q, rt))' = Loaded(q, t, Saver(q, rt))
    BY DEF Loaded, Newest, Saver, Wanted
  <1>7. Held'
    BY <1>6 DEF Held
  <1>8. NothingForgotten'
    BY DEF NothingForgotten
  <1> QED BY <1>2, <1>3, <1>4, <1>5, <1>7, <1>8

LEMMA StutterKeeps ==
  ASSUME StoreInv, UNCHANGED vars
  PROVE  StoreInv'
  <1> USE DEF StoreInv, vars
  <1>1. TypeOK' /\ StampsBounded' /\ SaversUsed'
    BY DEF TypeOK, StampsBounded, SaversUsed
  <1>2. RunsAhead' /\ NothingForgotten'
    BY DEF RunsAhead, NothingForgotten, Active
  <1>3. Held'
    BY DEF Held, Loaded, Newest, Saver, Wanted
  <1> QED BY <1>1, <1>2, <1>3

-----------------------------------------------------------------------------

\* The invariant holds whatever runs overlap and whatever pods restart.
THEOREM Invariance == Spec => []StoreInv
  <1>1. StoreInv /\ [Next]_vars => StoreInv'
    <2> SUFFICES ASSUME StoreInv, [Next]_vars PROVE StoreInv'
      OBVIOUS
    <2>1. ASSUME NEW r \in Runs, NEW p \in Pods, NEW t \in Threads,
                 NEW route \in Routes, Start(r, p, t, route)
          PROVE  StoreInv'
      BY <2>1, StartKeeps
    <2>2. ASSUME NEW r \in Runs, Save(r) PROVE StoreInv'
      BY <2>2, SaveKeeps
    <2>3. ASSUME NEW r \in Runs, End(r) PROVE StoreInv'
      BY <2>3, EndKeeps
    <2>4. ASSUME NEW p \in Pods, Restart(p) PROVE StoreInv'
      BY <2>4, RestartKeeps
    <2>5. CASE Wait
      BY <2>5, WaitKeeps
    <2>6. CASE UNCHANGED vars
      BY <2>6, StutterKeeps
    <2> QED BY <2>1, <2>2, <2>3, <2>4, <2>5, <2>6 DEF Next
  <1> QED BY <1>1, InitInv, PTL DEF Spec

\* Every variable of the store keeps its type.
THEOREM TypeCorrect == Spec => []TypeOK
  <1>1. StoreInv => TypeOK
    BY DEF StoreInv
  <1> QED BY <1>1, Invariance, PTL

\* A thread can be resumed by any replica, after any restarts, with the result
\* of every node that was saved.
THEOREM ResumeCorrect == Spec => []ResumableAnywhere
  <1>1. StoreInv => ResumableAnywhere
    BY DEF StoreInv, Held, ResumableAnywhere
  <1> QED BY <1>1, Invariance, PTL

\* A run on an undisturbed thread works on all that was saved there.
THEOREM NothingLost == Spec => []NothingForgotten
  <1>1. StoreInv => NothingForgotten
    BY DEF StoreInv
  <1> QED BY <1>1, Invariance, PTL

-----------------------------------------------------------------------------
(***************************************************************************)
(* The container implements a memory for each thread.  The invariant above *)
(* says that a load finds no less than was saved; that it finds no more    *)
(* takes the fact that in production nothing is ever in a checkpoint, or in*)
(* a run, that was not saved on its thread.                                *)
(***************************************************************************)
NothingElse ==
    ~development =>
        /\ \A t \in Threads : \A c \in cosmos[t] : c.state \subseteq done[t]
        /\ \A r \in Runs : run[r] # NoRun => run[r].state \subseteq done[run[r].thread]

\* In production a load returns what a checkpoint holds, or nothing.
LEMMA LoadedWasSaved ==
  ASSUME StoreInv, NothingElse, ~development, NEW p \in Pods, NEW t \in Threads,
         NEW route \in Routes, NEW state \in Loaded(p, t, Saver(p, route))
  PROVE  state \subseteq done[t]
  <1>1. Saver(p, route) = "cosmos"
    BY ProductionSaver DEF StoreInv
  <1>2. CASE cosmos[t] = {}
    BY <1>1, <1>2 DEF Loaded
  <1>3. CASE cosmos[t] # {}
    <2>1. state \in {c.state : c \in Newest(t)}
      BY <1>1, <1>3 DEF Loaded
    <2> QED BY <2>1 DEF Newest, NothingElse
  <1> QED BY <1>2, <1>3

LEMMA StartElse ==
  ASSUME StoreInv, NothingElse, NEW r \in Runs, NEW p \in Pods, NEW t \in Threads,
         NEW route \in Routes, Start(r, p, t, route)
  PROVE  NothingElse'
  <1>1. PICK state \in Loaded(p, t, Saver(p, route)) :
          run' = [run EXCEPT ![r] = [pod |-> p, thread |-> t, state |-> state]]
    BY DEF Start
  <1>2. UNCHANGED <<development, cosmos, done>>
    BY DEF Start, setting
  <1>3. \A x \in Runs : run'[x] = IF x = r THEN [pod |-> p, thread |-> t, state |-> state]
                                  ELSE run[x]
    BY <1>1 DEF StoreInv, TypeOK
  <1>4. ~development => state \subseteq done[t]
    BY LoadedWasSaved
  <1> QED BY <1>2, <1>3, <1>4 DEF NothingElse

LEMMA SaveElse ==
  ASSUME StoreInv, NothingElse, NEW r \in Runs, Save(r)
  PROVE  NothingElse'
  <1> DEFINE t == run[r].thread
             s == run[r].state \cup {now}
             new == [ts |-> now + offset[run[r].pod], state |-> s]
  <1> SUFFICES ASSUME ~development' PROVE NothingElse'
    BY DEF NothingElse
  <1>1. run[r] \in Run /\ run[r] # NoRun /\ t \in Threads /\ ~development
    BY DEF StoreInv, TypeOK, Save, Run, setting
  <1>2. done' = [done EXCEPT ![t] = @ \cup {now}]
    BY DEF Save
  <1>3. \A u \in Threads : done[u] \subseteq done'[u]
    BY <1>1, <1>2 DEF StoreInv, TypeOK
  <1>4. s \subseteq done'[t]
    BY <1>1, <1>2 DEF NothingElse, StoreInv, TypeOK
  <1>5. cosmos' = cosmos \/ cosmos' = [cosmos EXCEPT ![t] = @ \cup {new}]
    BY DEF Save, Stamp
  <1>6. \A u \in Threads : \A c \in cosmos'[u] : c \in cosmos[u] \/ (u = t /\ c.state = s)
    <2>1. \A u \in Threads : cosmos'[u] \subseteq cosmos[u] \cup (IF u = t THEN {new} ELSE {})
      <3> HIDE DEF t, new
      <3> QED BY <1>5 DEF StoreInv, TypeOK
    <2>2. new.state = s
      OBVIOUS
    <2> HIDE DEF new, s
    <2> QED BY <2>1, <2>2
  <1>7. run' = [run EXCEPT ![r].state = s]
    BY DEF Save
  <1>8. \A x \in Runs : /\ x # r => run'[x] = run[x]
                        /\ x = r => run'[x].thread = t /\ run'[x].state = s
    BY <1>1, <1>7 DEF StoreInv, TypeOK, Run
  <1>9. \A x \in Runs : run[x] # NoRun => run[x].thread \in Threads
    BY DEF StoreInv, TypeOK, Run
  <1>10. \A u \in Threads : \A c \in cosmos'[u] : c.state \subseteq done'[u]
    BY <1>1, <1>3, <1>4, <1>6 DEF NothingElse
  <1>11. \A x \in Runs : run'[x] # NoRun => run'[x].state \subseteq done'[run'[x].thread]
    BY <1>1, <1>3, <1>4, <1>8, <1>9 DEF NothingElse
  <1> QED BY <1>10, <1>11 DEF NothingElse

LEMMA InitElse == Init => NothingElse
  BY DEF Init, NothingElse

LEMMA NextElse == StoreInv /\ NothingElse /\ [Next]_vars => NothingElse'
  <1> SUFFICES ASSUME StoreInv, NothingElse, [Next]_vars PROVE NothingElse'
    OBVIOUS
  <1>1. ASSUME NEW r \in Runs, End(r) PROVE NothingElse'
    <2>1. \A x \in Runs : run'[x] # NoRun => run'[x] = run[x]
      BY <1>1 DEF End, StoreInv, TypeOK
    <2> QED BY <1>1, <2>1 DEF End, setting, NothingElse
  <1>2. ASSUME NEW p \in Pods, Restart(p) PROVE NothingElse'
    <2>1. \A x \in Runs : run'[x] # NoRun => run'[x] = run[x]
      BY <1>2 DEF Restart
    <2>2. UNCHANGED <<development, cosmos>> /\ (~development => done' = done)
      BY <1>2 DEF Restart, setting
    <2> QED BY <2>1, <2>2 DEF NothingElse
  <1>3. CASE Wait
    BY <1>3 DEF Wait, setting, NothingElse
  <1>4. CASE UNCHANGED vars
    BY <1>4 DEF vars, NothingElse
  <1> QED BY <1>1, <1>2, <1>3, <1>4, StartElse, SaveElse DEF Next

\* The refinement mapping.
RunBar == [r \in Runs |-> IF run[r] = NoRun THEN NoRun
                          ELSE [thread |-> run[r].thread, state |-> run[r].state]]
SpoiledBar == [t \in Threads |-> development \/ disturbed[t]]

\* A run starts from the memory of its thread.
LEMMA StartsFromMemory ==
  ASSUME StoreInv, NothingElse, NEW r \in Runs, NEW p \in Pods, NEW t \in Threads,
         NEW route \in Routes, Start(r, p, t, route)
  PROVE  Memory!Start(r, t)
  <1> USE StoreAssumption
  <1>1. Saver(p, route) \in {"memory", "cosmos"}
    BY SaverType DEF StoreInv
  <1>2. PICK state \in Loaded(p, t, Saver(p, route)) :
          run' = [run EXCEPT ![r] = [pod |-> p, thread |-> t, state |-> state]]
    BY DEF Start
  <1>3. state \in State
    BY <1>1, <1>2, LoadedType DEF StoreInv
  <1>4. [pod |-> p, thread |-> t, state |-> state] \in Run
    BY <1>3 DEF Run
  <1>5. /\ run[r] = NoRun
        /\ UNCHANGED <<development, done>>
    BY DEF Start, setting
  <1>6. \A x \in Runs : x # r => run'[x] = run[x]
    BY <1>2 DEF StoreInv, TypeOK
  <1>7. RunBar'[r] = [thread |-> t, state |-> state]
    BY <1>2, <1>4, NoRunIsNoRun DEF RunBar, StoreInv, TypeOK
  <1>8. RunBar' = [RunBar EXCEPT ![r] = RunBar'[r]]
    BY <1>6 DEF RunBar
  <1>9. RunBar'[r] \in [thread : {t}, state : State]
    BY <1>3, <1>7
  <1>10. \A u \in Threads : u # t => disturbed'[u] = disturbed[u]
    BY DEF Start, StoreInv, TypeOK
  <1>11. /\ disturbed[t] \in BOOLEAN /\ disturbed'[t] \in BOOLEAN
         /\ disturbed[t] => disturbed'[t]
    BY DEF Start, StoreInv, TypeOK
  <1>12. \/ SpoiledBar' = [SpoiledBar EXCEPT ![t] = TRUE]
         \/ UNCHANGED SpoiledBar
    <2>1. CASE disturbed'[t]
      BY <1>5, <1>10, <2>1 DEF SpoiledBar
    <2>2. CASE ~disturbed'[t]
      <3>1. \A u \in Threads : disturbed'[u] = disturbed[u]
        BY <1>10, <1>11, <2>2
      <3> QED BY <1>5, <3>1 DEF SpoiledBar
    <2> QED BY <2>1, <2>2
  <1>13. ASSUME ~SpoiledBar'[t]
         PROVE  Active(t) = {} /\ state = done[t]
    <2>1. ~development /\ ~disturbed'[t] /\ ~disturbed[t]
      BY <1>5, <1>11, <1>13 DEF SpoiledBar
    <2>2. disturbed'[t] = (disturbed[t] \/ Active(t) # {} \/ now <= last[t] + Skew)
      BY DEF StoreInv, TypeOK, Start
    <2>3. Active(t) = {}
      BY <2>1, <2>2, Zenon
    <2>4. done[t] \subseteq state
      BY <2>1 DEF StoreInv, Held, Start
    <2>5. state \subseteq done[t]
      BY <2>1, LoadedWasSaved
    <2> QED BY <2>3, <2>4, <2>5
  <1>14. ~SpoiledBar'[t] =>
            /\ \A x \in Runs : RunBar[x] # NoRun => RunBar[x].thread # t
            /\ RunBar'[r].state = done[t]
    BY <1>7, <1>13 DEF Active, RunBar
  <1> QED
    BY <1>5, <1>8, <1>9, <1>12, <1>14
    DEF RunBar, SpoiledBar, Memory!Start, Memory!Alone

\* A save replaces the memory of its thread.
LEMMA SavesToMemory ==
  ASSUME StoreInv, NothingElse, NEW r \in Runs, Save(r)
  PROVE  Memory!Save(r)
  <1> DEFINE t == run[r].thread
             s == run[r].state \cup {now}
  <1>1. run[r] \in Run /\ run[r] # NoRun /\ t \in Threads
    BY DEF StoreInv, TypeOK, Save, Run
  <1>2. /\ run' = [run EXCEPT ![r].state = s]
        /\ done' = [done EXCEPT ![t] = @ \cup {now}]
        /\ UNCHANGED <<development, disturbed>>
    BY DEF Save, setting
  <1>3. s \in State
    BY <1>1 DEF StoreInv, TypeOK, Run, State
  <1>4. \A x \in Runs : x # r => run'[x] = run[x]
    BY <1>2 DEF StoreInv, TypeOK
  <1>5. run'[r] \in Run /\ run'[r].thread = t /\ run'[r].state = s
    BY <1>1, <1>2, <1>3 DEF StoreInv, TypeOK, Run
  <1>6. /\ RunBar[r] = [thread |-> t, state |-> run[r].state]
        /\ RunBar'[r] = [thread |-> t, state |-> s]
    BY <1>1, <1>5, NoRunIsNoRun DEF RunBar
  <1>7. RunBar[r] # NoRun
    BY <1>6 DEF NoRun
  <1>8. RunBar' = [RunBar EXCEPT ![r] = RunBar'[r]]
    BY <1>4 DEF RunBar
  <1>9. RunBar'[r] \in [thread : {RunBar[r].thread}, state : State]
    BY <1>3, <1>6
  <1>10. done' = [done EXCEPT ![t] = done'[t]]
    BY <1>1, <1>2 DEF StoreInv, TypeOK
  <1>11. ~SpoiledBar[t] => done'[t] = s
    <2> SUFFICES ASSUME ~SpoiledBar[t] PROVE done'[t] = s
      OBVIOUS
    <2>1. ~development /\ ~disturbed[t]
      BY <1>1 DEF SpoiledBar
    <2>2. done[t] \subseteq run[r].state
      BY <1>1, <2>1 DEF StoreInv, NothingForgotten
    <2>3. run[r].state \subseteq done[t]
      BY <1>1, <2>1 DEF NothingElse
    <2> QED BY <1>1, <1>2, <2>2, <2>3 DEF StoreInv, TypeOK
  <1>12. UNCHANGED SpoiledBar
    BY <1>2 DEF SpoiledBar
  <1>13. RunBar[r].thread = t /\ RunBar'[r].state = s
    BY <1>6
  <1> QED
    BY <1>7, <1>8, <1>9, <1>10, <1>11, <1>12, <1>13
    DEF RunBar, SpoiledBar, Memory!Save

\* The end of a run, and a restart, leave the memory of every thread.
LEMMA StopsKeepMemory ==
  ASSUME StoreInv, NEW R \in SUBSET Runs,
         \A x \in Runs : run'[x] = IF x \in R THEN NoRun ELSE run[x],
         done' \in [Threads -> State],
         ~development => UNCHANGED done,
         UNCHANGED <<development, disturbed>>
  PROVE  Memory!Next
  <1>1. RunBar' = [r \in Runs |-> IF r \in R THEN NoRun ELSE RunBar[r]]
    BY DEF RunBar
  <1>2. done' = [t \in Threads |-> IF SpoiledBar[t] THEN done'[t] ELSE done[t]]
    BY DEF SpoiledBar, StoreInv, TypeOK
  <1>3. UNCHANGED SpoiledBar
    BY DEF SpoiledBar
  <1>4. Memory!Stop(R)
    BY <1>1, <1>2, <1>3 DEF RunBar, SpoiledBar, Memory!Stop
  <1> QED BY <1>4 DEF Memory!Next

LEMMA MemoryStep ==
  ASSUME StoreInv, NothingElse, [Next]_vars
  PROVE  Memory!Next \/ UNCHANGED <<done, RunBar, SpoiledBar>>
  <1>1. ASSUME NEW r \in Runs, NEW p \in Pods, NEW t \in Threads,
               NEW route \in Routes, Start(r, p, t, route)
        PROVE  Memory!Next
    BY <1>1, StartsFromMemory DEF Memory!Next
  <1>2. ASSUME NEW r \in Runs, Save(r) PROVE Memory!Next
    BY <1>2, SavesToMemory DEF Memory!Next
  <1>3. ASSUME NEW r \in Runs, End(r) PROVE Memory!Next
    <2>1. \A x \in Runs : run'[x] = IF x \in {r} THEN NoRun ELSE run[x]
      BY <1>3 DEF End, StoreInv, TypeOK
    <2>2. /\ done' \in [Threads -> State]
          /\ UNCHANGED <<development, disturbed, done>>
      BY <1>3 DEF End, setting, StoreInv, TypeOK
    <2>3. {r} \in SUBSET Runs
      OBVIOUS
    <2> QED BY <2>1, <2>2, <2>3, StopsKeepMemory
  <1>4. ASSUME NEW p \in Pods, Restart(p) PROVE Memory!Next
    <2> DEFINE R == {x \in Runs : run[x].pod = p}
    <2>0. R \in SUBSET Runs
      OBVIOUS
    <2>1. \A x \in Runs : run'[x] = IF x \in R THEN NoRun ELSE run[x]
      BY <1>4 DEF Restart
    <2>2. /\ done' \in [Threads -> State]
          /\ ~development => UNCHANGED done
          /\ UNCHANGED <<development, disturbed>>
      BY <1>4 DEF Restart, setting, StoreInv, TypeOK, State
    <2> HIDE DEF R
    <2> QED BY <2>0, <2>1, <2>2, StopsKeepMemory
  <1>5. CASE Wait
    BY <1>5 DEF Wait, setting, RunBar, SpoiledBar
  <1>6. CASE UNCHANGED vars
    BY <1>6 DEF vars, RunBar, SpoiledBar
  <1> QED BY <1>1, <1>2, <1>3, <1>4, <1>5, <1>6 DEF Next

\* In production the pods, their clocks and the container together are one
\* variable for every undisturbed thread.
THEOREM StoreImplementsMemory == Spec => MemorySpec
  <1>1. Init => Memory!Init
    BY DEF Init, Memory!Init
  <1>2. StoreInv /\ NothingElse /\ [Next]_vars =>
            [Memory!Next]_<<done, RunBar, SpoiledBar>>
    BY MemoryStep
  <1>3. Spec => []NothingElse
    BY InitElse, NextElse, Invariance, PTL DEF Spec
  <1> QED
    BY <1>1, <1>2, <1>3, Invariance, PTL
    DEF Spec, MemorySpec, Memory!Spec, RunBar, SpoiledBar

=============================================================================
