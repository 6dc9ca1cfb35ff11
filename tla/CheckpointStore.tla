-------------------------- MODULE CheckpointStore --------------------------
(***************************************************************************)
(* Where the state of a thread is kept: CosmosDBCheckpointer (app/memory/  *)
(* checkpointer.py) or, in development, the memory of the process, as the  *)
(* first call of get_graph (app/agents/graph.py) decides.  A run loads the *)
(* latest checkpoint, and saves one after each of its nodes, stamped with  *)
(* the clock of its pod.  Pods restart at any time.                        *)
(***************************************************************************)
EXTENDS Integers

CONSTANTS
    Threads, Pods, Runs,
    Skew,           \* how far the clocks of two pods may be apart
    MaxTime         \* bound: the end of time

ASSUME StoreAssumption ==
    /\ Skew \in Nat
    /\ MaxTime \in Nat

VARIABLES
    development,    \* APP_ENV
    replicas,       \* the pods in use: one in development
    offset,         \* how far each pod's clock is ahead of the slowest
    now,
    cosmos,         \* the checkpoints container, by thread
    memory,         \* what the MemorySaver of each pod holds, by thread
    saver,          \* the checkpointer each pod's graph was compiled with
    run,            \* the runs in flight, with their state in memory
    done,           \* history: the nodes whose result was saved, by thread
    last,           \* history: the time of the last save, by thread
    disturbed       \* history: did runs on the thread overlap, or follow
                    \* each other faster than the clocks agree

vars == <<development, replicas, offset, now, cosmos, memory, saver, run,
          done, last, disturbed>>
setting == <<development, replicas, offset>>

\* A node that was run is named by the time its result was saved.  The state
\* of a thread is the set of the nodes whose results are in it.
Node  == 0..MaxTime
State == SUBSET Node
Checkpoint == [ts : 0..(MaxTime + Skew), state : State]

Routes == {"chat", "invoke", "decide"}
Savers == {"none", "memory", "cosmos"}

NoRun == [pod |-> "none"]
Run   == [pod : Pods, thread : Threads, state : State]
Active(t) == {r \in Runs : run[r] # NoRun /\ run[r].thread = t}

Init ==
    /\ development \in BOOLEAN
    /\ replicas \in SUBSET Pods
    /\ IF development THEN \E p \in Pods : replicas = {p} ELSE replicas = Pods
    /\ offset \in [Pods -> 0..Skew]
    /\ now = 0
    /\ cosmos = [t \in Threads |-> {}]
    /\ memory = [p \in Pods |-> [t \in Threads |-> {}]]
    /\ saver = [p \in Pods |-> "none"]
    /\ run = [r \in Runs |-> NoRun]
    /\ done = [t \in Threads |-> {}]
    /\ last = [t \in Threads |-> -1 - Skew]
    /\ disturbed = [t \in Threads |-> FALSE]

-----------------------------------------------------------------------------

\* The checkpointer a route hands to get_graph.
Wanted(route) == IF development /\ route = "chat" THEN "memory" ELSE "cosmos"

\* Defect: every route has a graph of its own.
Saver_PerRoute(p, route) == Wanted(route)

\* get_graph: the graph is compiled once in a process, and the checkpointer
\* of the first call stays.
Saver(p, route) == IF saver[p] = "none" THEN Wanted(route) ELSE saver[p]

\* Defect: ORDER BY c.ts ASC.
Newest_Oldest(t) == {c \in cosmos[t] : \A d \in cosmos[t] : c.ts <= d.ts}

\* SELECT TOP 1 ... ORDER BY c.ts DESC.  Any of them when stamps are equal.
Newest(t) == {c \in cosmos[t] : \A d \in cosmos[t] : d.ts <= c.ts}

\* aget_tuple: the states a load may return, the empty one when there is
\* no checkpoint.
Loaded(p, t, s) ==
    IF s = "memory" THEN {memory[p][t]}
    ELSE IF cosmos[t] = {} THEN {{}}
    ELSE {c.state : c \in Newest(t)}

\* A route starts, or resumes, a run.
Start(r, p, t, route) ==
    /\ run[r] = NoRun
    /\ p \in replicas
    /\ saver' = [saver EXCEPT ![p] = Saver(p, route)]
    /\ \E state \in Loaded(p, t, Saver(p, route)) :
          run' = [run EXCEPT ![r] = [pod |-> p, thread |-> t, state |-> state]]
    /\ disturbed' = [disturbed EXCEPT ![t] =
                        @ \/ Active(t) # {} \/ now <= last[t] + Skew]
    /\ UNCHANGED <<setting, now, cosmos, memory, done, last>>

\* Defect: local time, on a pod east of Greenwich.
Stamp_Local(r) == now + offset[run[r].pod] + 2

\* datetime.utcnow() on the run's pod.
Stamp(r) == now + offset[run[r].pod]

\* A node has returned: its update is applied and aput stores the state.
\* Storing takes time.
Save(r) ==
    LET p == run[r].pod
        t == run[r].thread
        s == run[r].state \cup {now}
    IN  /\ run[r] # NoRun
        /\ now < MaxTime
        /\ run' = [run EXCEPT ![r].state = s]
        /\ \/ /\ saver[p] = "memory"
              /\ memory' = [memory EXCEPT ![p][t] = s]
              /\ UNCHANGED cosmos
           \/ /\ saver[p] = "cosmos"
              /\ cosmos' = [cosmos EXCEPT ![t] =
                               @ \cup {[ts |-> Stamp(r), state |-> s]}]
              /\ UNCHANGED memory
        /\ now' = now + 1
        /\ done' = [done EXCEPT ![t] = @ \cup {now}]
        /\ last' = [last EXCEPT ![t] = now]
        /\ UNCHANGED <<setting, saver, disturbed>>

\* The graph ends, is interrupted, or raises.
End(r) ==
    /\ run[r] # NoRun
    /\ run' = [run EXCEPT ![r] = NoRun]
    /\ UNCHANGED <<setting, now, cosmos, memory, saver, done, last, disturbed>>

\* A process restarts: its runs and its memory are gone.
Restart(p) ==
    /\ p \in replicas
    /\ run' = [r \in Runs |-> IF run[r].pod = p THEN NoRun ELSE run[r]]
    /\ memory' = [memory EXCEPT ![p] = [t \in Threads |-> {}]]
    /\ saver' = [saver EXCEPT ![p] = "none"]
    /\ done' = IF development THEN [t \in Threads |-> {}] ELSE done
    /\ UNCHANGED <<setting, now, cosmos, last, disturbed>>

Wait ==
    /\ now < MaxTime
    /\ now' = now + 1
    /\ UNCHANGED <<setting, cosmos, memory, saver, run, done, last, disturbed>>

Next ==
    \/ \E r \in Runs, p \in Pods, t \in Threads, route \in Routes :
          Start(r, p, t, route)
    \/ \E r \in Runs : Save(r) \/ End(r)
    \/ \E p \in Pods : Restart(p)
    \/ Wait

Spec == Init /\ [][Next]_vars

-----------------------------------------------------------------------------

TypeOK ==
    /\ development \in BOOLEAN
    /\ replicas \subseteq Pods
    /\ offset \in [Pods -> 0..Skew]
    /\ now \in Node
    /\ cosmos \in [Threads -> SUBSET Checkpoint]
    /\ memory \in [Pods -> [Threads -> State]]
    /\ saver \in [Pods -> Savers]
    /\ run \in [Runs -> Run \cup {NoRun}]
    /\ done \in [Threads -> State]
    /\ last \in [Threads -> (-1 - Skew)..MaxTime]
    /\ disturbed \in [Threads -> BOOLEAN]

\* docs/adr/ADR-004: a paused graph survives restarts and redeployments.  In
\* production whichever pod loads a thread next, after whichever restarts,
\* finds the result of every node that was saved, as long as runs on the
\* thread follow each other, by more than the clocks of the pods differ.
ResumableAnywhere ==
    ~development =>
        \A t \in Threads, p \in replicas, route \in Routes :
            ~disturbed[t] =>
                \A state \in Loaded(p, t, Saver(p, route)) : done[t] \subseteq state

\* A run works on all that was saved on its thread before, in development
\* too until the process restarts, although chat and the other routes ask
\* for different checkpointers.
NothingForgotten ==
    \A r \in Runs : run[r] # NoRun /\ ~disturbed[run[r].thread] =>
        done[run[r].thread] \subseteq run[r].state

\* In production the container, read by the newest stamp, is a ThreadMemory:
\* an undisturbed thread is the variable its next run finds, exactly as it was
\* left, whatever pods restart in between.
Memory == INSTANCE ThreadMemory WITH
    States <- State, Empty <- {}, saved <- done,
    run <- [r \in Runs |-> IF run[r] = NoRun THEN NoRun
                           ELSE [thread |-> run[r].thread, state |-> run[r].state]],
    spoiled <- [t \in Threads |-> development \/ disturbed[t]]

MemorySpec == Memory!Spec

=============================================================================
