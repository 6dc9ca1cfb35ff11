---------------------------- MODULE ThreadMemory ----------------------------
(***************************************************************************)
(* What the agent graph expects of a checkpointer (docs/adr/ADR-004): the  *)
(* state of a thread is a variable that outlives processes.  A run starts  *)
(* from it, alone, and each of its saves replaces it.  Of a spoiled thread *)
(* nothing is expected any more.                                           *)
(***************************************************************************)
CONSTANTS Threads, Runs,
          States, Empty,    \* what can be saved, and what a new thread holds
          NoRun

VARIABLES saved,            \* the state of each thread
          run,              \* the runs in flight, with their state in memory
          spoiled           \* the threads whose state may be anything

Alone(t) == \A r \in Runs : run[r] # NoRun => run[r].thread # t

Init ==
    /\ saved = [t \in Threads |-> Empty]
    /\ run = [r \in Runs |-> NoRun]
    /\ spoiled \in [Threads -> BOOLEAN]

\* Nothing is said of a spoiled thread but that it stays one.
Start(r, t) ==
    /\ run[r] = NoRun
    /\ run' = [run EXCEPT ![r] = run'[r]]
    /\ run'[r] \in [thread : {t}, state : States]
    /\ \/ spoiled' = [spoiled EXCEPT ![t] = TRUE]
       \/ UNCHANGED spoiled
    /\ ~spoiled'[t] => Alone(t) /\ run'[r].state = saved[t]
    /\ UNCHANGED saved

Save(r) ==
    /\ run[r] # NoRun
    /\ run' = [run EXCEPT ![r] = run'[r]]
    /\ run'[r] \in [thread : {run[r].thread}, state : States]
    /\ saved' = [saved EXCEPT ![run[r].thread] = saved'[run[r].thread]]
    /\ ~spoiled[run[r].thread] => saved'[run[r].thread] = run'[r].state
    /\ UNCHANGED spoiled

\* Any number of runs end: a graph returns or pauses, a process dies.
Stop(R) ==
    /\ run' = [r \in Runs |-> IF r \in R THEN NoRun ELSE run[r]]
    /\ saved' = [t \in Threads |-> IF spoiled[t] THEN saved'[t] ELSE saved[t]]
    /\ UNCHANGED spoiled

Next ==
    \/ \E r \in Runs, t \in Threads : Start(r, t)
    \/ \E r \in Runs : Save(r)
    \/ \E R \in SUBSET Runs : Stop(R)

Spec == Init /\ [][Next]_<<saved, run, spoiled>>

=============================================================================
