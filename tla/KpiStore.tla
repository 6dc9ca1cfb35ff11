----------------------------- MODULE KpiStore -----------------------------
(***************************************************************************)
(* The executive KPIs.  The CronJob kpi-refresh posts to /agent/invoke and *)
(* tries again when that fails; a chat may ask for a refresh too.  The     *)
(* supervisor's model is to send such a run to the analytics agent (app/   *)
(* agents/analytics.py), which counts the tracked materials below safety   *)
(* stock, one request for each, has the number narrated and upserts the    *)
(* first KPI, then does the same for the open purchase orders.  SAP changes*)
(* all the while.                                                          *)
(***************************************************************************)
EXTENDS Integers, Sequences, FiniteSets

CONSTANTS
    Tracked,        \* _MATERIALS_TO_TRACK, in order
    Runs,           \* refreshes in flight
    MaxOrders,      \* bound: open purchase orders
    MaxChanges,     \* bound: changes in SAP
    MaxAsks,        \* bound: refreshes asked for in a chat
    MaxFaults       \* bound: calls that fail, connections that are lost,
                    \* answers of the router against its rules

ASSUME KpiAssumption ==
    /\ Len(Tracked) \in Nat \ {0}
    /\ \A j, k \in 1..Len(Tracked) : Tracked[j] = Tracked[k] => j = k
    /\ MaxOrders \in Nat /\ MaxChanges \in Nat
    /\ MaxAsks \in Nat /\ MaxFaults \in Nat

VARIABLES
    low,            \* SAP: the materials below safety stock
    orders,         \* SAP: the number of open purchase orders
    row,            \* the kpis container
    pc,             \* where each refresh is
    run,            \* the local variables of each refresh
    cron,           \* the CronJob
    changes, asks, faults

vars   == <<low, orders, row, pc, run, cron, changes, asks, faults>>
sap    == <<low, orders>>
bounds == <<changes, asks, faults>>

Kpis      == {"inventory_health", "open_purchase_orders"}
Materials == {Tracked[k] : k \in 1..Len(Tracked)}
Crons     == {"waiting", "posted", "lost", "failed"}

\* "supervisor" is the first turn of the run, "return" the one after the
\* analytics agent has reported.
Steps == {"idle", "supervisor", "stock", "health", "orders", "open", "return"}

(***************************************************************************)
(* A refresh: the next material to read, how many were low, kpi_results,   *)
(* and who waits for it.  History: the materials that were low at some     *)
(* time since it began counting, those that were low all the time, and     *)
(* whether another refresh was in flight with it.  The health KPI is a     *)
(* percentage that tells the number of low materials, which stands for it. *)
(***************************************************************************)
NotWritten == -1
Idle ==
    [next |-> 1, below |-> 0, count |-> 0,
     result |-> [k \in Kpis |-> NotWritten], owner |-> "none",
     sometime |-> {}, throughout |-> {}, overlapped |-> FALSE]

Init ==
    /\ low \in SUBSET Materials
    /\ orders \in 0..MaxOrders
    /\ row = [k \in Kpis |-> NotWritten]
    /\ pc = [r \in Runs |-> "idle"]
    /\ run = [r \in Runs |-> Idle]
    /\ cron = "waiting"
    /\ changes = 0 /\ asks = 0 /\ faults = 0

-----------------------------------------------------------------------------
(***************************************************************************)
(* SAP.                                                                    *)
(***************************************************************************)

\* Stock of a material falls below, or rises above, its safety stock.
StockChange(m) ==
    /\ changes < MaxChanges
    /\ changes' = changes + 1
    /\ low' = IF m \in low THEN low \ {m} ELSE low \cup {m}
    /\ run' = [r \in Runs |->
                 IF pc[r] = "stock"
                 THEN [run[r] EXCEPT !.sometime = @ \cup low',
                                     !.throughout = @ \cap low']
                 ELSE run[r]]
    /\ UNCHANGED <<orders, row, pc, cron, asks, faults>>

\* create_purchase_order, and orders that are delivered.
OrderChange(n) ==
    /\ changes < MaxChanges
    /\ n # orders
    /\ changes' = changes + 1
    /\ orders' = n
    /\ UNCHANGED <<low, row, pc, run, cron, asks, faults>>

-----------------------------------------------------------------------------
(***************************************************************************)
(* A refresh.                                                              *)
(***************************************************************************)

\* POST /agent/invoke, or a chat: the graph is entered at the supervisor.
Begin(r, owner) ==
    LET others == {x \in Runs : pc[x] # "idle"}
    IN  /\ pc[r] = "idle"
        /\ pc' = [pc EXCEPT ![r] = "supervisor"]
        /\ run' = [x \in Runs |->
              IF x = r THEN [Idle EXCEPT !.owner = owner, !.overlapped = others # {}]
              ELSE [run[x] EXCEPT !.overlapped = x \in others]]

\* analytics_node begins.
Enter(r) ==
    /\ pc' = [pc EXCEPT ![r] = "stock"]
    /\ run' = [run EXCEPT ![r] =
          [Idle EXCEPT !.owner = run[r].owner, !.overlapped = run[r].overlapped,
                       !.sometime = low, !.throughout = low]]

\* Rule 4 of the router: a refresh is sent to the analytics agent.
Route(r) ==
    /\ pc[r] = "supervisor"
    /\ Enter(r)
    /\ UNCHANGED <<sap, row, cron, bounds>>

\* The schedule fires; concurrencyPolicy is Forbid.
Schedule(r) ==
    /\ cron = "waiting"
    /\ cron' = "posted"
    /\ Begin(r, "cron")
    /\ UNCHANGED <<sap, row, bounds>>

\* restartPolicy is OnFailure.
Retry(r) ==
    /\ cron = "failed"
    /\ cron' = "posted"
    /\ Begin(r, "cron")
    /\ UNCHANGED <<sap, row, bounds>>

\* Somebody asks for a refresh in a chat.
Ask(r) ==
    /\ asks < MaxAsks
    /\ asks' = asks + 1
    /\ Begin(r, "chat")
    /\ UNCHANGED <<sap, row, cron, changes, faults>>

\* Defect: the first material is read again and again.
Current_First(r) == Tracked[1]

Current(r) == Tracked[run[r].next]

\* GET /inventory of SAP: on_hand_qty below safety_stock.
BelowSafetyStock(m) == m \in low

\* GET /po/open of SAP.
OpenPos == orders

\* Defect: a material is counted for its stock and for its safety stock.
ReadStock_Twice(r) ==
    /\ pc[r] = "stock"
    /\ run' = [run EXCEPT
          ![r].next  = @ + 1,
          ![r].below = IF BelowSafetyStock(Current(r)) THEN @ + 2 ELSE @]
    /\ pc' = [pc EXCEPT ![r] = IF run[r].next = Len(Tracked) THEN "health" ELSE "stock"]
    /\ UNCHANGED <<sap, row, cron, bounds>>

\* _compute_inventory_health, one get_inventory after another.
ReadStock(r) ==
    /\ pc[r] = "stock"
    /\ run' = [run EXCEPT
          ![r].next  = @ + 1,
          ![r].below = IF BelowSafetyStock(Current(r)) THEN @ + 1 ELSE @]
    /\ pc' = [pc EXCEPT ![r] = IF run[r].next = Len(Tracked) THEN "health" ELSE "stock"]
    /\ UNCHANGED <<sap, row, cron, bounds>>

\* Defect: create_item, and the conflict is ignored.
Stored_IfAbsent(k, value) == IF row[k] = NotWritten THEN value ELSE row[k]

\* upsert_item.
Stored(k, value) == value

\* The narrative is written by the model, then write_kpi stores the value.
WriteKpi(r, k, value) ==
    /\ row' = [row EXCEPT ![k] = Stored(k, value)]
    /\ run' = [run EXCEPT ![r].result[k] = value]

WriteHealth(r) ==
    /\ pc[r] = "health"
    /\ WriteKpi(r, "inventory_health", run[r].below)
    /\ pc' = [pc EXCEPT ![r] = "orders"]
    /\ UNCHANGED <<sap, cron, bounds>>

ReadOrders(r) ==
    /\ pc[r] = "orders"
    /\ run' = [run EXCEPT ![r].count = OpenPos]
    /\ pc' = [pc EXCEPT ![r] = "open"]
    /\ UNCHANGED <<sap, row, cron, bounds>>

WriteOrders(r) ==
    /\ pc[r] = "open"
    /\ WriteKpi(r, "open_purchase_orders", run[r].count)
    /\ pc' = [pc EXCEPT ![r] = "return"]
    /\ UNCHANGED <<sap, cron, bounds>>

Leave(r) ==
    /\ pc' = [pc EXCEPT ![r] = "idle"]
    /\ run' = [run EXCEPT ![r] = Idle]

\* curl has its answer.
Answered(r) == IF run[r].owner = "cron" THEN "waiting" ELSE cron

\* ... and then the run ends, with 200.
Return(r) ==
    /\ pc[r] = "return"
    /\ cron' = Answered(r)
    /\ Leave(r)
    /\ UNCHANGED <<sap, row, bounds>>

\* The router answers against rule 4: the run ends, with 200 too, before
\* anything is refreshed, or the agent refreshes again.  Other specialists
\* write no KPI, and come back to the supervisor.
Stray(r) ==
    /\ faults < MaxFaults
    /\ faults' = faults + 1
    /\ \/ /\ pc[r] = "supervisor"
          /\ cron' = Answered(r)
          /\ Leave(r)
       \/ /\ pc[r] = "return"
          /\ Enter(r)
          /\ UNCHANGED cron
    /\ UNCHANGED <<sap, row, changes, asks>>

\* A call raises, or the router names no agent; curl --fail.  What was stored
\* stays.  A write that timed out may have been made.
Fail(r) ==
    /\ pc[r] # "idle"
    /\ faults < MaxFaults
    /\ faults' = faults + 1
    /\ \/ UNCHANGED row
       \/ /\ pc[r] = "health"
          /\ row' = [row EXCEPT !["inventory_health"] =
                        Stored("inventory_health", run[r].below)]
       \/ /\ pc[r] = "open"
          /\ row' = [row EXCEPT !["open_purchase_orders"] =
                        Stored("open_purchase_orders", run[r].count)]
    /\ cron' = IF run[r].owner = "cron" THEN "failed" ELSE cron
    /\ Leave(r)
    /\ UNCHANGED <<sap, changes, asks>>

\* The connection of the CronJob is lost, and the refresh goes on.
Disconnect(r) ==
    /\ pc[r] # "idle"
    /\ run[r].owner = "cron"
    /\ faults < MaxFaults
    /\ faults' = faults + 1
    /\ cron' = "lost"
    /\ run' = [run EXCEPT ![r].owner = "none"]
    /\ UNCHANGED <<sap, row, pc, changes, asks>>

\* Defect: curl --no-keepalive waits on, and the schedule is forbidden to
\* start another job.
AfterLoss_Unnoticed == "lost"

AfterLoss == "failed"

\* Neither curl nor the job has a limit of time: it is the keep-alive probes
\* of curl's connection that fail.
Notice ==
    /\ cron = "lost"
    /\ cron' = AfterLoss
    /\ UNCHANGED <<sap, row, pc, run, bounds>>

-----------------------------------------------------------------------------

\* read_kpi: the records found under a name, none or one.
ReadKpi(k) == {row[k]} \ {NotWritten}

\* GET /dashboards/{kpi}: 404 when there is no record.
Shows(k, value) == ReadKpi(k) = {value}

\* GET /dashboards.
ListKpis == {k \in Kpis : ReadKpi(k) # {}}

-----------------------------------------------------------------------------

Step(r) ==
    \/ Route(r) \/ ReadStock(r) \/ WriteHealth(r) \/ ReadOrders(r) \/ WriteOrders(r)
    \/ Return(r)
Post == \E r \in Runs : Schedule(r) \/ Retry(r)

Next ==
    \/ \E m \in Materials : StockChange(m)
    \/ \E n \in 0..MaxOrders : OrderChange(n)
    \/ \E r \in Runs : Step(r) \/ Ask(r) \/ Stray(r) \/ Fail(r) \/ Disconnect(r)
    \/ Notice
    \/ Post

Spec == Init /\ [][Next]_vars

\* The event loop goes on with every refresh, the schedule and the retries of
\* the CronJob come, and curl learns of a lost connection.  That the router
\* obeys rule 4 but for finitely many answers is an assumption on the model.
FairSpec ==
    Spec /\ WF_vars(Post) /\ WF_vars(Notice) /\ \A r \in Runs : WF_vars(Step(r))

-----------------------------------------------------------------------------

Value == {NotWritten} \cup Nat

TypeOK ==
    /\ low \subseteq Materials
    /\ orders \in 0..MaxOrders
    /\ row \in [Kpis -> Value]
    /\ pc \in [Runs -> Steps]
    /\ \A r \in Runs :
          /\ run[r].next \in 1..(Len(Tracked) + 1)
          /\ run[r].below \in 0..(run[r].next - 1)
          /\ run[r].result \in [Kpis -> Value]
    /\ cron \in Crons

\* The stock levels are read one after another while they change.  The number
\* stored counts no material that was never low while they were read, and all
\* that were low throughout.
HealthPlausible ==
    \A r \in Runs : pc[r] = "orders" =>
        /\ run[r].result["inventory_health"] <= Cardinality(run[r].sometime)
        /\ run[r].result["inventory_health"] >= Cardinality(run[r].throughout)

\* A refresh that was alone reports what the dashboards then show, both KPIs,
\* after whatever earlier refreshes stored before they failed.
RefreshComplete ==
    \A r \in Runs : pc[r] = "return" /\ ~run[r].overlapped => row = run[r].result

\* Once SAP stays as it is, and the router keeps to rule 4, the dashboards come
\* to show it, and go on showing it, whichever refreshes fail, are lost, end
\* with nothing refreshed or overlap on the way.
DashboardCatchesUp ==
    <>[](/\ ListKpis = Kpis
         /\ Shows("inventory_health", Cardinality(low))
         /\ Shows("open_purchase_orders", orders))

=============================================================================
