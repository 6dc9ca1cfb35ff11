--------------------------- MODULE KpiStoreProofs ---------------------------
(***************************************************************************)
(* Theorems of KpiStore, for any tracked materials, any number of refreshes*)
(* in flight, and any number of failures and changes of SAP.               *)
(***************************************************************************)
EXTENDS KpiStore, FiniteSetTheorems, TLAPS

\* Who waits for the answer of a refresh.
Owners == {"none", "cron", "chat"}

Refresh ==
    [next : 1..(Len(Tracked) + 1), below : Nat, count : 0..MaxOrders,
     result : [Kpis -> Value], owner : Owners,
     sometime : SUBSET Materials, throughout : SUBSET Materials,
     overlapped : BOOLEAN]

Types ==
    /\ low \in SUBSET Materials
    /\ orders \in 0..MaxOrders
    /\ row \in [Kpis -> Value]
    /\ pc \in [Runs -> Steps]
    /\ run \in [Runs -> Refresh]
    /\ cron \in Crons

\* The materials a refresh has read.
Seen(r) == {Tracked[k] : k \in 1..(run[r].next - 1)}

\* While a refresh reads, its history brackets what is low now; the number it
\* has counted lies between the seen materials that were low throughout and
\* those that were low at some time.
Counted(r) ==
    /\ run[r].below <= run[r].next - 1
    /\ pc[r] = "stock" =>
          /\ run[r].next <= Len(Tracked)
          /\ low \subseteq run[r].sometime
          /\ run[r].throughout \subseteq low
    /\ pc[r] = "health" => run[r].next = Len(Tracked) + 1
    /\ pc[r] \in {"stock", "health"} =>
          /\ IsFiniteSet(Seen(r))
          /\ run[r].below <= Cardinality(run[r].sometime \cap Seen(r))
          /\ run[r].below >= Cardinality(run[r].throughout \cap Seen(r))
    /\ pc[r] = "orders" =>
          /\ run[r].result["inventory_health"] <= Cardinality(run[r].sometime)
          /\ run[r].result["inventory_health"] >= Cardinality(run[r].throughout)

\* A refresh that was never overlapped is alone, and what it has written is
\* what the container holds.
Alone(r) ==
    pc[r] # "idle" /\ ~run[r].overlapped =>
        /\ \A x \in Runs : x # r => pc[x] = "idle"
        /\ pc[r] \in {"orders", "open", "return"} =>
              row["inventory_health"] = run[r].result["inventory_health"]
        /\ pc[r] = "return" =>
              row["open_purchase_orders"] = run[r].result["open_purchase_orders"]

IInv == Types /\ (\A r \in Runs : Counted(r)) /\ (\A r \in Runs : Alone(r))

-----------------------------------------------------------------------------
\* Facts about the values of a refresh.

LEMMA IdleType == Idle \in Refresh
  <1>1. [k \in Kpis |-> NotWritten] \in [Kpis -> Value]
    BY DEF Value
  <1> QED
    BY <1>1, KpiAssumption DEF Idle, Refresh, Owners

LEMMA OverlappedType ==
  ASSUME NEW v \in Refresh, NEW b \in BOOLEAN
  PROVE  [v EXCEPT !.overlapped = b] \in Refresh
  BY DEF Refresh

\* What a step of another refresh may change in a refresh: whether it was
\* overlapped.
Same(x) ==
    /\ pc'[x] = pc[x]
    /\ run'[x].next = run[x].next
    /\ run'[x].below = run[x].below
    /\ run'[x].result = run[x].result
    /\ run'[x].sometime = run[x].sometime
    /\ run'[x].throughout = run[x].throughout

LEMMA SameCounted ==
  ASSUME NEW x \in Runs, Same(x), low' = low, Counted(x)
  PROVE  Counted(x)'
  <1>1. Seen(x)' = Seen(x)
    BY DEF Seen, Same
  <1> QED
    BY <1>1 DEF Same, Counted

LEMMA SameAlone ==
  ASSUME NEW x \in Runs, Same(x), row' = row, Alone(x),
         run'[x].overlapped = run[x].overlapped,
         \A y \in Runs : pc[y] = "idle" => pc'[y] = "idle"
  PROVE  Alone(x)'
  BY DEF Same, Alone

\* A refresh that is overlapped claims nothing, nor does one that is idle.
LEMMA NotAlone ==
  ASSUME NEW x \in Runs, pc'[x] = "idle" \/ run'[x].overlapped = TRUE
  PROVE  Alone(x)'
  BY DEF Alone

-----------------------------------------------------------------------------
(***************************************************************************)
(* The steps.                                                              *)
(***************************************************************************)

LEMMA InitInv == Init => IInv
  <1> SUFFICES ASSUME Init PROVE IInv
    OBVIOUS
  <1>1. Types
    BY IdleType DEF Init, Types, Value, Steps, Crons
  <1>2. ASSUME NEW r \in Runs PROVE Counted(r) /\ Alone(r)
    BY KpiAssumption DEF Init, Idle, Counted, Alone
  <1> QED
    BY <1>1, <1>2 DEF IInv

\* A refresh starts: the others that are in flight are overlapped from now on.
LEMMA BeginKeeps ==
  ASSUME IInv, NEW r \in Runs, NEW owner \in Owners, Begin(r, owner),
         cron' \in Crons, UNCHANGED <<sap, row>>
  PROVE  IInv'
  <1> DEFINE others == {x \in Runs : pc[x] # "idle"}
             new == [Idle EXCEPT !.owner = owner, !.overlapped = others # {}]
  <1>1. /\ pc[r] = "idle"
        /\ pc' = [pc EXCEPT ![r] = "supervisor"]
        /\ run' = [x \in Runs |-> IF x = r THEN new
                                  ELSE [run[x] EXCEPT !.overlapped = x \in others]]
        /\ low' = low /\ orders' = orders /\ row' = row
    BY DEF Begin, sap
  <1>2. new \in Refresh
    BY IdleType DEF IInv, Types, Refresh
  <1>3. new.next = 1 /\ new.below = 0 /\ new.overlapped = (others # {})
    BY DEF Idle
  <1>4. \A x \in Runs : run[x] \in Refresh
    BY DEF IInv, Types
  <1> HIDE DEF new
  <1>5. Types'
    <2>1. \A x \in Runs : [run[x] EXCEPT !.overlapped = x \in others] \in Refresh
      <3> SUFFICES ASSUME NEW x \in Runs
                   PROVE  [run[x] EXCEPT !.overlapped = x \in others] \in Refresh
        OBVIOUS
      <3>1. (x \in others) \in BOOLEAN
        OBVIOUS
      <3> QED BY <1>4, <3>1, OverlappedType
    <2>2. run' \in [Runs -> Refresh]
      BY <1>1, <1>2, <2>1
    <2> QED BY <1>1, <2>2 DEF IInv, Types, Steps
  <1>6. ASSUME NEW x \in Runs PROVE Counted(x)'
    <2>1. CASE x = r
      <3>1. pc'[r] = "supervisor" /\ run'[r] = new
        BY <1>1 DEF IInv, Types
      <3> QED BY <1>3, <2>1, <3>1 DEF Counted
    <2>2. CASE x # r
      <3>1. Same(x)
        BY <1>1, <1>4, <2>2 DEF IInv, Types, Refresh, Same
      <3> QED BY <1>1, <3>1, SameCounted DEF IInv
    <2> QED BY <2>1, <2>2
  <1>7. ASSUME NEW x \in Runs PROVE Alone(x)'
    <2>1. CASE x = r
      <3>1. pc'[r] = "supervisor" /\ run'[r].overlapped = (others # {})
        BY <1>1, <1>3 DEF IInv, Types
      <3>2. ~run'[r].overlapped => \A y \in Runs : y # r => pc'[y] = "idle"
        BY <1>1, <3>1 DEF IInv, Types
      <3> QED BY <2>1, <3>1, <3>2 DEF Alone
    <2>2. CASE x # r
      <3>1. pc'[x] = pc[x] /\ run'[x].overlapped = (x \in others)
        BY <1>1, <1>4, <2>2 DEF IInv, Types, Refresh
      <3> QED BY <3>1, NotAlone
    <2> QED BY <2>1, <2>2
  <1> QED BY <1>5, <1>6, <1>7 DEF IInv

\* A step of a refresh leaves the others as they are; none of them was alone.
LEMMA OthersKeep ==
  ASSUME IInv, NEW r \in Runs, pc[r] # "idle", low' = low, NEW p, NEW v,
         pc' = [pc EXCEPT ![r] = p], run' = [run EXCEPT ![r] = v]
  PROVE  \A x \in Runs : x # r => Counted(x)' /\ Alone(x)'
  <1> SUFFICES ASSUME NEW x \in Runs, x # r
               PROVE  Counted(x)' /\ Alone(x)'
    OBVIOUS
  <1>1. pc'[x] = pc[x] /\ run'[x] = run[x]
    BY DEF IInv, Types
  <1>2. Counted(x)'
    BY <1>1, SameCounted DEF Same, IInv
  <1>3. pc[x] = "idle" \/ run[x].overlapped
    BY DEF IInv, Alone
  <1>4. run[x].overlapped \in BOOLEAN
    BY DEF IInv, Types, Refresh
  <1> QED BY <1>1, <1>2, <1>3, <1>4, NotAlone

\* A refresh ends, by its answer or by a failure.
LEMMA LeaveKeeps ==
  ASSUME IInv, NEW r \in Runs, Leave(r), pc[r] # "idle",
         row' \in [Kpis -> Value],
         cron' \in Crons, UNCHANGED sap
  PROVE  IInv'
  <1>1. /\ pc' = [pc EXCEPT ![r] = "idle"]
        /\ run' = [run EXCEPT ![r] = Idle]
        /\ low' = low /\ orders' = orders
    BY DEF Leave, sap
  <1>2. Types'
    BY <1>1, IdleType DEF IInv, Types, Steps
  <1>3. Counted(r)'
    BY <1>1 DEF IInv, Types, Counted, Idle
  <1>4. Alone(r)'
    BY <1>1, NotAlone DEF IInv, Types
  <1> QED BY <1>1, <1>2, <1>3, <1>4, OthersKeep DEF IInv

\* The analytics agent is entered, for the first time or once more.
LEMMA EnterKeeps ==
  ASSUME IInv, NEW r \in Runs, Enter(r), pc[r] # "idle", cron' \in Crons,
         UNCHANGED <<sap, row>>
  PROVE  IInv'
  <1> DEFINE new == [Idle EXCEPT !.owner = run[r].owner, !.overlapped = run[r].overlapped,
                                 !.sometime = low, !.throughout = low]
  <1>1. /\ pc' = [pc EXCEPT ![r] = "stock"]
        /\ run' = [run EXCEPT ![r] = new]
        /\ low' = low /\ orders' = orders /\ row' = row
    BY DEF Enter, sap
  <1>2. run[r] \in Refresh /\ low \in SUBSET Materials
    BY DEF IInv, Types
  <1>3. new \in Refresh
    BY <1>2, IdleType DEF Refresh
  <1>4. /\ new.next = 1 /\ new.below = 0
        /\ new.sometime = low /\ new.throughout = low
        /\ new.overlapped = run[r].overlapped
    BY DEF Idle
  <1> HIDE DEF new
  <1>5. pc'[r] = "stock" /\ run'[r] = new /\ \A x \in Runs : x # r => pc'[x] = pc[x]
    BY <1>1 DEF IInv, Types
  <1>6. Types'
    BY <1>1, <1>3 DEF IInv, Types, Steps
  <1>7. Counted(r)'
    <2>1. Seen(r)' = {}
      BY <1>4, <1>5 DEF Seen
    <2>2. /\ Cardinality(run'[r].sometime \cap Seen(r)') = 0
          /\ Cardinality(run'[r].throughout \cap Seen(r)') = 0
          /\ IsFiniteSet(Seen(r)')
      BY <2>1, FS_EmptySet
    <2> QED BY <1>1, <1>4, <1>5, <2>2, KpiAssumption DEF Counted
  <1>8. Alone(r)'
    BY <1>4, <1>5 DEF IInv, Alone
  <1> QED BY <1>1, <1>6, <1>7, <1>8, OthersKeep DEF IInv

LEMMA RouteKeeps ==
  ASSUME IInv, NEW r \in Runs, Route(r)
  PROVE  IInv'
  <1>1. Enter(r) /\ pc[r] # "idle" /\ cron' \in Crons /\ UNCHANGED <<sap, row>>
    BY DEF Route, IInv, Types
  <1> QED BY <1>1, EnterKeeps

\* A refresh reads one stock level.
LEMMA Advanced ==
  ASSUME NEW v \in Refresh, NEW b \in Nat, v.next <= Len(Tracked)
  PROVE  LET w == [v EXCEPT !.next = v.next + 1, !.below = b]
         IN  /\ w \in Refresh
             /\ w.next = v.next + 1 /\ w.below = b /\ w.result = v.result
             /\ w.sometime = v.sometime /\ w.throughout = v.throughout
             /\ w.overlapped = v.overlapped
  <1> DEFINE n == v.next + 1
             w == [v EXCEPT !.next = n, !.below = b]
  <1>1. n \in 1..(Len(Tracked) + 1)
    BY KpiAssumption DEF Refresh
  <1> HIDE DEF n
  <1>2. /\ w \in Refresh
        /\ w.next = n /\ w.below = b /\ w.result = v.result
        /\ w.sometime = v.sometime /\ w.throughout = v.throughout
        /\ w.overlapped = v.overlapped
    BY <1>1 DEF Refresh
  <1> USE DEF n
  <1> QED BY <1>2

\* One more material is seen.
LEMMA SeenOneMore ==
  ASSUME NEW A, NEW P, NEW Q, NEW m, IsFiniteSet(A), m \notin A, NEW b \in Nat,
         b <= Cardinality(P \cap A), b >= Cardinality(Q \cap A),
         NEW L, L \subseteq P, Q \subseteq L
  PROVE  LET more == IF m \in L THEN b + 1 ELSE b
         IN  /\ more <= Cardinality(P \cap (A \cup {m}))
             /\ more >= Cardinality(Q \cap (A \cup {m}))
  <1> DEFINE S == P \cap A
             T == Q \cap A
             S1 == P \cap (A \cup {m})
             T1 == Q \cap (A \cup {m})
  <1>1. /\ IsFiniteSet(S) /\ IsFiniteSet(T)
        /\ m \notin S /\ m \notin T
    BY FS_Subset
  <1>2. /\ Cardinality(S) \in Nat /\ Cardinality(T) \in Nat
        /\ Cardinality(S \cup {m}) = Cardinality(S) + 1
        /\ Cardinality(T \cup {m}) = Cardinality(T) + 1
    BY <1>1, FS_CardinalityType, FS_AddElement
  <1>3. m \in P => S1 = S \cup {m}
    OBVIOUS
  <1>4. m \notin P => S1 = S
    OBVIOUS
  <1>5. m \in Q => T1 = T \cup {m}
    OBVIOUS
  <1>6. m \notin Q => T1 = T
    OBVIOUS
  <1>7. (m \in L => m \in P) /\ (m \in Q => m \in L)
    OBVIOUS
  <1>8. b <= Cardinality(S) /\ b >= Cardinality(T)
    OBVIOUS
  <1> HIDE DEF S, T, S1, T1
  <1>9. CASE m \in L
    <2>1. Cardinality(S1) = Cardinality(S) + 1
      BY <1>2, <1>3, <1>7, <1>9
    <2>2. Cardinality(T1) \in {Cardinality(T), Cardinality(T) + 1}
      BY <1>2, <1>5, <1>6
    <2>3. b + 1 <= Cardinality(S1) /\ b + 1 >= Cardinality(T1)
      BY <1>2, <1>8, <2>1, <2>2
    <2> QED BY <1>9, <2>3 DEF S1, T1
  <1>10. CASE m \notin L
    <2>1. Cardinality(S1) \in {Cardinality(S), Cardinality(S) + 1}
      BY <1>2, <1>3, <1>4
    <2>2. Cardinality(T1) = Cardinality(T)
      BY <1>2, <1>6, <1>7, <1>10
    <2>3. b <= Cardinality(S1) /\ b >= Cardinality(T1)
      BY <1>2, <1>8, <2>1, <2>2
    <2> QED BY <1>10, <2>3 DEF S1, T1
  <1> QED BY <1>9, <1>10

LEMMA ReadStockKeeps ==
  ASSUME IInv, NEW r \in Runs, ReadStock(r)
  PROVE  IInv'
  <1> DEFINE m == Tracked[run[r].next]
             more == IF m \in low THEN run[r].below + 1 ELSE run[r].below
             new == [run[r] EXCEPT !.next = run[r].next + 1, !.below = more]
  <1>a. Types /\ Counted(r) /\ pc[r] = "stock"
    BY DEF IInv, ReadStock
  <1>b. run[r] \in Refresh
    BY <1>a DEF Types
  <1>c. /\ run[r].next \in 1..Len(Tracked) /\ run[r].below \in Nat
        /\ run[r].below <= run[r].next - 1
        /\ low \subseteq run[r].sometime /\ run[r].throughout \subseteq low
        /\ IsFiniteSet(Seen(r))
        /\ run[r].below <= Cardinality(run[r].sometime \cap Seen(r))
        /\ run[r].below >= Cardinality(run[r].throughout \cap Seen(r))
    BY <1>a, <1>b, KpiAssumption DEF Counted, Refresh
  <1>2. /\ pc' = [pc EXCEPT ![r] = IF run[r].next = Len(Tracked)
                                   THEN "health" ELSE "stock"]
        /\ run' = [run EXCEPT ![r] = new]
        /\ low' = low /\ orders' = orders /\ row' = row /\ cron' = cron
    BY <1>a DEF Types, ReadStock, BelowSafetyStock, Current, sap
  <1>3. more \in Nat /\ more <= run[r].next
    BY <1>c
  <1> HIDE DEF more
  <1>4. new \in Refresh /\ new.next = run[r].next + 1 /\ new.below = more
        /\ new.result = run[r].result
        /\ new.sometime = run[r].sometime /\ new.throughout = run[r].throughout
        /\ new.overlapped = run[r].overlapped
    <2>1. run[r].next <= Len(Tracked)
      BY <1>c, KpiAssumption
    <2> QED BY ONLY <1>b, <1>3, <2>1, Advanced DEF new
  <1> HIDE DEF new
  <1>5. Types'
    BY <1>a, <1>2, <1>4 DEF Types, Steps
  <1>n. /\ run'[r] = new
        /\ pc'[r] = IF run[r].next = Len(Tracked) THEN "health" ELSE "stock"
    BY <1>a, <1>2 DEF Types
  <1>6. Counted(r)'
    <2>1. \A k : k \in 1..run[r].next <=> k \in 1..(run[r].next - 1) \/ k = run[r].next
      BY <1>c
    <2>2. run'[r].next - 1 = run[r].next
      BY <1>c, <1>4, <1>n
    <2>3. Seen(r)' = {Tracked[k] : k \in 1..run[r].next}
      BY <2>2 DEF Seen
    <2>4. Seen(r)' = Seen(r) \cup {m}
      BY <2>1, <2>3 DEF Seen
    <2>5. \A k \in 1..(run[r].next - 1) : Tracked[k] # m
      BY <1>c, KpiAssumption
    <2>6. m \notin Seen(r)
      BY <2>5 DEF Seen
    <2>7. IsFiniteSet(Seen(r)')
      BY <1>c, <2>4, FS_AddElement
    <2>8. /\ more <= Cardinality(run[r].sometime \cap (Seen(r) \cup {m}))
          /\ more >= Cardinality(run[r].throughout \cap (Seen(r) \cup {m}))
      <3> DEFINE A == Seen(r)
                 b == run[r].below
                 P == run[r].sometime
                 Q == run[r].throughout
      <3>1. IsFiniteSet(A) /\ m \notin A /\ b \in Nat /\ low \subseteq P /\ Q \subseteq low
            /\ b <= Cardinality(P \cap A) /\ b >= Cardinality(Q \cap A)
        BY <1>c, <2>6
      <3> HIDE DEF A, b, P, Q, m
      <3>2. LET more1 == IF m \in low THEN b + 1 ELSE b
            IN  /\ more1 <= Cardinality(P \cap (A \cup {m}))
                /\ more1 >= Cardinality(Q \cap (A \cup {m}))
        BY <3>1, SeenOneMore
      <3> QED BY <3>2 DEF A, b, P, Q, more
    <2>9. /\ run'[r].next = run[r].next + 1 /\ run'[r].below = more
          /\ run'[r].sometime = run[r].sometime
          /\ run'[r].throughout = run[r].throughout
          /\ low' = low
      BY <1>2, <1>4, <1>n
    <2>10. /\ more <= Cardinality(run'[r].sometime \cap Seen(r)')
           /\ more >= Cardinality(run'[r].throughout \cap Seen(r)')
      BY <2>4, <2>8, <2>9
    <2>11. pc'[r] = "stock" => run[r].next + 1 <= Len(Tracked)
      BY <1>c, <1>n, KpiAssumption
    <2>12. pc'[r] = "health" => run[r].next + 1 = Len(Tracked) + 1
      BY <1>c, <1>n, KpiAssumption
    <2> HIDE DEF m
    <2> QED BY <1>c, <1>3, <1>n, <2>7, <2>9, <2>10, <2>11, <2>12 DEF Counted
  <1>7. Alone(r)'
    <2>1. \A y \in Runs : y # r => pc'[y] = pc[y]
      BY <1>2, <1>a DEF Types
    <2>2. pc'[r] \in {"stock", "health"} /\ run'[r].overlapped = run[r].overlapped
      BY <1>4, <1>n
    <2> QED BY <1>a, <2>1, <2>2 DEF Alone, IInv
  <1> QED BY <1>2, <1>5, <1>6, <1>7, <1>a, OthersKeep DEF IInv

LEMMA WriteHealthKeeps ==
  ASSUME IInv, NEW r \in Runs, WriteHealth(r)
  PROVE  IInv'
  <1> DEFINE k == "inventory_health"
             new == [run[r] EXCEPT !.result[k] = run[r].below]
  <1>1. Types /\ Counted(r) /\ Alone(r) /\ pc[r] = "health" /\ run[r] \in Refresh
    BY DEF IInv, WriteHealth, Types
  <1>2. /\ pc' = [pc EXCEPT ![r] = "orders"]
        /\ run' = [run EXCEPT ![r] = new]
        /\ row' = [row EXCEPT ![k] = run[r].below]
        /\ low' = low /\ orders' = orders /\ cron' = cron
    BY <1>1 DEF Types, WriteHealth, WriteKpi, Stored, sap
  <1>3. /\ new \in Refresh /\ new.result[k] = run[r].below
        /\ new.next = run[r].next /\ new.below = run[r].below
        /\ new.sometime = run[r].sometime /\ new.throughout = run[r].throughout
        /\ new.overlapped = run[r].overlapped
    BY <1>1 DEF Refresh, Value, Kpis
  <1>4. run[r].below \in Nat /\ row'[k] = run[r].below /\ row' \in [Kpis -> Value]
    BY <1>1, <1>2 DEF Types, Refresh, Value, Kpis
  <1> HIDE DEF new
  <1>5. run'[r] = new /\ pc'[r] = "orders"
    BY <1>1, <1>2 DEF Types
  <1>6. Types'
    BY <1>1, <1>2, <1>3, <1>4 DEF Types, Steps
  <1>7. Counted(r)'
    <2>1. run[r].next = Len(Tracked) + 1
      BY <1>1 DEF Counted
    <2>2. run[r].next - 1 = Len(Tracked)
      BY <2>1, KpiAssumption
    <2>3. Seen(r) = Materials
      BY <2>2 DEF Seen, Materials
    <2>4. /\ run[r].sometime \cap Seen(r) = run[r].sometime
          /\ run[r].throughout \cap Seen(r) = run[r].throughout
      BY <1>1, <2>3 DEF Refresh
    <2> QED BY <1>1, <1>3, <1>5, <2>4 DEF Counted
  <1>8. Alone(r)'
    <2>1. \A y \in Runs : y # r => pc'[y] = pc[y]
      BY <1>1, <1>2 DEF Types
    <2> QED BY <1>1, <1>3, <1>4, <1>5, <2>1 DEF Alone
  <1> QED BY <1>1, <1>2, <1>6, <1>7, <1>8, OthersKeep DEF IInv

LEMMA ReadOrdersKeeps ==
  ASSUME IInv, NEW r \in Runs, ReadOrders(r)
  PROVE  IInv'
  <1> DEFINE new == [run[r] EXCEPT !.count = orders]
  <1>1. Types /\ Counted(r) /\ Alone(r) /\ pc[r] = "orders" /\ run[r] \in Refresh
    BY DEF IInv, ReadOrders, Types
  <1>2. /\ pc' = [pc EXCEPT ![r] = "open"]
        /\ run' = [run EXCEPT ![r] = new]
        /\ low' = low /\ orders' = orders /\ cron' = cron /\ row' = row
    BY <1>1 DEF Types, ReadOrders, OpenPos, sap
  <1>3. /\ new \in Refresh /\ new.result = run[r].result
        /\ new.next = run[r].next /\ new.below = run[r].below
        /\ new.overlapped = run[r].overlapped
    BY <1>1 DEF Refresh, Types
  <1> HIDE DEF new
  <1>4. run'[r] = new /\ pc'[r] = "open"
    BY <1>1, <1>2 DEF Types
  <1>5. Types'
    BY <1>1, <1>2, <1>3 DEF Types, Steps
  <1>6. Counted(r)'
    BY <1>1, <1>3, <1>4 DEF Counted
  <1>7. Alone(r)'
    <2>1. \A y \in Runs : y # r => pc'[y] = pc[y]
      BY <1>1, <1>2 DEF Types
    <2> QED BY <1>1, <1>2, <1>3, <1>4, <2>1 DEF Alone
  <1> QED BY <1>1, <1>2, <1>5, <1>6, <1>7, OthersKeep DEF IInv

LEMMA WriteOrdersKeeps ==
  ASSUME IInv, NEW r \in Runs, WriteOrders(r)
  PROVE  IInv'
  <1> DEFINE k == "open_purchase_orders"
             new == [run[r] EXCEPT !.result[k] = run[r].count]
  <1>1. Types /\ Counted(r) /\ Alone(r) /\ pc[r] = "open" /\ run[r] \in Refresh
    BY DEF IInv, WriteOrders, Types
  <1>2. /\ pc' = [pc EXCEPT ![r] = "return"]
        /\ run' = [run EXCEPT ![r] = new]
        /\ row' = [row EXCEPT ![k] = run[r].count]
        /\ low' = low /\ orders' = orders /\ cron' = cron
    BY <1>1 DEF Types, WriteOrders, WriteKpi, Stored, sap
  <1>3. run[r].count \in Nat
    BY <1>1, KpiAssumption DEF Refresh
  <1>4. /\ new \in Refresh /\ new.result[k] = run[r].count
        /\ new.result["inventory_health"] = run[r].result["inventory_health"]
        /\ new.next = run[r].next /\ new.below = run[r].below
        /\ new.overlapped = run[r].overlapped
    BY <1>1, <1>3 DEF Refresh, Value, Kpis
  <1>5. /\ row'[k] = run[r].count /\ row' \in [Kpis -> Value]
        /\ row'["inventory_health"] = row["inventory_health"]
    BY <1>1, <1>2, <1>3 DEF Types, Value, Kpis
  <1> HIDE DEF new
  <1>6. run'[r] = new /\ pc'[r] = "return"
    BY <1>1, <1>2 DEF Types
  <1>7. Types'
    BY <1>1, <1>2, <1>4, <1>5 DEF Types, Steps
  <1>8. Counted(r)'
    BY <1>1, <1>4, <1>6 DEF Counted
  <1>9. Alone(r)'
    <2>1. \A y \in Runs : y # r => pc'[y] = pc[y]
      BY <1>1, <1>2 DEF Types
    <2> QED BY <1>1, <1>4, <1>5, <1>6, <2>1 DEF Alone
  <1> QED BY <1>1, <1>2, <1>7, <1>8, <1>9, OthersKeep DEF IInv

\* A failure may have stored the KPI that was being written.
LEMMA FailKeeps ==
  ASSUME IInv, NEW r \in Runs, Fail(r)
  PROVE  IInv'
  <1>1. Types /\ run[r] \in Refresh
    BY DEF IInv, Types
  <1>2. run[r].below \in Value /\ run[r].count \in Value
    BY <1>1, KpiAssumption DEF Refresh, Value
  <1>3. row' \in [Kpis -> Value]
    BY <1>1, <1>2 DEF Types, Fail, Stored
  <1>4. cron' \in Crons
    BY <1>1 DEF Types, Fail, Crons
  <1>5. Leave(r) /\ UNCHANGED sap /\ pc[r] # "idle"
    BY DEF Fail
  <1> QED BY <1>3, <1>4, <1>5, LeaveKeeps

LEMMA ReturnKeeps ==
  ASSUME IInv, NEW r \in Runs, Return(r)
  PROVE  IInv'
  <1>1. Types
    BY DEF IInv
  <1>2. row' \in [Kpis -> Value] /\ cron' \in Crons
    BY <1>1 DEF Types, Return, Answered, Crons
  <1>3. Leave(r) /\ UNCHANGED sap /\ pc[r] # "idle"
    BY DEF Return
  <1> QED BY <1>2, <1>3, LeaveKeeps

LEMMA StrayKeeps ==
  ASSUME IInv, NEW r \in Runs, Stray(r)
  PROVE  IInv'
  <1>1. row' \in [Kpis -> Value] /\ cron' \in Crons /\ UNCHANGED <<sap, row>>
    BY DEF IInv, Types, Stray, Answered, Crons
  <1>2. pc[r] # "idle" /\ (Leave(r) \/ Enter(r))
    BY DEF Stray
  <1> QED BY <1>1, <1>2, LeaveKeeps, EnterKeeps

LEMMA DisconnectKeeps ==
  ASSUME IInv, NEW r \in Runs, Disconnect(r)
  PROVE  IInv'
  <1> DEFINE new == [run[r] EXCEPT !.owner = "none"]
  <1>1. Types /\ Counted(r) /\ Alone(r) /\ pc[r] # "idle" /\ run[r] \in Refresh
    BY DEF IInv, Disconnect, Types
  <1>2. /\ pc' = [pc EXCEPT ![r] = pc[r]]
        /\ run' = [run EXCEPT ![r] = new]
        /\ low' = low /\ orders' = orders /\ row' = row /\ cron' = "lost" /\ pc' = pc
    BY <1>1 DEF Types, Disconnect, sap
  <1>3. /\ new \in Refresh /\ new.result = run[r].result
        /\ new.next = run[r].next /\ new.below = run[r].below
        /\ new.sometime = run[r].sometime /\ new.throughout = run[r].throughout
        /\ new.overlapped = run[r].overlapped
    BY <1>1 DEF Refresh, Owners
  <1> HIDE DEF new
  <1>4. run'[r] = new
    BY <1>1, <1>2 DEF Types
  <1>5. Types'
    BY <1>1, <1>2, <1>3 DEF Types, Crons
  <1>6. Same(r)
    BY <1>2, <1>3, <1>4 DEF Same
  <1>7. Counted(r)' /\ Alone(r)'
    BY <1>1, <1>2, <1>3, <1>4, <1>6, SameCounted, SameAlone
  <1> QED BY <1>1, <1>2, <1>5, <1>7, OthersKeep DEF IInv

\* SAP changes while stock levels are read: the bracket widens with it.
LEMMA StockChangeKeeps ==
  ASSUME IInv, NEW m \in Materials, StockChange(m)
  PROVE  IInv'
  <1> DEFINE wider(x) == [run[x] EXCEPT !.sometime = run[x].sometime \cup low',
                                        !.throughout = run[x].throughout \cap low']
  <1>1. /\ Types /\ \A x \in Runs : run[x] \in Refresh
        /\ pc' = pc /\ row' = row /\ orders' = orders /\ cron' = cron
    BY DEF IInv, Types, StockChange
  <1>2. low' \in SUBSET Materials
    BY <1>1 DEF Types, StockChange
  <1>3. run' = [x \in Runs |-> IF pc[x] = "stock" THEN wider(x) ELSE run[x]]
    BY DEF StockChange
  <1>4. ASSUME NEW x \in Runs
        PROVE  /\ wider(x) \in Refresh
               /\ wider(x).next = run[x].next /\ wider(x).below = run[x].below
               /\ wider(x).result = run[x].result
               /\ wider(x).overlapped = run[x].overlapped
               /\ wider(x).sometime = run[x].sometime \cup low'
               /\ wider(x).throughout = run[x].throughout \cap low'
    BY <1>1, <1>2 DEF Refresh
  <1> HIDE DEF wider
  <1>5. Types'
    BY <1>1, <1>2, <1>3, <1>4 DEF Types
  <1>6. ASSUME NEW x \in Runs PROVE Counted(x)'
    <2>1. CASE pc[x] # "stock"
      <3>1. run'[x] = run[x] /\ pc'[x] = pc[x]
        BY <1>1, <1>3, <2>1
      <3>2. Seen(x)' = Seen(x)
        BY <3>1 DEF Seen
      <3> QED BY <2>1, <3>1, <3>2 DEF IInv, Counted
    <2>2. CASE pc[x] = "stock"
      <3>1. run'[x] = wider(x) /\ pc'[x] = "stock"
        BY <1>1, <1>3, <2>2
      <3>2. Seen(x)' = Seen(x)
        BY <1>4, <3>1 DEF Seen
      <3> DEFINE P == run[x].sometime \cap Seen(x)
                 P1 == (run[x].sometime \cup low') \cap Seen(x)
                 Q == run[x].throughout \cap Seen(x)
                 Q1 == (run[x].throughout \cap low') \cap Seen(x)
      <3>3. /\ IsFiniteSet(Seen(x))
            /\ run[x].below <= Cardinality(P) /\ run[x].below >= Cardinality(Q)
            /\ run[x].below <= run[x].next - 1 /\ run[x].next <= Len(Tracked)
        BY <2>2 DEF IInv, Counted
      <3>4. IsFiniteSet(P) /\ IsFiniteSet(P1) /\ IsFiniteSet(Q) /\ IsFiniteSet(Q1)
        BY <3>3, FS_Subset
      <3>5. Cardinality(P) <= Cardinality(P1) /\ Cardinality(Q1) <= Cardinality(Q)
        BY <3>4, FS_Subset
      <3>6. /\ Cardinality(P) \in Nat /\ Cardinality(P1) \in Nat
            /\ Cardinality(Q) \in Nat /\ Cardinality(Q1) \in Nat
        BY <3>4, FS_CardinalityType
      <3>7. run[x].below \in Nat
        BY <1>1 DEF Refresh
      <3>8. /\ run'[x].sometime \cap Seen(x)' = P1
            /\ run'[x].throughout \cap Seen(x)' = Q1
            /\ low' \subseteq run'[x].sometime /\ run'[x].throughout \subseteq low'
            /\ run'[x].below = run[x].below /\ run'[x].next = run[x].next
        BY <1>4, <3>1, <3>2
      <3> HIDE DEF P, P1, Q, Q1
      <3>9. run[x].below <= Cardinality(P1) /\ run[x].below >= Cardinality(Q1)
        BY <3>3, <3>5, <3>6, <3>7
      <3> QED BY <3>1, <3>2, <3>3, <3>8, <3>9 DEF Counted
    <2> QED BY <2>1, <2>2
  <1>7. ASSUME NEW x \in Runs PROVE Alone(x)'
    <2>1. run'[x].overlapped = run[x].overlapped /\ run'[x].result = run[x].result
      BY <1>3, <1>4
    <2> QED BY <1>1, <2>1 DEF Alone, IInv
  <1> QED BY <1>5, <1>6, <1>7 DEF IInv

LEMMA OrderChangeKeeps ==
  ASSUME IInv, NEW n \in 0..MaxOrders, OrderChange(n)
  PROVE  IInv'
  <1>1. Types'
    BY DEF IInv, Types, OrderChange
  <1>2. ASSUME NEW x \in Runs PROVE Counted(x)' /\ Alone(x)'
    <2>1. Same(x)
      BY DEF Same, OrderChange
    <2> QED BY <2>1, SameCounted, SameAlone DEF IInv, OrderChange
  <1> QED BY <1>1, <1>2 DEF IInv

LEMMA NoticeKeeps ==
  ASSUME IInv, Notice
  PROVE  IInv'
  <1>1. Types'
    BY DEF IInv, Types, Notice, AfterLoss, Crons, sap
  <1>2. ASSUME NEW x \in Runs PROVE Counted(x)' /\ Alone(x)'
    <2>1. Same(x)
      BY DEF Same, Notice
    <2> QED BY <2>1, SameCounted, SameAlone DEF IInv, Notice, sap
  <1> QED BY <1>1, <1>2 DEF IInv

LEMMA StutterKeeps ==
  ASSUME IInv, UNCHANGED vars
  PROVE  IInv'
  <1>1. Types'
    BY DEF IInv, Types, vars
  <1>2. ASSUME NEW x \in Runs PROVE Counted(x)' /\ Alone(x)'
    <2>1. Same(x)
      BY DEF Same, vars
    <2> QED BY <2>1, SameCounted, SameAlone DEF IInv, vars
  <1> QED BY <1>1, <1>2 DEF IInv

LEMMA NextKeeps == IInv /\ [Next]_vars => IInv'
  <1> SUFFICES ASSUME IInv, [Next]_vars PROVE IInv'
    OBVIOUS
  <1>1. ASSUME NEW m \in Materials, StockChange(m) PROVE IInv'
    BY <1>1, StockChangeKeeps
  <1>2. ASSUME NEW n \in 0..MaxOrders, OrderChange(n) PROVE IInv'
    BY <1>2, OrderChangeKeeps
  <1>3. ASSUME NEW r \in Runs, Step(r) PROVE IInv'
    BY <1>3, RouteKeeps, ReadStockKeeps, WriteHealthKeeps, ReadOrdersKeeps,
       WriteOrdersKeeps, ReturnKeeps DEF Step
  <1>4. ASSUME NEW r \in Runs, Ask(r) PROVE IInv'
    BY <1>4, BeginKeeps DEF Ask, Owners, IInv, Types
  <1>5. ASSUME NEW r \in Runs, Fail(r) PROVE IInv'
    BY <1>5, FailKeeps
  <1>6. ASSUME NEW r \in Runs, Disconnect(r) PROVE IInv'
    BY <1>6, DisconnectKeeps
  <1>7. ASSUME NEW r \in Runs, Schedule(r) \/ Retry(r) PROVE IInv'
    BY <1>7, BeginKeeps DEF Schedule, Retry, Owners, Crons
  <1>8. ASSUME NEW r \in Runs, Stray(r) PROVE IInv'
    BY <1>8, StrayKeeps
  <1>9. CASE Notice
    BY <1>9, NoticeKeeps
  <1>10. CASE UNCHANGED vars
    BY <1>10, StutterKeeps
  <1> QED BY <1>1, <1>2, <1>3, <1>4, <1>5, <1>6, <1>7, <1>8, <1>9, <1>10 DEF Next, Post

-----------------------------------------------------------------------------
(***************************************************************************)
(* The theorems.                                                           *)
(***************************************************************************)

\* A refresh that is alone has stored what it is going to report, and what a
\* refresh has counted is bracketed by its history.
THEOREM Invariance == Spec => []IInv
  BY InitInv, NextKeeps, PTL DEF Spec

\* Every variable, and every field of a refresh, has its type.
THEOREM TypeCorrect == Spec => []TypeOK
  <1>1. IInv => TypeOK
    <2> SUFFICES ASSUME IInv PROVE TypeOK
      OBVIOUS
    <2>1. ASSUME NEW r \in Runs
          PROVE  /\ run[r].next \in 1..(Len(Tracked) + 1)
                 /\ run[r].below \in 0..(run[r].next - 1)
                 /\ run[r].result \in [Kpis -> Value]
      <3>1. run[r] \in Refresh /\ run[r].below <= run[r].next - 1
        BY DEF IInv, Types, Counted
      <3> QED BY <3>1, KpiAssumption DEF Refresh
    <2> QED BY <2>1 DEF IInv, Types, TypeOK
  <1> QED BY <1>1, Invariance, PTL

\* The stored number of low materials counts none that was never low while
\* the stock levels were read and all that were low throughout, however many
\* materials there are and however SAP changes in between.
THEOREM HealthCorrect == Spec => []HealthPlausible
  <1>1. IInv => HealthPlausible
    BY DEF IInv, Counted, HealthPlausible
  <1> QED BY <1>1, Invariance, PTL

\* A refresh that no other overlapped reports what the container holds.
THEOREM RefreshesComplete == Spec => []RefreshComplete
  <1>1. IInv => RefreshComplete
    <2> SUFFICES ASSUME IInv, NEW r \in Runs, pc[r] = "return", ~run[r].overlapped
                 PROVE  row = run[r].result
      BY DEF RefreshComplete
    <2>1. row \in [Kpis -> Value] /\ run[r].result \in [Kpis -> Value]
      BY DEF IInv, Types, Refresh
    <2>2. \A k \in Kpis : row[k] = run[r].result[k]
      BY DEF IInv, Alone, Kpis
    <2> QED BY <2>1, <2>2
  <1> QED BY <1>1, Invariance, PTL

-----------------------------------------------------------------------------
(***************************************************************************)
(* The safety halves of DashboardCatchesUp: the CronJob always has somebody*)
(* to wait for, so that every run of it ends, and what the dashboards have *)
(* once caught up with is not lost again.                                  *)
(***************************************************************************)

\* While it waits for an answer, exactly one refresh is going to give it.
Serves(r) == pc[r] # "idle" /\ run[r].owner = "cron"

OneJob ==
    /\ cron = "posted" <=> \E r \in Runs : Serves(r)
    /\ \A r, x \in Runs : Serves(r) /\ Serves(x) => r = x

LEMMA BeginServes ==
  ASSUME IInv, OneJob, NEW r \in Runs, NEW owner \in {"cron", "chat"}, Begin(r, owner),
         \/ owner = "cron" /\ cron # "posted" /\ cron' = "posted"
         \/ owner = "chat" /\ cron' = cron
  PROVE  OneJob'
  <1>1. \A x \in Runs : run[x] \in Refresh
    BY DEF IInv, Types
  <1>2. pc[r] = "idle" /\ pc'[r] = "supervisor" /\ run'[r].owner = owner
    BY DEF Begin, IInv, Types, Idle
  <1>3. \A x \in Runs : x # r => pc'[x] = pc[x] /\ run'[x].owner = run[x].owner
    BY <1>1 DEF Begin, IInv, Types, Refresh
  <1>4. \A x \in Runs : Serves(x)' <=> (IF x = r THEN owner = "cron" ELSE Serves(x))
    BY <1>2, <1>3 DEF Serves
  <1>5. ~Serves(r)
    BY <1>2 DEF Serves
  <1> QED
    BY <1>4, <1>5 DEF OneJob

\* A refresh that leaves, or loses its CronJob.
LEMMA LeaveServes ==
  ASSUME OneJob, NEW r \in Runs, ~Serves(r)', pc[r] # "idle",
         \A x \in Runs : x # r => pc'[x] = pc[x] /\ run'[x] = run[x],
         IF run[r].owner = "cron" THEN cron' # "posted" ELSE cron' = cron
  PROVE  OneJob'
  <1>1. \A x \in Runs : Serves(x)' <=> x # r /\ Serves(x)
    BY DEF Serves
  <1>2. Serves(r) <=> run[r].owner = "cron"
    BY DEF Serves
  <1> QED
    BY <1>1, <1>2 DEF OneJob

LEMMA SameServes ==
  ASSUME OneJob, cron' = cron,
         \A x \in Runs : (pc'[x] = "idle" <=> pc[x] = "idle") /\ run'[x].owner = run[x].owner
  PROVE  OneJob'
  <1>1. \A x \in Runs : Serves(x)' <=> Serves(x)
    BY DEF Serves
  <1> QED
    BY <1>1 DEF OneJob

LEMMA OneJobKept ==
  ASSUME IInv, OneJob, [Next]_vars
  PROVE  OneJob'
  <1>1. /\ pc \in [Runs -> Steps] /\ run \in [Runs -> Refresh]
        /\ \A x \in Runs : run[x] \in Refresh
    BY DEF IInv, Types
  <1>2. CASE UNCHANGED vars \/ \E n \in 0..MaxOrders : OrderChange(n)
    BY <1>2, SameServes DEF vars, OrderChange
  <1>3. ASSUME NEW m \in Materials, StockChange(m) PROVE OneJob'
    <2>1. pc' = pc /\ cron' = cron
      BY <1>3 DEF StockChange
    <2>2. \A x \in Runs : run'[x].owner = run[x].owner
      BY <1>1, <1>3 DEF StockChange, Refresh
    <2> QED
      BY <2>1, <2>2, SameServes
  <1>4. ASSUME NEW r \in Runs,
               ReadStock(r) \/ WriteHealth(r) \/ ReadOrders(r) \/ WriteOrders(r)
        PROVE  OneJob'
    <2>1. cron' = cron /\ pc[r] # "idle" /\ pc'[r] # "idle"
      BY <1>1, <1>4 DEF ReadStock, WriteHealth, ReadOrders, WriteOrders
    <2>2. \A x \in Runs : x # r => pc'[x] = pc[x] /\ run'[x] = run[x]
      BY <1>1, <1>4 DEF ReadStock, WriteHealth, ReadOrders, WriteOrders, WriteKpi
    <2>3. run'[r].owner = run[r].owner
      BY <1>1, <1>4 DEF ReadStock, WriteHealth, ReadOrders, WriteOrders, WriteKpi, Refresh
    <2> QED
      BY <2>1, <2>2, <2>3, SameServes
  <1>5. ASSUME NEW r \in Runs, pc[r] # "idle", Leave(r),
               IF run[r].owner = "cron" THEN cron' # "posted" ELSE cron' = cron
        PROVE  OneJob'
    <2>1. pc'[r] = "idle" /\ \A x \in Runs : x # r => pc'[x] = pc[x] /\ run'[x] = run[x]
      BY <1>1, <1>5 DEF Leave
    <2> QED
      BY <1>5, <2>1, LeaveServes DEF Serves
  <1>8. ASSUME NEW r \in Runs, Return(r) \/ Fail(r) PROVE OneJob'
    BY <1>5, <1>8 DEF Return, Fail, Answered
  <1>9. ASSUME NEW r \in Runs, pc[r] # "idle", Enter(r), cron' = cron PROVE OneJob'
    <2>1. /\ pc'[r] = "stock" /\ run'[r].owner = run[r].owner
          /\ \A x \in Runs : x # r => pc'[x] = pc[x] /\ run'[x] = run[x]
      BY <1>1, <1>9 DEF Enter, Idle
    <2> QED
      BY <1>9, <2>1, SameServes
  <1>10. ASSUME NEW r \in Runs, Route(r) \/ Stray(r) PROVE OneJob'
    BY <1>5, <1>9, <1>10 DEF Route, Stray, Answered
  <1>11. CASE Notice
    BY <1>11 DEF Notice, AfterLoss, OneJob, Serves
  <1>6. ASSUME NEW r \in Runs, Disconnect(r) PROVE OneJob'
    <2>1. pc[r] # "idle" /\ run[r].owner = "cron" /\ cron' # "posted" /\ pc' = pc
      BY <1>6 DEF Disconnect
    <2>2. run'[r].owner = "none" /\ \A x \in Runs : x # r => run'[x] = run[x]
      BY <1>1, <1>6 DEF Disconnect, Refresh
    <2> QED
      BY <2>1, <2>2, LeaveServes DEF Serves
  <1>7. ASSUME NEW r \in Runs, Schedule(r) \/ Retry(r) \/ Ask(r) PROVE OneJob'
    BY <1>7, BeginServes DEF Schedule, Retry, Ask
  <1> QED
    BY <1>2, <1>3, <1>4, <1>6, <1>7, <1>8, <1>10, <1>11 DEF Next, Step, Post

\* A post of the CronJob is out exactly while one refresh owes it an answer,
\* whatever the router answers, whichever calls fail and connections are lost:
\* it never waits for two, and never for nobody.
THEOREM CronServed == Spec => []OneJob
  <1>1. Init => OneJob
    BY DEF Init, OneJob, Serves
  <1> QED
    BY <1>1, OneJobKept, Invariance, PTL DEF Spec

\* What a refresh has read so far is what SAP has now.
Right(r) ==
    /\ pc[r] \in {"stock", "health"} => run[r].below = Cardinality(Seen(r) \cap low)
    /\ pc[r] = "open" => run[r].count = orders

\* The dashboards show what SAP has, and no refresh in flight knows better.
InStep ==
    /\ Shows("inventory_health", Cardinality(low))
    /\ Shows("open_purchase_orders", orders)
    /\ \A r \in Runs : Right(r)

\* The refresh has not come further than the numbers it has read.
Rested(r) ==
    /\ pc'[r] = pc[r] /\ run'[r].next = run[r].next /\ run'[r].below = run[r].below
    /\ run'[r].count = run[r].count

Started(r) == pc'[r] = "stock" /\ run'[r].next = 1 /\ run'[r].below = 0

LEMMA HowARunMoves ==
  ASSUME IInv, [Next]_vars, UNCHANGED sap, NEW x \in Runs
  PROVE  \/ Rested(x) \/ Started(x) \/ ReadStock(x) \/ ReadOrders(x)
         \/ pc'[x] \in {"idle", "supervisor", "orders", "return"}
  <1>1. /\ pc \in [Runs -> Steps] /\ run \in [Runs -> Refresh]
        /\ \A y \in Runs : run[y] \in Refresh
    BY DEF IInv, Types
  <1>2. CASE UNCHANGED vars \/ \E n \in 0..MaxOrders : OrderChange(n)
    BY <1>2 DEF vars, OrderChange, Rested
  <1>3. ASSUME NEW m \in Materials PROVE ~StockChange(m)
    BY DEF StockChange, sap
  <1>4. ASSUME NEW r \in Runs,
               ReadStock(r) \/ WriteHealth(r) \/ ReadOrders(r) \/ WriteOrders(r)
        PROVE  \/ (x # r /\ Rested(x)) \/ ReadStock(x) \/ ReadOrders(x)
               \/ pc'[x] \in {"orders", "return"}
    BY <1>1, <1>4 DEF ReadStock, WriteHealth, ReadOrders, WriteOrders, WriteKpi, Rested
  <1>5. ASSUME NEW r \in Runs, Leave(r) PROVE Rested(x) \/ pc'[x] = "idle"
    BY <1>1, <1>5 DEF Leave, Rested
  <1>6. ASSUME NEW r \in Runs, Enter(r) PROVE Rested(x) \/ Started(x)
    BY <1>1, <1>6 DEF Enter, Rested, Started, Idle
  <1>7. ASSUME NEW r \in Runs, Return(r) \/ Fail(r) \/ Route(r) \/ Stray(r)
        PROVE  Rested(x) \/ Started(x) \/ pc'[x] = "idle"
    BY <1>5, <1>6, <1>7 DEF Return, Fail, Route, Stray
  <1>8. ASSUME NEW r \in Runs, Disconnect(r) PROVE Rested(x)
    BY <1>1, <1>8 DEF Disconnect, Rested, Refresh
  <1>9. ASSUME NEW r \in Runs, NEW owner, Begin(r, owner)
        PROVE  Rested(x) \/ pc'[x] = "supervisor"
    BY <1>1, <1>9 DEF Begin, Rested, Refresh
  <1>10. ASSUME NEW r \in Runs, Schedule(r) \/ Retry(r) \/ Ask(r)
         PROVE  Rested(x) \/ pc'[x] = "supervisor"
    BY <1>9, <1>10 DEF Schedule, Retry, Ask
  <1>11. CASE Notice
    BY <1>11 DEF Notice, Rested
  <1> QED
    BY <1>2, <1>3, <1>4, <1>7, <1>8, <1>10, <1>11 DEF Next, Step, Post

\* A refresh that has read nothing stale reads nothing stale while SAP rests.
LEMMA RightKept ==
  ASSUME IInv, [Next]_vars, UNCHANGED sap, NEW r \in Runs, Right(r)
  PROVE  Right(r)'
  <1>1. low' = low /\ orders' = orders /\ Types /\ Counted(r)
    BY DEF sap, IInv
  <1>2. CASE Rested(r)
    <2>1. Seen(r)' = Seen(r)
      BY <1>2 DEF Rested, Seen
    <2> QED
      BY <1>1, <1>2, <2>1 DEF Rested, Right
  <1>3. CASE Started(r)
    <2>1. Seen(r)' = {}
      BY <1>3 DEF Started, Seen
    <2>2. Cardinality(Seen(r)' \cap low') = 0
      BY <2>1, FS_EmptySet
    <2> QED
      BY <1>3, <2>2 DEF Started, Right
  <1>4. CASE ReadStock(r)
    <2> DEFINE m == Tracked[run[r].next]
    <2>1. /\ run[r] \in Refresh /\ pc[r] = "stock" /\ run[r].next <= Len(Tracked)
          /\ run[r].next \in 1..Len(Tracked) /\ IsFiniteSet(Seen(r)) /\ run[r].below \in Nat
          /\ run[r].below = Cardinality(Seen(r) \cap low)
      BY <1>1, <1>4, KpiAssumption DEF ReadStock, Types, Counted, Refresh, Right
    <2>2. /\ pc'[r] \in {"stock", "health"} /\ run'[r].next = run[r].next + 1
          /\ run'[r].below = IF m \in low THEN run[r].below + 1 ELSE run[r].below
      BY <1>1, <1>4, <2>1 DEF ReadStock, Types, BelowSafetyStock, Current, Refresh
    <2>3. Seen(r)' = Seen(r) \cup {m}
      <3>1. 1..(run'[r].next - 1) = 1..(run[r].next - 1) \cup {run[r].next}
        BY <2>1, <2>2
      <3> QED
        BY <3>1 DEF Seen
    <2>4. m \notin Seen(r)
      <3>1. \A k \in 1..(run[r].next - 1) : Tracked[k] # m
        BY <2>1, KpiAssumption
      <3> QED
        BY <3>1 DEF Seen
    <2> HIDE DEF m
    <2>5. Cardinality(Seen(r)' \cap low) = IF m \in low THEN run[r].below + 1 ELSE run[r].below
      <3> DEFINE S == Seen(r) \cap low
      <3>1. IsFiniteSet(S) /\ m \notin S
        BY <2>1, <2>4, FS_Subset
      <3>2. Cardinality(S \cup {m}) = Cardinality(S) + 1
        BY <3>1, FS_AddElement
      <3>3. Seen(r)' \cap low = IF m \in low THEN S \cup {m} ELSE S
        BY <2>3
      <3> QED
        BY <2>1, <3>2, <3>3
    <2> QED
      BY <1>1, <2>2, <2>5 DEF Right
  <1>5. CASE ReadOrders(r)
    BY <1>1, <1>5 DEF ReadOrders, OpenPos, Types, Refresh, Right
  <1>6. CASE pc'[r] \in {"idle", "supervisor", "orders", "return"}
    BY <1>6 DEF Right
  <1> QED
    BY <1>2, <1>3, <1>4, <1>5, <1>6, HowARunMoves

\* What a refresh stores that has read nothing stale.
LEMMA RightHealth ==
  ASSUME IInv, NEW r \in Runs, Right(r), pc[r] = "health"
  PROVE  run[r].below \in Nat /\ run[r].below = Cardinality(low)
  <1>1. /\ run[r].next = Len(Tracked) + 1 /\ run[r] \in Refresh /\ low \subseteq Materials
        /\ run[r].below = Cardinality(Seen(r) \cap low)
    BY DEF IInv, Types, Counted, Right
  <1>2. Seen(r) = Materials
    BY <1>1, KpiAssumption DEF Seen, Materials
  <1>3. Seen(r) \cap low = low
    BY <1>1, <1>2
  <1> QED
    BY <1>1, <1>3 DEF Refresh

\* How the container changes.
LEMMA RowSteps ==
  ASSUME [Next]_vars
  PROVE  \/ row' = row
         \/ \E r \in Runs :
               \/ pc[r] = "health" /\ row' = [row EXCEPT !["inventory_health"] = run[r].below]
               \/ pc[r] = "open" /\ row' = [row EXCEPT !["open_purchase_orders"] = run[r].count]
  BY DEF Next, vars, Step, Post, StockChange, OrderChange, ReadStock, WriteHealth, ReadOrders,
         WriteOrders, Return, Fail, Disconnect, Schedule, Retry, Ask, WriteKpi, Stored, Route,
         Stray, Notice

\* A step that leaves SAP alone leaves the dashboards in step with it.
StaysInStep == [][InStep /\ UNCHANGED sap => InStep']_vars

\* Once the dashboards show what SAP has, and every refresh in flight has read
\* nothing else, they show it until SAP changes again: whichever refreshes
\* start, overlap, fail half-way or are repeated meanwhile.
THEOREM DashboardStays == Spec => StaysInStep
  <1>1. ASSUME IInv, [Next]_vars, InStep, UNCHANGED sap PROVE InStep'
    <2>1. /\ low' = low /\ orders' = orders /\ orders \in Nat /\ row \in [Kpis -> Value]
          /\ "inventory_health" \in Kpis /\ "open_purchase_orders" \in Kpis
      BY <1>1, KpiAssumption DEF sap, IInv, Types, Kpis
    <2>2. \A r \in Runs : Right(r)'
      BY <1>1, RightKept DEF InStep
    <2>3. row["open_purchase_orders"] = orders /\ row["inventory_health"] = Cardinality(low)
      BY <1>1 DEF InStep, Shows, ReadKpi
    <2>4. row' = row
      <3>1. ASSUME NEW r \in Runs, pc[r] = "health"
            PROVE  run[r].below = row["inventory_health"]
        BY <1>1, <2>3, <3>1, RightHealth DEF InStep
      <3>2. ASSUME NEW r \in Runs, pc[r] = "open"
            PROVE  run[r].count = row["open_purchase_orders"]
        BY <1>1, <2>3, <3>2 DEF InStep, Right
      <3> QED
        BY <1>1, <2>1, <3>1, <3>2, RowSteps
    <2> QED
      BY <1>1, <2>1, <2>2, <2>4 DEF InStep, Shows, ReadKpi
  <1>2. IInv /\ [Next]_vars => [InStep /\ UNCHANGED sap => InStep']_vars
    BY <1>1
  <1> QED
    BY <1>2, Invariance, PTL DEF Spec, StaysInStep

=============================================================================
