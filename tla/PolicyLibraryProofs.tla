------------------------ MODULE PolicyLibraryProofs ------------------------
(***************************************************************************)
(* Theorems of PolicyLibrary, for any documents, indexes, processes, model *)
(* answers and size of the cache.                                          *)
(***************************************************************************)
EXTENDS PolicyLibrary, FiniteSetTheorems, SequenceTheorems, TLAPS

Extraction == [key : Seq(Passage), docs : Seq(Passage), answer : Replies]
Use == [docs : Seq(Passage), rules : RulesUsed]

Types ==
    /\ today \in Day
    /\ disk \in Shelf
    /\ published \in 1..MaxVersion
    /\ index \in [Indexes -> Shelf \cup {None}]
    /\ uploaded \in [Indexes -> Shelf \cup {None}]
    /\ job \in [Jobs -> Job \cup {None, OVER}]
    /\ config \in Indexes
    /\ settings \in [Pods -> Indexes]
    /\ cache \in [Pods -> Seq(Extraction)]
    /\ recent \in [Pods -> Seq(Use)]
    /\ check \in [Checks -> Check \cup Result \cup {None}]

\* What a job that exited with 0 has put into an index is still in it.
Uploaded(i) ==
    uploaded[i] # None =>
        /\ index[i] # None
        /\ \A d \in Docs : uploaded[i][d] # None => index[i][d] = uploaded[i][d]

\* ... and so is, before, what it has merged so far.
Started(j) ==
    Running(j) =>
        /\ index[job[j].index] # None
        /\ job[j].intact /\ ~job[j].failed =>
              \A d \in Answered(j) : index[job[j].index][d] = job[j].docs[d]

\* The documents a check retrieved, and what it decided by.
Sound(was) ==
    /\ \A k \in 1..Len(was.docs) : was.docs[k].entry.effective <= was.day
    /\ was.promised # None =>
          \A d \in Policies :
              was.promised[d] # None /\ was.promised[d].effective <= was.day =>
                  \E k \in 1..Len(was.docs) :
                      was.docs[k] = [doc |-> d, entry |-> was.promised[d]]
    /\ "rules" \in DOMAIN was =>
          was.from = was.docs /\ was.earlier \subseteq {was.rules}

(***************************************************************************)
(* A process still has the answer to each text it used recently: since the *)
(* use, no more texts went to the cache than to the history.               *)
(***************************************************************************)
Covers(entries, uses, k) ==
    IF uses[k].docs = <<>> THEN uses[k].rules = FALLBACK
    ELSE \E m \in 1..Len(entries) :
            /\ entries[m].docs = uses[k].docs
            /\ uses[k].rules = RulesOf(entries[m].answer)
            /\ Len(entries) - m <= Len(uses) - k

Agree(entries, uses) ==
    /\ \A m \in 1..Len(entries) : entries[m].key = Key(entries[m].docs)
    /\ \A m, n \in 1..Len(entries) : entries[m].docs = entries[n].docs => m = n
    /\ \A k \in 1..Len(uses) : Covers(entries, uses, k)

Fits(entries, uses) ==
    /\ Len(entries) <= CacheSize /\ Len(uses) <= CacheSize
    /\ Agree(entries, uses)

IInv ==
    /\ Types
    /\ \A i \in Indexes : Uploaded(i)
    /\ \A j \in Jobs : Started(j)
    /\ \A c \in Checks : check[c] # None => Sound(check[c])
    /\ \A p \in Pods : Fits(cache[p], recent[p])

-----------------------------------------------------------------------------

LEMMA EmptyIsShelf == Empty \in Shelf /\ Empty # None
  BY LibraryAssumption DEF Empty, Shelf

LEMMA RulesType == \A answer \in Replies : RulesOf(answer) \in RulesUsed
  BY DEF RulesOf, Valid, RulesUsed, Replies

LEMMA FallbackType == FALLBACK \in RulesUsed
  BY DEF RulesUsed

LEMMA NothingFits == Fits(<<>>, <<>>)
  BY LibraryAssumption DEF Fits, Agree

LEMMA InitInv == Init => IInv
  <1> SUFFICES ASSUME Init PROVE IInv
    OBVIOUS
  <1>1. disk \in Shelf /\ today \in Day /\ published \in 1..MaxVersion
    BY LibraryAssumption DEF Init, Shelf, Entry, Day
  <1>2. PICK i \in Indexes :
           /\ config = i
           /\ index = [x \in Indexes |-> IF x = i THEN disk ELSE None]
           /\ uploaded = index
    BY DEF Init
  <1>3. Types
    BY <1>1, <1>2 DEF Init, Types
  <1>4. \A x \in Indexes : Uploaded(x)
    BY <1>1, <1>2 DEF Uploaded
  <1> QED
    BY <1>3, <1>4, NothingFits DEF Init, IInv, Started, Running

-----------------------------------------------------------------------------
(***************************************************************************)
(* The library.                                                            *)
(***************************************************************************)

\* The steps that leave the processes alone.
LEMMA LibraryStep ==
  ASSUME IInv, UNCHANGED <<cache, check, recent>>, Types',
         \A i \in Indexes : Uploaded(i)', \A j \in Jobs : Started(j)'
  PROVE  IInv'
  BY DEF IInv

LEMMA StartJobKeeps ==
  ASSUME IInv, NEW j \in Jobs, NEW source \in Shelf, NEW i \in Indexes,
         StartJob(j, source, i)
  PROVE  IInv'
  <1> DEFINE left == {d \in Docs : source[d] # None}
             new == [index |-> i, docs |-> source, left |-> left, failed |-> FALSE,
                     intact |-> TRUE]
  <1>1. /\ job' = [job EXCEPT ![j] = new]
        /\ index' = Created(i)
        /\ UNCHANGED <<today, disk, published, uploaded, config, settings, cache,
                       check, recent>>
    BY DEF StartJob
  <1>2. /\ index' \in [Indexes -> Shelf \cup {None}] /\ index'[i] # None
        /\ \A x \in Indexes : index[x] # None => index'[x] = index[x]
    BY <1>1, EmptyIsShelf DEF Created, IInv, Types
  <1>3. new \in Job /\ job' \in [Jobs -> Job \cup {None, OVER}]
    <2>1. new \in Job
      BY DEF Job
    <2> QED
      BY <1>1, <2>1 DEF IInv, Types
  <1>4. Types'
    BY <1>1, <1>2, <1>3 DEF IInv, Types
  <1>5. \A x \in Indexes : Uploaded(x)'
    BY <1>1, <1>2 DEF IInv, Uploaded
  <1>6. ASSUME NEW x \in Jobs PROVE Started(x)'
    <2>1. CASE x = j
      <3>1. job'[x].index = i /\ job'[x].docs = source /\ job'[x].left = left
        BY <1>1, <2>1 DEF IInv, Types
      <3>2. \A d \in Docs : source[d] # None => d \in left
        OBVIOUS
      <3> HIDE DEF left, new
      <3>3. Answered(x)' = {}
        BY <3>1, <3>2 DEF Answered
      <3> QED
        BY <1>2, <3>1, <3>3 DEF Started
    <2>2. CASE x # j
      <3>1. job'[x] = job[x] /\ job[x] \in Job \cup {None, OVER}
        BY <1>1, <2>2 DEF IInv, Types
      <3>2. Running(x) => job[x].index \in Indexes
        BY <3>1 DEF Running, Job
      <3> QED
        BY <1>2, <3>1, <3>2 DEF Started, Running, Answered, IInv
    <2> QED
      BY <2>1, <2>2
  <1> QED
    BY <1>1, <1>4, <1>5, <1>6, LibraryStep

LEMMA RunningType ==
  ASSUME IInv, NEW j \in Jobs, Running(j)
  PROVE  /\ job[j] \in Job /\ job[j].index \in Indexes /\ job[j].docs \in Shelf
         /\ index[job[j].index] \in Shelf
  <1>1. job[j] \in Job
    BY DEF Running, IInv, Types
  <1>2. job[j].index \in Indexes /\ job[j].docs \in Shelf
    BY <1>1 DEF Job
  <1> QED
    BY <1>1, <1>2 DEF Started, IInv, Types

\* A document is merged: what another job had merged of it is no longer promised.
LEMMA MergeKeeps ==
  ASSUME IInv, NEW j \in Jobs, NEW d \in Docs, Merge(j, d)
  PROVE  IInv'
  <1>1. PICK i \in Indexes, docs \in Shelf :
           /\ i = job[j].index /\ docs = job[j].docs /\ Running(j)
           /\ job[j] \in Job /\ index[i] \in Shelf
    BY RunningType DEF Merge
  <1> DEFINE new == [index[i] EXCEPT ![d] = docs[d]]
  <1>2. /\ index' = [index EXCEPT ![i] = new]
        /\ uploaded' = [uploaded EXCEPT ![i] = None]
        /\ UNCHANGED <<today, disk, published, config, settings, cache, check, recent>>
    BY <1>1 DEF Merge
  <1>3. /\ new \in Shelf /\ new # None /\ new[d] = docs[d]
        /\ \A e \in Docs : e # d => new[e] = index[i][e]
    BY <1>1, LibraryAssumption DEF Shelf
  <1> HIDE DEF new
  <1>4. PICK mine : mine = [job[j] EXCEPT !.left = @ \ {d}]
    OBVIOUS
  <1>5. job' = [x \in Jobs |-> IF x = j THEN mine ELSE Overwritten(x, j, d)]
    BY <1>4 DEF Merge
  <1>6. /\ mine \in Job /\ mine.index = i /\ mine.docs = docs
        /\ mine.left = job[j].left \ {d} /\ mine.failed = job[j].failed
        /\ mine.intact = job[j].intact
    BY <1>1, <1>4 DEF Job
  <1>7. \A x \in Jobs : Overwritten(x, j, d) \in Job \cup {None, OVER}
    BY DEF Overwritten, Running, Job, IInv, Types
  <1>8. Types'
    BY <1>2, <1>3, <1>5, <1>6, <1>7 DEF IInv, Types
  <1>9. \A x \in Indexes : Uploaded(x)'
    BY <1>2 DEF IInv, Types, Uploaded
  <1>10. ASSUME NEW x \in Jobs PROVE Started(x)'
    <2>1. CASE x = j
      <3>1. job'[x] = mine
        BY <1>5, <2>1
      <3>2. index'[i] = new
        BY <1>2 DEF IInv, Types
      <3>3. \A e \in Answered(x)' : e = d \/ e \in Answered(j)
        BY <1>1, <1>6, <3>1 DEF Answered
      <3>4. \A e \in Answered(x)' : e \in Docs
        BY DEF Answered
      <3>5. ASSUME mine.intact, ~mine.failed, NEW e \in Answered(x)'
            PROVE  new[e] = docs[e]
        <4>1. e # d => index[i][e] = docs[e]
          BY <1>1, <1>6, <3>3, <3>5 DEF IInv, Started
        <4> QED
          BY <1>3, <3>4, <4>1
      <3> QED
        BY <1>3, <1>6, <3>1, <3>2, <3>5 DEF Started
    <2>2. CASE x # j
      <3>1. job'[x] = Overwritten(x, j, d)
        BY <1>5, <2>2
      <3>2. CASE ~Running(x)
        BY <3>1, <3>2 DEF Overwritten, Started, Running
      <3>3. CASE Running(x)
        <4>1. PICK y \in Job : y = job[x] /\ y.index \in Indexes
          BY <3>3, RunningType
        <4>2. index'[y.index] # None
          BY <1>2, <1>3, <3>3, <4>1, RunningType DEF IInv, Types, Started
        <4>3. CASE y.index = i /\ d \in Answered(x)
          <5>1. job'[x] = [y EXCEPT !.intact = FALSE]
            BY <1>1, <3>1, <3>3, <4>1, <4>3 DEF Overwritten
          <5>2. job'[x].index = y.index /\ ~job'[x].intact
            BY <4>1, <5>1 DEF Job
          <5> QED
            BY <4>2, <5>2 DEF Started
        <4>4. CASE ~(y.index = i /\ d \in Answered(x))
          <5>1. job'[x] = y
            BY <1>1, <3>1, <4>1, <4>4 DEF Overwritten
          <5>2. Answered(x)' = Answered(x)
            BY <4>1, <5>1 DEF Answered
          <5>3. \A e \in Answered(x) : index'[y.index][e] = index[y.index][e]
            <6>1. CASE y.index = i
              <7>1. \A e \in Answered(x) : e \in Docs /\ e # d
                BY <4>4, <6>1 DEF Answered
              <7> QED
                BY <1>2, <1>3, <6>1, <7>1 DEF IInv, Types
            <6>2. CASE y.index # i
              BY <1>2, <4>1, <6>2 DEF IInv, Types
            <6> QED
              BY <6>1, <6>2
          <5>4. /\ index[y.index] # None
                /\ y.intact /\ ~y.failed =>
                      \A e \in Answered(x) : index[y.index][e] = y.docs[e]
            BY <3>3, <4>1 DEF IInv, Started
          <5> QED
            BY <4>2, <5>1, <5>2, <5>3, <5>4 DEF Started
        <4> QED
          BY <4>3, <4>4
      <3> QED
        BY <3>2, <3>3
    <2> QED
      BY <2>1, <2>2
  <1> QED
    BY <1>2, <1>8, <1>9, <1>10, LibraryStep

LEMMA RejectKeeps ==
  ASSUME IInv, NEW j \in Jobs, NEW d \in Docs, Reject(j, d)
  PROVE  IInv'
  <1>1. PICK mine : mine = [job[j] EXCEPT !.left = @ \ {d}, !.failed = TRUE]
    OBVIOUS
  <1>2. /\ Running(j) /\ job' = [job EXCEPT ![j] = mine]
        /\ UNCHANGED <<today, disk, published, index, uploaded, config, settings,
                       cache, check, recent>>
    BY <1>1 DEF Reject, IInv, Types
  <1>3. mine \in Job /\ mine.failed /\ mine.index = job[j].index
    BY <1>1, <1>2, RunningType DEF Job
  <1>4. Types'
    BY <1>2, <1>3 DEF IInv, Types
  <1>5. ASSUME NEW x \in Jobs PROVE Started(x)'
    <2>1. CASE x = j
      BY <1>2, <1>3, <2>1 DEF Started, IInv, Types
    <2>2. CASE x # j
      BY <1>2, <2>2 DEF Started, Running, Answered, IInv, Types
    <2> QED
      BY <2>1, <2>2
  <1> QED
    BY <1>2, <1>4, <1>5, LibraryStep DEF IInv, Uploaded

\* The steps that end a job.
LEMMA JobEnds ==
  ASSUME IInv, NEW j \in Jobs, job' = [job EXCEPT ![j] = OVER], UNCHANGED index
  PROVE  /\ job' \in [Jobs -> Job \cup {None, OVER}]
         /\ \A x \in Jobs : Started(x)'
  <1>1. \A x \in Jobs : job'[x] = OVER \/ job'[x] = job[x]
    BY DEF IInv, Types
  <1> QED
    BY <1>1 DEF Started, Running, Answered, IInv, Types

LEMMA FinishKeeps ==
  ASSUME IInv, NEW j \in Jobs, Finish(j)
  PROVE  IInv'
  <1>1. PICK i \in Indexes, docs \in Shelf :
           /\ i = job[j].index /\ docs = job[j].docs /\ Running(j)
           /\ job[j] \in Job /\ index[i] \in Shelf
    BY RunningType DEF Finish
  <1>2. /\ job' = [job EXCEPT ![j] = OVER]
        /\ UNCHANGED <<today, disk, published, index, config, settings, cache,
                       check, recent>>
    BY DEF Finish
  <1>3. /\ uploaded' \in [Indexes -> Shelf \cup {None}]
        /\ \A x \in Indexes : Uploaded(x)'
    <2>1. CASE ~job[j].failed /\ job[j].intact
      <3>1. uploaded' = [uploaded EXCEPT ![i] = docs]
        BY <1>1, <2>1 DEF Finish, ExitsWithZero
      <3>2. \A d \in Docs : docs[d] # None => d \in Answered(j)
        BY <1>1 DEF Finish, Answered
      <3>3. \A d \in Docs : docs[d] # None => index[i][d] = docs[d]
        BY <1>1, <2>1, <3>2 DEF IInv, Started
      <3>4. index[i] # None
        BY <1>1, LibraryAssumption
      <3> QED
        BY <1>2, <3>1, <3>3, <3>4 DEF IInv, Types, Uploaded
    <2>2. CASE ~(~job[j].failed /\ job[j].intact)
      BY <1>2, <2>2 DEF Finish, ExitsWithZero, IInv, Types, Uploaded
    <2> QED
      BY <2>1, <2>2
  <1>4. Types'
    BY <1>2, <1>3, JobEnds DEF IInv, Types
  <1> QED
    BY <1>2, <1>3, <1>4, JobEnds, LibraryStep

LEMMA LibraryKeeps ==
  ASSUME IInv,
         \/ \E d \in Docs, day \in Day : Publish(d, day)
         \/ \E j \in Jobs, i \in Indexes :
               \/ UploadPolicies(j, i)
               \/ \E x \in Indexes : Clone(j, x, i)
         \/ \E j \in Jobs :
               \/ \E d \in Docs : Merge(j, d) \/ Reject(j, d)
               \/ Finish(j)
               \/ JobRaises(j)
         \/ \E i \in Indexes : Deploy(i)
         \/ NextDay
  PROVE  IInv'
  <1>1. ASSUME NEW d \in Docs, NEW day \in Day, Publish(d, day) PROVE IInv'
    <2>1. /\ published' \in 1..MaxVersion
          /\ disk' = [disk EXCEPT ![d] = [version |-> published', effective |-> day]]
          /\ UNCHANGED <<today, index, uploaded, job, config, settings, cache, check, recent>>
      BY <1>1, LibraryAssumption DEF Publish, IInv, Types
    <2>2. [version |-> published', effective |-> day] \in Entry
      BY <2>1 DEF Entry
    <2>3. Types'
      BY <2>1, <2>2 DEF IInv, Types, Shelf
    <2> QED
      BY <2>1, <2>3, LibraryStep DEF IInv, Uploaded, Started, Running, Answered
  <1>2. ASSUME NEW j \in Jobs, NEW i \in Indexes, UploadPolicies(j, i) PROVE IInv'
    BY <1>2, StartJobKeeps DEF UploadPolicies, IInv, Types
  <1>3. ASSUME NEW j \in Jobs, NEW i \in Indexes, NEW x \in Indexes, Clone(j, x, i)
        PROVE  IInv'
    BY <1>3, StartJobKeeps DEF Clone, LoadedFrom, IInv, Types
  <1>4. ASSUME NEW j \in Jobs, JobRaises(j) PROVE IInv'
    <2>1. Types' /\ UNCHANGED <<index, uploaded, cache, check, recent>>
      BY <1>4, JobEnds DEF JobRaises, IInv, Types
    <2> QED
      BY <1>4, <2>1, JobEnds, LibraryStep DEF JobRaises, IInv, Uploaded
  <1>5. ASSUME NEW i \in Indexes, Deploy(i) PROVE IInv'
    BY <1>5, LibraryStep DEF Deploy, IInv, Types, Uploaded, Started, Running, Answered
  <1>6. CASE NextDay
    <2>1. today' \in Day
      BY <1>6, LibraryAssumption DEF NextDay, Day, IInv, Types
    <2> QED
      BY <1>6, <2>1, LibraryStep DEF NextDay, library, IInv, Types, Uploaded, Started,
         Running, Answered
  <1> QED
    BY <1>1, <1>2, <1>3, <1>4, <1>5, <1>6, MergeKeeps, RejectKeeps, FinishKeeps

-----------------------------------------------------------------------------
(***************************************************************************)
(* The cache and the history of a process.                                 *)
(***************************************************************************)

\* t is s with its element k, if k is not 0, removed, and e at the end.
Moved(s, t, k, e) ==
    /\ k \in 0..Len(s)
    /\ Len(t) = IF k = 0 THEN Len(s) + 1 ELSE Len(s)
    /\ t[Len(t)] = e
    /\ \A i \in 1..(Len(t) - 1) : t[i] = IF k = 0 \/ i < k THEN s[i] ELSE s[i + 1]

LEMMA RemoveAtIs ==
  ASSUME NEW S, NEW s \in Seq(S), NEW k \in 1..Len(s)
  PROVE  /\ RemoveAt(s, k) \in Seq(S) /\ Len(RemoveAt(s, k)) = Len(s) - 1
         /\ \A i \in 1..(Len(s) - 1) :
               RemoveAt(s, k)[i] = IF i < k THEN s[i] ELSE s[i + 1]
  <1> DEFINE head == SubSeq(s, 1, k - 1)
             tail == SubSeq(s, k + 1, Len(s))
  <1>1. head \in Seq(S) /\ Len(head) = k - 1 /\ \A i \in 1..(k - 1) : head[i] = s[i]
    OBVIOUS
  <1>2. /\ tail \in Seq(S) /\ Len(tail) = Len(s) - k
        /\ \A i \in 1..(Len(s) - k) : tail[i] = s[k + i]
    OBVIOUS
  <1>3. RemoveAt(s, k) = head \o tail
    BY DEF RemoveAt
  <1> HIDE DEF head, tail
  <1>4. /\ head \o tail \in Seq(S) /\ Len(head \o tail) = Len(s) - 1
    <2>1. head \o tail \in Seq(S) /\ Len(head \o tail) = Len(head) + Len(tail)
      BY <1>1, <1>2, ConcatProperties
    <2> QED
      BY <1>1, <1>2, <2>1
  <1>5. ASSUME NEW i \in 1..(Len(s) - 1)
        PROVE  (head \o tail)[i] = IF i < k THEN s[i] ELSE s[i + 1]
    <2> (head \o tail)[i] = IF i <= Len(head) THEN head[i] ELSE tail[i - Len(head)]
      <3>1. i \in 1..(Len(head) + Len(tail))
        BY <1>1, <1>2
      <3> QED
        BY <1>1, <1>2, <3>1, ConcatProperties
    <2>1. CASE i < k
      BY <1>1, <1>2, <2>1
    <2>2. CASE ~(i < k)
      <3>1. (head \o tail)[i] = tail[i - (k - 1)]
        BY <1>1, <1>2, <2>2
      <3>2. i - (k - 1) \in 1..(Len(s) - k) /\ k + (i - (k - 1)) = i + 1
        BY <2>2
      <3> QED
        BY <1>2, <2>2, <3>1, <3>2
    <2> QED
      BY <2>1, <2>2
  <1> QED
    BY <1>3, <1>4, <1>5

LEMMA MoveIs ==
  ASSUME NEW S, NEW s \in Seq(S), NEW e \in S, NEW k \in 0..Len(s), NEW rest,
         rest = IF k = 0 THEN s ELSE RemoveAt(s, k)
  PROVE  Append(rest, e) \in Seq(S) /\ Moved(s, Append(rest, e), k, e)
  <1>1. /\ rest \in Seq(S) /\ Len(rest) = IF k = 0 THEN Len(s) ELSE Len(s) - 1
        /\ \A i \in 1..Len(rest) : rest[i] = IF k = 0 \/ i < k THEN s[i] ELSE s[i + 1]
    <2>1. CASE k = 0
      BY <2>1
    <2>2. CASE k # 0
      <3>1. rest = RemoveAt(s, k) /\ k \in 1..Len(s)
        BY <2>2
      <3>2. /\ rest \in Seq(S) /\ Len(rest) = Len(s) - 1
            /\ \A i \in 1..(Len(s) - 1) : rest[i] = IF i < k THEN s[i] ELSE s[i + 1]
        BY <3>1, RemoveAtIs
      <3> QED
        BY <2>2, <3>2
    <2> QED
      BY <2>1, <2>2
  <1>2. PICK t : t = Append(rest, e)
    OBVIOUS
  <1>3. /\ t \in Seq(S) /\ Len(t) = Len(rest) + 1 /\ t[Len(rest) + 1] = e
        /\ \A i \in 1..Len(rest) : t[i] = rest[i]
    BY <1>1, <1>2, AppendProperties
  <1>4. /\ Len(t) = IF k = 0 THEN Len(s) + 1 ELSE Len(s)
        /\ Len(t) - 1 = Len(rest)
    BY <1>1, <1>3
  <1>5. Moved(s, t, k, e)
    BY <1>1, <1>3, <1>4 DEF Moved
  <1> QED
    BY <1>2, <1>3, <1>5

\* Where the elements of t were, and where those of s are.
LEMMA MovedFrom ==
  ASSUME NEW S, NEW s \in Seq(S), NEW t \in Seq(S), NEW k, NEW e, Moved(s, t, k, e),
         NEW i \in 1..Len(t), i # Len(t)
  PROVE  \E j \in 1..Len(s) :
            /\ j # k /\ t[i] = s[j]
            /\ Len(t) - i = Len(s) - j + IF k = 0 \/ j > k THEN 1 ELSE 0
  <1>1. Len(s) \in Nat /\ Len(t) \in Nat /\ k \in Nat
    BY DEF Moved
  <1>2. CASE k = 0 \/ i < k
    BY <1>1, <1>2 DEF Moved
  <1>3. CASE k # 0 /\ ~(i < k)
    <2>1. /\ i + 1 \in 1..Len(s) /\ t[i] = s[i + 1] /\ i + 1 > k
          /\ Len(t) - i = Len(s) - (i + 1) + 1
      BY <1>1, <1>3 DEF Moved
    <2> QED
      BY <1>3, <2>1
  <1> QED
    BY <1>2, <1>3

Kept(s, t, k) ==
    \A j \in 1..Len(s) : j # k =>
        \E i \in 1..Len(t) :
            /\ t[i] = s[j]
            /\ Len(t) - i = Len(s) - j + IF k = 0 \/ j > k THEN 1 ELSE 0

LEMMA MovedTo ==
  ASSUME NEW S, NEW s \in Seq(S), NEW t \in Seq(S), NEW k, NEW e, Moved(s, t, k, e)
  PROVE  Kept(s, t, k)
  <1> SUFFICES ASSUME NEW j \in 1..Len(s), j # k
               PROVE  \E i \in 1..Len(t) :
                         /\ t[i] = s[j]
                         /\ Len(t) - i = Len(s) - j + IF k = 0 \/ j > k THEN 1 ELSE 0
    BY DEF Kept
  <1>1. Len(s) \in Nat /\ Len(t) \in Nat /\ k \in Nat
    BY DEF Moved
  <1>2. CASE k = 0 \/ j < k
    BY <1>1, <1>2 DEF Moved
  <1>3. CASE k # 0 /\ j > k
    <2>1. /\ j - 1 \in 1..Len(t) /\ t[j - 1] = s[(j - 1) + 1] /\ (j - 1) + 1 = j
          /\ Len(t) - (j - 1) = Len(s) - j + 1
      BY <1>1, <1>3 DEF Moved
    <2> QED
      BY <1>3, <2>1
  <1> QED
    BY <1>1, <1>2, <1>3

\* A text that is decided on becomes the last of the cache and of the history.
LEMMA AgreeMoves ==
  ASSUME NEW entries \in Seq(Extraction), NEW uses \in Seq(Use), Agree(entries, uses),
         NEW more \in Seq(Extraction), NEW later \in Seq(Use),
         NEW entry \in Extraction, NEW use \in Use, NEW km, NEW kn,
         Moved(entries, more, km, entry), Moved(uses, later, kn, use),
         entry.key = Key(entry.docs), entry.docs # <<>>,
         use.docs = entry.docs, use.rules = RulesOf(entry.answer),
         km # 0 => entries[km] = entry,
         km = 0 => \A m \in 1..Len(entries) : entries[m].docs # entry.docs,
         kn # 0 => uses[kn].docs = use.docs
  PROVE  Agree(more, later)
  <1>1. /\ Len(entries) \in Nat /\ Len(uses) \in Nat /\ Len(more) \in Nat /\ Len(later) \in Nat
        /\ more[Len(more)] = entry /\ later[Len(later)] = use
        /\ Len(more) \in 1..Len(more) /\ Len(later) \in 1..Len(later)
        /\ km \in 0..Len(entries) /\ kn \in 0..Len(uses)
    BY DEF Moved
  <1>2. \A i \in 1..Len(more) : i # Len(more) =>
           \E j \in 1..Len(entries) :
              /\ j # km /\ more[i] = entries[j]
              /\ Len(more) - i = Len(entries) - j + IF km = 0 \/ j > km THEN 1 ELSE 0
    BY MovedFrom
  <1>3. \A j \in 1..Len(entries) : j # km =>
           \E i \in 1..Len(more) :
              /\ more[i] = entries[j]
              /\ Len(more) - i = Len(entries) - j + IF km = 0 \/ j > km THEN 1 ELSE 0
    <2>1. Kept(entries, more, km)
      BY MovedTo
    <2> QED
      BY <2>1 DEF Kept
  <1>4. \A j \in 1..Len(entries) : j # km => entries[j].docs # entry.docs
    BY <1>1 DEF Agree
  <1>5. \A m \in 1..Len(more) : more[m].key = Key(more[m].docs)
    BY <1>1, <1>2 DEF Agree
  <1>6. ASSUME NEW m \in 1..Len(more), NEW n \in 1..Len(more), more[m].docs = more[n].docs
        PROVE  m = n
    <2>1. CASE m # Len(more) /\ n # Len(more)
      <3>1. PICK i \in 1..Len(entries) :
               /\ i # km /\ more[m] = entries[i]
               /\ Len(more) - m = Len(entries) - i + IF km = 0 \/ i > km THEN 1 ELSE 0
        BY <1>2, <2>1
      <3>2. PICK j \in 1..Len(entries) :
               /\ j # km /\ more[n] = entries[j]
               /\ Len(more) - n = Len(entries) - j + IF km = 0 \/ j > km THEN 1 ELSE 0
        BY <1>2, <2>1
      <3>3. i = j
        BY <1>6, <3>1, <3>2 DEF Agree
      <3> QED
        BY <1>1, <3>1, <3>2, <3>3
    <2> QED
      BY <1>1, <1>2, <1>4, <1>6, <2>1
  <1>7. ASSUME NEW k \in 1..Len(later) PROVE Covers(more, later, k)
    <2>1. CASE k = Len(later)
      <3>1. /\ more[Len(more)].docs = later[k].docs
            /\ later[k].rules = RulesOf(more[Len(more)].answer)
            /\ Len(more) - Len(more) <= Len(later) - k
        BY <1>1, <2>1
      <3> QED
        BY <1>1, <2>1, <3>1 DEF Covers
    <2>2. CASE k # Len(later)
      <3>1. PICK l \in 1..Len(uses) :
               /\ l # kn /\ later[k] = uses[l]
               /\ Len(later) - k = Len(uses) - l + IF kn = 0 \/ l > kn THEN 1 ELSE 0
        BY <2>2, MovedFrom
      <3>2. Covers(entries, uses, l)
        BY DEF Agree
      <3>3. CASE uses[l].docs = <<>>
        BY <3>1, <3>2, <3>3 DEF Covers
      <3>4. CASE uses[l].docs # <<>>
        <4>1. PICK m \in 1..Len(entries) :
                 /\ entries[m].docs = uses[l].docs
                 /\ uses[l].rules = RulesOf(entries[m].answer)
                 /\ Len(entries) - m <= Len(uses) - l
          BY <3>2, <3>4 DEF Covers
        <4>2. CASE m = km
          <5>1. entries[m] = entry
            BY <1>1, <4>2
          <5>2. /\ more[Len(more)].docs = later[k].docs
                /\ later[k].rules = RulesOf(more[Len(more)].answer)
                /\ Len(more) - Len(more) <= Len(later) - k
            BY <1>1, <3>1, <4>1, <5>1
          <5> QED
            BY <1>1, <3>1, <3>4, <5>2 DEF Covers
        <4>3. CASE m # km
          <5>1. PICK i \in 1..Len(more) :
                   /\ more[i] = entries[m]
                   /\ Len(more) - i = Len(entries) - m + IF km = 0 \/ m > km THEN 1 ELSE 0
            BY <1>3, <4>3
          <5>2. Len(more) - i <= Len(later) - k
            <6>1. CASE kn = 0 \/ l > kn
              BY <1>1, <3>1, <4>1, <5>1, <6>1, SMTT(30)
            <6>2. CASE kn # 0 /\ ~(l > kn)
              <7>1. uses[kn].docs = entry.docs /\ kn \in 1..Len(uses) /\ l < kn
                BY <1>1, <3>1, <6>2
              <7>2. Covers(entries, uses, kn)
                BY <7>1 DEF Agree
              <7>3. PICK n \in 1..Len(entries) :
                       /\ entries[n].docs = entry.docs
                       /\ Len(entries) - n <= Len(uses) - kn
                BY <7>1, <7>2 DEF Covers
              <7>4. n = km
                BY <1>4, <7>3
              <7>5. Len(later) - k = Len(uses) - l
                BY <3>1, <6>2
              <7>6. CASE m > km
                <8>1. Len(more) - i = Len(entries) - m + 1
                  BY <5>1, <7>6
                <8>2. Len(entries) - km <= Len(uses) - kn
                  BY <7>3, <7>4
                <8> QED
                  BY <1>1, <7>1, <7>5, <7>6, <8>1, <8>2, SMTT(30)
              <7>7. CASE m < km
                <8>1. Len(more) - i = Len(entries) - m + 0
                  BY <1>1, <5>1, <7>7
                <8> QED
                  BY <1>1, <4>1, <7>5, <8>1, SMTT(30)
              <7> QED
                BY <1>1, <4>3, <7>6, <7>7
            <6> QED
              BY <6>1, <6>2
          <5> QED
            BY <3>1, <3>4, <4>1, <5>1, <5>2 DEF Covers
        <4> QED
          BY <4>2, <4>3
      <3> QED
        BY <3>3, <3>4
    <2> QED
      BY <2>1, <2>2
  <1> QED
    BY <1>5, <1>6, <1>7 DEF Agree

\* A decision without documents leaves the cache alone.
LEMMA AgreeWithoutDocs ==
  ASSUME NEW entries \in Seq(Extraction), NEW uses \in Seq(Use), Agree(entries, uses),
         NEW later \in Seq(Use), NEW use \in Use, NEW kn, Moved(uses, later, kn, use),
         use.docs = <<>>, use.rules = FALLBACK
  PROVE  Agree(entries, later)
  <1>1. ASSUME NEW k \in 1..Len(later) PROVE Covers(entries, later, k)
    <2>1. CASE k = Len(later)
      BY <2>1 DEF Moved, Covers
    <2>2. CASE k # Len(later)
      <3>1. PICK l \in 1..Len(uses) :
               /\ later[k] = uses[l]
               /\ Len(later) - k = Len(uses) - l + IF kn = 0 \/ l > kn THEN 1 ELSE 0
        BY <2>2, MovedFrom
      <3>2. Covers(entries, uses, l)
        BY DEF Agree
      <3>3. Len(uses) - l <= Len(later) - k
        BY <3>1
      <3>4. CASE uses[l].docs # <<>>
        <4>1. PICK m \in 1..Len(entries) :
                 /\ entries[m].docs = uses[l].docs
                 /\ uses[l].rules = RulesOf(entries[m].answer)
                 /\ Len(entries) - m <= Len(uses) - l
          BY <3>2, <3>4 DEF Covers
        <4>2. Len(entries) - m <= Len(later) - k
          BY <3>3, <4>1
        <4> QED
          BY <3>1, <3>4, <4>1, <4>2 DEF Covers
      <3>5. CASE uses[l].docs = <<>>
        BY <3>1, <3>2, <3>5 DEF Covers
      <3> QED
        BY <3>4, <3>5
    <2> QED
      BY <2>1, <2>2
  <1> QED
    BY <1>1 DEF Agree

LEMMA EvictedIs ==
  ASSUME NEW S, NEW s \in Seq(S)
  PROVE  /\ Evicted(s) \in Seq(S)
         /\ Len(s) <= CacheSize => Evicted(s) = s
         /\ Len(s) > CacheSize =>
               /\ Len(Evicted(s)) = Len(s) - 1
               /\ \A i \in 1..(Len(s) - 1) : Evicted(s)[i] = s[i + 1]
  <1>1. CacheSize \in Nat /\ Len(s) \in Nat
    BY LibraryAssumption
  <1>2. CASE Len(s) > CacheSize
    <2>1. s # <<>>
      BY <1>1, <1>2
    <2>2. PICK rest \in Seq(S) : rest = Tail(s)
      BY <2>1, HeadTailProperties
    <2>3. /\ Len(rest) = Len(s) - 1
          /\ \A i \in 1..Len(rest) : rest[i] = s[i + 1]
      BY <2>1, <2>2, HeadTailProperties
    <2>4. Evicted(s) = rest
      BY <1>2, <2>2 DEF Evicted
    <2>5. \A i \in 1..(Len(s) - 1) : rest[i] = s[i + 1]
      BY <2>3
    <2>6. ~(Len(s) <= CacheSize)
      BY <1>1, <1>2
    <2> QED
      BY <2>2, <2>3, <2>4, <2>5, <2>6
  <1>3. CASE ~(Len(s) > CacheSize)
    BY <1>1, <1>3 DEF Evicted
  <1> QED
    BY <1>2, <1>3

\* What falls out of the cache has fallen out of the history.
LEMMA AgreeEvicted ==
  ASSUME NEW entries \in Seq(Extraction), NEW uses \in Seq(Use), Agree(entries, uses),
         Len(entries) <= CacheSize + 1, Len(uses) <= CacheSize + 1
  PROVE  Fits(Evicted(entries), Evicted(uses))
  <1> DEFINE a == IF Len(entries) > CacheSize THEN 1 ELSE 0
             b == IF Len(uses) > CacheSize THEN 1 ELSE 0
  <1>1. PICK e \in Seq(Extraction), u \in Seq(Use) : e = Evicted(entries) /\ u = Evicted(uses)
    BY EvictedIs
  <1>2. /\ CacheSize \in Nat /\ Len(entries) \in Nat /\ Len(uses) \in Nat
        /\ a \in 0..1 /\ b \in 0..1
    BY LibraryAssumption
  <1>3. Len(e) = Len(entries) - a /\ \A i \in 1..Len(e) : e[i] = entries[i + a]
    BY <1>1, <1>2, EvictedIs, SMTT(30)
  <1>4. Len(u) = Len(uses) - b /\ \A i \in 1..Len(u) : u[i] = uses[i + b]
    BY <1>1, <1>2, EvictedIs, SMTT(30)
  <1>5. /\ Len(e) <= CacheSize /\ Len(u) <= CacheSize
        /\ a = 1 => Len(e) = CacheSize
    BY <1>2, <1>3, <1>4
  <1> HIDE DEF a, b
  <1>6. \A m \in 1..Len(e) : m + a \in 1..Len(entries)
    BY <1>2, <1>3
  <1>7. \A m \in 1..Len(e) : e[m].key = Key(e[m].docs)
    BY <1>3, <1>6 DEF Agree
  <1>8. \A m, n \in 1..Len(e) : e[m].docs = e[n].docs => m = n
    <2> SUFFICES ASSUME NEW m \in 1..Len(e), NEW n \in 1..Len(e), e[m].docs = e[n].docs
                 PROVE  m = n
      OBVIOUS
    <2>1. m + a = n + a
      BY <1>3, <1>6 DEF Agree
    <2> QED
      BY <1>2, <2>1
  <1>9. ASSUME NEW k \in 1..Len(u) PROVE Covers(e, u, k)
    <2>1. k + b \in 1..Len(uses) /\ u[k] = uses[k + b]
      BY <1>2, <1>4
    <2>2. Covers(entries, uses, k + b)
      BY <2>1 DEF Agree
    <2>3. CASE u[k].docs = <<>>
      BY <2>1, <2>2, <2>3 DEF Covers
    <2>4. CASE u[k].docs # <<>>
      <3>1. PICK m \in 1..Len(entries) :
               /\ entries[m].docs = u[k].docs
               /\ u[k].rules = RulesOf(entries[m].answer)
               /\ Len(entries) - m <= Len(uses) - (k + b)
        BY <2>1, <2>2, <2>4 DEF Covers
      <3>2. PICK n \in Int : n = m - a
        BY <1>2
      <3>3. n \in 1..Len(e) /\ Len(e) - n <= Len(u) - k
        BY <1>2, <1>3, <1>4, <1>5, <3>1, <3>2
      <3>4. e[n] = entries[m]
        <4>1. n + a = m
          BY <1>2, <3>2
        <4> QED
          BY <1>3, <3>3, <4>1
      <3> QED
        BY <2>4, <3>1, <3>3, <3>4 DEF Covers
    <2> QED
      BY <2>3, <2>4
  <1> QED
    BY <1>1, <1>5, <1>7, <1>8, <1>9 DEF Fits, Agree

-----------------------------------------------------------------------------
(***************************************************************************)
(* A policy check.                                                         *)
(***************************************************************************)

LEMMA OneCheck ==
  ASSUME IInv, UNCHANGED <<today, library, settings>>, NEW c \in Checks,
         NEW new \in Check \cup Result \cup {None}, check' = [check EXCEPT ![c] = new],
         new # None => Sound(new),
         cache' \in [Pods -> Seq(Extraction)], recent' \in [Pods -> Seq(Use)],
         \A p \in Pods : Fits(cache'[p], recent'[p])
  PROVE  IInv'
  <1>1. Types'
    BY DEF IInv, Types, library
  <1>2. \A x \in Checks : check'[x] # None => Sound(check'[x])
    BY DEF IInv, Types
  <1> QED
    BY <1>1, <1>2 DEF IInv, library, Uploaded, Started, Running, Answered

LEMMA RestartKeeps ==
  ASSUME IInv, NEW p \in Pods, Restart(p)
  PROVE  IInv'
  <1>1. \A x \in Checks : check'[x] = None \/ check'[x] = check[x]
    BY DEF Restart
  <1>2. check' \in [Checks -> Check \cup Result \cup {None}]
    BY DEF Restart, IInv, Types
  <1>3. /\ cache' \in [Pods -> Seq(Extraction)] /\ recent' \in [Pods -> Seq(Use)]
        /\ \A q \in Pods : \/ cache'[q] = <<>> /\ recent'[q] = <<>>
                           \/ cache'[q] = cache[q] /\ recent'[q] = recent[q]
    <2>1. <<>> \in Seq(Extraction) /\ <<>> \in Seq(Use)
      OBVIOUS
    <2> QED
      BY <2>1 DEF Restart, IInv, Types
  <1>4. Types'
    BY <1>2, <1>3 DEF Restart, library, IInv, Types
  <1>5. \A x \in Checks : check'[x] # None => Sound(check'[x])
    BY <1>1 DEF IInv
  <1>6. \A q \in Pods : Fits(cache'[q], recent'[q])
    BY <1>3, NothingFits DEF IInv
  <1> QED
    BY <1>4, <1>5, <1>6 DEF Restart, library, IInv, Uploaded, Started, Running,
       Answered

\* A sequence of all members of a set.
LEMMA EachOnce ==
  ASSUME NEW S, IsFiniteSet(S), NEW order \in SetToSeqs(S)
  PROVE  /\ order \in Seq(S)
         /\ \A d \in S : \E k \in 1..Len(order) : order[k] = d
  <1> DEFINE D == 1..Cardinality(S)
  <1>1. Cardinality(S) \in Nat
    BY FS_CardinalityType
  <1>2. order \in [D -> S] /\ \A i, j \in D : i # j => order[i] # order[j]
    BY DEF SetToSeqs
  <1>3. order \in Injection(D, S)
    BY <1>2 DEF Injection, IsInjective
  <1>4. Cardinality(D) = Cardinality(S)
    <2>1. Cardinality(D) = IF 1 > Cardinality(S) THEN 0 ELSE Cardinality(S) - 1 + 1
      BY <1>1, FS_Interval
    <2> QED
      BY <1>1, <2>1
  <1>5. order \in Surjection(D, S)
    BY <1>3, <1>4, FS_Injection
  <1>6. order \in Seq(S) /\ Len(order) = Cardinality(S)
    BY <1>1, <1>2
  <1> QED
    BY <1>5, <1>6 DEF Surjection

LEMMA RetrieveKeeps ==
  ASSUME IInv, NEW c \in Checks, NEW p \in Pods, Retrieve(c, p)
  PROVE  IInv'
  <1> DEFINE i == settings[p]
  <1>1. i \in Indexes /\ index[i] # None /\ index[i] \in Shelf
    BY DEF Retrieve, IInv, Types
  <1>2. PICK order \in SetToSeqs(InForce(i)) :
           check' = [check EXCEPT ![c] =
              [pod |-> p, day |-> today, promised |-> uploaded[i],
               docs |-> [k \in 1..Len(order) |->
                           [doc |-> order[k], entry |-> index[i][order[k]]]]]]
    BY DEF Retrieve
  <1> HIDE DEF i
  <1>3. /\ InForce(i) \subseteq Docs /\ IsFiniteSet(InForce(i))
        /\ \A d \in InForce(i) : index[i][d] \in Entry /\ index[i][d].effective <= today
    <2>1. InForce(i) \subseteq Docs
      BY LibraryAssumption DEF InForce
    <2> QED
      BY <1>1, <2>1, LibraryAssumption, FS_Subset DEF InForce, Shelf
  <1>4. /\ order \in Seq(InForce(i))
        /\ \A d \in InForce(i) : \E k \in 1..Len(order) : order[k] = d
    BY <1>2, <1>3, EachOnce
  <1> DEFINE docs == [k \in 1..Len(order) |->
                        [doc |-> order[k], entry |-> index[i][order[k]]]]
             new == [pod |-> p, day |-> today, promised |-> uploaded[i], docs |-> docs]
  <1>5. Len(order) \in Nat /\ \A k \in 1..Len(order) : order[k] \in InForce(i)
    BY <1>4
  <1>6. docs \in Seq(Passage) /\ Len(docs) = Len(order)
    <2>1. docs \in [1..Len(order) -> Passage]
      BY <1>3, <1>5 DEF Passage
    <2> QED
      BY <1>5, <2>1
  <1>7. \A k \in 1..Len(order) : docs[k] = [doc |-> order[k], entry |-> index[i][order[k]]]
    OBVIOUS
  <1> HIDE DEF docs
  <1>8. /\ new \in Check /\ new.docs = docs /\ new.day = today
        /\ new.promised = uploaded[i] /\ "rules" \notin DOMAIN new
    BY <1>1, <1>6 DEF Check, IInv, Types
  <1>9. check' = [check EXCEPT ![c] = new]
    BY <1>2 DEF docs
  <1> HIDE DEF new
  <1>10. \A k \in 1..Len(docs) : docs[k].entry.effective <= today
    <2> TAKE k \in 1..Len(docs)
    <2>1. k \in 1..Len(order)
      BY <1>6
    <2>2. docs[k] = [doc |-> order[k], entry |-> index[i][order[k]]]
      BY <1>7, <2>1
    <2>3. docs[k].entry = index[i][order[k]]
      BY <2>2
    <2>4. order[k] \in InForce(i)
      BY <1>5, <2>1
    <2> QED
      BY <1>3, <2>3, <2>4
  <1>11. ASSUME uploaded[i] # None, NEW d \in Policies,
                uploaded[i][d] # None, uploaded[i][d].effective <= today
         PROVE  \E k \in 1..Len(docs) : docs[k] = [doc |-> d, entry |-> uploaded[i][d]]
    <2>1. index[i][d] = uploaded[i][d]
      BY <1>1, <1>11, LibraryAssumption DEF IInv, Uploaded
    <2>2. d \in InForce(i)
      BY <1>11, <2>1 DEF InForce
    <2>3. PICK k \in 1..Len(order) : order[k] = d
      BY <1>4, <2>2
    <2> QED
      BY <1>6, <1>7, <2>1, <2>3
  <1>12. Sound(new)
    BY <1>8, <1>10, <1>11 DEF Sound
  <1> QED
    BY <1>8, <1>9, <1>12, OneCheck DEF Retrieve, IInv, Types

\* How a decision changes the history of its process.
Used(p, docs, rules, later, use, kn) ==
    /\ use.docs = docs /\ use.rules = rules
    /\ Moved(recent[p], later, kn, use) /\ Len(later) <= CacheSize + 1
    /\ kn # 0 => recent[p][kn].docs = docs
    /\ recent' = [recent EXCEPT ![p] = Evicted(later)]

LEMMA EvaluateIs ==
  ASSUME IInv, NEW c \in Checks, check[c] \in Check, NEW from, NEW rules \in RulesUsed,
         Evaluate(c, from, rules)
  PROVE  \E later \in Seq(Use), use \in Use, kn \in Nat :
            Used(check[c].pod, check[c].docs, rules, later, use, kn)
  <1>1. PICK p \in Pods, docs \in Seq(Passage) : p = check[c].pod /\ docs = check[c].docs
    BY DEF Check
  <1>2. PICK use \in Use : use = [docs |-> docs, rules |-> rules]
    BY <1>1 DEF Use
  <1>3. recent[p] \in Seq(Use) /\ Len(recent[p]) <= CacheSize /\ Len(recent[p]) \in Nat
    BY <1>1 DEF IInv, Types, Fits
  <1>4. PICK kn \in 0..Len(recent[p]) :
           /\ Without(p, docs) = IF kn = 0 THEN recent[p] ELSE RemoveAt(recent[p], kn)
           /\ kn # 0 => recent[p][kn].docs = docs
    <2>1. CASE Uses(p, docs) = {}
      <3>1. Without(p, docs) = recent[p]
        BY <2>1 DEF Without
      <3> QED
        BY <1>3, <3>1
    <2>2. CASE Uses(p, docs) # {}
      <3>1. PICK kn \in Uses(p, docs) : kn = CHOOSE k \in Uses(p, docs) : TRUE
        BY <2>2
      <3>2. kn \in 1..Len(recent[p]) /\ recent[p][kn].docs = docs
        BY <3>1 DEF Uses
      <3>3. Without(p, docs) = RemoveAt(recent[p], kn)
        BY <2>2, <3>1 DEF Without
      <3> QED
        BY <1>3, <3>2, <3>3
    <2> QED
      BY <2>1, <2>2
  <1>5. PICK later \in Seq(Use) :
           later = Append(Without(p, docs), use) /\ Moved(recent[p], later, kn, use)
    BY <1>2, <1>3, <1>4, MoveIs
  <1>6. recent' = [recent EXCEPT ![p] = Evicted(later)]
    BY <1>1, <1>2, <1>5 DEF Evaluate, Evicted
  <1>7. Len(later) <= CacheSize + 1
    BY <1>3, <1>5, LibraryAssumption DEF Moved
  <1>8. use.docs = docs /\ use.rules = rules
    BY <1>2
  <1>9. Used(p, docs, rules, later, use, kn)
    BY <1>4, <1>5, <1>6, <1>7, <1>8 DEF Used
  <1>10. kn \in Nat
    BY <1>3, <1>4
  <1> QED
    BY <1>1, <1>2, <1>5, <1>9, <1>10

\* The entries a call leaves in the cache, the last of which it returns.
Extracted(p, docs, entries, more, km, entry) ==
    /\ Moved(cache[p], more, km, entry) /\ Len(more) <= CacheSize + 1
    /\ entries = Evicted(more) /\ Last(entries) = entry
    /\ entry.docs = docs /\ entry.key = Key(docs)
    /\ km # 0 => cache[p][km] = entry
    /\ km = 0 => \A m \in 1..Len(cache[p]) : cache[p][m].docs # docs

LEMMA ExtractionIs ==
  ASSUME IInv, NEW p \in Pods, NEW docs \in Seq(Passage), NEW entries \in Extractions(p, docs)
  PROVE  \E more \in Seq(Extraction), entry \in Extraction, km \in Nat :
            Extracted(p, docs, entries, more, km, entry)
  <1>1. /\ cache[p] \in Seq(Extraction) /\ Len(cache[p]) <= CacheSize
        /\ Len(cache[p]) \in Nat /\ CacheSize \in Nat \ {0}
        /\ \A m \in 1..Len(cache[p]) : cache[p][m].key = Key(cache[p][m].docs)
    BY LibraryAssumption DEF IInv, Types, Fits, Agree
  <1>2. \A m \in 1..Len(cache[p]) : m \in Hits(p, docs) <=> cache[p][m].docs = docs
    BY <1>1 DEF Hits, Key
  <1>3. CASE Hits(p, docs) # {}
    <2>1. PICK km \in Hits(p, docs) : entries = Append(RemoveAt(cache[p], km), cache[p][km])
      BY <1>3 DEF Extractions
    <2>2. km \in 1..Len(cache[p])
      BY <2>1 DEF Hits
    <2>3. PICK entry \in Extraction : entry = cache[p][km]
      BY <1>1, <2>2
    <2>4. entries \in Seq(Extraction) /\ Moved(cache[p], entries, km, entry)
      <3>1. PICK rest : rest = RemoveAt(cache[p], km) /\ entries = Append(rest, entry)
        BY <2>1, <2>3
      <3>2. km \in 0..Len(cache[p]) /\ km # 0
        BY <1>1, <2>2
      <3> QED
        BY <1>1, <2>3, <3>1, <3>2, MoveIs
    <2>5. Len(entries) <= CacheSize /\ entries[Len(entries)] = entry
      BY <1>1, <2>2, <2>4 DEF Moved
    <2>6. entries = Evicted(entries)
      BY <2>4, <2>5, EvictedIs
    <2>7. entry.docs = docs /\ entry.key = Key(docs) /\ km # 0
      BY <1>1, <1>2, <2>1, <2>2, <2>3
    <2>8. Len(entries) <= CacheSize + 1
      BY <1>1, <2>4, <2>5
    <2>9. Extracted(p, docs, entries, entries, km, entry)
      BY <2>3, <2>4, <2>5, <2>6, <2>7, <2>8 DEF Extracted, Last
    <2>10. km \in Nat
      BY <1>1, <2>2
    <2> QED
      BY <2>4, <2>9, <2>10
  <1>4. CASE Hits(p, docs) = {}
    <2>1. PICK a \in Replies :
             entries = Evicted(Append(cache[p], [key |-> Key(docs), docs |-> docs, answer |-> a]))
      BY <1>4 DEF Extractions
    <2>2. PICK entry \in Extraction : entry = [key |-> Key(docs), docs |-> docs, answer |-> a]
      BY <2>1 DEF Extraction, Key
    <2>3. PICK more \in Seq(Extraction) :
             more = Append(cache[p], entry) /\ Moved(cache[p], more, 0, entry)
      <3>1. 0 \in 0..Len(cache[p])
        BY <1>1
      <3> QED
        BY <1>1, <2>2, <3>1, MoveIs
    <2>4. Moved(cache[p], more, 0, entry)
      BY <2>3
    <2>5. entries = Evicted(more)
      BY <2>1, <2>2, <2>3
    <2>6. Len(more) = Len(cache[p]) + 1 /\ more[Len(more)] = entry
      BY <1>1, <2>4 DEF Moved
    <2>7. Last(entries) = entry
      <3>1. CASE Len(more) <= CacheSize
        BY <2>3, <2>5, <2>6, <3>1, EvictedIs DEF Last
      <3>2. CASE Len(more) > CacheSize
        <4>1. Len(entries) = Len(more) - 1
              /\ \A i \in 1..(Len(more) - 1) : entries[i] = more[i + 1]
          BY <2>3, <2>5, <3>2, EvictedIs
        <4>2. Len(more) - 1 \in 1..(Len(more) - 1) /\ (Len(more) - 1) + 1 = Len(more)
          BY <1>1, <2>6, <3>2
        <4> QED
          BY <2>6, <4>1, <4>2 DEF Last
      <3> QED
        BY <1>1, <2>6, <3>1, <3>2
    <2>8. entry.docs = docs /\ entry.key = Key(docs)
      BY <2>2
    <2>9. Len(more) <= CacheSize + 1
      BY <1>1, <2>6
    <2>10. Extracted(p, docs, entries, more, 0, entry)
      BY <1>2, <1>4, <2>4, <2>5, <2>7, <2>8, <2>9 DEF Extracted
    <2> QED
      BY <2>3, <2>10
  <1> QED
    BY <1>3, <1>4

\* The rules are those of the last decision on the same text, if it is recent.
LEMMA EarlierIs ==
  ASSUME IInv, NEW p \in Pods, NEW docs, NEW k \in Uses(p, docs)
  PROVE  IF docs = <<>> THEN recent[p][k].rules = FALLBACK
         ELSE \E m \in 1..Len(cache[p]) :
                 /\ cache[p][m].docs = docs
                 /\ recent[p][k].rules = RulesOf(cache[p][m].answer)
  <1>1. k \in 1..Len(recent[p]) /\ recent[p][k].docs = docs
    BY DEF Uses
  <1>2. Covers(cache[p], recent[p], k)
    BY <1>1 DEF IInv, Fits, Agree
  <1> QED
    BY <1>1, <1>2 DEF Covers

LEMMA DecidedIs ==
  ASSUME IInv, NEW c \in Checks, check[c] \in Check, NEW rules \in RulesUsed,
         Earlier(check[c].pod, check[c].docs) \subseteq {rules}, Sound(check[c]),
         Evaluate(c, check[c].docs, rules)
  PROVE  \E new \in Result : check' = [check EXCEPT ![c] = new] /\ Sound(new)
  <1>1. PICK was \in Check : was = check[c]
    OBVIOUS
  <1>2. PICK earlier \in SUBSET RulesUsed :
           earlier = Earlier(was.pod, was.docs) /\ earlier \subseteq {rules}
    BY <1>1
  <1>3. PICK new : new = [pod |-> was.pod, day |-> was.day, promised |-> was.promised,
                          docs |-> was.docs, from |-> was.docs, rules |-> rules,
                          earlier |-> earlier]
    OBVIOUS
  <1>4. check' = [check EXCEPT ![c] = new]
    BY <1>1, <1>2, <1>3 DEF Evaluate
  <1>5. /\ new \in Result /\ new.docs = was.docs /\ new.from = was.docs /\ new.day = was.day
        /\ new.promised = was.promised /\ new.rules = rules /\ new.earlier = earlier
    BY <1>1, <1>2, <1>3 DEF Check, Result
  <1>6. Sound(new)
    BY <1>1, <1>2, <1>5 DEF Sound
  <1> QED
    BY <1>4, <1>5, <1>6

LEMMA CheckDomains ==
  /\ \A was \in Check : "rules" \notin DOMAIN was
  /\ \A was \in Result : "rules" \in DOMAIN was
  BY DEF Check, Result

LEMMA RetrievedType ==
  ASSUME IInv, NEW c \in Checks, Retrieved(c)
  PROVE  check[c] \in Check /\ Sound(check[c]) /\ check[c].pod \in Pods
         /\ check[c].docs \in Seq(Passage)
  <1>1. check[c] \in Check
    BY CheckDomains DEF Retrieved, IInv, Types
  <1> QED
    BY <1>1 DEF Check, Retrieved, IInv

LEMMA DecideWithoutDocsKeeps ==
  ASSUME IInv, NEW c \in Checks, DecideWithoutDocs(c)
  PROVE  IInv'
  <1>1. /\ check[c] \in Check /\ Sound(check[c]) /\ check[c].docs = <<>>
        /\ Evaluate(c, <<>>, FALLBACK) /\ cache' = cache
        /\ UNCHANGED <<today, library, settings>>
    BY RetrievedType DEF DecideWithoutDocs, Evaluate
  <1>2. PICK p \in Pods : p = check[c].pod
    BY <1>1 DEF Check
  <1>3. PICK later \in Seq(Use), use \in Use, kn \in Nat :
           Used(p, <<>>, FALLBACK, later, use, kn)
    BY <1>1, <1>2, FallbackType, EvaluateIs
  <1>4. /\ cache[p] \in Seq(Extraction) /\ recent[p] \in Seq(Use)
        /\ Fits(cache[p], recent[p]) /\ Len(cache[p]) \in Nat /\ CacheSize \in Nat
    BY LibraryAssumption DEF IInv, Types
  <1>5. Agree(cache[p], later)
    BY <1>3, <1>4, AgreeWithoutDocs DEF Used, Fits
  <1>6. Fits(Evicted(cache[p]), Evicted(later))
    BY <1>3, <1>4, <1>5, AgreeEvicted DEF Used, Fits
  <1>7. Evicted(cache[p]) = cache[p]
    BY <1>4, EvictedIs DEF Fits
  <1>8. recent' = [recent EXCEPT ![p] = Evicted(later)] /\ Evicted(later) \in Seq(Use)
    BY <1>3, EvictedIs DEF Used
  <1>9. /\ recent' \in [Pods -> Seq(Use)]
        /\ \A q \in Pods : Fits(cache'[q], recent'[q])
    BY <1>1, <1>6, <1>7, <1>8 DEF IInv, Types
  <1>10. Earlier(check[c].pod, check[c].docs) \subseteq {FALLBACK}
    BY <1>1, <1>2, EarlierIs DEF Earlier
  <1>11. PICK new \in Result : check' = [check EXCEPT ![c] = new] /\ Sound(new)
    BY <1>1, <1>10, FallbackType, DecidedIs
  <1> QED
    BY <1>1, <1>9, <1>11, OneCheck DEF IInv, Types

LEMMA DecideKeeps ==
  ASSUME IInv, NEW c \in Checks, Decide(c)
  PROVE  IInv'
  <1>1. /\ check[c] \in Check /\ Sound(check[c]) /\ check[c].docs # <<>>
    BY RetrievedType DEF Decide
  <1>2. PICK p \in Pods, docs \in Seq(Passage) : p = check[c].pod /\ docs = check[c].docs
    BY <1>1 DEF Check
  <1>3. PICK entries \in Extractions(p, docs) :
           /\ cache' = [cache EXCEPT ![p] = entries]
           /\ Evaluate(c, Last(entries).docs, RulesOf(Last(entries).answer))
    BY <1>2 DEF Decide
  <1>4. PICK more \in Seq(Extraction), entry \in Extraction, km \in Nat :
           Extracted(p, docs, entries, more, km, entry)
    BY ExtractionIs
  <1>5. PICK rules \in RulesUsed : rules = RulesOf(entry.answer)
    BY RulesType DEF Extraction
  <1>6. Evaluate(c, docs, rules)
    BY <1>3, <1>4, <1>5 DEF Extracted
  <1>7. PICK later \in Seq(Use), use \in Use, kn \in Nat : Used(p, docs, rules, later, use, kn)
    BY <1>1, <1>2, <1>6, EvaluateIs
  <1>8. /\ cache[p] \in Seq(Extraction) /\ recent[p] \in Seq(Use)
        /\ Agree(cache[p], recent[p])
    BY DEF IInv, Types, Fits
  <1>9. Agree(more, later)
    <2>1. /\ Moved(cache[p], more, km, entry) /\ Moved(recent[p], later, kn, use)
          /\ entry.docs = docs /\ entry.key = Key(entry.docs) /\ entry.docs # <<>>
          /\ use.docs = entry.docs /\ use.rules = RulesOf(entry.answer)
          /\ km # 0 => cache[p][km] = entry
          /\ km = 0 => \A m \in 1..Len(cache[p]) : cache[p][m].docs # entry.docs
          /\ kn # 0 => recent[p][kn].docs = use.docs
      BY <1>1, <1>2, <1>4, <1>5, <1>7 DEF Extracted, Used
    <2> QED
      BY <1>4, <1>7, <1>8, <2>1, AgreeMoves
  <1>10. Fits(entries, Evicted(later))
    BY <1>4, <1>7, <1>9, AgreeEvicted DEF Extracted, Used
  <1>11. /\ entries \in Seq(Extraction) /\ Evicted(later) \in Seq(Use)
         /\ recent' = [recent EXCEPT ![p] = Evicted(later)]
    BY <1>4, <1>7, EvictedIs DEF Extracted, Used
  <1>12. /\ cache' \in [Pods -> Seq(Extraction)] /\ recent' \in [Pods -> Seq(Use)]
         /\ \A q \in Pods : Fits(cache'[q], recent'[q])
    BY <1>3, <1>10, <1>11 DEF IInv, Types
  <1>13. Earlier(p, docs) \subseteq {rules}
    <2> SUFFICES ASSUME NEW k \in Uses(p, docs) PROVE recent[p][k].rules = rules
      BY DEF Earlier
    <2>1. PICK m \in 1..Len(cache[p]) :
             /\ cache[p][m].docs = docs
             /\ recent[p][k].rules = RulesOf(cache[p][m].answer)
      BY <1>1, <1>2, EarlierIs
    <2>2. km # 0 /\ cache[p][km] = entry /\ entry.docs = docs
      BY <1>4, <2>1 DEF Extracted
    <2>3. km \in 1..Len(cache[p])
      <3>1. km \in 0..Len(cache[p]) /\ Len(cache[p]) \in Nat
        BY <1>4, <1>8 DEF Extracted, Moved
      <3> QED
        BY <2>2, <3>1
    <2>4. m = km
      BY <1>8, <2>1, <2>2, <2>3 DEF Agree
    <2> QED
      BY <1>5, <2>1, <2>2, <2>4
  <1>14. PICK new \in Result : check' = [check EXCEPT ![c] = new] /\ Sound(new)
    BY <1>1, <1>2, <1>6, <1>13, DecidedIs
  <1>15. UNCHANGED <<today, library, settings>>
    BY <1>6 DEF Evaluate
  <1> QED
    BY <1>12, <1>14, <1>15, OneCheck

LEMMA NextInv ==
  ASSUME IInv, [Next]_vars
  PROVE  IInv'
  <1>1. CASE UNCHANGED vars
    BY <1>1 DEF vars, IInv, Types, Uploaded, Started, Running, Answered
  <1>2. ASSUME NEW c \in Checks, Return(c) \/ CheckRaises(c) PROVE IInv'
    <2>1. /\ check' = [check EXCEPT ![c] = None]
          /\ UNCHANGED <<today, library, settings, cache, recent>>
      BY <1>2 DEF Return, CheckRaises
    <2> QED
      BY <2>1, OneCheck DEF IInv, Types
  <1> QED
    BY <1>1, <1>2, LibraryKeeps, RestartKeeps, RetrieveKeeps, DecideWithoutDocsKeeps,
       DecideKeeps DEF Next

-----------------------------------------------------------------------------

THEOREM Invariance == Spec => []IInv
  BY InitInv, NextInv, PTL DEF Spec

\* The type invariant.
THEOREM TypeCorrect == Spec => []TypeOK
  <1>1. ASSUME IInv PROVE TypeOK
    <2>1. ASSUME NEW p \in Pods
          PROVE  /\ Len(cache[p]) <= CacheSize /\ Len(recent[p]) <= CacheSize
                 /\ \A k \in 1..Len(cache[p]) : cache[p][k].answer \in Replies
      <3>1. cache[p] \in Seq(Extraction) /\ Fits(cache[p], recent[p])
        BY <1>1 DEF IInv, Types
      <3>2. \A k \in 1..Len(cache[p]) : cache[p][k] \in Extraction
        BY <3>1
      <3> QED
        BY <3>1, <3>2 DEF Fits, Extraction
    <2>2. ASSUME NEW c \in Checks
          PROVE  \/ check[c] = None
                 \/ Retrieved(c) /\ check[c] \in Check
                 \/ Decided(c) /\ check[c] \in Result
      BY <1>1, CheckDomains DEF IInv, Types, Retrieved, Decided
    <2> QED
      BY <1>1, <2>1, <2>2 DEF IInv, Types, TypeOK
  <1> QED
    BY <1>1, Invariance, PTL

\* Every rule that decides comes from the text retrieved for the check.
THEOREM RulesCorrect == Spec => []RulesFromRetrieved
  <1>1. IInv => RulesFromRetrieved
    BY DEF IInv, Sound, Decided, RulesFromRetrieved
  <1> QED
    BY <1>1, Invariance, PTL

\* A text that was decided on recently is decided on by the same rules.
THEOREM SameRules == Spec => []SameTextSameRules
  <1>1. IInv => SameTextSameRules
    BY DEF IInv, Sound, Decided, SameTextSameRules
  <1> QED
    BY <1>1, Invariance, PTL

LEMMA DecidedType ==
  ASSUME IInv, NEW c \in Checks, Decided(c)
  PROVE  check[c] \in Result /\ Sound(check[c]) /\ check[c].from = check[c].docs
         /\ DOMAIN check[c].from = 1..Len(check[c].docs)
  <1>1. check[c] \in Result /\ Sound(check[c])
    BY CheckDomains DEF Decided, IInv, Types
  <1>2. check[c].docs \in Seq(Passage) /\ check[c].from = check[c].docs
    BY <1>1 DEF Result, Sound, Decided
  <1> QED
    BY <1>1, <1>2

\* No text decides before the day it is in force.
THEOREM InForceCorrect == Spec => []NothingBeforeItsDay
  <1>1. ASSUME IInv, NEW c \in Checks, Decided(c), NEW passage \in Range(check[c].from)
        PROVE  passage.entry.effective <= check[c].day
    <2>1. PICK k \in 1..Len(check[c].docs) : passage = check[c].docs[k]
      BY <1>1, DecidedType DEF Range
    <2> QED
      BY <1>1, <2>1, DecidedType DEF Sound
  <1>2. IInv => NothingBeforeItsDay
    BY <1>1 DEF NothingBeforeItsDay
  <1> QED
    BY <1>2, Invariance, PTL

\* An upload that exited with 0, and that no other one disturbed, decides.
THEOREM UploadCorrect == Spec => []UploadTakesEffect
  <1>1. ASSUME IInv, NEW c \in Checks, Decided(c), check[c].promised # None, NEW d \in Policies,
               check[c].promised[d] # None, check[c].promised[d].effective <= check[c].day
        PROVE  [doc |-> d, entry |-> check[c].promised[d]] \in Range(check[c].from)
    <2>1. PICK k \in 1..Len(check[c].docs) :
             check[c].docs[k] = [doc |-> d, entry |-> check[c].promised[d]]
      BY <1>1, DecidedType DEF Sound
    <2> QED
      BY <1>1, <2>1, DecidedType DEF Range
  <1>2. IInv => UploadTakesEffect
    BY <1>1 DEF UploadTakesEffect
  <1> QED
    BY <1>2, Invariance, PTL

=============================================================================
