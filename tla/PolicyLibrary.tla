--------------------------- MODULE PolicyLibrary ---------------------------
(***************************************************************************)
(* Which policy text decides a proposal, and which rules are taken from it.*)
(* The documents under policies/ are uploaded to search indexes by ops/    *)
(* upload_policies.py and ops/reindex_policies.py; every process queries   *)
(* the index its settings name (app/tools/rag_tools.py), asks a language   *)
(* model for the rules of the text it got, and keeps the answers in an LRU *)
(* cache (app/policy/extraction.py).                                       *)
(***************************************************************************)
EXTENDS Naturals, Sequences, FiniteSets, SequencesExt

CONSTANTS
    Docs, Indexes,
    Policies,               \* the documents whose doc_type is policy
    Initial,                \* the documents of the first commit
    Pods, Checks,           \* processes, policy checks in flight
    Jobs,                   \* bound: uploads, each of which is run once
    Answers,                \* what the model may answer: sets of rules
    NOT_A_LIST,             \* an answer that cannot be iterated: null, a number
    None,                   \* no document, index, job or check
    OVER,                   \* an upload that has ended
    FALLBACK,               \* _FALLBACK_RULES
    RAISED,                 \* no rules: extract_rules raised
    CacheSize,              \* lru_cache(maxsize=256)
    MaxVersion,             \* bound: versions published
    MaxDay                  \* bound: days

Day   == 0..MaxDay
Entry == [version : 1..MaxVersion, effective : Day]
Shelf == [Docs -> Entry \cup {None}]
Empty == [d \in Docs |-> None]

ASSUME LibraryAssumption ==
    /\ CacheSize \in Nat \ {0}
    /\ MaxVersion \in Nat /\ MaxDay \in Nat
    /\ Indexes # {} /\ IsFiniteSet(Docs)
    /\ Initial \subseteq Docs
    /\ Policies \subseteq Docs /\ Cardinality(Policies) <= 5      \* top_k
    /\ FALLBACK # RAISED /\ NOT_A_LIST \notin Answers
    /\ None \notin Shelf \cup {OVER}

VARIABLES
    today,
    disk,           \* policies/*.json
    published,      \* the last version published, of any document
    index,          \* the search indexes
    uploaded,       \* history: the documents of the upload to an index that
                    \* last exited with 0, until another one writes there
    job,            \* the uploads
    config,         \* azure_search_index_policy as deployed
    settings,       \* ... as each process read it, once
    cache,          \* _cached_extraction of each process, oldest use first
    check,          \* policy checks in flight
    recent          \* history: the CacheSize texts each process extracted
                    \* last, with the rules it got or RAISED, each text once

vars == <<today, disk, published, index, uploaded, job, config, settings,
          cache, check, recent>>
library == <<disk, published, index, uploaded, job, config>>

\* What extraction is given: the documents in the order of their scores.
Passage == [doc : Docs, entry : Entry]

Init ==
    /\ MaxVersion >= 1
    /\ today = 0
    /\ disk = [d \in Docs |->
                  IF d \in Initial THEN [version |-> 1, effective |-> 0] ELSE None]
    /\ published = 1
    /\ \E i \in Indexes :
          /\ config = i
          /\ index = [x \in Indexes |-> IF x = i THEN disk ELSE None]
          /\ uploaded = index
    /\ job = [j \in Jobs |-> None]
    /\ settings = [p \in Pods |-> config]
    /\ cache = [p \in Pods |-> <<>>]
    /\ check = [c \in Checks |-> None]
    /\ recent = [p \in Pods |-> <<>>]

-----------------------------------------------------------------------------
(***************************************************************************)
(* The library.                                                            *)
(***************************************************************************)

\* A new document or version is committed, in force from a day on.
Publish(d, day) ==
    /\ published < MaxVersion
    /\ published' = published + 1
    /\ disk' = [disk EXCEPT ![d] = [version |-> published', effective |-> day]]
    /\ UNCHANGED <<today, index, uploaded, job, config, settings, cache, check, recent>>

\* create_or_update_index: what an index already holds stays.
Created(i) == [index EXCEPT ![i] = IF @ = None THEN Empty ELSE @]

\* Documents are read, the index is created, and embedding begins.
StartJob(j, source, i) ==
    /\ job[j] = None
    /\ source # Empty
    /\ job' = [job EXCEPT ![j] =
          [index |-> i, docs |-> source, left |-> {d \in Docs : source[d] # None},
           failed |-> FALSE, intact |-> TRUE]]
    /\ index' = Created(i)
    /\ UNCHANGED <<today, disk, published, uploaded, config, settings, cache,
                   check, recent>>

\* upload_policies.py, and reindex_policies.py without --from-index.
UploadPolicies(j, i) == StartJob(j, disk, i)

\* _load_docs_from_index.
LoadedFrom(x) == {index[x]} \ {None}

\* reindex_policies.py --from-index.
Clone(j, x, i) == \E source \in LoadedFrom(x) : StartJob(j, source, i)

Running(j) == job[j] \notin {None, OVER}

\* The documents that the service has merged for j, or rejected.
Answered(j) == {d \in Docs : job[j].docs[d] # None} \ job[j].left

\* History: the job x is no longer intact when j merges a document that x had
\* put into the same index before.
Overwritten(x, j, d) ==
    IF Running(x) /\ job[x].index = job[j].index /\ d \in Answered(x)
    THEN [job[x] EXCEPT !.intact = FALSE]
    ELSE job[x]

\* upload_documents: the service merges a document by its doc_id.  Documents
\* are merged one by one, and those of other jobs come between.  A document
\* that is no longer under policies/ stays in the index.
Merge(j, d) ==
    /\ Running(j)
    /\ d \in job[j].left
    /\ index' = [index EXCEPT ![job[j].index][d] = job[j].docs[d]]
    /\ uploaded' = [uploaded EXCEPT ![job[j].index] = None]
    /\ job' = [x \in Jobs |->
          IF x = j THEN [job[j] EXCEPT !.left = @ \ {d}] ELSE Overwritten(x, j, d)]
    /\ UNCHANGED <<today, disk, published, config, settings, cache, check, recent>>

\* ... or answers that the document failed.
Reject(j, d) ==
    /\ Running(j)
    /\ d \in job[j].left
    /\ job' = [job EXCEPT ![j].left = @ \ {d}, ![j].failed = TRUE]
    /\ UNCHANGED <<today, disk, published, index, uploaded, config, settings,
                   cache, check, recent>>

\* Defect: failed documents are printed, and the job exits with 0.
ExitsWithZero_Always(failed) == TRUE

ExitsWithZero(failed) == ~failed

\* The status of every document is there, and the job exits.
Finish(j) ==
    /\ Running(j)
    /\ job[j].left = {}
    /\ IF ExitsWithZero(job[j].failed) /\ job[j].intact
       THEN uploaded' = [uploaded EXCEPT ![job[j].index] = job[j].docs]
       ELSE UNCHANGED uploaded
    /\ job' = [job EXCEPT ![j] = OVER]
    /\ UNCHANGED <<today, disk, published, index, config, settings, cache, check, recent>>

\* Embedding raises, before anything is written, or the connection breaks and
\* the service stops between two documents.
JobRaises(j) ==
    /\ Running(j)
    /\ job' = [job EXCEPT ![j] = OVER]
    /\ UNCHANGED <<today, disk, published, index, uploaded, config, settings,
                   cache, check, recent>>

\* A deployment names another index; running processes keep their settings.
Deploy(i) ==
    /\ index[i] # None
    /\ config' = i
    /\ UNCHANGED <<today, disk, published, index, uploaded, job, settings,
                   cache, check, recent>>

Restart(p) ==
    /\ settings' = [settings EXCEPT ![p] = config]
    /\ cache' = [cache EXCEPT ![p] = <<>>]
    /\ check' = [c \in Checks |->
                    IF check[c] # None /\ check[c].pod = p THEN None ELSE check[c]]
    /\ recent' = [recent EXCEPT ![p] = <<>>]
    /\ UNCHANGED <<today, library>>

NextDay ==
    /\ today < MaxDay
    /\ today' = today + 1
    /\ UNCHANGED <<library, settings, cache, check, recent>>

-----------------------------------------------------------------------------
(***************************************************************************)
(* A policy check, as policy_node makes it.                                *)
(***************************************************************************)

\* A check that awaits extraction, and one that has rules or RAISED.
Retrieved(c) == check[c] # None /\ "rules" \notin DOMAIN check[c]
Decided(c)   == check[c] # None /\ "rules" \in DOMAIN check[c]

\* Defect: no filter on the date.
InForce_Any(i) == {d \in Policies : index[i][d] # None}

\* doc_type eq 'policy' and effective_date le today.
InForce(i) == {d \in Policies : index[i][d] # None /\ index[i][d].effective <= today}

\* retrieve_policy_docs.  Every policy matches a word of the query, and top_k
\* cuts none off.
Retrieve(c, p) ==
    LET i == settings[p]
    IN  /\ check[c] = None
        /\ index[i] # None
        /\ \E order \in SetToSeqs(InForce(i)) :
              check' = [check EXCEPT ![c] =
                 [pod |-> p, day |-> today, promised |-> uploaded[i],
                  docs |-> [k \in 1..Len(order) |->
                              [doc |-> order[k], entry |-> index[i][order[k]]]]]]
        /\ UNCHANGED <<today, library, settings, cache, recent>>

\* Defect: the cache is keyed by the ids of the documents.
Key_DocIds(docs) == [k \in 1..Len(docs) |-> docs[k].doc]

\* The hash of the ids and contents of the documents.
Key(docs) == docs

Hits(p, docs) == {k \in 1..Len(cache[p]) : cache[p][k].key = Key(docs)}

\* Defect: an entry too many is kept.
Evicted_Late(entries) ==
    IF Len(entries) > CacheSize + 1 THEN Tail(entries) ELSE entries

Evicted(entries) == IF Len(entries) > CacheSize THEN Tail(entries) ELSE entries

\* Whatever JSON the model answers is returned by _cached_extraction.
Replies == Answers \cup {NOT_A_LIST}

\* _cached_extraction: the entries in the cache after a call, the last of
\* which is the one that is returned.
Extractions_NotCached(p, docs) ==
    {<<[key |-> Key(docs), docs |-> docs, answer |-> a]>> : a \in Replies}

Extractions(p, docs) ==
    IF Hits(p, docs) # {}
    THEN {Append(RemoveAt(cache[p], k), cache[p][k]) : k \in Hits(p, docs)}
    ELSE {Evicted(Append(cache[p], [key |-> Key(docs), docs |-> docs, answer |-> a])) :
             a \in Replies}

\* extract_rules: a rule that does not validate is dropped.
Valid(answer) == {rule \in answer : rule.valid}

\* The rules policy_node goes on with.  The loop over an answer that is no
\* list raises, and the answer stays in the cache.
RulesOf(answer) ==
    IF answer = NOT_A_LIST THEN RAISED
    ELSE IF Valid(answer) = {} THEN FALLBACK ELSE Valid(answer)

Uses(p, docs) == {k \in 1..Len(recent[p]) : recent[p][k].docs = docs}

Without(p, docs) ==
    IF Uses(p, docs) = {} THEN recent[p]
    ELSE RemoveAt(recent[p], CHOOSE k \in Uses(p, docs) : TRUE)

\* What the process got for a text when it last extracted it, if recently.
Earlier(p, docs) == {recent[p][k].rules : k \in Uses(p, docs)}

Evaluate(c, from, rules) ==
    LET p    == check[c].pod
        docs == check[c].docs
        uses == Append(Without(p, docs), [docs |-> docs, rules |-> rules])
    IN  /\ check' = [check EXCEPT ![c] =
              [pod |-> p, day |-> check[c].day, promised |-> check[c].promised,
               docs |-> docs, from |-> from, rules |-> rules,
               earlier |-> Earlier(p, docs)]]
        /\ recent' = [recent EXCEPT ![p] =
              IF Len(uses) > CacheSize THEN Tail(uses) ELSE uses]
        /\ UNCHANGED <<today, library, settings>>

\* No document: the fallback rules decide.
DecideWithoutDocs(c) ==
    /\ Retrieved(c)
    /\ check[c].docs = <<>>
    /\ Evaluate(c, <<>>, FALLBACK)
    /\ UNCHANGED cache

\* extract_rules and evaluate_rules, in one step of the event loop: the call
\* of the model blocks it.
Decide(c) ==
    LET p == check[c].pod
    IN  /\ Retrieved(c)
        /\ check[c].docs # <<>>
        /\ \E entries \in Extractions(p, check[c].docs) :
              /\ cache' = [cache EXCEPT ![p] = entries]
              /\ Evaluate(c, Last(entries).docs, RulesOf(Last(entries).answer))

\* policy_node reports the decision and returns, or the error goes on.
Return(c) ==
    /\ Decided(c)
    /\ check' = [check EXCEPT ![c] = None]
    /\ UNCHANGED <<today, library, settings, cache, recent>>

\* The search or the model raises, the answer is no JSON, or the run is
\* cancelled: _cached_extraction returns nothing, and nothing is cached.
CheckRaises(c) ==
    /\ Retrieved(c)
    /\ check' = [check EXCEPT ![c] = None]
    /\ UNCHANGED <<today, library, settings, cache, recent>>

-----------------------------------------------------------------------------

Next ==
    \/ \E d \in Docs, day \in Day : Publish(d, day)
    \/ \E j \in Jobs, i \in Indexes :
          \/ UploadPolicies(j, i)
          \/ \E x \in Indexes : Clone(j, x, i)
    \/ \E j \in Jobs :
          \/ \E d \in Docs : Merge(j, d) \/ Reject(j, d)
          \/ Finish(j)
          \/ JobRaises(j)
    \/ \E i \in Indexes : Deploy(i)
    \/ \E p \in Pods : Restart(p)
    \/ NextDay
    \/ \E c \in Checks, p \in Pods : Retrieve(c, p)
    \/ \E c \in Checks : DecideWithoutDocs(c) \/ Decide(c) \/ Return(c) \/ CheckRaises(c)

Spec == Init /\ [][Next]_vars

-----------------------------------------------------------------------------

RulesUsed == (SUBSET UNION Answers) \cup {FALLBACK, RAISED}

Job ==
    [index : Indexes, docs : Shelf, left : SUBSET Docs, failed : BOOLEAN,
     intact : BOOLEAN]
Check == [pod : Pods, day : Day, promised : Shelf \cup {None}, docs : Seq(Passage)]
Result ==
    [pod : Pods, day : Day, promised : Shelf \cup {None}, docs : Seq(Passage),
     from : Seq(Passage), rules : RulesUsed, earlier : SUBSET RulesUsed]

TypeOK ==
    /\ today \in Day
    /\ disk \in Shelf
    /\ published \in 1..MaxVersion
    /\ index \in [Indexes -> Shelf \cup {None}]
    /\ uploaded \in [Indexes -> Shelf \cup {None}]
    /\ job \in [Jobs -> Job \cup {None, OVER}]
    /\ config \in Indexes
    /\ settings \in [Pods -> Indexes]
    /\ \A p \in Pods : /\ Len(cache[p]) <= CacheSize
                       /\ \A k \in 1..Len(cache[p]) : cache[p][k].answer \in Replies
                       /\ Len(recent[p]) <= CacheSize
    /\ \A c \in Checks : \/ check[c] = None
                         \/ Retrieved(c) /\ check[c] \in Check
                         \/ Decided(c) /\ check[c] \in Result

\* Runbook policy-extraction-mismatch, case D: after a re-index the cache is
\* bypassed.  Every rule that decides a proposal was extracted from the very
\* text retrieved for it, whatever was decided on other versions before, or
\* is a fallback rule because that text gave none.
RulesFromRetrieved ==
    \A c \in Checks : Decided(c) => check[c].from = check[c].docs

\* Docstring of _cached_extraction: identical text, identical rules.  It holds
\* within a process, while fewer other texts than the cache has room for were
\* put to extraction in between: also when the answer lost rules that do not
\* validate, and when it is no list, so that every check of that text raises
\* until the answer is evicted.
SameTextSameRules ==
    \A c \in Checks : Decided(c) => check[c].earlier \subseteq {check[c].rules}

\* No text decides before the day it is in force, although indexes hold later
\* versions and a check may straddle midnight.
NothingBeforeItsDay ==
    \A c \in Checks : Decided(c) =>
        \A passage \in Range(check[c].from) :
            passage.entry.effective <= check[c].day

\* An upload to an index exited with 0, no other one overwrote a document it
\* had merged, and none has written to the index since: then a check that
\* reads the index puts every policy of that upload that is in force to
\* extraction, in the version uploaded, however many uploads failed or
\* overlapped before.
UploadTakesEffect ==
    \A c \in Checks :
        LET was == check[c].promised
        IN  Decided(c) /\ was # None =>
                \A d \in Policies :
                    was[d] # None /\ was[d].effective <= check[c].day =>
                        [doc |-> d, entry |-> was[d]] \in Range(check[c].from)

=============================================================================
