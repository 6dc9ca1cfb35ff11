-------------------------- MODULE HttpServiceProofs --------------------------
(***************************************************************************)
(* Theorems of SigningKeys and HttpService, for any keys, tokens, requests *)
(* and bounds.                                                             *)
(***************************************************************************)
EXTENDS HttpService, TLAPS

-----------------------------------------------------------------------------
(***************************************************************************)
(* The key set.  Whatever is cached or on its way to the cache holds all   *)
(* keys that lasted and none that was never published.                     *)
(***************************************************************************)

Genuine(keys) == always \subseteq keys /\ keys \subseteq ever

RequestKeys(r) ==
    /\ stage[r] # "done" <=> verdict[r] = "none"
    /\ stage[r] \in {"asking", "answered", "closing"} => token[r] # NoToken
    /\ stage[r] = "answered" => answer[r] # NoKeys /\ Genuine(answer[r])
    /\ stage[r] = "closing" => cache # NoKeys
    /\ verdict[r] = "accepted" /\ ~Development =>
          token[r] # NoToken /\ token[r].good /\ token[r].kid \in ever
    /\ verdict[r] = "unknown" => token[r].kid \notin always

KeysInv ==
    /\ KeysTypeOK
    /\ Genuine(published)
    /\ cache # NoKeys => Genuine(cache)
    /\ \A r \in Requests : RequestKeys(r)

LEMMA KeysInitially == KeysInit => KeysInv
  BY KeysAssumption
     DEF KeysInit, KeysInv, KeysTypeOK, Genuine, RequestKeys, Stages, Verdicts,
         Tokens, NoKeys

\* What a look-up in a genuine set says of a token.
LEMMA CheckedRight ==
  ASSUME NEW keys, Genuine(keys), NEW t, t # NoToken, t.good \in BOOLEAN
  PROVE  /\ Checked(keys, t) \in {"unknown", "accepted", "invalid"}
         /\ Checked(keys, t) = "accepted" => t.good /\ t.kid \in ever
         /\ Checked(keys, t) = "unknown" => t.kid \notin always
  BY DEF Checked, Knows, Genuine

\* A request that a step leaves alone keeps its part of the invariant while
\* keys only last less and are published more.
LEMMA OthersKeep ==
  ASSUME NEW r, RequestKeys(r), stage'[r] = stage[r], token'[r] = token[r],
         answer'[r] = answer[r], verdict'[r] = verdict[r],
         always' \subseteq always, ever \subseteq ever',
         stage[r] = "closing" => cache' # NoKeys
  PROVE  RequestKeys(r)'
  BY DEF RequestKeys, Genuine, NoKeys

\* The verdict of a look-up, and the end of a request without one.
LEMMA JudgedRight ==
  ASSUME KeysInv, NEW r \in Requests, NEW v \in Verdicts \ {"none"}, Judge(r, v),
         UNCHANGED <<tenantVars, cache>>, token' \in [Requests -> Tokens],
         answer' \in [Requests -> SUBSET Keys],
         \A x \in Requests : x # r => token'[x] = token[x] /\ answer'[x] = answer[x],
         v = "accepted" /\ ~Development =>
            token'[r] # NoToken /\ token'[r].good /\ token'[r].kid \in ever,
         v = "unknown" => token'[r].kid \notin always
  PROVE  KeysInv'
  <1>1. /\ stage' = [stage EXCEPT ![r] = "done"]
        /\ verdict' = [verdict EXCEPT ![r] = v]
        /\ published' = published /\ rotations' = rotations
        /\ ever' = ever /\ always' = always /\ cache' = cache
    BY DEF Judge, tenantVars
  <1>2. KeysTypeOK'
    BY <1>1 DEF KeysInv, KeysTypeOK, Stages, Verdicts
  <1>3. stage'[r] = "done" /\ verdict'[r] = v
    BY <1>1 DEF KeysInv, KeysTypeOK
  <1>4. RequestKeys(r)'
    BY <1>1, <1>3 DEF RequestKeys
  <1>5. ASSUME NEW x \in Requests, x # r PROVE RequestKeys(x)'
    <2>1. RequestKeys(x) /\ stage'[x] = stage[x] /\ verdict'[x] = verdict[x]
      BY <1>1, <1>5 DEF KeysInv, KeysTypeOK
    <2>2. stage[x] = "closing" => cache # NoKeys
      BY <2>1 DEF RequestKeys
    <2> QED
      BY <1>1, <1>5, <2>1, <2>2, OthersKeep
  <1> QED
    BY <1>1, <1>2, <1>4, <1>5 DEF KeysInv, Genuine

LEMMA TokenType ==
  ASSUME NEW t \in Tokens, t # NoToken
  PROVE  t.good \in BOOLEAN
  BY KeysAssumption DEF Tokens

LEMMA AuthenticateKeeps ==
  ASSUME KeysInv, NEW r \in Requests, NEW t \in Tokens, Authenticate(r, t)
  PROVE  KeysInv'
  <1>1. /\ stage[r] = "none"
        /\ token' = [token EXCEPT ![r] = t]
        /\ UNCHANGED <<tenantVars, cache, answer>>
    BY DEF Authenticate
  <1>2. /\ token' \in [Requests -> Tokens] /\ answer' \in [Requests -> SUBSET Keys]
        /\ token'[r] = t
        /\ \A x \in Requests : x # r => token'[x] = token[x] /\ answer'[x] = answer[x]
    BY <1>1 DEF KeysInv, KeysTypeOK
  <1>3. CASE Development
    <2>1. Judge(r, "accepted")
      BY <1>3 DEF Authenticate
    <2> QED
      BY <1>1, <1>2, <1>3, <2>1, JudgedRight DEF Verdicts
  <1>4. CASE ~Development /\ t = NoToken
    <2>1. Judge(r, "missing")
      BY <1>4 DEF Authenticate
    <2> QED
      BY <1>1, <1>2, <2>1, JudgedRight DEF Verdicts
  <1>5. CASE ~Development /\ t # NoToken /\ cache # NoKeys
    <2>1. Judge(r, Checked(cache, t))
      BY <1>5 DEF Authenticate
    <2>2. Genuine(cache)
      BY <1>5 DEF KeysInv
    <2>3. t.good \in BOOLEAN
      BY <1>5, TokenType
    <2>4. /\ Checked(cache, t) \in {"unknown", "accepted", "invalid"}
          /\ Checked(cache, t) = "accepted" => t.good /\ t.kid \in ever
          /\ Checked(cache, t) = "unknown" => t.kid \notin always
      BY <1>5, <2>2, <2>3, CheckedRight
    <2> QED
      BY <1>1, <1>2, <1>5, <2>1, <2>4, JudgedRight DEF Verdicts
  <1>6. CASE ~Development /\ t # NoToken /\ cache = NoKeys
    <2>1. stage' = [stage EXCEPT ![r] = "asking"] /\ verdict' = verdict
      BY <1>6 DEF Authenticate
    <2>2. /\ published' = published /\ rotations' = rotations
          /\ ever' = ever /\ always' = always /\ cache' = cache
      BY <1>1 DEF tenantVars
    <2>3. KeysTypeOK'
      BY <1>1, <1>2, <2>1, <2>2 DEF KeysInv, KeysTypeOK, Stages
    <2>4. RequestKeys(r) /\ stage'[r] = "asking" /\ verdict'[r] = "none"
      BY <1>1, <2>1 DEF KeysInv, KeysTypeOK, RequestKeys
    <2>5. RequestKeys(r)'
      BY <1>2, <1>6, <2>4 DEF RequestKeys
    <2>6. ASSUME NEW x \in Requests, x # r PROVE RequestKeys(x)'
      <3>1. RequestKeys(x) /\ stage'[x] = stage[x] /\ verdict'[x] = verdict[x]
        BY <2>1, <2>6 DEF KeysInv, KeysTypeOK
      <3>2. stage[x] = "closing" => cache # NoKeys
        BY <3>1 DEF RequestKeys
      <3> QED
        BY <1>2, <2>2, <2>6, <3>1, <3>2, OthersKeep
    <2> QED
      BY <2>2, <2>3, <2>5, <2>6 DEF KeysInv, Genuine
  <1> QED
    BY <1>3, <1>4, <1>5, <1>6

LEMMA StoreKeeps ==
  ASSUME KeysInv, NEW r \in Requests, TenantAnswers(r) \/ Store(r)
  PROVE  KeysInv'
  <1>1. /\ published' = published /\ rotations' = rotations
        /\ ever' = ever /\ always' = always
        /\ token' = token /\ verdict' = verdict
    BY DEF TenantAnswers, Store, tenantVars
  <1>2. RequestKeys(r)
    BY DEF KeysInv
  <1>3. CASE TenantAnswers(r)
    <2>1. /\ stage[r] = "asking" /\ cache' = cache
          /\ stage' = [stage EXCEPT ![r] = "answered"]
          /\ answer' = [answer EXCEPT ![r] = published]
      BY <1>3 DEF TenantAnswers
    <2>2. KeysTypeOK' /\ stage'[r] = "answered" /\ answer'[r] = published
      BY <1>1, <2>1 DEF KeysInv, KeysTypeOK, Stages
    <2>3. RequestKeys(r)'
      BY <1>1, <1>2, <2>1, <2>2 DEF RequestKeys, KeysInv, KeysTypeOK, Genuine, NoKeys
    <2>4. ASSUME NEW x \in Requests, x # r PROVE RequestKeys(x)'
      <3>1. RequestKeys(x) /\ stage'[x] = stage[x] /\ answer'[x] = answer[x]
        BY <2>1, <2>4 DEF KeysInv, KeysTypeOK
      <3>2. stage[x] = "closing" => cache # NoKeys
        BY <3>1 DEF RequestKeys
      <3> QED
        BY <1>1, <2>1, <2>4, <3>1, <3>2, OthersKeep
    <2> QED
      BY <1>1, <2>1, <2>2, <2>3, <2>4 DEF KeysInv, Genuine
  <1>4. CASE Store(r)
    <2>1. /\ stage[r] = "answered" /\ cache' = answer[r]
          /\ stage' = [stage EXCEPT ![r] = "closing"]
          /\ answer' = [answer EXCEPT ![r] = NoKeys]
      BY <1>4 DEF Store
    <2>2. cache' # NoKeys /\ Genuine(cache')
      BY <1>2, <2>1 DEF RequestKeys
    <2>3. KeysTypeOK' /\ stage'[r] = "closing"
      BY <1>1, <2>1 DEF KeysInv, KeysTypeOK, Stages, NoKeys
    <2>4. RequestKeys(r)'
      BY <1>1, <1>2, <2>1, <2>2, <2>3 DEF RequestKeys
    <2>5. ASSUME NEW x \in Requests, x # r PROVE RequestKeys(x)'
      <3>1. RequestKeys(x) /\ stage'[x] = stage[x] /\ answer'[x] = answer[x]
        BY <2>1, <2>5 DEF KeysInv, KeysTypeOK
      <3> QED
        BY <1>1, <2>2, <2>5, <3>1, OthersKeep
    <2> QED
      BY <1>1, <2>2, <2>3, <2>4, <2>5 DEF KeysInv, Genuine
  <1> QED
    BY <1>3, <1>4

LEMMA JudgeKeeps ==
  ASSUME KeysInv, NEW r \in Requests, FetchFails(r) \/ Closed(r) \/ Abandon(r)
  PROVE  KeysInv'
  <1>1. /\ UNCHANGED <<tenantVars, cache>> /\ token' = token
        /\ answer' = answer \/ answer' = [answer EXCEPT ![r] = NoKeys]
    BY DEF FetchFails, Closed, Abandon
  <1>2. /\ token' \in [Requests -> Tokens] /\ answer' \in [Requests -> SUBSET Keys]
        /\ \A x \in Requests : x # r => token'[x] = token[x] /\ answer'[x] = answer[x]
    BY <1>1 DEF KeysInv, KeysTypeOK, NoKeys
  <1>3. CASE FetchFails(r) \/ Abandon(r)
    <2>1. PICK v \in {"error", "cancelled"} : Judge(r, v)
      BY <1>3 DEF FetchFails, Abandon
    <2> QED
      BY <1>1, <1>2, <2>1, JudgedRight DEF Verdicts
  <1>4. CASE Closed(r)
    <2>1. stage[r] = "closing" /\ Judge(r, Checked(cache, token[r])) /\ RequestKeys(r)
      BY <1>4 DEF Closed, KeysInv
    <2>2. token[r] # NoToken /\ token[r] \in Tokens /\ Genuine(cache)
      BY <2>1 DEF RequestKeys, KeysInv, KeysTypeOK
    <2>3. /\ Checked(cache, token[r]) \in {"unknown", "accepted", "invalid"}
          /\ Checked(cache, token[r]) = "accepted" => token[r].good /\ token[r].kid \in ever
          /\ Checked(cache, token[r]) = "unknown" => token[r].kid \notin always
      BY <2>2, TokenType, CheckedRight
    <2> QED
      BY <1>1, <1>2, <2>1, <2>2, <2>3, JudgedRight DEF Verdicts
  <1> QED
    BY <1>3, <1>4

LEMMA LeaveKeeps ==
  ASSUME KeysInv, NEW r \in Requests, Leave(r)
  PROVE  KeysInv'
  <1>1. /\ published' = published /\ rotations' = rotations /\ cache' = cache
        /\ ever' = ever /\ always' = always /\ answer' = answer
        /\ stage' = [stage EXCEPT ![r] = "none"]
        /\ token' = [token EXCEPT ![r] = NoToken]
        /\ verdict' = [verdict EXCEPT ![r] = "none"]
    BY DEF Leave, tenantVars
  <1>2. KeysTypeOK' /\ stage'[r] = "none" /\ verdict'[r] = "none"
    BY <1>1 DEF KeysInv, KeysTypeOK, Stages, Verdicts, Tokens
  <1>3. RequestKeys(r)'
    BY <1>2 DEF RequestKeys
  <1>4. ASSUME NEW x \in Requests, x # r PROVE RequestKeys(x)'
    <2>1. /\ RequestKeys(x) /\ stage'[x] = stage[x] /\ token'[x] = token[x]
          /\ verdict'[x] = verdict[x]
      BY <1>1, <1>4 DEF KeysInv, KeysTypeOK
    <2>2. stage[x] = "closing" => cache # NoKeys
      BY <2>1 DEF RequestKeys
    <2> QED
      BY <1>1, <1>4, <2>1, <2>2, OthersKeep
  <1> QED
    BY <1>1, <1>2, <1>3, <1>4 DEF KeysInv, Genuine

LEMMA RotateKeeps ==
  ASSUME KeysInv, Rotate
  PROVE  KeysInv'
  <1>1. /\ UNCHANGED <<cache, stage, token, answer, verdict>>
        /\ published' \in (SUBSET Keys) \ {{}} /\ rotations' = rotations + 1
        /\ ever' = ever \cup published' /\ always' = always \cap published'
        /\ rotations < MaxRotations
    BY DEF Rotate
  <1>2. KeysTypeOK'
    BY <1>1, KeysAssumption DEF KeysInv, KeysTypeOK
  <1>3. ASSUME NEW x \in Requests PROVE RequestKeys(x)'
    <2>1. RequestKeys(x) /\ (stage[x] = "closing" => cache # NoKeys)
      BY <1>3 DEF KeysInv, RequestKeys
    <2> QED
      BY <1>1, <2>1, OthersKeep
  <1> QED
    BY <1>1, <1>2, <1>3 DEF KeysInv, Genuine

LEMMA RestartKeeps ==
  ASSUME KeysInv, KeysRestart
  PROVE  KeysInv'
  BY DEF KeysRestart, KeysInv, KeysTypeOK, RequestKeys, Genuine, NoKeys, Stages,
         Tokens, Verdicts

LEMMA KeysKept ==
  ASSUME KeysInv, [KeysNext]_keyVars
  PROVE  KeysInv'
  <1>1. CASE UNCHANGED keyVars
    BY <1>1 DEF keyVars, KeysInv, KeysTypeOK, RequestKeys, Genuine
  <1>2. ASSUME NEW r \in Requests, NEW t \in Tokens, Authenticate(r, t) PROVE KeysInv'
    BY <1>2, AuthenticateKeeps
  <1>3. ASSUME NEW r \in Requests,
               \/ TenantAnswers(r) \/ FetchFails(r) \/ Store(r) \/ Closed(r)
               \/ Abandon(r) \/ Leave(r)
        PROVE  KeysInv'
    BY <1>3, StoreKeeps, JudgeKeeps, LeaveKeeps
  <1>4. CASE Rotate \/ KeysRestart
    BY <1>4, RotateKeeps, RestartKeeps
  <1> QED
    BY <1>1, <1>2, <1>3, <1>4 DEF KeysNext

\* The module of the key set by itself: its invariant.
THEOREM KeysInvariance == KeysSpec => []KeysInv
  BY KeysInitially, KeysKept, PTL DEF KeysSpec

-----------------------------------------------------------------------------
(***************************************************************************)
(* The service.                                                            *)
(***************************************************************************)

Types ==
    /\ route \in [Requests -> {"none", "chat", "open"}]
    /\ stack \in [Requests -> Seq(Kinds)]
    /\ exc \in [Requests -> {"none", "paused", "error", "expected", "interrupt", "cancelled"}]
    /\ hit \in [Requests -> BOOLEAN]
    /\ response \in [Requests -> [code : {0, 200, 401, 404, 409, 422, 500},
                                  span : {"open", "unset", "error"}, timed : BOOLEAN]]

\* Only a chat is ever inside validate_token, and an exception in a chat comes
\* from its body or from the fetch: so a refused request carries none.
Passage(r) ==
    /\ stack[r] = <<>> <=> route[r] = "none"
    /\ route[r] # "chat" => stage[r] = "none"
    /\ exc[r] # "none" => route[r] = "open" \/ verdict[r] \in {"accepted", "error"}

\* An error is on its way up as long as the request is not answered.
Carried(r) ==
    IF route[r] # "none"
    THEN response[r] = NoResponse /\ (hit[r] <=> exc[r] = "error")
    ELSE response[r].code # 0 =>
            (hit[r] <=> response[r].code = 500) /\ (hit[r] <=> response[r].span = "error")

\* Between the two processors a span is no longer raw.
Redacted ==
    /\ ending \in [query : Queries, left : {<<>>, Processors, <<"batch">>}]
    /\ ending.left = <<"batch">> => ending.query # "raw"

Queue == exportable \in Seq({"none", "redacted"}) /\ Len(exportable) <= QueueSize

IInv ==
    /\ KeysInv /\ Types /\ Redacted /\ Queue
    /\ \A r \in Requests : Passage(r) /\ Carried(r)

LEMMA InitInv == ServiceInit => IInv
  <1> SUFFICES ASSUME ServiceInit PROVE IInv
    OBVIOUS
  <1>1. KeysInv /\ KeysInit
    BY KeysInitially DEF ServiceInit
  <1>2. Types /\ Redacted /\ Queue
    BY ServiceAssumption
       DEF ServiceInit, Types, Redacted, Queue, NoResponse, NoSpan, Queries, Kinds
  <1>3. ASSUME NEW r \in Requests PROVE Passage(r) /\ Carried(r)
    BY <1>1 DEF ServiceInit, KeysInit, Passage, Carried, NoResponse
  <1> QED
    BY <1>1, <1>2, <1>3 DEF IInv

\* Every step of the service is a step of the key set or leaves it alone.
LEMMA StepOfKeys == Next => [KeysNext]_keyVars
  <1> SUFFICES ASSUME Next PROVE [KeysNext]_keyVars
    OBVIOUS
  <1>1. ASSUME NEW r \in Requests, NEW code, NEW span, NEW timed, Answer(r, code, span, timed)
        PROVE  [KeysNext]_keyVars
    BY <1>1 DEF Answer, KeysNext
  <1>2. ASSUME NEW r \in Requests, Serve(r) PROVE [KeysNext]_keyVars
    <2>1. ASSUME NEW t \in Tokens, LetIn(r, t) PROVE KeysNext
      BY <2>1 DEF LetIn, KeysNext
    <2>2. CASE Fetch(r) \/ FetchRaises(r)
      BY <2>2 DEF Fetch, FetchRaises, KeysNext
    <2>3. ASSUME NEW kind \in Kinds, Open(r, kind) PROVE UNCHANGED keyVars
      BY <2>3 DEF Open
    <2>4. ASSUME NEW e \in Raised, Raise(r, e)
          PROVE  UNCHANGED keyVars
      BY <2>4 DEF Raise
    <2>5. CASE Handle(r) \/ Close(r)
      BY <2>5 DEF Handle, Close
    <2>6. CASE Respond(r) \/ Unhandled(r) \/ Drop(r)
      BY <2>6, <1>1, ZenonT(40) DEF Respond, Unhandled, Drop
    <2> QED
      BY <1>2, <2>1, <2>2, <2>3, <2>4, <2>5, <2>6 DEF Serve
  <1>3. ASSUME NEW r \in Requests, NEW kind \in {"chat", "open"}, Arrive(r, kind)
        PROVE  UNCHANGED keyVars
    BY <1>3 DEF Arrive
  <1>4. CASE Process \/ Export
    BY <1>4 DEF Process, Export
  <1>5. CASE TenantRotates \/ Restart
    BY <1>5 DEF TenantRotates, Restart, KeysNext
  <1> QED
    BY <1>2, <1>3, <1>4, <1>5 DEF Next

LEMMA StutterOfKeys == UNCHANGED vars => UNCHANGED keyVars
  BY DEF vars

\* The service implements the module of the key set: what validate_token does to
\* it does not depend on the spans around it.
THEOREM ServiceImplementsKeys == Spec => KeysSpec
  <1>1. ServiceInit => KeysInit
    BY DEF ServiceInit
  <1>2. [Next]_vars => [KeysNext]_keyVars
    BY StepOfKeys, StutterOfKeys
  <1> QED
    BY <1>1, <1>2, PTL DEF Spec, KeysSpec

\* A request none of whose variables a step changes.
Rests(r) ==
    /\ route'[r] = route[r] /\ stack'[r] = stack[r] /\ exc'[r] = exc[r]
    /\ hit'[r] = hit[r] /\ response'[r] = response[r]
    /\ stage'[r] = stage[r] /\ verdict'[r] = verdict[r]

LEMMA RestsKeeps ==
  ASSUME NEW r, Passage(r), Carried(r), Rests(r)
  PROVE  Passage(r)' /\ Carried(r)'
  BY DEF Passage, Carried, Rests

\* A step that changes the variables of one request only.
LEMMA OneRequest ==
  ASSUME IInv, KeysInv', Types', Redacted', Queue', NEW r \in Requests,
         Passage(r)', Carried(r)', \A x \in Requests : x # r => Rests(x)
  PROVE  IInv'
  BY RestsKeeps DEF IInv

LEMMA KeysStay ==
  ASSUME KeysInv, UNCHANGED keyVars
  PROVE  KeysInv'
  BY KeysKept

\* A step inside validate_token touches one request.
LEMMA KeysOfOthers ==
  ASSUME KeysInv, NEW r \in Requests,
         \/ \E t \in Tokens : Authenticate(r, t)
         \/ TenantAnswers(r) \/ FetchFails(r) \/ Store(r) \/ Closed(r)
         \/ Abandon(r) \/ Leave(r)
  PROVE  /\ KeysInv'
         /\ \A x \in Requests : x # r => stage'[x] = stage[x] /\ verdict'[x] = verdict[x]
  <1>1. KeysInv'
    BY KeysKept DEF KeysNext
  <1>2. ASSUME NEW x \in Requests, x # r, NEW v, Judge(r, v)
        PROVE  stage'[x] = stage[x] /\ verdict'[x] = verdict[x]
    BY <1>2 DEF Judge, KeysInv, KeysTypeOK
  <1>3. ASSUME NEW x \in Requests, x # r
        PROVE  stage'[x] = stage[x] /\ verdict'[x] = verdict[x]
    <2>1. CASE \E t \in Tokens : Authenticate(r, t)
      BY <1>2, <1>3, <2>1 DEF Authenticate, KeysInv, KeysTypeOK
    <2>2. CASE FetchFails(r) \/ Closed(r) \/ Abandon(r)
      BY <1>2, <1>3, <2>2 DEF FetchFails, Closed, Abandon
    <2>3. CASE TenantAnswers(r) \/ Store(r) \/ Leave(r)
      BY <1>3, <2>3 DEF TenantAnswers, Store, Leave, KeysInv, KeysTypeOK
    <2> QED
      BY <2>1, <2>2, <2>3
  <1> QED
    BY <1>1, <1>3

LEMMA ArriveKeeps ==
  ASSUME IInv, NEW r \in Requests, NEW kind \in {"chat", "open"}, Arrive(r, kind)
  PROVE  IInv'
  <1>1. /\ UNCHANGED keyVars /\ UNCHANGED <<exc, ending, exportable>>
        /\ route[r] = "none"
        /\ route' = [route EXCEPT ![r] = kind]
        /\ stack' = [stack EXCEPT ![r] = <<"http">>]
        /\ hit' = [hit EXCEPT ![r] = FALSE]
        /\ response' = [response EXCEPT ![r] = NoResponse]
    BY DEF Arrive
  <1>2. KeysInv' /\ Redacted' /\ Queue' /\ stage' = stage /\ verdict' = verdict
    BY <1>1, KeysStay DEF IInv, Redacted, Queue, keyVars
  <1>3. Types'
    BY <1>1 DEF IInv, Types, NoResponse, Kinds
  <1>4. /\ route'[r] = kind /\ stack'[r] = <<"http">> /\ hit'[r] = FALSE
        /\ response'[r] = NoResponse /\ Passage(r) /\ KeysTypeOK /\ RequestKeys(r)
    BY <1>1 DEF IInv, Types, KeysInv
  <1>5. exc[r] = "none"
    BY <1>1, <1>4 DEF Passage, RequestKeys
  <1>6. Passage(r)' /\ Carried(r)'
    BY <1>1, <1>2, <1>4, <1>5 DEF Passage, Carried
  <1>7. ASSUME NEW x \in Requests, x # r PROVE Rests(x)
    BY <1>1, <1>2, <1>7 DEF Rests, IInv, Types
  <1> QED
    BY <1>2, <1>3, <1>6, <1>7, OneRequest

\* validate_token runs for chats only, and none of its steps but the failed
\* fetch raises.
LEMMA ValidateKeeps ==
  ASSUME IInv, NEW r \in Requests, (\E t \in Tokens : LetIn(r, t)) \/ Fetch(r)
  PROVE  IInv'
  <1>1. /\ UNCHANGED spanVars
        /\ \/ \E t \in Tokens : Authenticate(r, t)
           \/ TenantAnswers(r) \/ Store(r) \/ Closed(r) \/ Abandon(r)
    BY DEF LetIn, Fetch
  <1>2. /\ KeysInv'
        /\ \A x \in Requests : x # r => stage'[x] = stage[x] /\ verdict'[x] = verdict[x]
    BY <1>1, KeysOfOthers DEF IInv
  <1>3. Types' /\ Redacted' /\ Queue'
    BY <1>1 DEF spanVars, IInv, Types, Redacted, Queue
  <1>4. route[r] = "chat" /\ stage[r] # "done" /\ Passage(r) /\ Carried(r) /\ RequestKeys(r)
    BY DEF LetIn, Fetch, Authenticate, TenantAnswers, Store, Closed, Abandon, IInv,
           Passage, KeysInv
  <1>5. exc[r] = "none"
    BY <1>4 DEF Passage, RequestKeys
  <1>6. Passage(r)' /\ Carried(r)'
    BY <1>1, <1>4, <1>5 DEF Passage, Carried, spanVars
  <1>7. ASSUME NEW x \in Requests, x # r PROVE Rests(x)
    BY <1>1, <1>2, <1>7 DEF Rests, spanVars
  <1> QED
    BY <1>2, <1>3, <1>6, <1>7, OneRequest

LEMMA FetchRaisesKeeps ==
  ASSUME IInv, NEW r \in Requests, FetchRaises(r)
  PROVE  IInv'
  <1>1. /\ FetchFails(r) /\ stage[r] = "asking"
        /\ exc' = [exc EXCEPT ![r] = "error"]
        /\ hit' = [hit EXCEPT ![r] = TRUE]
        /\ UNCHANGED <<route, stack, response, ending, exportable>>
        /\ verdict' = [verdict EXCEPT ![r] = "error"]
    BY DEF FetchRaises, FetchFails, Judge
  <1>2. /\ KeysInv'
        /\ \A x \in Requests : x # r => stage'[x] = stage[x] /\ verdict'[x] = verdict[x]
    BY <1>1, KeysOfOthers DEF IInv
  <1>3. Types' /\ Redacted' /\ Queue'
    BY <1>1 DEF IInv, Types, Redacted, Queue
  <1>4. route[r] = "chat" /\ Passage(r) /\ Carried(r) /\ verdict'[r] = "error"
    BY <1>1 DEF IInv, Passage, KeysInv, KeysTypeOK
  <1>5. exc'[r] = "error" /\ hit'[r] = TRUE
    BY <1>1 DEF IInv, Types
  <1>6. Passage(r)' /\ Carried(r)'
    BY <1>1, <1>4, <1>5 DEF Passage, Carried
  <1>7. ASSUME NEW x \in Requests, x # r PROVE Rests(x)
    BY <1>1, <1>2, <1>7 DEF Rests, IInv, Types
  <1> QED
    BY <1>2, <1>3, <1>6, <1>7, OneRequest

\* Spans are opened, and errors raised and handled, in the body of a route only.
LEMMA BodyKeeps ==
  ASSUME IInv, NEW r \in Requests,
         \/ \E kind \in Kinds : Open(r, kind)
         \/ \E e \in Raised : Raise(r, e)
         \/ Handle(r)
  PROVE  IInv'
  <1>1. /\ UNCHANGED keyVars /\ UNCHANGED <<route, response, ending, exportable>>
        /\ stack[r] # <<>>
        /\ route[r] = "open" \/ (route[r] = "chat" /\ verdict[r] = "accepted")
        /\ Passage(r) /\ Carried(r)
    BY DEF Open, Raise, Handle, InBody, Turn, IInv
  <1>2. KeysInv' /\ Redacted' /\ Queue' /\ stage' = stage /\ verdict' = verdict
    BY <1>1, KeysStay DEF IInv, Redacted, Queue, keyVars
  <1>3. ASSUME NEW kind \in Kinds, Open(r, kind) PROVE IInv'
    <2>1. stack' = [stack EXCEPT ![r] = Append(@, kind)] /\ exc' = exc /\ hit' = hit
      BY <1>3 DEF Open
    <2>2. Append(stack[r], kind) \in Seq(Kinds) /\ Append(stack[r], kind) # <<>>
      <3>1. stack[r] \in Seq(Kinds)
        BY DEF IInv, Types
      <3>2. /\ Append(stack[r], kind) \in Seq(Kinds) /\ Len(stack[r]) \in Nat
            /\ Len(Append(stack[r], kind)) = Len(stack[r]) + 1
        BY <3>1
      <3> DEFINE longer == Append(stack[r], kind)
      <3>3. longer \in Seq(Kinds) /\ Len(longer) > 0
        BY <3>2
      <3> HIDE DEF longer
      <3>4. longer # <<>>
        BY <3>3
      <3> QED
        BY <3>3, <3>4 DEF longer
    <2>3. Types' /\ stack'[r] # <<>>
      BY <1>1, <2>1, <2>2 DEF IInv, Types
    <2>4. Passage(r)' /\ Carried(r)'
      BY <1>1, <1>2, <2>1, <2>3 DEF Passage, Carried
    <2>5. ASSUME NEW x \in Requests, x # r PROVE Rests(x)
      BY <1>1, <1>2, <2>1, <2>5 DEF Rests, IInv, Types
    <2> QED
      BY <1>2, <2>3, <2>4, <2>5, OneRequest
  <1>4. ASSUME NEW e \in Raised, Raise(r, e) PROVE IInv'
    <2>1. /\ exc' = [exc EXCEPT ![r] = e] /\ hit' = [hit EXCEPT ![r] = (e = "error")]
          /\ stack' = stack
      BY <1>4 DEF Raise
    <2>2. Types' /\ exc'[r] = e /\ (hit'[r] <=> e = "error")
      <3> DEFINE raised == e = "error"
      <3>1. raised \in BOOLEAN /\ hit' = [hit EXCEPT ![r] = raised]
        BY <2>1
      <3> HIDE DEF raised
      <3>2. hit' \in [Requests -> BOOLEAN] /\ hit'[r] = raised
        BY <3>1 DEF IInv, Types
      <3>3. hit'[r] <=> e = "error"
        BY <3>2 DEF raised
      <3> QED
        BY <1>1, <2>1, <3>2, <3>3 DEF IInv, Types, Raised
    <2>3. Passage(r)' /\ Carried(r)'
      BY <1>1, <1>2, <2>1, <2>2 DEF Passage, Carried
    <2>4. ASSUME NEW x \in Requests, x # r PROVE Rests(x)
      BY <1>1, <1>2, <2>1, <2>4 DEF Rests, IInv, Types
    <2> QED
      BY <1>2, <2>2, <2>3, <2>4, OneRequest
  <1>5. CASE Handle(r)
    <2>1. /\ exc[r] = "expected" /\ exc' = [exc EXCEPT ![r] = "none"]
          /\ UNCHANGED <<stack, hit>>
      BY <1>5 DEF Handle
    <2>2. Types' /\ exc'[r] = "none"
      BY <1>1, <2>1 DEF IInv, Types
    <2>3. Passage(r)' /\ Carried(r)'
      BY <1>1, <1>2, <2>1, <2>2 DEF Passage, Carried
    <2>4. ASSUME NEW x \in Requests, x # r PROVE Rests(x)
      BY <1>1, <1>2, <2>1, <2>4 DEF Rests, IInv, Types
    <2> QED
      BY <1>2, <2>2, <2>3, <2>4, OneRequest
  <1> QED
    BY <1>3, <1>4, <1>5

\* What a span that has ended starts with: nothing raw unless both processors
\* are still to come.
LEMMA EndedRedacted ==
  ASSUME NEW kind, ending' = Ended(kind)
  PROVE  Redacted'
  BY DEF Redacted, Ended, Processors, Queries

LEMMA CloseKeeps ==
  ASSUME IInv, NEW r \in Requests, Close(r)
  PROVE  IInv'
  <1> DEFINE rest == SubSeq(stack[r], 1, Len(stack[r]) - 1)
             e == After(Top(r), exc[r])
  <1>1. /\ UNCHANGED keyVars /\ UNCHANGED <<route, hit, response, exportable>>
        /\ Len(stack[r]) > 1
        /\ stack' = [stack EXCEPT ![r] = rest]
        /\ exc' = [exc EXCEPT ![r] = e]
        /\ ending' = Ended(Top(r))
        /\ Passage(r) /\ Carried(r)
    BY DEF Close, IInv
  <1>2. KeysInv' /\ Redacted' /\ Queue' /\ stage' = stage /\ verdict' = verdict
    BY <1>1, KeysStay, EndedRedacted DEF IInv, Queue, keyVars
  <1>3. rest \in Seq(Kinds) /\ rest # <<>> /\ stack[r] # <<>>
    <2>1. stack[r] \in Seq(Kinds)
      BY DEF IInv, Types
    <2>2. rest \in Seq(Kinds) /\ Len(rest) = Len(stack[r]) - 1 /\ Len(stack[r]) \in Nat
      BY <1>1, <2>1
    <2> HIDE DEF rest
    <2>3. Len(rest) > 0
      BY <1>1, <2>2
    <2> QED
      BY <1>1, <2>2, <2>3
  <1>4. /\ e \in {"none", "paused", "error", "expected", "interrupt", "cancelled"}
        /\ e = "error" <=> exc[r] = "error"
        /\ e # "none" => exc[r] # "none"
    BY DEF After, IInv, Types
  <1> HIDE DEF rest, e
  <1>5. Types' /\ stack'[r] = rest /\ exc'[r] = e
    BY <1>1, <1>3, <1>4 DEF IInv, Types
  <1>6. Passage(r)' /\ Carried(r)'
    BY <1>1, <1>2, <1>3, <1>4, <1>5 DEF Passage, Carried
  <1>7. ASSUME NEW x \in Requests, x # r PROVE Rests(x)
    BY <1>1, <1>2, <1>7 DEF Rests, IInv, Types
  <1> QED
    BY <1>2, <1>5, <1>6, <1>7, OneRequest

\* An answer that fits what has been raised keeps the invariant.
LEMMA AnswerKeeps ==
  ASSUME IInv, NEW r \in Requests, NEW code \in {0} \cup Codes,
         NEW span \in {"unset", "error"}, NEW timed \in BOOLEAN,
         Answer(r, code, span, timed),
         stage[r] \in {"none", "done"},
         code # 0 => /\ exc[r] = "error" <=> code = 500
                     /\ exc[r] = "error" <=> span = "error"
  PROVE  IInv'
  <1>1. /\ IF stage[r] = "done" THEN Leave(r) ELSE UNCHANGED keyVars
        /\ UNCHANGED <<hit, exportable>>
        /\ stack[r] = <<"http">>
        /\ response' = [response EXCEPT ![r] = [code |-> code, span |-> span, timed |-> timed]]
        /\ stack' = [stack EXCEPT ![r] = <<>>]
        /\ route' = [route EXCEPT ![r] = "none"]
        /\ exc' = [exc EXCEPT ![r] = "none"]
        /\ ending' = Ended("http")
        /\ Passage(r) /\ Carried(r)
    BY DEF Answer, IInv
  <1>2. /\ KeysInv' /\ stage'[r] = "none"
        /\ \A x \in Requests : x # r => stage'[x] = stage[x] /\ verdict'[x] = verdict[x]
    <2>1. CASE Leave(r)
      <3>1. stage' = [stage EXCEPT ![r] = "none"]
        BY <2>1 DEF Leave
      <3> QED
        BY <2>1, <3>1, KeysOfOthers DEF IInv, KeysInv, KeysTypeOK
    <2>2. CASE UNCHANGED keyVars /\ stage[r] = "none"
      BY <2>2, KeysStay DEF IInv, keyVars
    <2> QED
      BY <1>1, <2>1, <2>2
  <1>3. Redacted' /\ Queue'
    BY <1>1, EndedRedacted DEF IInv, Queue
  <1>4. Types'
    <2>1. <<>> \in Seq(Kinds)
      OBVIOUS
    <2> QED
      BY <1>1, <2>1 DEF IInv, Types, Codes
  <1>5. /\ response'[r] = [code |-> code, span |-> span, timed |-> timed]
        /\ stack'[r] = <<>> /\ route'[r] = "none" /\ exc'[r] = "none" /\ hit'[r] = hit[r]
    BY <1>1 DEF IInv, Types
  <1>6. hit[r] <=> exc[r] = "error"
    BY <1>1 DEF Passage, Carried
  <1>7. Passage(r)' /\ Carried(r)'
    BY <1>2, <1>5, <1>6 DEF Passage, Carried
  <1>8. ASSUME NEW x \in Requests, x # r PROVE Rests(x)
    BY <1>1, <1>2, <1>8 DEF Rests, IInv, Types
  <1> QED
    BY <1>2, <1>3, <1>4, <1>7, <1>8, OneRequest

LEMMA EndKeeps ==
  ASSUME IInv, NEW r \in Requests, Respond(r) \/ Unhandled(r) \/ Drop(r)
  PROVE  IInv'
  <1>1. Passage(r) /\ RequestKeys(r) /\ KeysTypeOK
    BY DEF IInv, KeysInv
  <1>2. CASE Respond(r)
    <2>1. stage[r] \in {"none", "done"} /\ exc[r] # "error"
      BY <1>1, <1>2 DEF Respond, InBody, Passage, RequestKeys
    <2>2. ASSUME NEW code \in Codes \ {500}, Answer(r, code, "unset", TRUE) PROVE IInv'
      <3>1. PICK timed \in BOOLEAN : Answer(r, code, "unset", timed)
        BY <2>2
      <3>2. /\ code \in {0} \cup Codes /\ "unset" \in {"unset", "error"}
            /\ exc[r] = "error" <=> code = 500
            /\ exc[r] = "error" <=> "unset" = "error"
        BY <2>1, <2>2
      <3> QED
        BY <2>1, <3>1, <3>2, AnswerKeeps
    <2>3. /\ Refusals(r) \subseteq Codes \ {500}
          /\ 200 \in Codes \ {500} /\ 401 \in Codes \ {500} /\ 422 \in Codes \ {500}
      BY DEF Refusals, Codes
    <2>4. \/ Answer(r, 200, "unset", TRUE) \/ Answer(r, 401, "unset", TRUE)
          \/ Answer(r, 422, "unset", TRUE)
          \/ \E code \in Refusals(r) : Answer(r, code, "unset", TRUE)
      BY <1>2, Zenon DEF Respond
    <2> DEFINE told == Codes \ {500}
    <2>5. /\ 200 \in told /\ 401 \in told /\ 422 \in told
          /\ \A code \in Refusals(r) : code \in told
      BY <2>3
    <2>6. \A code \in told : Answer(r, code, "unset", TRUE) => IInv'
      BY <2>2
    <2> HIDE DEF told
    <2> QED
      BY <2>4, <2>5, <2>6, ZenonT(40)
  <1>4. CASE Unhandled(r)
    <2>1. exc[r] = "error" /\ Answer(r, 500, "error", FALSE)
      BY <1>4 DEF Unhandled
    <2>2. stage[r] \in {"none", "done"}
      BY <1>1, <2>1 DEF Passage, RequestKeys
    <2>3. 500 \in {0} \cup Codes
      BY DEF Codes
    <2> QED
      BY <2>1, <2>2, <2>3, AnswerKeeps, ZenonT(40)
  <1>5. CASE Drop(r)
    <2>1. PICK span \in {"unset", "error"} : Answer(r, 0, span, FALSE)
      BY <1>5 DEF Drop
    <2>2. stage[r] \in {"none", "done"}
      BY <1>1, <1>5 DEF Drop, Passage, RequestKeys
    <2> QED
      BY <2>1, <2>2, AnswerKeeps, ZenonT(40)
  <1> QED
    BY <1>2, <1>4, <1>5

\* The processors and the exporting thread: no request is touched.
LEMMA SpansKeep ==
  ASSUME IInv, Process \/ Export
  PROVE  IInv'
  <1>1. UNCHANGED keyVars /\ UNCHANGED <<route, stack, exc, hit, response>>
    BY DEF Process, Export
  <1>2. KeysInv' /\ Types' /\ \A x \in Requests : Rests(x)
    BY <1>1, KeysStay DEF IInv, Types, Rests, keyVars
  <1>3. Redacted' /\ Queue'
    <2>1. CASE Export
      BY <2>1, ServiceAssumption DEF Export, IInv, Redacted, Queue
    <2>2. CASE /\ ending.left # <<>> /\ Head(ending.left) = "redact"
               /\ ending' = [query |-> IF ending.query = "raw" THEN "redacted" ELSE ending.query,
                             left  |-> Tail(ending.left)]
               /\ UNCHANGED exportable
      <3>1. ending.left = Processors
        BY <2>2 DEF IInv, Redacted
      <3>2. Tail(ending.left) = <<"batch">>
        BY <3>1 DEF Processors
      <3> QED
        BY <2>2, <3>2 DEF IInv, Redacted, Queue, Queries
    <2>3. CASE /\ ending.left # <<>> /\ Head(ending.left) = "batch"
               /\ Queued(ending.query)
               /\ ending' = [ending EXCEPT !.left = Tail(@)]
      <3>1. ending.left = <<"batch">>
        <4>1. Head(Processors) = "redact"
          BY DEF Processors
        <4> QED
          BY <2>3, <4>1 DEF IInv, Redacted
      <3>2. ending.query \in {"none", "redacted"}
        BY <3>1 DEF IInv, Redacted, Queries
      <3>3. /\ exportable \in Seq({"none", "redacted"}) /\ Len(exportable) \in Nat
            /\ Len(exportable) <= QueueSize /\ QueueSize \in Nat \ {0}
        BY ServiceAssumption DEF IInv, Queue
      <3>4. Queue'
        <4>1. CASE Len(exportable) < QueueSize
          BY <2>3, <3>2, <3>3, <4>1 DEF Queued, Queue
        <4>2. CASE ~(Len(exportable) < QueueSize)
          <5>1. exportable # <<>>
            BY <3>3, <4>2
          <5>2. Tail(exportable) \in Seq({"none", "redacted"})
                /\ Len(Tail(exportable)) = Len(exportable) - 1
            BY <3>3, <5>1
          <5> QED
            BY <2>3, <3>2, <3>3, <4>2, <5>2 DEF Queued, Queue
        <4> QED
          BY <4>1, <4>2
      <3>5. Tail(ending.left) = <<>>
        BY <3>1
      <3>6. /\ ending' \in [query : Queries, left : {<<>>, Processors, <<"batch">>}]
            /\ ending'.left = <<>>
        BY <2>3, <3>5 DEF IInv, Redacted
      <3>7. Redacted'
        <4>1. <<>> # <<"batch">>
          OBVIOUS
        <4> QED
          BY <3>6, <4>1 DEF Redacted
      <3> QED
        BY <3>4, <3>7
    <2> QED
      BY <2>1, <2>2, <2>3 DEF Process
  <1>4. \A x \in Requests : Passage(x)' /\ Carried(x)'
    BY <1>2, RestsKeeps DEF IInv
  <1> QED
    BY <1>2, <1>3, <1>4 DEF IInv

LEMMA RestartsKeep ==
  ASSUME IInv, TenantRotates \/ Restart
  PROVE  IInv'
  <1>1. KeysInv'
    BY KeysKept DEF TenantRotates, Restart, KeysNext, IInv
  <1>2. CASE TenantRotates
    <2>1. UNCHANGED spanVars /\ stage' = stage /\ verdict' = verdict
      BY <1>2 DEF TenantRotates, Rotate
    <2> QED
      BY <1>1, <2>1, RestsKeeps DEF IInv, Types, Redacted, Queue, Rests, spanVars
  <1>3. CASE Restart
    <2>1. Types' /\ Redacted' /\ Queue'
      BY <1>3, ServiceAssumption
         DEF Restart, Types, Redacted, Queue, NoResponse, NoSpan, Queries, Kinds
    <2>2. ASSUME NEW r \in Requests PROVE Passage(r)' /\ Carried(r)'
      BY <1>3, <2>2 DEF Restart, KeysRestart, Passage, Carried, NoResponse
    <2> QED
      BY <1>1, <2>1, <2>2 DEF IInv
  <1> QED
    BY <1>2, <1>3

LEMMA NextInv ==
  ASSUME IInv, [Next]_vars
  PROVE  IInv'
  <1>1. CASE UNCHANGED vars
    <2>1. KeysInv' /\ UNCHANGED spanVars /\ stage' = stage /\ verdict' = verdict
      BY <1>1, KeysStay DEF vars, keyVars, IInv
    <2> QED
      BY <2>1, RestsKeeps DEF IInv, Types, Redacted, Queue, Rests, spanVars
  <1>2. ASSUME NEW r \in Requests, Serve(r) PROVE IInv'
    BY <1>2, ValidateKeeps, FetchRaisesKeeps, BodyKeeps, CloseKeeps, EndKeeps DEF Serve
  <1>3. ASSUME NEW r \in Requests, NEW kind \in {"chat", "open"}, Arrive(r, kind) PROVE IInv'
    BY <1>3, ArriveKeeps
  <1>4. CASE Process \/ Export
    BY <1>4, SpansKeep
  <1>5. CASE TenantRotates \/ Restart
    BY <1>5, RestartsKeep
  <1> QED
    BY <1>1, <1>2, <1>3, <1>4, <1>5 DEF Next

THEOREM Invariance == Spec => []IInv
  BY InitInv, NextInv, PTL DEF Spec

-----------------------------------------------------------------------------

\* The type invariant, with the limit of the export queue.
THEOREM TypeCorrect == Spec => []TypeOK
  <1>1. IInv => TypeOK
    <2> SUFFICES ASSUME IInv PROVE TypeOK
      OBVIOUS
    <2>1. KeysTypeOK /\ Types /\ Redacted /\ Queue
      BY DEF IInv, KeysInv
    <2>2. exportable \in Seq(Queries) /\ Len(exportable) <= QueueSize
      BY <2>1 DEF Queue, Queries
    <2>3. ending \in [query : Queries, left : Seq({"redact", "batch"})]
      <3>1. {<<>>, Processors, <<"batch">>} \subseteq Seq({"redact", "batch"})
        BY DEF Processors
      <3> QED
        BY <2>1, <3>1 DEF Redacted
    <2> QED
      BY <2>1, <2>2, <2>3 DEF TypeOK, Types, Raised, Codes
  <1> QED
    BY <1>1, Invariance, PTL

\* A request let in came with a good token of a published key.
THEOREM AcceptedCorrect == Spec => []AcceptedWasPublished
  <1>1. IInv => AcceptedWasPublished
    BY DEF IInv, KeysInv, RequestKeys, AcceptedWasPublished
  <1> QED
    BY <1>1, Invariance, PTL

\* No key that has lasted is unknown, whichever fetch was stored last.
THEOREM LastingKeyCorrect == Spec => []LastingKeyKnown
  <1>1. IInv => LastingKeyKnown
    BY DEF IInv, KeysInv, RequestKeys, LastingKeyKnown
  <1> QED
    BY <1>1, Invariance, PTL

\* Whenever the exporting thread runs, it finds nothing raw.
THEOREM RedactionCorrect == Spec => []NothingRaw
  <1>1. IInv => NothingRaw
    <2> SUFFICES ASSUME IInv, NEW i \in 1..Len(exportable) PROVE exportable[i] # "raw"
      BY DEF NothingRaw
    <2>1. exportable \in Seq({"none", "redacted"})
      BY DEF IInv, Queue
    <2> QED
      BY <2>1
  <1> QED
    BY <1>1, Invariance, PTL

\* An error without a handler where it is raised is told at the edge of the
\* service, from however deep in the spans; a handled one and a refusal are not.
THEOREM FailureCorrect == Spec => []FailureTold
  <1>1. IInv => FailureTold
    BY DEF IInv, Carried, FailureTold, NoResponse
  <1> QED
    BY <1>1, Invariance, PTL

-----------------------------------------------------------------------------
(***************************************************************************)
(* The safety half of NeverWaits: no request comes to a place from which no*)
(* step of the code leads on.  ENABLED is out of the prover's reach, so    *)
(* StepDue spells out the guards of Process and of the steps of Serve; that*)
(* what follows them can be assigned, TLC checks with NeverWaits itself.   *)
(***************************************************************************)

\* The server span is the outermost one; interrupt() is on its way out of an
\* agent's span; only the body of a route meets an error it expects; a fetch that
\* raised has left its exception.
Placed(r) ==
    /\ stack[r] # <<>> => stack[r][1] = "http"
    /\ exc[r] = "interrupt" => Len(stack[r]) > 0 /\ Top(r) = "agent"
    /\ exc[r] = "expected" => route[r] = "open" \/ verdict[r] = "accepted"
    /\ verdict[r] = "error" => exc[r] = "error"

\* The guards of LetIn, Fetch and FetchRaises, Handle, Close, and of Respond,
\* Unhandled and Drop.
StepDue(r) ==
    \/ Turn(r) /\ route[r] = "chat" /\ stage[r] = "none"
    \/ ending.left = <<>> /\ stage[r] \in {"asking", "answered", "closing"}
    \/ InBody(r) /\ exc[r] = "expected"
    \/ Turn(r) /\ exc[r] # "expected" /\ Len(stack[r]) > 1
    \/ /\ Turn(r) /\ stack[r] = <<"http">>
       /\ \/ InBody(r) /\ exc[r] \in {"none", "paused"}
          \/ verdict[r] \in {"missing", "unknown", "invalid", "cancelled"}
          \/ exc[r] \in {"error", "cancelled"}

ProcessDue == ending.left # <<>> /\ Head(ending.left) \in {"redact", "batch"}

NeverStuck == \A r \in Requests : stack[r] # <<>> => StepDue(r) \/ ProcessDue

LEMMA OneSpan ==
  ASSUME NEW s \in Seq(Kinds), s # <<>>, ~(Len(s) > 1)
  PROVE  Len(s) = 1
  <1>1. Len(s) \in Nat /\ Len(s) # 0
    OBVIOUS
  <1>2. \A n \in Nat : n # 0 /\ ~(n > 1) => n = 1
    OBVIOUS
  <1> QED
    BY <1>1, <1>2, Zenon

LEMMA PlacedStay ==
  ASSUME NEW r, Placed(r), Rests(r)
  PROVE  Placed(r)'
  BY DEF Placed, Rests, Top

LEMMA PlacedKept ==
  ASSUME IInv, \A r \in Requests : Placed(r), [Next]_vars
  PROVE  \A r \in Requests : Placed(r)'
  <1>1. /\ Types /\ KeysTypeOK
        /\ \A r \in Requests : Passage(r) /\ RequestKeys(r) /\ stack[r] \in Seq(Kinds)
    BY DEF IInv, KeysInv, Types
  <1>2. CASE UNCHANGED vars \/ Process \/ Export \/ TenantRotates
    BY <1>2, PlacedStay
       DEF vars, keyVars, spanVars, Process, Export, TenantRotates, Rotate, Rests
  <1>3. CASE Restart
    BY <1>3 DEF Restart, KeysRestart, Placed
  <1>4. ASSUME NEW r \in Requests, NEW kind \in {"chat", "open"}, Arrive(r, kind)
        PROVE  \A x \in Requests : Placed(x)'
    <2>1. \A x \in Requests : x # r => Rests(x)
      BY <1>1, <1>4 DEF Arrive, Rests, Types, keyVars
    <2>2. stack'[r] = <<"http">> /\ exc'[r] = "none" /\ verdict'[r] = "none"
      BY <1>1, <1>4 DEF Arrive, Types, keyVars, Passage, RequestKeys
    <2> QED
      BY <2>1, <2>2, PlacedStay DEF Placed
  <1>5. ASSUME NEW r \in Requests, (\E t \in Tokens : LetIn(r, t)) \/ Fetch(r) \/ FetchRaises(r)
        PROVE  \A x \in Requests : Placed(x)'
    <2>1. /\ \/ \E t \in Tokens : Authenticate(r, t)
             \/ TenantAnswers(r) \/ FetchFails(r) \/ Store(r) \/ Closed(r) \/ Abandon(r)
          /\ UNCHANGED <<route, stack, response>>
          /\ \A x \in Requests : x # r => exc'[x] = exc[x] /\ hit'[x] = hit[x]
      BY <1>1, <1>5 DEF LetIn, Fetch, FetchRaises, spanVars, Types
    <2>2. \A x \in Requests : x # r => Rests(x)
      BY <2>1, KeysOfOthers DEF IInv, Rests
    <2>3. \/ exc'[r] = exc[r] /\ exc[r] # "expected" /\ verdict'[r] # "error"
          \/ exc'[r] = "error"
      <3>1. CASE FetchRaises(r)
        BY <1>1, <3>1 DEF FetchRaises, Types
      <3>2. CASE (\E t \in Tokens : LetIn(r, t)) \/ Fetch(r)
        <4>1. exc' = exc /\ verdict[r] = "none"
          BY <1>1, <3>2 DEF LetIn, Fetch, spanVars, Authenticate, TenantAnswers, Store, Closed,
                            Abandon, RequestKeys
        <4>3. exc[r] # "expected"
          <5>1. stage[r] # "none" \/ route[r] = "chat"
            BY <3>2 DEF LetIn, Fetch, TenantAnswers, Store, Closed, Abandon
          <5> QED
            BY <1>1, <4>1, <5>1 DEF Passage
        <4>2. verdict' = verdict \/ \E v \in Verdicts \ {"error"} : Judge(r, v)
          BY <3>2 DEF LetIn, Fetch, Authenticate, TenantAnswers, Store, Closed, Abandon,
                      Checked, Verdicts
        <4> QED
          BY <1>1, <4>1, <4>2, <4>3 DEF Judge, KeysTypeOK
      <3> QED
        BY <1>5, <3>1, <3>2
    <2> QED
      BY <2>1, <2>2, <2>3, PlacedStay DEF Placed, Top
  <1>6. ASSUME NEW r \in Requests,
               \/ \E kind \in Kinds : Open(r, kind)
               \/ \E e \in Raised : Raise(r, e)
               \/ Handle(r)
        PROVE  \A x \in Requests : Placed(x)'
    <2>1. /\ \A x \in Requests : x # r => Rests(x)
          /\ verdict' = verdict /\ stack[r] # <<>> /\ stack[r] \in Seq(Kinds)
          /\ verdict[r] # "error"
      <3>1. InBody(r) /\ stack[r] # <<>> /\ UNCHANGED <<stage, verdict, route, response>>
        BY <1>6 DEF Open, Raise, Handle, InBody, Turn, keyVars
      <3>2. verdict[r] # "error"
        BY <1>1, <3>1 DEF InBody, Passage, RequestKeys
      <3>3. ASSUME NEW x \in Requests, x # r PROVE Rests(x)
        <4>1. CASE \E kind \in Kinds : Open(r, kind)
          BY <1>1, <3>1, <3>3, <4>1 DEF Open, Rests, Types
        <4>2. CASE \E e \in Raised : Raise(r, e)
          <5>1. PICK e \in Raised : Raise(r, e)
            BY <4>2
          <5>2. stack' = stack /\ exc'[x] = exc[x]
            BY <1>1, <3>3, <5>1 DEF Raise, Types
          <5>3. hit'[x] = hit[x]
            <6> DEFINE raised == e = "error"
            <6>1. hit' = [hit EXCEPT ![r] = raised] /\ hit \in [Requests -> BOOLEAN]
              BY <1>1, <5>1 DEF Raise, Types
            <6> HIDE DEF raised
            <6> QED
              BY <3>3, <6>1
          <5> QED
            BY <3>1, <5>2, <5>3 DEF Rests
        <4>3. CASE Handle(r)
          BY <1>1, <3>1, <3>3, <4>3 DEF Handle, Rests, Types
        <4> QED
          BY <1>6, <4>1, <4>2, <4>3
      <3> QED
        BY <1>1, <3>1, <3>2, <3>3
    <2>2. ASSUME NEW kind \in Kinds, Open(r, kind) PROVE Placed(r)'
      <3>1. /\ stack'[r] = Append(stack[r], kind) /\ exc'[r] = "none"
            /\ Append(stack[r], kind)[1] = stack[r][1]
        BY <1>1, <2>1, <2>2 DEF Open, Types
      <3> QED
        BY <2>1, <3>1 DEF Placed
    <2>3. ASSUME NEW e \in Raised, Raise(r, e) PROVE Placed(r)'
      <3>1. /\ stack' = stack /\ exc'[r] = e /\ (e = "interrupt" => Top(r) = "agent")
            /\ route' = route /\ (route[r] = "open" \/ verdict[r] = "accepted")
        BY <1>1, <2>3 DEF Raise, InBody, Types
      <3>2. Len(stack[r]) > 0
        BY <2>1
      <3> QED
        BY <2>1, <3>1, <3>2 DEF Placed, Top
    <2>4. ASSUME Handle(r) PROVE Placed(r)'
      <3>1. stack' = stack /\ exc'[r] = "none"
        BY <1>1, <2>4 DEF Handle, Types
      <3> QED
        BY <2>1, <3>1 DEF Placed, Top
    <2> QED
      BY <1>6, <2>1, <2>2, <2>3, <2>4, PlacedStay
  <1>7. ASSUME NEW r \in Requests, Close(r) PROVE \A x \in Requests : Placed(x)'
    <2>1. /\ \A x \in Requests : x # r => Rests(x)
          /\ verdict' = verdict /\ Len(stack[r]) > 1 /\ stack[r] \in Seq(Kinds)
          /\ stack'[r] = SubSeq(stack[r], 1, Len(stack[r]) - 1)
          /\ exc'[r] = After(Top(r), exc[r]) /\ exc[r] # "expected"
      BY <1>1, <1>7 DEF Close, Rests, Types, keyVars
    <2>2. stack'[r][1] = stack[r][1]
      BY <2>1
    <2>3. exc'[r] \notin {"interrupt", "expected"} /\ (exc[r] = "error" => exc'[r] = "error")
      BY <2>1 DEF After, Placed
    <2>4. stack[r] # <<>>
      BY <2>1
    <2> QED
      BY <2>1, <2>2, <2>3, <2>4, PlacedStay DEF Placed
  <1>8. ASSUME NEW r \in Requests, NEW code, NEW span, NEW timed, Answer(r, code, span, timed)
        PROVE  \A x \in Requests : Placed(x)'
    <2>1. \A x \in Requests : x # r => Rests(x)
      <3>1. \A x \in Requests : x # r => stage'[x] = stage[x] /\ verdict'[x] = verdict[x]
        BY <1>8, KeysOfOthers DEF Answer, IInv, keyVars
      <3> QED
        BY <1>1, <1>8, <3>1 DEF Answer, Types, Rests
    <2>2. stack'[r] = <<>> /\ exc'[r] = "none"
      BY <1>1, <1>8 DEF Answer, Types
    <2>3. verdict'[r] = "none"
      BY <1>1, <1>8 DEF Answer, Leave, KeysTypeOK, RequestKeys, keyVars
    <2> QED
      BY <2>1, <2>2, <2>3, PlacedStay DEF Placed
  <1>9. ASSUME NEW r \in Requests, Respond(r) \/ Unhandled(r) \/ Drop(r)
        PROVE  \A x \in Requests : Placed(x)'
    BY <1>8, <1>9, ZenonT(40) DEF Respond, Unhandled, Drop
  <1> QED
    BY <1>2, <1>3, <1>4, <1>5, <1>6, <1>7, <1>9 DEF Next, Serve

\* Wherever a request is, the code has a next step for it that waits for no
\* other request and not for the exporter: it has been let in or refused, has a
\* span to close or an answer to give, or the processors have a span in hand.
THEOREM AlwaysAStep == Spec => []NeverStuck
  <1>1. IInv /\ (\A r \in Requests : Placed(r)) => NeverStuck
    <2> SUFFICES ASSUME IInv, NEW r \in Requests, Placed(r), stack[r] # <<>>
                 PROVE  StepDue(r) \/ ProcessDue
      BY DEF NeverStuck
    <2>1. /\ stack[r] \in Seq(Kinds) /\ Passage(r) /\ RequestKeys(r)
          /\ stage[r] \in Stages /\ verdict[r] \in Verdicts
          /\ exc[r] \in {"none", "paused", "error", "expected", "interrupt", "cancelled"}
          /\ route[r] \in {"none", "chat", "open"}
      BY DEF IInv, Types, KeysInv, KeysTypeOK
    <2>2. CASE ending.left # <<>>
      <3>1. ending.left \in {Processors, <<"batch">>}
        BY <2>2 DEF IInv, Redacted
      <3>2. Head(ending.left) \in {"redact", "batch"}
        BY <3>1 DEF Processors
      <3> QED
        BY <2>2, <3>2 DEF ProcessDue
    <2>5. CASE ending.left = <<>> /\ exc[r] = "expected"
      <3>1. InBody(r)
        BY <2>1, <2>5 DEF Placed, Passage, RequestKeys, InBody, Turn
      <3> QED
        BY <2>5, <3>1 DEF StepDue
    <2>3. CASE ending.left = <<>> /\ exc[r] # "expected" /\ Len(stack[r]) > 1
      BY <2>3 DEF StepDue, Turn
    <2>4. CASE ending.left = <<>> /\ exc[r] # "expected" /\ ~(Len(stack[r]) > 1)
      <3>1. Len(stack[r]) = 1 /\ stack[r][1] = "http"
        BY <2>1, <2>4, OneSpan DEF Placed
      <3>2. stack[r] = <<"http">> /\ Turn(r)
        BY <2>1, <2>4, <3>1 DEF Turn
      <3>3. exc[r] \notin {"interrupt", "expected"}
        BY <2>4, <3>1 DEF Placed, Top
      <3>4. CASE route[r] = "open"
        BY <2>1, <3>2, <3>3, <3>4 DEF StepDue, InBody
      <3>5. CASE route[r] = "chat" /\ stage[r] = "done"
        BY <2>1, <3>2, <3>3, <3>5 DEF StepDue, InBody, RequestKeys, Placed, Verdicts
      <3>6. CASE route[r] = "chat" /\ stage[r] # "done"
        BY <2>1, <2>4, <3>2, <3>6 DEF StepDue, Stages
      <3> QED
        BY <2>1, <3>4, <3>5, <3>6 DEF Passage
    <2> QED
      BY <2>2, <2>3, <2>4, <2>5
  <1>2. ServiceInit => \A r \in Requests : Placed(r)
    BY DEF ServiceInit, KeysInit, Placed
  <1>3. IInv /\ (\A r \in Requests : Placed(r)) /\ [Next]_vars
           => (\A r \in Requests : Placed(r))'
    BY PlacedKept
  <1> QED
    BY <1>1, <1>2, <1>3, Invariance, PTL DEF Spec

=============================================================================
