---------------------------- MODULE SigningKeys ----------------------------
(***************************************************************************)
(* validate_token (app/api/middleware/auth.py), on which POST /chat        *)
(* depends: a bearer token is checked against the signing keys of the      *)
(* tenant, fetched by the first request that needs them and then kept in   *)
(* _jwks_cache for the life of the process.  A request that asks the tenant*)
(* waits, and others run meanwhile, so several may fetch at once and their *)
(* answers may be stored in another order than they were given.            *)
(*                                                                         *)
(* External: the tenant publishes a set of keys and changes it.            *)
(***************************************************************************)
EXTENDS Naturals

CONSTANTS
    Requests,       \* requests in flight together
    Keys,           \* signing keys, by their kid
    FirstKeys,      \* those the tenant publishes at first
    Presented,      \* the bearer tokens that requests come with
    NoToken,        \* no Authorization header, or no bearer in it
    Development,    \* app_env is development and there is no tenant
    MaxRotations    \* bound on the changes of the published keys

ASSUME KeysAssumption ==
    /\ Development \in BOOLEAN
    /\ MaxRotations \in Nat
    /\ FirstKeys \in (SUBSET Keys) \ {{}}
    /\ Presented \subseteq [kid : Keys, good : BOOLEAN]
    /\ NoToken \notin Presented

VARIABLES
    published,      \* the keys the tenant answers with
    cache,          \* _jwks_cache
    stage,          \* where each request is in validate_token
    token,          \* the token it came with
    answer,         \* what the tenant has answered it
    verdict,        \* what validate_token made of it
    rotations,      \* the changes so far, for their bound
    ever, always    \* history: the keys published at some time and all the
                    \* time since the process started

keyVars == <<published, cache, stage, token, answer, verdict, rotations, ever, always>>

\* None: the tenant never publishes an empty set.
NoKeys == {}

\* A bearer token is the kid of its header, and whether jwt.decode takes it
\* (signature, audience, expiry) with that key.
Tokens == Presented \cup {NoToken}

Stages == {"none", "asking", "answered", "closing", "done"}
Verdicts == {"none", "accepted", "missing", "unknown", "invalid", "error", "cancelled"}

KeysInit ==
    /\ published = FirstKeys
    /\ cache = NoKeys
    /\ stage = [r \in Requests |-> "none"]
    /\ token = [r \in Requests |-> NoToken]
    /\ answer = [r \in Requests |-> NoKeys]
    /\ verdict = [r \in Requests |-> "none"]
    /\ rotations = 0
    /\ ever = published
    /\ always = published

tenantVars == <<published, rotations, ever, always>>

\* Defect: only the first key of the set is compared.
Knows_First(keys, t) == keys # {} /\ t.kid = CHOOSE k \in keys : TRUE

Knows(keys, t) == t.kid \in keys

\* The key is looked up by its kid, then the token is decoded with it.
Checked(keys, t) ==
    IF ~Knows(keys, t) THEN "unknown" ELSE IF t.good THEN "accepted" ELSE "invalid"

Judge(r, v) ==
    /\ stage' = [stage EXCEPT ![r] = "done"]
    /\ verdict' = [verdict EXCEPT ![r] = v]

\* validate_token, up to its first await: with a cached set there is none.
Authenticate(r, t) ==
    /\ stage[r] = "none"
    /\ token' = [token EXCEPT ![r] = t]
    /\ IF Development THEN Judge(r, "accepted")
       ELSE IF t = NoToken THEN Judge(r, "missing")
       ELSE IF cache # NoKeys THEN Judge(r, Checked(cache, t))
       ELSE stage' = [stage EXCEPT ![r] = "asking"] /\ UNCHANGED verdict
    /\ UNCHANGED <<tenantVars, cache, answer>>

TenantAnswers(r) ==
    /\ stage[r] = "asking"
    /\ stage' = [stage EXCEPT ![r] = "answered"]
    /\ answer' = [answer EXCEPT ![r] = published]
    /\ UNCHANGED <<tenantVars, cache, token, verdict>>

\* No answer, or one that is no success: httpx raises what no clause catches,
\* and nothing is cached.
FetchFails(r) ==
    /\ stage[r] = "asking"
    /\ Judge(r, "error")
    /\ UNCHANGED <<tenantVars, cache, token, answer>>

\* The request goes on, whatever others have stored while it waited.
Store(r) ==
    /\ stage[r] = "answered"
    /\ cache' = answer[r]
    /\ stage' = [stage EXCEPT ![r] = "closing"]
    /\ answer' = [answer EXCEPT ![r] = NoKeys]
    /\ UNCHANGED <<tenantVars, token, verdict>>

\* Closing the client was awaited too: the cache is read again after it.
Closed(r) ==
    /\ stage[r] = "closing"
    /\ Judge(r, Checked(cache, token[r]))
    /\ UNCHANGED <<tenantVars, cache, token, answer>>

\* A request that is cancelled while it waits.
Abandon(r) ==
    /\ stage[r] \in {"asking", "answered", "closing"}
    /\ Judge(r, "cancelled")
    /\ answer' = [answer EXCEPT ![r] = NoKeys]
    /\ UNCHANGED <<tenantVars, cache, token>>

\* The request is over; the slot is free for another one.
Leave(r) ==
    /\ stage[r] = "done"
    /\ stage' = [stage EXCEPT ![r] = "none"]
    /\ token' = [token EXCEPT ![r] = NoToken]
    /\ verdict' = [verdict EXCEPT ![r] = "none"]
    /\ UNCHANGED <<tenantVars, cache, answer>>

\* External: the tenant signs with other keys from now on.
Rotate ==
    /\ rotations < MaxRotations
    /\ rotations' = rotations + 1
    /\ published' \in (SUBSET Keys) \ {{}, published}
    /\ ever' = ever \cup published'
    /\ always' = always \cap published'
    /\ UNCHANGED <<cache, stage, token, answer, verdict>>

\* Defect: the key set outlives the process.
KeysRestart_Persistent ==
    /\ stage' = [r \in Requests |-> "none"]
    /\ token' = [r \in Requests |-> NoToken]
    /\ answer' = [r \in Requests |-> NoKeys]
    /\ verdict' = [r \in Requests |-> "none"]
    /\ ever' = published
    /\ always' = published
    /\ UNCHANGED <<published, cache, rotations>>

\* A new process: no requests, no cache.
KeysRestart ==
    /\ cache' = NoKeys
    /\ stage' = [r \in Requests |-> "none"]
    /\ token' = [r \in Requests |-> NoToken]
    /\ answer' = [r \in Requests |-> NoKeys]
    /\ verdict' = [r \in Requests |-> "none"]
    /\ ever' = published
    /\ always' = published
    /\ UNCHANGED <<published, rotations>>

KeysNext ==
    \/ \E r \in Requests :
          \/ \E t \in Tokens : Authenticate(r, t)
          \/ TenantAnswers(r) \/ FetchFails(r) \/ Store(r) \/ Closed(r)
          \/ Abandon(r) \/ Leave(r)
    \/ Rotate
    \/ KeysRestart

KeysSpec == KeysInit /\ [][KeysNext]_keyVars

-----------------------------------------------------------------------------

KeysTypeOK ==
    /\ published \in (SUBSET Keys) \ {{}}
    /\ cache \in SUBSET Keys
    /\ stage \in [Requests -> Stages]
    /\ token \in [Requests -> Tokens]
    /\ answer \in [Requests -> SUBSET Keys]
    /\ verdict \in [Requests -> Verdicts]
    /\ rotations \in 0..MaxRotations
    /\ ever \in SUBSET Keys /\ always \in SUBSET Keys

\* validate_token: outside development a request that is let in came with a
\* token that decodes with a key the tenant has published since the process
\* started, in whatever order the requests fetched, stored and looked it up.
AcceptedWasPublished ==
    \A r \in Requests : ~Development /\ verdict[r] = "accepted" =>
        /\ token[r] # NoToken
        /\ token[r].good
        /\ token[r].kid \in ever

\* "Unknown signing key" is never said of a key that has been published all the
\* time since the process started: whichever answer is cached, it holds it.
LastingKeyKnown ==
    \A r \in Requests : verdict[r] = "unknown" => token[r].kid \notin always

=============================================================================
