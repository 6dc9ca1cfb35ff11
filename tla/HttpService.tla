---------------------------- MODULE HttpService ----------------------------
(***************************************************************************)
(* A request on its way through the service: TracingMiddleware opens the   *)
(* server span, a chat is let in by validate_token (SigningKeys), the body *)
(* of the route opens the spans of app/observability/spans.py inside each  *)
(* other, and every span that ends goes through the processors setup_otel  *)
(* adds: the redaction of PII, then the queue of the BatchSpanProcessor,   *)
(* which a thread of its own exports.                                      *)
(*                                                                         *)
(* The processors run when a span ends, without an await, so on the event  *)
(* loop nothing else happens meanwhile; the exporting thread may run at any*)
(* time.                                                                   *)
(***************************************************************************)
EXTENDS SigningKeys, Sequences

CONSTANTS
    MaxDepth,       \* bound on the spans of a request open inside each other
    QueueSize       \* max_queue_size of the BatchSpanProcessor (2048)

ASSUME ServiceAssumption == MaxDepth \in Nat /\ QueueSize \in Nat \ {0}

VARIABLES
    route,      \* is the request a chat, or to a route without a token check
    stack,      \* the open spans of each request, outermost first
    exc,        \* the exception on its way up the stack
    hit,        \* history: was an error raised that the code does not expect there
    response,   \* how it was answered, with the end of its server span
    ending,     \* the span that is going through the processors
    exportable  \* the queue: what the exporter sends next

spanVars == <<route, stack, exc, hit, response, ending, exportable>>
vars == <<keyVars, spanVars>>

\* A span is its rag.query, the only attribute of REDACT_ATTRS that is set.
Queries == {"none", "raw", "redacted"}
Kinds == {"http", "agent", "tool", "rag", "policy"}
Raised == {"error", "expected", "interrupt", "cancelled"}
Codes == {200, 401, 404, 409, 422, 500}

\* Which spans the code opens directly inside which: routes open the span of a
\* tool or run the graph, so does the resume of a decision inside its own.
Inner == [http   |-> {"agent", "tool"}, agent  |-> {"tool", "rag", "policy"},
          tool   |-> {"agent"}, rag |-> {}, policy |-> {}]

NoSpan == [query |-> "none", left |-> <<>>]
NoResponse == [code |-> 0, span |-> "open", timed |-> FALSE]

ServiceInit ==
    /\ KeysInit
    /\ route = [r \in Requests |-> "none"]
    /\ stack = [r \in Requests |-> <<>>]
    /\ exc = [r \in Requests |-> "none"]
    /\ hit = [r \in Requests |-> FALSE]
    /\ response = [r \in Requests |-> NoResponse]
    /\ ending = NoSpan
    /\ exportable = <<>>

Top(r) == stack[r][Len(stack[r])]

\* The event loop is free, and turns to a request that is not over.
Turn(r) == ending.left = <<>> /\ stack[r] # <<>>

\* The body of the route runs: for a chat, once it is let in.
InBody(r) ==
    /\ Turn(r)
    /\ \/ route[r] = "open"
       \/ route[r] = "chat" /\ verdict[r] = "accepted"

-----------------------------------------------------------------------------

\* TracingMiddleware.dispatch, up to call_next.
Arrive(r, kind) ==
    /\ ending.left = <<>>
    /\ route[r] = "none"
    /\ route' = [route EXCEPT ![r] = kind]
    /\ stack' = [stack EXCEPT ![r] = <<"http">>]
    /\ hit' = [hit EXCEPT ![r] = FALSE]
    /\ response' = [response EXCEPT ![r] = NoResponse]
    /\ UNCHANGED <<keyVars, exc, ending, exportable>>

LetIn(r, t) ==
    /\ Turn(r)
    /\ route[r] = "chat"
    /\ Authenticate(r, t)
    /\ UNCHANGED spanVars

Fetch(r) ==
    /\ ending.left = <<>>
    /\ \/ TenantAnswers(r)
       \/ Store(r)
       \/ Closed(r)
       \/ Abandon(r)
    /\ UNCHANGED spanVars

\* The exception of the fetch leaves the middleware like one of the body.
FetchRaises(r) ==
    /\ ending.left = <<>>
    /\ FetchFails(r)
    /\ exc' = [exc EXCEPT ![r] = "error"]
    /\ hit' = [hit EXCEPT ![r] = TRUE]
    /\ UNCHANGED <<route, stack, response, ending, exportable>>

\* agent_span, tool_span, rag_span, policy_evaluation_span.  A graph that has
\* been interrupted runs no further node.
Open(r, kind) ==
    /\ InBody(r)
    /\ exc[r] = "none"
    /\ Len(stack[r]) < MaxDepth
    /\ kind \in Inner[Top(r)]
    /\ stack' = [stack EXCEPT ![r] = Append(@, kind)]
    /\ UNCHANGED <<keyVars, route, exc, hit, response, ending, exportable>>

\* Something raises inside the innermost span, or in the route: an error, one
\* the code around the call expects, the interrupt() of policy_node, the
\* cancellation of the request.  Retrieval is the one place without a handler.
Raise(r, e) ==
    /\ InBody(r)
    /\ exc[r] = "none" \/ (exc[r] = "paused" /\ e \in {"error", "cancelled"})
    /\ e = "interrupt" => Top(r) = "agent"
    /\ e = "expected" => Top(r) # "rag"
    /\ exc' = [exc EXCEPT ![r] = e]
    /\ hit' = [hit EXCEPT ![r] = e = "error"]
    /\ UNCHANGED <<keyVars, route, stack, response, ending, exportable>>

\* A KPI, an approval or a checkpoint that Cosmos does not have, an audit Loki
\* does not take, a rule or a field the code leaves out: each is handled inside
\* the span it was raised in, which ends like any other.
Handle(r) ==
    /\ InBody(r)
    /\ exc[r] = "expected"
    /\ exc' = [exc EXCEPT ![r] = "none"]
    /\ UNCHANGED <<keyVars, route, stack, hit, response, ending, exportable>>

\* What an exception becomes when it leaves a span: each raises it again, and
\* LangGraph catches the GraphInterrupt of a node.  Defect: a tool's span does
\* not raise it again.
After_Swallowed(kind, e) ==
    IF e = "interrupt" /\ kind = "agent" THEN "paused"
    ELSE IF kind = "tool" /\ e = "error" THEN "none" ELSE e

After(kind, e) == IF e = "interrupt" /\ kind = "agent" THEN "paused" ELSE e

\* Defect: the processors in the other order.
Processors_Swapped == <<"batch", "redact">>

\* The processors of the TracerProvider, in the order they were added.
Processors == <<"redact", "batch">>

Ended(kind) == [query |-> IF kind = "rag" THEN "raw" ELSE "none", left |-> Processors]

\* The end of a span of the body, by return or by exception.
Close(r) ==
    /\ Turn(r)
    /\ exc[r] # "expected"
    /\ Len(stack[r]) > 1
    /\ stack' = [stack EXCEPT ![r] = SubSeq(@, 1, Len(@) - 1)]
    /\ exc' = [exc EXCEPT ![r] = After(Top(r), @)]
    /\ ending' = Ended(Top(r))
    /\ UNCHANGED <<keyVars, route, hit, response, exportable>>

\* The end of the server span, and of the request and its locals.
Answer(r, code, span, timed) ==
    /\ Turn(r)
    /\ stack[r] = <<"http">>
    /\ response' = [response EXCEPT ![r] = [code |-> code, span |-> span, timed |-> timed]]
    /\ stack' = [stack EXCEPT ![r] = <<>>]
    /\ route' = [route EXCEPT ![r] = "none"]
    /\ exc' = [exc EXCEPT ![r] = "none"]
    /\ ending' = Ended("http")
    /\ IF stage[r] = "done" THEN Leave(r) ELSE UNCHANGED keyVars
    /\ UNCHANGED <<hit, exportable>>

\* An HTTPException of the route, raised outside every span: there is no such
\* approval or KPI, or the approval is decided already.
Refusals(r) == IF route[r] = "open" THEN {404, 409} ELSE {}

\* call_next returns a response, which is timed and logged: of the route, or
\* what FastAPI makes of an HTTPException of the route or of the token check, and
\* of a body it cannot parse, before that check, or does not take, after it.
Respond(r) ==
    \/ /\ InBody(r) /\ exc[r] \in {"none", "paused"}
       /\ Answer(r, 200, "unset", TRUE)
    \/ /\ InBody(r) /\ exc[r] = "none"
       /\ \E code \in Refusals(r) : Answer(r, code, "unset", TRUE)
    \/ /\ stage[r] = "none" \/ InBody(r)
       /\ exc[r] = "none"
       /\ Answer(r, 422, "unset", TRUE)
    \/ /\ verdict[r] \in {"missing", "unknown", "invalid"}
       /\ Answer(r, 401, "unset", TRUE)

\* call_next raises: the span records it, nothing is timed, and Starlette
\* answers 500 outside the middleware.
Unhandled(r) == exc[r] = "error" /\ Answer(r, 500, "error", FALSE)

\* A cancelled request is not answered; whether its span counts as an error
\* depends on the version of OpenTelemetry.
Drop(r) ==
    /\ exc[r] = "cancelled" \/ verdict[r] = "cancelled"
    /\ \E span \in {"unset", "error"} : Answer(r, 0, span, FALSE)

-----------------------------------------------------------------------------

\* Defect: the queue has no limit.
Queued_Unbounded(query) == exportable' = Append(exportable, query)

\* Defect: a span waits for room in the queue.
Queued_Waits(query) ==
    /\ Len(exportable) < QueueSize
    /\ exportable' = Append(exportable, query)

\* External: a full queue drops its oldest span.
Queued(query) ==
    exportable' = IF Len(exportable) < QueueSize THEN Append(exportable, query)
                  ELSE Append(Tail(exportable), query)

\* on_end of the next processor.
Process ==
    /\ ending.left # <<>>
    /\ \/ /\ Head(ending.left) = "redact"
          /\ ending' = [query |-> IF ending.query = "raw" THEN "redacted" ELSE ending.query,
                        left  |-> Tail(ending.left)]
          /\ UNCHANGED exportable
       \/ /\ Head(ending.left) = "batch"
          /\ Queued(ending.query)
          /\ ending' = [ending EXCEPT !.left = Tail(@)]
    /\ UNCHANGED <<keyVars, route, stack, exc, hit, response>>

\* External: the thread of the BatchSpanProcessor takes what is queued, and
\* drops it when the collector does not take it.
Export ==
    /\ exportable # <<>>
    /\ exportable' = <<>>
    /\ UNCHANGED <<keyVars, route, stack, exc, hit, response, ending>>

TenantRotates == Rotate /\ UNCHANGED spanVars

\* A new process.  What was queued for export is lost with the old one.
Restart ==
    /\ KeysRestart
    /\ route' = [r \in Requests |-> "none"]
    /\ stack' = [r \in Requests |-> <<>>]
    /\ exc' = [r \in Requests |-> "none"]
    /\ hit' = [r \in Requests |-> FALSE]
    /\ response' = [r \in Requests |-> NoResponse]
    /\ ending' = NoSpan
    /\ exportable' = <<>>

Serve(r) ==
    \/ \E t \in Tokens : LetIn(r, t)
    \/ Fetch(r) \/ FetchRaises(r)
    \/ \E kind \in Kinds : Open(r, kind)
    \/ \E e \in Raised : Raise(r, e)
    \/ Handle(r) \/ Close(r) \/ Respond(r) \/ Unhandled(r) \/ Drop(r)

Next ==
    \/ \E r \in Requests :
          \/ \E kind \in {"chat", "open"} : Arrive(r, kind)
          \/ Serve(r)
    \/ Process \/ Export \/ TenantRotates \/ Restart

Spec == ServiceInit /\ [][Next]_vars

-----------------------------------------------------------------------------

TypeOK ==
    /\ KeysTypeOK
    /\ route \in [Requests -> {"none", "chat", "open"}]
    /\ stack \in [Requests -> Seq(Kinds)]
    /\ exc \in [Requests -> {"none", "paused"} \cup Raised]
    /\ hit \in [Requests -> BOOLEAN]
    /\ response \in [Requests -> [code : {0} \cup Codes,
                                  span : {"open", "unset", "error"}, timed : BOOLEAN]]
    /\ ending \in [query : Queries, left : Seq({"redact", "batch"})]
    /\ exportable \in Seq(Queries) /\ Len(exportable) <= QueueSize

\* PIIRedactionProcessor: raw values never reach the exporter.  The thread may
\* export at any moment, also between two processors.
NothingRaw == \A i \in 1..Len(exportable) : exportable[i] # "raw"

\* However deep inside a request an error is raised that no code around it
\* expects, and whatever spans it passes, it is told: the request is answered 500
\* and its server span is an error.  Nothing else is told so: not an error that
\* was handled where it was raised, a refusal of the route, of its body or of the
\* token, nor a pause for a human.
FailureTold ==
    \A r \in Requests : response[r].code # 0 =>
        /\ hit[r] <=> response[r].code = 500
        /\ hit[r] <=> response[r].span = "error"

\* docs/runbooks/otel-collector-down.md: the application continues to serve
\* requests when the collector is down.  Whatever the exporting thread does or
\* does not, no request waits for it: each has a next step, or the end of a span
\* in front of it has.
NeverWaits ==
    \A r \in Requests : stack[r] # <<>> => ENABLED Serve(r) \/ ENABLED Process

=============================================================================
