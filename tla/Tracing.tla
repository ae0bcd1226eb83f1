------------------------------ MODULE Tracing ------------------------------
(***************************************************************************)
(* The traceid of a request through the middleware, the interceptors and   *)
(* the filter of one application, and into its logs.  The logger has one   *)
(* set of bindings, which all requests write.                              *)
(***************************************************************************)
EXTENDS Naturals

CONSTANTS Requests, None

TracingAssumption == None \notin Requests

VARIABLES
    req,        \* the requests
    binding,    \* the traceid of the bindings: that of a request, a number, or none
    log,        \* the last line of the log
    others      \* history: the running requests since whose interceptor others wrote the bindings

vars == <<req, binding, log, others>>

Kinds == {"guarded", "open", "unknown"}
Traces == Requests \cup {None, "number"}

\* header: headers.traceid is there, the client's or a new one;
\* id: request.id, of the request's own traceid or a number of pino-http
Idle == [at |-> "idle", kind |-> "open", brought |-> FALSE, header |-> FALSE,
         id |-> "none", error |-> "none", trace |-> None, sent |-> FALSE]

Request == [at : {"idle", "arrived", "cache", "routed", "running", "late", "answered"},
            kind : Kinds, brought : BOOLEAN, header : BOOLEAN, id : {"none", "own", "number"},
            error : {"none", "thrown", "timeout"}, trace : Traces, sent : BOOLEAN]

TypeOK ==
    /\ req \in [Requests -> Request]
    /\ binding \in Traces
    /\ log \in {None} \cup [request : Requests, level : {"info", "error"}, trace : Traces]
    /\ others \subseteq Requests

Init == req = [r \in Requests |-> Idle] /\ binding = None /\ log = None /\ others = {}

-----------------------------------------------------------------------------
IdOf(r, q) == CASE q.id = "own" -> r [] q.id = "number" -> "number" [] OTHER -> None

\* The requests of which r is another
Others(r) == {o \in Requests \ {r} : req[o].at \in {"running", "late"}}

\* setBindings leaves out what is undefined, and keeps what was there
Bind(r, trace) ==
    /\ binding' = IF trace # None THEN trace ELSE binding
    /\ others' = IF trace # None THEN others \cup Others(r) ELSE others

\* pino-http: a request without id has a number; its customProps bind the header
WithId(q) == [q EXCEPT !.id = IF @ = "none" THEN "number" ELSE @]
CustomProps(r, q) == IF q.header THEN r ELSE IdOf(r, q)

Log(r, level, trace) == log' = [request |-> r, level |-> level, trace |-> trace]

\* Mutant: the trace of the bindings before that of the request
CatchBound(r, q, trace, how) ==
    LET t == IF binding # None THEN binding ELSE IF trace # None THEN trace ELSE IdOf(r, q) IN
    /\ req' = [req EXCEPT ![r] = [q EXCEPT !.error = how, !.trace = t]]
    /\ Log(r, "error", IF t # None THEN t ELSE binding)

\* ExceptionHandlerFilter and LoggerService.getTraceId: error.traceid, else the
\* request's id; the log falls back on the bindings
Catch(r, q, trace, how) ==
    LET t == IF trace # None THEN trace ELSE IdOf(r, q) IN
    /\ req' = [req EXCEPT ![r] = [q EXCEPT !.error = how, !.trace = t]]
    /\ Log(r, "error", IF t # None THEN t ELSE binding)

-----------------------------------------------------------------------------
Arrive(r) ==
    /\ req[r].at = "idle"
    /\ \E kind \in Kinds, b \in BOOLEAN :
          req' = [req EXCEPT ![r] = [Idle EXCEPT !.at = IF kind = "guarded" THEN "arrived" ELSE "routed",
                                                 !.kind = kind, !.brought = b, !.header = b]]
    /\ UNCHANGED <<binding, log, others>>

\* AuthenticationMiddleware without a token: a traceid, the request logged, 401
Unauthorised(r) ==
    LET q == [req[r] EXCEPT !.at = "answered", !.header = TRUE, !.id = "own"] IN
    /\ req[r].at = "arrived"
    /\ Bind(r, CustomProps(r, q)) /\ Catch(r, q, None, "thrown")

\* ... and with one: Redis is asked
Ask(r) ==
    /\ req[r].at = "arrived"
    /\ req' = [req EXCEPT ![r].at = "cache", ![r].header = TRUE]
    /\ UNCHANGED <<binding, log, others>>

\* The reply of Redis: the token is good, or it was logged out ...
Admit(r) ==
    /\ req[r].at = "cache"
    /\ \/ req' = [req EXCEPT ![r].at = "routed", ![r].id = "own"] /\ UNCHANGED <<binding, log, others>>
       \/ Catch(r, [req[r] EXCEPT !.at = "answered", !.id = "own"], None, "thrown") /\ UNCHANGED <<binding, others>>

\* ... or verify refuses it, and the request is logged before the 401
Invalid(r) ==
    LET q == [req[r] EXCEPT !.at = "answered", !.header = TRUE, !.id = "own"] IN
    /\ req[r].at = "cache"
    /\ Bind(r, CustomProps(r, q)) /\ Catch(r, q, None, "thrown")

\* No route: no interceptor runs
NotFound(r) ==
    /\ req[r].at = "routed" /\ req[r].kind = "unknown"
    /\ Catch(r, [req[r] EXCEPT !.at = "answered"], None, "thrown")
    /\ UNCHANGED <<binding, others>>

\* HttpLoggerInterceptor: a traceid and an id for who brought none; the id is bound
Intercept(r) ==
    LET q == [req[r] EXCEPT !.at = "running", !.header = TRUE, !.id = IF req[r].header THEN @ ELSE "own"] IN
    /\ req[r].at = "routed" /\ req[r].kind # "unknown"
    /\ req' = [req EXCEPT ![r] = q]
    /\ binding' = IF q.id = "none" THEN binding ELSE IdOf(r, q)
    /\ others' = (IF q.id = "none" THEN others ELSE others \cup Others(r)) \ {r}
    /\ UNCHANGED log

\* LoggerService.info, warn
Info(r) ==
    /\ req[r].at \in {"running", "late"} /\ Log(r, "info", binding)
    /\ UNCHANGED <<req, binding, others>>

End(r) ==
    /\ req[r].at \in {"running", "late"} /\ req' = [req EXCEPT ![r].at = "answered"]
    /\ UNCHANGED <<binding, log, others>>

\* The handler throws: the ExceptionHandlerInterceptor gives the error the
\* traceid of the headers, the RequestTimeoutInterceptor logs the request
Fail(r) ==
    LET q == WithId([req[r] EXCEPT !.at = "answered"]) IN
    /\ req[r].at = "running"
    /\ Bind(r, CustomProps(r, q)) /\ Catch(r, q, r, "thrown")

\* The RequestTimeoutInterceptor is the outer one: its error has no traceid,
\* and the handler goes on
TimeOut(r) ==
    LET q == WithId([req[r] EXCEPT !.at = "late"]) IN
    /\ req[r].at = "running"
    /\ Bind(r, CustomProps(r, q)) /\ Catch(r, q, None, "timeout")

\* The response has gone: pino-http, which logged a request that failed, asks
\* for the custom props again
Sent(r) ==
    /\ req[r].error # "none" /\ req[r].kind # "unknown" /\ ~req[r].sent
    /\ req' = [req EXCEPT ![r].sent = TRUE] /\ Bind(r, CustomProps(r, req[r]))
    /\ UNCHANGED log

Leave(r) ==
    /\ req[r].at = "answered"
    /\ req[r].error = "none" \/ req[r].kind = "unknown" \/ req[r].sent
    /\ req' = [req EXCEPT ![r] = Idle]
    /\ UNCHANGED <<binding, log, others>>
-----------------------------------------------------------------------------
Step(r) ==
    \/ Arrive(r) \/ Unauthorised(r) \/ Ask(r) \/ Admit(r) \/ Invalid(r) \/ NotFound(r)
    \/ Intercept(r) \/ Info(r) \/ End(r) \/ Fail(r) \/ TimeOut(r) \/ Sent(r) \/ Leave(r)

Next == \E r \in Requests : Step(r)

Spec == Init /\ [][Next]_vars

-----------------------------------------------------------------------------
CarriesItsTrace(r, q) ==
    q.error # "none" =>
        q.trace = CASE q.kind = "unknown" -> None
                    [] q.kind = "open" /\ q.brought /\ q.error = "timeout" -> "number"
                    [] OTHER -> r

(***************************************************************************)
(* Whatever other requests write into the bindings meanwhile, an error is  *)
(* answered with the traceid of its own request.  The exceptions: there is *)
(* no such route (no traceid), and the timeout of a request without token  *)
(* that brought its traceid (a number of pino-http).                       *)
(***************************************************************************)
ErrorsCarryTheirTrace == \A r \in Requests : CarriesItsTrace(r, req[r])

(***************************************************************************)
(* A line of a handler carries the traceid of its request, unless another  *)
(* request wrote the bindings since it began, or it brought its traceid to *)
(* a route without token.                                                  *)
(***************************************************************************)
LinesCarryTheirTrace ==
    [][\A r \in Requests :
          Info(r) /\ r \notin others /\ ~(req[r].kind = "open" /\ req[r].brought)
            => log'.trace = r]_vars

-----------------------------------------------------------------------------
(***************************************************************************)
(* The inductive invariant behind both (RequestsProofs): what a request    *)
(* has of a traceid at each of its steps, and who wrote the bindings last. *)
(***************************************************************************)
Untraced(q) == q.kind = "open" /\ q.brought     \* its id is a number of pino-http

RequestInv(q) ==
    /\ q.at = "arrived" => q.kind = "guarded" /\ q.id = "none" /\ q.error = "none"
    /\ q.at = "cache" => q.kind = "guarded" /\ q.header /\ q.id = "none" /\ q.error = "none"
    /\ q.at = "routed" =>
          /\ q.error = "none"
          /\ IF q.kind = "guarded" THEN q.header /\ q.id = "own" ELSE q.header = q.brought /\ q.id = "none"
    /\ q.at = "running" => q.error = "none" /\ q.id = IF Untraced(q) THEN "none" ELSE "own"
    /\ q.at = "late" => q.error = "timeout" /\ q.id = IF Untraced(q) THEN "number" ELSE "own"
    /\ q.at \in {"running", "late"} => q.kind # "unknown"
    /\ q.at \in {"running", "late"} \/ (q.error # "none" /\ q.kind # "unknown") => q.header
    /\ q.at = "idle" => q.error = "none"

BindingsAreNoted ==
    \A r \in Requests \ others :
        req[r].at \in {"running", "late"} /\ ~Untraced(req[r]) => binding = r

TracingInv ==
    /\ TypeOK
    /\ \A r \in Requests : RequestInv(req[r])
    /\ BindingsAreNoted /\ ErrorsCarryTheirTrace
=============================================================================
