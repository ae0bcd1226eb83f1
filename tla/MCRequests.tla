----------------------------- MODULE MCRequests -----------------------------
(***************************************************************************)
(* Small instances of Routes, Errors, HttpCalls and Tracing for TLC, and   *)
(* what the API documentation says of the routes.  Each behaviour is of    *)
(* one part; the others rest in their initial state.                       *)
(*                                                                         *)
(* Routes: every method on every path of one or two segments that a route  *)
(* names, and the documented paths of three, with and without a token.     *)
(* Errors: the statuses of the Api exceptions and two more with default    *)
(* messages.                                                               *)
(***************************************************************************)
EXTENDS Routes

CONSTANTS Texts, MaxHops, None, Retries, Delay, Timeout, Traced

VARIABLES part,
          errorAt, error, errorAnswer, hop, raised,
          callAt, attempt, wait, left, callAnswer, job, heard, effects,
          req, binding, log, others

ApiStatuses == {400, 401, 403, 404, 408, 409, 422, 500, 503}
DefaultStatuses == {403, 405, 406, 408, 413, 414, 422, 428, 429, 500, 501, 502, 503, 504, 507, 508}
Raised == INSTANCE Errors
    WITH at <- errorAt, answer <- errorAnswer, Statuses <- ApiStatuses, Defaults <- DefaultStatuses
Http == INSTANCE HttpCalls WITH at <- callAt, answer <- callAnswer
Traces == INSTANCE Tracing WITH Requests <- Traced

ASSUME RequestsAssumption ==
    Raised!ErrorsAssumption /\ Http!HttpCallsAssumption /\ Traces!TracingAssumption

errorVars == <<errorAt, error, errorAnswer, hop, raised>>
callVars == <<callAt, attempt, wait, left, callAnswer, job, heard, effects>>
traceVars == <<req, binding, log, others>>

RequestsInit ==
    /\ part \in {"routes", "errors", "calls", "traces"}
    /\ Init /\ Raised!Init /\ Http!Init /\ Traces!Init

RequestsNext ==
    /\ UNCHANGED part
    /\ \/ part = "routes" /\ Next /\ UNCHANGED <<errorVars, callVars, traceVars>>
       \/ part = "errors" /\ Raised!Next /\ UNCHANGED <<vars, callVars, traceVars>>
       \/ part = "calls" /\ Http!Next /\ UNCHANGED <<vars, errorVars, traceVars>>
       \/ part = "traces" /\ Traces!Next /\ UNCHANGED <<vars, errorVars, callVars>>

\* A part at rest has no action that is fair
RequestsSpec ==
    /\ RequestsInit /\ [][RequestsNext]_<<part, vars, errorVars, callVars, traceVars>>
    /\ Http!Fairness

-----------------------------------------------------------------------------
Roots == {"health", "users", "roles", "permissions", "cats", "login", "refresh", "logout",
          "reset-password", "find-by"}
Leaves == {"7", "me", "search", "send-email", "find-by", "change-password", "change-password7",
           "add-permissions7", "remove-permissions7"}
MCSegments == Roots \cup Leaves \cup {"add-permissions", "remove-permissions"}
MCGlued ==
    [p \in {"change-password", "add-permissions", "remove-permissions"} |->
        CASE p = "change-password" -> {"change-password7", "change-password8"}
          [] p = "add-permissions" -> {"add-permissions7", "add-permissions8"}
          [] p = "remove-permissions" -> {"remove-permissions7", "remove-permissions8"}]

Documented ==
    {[url |-> <<"users", "change-password", "7">>, handler |-> "changePassword"],
     [url |-> <<"roles", "add-permissions", "7">>, handler |-> "addPermissions"],
     [url |-> <<"roles", "remove-permissions", "7">>, handler |-> "removePermissions"]}
Urls == {<<a>> : a \in Roots} \cup {<<a, b>> : a \in Roots, b \in Leaves} \cup {d.url : d \in Documented}
MCRequestsOfClients ==
    [app : Applications, method : {"GET", "POST", "PUT", "DELETE"},
     prefix : {"", "api/v1"}, url : Urls, token : BOOLEAN]

-----------------------------------------------------------------------------
(***************************************************************************)
(* An error is answered by every application it crosses, with the status   *)
(* it was raised with and the message Swagger shows for it.                *)
(***************************************************************************)
ErrorsSurvive ==
    Raised!TypeOK /\ Raised!StatusSurvives /\ Raised!FilterAnswers /\ Raised!DocumentedMessages

(***************************************************************************)
(* A call that takes effect twice, or after the client was answered, was   *)
(* given up by its caller before; and once the application called timed    *)
(* out, so has the client.                                                 *)
(***************************************************************************)
RepeatedAndLateEffectsAreGivenUp ==
    /\ Http!TypeOK
    /\ Http!EffectsRepeatUnheard /\ Http!LateEffectsAreGivenUp /\ Http!TimeoutsComeTooLate

(***************************************************************************)
(* The client is answered, whatever is lost, and a handler ends unless its *)
(* call is lost.                                                           *)
(***************************************************************************)
CallsEnd == Http!RequestsAreAnswered /\ Http!HandlersEnd

(***************************************************************************)
(* An error is answered with the traceid of its own request, and so are    *)
(* the lines of a handler that no other request came in between.           *)
(***************************************************************************)
TracesAreTheirOwn ==
    [](Traces!TypeOK /\ Traces!ErrorsCarryTheirTrace) /\ Traces!LinesCarryTheirTrace

(***************************************************************************)
(* Login and refresh look their user up without a token and get through,   *)
(* and a route without parameters gets every request for its path.         *)
(***************************************************************************)
LookupsGetThrough == [](TypeOK /\ StaticRoutesFirst) /\ LoginsGetThrough

(***************************************************************************)
(* A request with a token for the documented route of a handler reaches    *)
(* it (users/swagger.ts, roles/swagger.ts).                                *)
(***************************************************************************)
DocumentedRoutesServe ==
    [][\A d \in Documented :
          /\ Len(stack) = 1 /\ stack' = <<>> /\ Top.request.token
          /\ Top.request.app = "user" /\ Top.request.prefix = "api/v1" /\ Top.request.method = "PUT"
          /\ Top.request.url = d.url
          => Top.handler = d.handler]_vars
=============================================================================
