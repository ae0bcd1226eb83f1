------------------------------- MODULE Errors -------------------------------
(***************************************************************************)
(* The way of an error: it is raised in an application, goes through the   *)
(* interceptor and the filter, becomes an answer, reaches the application  *)
(* that called as an error of axios, and goes the same way there, until    *)
(* the first caller has an answer.                                         *)
(***************************************************************************)
EXTENDS Naturals

CONSTANTS
    Statuses,       \* the statuses the Api exceptions have
    Defaults,       \* the statuses with a default message (utils/http-status.ts)
    Texts,          \* messages of exceptions
    MaxHops,        \* bound on calls from application to application
    None

VARIABLES
    at,             \* how far the error has come
    error,
    answer,         \* the answer of the application
    hop,            \* the calls it has come back through
    raised          \* history: the error as it was raised

vars == <<at, error, answer, hop, raised>>

Codes == {"ECONNABORTED", "ECONNRESET", "ECONNREFUSED"}

\* A message is a text, in a list, in a list of lists ...
Message == [text : Texts \cup {"default", "issue"}, depth : 0 .. MaxHops + 1]
Text(t) == [text |-> t, depth |-> 0]
List(m) == [m EXCEPT !.depth = @ + 1]
Answer == [status : Statuses, message : Message]

ErrorsAssumption ==
    /\ {400, 401, 404, 408, 500} \subseteq Statuses /\ {408, 500} \subseteq Defaults
    /\ 0 \notin Statuses /\ MaxHops \in Nat
    /\ None \notin Statuses /\ None \notin Codes /\ None \notin Answer

\* What is thrown: an Api exception, an error of Zod or of axios, or any other.
\* The response of an error of axios is the answer of the application called
Error ==
    [kind : {"api", "zod", "axios", "other"}, status : Statuses \cup {None},
     code : Codes \cup {None}, response : Answer \cup {None}, message : Message]

TypeOK ==
    /\ at \in {"idle", "thrown", "intercepted", "answered"}
    /\ error \in Error \cup {None}
    /\ answer \in Answer \cup {None}
    /\ hop \in 0 .. MaxHops
    /\ raised \in Error \cup {None}

Init == at = "idle" /\ error = None /\ answer = None /\ hop = 0 /\ raised = None

-----------------------------------------------------------------------------
\* The first of some values that is there: [a, b, ...].find(Boolean)
First(a, b) == IF a # None THEN a ELSE b

\* Mutant: whatever the application called answered is a 500
AxiosErrorAnonymous(code, response) ==
    [kind |-> "axios", code |-> code, response |-> response, status |-> 500,
     message |-> IF response # None THEN response.message ELSE Text("default")]

\* interceptAxiosResponseError: the code and the message in the body of the answer
AxiosError(code, response) ==
    [kind |-> "axios", code |-> code, response |-> response,
     status |-> IF response # None THEN response.status ELSE 500,
     message |-> IF response # None THEN response.message ELSE Text("default")]

GetStatusCode(e) ==
    IF e.kind = "zod" THEN 400
    ELSE IF e.code \in {"ECONNABORTED", "ECONNRESET"} THEN 408 ELSE First(e.status, 500)

\* ExceptionHandlerFilter.getMessage
GetMessage(e, status) ==
    CASE status \in Defaults -> List(Text("default"))
      [] status \notin Defaults /\ e.kind = "zod" -> List(Text("issue"))
      [] OTHER -> List(e.message)

\* getResponse is a method of HttpException; sanitizeExternalError gives it to
\* errors of axios that have a response, and nobody to any other
HasGetResponse(e) == e.kind = "api" \/ (e.kind = "axios" /\ e.response # None)
GetMessageThrows(e, status) ==
    status \notin Defaults /\ e.kind # "zod" /\ ~HasGetResponse(e)

\* ExceptionHandlerFilter.getStatus
GetStatus(e) == IF e.kind = "zod" THEN 400 ELSE First(e.status, 500)

Throw(e) == at' = "thrown" /\ error' = e

-----------------------------------------------------------------------------
\* A use case throws, a schema does not parse, a call breaks, or a bug shows
Raise ==
    /\ at = "idle"
    /\ \/ \E s \in Statuses, t \in Texts :
              Throw([kind |-> "api", status |-> s, code |-> None, response |-> None, message |-> Text(t)])
       \/ Throw([kind |-> "zod", status |-> None, code |-> None, response |-> None, message |-> Text("issue")])
       \/ \E c \in Codes : Throw(AxiosError(c, None))
       \/ \E t \in Texts :
              Throw([kind |-> "other", status |-> None, code |-> None, response |-> None, message |-> Text(t)])
    /\ raised' = error'
    /\ UNCHANGED <<answer, hop>>

\* ExceptionHandlerInterceptor
Intercept ==
    /\ at = "thrown" /\ at' = "intercepted"
    /\ error' = [error EXCEPT !.status = GetStatusCode(error)]
    /\ UNCHANGED <<answer, hop, raised>>

\* ExceptionHandlerFilter; what the middleware throws comes past the interceptor
Catch ==
    /\ at = "intercepted" \/ (at = "thrown" /\ error.kind = "api")
    /\ ~GetMessageThrows(error, GetStatus(error))
    /\ at' = "answered"
    /\ answer' = [status |-> GetStatus(error), message |-> GetMessage(error, GetStatus(error))]
    /\ error' = None
    /\ UNCHANGED <<hop, raised>>

\* The application that called has an error of axios
Receive ==
    /\ at = "answered" /\ hop < MaxHops /\ hop' = hop + 1
    /\ Throw(AxiosError(None, answer))
    /\ answer' = None
    /\ UNCHANGED raised

\* ... or the client has the answer
Finish == at = "answered" /\ at' = "idle" /\ answer' = None /\ error' = None /\ hop' = 0 /\ raised' = None
-----------------------------------------------------------------------------
Next == Raise \/ Intercept \/ Catch \/ Receive \/ Finish

Spec == Init /\ [][Next]_vars

-----------------------------------------------------------------------------
(***************************************************************************)
(* Through however many applications an error comes, its status stays what *)
(* it was where it was raised: 400 of Zod, 408 of a connection that broke, *)
(* 500 of a bug, and that of an Api exception.                             *)
(***************************************************************************)
StatusOf(e) ==
    CASE e.kind = "zod" -> 400
      [] e.kind = "axios" -> IF e.code = "ECONNREFUSED" THEN 500 ELSE 408
      [] e.kind = "other" -> 500
      [] e.kind = "api" -> e.status
StatusSurvives == at = "answered" => answer.status = StatusOf(raised)

(***************************************************************************)
(* The filter itself never throws: an error without getResponse has a      *)
(* status that has a default message by the time it is asked for one.      *)
(***************************************************************************)
FilterAnswers == at = "intercepted" => ~GetMessageThrows(error, GetStatus(error))

(***************************************************************************)
(* The message of an answer is the one Swagger shows for the exception.    *)
(***************************************************************************)
SwaggerMessage(e) == IF e.status \in Defaults THEN "default" ELSE e.message.text
DocumentedMessages ==
    at = "answered" /\ raised.kind = "api" => answer.message.text = SwaggerMessage(raised)

-----------------------------------------------------------------------------
(***************************************************************************)
(* The inductive invariant behind the three (RequestsProofs): what is      *)
(* thrown amounts to the status that was raised, and has a message to show *)
(* for it; a list gets one level deeper with each answer.                  *)
(***************************************************************************)
Amounts(e, status) ==
    /\ e \in Error /\ e.message.depth <= hop
    /\ status = StatusOf(raised) /\ ~GetMessageThrows(e, status)
    /\ raised.kind = "api" /\ status \notin Defaults =>
          e.kind # "zod" /\ e.message.text = raised.message.text

ThrownAmounts ==
    at = "thrown" =>
        /\ Amounts(error, GetStatusCode(error))
        /\ error.kind = "api" => error.status # None /\ error.code = None

InterceptedAmounts == at = "intercepted" => Amounts(error, GetStatus(error))

AnswersAmount ==
    at = "answered" =>
        /\ answer \in Answer /\ answer.message.depth <= hop + 1
        /\ StatusSurvives /\ DocumentedMessages

ErrorsInv ==
    /\ TypeOK
    /\ at # "idle" => raised \in Error /\ StatusOf(raised) \in Statuses
    /\ at # "idle" /\ raised.kind = "api" => StatusOf(raised) = raised.status
    /\ ThrownAmounts /\ InterceptedAmounts /\ AnswersAmount
=============================================================================
