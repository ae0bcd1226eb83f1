----------------------------- MODULE HttpCalls -----------------------------
(***************************************************************************)
(* One request of a client whose handler calls another application: the    *)
(* retries of axios-retry, the timeouts of both applications, connections  *)
(* that break while the handler called goes on.  Time is counted in ticks. *)
(***************************************************************************)
EXTENDS Naturals, FiniteSets

CONSTANTS
    Retries,    \* of axios-retry
    Delay,      \* 2 s
    Timeout     \* ONE_MINUTE

HttpCallsAssumption ==
    /\ Retries \in Nat \ {0} /\ Delay \in Nat \ {0}
    /\ Timeout \in Nat \ {0} /\ 2 * Timeout > Delay * Retries * (Retries + 1)

Attempts == 0 .. Retries
Outcomes == {"ok", "failed", "unavailable", "timeout", "reset", "unreachable"}

VARIABLES
    at,         \* the handler: idle, calling, waiting for an answer or a retry, lost, over
    attempt, wait,
    left,       \* ticks until the client is answered 408
    answer,     \* the client's
    job,        \* job[k]: the handler of the application called, started by attempt k
    heard,      \* heard[k]: how attempt k ended for the caller
    effects     \* history: the jobs that took effect, and the answer of the client then

vars == <<at, attempt, wait, left, answer, job, heard, effects>>

TypeOK ==
    /\ at \in {"idle", "calling", "waiting", "pausing", "lost", "over"}
    /\ attempt \in Attempts /\ wait \in 0 .. Delay * Retries /\ left \in 0 .. Timeout
    /\ answer \in {"none", "ok", "error", "timeout"}
    /\ job \in [Attempts -> [at : {"none", "running", "ended"}, left : 0 .. Timeout, open : BOOLEAN]]
    /\ heard \in [Attempts -> Outcomes \cup {"none"}]
    /\ effects \subseteq Attempts \X {"none", "ok", "error", "timeout"}

NoJob == [at |-> "none", left |-> 0, open |-> FALSE]

Init ==
    /\ at = "idle" /\ attempt = 0 /\ wait = 0 /\ left = Timeout /\ answer = "none"
    /\ job = [k \in Attempts |-> NoJob] /\ heard = [k \in Attempts |-> "none"] /\ effects = {}

-----------------------------------------------------------------------------
\* Mutant: a 500 is tried again, too
RetryableFailed(outcome) == outcome \in {"unavailable", "timeout", "reset", "failed"}

\* retryCondition: 503, 422, 408, ECONNABORTED and ECONNRESET
Retryable(outcome) == outcome \in {"unavailable", "timeout", "reset"}

\* The client has one answer; the timeout may have been first
Respond(a) == answer' = IF answer = "none" THEN a ELSE answer

\* What the caller hears: try again after a pause, or go on
Hear(outcome) ==
    /\ heard' = [heard EXCEPT ![attempt] = outcome]
    /\ IF Retryable(outcome) /\ attempt < Retries
       THEN at' = "pausing" /\ wait' = Delay * (attempt + 1) /\ UNCHANGED answer
       ELSE at' = "over" /\ Respond(IF outcome = "ok" THEN "ok" ELSE "error") /\ UNCHANGED wait
    /\ UNCHANGED <<attempt, left>>

Request ==
    /\ at = "idle" /\ at' = "calling"
    /\ UNCHANGED <<attempt, wait, left, answer, job, heard, effects>>

JobLimit == Timeout

\* The request arrives, or nobody listens, or the connection breaks before,
\* or it is lost and nobody is told: axios has no timeout of its own
Call ==
    /\ at = "calling"
    /\ \/ /\ at' = "waiting"
          /\ job' = [job EXCEPT ![attempt] = [at |-> "running", left |-> JobLimit, open |-> TRUE]]
          /\ UNCHANGED <<attempt, wait, left, answer, heard>>
       \/ Hear("unreachable") /\ UNCHANGED job
       \/ Hear("reset") /\ UNCHANGED job
       \/ at' = "lost" /\ UNCHANGED <<attempt, wait, left, answer, job, heard>>
    /\ UNCHANGED effects

Effect(k) == effects' = effects \cup {<<k, answer>>}

\* The connection of attempt k ends, and the caller hears how
Reply(k, outcome) == IF job[k].open THEN Hear(outcome) ELSE UNCHANGED <<at, attempt, wait, left, answer, heard>>

\* A handler ends: all done, or failed with or without effect, or refused with 503
Work(k) ==
    /\ job[k].at = "running"
    /\ job' = [job EXCEPT ![k] = [@ EXCEPT !.at = "ended", !.open = FALSE]]
    /\ \/ Effect(k) /\ \E o \in {"ok", "failed"} : Reply(k, o)
       \/ UNCHANGED effects /\ \E o \in {"failed", "unavailable"} : Reply(k, o)

\* ECONNRESET: the handler called does not notice
Break(k) ==
    /\ job[k].at = "running" /\ job[k].open
    /\ job' = [job EXCEPT ![k].open = FALSE] /\ Reply(k, "reset")
    /\ UNCHANGED effects

\* The RequestTimeoutInterceptor of the application called answers, its handler goes on
JobTimeout(k) ==
    /\ job[k].at = "running" /\ job[k].open /\ job[k].left = 0
    /\ job' = [job EXCEPT ![k].open = FALSE] /\ Reply(k, "timeout")
    /\ UNCHANGED effects

\* Mutant: the attempts are not counted
ResumeUncounted ==
    /\ at = "pausing" /\ wait = 0 /\ at' = "calling"
    /\ UNCHANGED <<attempt, wait, left, answer, job, heard, effects>>

Resume ==
    /\ at = "pausing" /\ wait = 0 /\ at' = "calling" /\ attempt' = attempt + 1
    /\ UNCHANGED <<wait, left, answer, job, heard, effects>>

\* The RequestTimeoutInterceptor of the caller, whose handler goes on
TimeOut ==
    /\ at # "idle" /\ left = 0 /\ answer = "none" /\ answer' = "timeout"
    /\ UNCHANGED <<at, attempt, wait, left, job, heard, effects>>

\* Timers that are due go off before the next tick
Due == (at = "pausing" /\ wait = 0) \/ (left = 0 /\ answer = "none")
          \/ \E k \in Attempts : job[k].open /\ job[k].left = 0

Less(n) == IF n = 0 THEN 0 ELSE n - 1
Tick ==
    /\ at # "idle" /\ ~Due
    /\ at # "calling"
    /\ left > 0 \/ wait > 0 \/ \E k \in Attempts : job[k].open
    /\ left' = Less(left) /\ wait' = Less(wait)
    /\ job' = [k \in Attempts |-> [job[k] EXCEPT !.left = IF job[k].open THEN Less(@) ELSE 0]]
    /\ UNCHANGED <<at, attempt, answer, heard, effects>>

\* All is over, but for a handler whose call was lost, and there is another request
Again ==
    /\ at \in {"over", "lost"} /\ answer # "none" /\ \A k \in Attempts : job[k].at # "running"
    /\ at' = "idle" /\ attempt' = 0 /\ wait' = 0 /\ left' = Timeout /\ answer' = "none"
    /\ job' = [k \in Attempts |-> NoJob] /\ heard' = [k \in Attempts |-> "none"] /\ effects' = {}
-----------------------------------------------------------------------------
Next ==
    \/ Request \/ Call \/ Resume \/ TimeOut \/ Tick \/ Again
    \/ \E k \in Attempts : Work(k) \/ Break(k) \/ JobTimeout(k)

\* Time passes, timers go off, and what is running ends
Fairness ==
    /\ WF_vars(Tick) /\ WF_vars(TimeOut) /\ WF_vars(Call) /\ WF_vars(Resume)
    /\ \A k \in Attempts : WF_vars(Work(k)) /\ WF_vars(JobTimeout(k))

Spec == Init /\ [][Next]_vars
FairSpec == Spec /\ Fairness

-----------------------------------------------------------------------------
(***************************************************************************)
(* A call takes effect again only when the caller had not heard how the    *)
(* attempt before ended: its connection had broken or timed out.  What     *)
(* failed after some of its effect is not tried again.                     *)
(***************************************************************************)
Effective == {e[1] : e \in effects}
EffectsRepeatUnheard ==
    \A k, n \in Effective : k < n => heard[k] \in {"reset", "timeout"}

(***************************************************************************)
(* A call takes effect after the client was answered only if the answer    *)
(* was the timeout, or the attempt was one the caller had given up.        *)
(***************************************************************************)
LateEffectsAreGivenUp ==
    \A e \in effects : e[2] \in {"ok", "error"} => heard[e[1]] \in {"reset", "timeout"}

(***************************************************************************)
(* Both applications wait for a minute and the caller began first: once    *)
(* the application called has answered 408, the client has no other answer *)
(* than 408, too, whatever the retries bring.                              *)
(***************************************************************************)
TimeoutsComeTooLate ==
    (\E k \in Attempts : heard[k] = "timeout") => answer \in {"none", "timeout"}

(***************************************************************************)
(* The client is answered, also when a call is lost and the handler waits  *)
(* for ever.                                                               *)
(***************************************************************************)
RequestsAreAnswered == at = "calling" ~> answer # "none"

(***************************************************************************)
(* A handler ends, however often connections break, unless a call is lost. *)
(***************************************************************************)
HandlersEnd == at = "calling" ~> at \in {"lost", "over"}

-----------------------------------------------------------------------------
(***************************************************************************)
(* The inductive invariant behind the three (RequestsProofs).  Jobs are of *)
(* attempts that were made, one at most is listened to, and nobody listens *)
(* to the others since their connection broke or timed out; the job that   *)
(* is listened to began after the request, and after a pause if it is not  *)
(* the first: its time is not up before that of the request.               *)
(***************************************************************************)
GaveUp(k) == heard[k] \in {"reset", "timeout"}
TriedAgain(k) == k < attempt \/ (k = attempt /\ at = "pausing")

JobsAreOfAttempts ==
    \A k \in Attempts :
        /\ job[k].at # "none" => k < attempt \/ (k = attempt /\ at \notin {"idle", "calling"})
        /\ job[k].open => k = attempt /\ at = "waiting" /\ job[k].at = "running"
        /\ job[k].at = "running" /\ ~job[k].open => GaveUp(k)

EffectsAreOfJobs ==
    \A e \in effects : job[e[1]].at = "ended" /\ (TriedAgain(e[1]) => GaveUp(e[1]))

AnswersAreInTime ==
    /\ answer \in {"ok", "error"} => at = "over"
    /\ \A k \in Attempts :
        /\ job[k].open => \/ answer = "timeout" \/ job[k].left > left
                          \/ attempt = 0 /\ job[k].left = left
        /\ heard[k] = "timeout" => \/ answer = "timeout"
                                   \/ answer = "none" /\ at = "pausing" /\ wait > 0 /\ left = 0
    /\ attempt > 0 => left < Timeout
    /\ at = "pausing" => attempt < Retries /\ (wait > 0 \/ left < Timeout)

HttpCallsInv ==
    /\ TypeOK
    /\ JobsAreOfAttempts /\ EffectsAreOfJobs /\ LateEffectsAreGivenUp /\ AnswersAreInTime
=============================================================================
