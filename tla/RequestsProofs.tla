--------------------------- MODULE RequestsProofs ---------------------------
(***************************************************************************)
(* Proofs about requests and their errors, for every set of requests,      *)
(* number of retries, pauses and timeouts, messages and applications an    *)
(* error crosses: Tracing, Errors, HttpCalls and Routes.                   *)
(***************************************************************************)
EXTENDS MCRequests, SequenceTheorems, TLAPS

-----------------------------------------------------------------------------
(***************************************************************************)
(* Tracing.                                                                *)
(***************************************************************************)
LEMMA TracesNone == None \notin Traced
    BY RequestsAssumption DEF Traces!TracingAssumption

\* A step of one request, which binds its own traceid or nothing
TraceStep(r, q) ==
    /\ req' = [req EXCEPT ![r] = q]
    /\ others \ {r} \subseteq others' /\ others' \subseteq others \cup Traces!Others(r)
    /\ binding' = binding \/ (binding' = r /\ Traces!Others(r) \subseteq others')
    /\ q.at \in {"running", "late"} /\ ~Traces!Untraced(q) =>
          \/ binding' = r
          \/ /\ binding' = binding /\ others' = others
             /\ req[r].at \in {"running", "late"} /\ ~Traces!Untraced(req[r])

LogOK == log' \in {None} \cup [request : Traced, level : {"info", "error"}, trace : Traces!Traces]

LEMMA TraceStepFacts ==
    ASSUME Traces!TracingInv, NEW r \in Traced, NEW q \in Traces!Request, TraceStep(r, q), LogOK,
           Traces!RequestInv(q), Traces!CarriesItsTrace(r, q)
    PROVE  Traces!TracingInv'
<1>1. /\ req \in [Traced -> Traces!Request] /\ binding \in Traces!Traces /\ others \subseteq Traced
      /\ \A x \in Traced : Traces!RequestInv(req[x]) /\ Traces!CarriesItsTrace(x, req[x])
      /\ Traces!BindingsAreNoted
    BY DEF Traces!TracingInv, Traces!TypeOK, Traces!ErrorsCarryTheirTrace
<1>2. req' \in [Traced -> Traces!Request] /\ req'[r] = q /\ \A x \in Traced \ {r} : req'[x] = req[x]
    BY <1>1 DEF TraceStep
<1>3. others' \subseteq Traced /\ binding' \in Traces!Traces
    BY <1>1 DEF TraceStep, Traces!Others, Traces!Traces
<1>4. Traces!TypeOK'
    BY <1>2, <1>3 DEF Traces!TypeOK, LogOK
<1>5. \A x \in Traced : Traces!RequestInv(req'[x]) /\ Traces!CarriesItsTrace(x, req'[x])
    BY <1>1, <1>2
<1>6. ASSUME NEW x \in Traced, x \notin others', req'[x].at \in {"running", "late"}, ~Traces!Untraced(req'[x])
      PROVE  binding' = x
  <2>1. CASE x = r
    <3>1. CASE binding' = r
      BY <2>1, <3>1
    <3>2. CASE binding' # r
      BY <1>1, <1>2, <1>6, <2>1, <3>2 DEF TraceStep, Traces!BindingsAreNoted
    <3> QED
      BY <3>1, <3>2
  <2>2. CASE x # r
    <3>1. req[x].at \in {"running", "late"} /\ ~Traces!Untraced(req[x]) /\ x \notin others
      BY <1>2, <1>6, <2>2 DEF TraceStep
    <3>2. x \in Traces!Others(r) /\ binding = x
      BY <1>1, <2>2, <3>1 DEF Traces!Others, Traces!BindingsAreNoted
    <3> QED
      BY <1>6, <3>2 DEF TraceStep
  <2> QED
    BY <2>1, <2>2
<1>7. Traces!BindingsAreNoted'
    BY <1>6 DEF Traces!BindingsAreNoted
<1> QED
    BY <1>4, <1>5, <1>7 DEF Traces!TracingInv, Traces!ErrorsCarryTheirTrace

\* What a filter answers and logs
LEMMA TraceCatch ==
    ASSUME NEW r \in Traced, NEW q \in Traces!Request, NEW trace \in {None, r}, NEW how \in {"thrown", "timeout"},
           Traces!Catch(r, q, trace, how), binding \in Traces!Traces
    PROVE  \E x \in Traces!Request :
                /\ x.at = q.at /\ x.kind = q.kind /\ x.brought = q.brought /\ x.header = q.header /\ x.id = q.id
                /\ x.error = how /\ x.trace = (IF trace # None THEN trace ELSE Traces!IdOf(r, q))
                /\ req' = [req EXCEPT ![r] = x] /\ LogOK
<1> DEFINE t == IF trace # None THEN trace ELSE Traces!IdOf(r, q)
           x == [q EXCEPT !.error = how, !.trace = t]
<1>1. t \in Traces!Traces
    BY DEF Traces!IdOf, Traces!Traces, Traces!Request
<1>2. req' = [req EXCEPT ![r] = x] /\ Traces!Log(r, "error", IF t # None THEN t ELSE binding)
    BY DEF Traces!Catch
<1> HIDE DEF t
<1>3. /\ x \in Traces!Request
      /\ x.at = q.at /\ x.kind = q.kind /\ x.brought = q.brought /\ x.header = q.header /\ x.id = q.id
      /\ x.error = how /\ x.trace = t
    BY <1>1 DEF Traces!Request
<1>4. LogOK
    BY <1>1, <1>2 DEF LogOK, Traces!Log
<1> QED
    BY <1>1, <1>2, <1>3, <1>4 DEF t

\* The traceid of a request whose headers have one is its own
LEMMA TraceBinds ==
    ASSUME NEW r \in Traced, NEW q, q.header, Traces!Bind(r, Traces!CustomProps(r, q))
    PROVE  binding' = r /\ others' = others \cup Traces!Others(r)
    BY TracesNone DEF Traces!Bind, Traces!CustomProps

LEMMA TraceIds ==
    ASSUME NEW r \in Traced, NEW q
    PROVE  /\ q.id = "own" => Traces!IdOf(r, q) = r
           /\ q.id = "number" => Traces!IdOf(r, q) = "number"
           /\ q.id = "none" => Traces!IdOf(r, q) = None
    BY DEF Traces!IdOf

LEMMA TraceArrives ==
    ASSUME Traces!TracingInv, NEW r \in Traced,
           Traces!Arrive(r) \/ Traces!Ask(r) \/ Traces!End(r) \/ Traces!Leave(r)
    PROVE  Traces!TracingInv'
<1>0. req[r] \in Traces!Request /\ Traces!RequestInv(req[r]) /\ Traces!CarriesItsTrace(r, req[r]) /\ Traces!TypeOK
    BY DEF Traces!TracingInv, Traces!TypeOK, Traces!ErrorsCarryTheirTrace
<1>1. binding' = binding /\ log' = log /\ others' = others
    BY DEF Traces!Arrive, Traces!Ask, Traces!End, Traces!Leave
<1>2. LogOK
    BY <1>0, <1>1 DEF LogOK, Traces!TypeOK
<1>3. Traces!Idle \in Traces!Request
    BY DEF Traces!Idle, Traces!Request, Traces!Kinds, Traces!Traces
<1>4. CASE Traces!Arrive(r)
  <2>1. PICK kind \in Traces!Kinds, b \in BOOLEAN :
            req' = [req EXCEPT ![r] = [Traces!Idle EXCEPT !.at = IF kind = "guarded" THEN "arrived" ELSE "routed",
                                                          !.kind = kind, !.brought = b, !.header = b]]
    BY <1>4 DEF Traces!Arrive
  <2> DEFINE q == [Traces!Idle EXCEPT !.at = IF kind = "guarded" THEN "arrived" ELSE "routed",
                                      !.kind = kind, !.brought = b, !.header = b]
  <2>2. /\ q \in Traces!Request /\ q.at = (IF kind = "guarded" THEN "arrived" ELSE "routed")
        /\ q.kind = kind /\ q.brought = b /\ q.header = b /\ q.id = "none" /\ q.error = "none"
    BY <1>3 DEF Traces!Request, Traces!Idle
  <2> HIDE DEF q
  <2>3. Traces!RequestInv(q) /\ Traces!CarriesItsTrace(r, q)
    BY <2>2 DEF Traces!RequestInv, Traces!CarriesItsTrace
  <2>4. TraceStep(r, q)
    BY <1>1, <2>1, <2>2 DEF TraceStep, q
  <2> QED
    BY <1>2, <2>2, <2>3, <2>4, TraceStepFacts
<1>5. CASE Traces!Ask(r)
  <2> DEFINE q == [req[r] EXCEPT !.at = "cache", !.header = TRUE]
  <2>1. req' = [req EXCEPT ![r] = q] /\ req[r].at = "arrived"
    BY <1>5 DEF Traces!Ask
  <2>2. /\ q \in Traces!Request /\ q.at = "cache" /\ q.header
        /\ q.kind = req[r].kind /\ q.id = req[r].id /\ q.error = req[r].error
    BY <1>0 DEF Traces!Request
  <2> HIDE DEF q
  <2>3. Traces!RequestInv(q) /\ Traces!CarriesItsTrace(r, q)
    BY <1>0, <2>1, <2>2 DEF Traces!RequestInv, Traces!CarriesItsTrace
  <2>4. TraceStep(r, q)
    BY <1>1, <2>1, <2>2 DEF TraceStep
  <2> QED
    BY <1>2, <2>2, <2>3, <2>4, TraceStepFacts
<1>6. CASE Traces!End(r)
  <2> DEFINE q == [req[r] EXCEPT !.at = "answered"]
  <2>1. req' = [req EXCEPT ![r] = q] /\ req[r].at \in {"running", "late"}
    BY <1>6 DEF Traces!End
  <2>2. /\ q \in Traces!Request /\ q.at = "answered" /\ q.header = req[r].header /\ q.brought = req[r].brought
        /\ q.kind = req[r].kind /\ q.id = req[r].id /\ q.error = req[r].error /\ q.trace = req[r].trace
    BY <1>0 DEF Traces!Request
  <2> HIDE DEF q
  <2>3. Traces!RequestInv(q)
    BY <1>0, <2>1, <2>2 DEF Traces!RequestInv
  <2>4. Traces!CarriesItsTrace(r, q)
    BY <1>0, <2>2 DEF Traces!CarriesItsTrace
  <2>5. TraceStep(r, q)
    BY <1>1, <2>1, <2>2 DEF TraceStep
  <2> QED
    BY <1>2, <2>2, <2>3, <2>4, <2>5, TraceStepFacts
<1>7. CASE Traces!Leave(r)
  <2>1. Traces!RequestInv(Traces!Idle) /\ Traces!CarriesItsTrace(r, Traces!Idle)
    BY DEF Traces!RequestInv, Traces!CarriesItsTrace, Traces!Idle
  <2>2. TraceStep(r, Traces!Idle)
    BY <1>1, <1>7 DEF TraceStep, Traces!Leave, Traces!Idle
  <2> QED
    BY <1>2, <1>3, <2>1, <2>2, TraceStepFacts
<1> QED
    BY <1>4, <1>5, <1>6, <1>7

\* A request that has a traceid, or has no business having one, fails with it
LEMMA TraceCarried ==
    ASSUME NEW r \in Traced, NEW x,
           \/ x.kind = "unknown" /\ x.trace = None
           \/ x.kind = "open" /\ x.brought /\ x.error = "timeout" /\ x.trace = "number"
           \/ x.kind # "unknown" /\ ~(x.kind = "open" /\ x.brought /\ x.error = "timeout") /\ x.trace = r
    PROVE  Traces!CarriesItsTrace(r, x)
    BY DEF Traces!CarriesItsTrace

LEMMA TraceMiddleware ==
    ASSUME Traces!TracingInv, NEW r \in Traced, Traces!Unauthorised(r) \/ Traces!Invalid(r) \/ Traces!Admit(r) \/ Traces!NotFound(r)
    PROVE  Traces!TracingInv'
<1>0. /\ req[r] \in Traces!Request /\ Traces!RequestInv(req[r]) /\ Traces!CarriesItsTrace(r, req[r])
      /\ Traces!TypeOK /\ binding \in Traces!Traces
    BY DEF Traces!TracingInv, Traces!TypeOK, Traces!ErrorsCarryTheirTrace
<1>1. CASE Traces!Unauthorised(r) \/ Traces!Invalid(r)
  <2> DEFINE q == [req[r] EXCEPT !.at = "answered", !.header = TRUE, !.id = "own"]
  <2>1. /\ req[r].at \in {"arrived", "cache"}
        /\ Traces!Bind(r, Traces!CustomProps(r, q)) /\ Traces!Catch(r, q, None, "thrown")
    BY <1>1 DEF Traces!Unauthorised, Traces!Invalid
  <2>2. /\ q \in Traces!Request /\ q.at = "answered" /\ q.header /\ q.id = "own"
        /\ q.kind = req[r].kind /\ q.brought = req[r].brought
    BY <1>0 DEF Traces!Request
  <2> HIDE DEF q
  <2>3. PICK x \in Traces!Request :
            /\ x.at = q.at /\ x.kind = q.kind /\ x.header = q.header /\ x.error = "thrown"
            /\ x.trace = Traces!IdOf(r, q) /\ req' = [req EXCEPT ![r] = x] /\ LogOK
    <3>1. binding \in Traces!Traces /\ q \in Traces!Request /\ Traces!Catch(r, q, None, "thrown")
      BY <1>0, <2>1, <2>2
    <3> QED
      BY <3>1, TraceCatch
  <2>4. x.trace = r /\ x.kind = "guarded"
    BY <1>0, <2>1, <2>2, <2>3, TraceIds DEF Traces!RequestInv
  <2>5. Traces!RequestInv(x) /\ Traces!CarriesItsTrace(r, x)
    BY <2>2, <2>3, <2>4, TraceCarried DEF Traces!RequestInv
  <2>6. TraceStep(r, x)
    BY <2>1, <2>2, <2>3, TraceBinds DEF TraceStep
  <2> QED
    BY <2>3, <2>5, <2>6, TraceStepFacts
<1>2. CASE Traces!Admit(r)
  <2>1. CASE /\ req' = [req EXCEPT ![r].at = "routed", ![r].id = "own"] /\ req[r].at = "cache"
             /\ binding' = binding /\ log' = log /\ others' = others
    <3> DEFINE q == [req[r] EXCEPT !.at = "routed", !.id = "own"]
    <3>1. req' = [req EXCEPT ![r] = q]
      BY <1>0, <2>1 DEF Traces!TypeOK, Traces!Request
    <3>2. /\ q \in Traces!Request /\ q.at = "routed" /\ q.id = "own" /\ q.header = req[r].header
          /\ q.kind = req[r].kind /\ q.error = req[r].error
      BY <1>0 DEF Traces!Request
    <3> HIDE DEF q
    <3>3. Traces!RequestInv(q) /\ Traces!CarriesItsTrace(r, q)
      BY <1>0, <2>1, <3>2 DEF Traces!RequestInv, Traces!CarriesItsTrace
    <3>4. TraceStep(r, q) /\ LogOK
      BY <1>0, <2>1, <3>1, <3>2 DEF TraceStep, LogOK, Traces!TypeOK
    <3> QED
      BY <3>2, <3>3, <3>4, TraceStepFacts
  <2>2. CASE /\ Traces!Catch(r, [req[r] EXCEPT !.at = "answered", !.id = "own"], None, "thrown")
             /\ req[r].at = "cache" /\ binding' = binding /\ others' = others
    <3> DEFINE q == [req[r] EXCEPT !.at = "answered", !.id = "own"]
    <3>1. /\ q \in Traces!Request /\ q.at = "answered" /\ q.header = req[r].header /\ q.id = "own"
          /\ q.kind = req[r].kind
      BY <1>0 DEF Traces!Request
    <3>2. Traces!Catch(r, q, None, "thrown")
      BY <2>2
    <3> HIDE DEF q
    <3>3. PICK x \in Traces!Request :
              /\ x.at = q.at /\ x.kind = q.kind /\ x.header = q.header /\ x.error = "thrown"
              /\ x.trace = Traces!IdOf(r, q) /\ req' = [req EXCEPT ![r] = x] /\ LogOK
      BY <1>0, <3>1, <3>2, TraceCatch
    <3>4. x.trace = r /\ x.kind = "guarded" /\ x.header
      BY <1>0, <2>2, <3>1, <3>3, TraceIds DEF Traces!RequestInv
    <3>5. Traces!RequestInv(x) /\ Traces!CarriesItsTrace(r, x)
      BY <3>1, <3>3, <3>4, TraceCarried DEF Traces!RequestInv
    <3>6. TraceStep(r, x)
      BY <2>2, <3>1, <3>3 DEF TraceStep
    <3> QED
      BY <3>3, <3>5, <3>6, TraceStepFacts
  <2> QED
    BY <1>2, <2>1, <2>2 DEF Traces!Admit
<1>3. CASE Traces!NotFound(r)
  <2> DEFINE q == [req[r] EXCEPT !.at = "answered"]
  <2>1. /\ req[r].at = "routed" /\ req[r].kind = "unknown" /\ Traces!Catch(r, q, None, "thrown")
        /\ binding' = binding /\ others' = others
    BY <1>3 DEF Traces!NotFound
  <2>2. q \in Traces!Request /\ q.at = "answered" /\ q.kind = "unknown" /\ q.id = req[r].id
    BY <1>0, <2>1 DEF Traces!Request
  <2> HIDE DEF q
  <2>3. PICK x \in Traces!Request :
            /\ x.at = q.at /\ x.kind = q.kind /\ x.error = "thrown"
            /\ x.trace = Traces!IdOf(r, q) /\ req' = [req EXCEPT ![r] = x] /\ LogOK
    BY <1>0, <2>1, <2>2, TraceCatch
  <2>4. x.trace = None
    BY <1>0, <2>1, <2>2, <2>3, TraceIds DEF Traces!RequestInv
  <2>5. Traces!RequestInv(x) /\ Traces!CarriesItsTrace(r, x)
    BY <2>2, <2>3, <2>4, TraceCarried DEF Traces!RequestInv
  <2>6. TraceStep(r, x)
    BY <2>1, <2>2, <2>3 DEF TraceStep
  <2> QED
    BY <2>3, <2>5, <2>6, TraceStepFacts
<1> QED
  BY <1>1, <1>2, <1>3

LEMMA TraceIntercept ==
    ASSUME Traces!TracingInv, NEW r \in Traced, Traces!Intercept(r)
    PROVE  Traces!TracingInv'
<1> DEFINE q == [req[r] EXCEPT !.at = "running", !.header = TRUE, !.id = IF req[r].header THEN @ ELSE "own"]
<1>0. /\ req[r] \in Traces!Request /\ Traces!RequestInv(req[r]) /\ Traces!CarriesItsTrace(r, req[r]) /\ Traces!TypeOK
    BY DEF Traces!TracingInv, Traces!TypeOK, Traces!ErrorsCarryTheirTrace
<1>1. /\ req[r].at = "routed" /\ req[r].kind # "unknown" /\ req' = [req EXCEPT ![r] = q] /\ log' = log
      /\ binding' = IF q.id = "none" THEN binding ELSE Traces!IdOf(r, q)
      /\ others' = (IF q.id = "none" THEN others ELSE others \cup Traces!Others(r)) \ {r}
    BY DEF Traces!Intercept
<1>2. /\ q \in Traces!Request /\ q.at = "running" /\ q.header
      /\ q.id = (IF req[r].header THEN req[r].id ELSE "own")
      /\ q.kind = req[r].kind /\ q.brought = req[r].brought /\ q.error = req[r].error
    BY <1>0 DEF Traces!Request
<1> HIDE DEF q
<1>3. /\ q.error = "none" /\ q.id = (IF Traces!Untraced(q) THEN "none" ELSE "own")
  <2>1. q.kind \in {"guarded", "open"} /\ q.brought \in BOOLEAN
    BY <1>1, <1>2 DEF Traces!Request, Traces!Kinds
  <2> QED
    BY <1>0, <1>1, <1>2, <2>1 DEF Traces!RequestInv, Traces!Untraced
<1>4. Traces!RequestInv(q) /\ Traces!CarriesItsTrace(r, q)
    BY <1>1, <1>2, <1>3 DEF Traces!RequestInv, Traces!CarriesItsTrace
<1>5. LogOK
    BY <1>0, <1>1 DEF LogOK, Traces!TypeOK
<1>6. r \notin Traces!Others(r)
    BY DEF Traces!Others
<1>7. TraceStep(r, q)
    BY <1>1, <1>2, <1>3, <1>6, TraceIds DEF TraceStep
<1> QED
    BY <1>2, <1>4, <1>5, <1>7, TraceStepFacts

\* A line of the log changes nothing else
LEMMA TraceInfo ==
    ASSUME Traces!TracingInv, NEW r \in Traced, Traces!Info(r)
    PROVE  Traces!TracingInv'
<1>1. req' = req /\ binding' = binding /\ others' = others /\ log' = [request |-> r, level |-> "info", trace |-> binding]
    BY DEF Traces!Info, Traces!Log
<1>2. Traces!TypeOK'
    BY <1>1 DEF Traces!TracingInv, Traces!TypeOK
<1> QED
    BY <1>1, <1>2 DEF Traces!TracingInv, Traces!BindingsAreNoted, Traces!ErrorsCarryTheirTrace

LEMMA TraceFails ==
    ASSUME Traces!TracingInv, NEW r \in Traced, Traces!Fail(r) \/ Traces!TimeOut(r)
    PROVE  Traces!TracingInv'
<1>0. /\ req[r] \in Traces!Request /\ Traces!RequestInv(req[r]) /\ Traces!TypeOK /\ binding \in Traces!Traces
    BY DEF Traces!TracingInv, Traces!TypeOK
<1>1. PICK to \in {"answered", "late"}, trace \in {None, r}, how \in {"thrown", "timeout"} :
        LET q == Traces!WithId([req[r] EXCEPT !.at = to]) IN
        /\ req[r].at = "running" /\ Traces!Bind(r, Traces!CustomProps(r, q)) /\ Traces!Catch(r, q, trace, how)
        /\ \/ to = "answered" /\ trace = r /\ how = "thrown"
           \/ to = "late" /\ trace = None /\ how = "timeout"
    BY DEF Traces!Fail, Traces!TimeOut
<1> DEFINE p == [req[r] EXCEPT !.at = to]
           q == Traces!WithId(p)
<1>2. /\ p \in Traces!Request /\ p.at = to /\ p.kind = req[r].kind /\ p.brought = req[r].brought
      /\ p.header = req[r].header /\ p.id = req[r].id
    BY <1>0 DEF Traces!Request
<1>3. /\ req[r].at = "running" /\ Traces!Bind(r, Traces!CustomProps(r, q)) /\ Traces!Catch(r, q, trace, how)
      /\ \/ to = "answered" /\ trace = r /\ how = "thrown"
         \/ to = "late" /\ trace = None /\ how = "timeout"
    BY <1>1
<1> HIDE DEF p
<1>4. /\ q \in Traces!Request /\ q.at = to /\ q.kind = req[r].kind /\ q.brought = req[r].brought
      /\ q.header = req[r].header /\ q.id = (IF req[r].id = "none" THEN "number" ELSE req[r].id)
    BY <1>2 DEF Traces!WithId, Traces!Request
<1> HIDE DEF q
<1>5. PICK x \in Traces!Request :
          /\ x.at = q.at /\ x.kind = q.kind /\ x.brought = q.brought /\ x.header = q.header /\ x.id = q.id
          /\ x.error = how /\ x.trace = (IF trace # None THEN trace ELSE Traces!IdOf(r, q))
          /\ req' = [req EXCEPT ![r] = x] /\ LogOK
    BY <1>0, <1>3, <1>4, TraceCatch
<1>6. /\ q.header /\ q.kind # "unknown" /\ q.brought \in BOOLEAN
      /\ q.id = (IF Traces!Untraced(q) THEN "number" ELSE "own")
    BY <1>0, <1>3, <1>4 DEF Traces!RequestInv, Traces!Untraced, Traces!Request
<1>7. Traces!RequestInv(x)
    BY <1>3, <1>4, <1>5, <1>6 DEF Traces!RequestInv, Traces!Untraced
<1>8. Traces!CarriesItsTrace(r, x)
  <2>1. CASE trace = r
    BY <1>3, <1>5, <1>6, <2>1, TraceCarried, TracesNone
  <2>2. CASE trace = None /\ Traces!Untraced(q)
    <3>1. how = "timeout" /\ q.id = "number"
      BY <1>3, <1>6, <2>2, TracesNone
    <3>2. x.kind = "open" /\ x.brought /\ x.error = "timeout" /\ x.trace = "number"
      BY <1>5, <2>2, <3>1, TraceIds DEF Traces!Untraced
    <3> QED
      BY <3>2, TraceCarried
  <2>3. CASE trace = None /\ ~Traces!Untraced(q)
    BY <1>3, <1>5, <1>6, <2>3, TraceCarried, TraceIds, TracesNone DEF Traces!Untraced
  <2> QED
    BY <2>1, <2>2, <2>3
<1>9. TraceStep(r, x)
    BY <1>3, <1>5, <1>6, TraceBinds DEF TraceStep
<1> QED
    BY <1>5, <1>7, <1>8, <1>9, TraceStepFacts

LEMMA TraceSent ==
    ASSUME Traces!TracingInv, NEW r \in Traced, Traces!Sent(r)
    PROVE  Traces!TracingInv'
<1> DEFINE q == [req[r] EXCEPT !.sent = TRUE]
<1>0. /\ req[r] \in Traces!Request /\ Traces!RequestInv(req[r]) /\ Traces!CarriesItsTrace(r, req[r]) /\ Traces!TypeOK
    BY DEF Traces!TracingInv, Traces!TypeOK, Traces!ErrorsCarryTheirTrace
<1>1. /\ req[r].error # "none" /\ req[r].kind # "unknown" /\ log' = log
      /\ req' = [req EXCEPT ![r].sent = TRUE] /\ Traces!Bind(r, Traces!CustomProps(r, req[r]))
    BY DEF Traces!Sent
<1>2. req' = [req EXCEPT ![r] = q]
    BY <1>1
<1>3. /\ q \in Traces!Request /\ q.at = req[r].at /\ q.header = req[r].header /\ q.brought = req[r].brought
      /\ q.kind = req[r].kind /\ q.id = req[r].id /\ q.error = req[r].error /\ q.trace = req[r].trace
    BY <1>0 DEF Traces!Request
<1> HIDE DEF q
<1>4. Traces!RequestInv(q) /\ req[r].header
    BY <1>0, <1>1, <1>3 DEF Traces!RequestInv, Traces!Untraced
<1>5. Traces!CarriesItsTrace(r, q)
    BY <1>0, <1>3 DEF Traces!CarriesItsTrace
<1>6. TraceStep(r, q) /\ LogOK
    BY <1>0, <1>1, <1>2, <1>4, TraceBinds DEF TraceStep, LogOK, Traces!TypeOK
<1> QED
    BY <1>3, <1>4, <1>5, <1>6, TraceStepFacts

LEMMA TracesInit == RequestsInit => Traces!TracingInv
<1> SUFFICES ASSUME RequestsInit PROVE Traces!TracingInv
    OBVIOUS
<1>1. req = [r \in Traced |-> Traces!Idle] /\ binding = None /\ log = None /\ others = {}
    BY DEF RequestsInit, Traces!Init
<1>2. Traces!Idle \in Traces!Request /\ Traces!Idle.at = "idle" /\ Traces!Idle.error = "none"
    BY DEF Traces!Idle, Traces!Request, Traces!Kinds, Traces!Traces
<1>3. Traces!TypeOK
    BY <1>1, <1>2 DEF Traces!TypeOK, Traces!Traces
<1> QED
    BY <1>1, <1>2, <1>3
       DEF Traces!TracingInv, Traces!RequestInv, Traces!BindingsAreNoted, Traces!ErrorsCarryTheirTrace,
           Traces!CarriesItsTrace

LEMMA TracesStep ==
    Traces!TracingInv /\ [RequestsNext]_<<part, vars, errorVars, callVars, traceVars>> => Traces!TracingInv'
<1> SUFFICES ASSUME Traces!TracingInv, [RequestsNext]_<<part, vars, errorVars, callVars, traceVars>>
             PROVE  Traces!TracingInv'
    OBVIOUS
<1>1. Traces!Next \/ UNCHANGED traceVars
    BY DEF RequestsNext
<1>2. ASSUME NEW r \in Traced, Traces!Step(r) PROVE Traces!TracingInv'
    BY <1>2, TraceArrives, TraceMiddleware, TraceIntercept, TraceInfo, TraceFails, TraceSent DEF Traces!Step
<1>3. CASE UNCHANGED traceVars
    BY <1>3
       DEF traceVars, Traces!TracingInv, Traces!TypeOK, Traces!RequestInv, Traces!BindingsAreNoted,
           Traces!ErrorsCarryTheirTrace, Traces!CarriesItsTrace
<1> QED
    BY <1>1, <1>2, <1>3 DEF Traces!Next

(***************************************************************************)
(* Whatever requests write the bindings of the logger meanwhile, an error  *)
(* is answered with the traceid of its own request, and a line of a        *)
(* handler that no other request came in between has it, too.              *)
(***************************************************************************)
THEOREM TracesOfRequests == RequestsSpec => TracesAreTheirOwn
<1> DEFINE Lines == \A r \in Traced :
        Traces!Info(r) /\ r \notin others /\ ~(req[r].kind = "open" /\ req[r].brought) => log'.trace = r
<1>1. Traces!TracingInv => Traces!TypeOK /\ Traces!ErrorsCarryTheirTrace
    BY DEF Traces!TracingInv
<1>2. Traces!TracingInv => Lines
    BY DEF Traces!TracingInv, Traces!BindingsAreNoted, Traces!Untraced, Traces!Info, Traces!Log
<1>3. RequestsSpec => []Traces!TracingInv
    BY TracesInit, TracesStep, PTL DEF RequestsSpec
<1>4. RequestsSpec => [](Traces!TypeOK /\ Traces!ErrorsCarryTheirTrace)
    BY <1>1, <1>3, PTL
<1>5. RequestsSpec => Traces!LinesCarryTheirTrace
    BY <1>2, <1>3, PTL DEF Traces!LinesCarryTheirTrace, Traces!vars
<1> QED
    BY <1>4, <1>5 DEF TracesAreTheirOwn

-----------------------------------------------------------------------------
(***************************************************************************)
(* Errors.                                                                 *)
(***************************************************************************)
LEMMA RaisedAssumed ==
    /\ MaxHops \in Nat
    /\ None \notin Raised!Answer /\ None \notin Raised!Codes
    /\ None \notin ApiStatuses /\ {400, 408, 500} \subseteq ApiStatuses /\ {408, 500} \subseteq DefaultStatuses
    BY RequestsAssumption DEF Raised!ErrorsAssumption

LEMMA MessageFacts ==
    /\ \A t \in Texts \cup {"default", "issue"} :
          Raised!Text(t) \in Raised!Message /\ Raised!Text(t).text = t /\ Raised!Text(t).depth = 0
    /\ \A m \in Raised!Message :
          /\ m.depth \in 0 .. MaxHops + 1
          /\ Raised!List(m).text = m.text /\ Raised!List(m).depth = m.depth + 1
          /\ m.depth <= MaxHops => Raised!List(m) \in Raised!Message
<1>1. ASSUME NEW t \in Texts \cup {"default", "issue"}
      PROVE  Raised!Text(t) \in Raised!Message /\ Raised!Text(t).text = t /\ Raised!Text(t).depth = 0
    BY RaisedAssumed DEF Raised!Text, Raised!Message
<1>2. ASSUME NEW m \in Raised!Message
      PROVE  /\ m.depth \in 0 .. MaxHops + 1
             /\ Raised!List(m).text = m.text /\ Raised!List(m).depth = m.depth + 1
             /\ m.depth <= MaxHops => Raised!List(m) \in Raised!Message
    BY RaisedAssumed DEF Raised!List, Raised!Message
<1> QED
    BY <1>1, <1>2

LEMMA ErrorFields ==
    ASSUME NEW e \in Raised!Error
    PROVE  /\ e.kind \in {"api", "zod", "axios", "other"} /\ e.message \in Raised!Message
           /\ e.status \in ApiStatuses \cup {None}
           /\ e.code \in Raised!Codes \cup {None} /\ e.response \in Raised!Answer \cup {None}
    BY DEF Raised!Error

LEMMA AxiosFacts ==
    ASSUME NEW code \in Raised!Codes \cup {None}, NEW response \in Raised!Answer \cup {None}
    PROVE  LET e == Raised!AxiosError(code, response) IN
           /\ e \in Raised!Error /\ e.kind = "axios" /\ e.code = code /\ e.response = response
           /\ response = None => e.status = 500 /\ e.message = Raised!Text("default")
           /\ response # None => e.status = response.status /\ e.message = response.message
<1> DEFINE status == IF response # None THEN response.status ELSE 500
           message == IF response # None THEN response.message ELSE Raised!Text("default")
           e == [kind |-> "axios", code |-> code, response |-> response, status |-> status, message |-> message]
<1>1. status \in ApiStatuses /\ message \in Raised!Message
    BY MessageFacts, RaisedAssumed DEF Raised!Answer
<1>2. Raised!AxiosError(code, response) = e
    BY DEF Raised!AxiosError
<1>3. /\ response = None => status = 500 /\ message = Raised!Text("default")
      /\ response # None => status = response.status /\ message = response.message
    OBVIOUS
<1> HIDE DEF status, message
<1>4. e \in Raised!Error
    BY <1>1 DEF Raised!Error
<1> QED
    BY <1>2, <1>3, <1>4

LEMMA StatusOfFacts ==
    ASSUME NEW e
    PROVE  /\ e.kind = "zod" => Raised!StatusOf(e) = 400
           /\ e.kind = "axios" => Raised!StatusOf(e) = IF e.code = "ECONNREFUSED" THEN 500 ELSE 408
           /\ e.kind = "other" => Raised!StatusOf(e) = 500
           /\ e.kind = "api" => Raised!StatusOf(e) = e.status
    BY DEF Raised!StatusOf

\* The status of what was not answered by an application, by the way it was raised
LEMMA StatusFacts ==
    ASSUME NEW e \in Raised!Error
    PROVE  /\ e.kind = "zod" => Raised!GetStatus(e) = 400 /\ Raised!GetStatusCode(e) = 400
           /\ e.kind # "zod" /\ e.status # None => Raised!GetStatus(e) = e.status
           /\ e.kind # "zod" /\ e.code \notin {"ECONNABORTED", "ECONNRESET"} =>
                 Raised!GetStatusCode(e) = IF e.status # None THEN e.status ELSE 500
           /\ e.kind # "zod" /\ e.code \in {"ECONNABORTED", "ECONNRESET"} => Raised!GetStatusCode(e) = 408
           /\ Raised!GetStatusCode(e) \in ApiStatuses
    BY ErrorFields, RaisedAssumed DEF Raised!GetStatus, Raised!GetStatusCode, Raised!First

\* A message is the default one of its status, or that of the error
LEMMA ShownFacts ==
    ASSUME NEW e \in Raised!Error, NEW status
    PROVE  /\ status \in {408, 500} => ~Raised!GetMessageThrows(e, status)
           /\ e.kind \in {"api", "zod"} => ~Raised!GetMessageThrows(e, status)
           /\ e.kind = "axios" /\ e.response # None => ~Raised!GetMessageThrows(e, status)
    BY RaisedAssumed DEF Raised!GetMessageThrows, Raised!HasGetResponse

LEMMA AnswerFacts ==
    ASSUME NEW e \in Raised!Error, e.message.depth <= MaxHops, NEW status
    PROVE  LET m == Raised!GetMessage(e, status) IN
           /\ m \in Raised!Message /\ (m.depth = 1 \/ m.depth = e.message.depth + 1)
           /\ status \in DefaultStatuses => m.text = "default"
           /\ status \notin DefaultStatuses /\ e.kind # "zod" => m.text = e.message.text
<1>1. CASE status \in DefaultStatuses
  <2>1. Raised!GetMessage(e, status) = Raised!List(Raised!Text("default"))
    BY <1>1 DEF Raised!GetMessage
  <2> QED
    BY <1>1, <2>1, MessageFacts, RaisedAssumed
<1>2. CASE status \notin DefaultStatuses /\ e.kind = "zod"
  <2>1. Raised!GetMessage(e, status) = Raised!List(Raised!Text("issue"))
    BY <1>2 DEF Raised!GetMessage
  <2> QED
    BY <1>2, <2>1, MessageFacts, RaisedAssumed
<1>3. CASE status \notin DefaultStatuses /\ e.kind # "zod"
  <2>1. Raised!GetMessage(e, status) = Raised!List(e.message)
    BY <1>3 DEF Raised!GetMessage
  <2> QED
    BY <1>3, <2>1, MessageFacts, ErrorFields
<1> QED
    BY <1>1, <1>2, <1>3

\* What is thrown is all an application knows of the error
LEMMA ErrorThrown ==
    ASSUME errorAt' = "thrown", NEW e \in Raised!Error, error' = e, errorAnswer' \in Raised!Answer \cup {None},
           hop' \in 0 .. MaxHops, e.message.depth <= hop',
           NEW r \in Raised!Error, raised' = r, Raised!StatusOf(r) \in ApiStatuses,
           Raised!GetStatusCode(e) = Raised!StatusOf(r), ~Raised!GetMessageThrows(e, Raised!GetStatusCode(e)),
           e.kind = "api" => e.status # None /\ e.code = None,
           r.kind = "api" => /\ Raised!StatusOf(r) = r.status
                             /\ r.status \notin DefaultStatuses => e.kind # "zod" /\ e.message.text = r.message.text
    PROVE  Raised!ErrorsInv'
    BY RaisedAssumed
       DEF Raised!ErrorsInv, Raised!TypeOK, Raised!ThrownAmounts, Raised!InterceptedAmounts, Raised!AnswersAmount,
           Raised!Amounts

\* An error as it is raised amounts to its own status
LEMMA RaisedAmounts ==
    ASSUME NEW e \in Raised!Error, e.message.depth = 0,
           \/ e.kind = "api" /\ e.status # None /\ e.code = None
           \/ e.kind = "zod"
           \/ e.kind = "axios" /\ e.code # None /\ e.status = 500
           \/ e.kind = "other" /\ e.code = None /\ e.status = None
    PROVE  /\ Raised!StatusOf(e) = Raised!GetStatusCode(e) /\ Raised!StatusOf(e) \in ApiStatuses
           /\ e.kind = "api" => Raised!StatusOf(e) = e.status
           /\ ~Raised!GetMessageThrows(e, Raised!GetStatusCode(e))
<1>1. e.code \in Raised!Codes \cup {None} /\ e.status \in ApiStatuses \cup {None}
    BY ErrorFields
<1>2. Raised!StatusOf(e) = Raised!GetStatusCode(e) /\ Raised!StatusOf(e) \in ApiStatuses
    BY <1>1, StatusOfFacts, StatusFacts, RaisedAssumed DEF Raised!Codes
<1>3. e.kind = "axios" => Raised!StatusOf(e) \in {408, 500}
    BY StatusOfFacts
<1> QED
    BY <1>2, <1>3, ShownFacts, StatusOfFacts

LEMMA ErrorRaise == ASSUME Raised!ErrorsInv, Raised!Raise PROVE Raised!ErrorsInv'
<1>1. /\ errorAt' = "thrown" /\ raised' = error' /\ errorAnswer' = errorAnswer /\ hop' = hop
      /\ hop \in 0 .. MaxHops
    BY DEF Raised!Raise, Raised!Throw, Raised!ErrorsInv, Raised!TypeOK
<1>2. /\ error' \in Raised!Error /\ error'.message.depth = 0
      /\ \/ error'.kind = "api" /\ error'.status # None /\ error'.code = None
         \/ error'.kind = "zod"
         \/ error'.kind = "axios" /\ error'.code # None /\ error'.status = 500
         \/ error'.kind = "other" /\ error'.code = None /\ error'.status = None
  <2>1. \/ \E s \in ApiStatuses \cup {None}, t \in Texts \cup {"issue"}, k \in {"api", "zod", "other"} :
               /\ error' = [kind |-> k, status |-> s, code |-> None, response |-> None, message |-> Raised!Text(t)]
               /\ k = "api" => s # None
               /\ k = "other" => s = None
        \/ \E c \in Raised!Codes : error' = Raised!AxiosError(c, None)
    BY RaisedAssumed DEF Raised!Raise, Raised!Throw
  <2>2. ASSUME NEW s \in ApiStatuses \cup {None}, NEW m \in Raised!Message, NEW k \in {"api", "zod", "other"}
        PROVE  [kind |-> k, status |-> s, code |-> None, response |-> None, message |-> m] \in Raised!Error
    BY DEF Raised!Error
  <2>3. CASE \E c \in Raised!Codes : error' = Raised!AxiosError(c, None)
    BY <2>3, AxiosFacts, MessageFacts, RaisedAssumed
  <2>4. CASE \E s \in ApiStatuses \cup {None}, t \in Texts \cup {"issue"}, k \in {"api", "zod", "other"} :
               /\ error' = [kind |-> k, status |-> s, code |-> None, response |-> None, message |-> Raised!Text(t)]
               /\ k = "api" => s # None
               /\ k = "other" => s = None
    <3>1. PICK s \in ApiStatuses \cup {None}, t \in Texts \cup {"issue"}, k \in {"api", "zod", "other"} :
               /\ error' = [kind |-> k, status |-> s, code |-> None, response |-> None, message |-> Raised!Text(t)]
               /\ k = "api" => s # None
               /\ k = "other" => s = None
      BY <2>4
    <3>2. Raised!Text(t) \in Raised!Message /\ Raised!Text(t).depth = 0
      BY MessageFacts
    <3>3. error' \in Raised!Error
      BY <2>2, <3>1, <3>2
    <3> QED
      BY <3>1, <3>2, <3>3
  <2> QED
    BY <2>1, <2>3, <2>4
<1>3. PICK e \in Raised!Error :
        /\ error' = e /\ e.message.depth = 0 /\ Raised!StatusOf(e) = Raised!GetStatusCode(e)
        /\ Raised!StatusOf(e) \in ApiStatuses
        /\ e.kind = "api" => Raised!StatusOf(e) = e.status /\ e.status # None /\ e.code = None
        /\ ~Raised!GetMessageThrows(e, Raised!GetStatusCode(e))
    BY <1>2, RaisedAmounts
<1>4. errorAnswer \in Raised!Answer \cup {None}
    BY DEF Raised!ErrorsInv, Raised!TypeOK
<1> QED
    BY <1>1, <1>3, <1>4, ErrorThrown

\* What is known of an error at any stage, and where it has it from
LEMMA ErrorKnown ==
    ASSUME Raised!ErrorsInv, errorAt # "idle"
    PROVE  /\ raised \in Raised!Error /\ Raised!StatusOf(raised) \in ApiStatuses /\ hop \in 0 .. MaxHops
           /\ raised.kind = "api" => Raised!StatusOf(raised) = raised.status
           /\ errorAt \in {"thrown", "intercepted"} =>
                 /\ error \in Raised!Error /\ error.message.depth <= hop
                 /\ raised.kind = "api" /\ Raised!StatusOf(raised) \notin DefaultStatuses =>
                       error.kind # "zod" /\ error.message.text = raised.message.text
                 /\ ~Raised!GetMessageThrows(error, Raised!StatusOf(raised))
           /\ errorAt = "thrown" =>
                 /\ Raised!GetStatusCode(error) = Raised!StatusOf(raised)
                 /\ error.kind = "api" => error.status # None /\ error.code = None
           /\ errorAt = "intercepted" => Raised!GetStatus(error) = Raised!StatusOf(raised)
           /\ errorAt = "answered" =>
                 /\ errorAnswer \in Raised!Answer /\ errorAnswer.message.depth <= hop + 1
                 /\ errorAnswer.status = Raised!StatusOf(raised)
                 /\ raised.kind = "api" => errorAnswer.message.text = Raised!SwaggerMessage(raised)
<1>1. /\ raised \in Raised!Error /\ Raised!StatusOf(raised) \in ApiStatuses /\ hop \in 0 .. MaxHops
      /\ raised.kind = "api" => Raised!StatusOf(raised) = raised.status
      /\ Raised!ThrownAmounts /\ Raised!InterceptedAmounts /\ Raised!AnswersAmount
    BY DEF Raised!ErrorsInv, Raised!TypeOK
<1>2. CASE errorAt = "thrown"
    BY <1>1, <1>2 DEF Raised!ThrownAmounts, Raised!Amounts
<1>3. CASE errorAt = "intercepted"
    BY <1>1, <1>3 DEF Raised!InterceptedAmounts, Raised!Amounts
<1>4. CASE errorAt = "answered"
    BY <1>1, <1>4 DEF Raised!AnswersAmount, Raised!StatusSurvives, Raised!DocumentedMessages
<1>5. CASE errorAt \notin {"thrown", "intercepted", "answered"}
    BY <1>1, <1>5
<1> QED
    BY <1>2, <1>3, <1>4, <1>5

LEMMA ErrorIntercept == ASSUME Raised!ErrorsInv, Raised!Intercept PROVE Raised!ErrorsInv'
<1> DEFINE s == Raised!GetStatusCode(error)
           e == [error EXCEPT !.status = s]
<1>1. /\ errorAt = "thrown" /\ errorAt' = "intercepted" /\ error' = e
      /\ errorAnswer' = errorAnswer /\ hop' = hop /\ raised' = raised
    BY DEF Raised!Intercept
<1>2. /\ raised \in Raised!Error /\ Raised!StatusOf(raised) \in ApiStatuses /\ hop \in 0 .. MaxHops
      /\ raised.kind = "api" => Raised!StatusOf(raised) = raised.status
      /\ error \in Raised!Error /\ error.message.depth <= hop
      /\ raised.kind = "api" /\ Raised!StatusOf(raised) \notin DefaultStatuses =>
            error.kind # "zod" /\ error.message.text = raised.message.text
      /\ ~Raised!GetMessageThrows(error, Raised!StatusOf(raised)) /\ s = Raised!StatusOf(raised)
      /\ errorAnswer \in Raised!Answer \cup {None}
    BY <1>1, ErrorKnown DEF Raised!ErrorsInv, Raised!TypeOK
<1>3. error.kind = "zod" => s = 400
    BY <1>2, StatusFacts
<1> HIDE DEF s
<1>4. /\ e \in Raised!Error /\ e.kind = error.kind /\ e.status = s /\ e.message = error.message
      /\ e.response = error.response
    BY <1>2 DEF Raised!Error
<1> HIDE DEF e
<1>5. Raised!GetStatus(e) = s
    BY <1>2, <1>3, <1>4, StatusFacts, RaisedAssumed
<1>6. ~Raised!GetMessageThrows(e, s)
    BY <1>2, <1>4 DEF Raised!GetMessageThrows, Raised!HasGetResponse
<1> QED
    BY <1>1, <1>2, <1>4, <1>5, <1>6
       DEF Raised!ErrorsInv, Raised!TypeOK, Raised!ThrownAmounts, Raised!InterceptedAmounts, Raised!AnswersAmount,
           Raised!Amounts

LEMMA ErrorCatch == ASSUME Raised!ErrorsInv, Raised!Catch PROVE Raised!ErrorsInv'
<1> DEFINE s == Raised!GetStatus(error)
           m == Raised!GetMessage(error, s)
<1>1. /\ errorAt = "intercepted" \/ (errorAt = "thrown" /\ error.kind = "api")
      /\ errorAt' = "answered" /\ error' = None /\ errorAnswer' = [status |-> s, message |-> m]
      /\ hop' = hop /\ raised' = raised
    BY DEF Raised!Catch
<1>2. /\ raised \in Raised!Error /\ Raised!StatusOf(raised) \in ApiStatuses /\ hop \in 0 .. MaxHops
      /\ raised.kind = "api" => Raised!StatusOf(raised) = raised.status
      /\ error \in Raised!Error /\ error.message.depth <= hop
      /\ raised.kind = "api" /\ Raised!StatusOf(raised) \notin DefaultStatuses =>
            error.kind # "zod" /\ error.message.text = raised.message.text
    BY <1>1, ErrorKnown
<1>3. s = Raised!StatusOf(raised)
  <2>1. CASE errorAt = "intercepted"
    BY <2>1, ErrorKnown
  <2>2. CASE errorAt = "thrown" /\ error.kind = "api"
    <3>1. Raised!GetStatusCode(error) = Raised!StatusOf(raised) /\ error.status # None /\ error.code = None
      BY <2>2, ErrorKnown
    <3> QED
      BY <1>2, <2>2, <3>1, StatusFacts, RaisedAssumed DEF Raised!Codes
  <2> QED
    BY <1>1, <2>1, <2>2
<1>4. error.message.depth \in Nat /\ error.message.depth <= MaxHops
    BY <1>2, ErrorFields, MessageFacts, RaisedAssumed
<1> HIDE DEF s
<1>5. /\ m \in Raised!Message /\ (m.depth = 1 \/ m.depth = error.message.depth + 1)
      /\ s \in DefaultStatuses => m.text = "default"
      /\ s \notin DefaultStatuses /\ error.kind # "zod" => m.text = error.message.text
    BY <1>2, <1>4, AnswerFacts
<1> HIDE DEF m
<1>6. /\ errorAnswer' \in Raised!Answer /\ errorAnswer'.status = s /\ errorAnswer'.message = m
      /\ m.depth <= hop + 1
    BY <1>1, <1>2, <1>3, <1>4, <1>5, RaisedAssumed DEF Raised!Answer
<1>7. raised.kind = "api" => m.text = Raised!SwaggerMessage(raised)
    BY <1>2, <1>3, <1>5 DEF Raised!SwaggerMessage
<1> QED
    BY <1>1, <1>2, <1>3, <1>6, <1>7
       DEF Raised!ErrorsInv, Raised!TypeOK, Raised!ThrownAmounts, Raised!InterceptedAmounts, Raised!AnswersAmount,
           Raised!StatusSurvives, Raised!DocumentedMessages

LEMMA ErrorReceive == ASSUME Raised!ErrorsInv, Raised!Receive PROVE Raised!ErrorsInv'
<1> DEFINE e == Raised!AxiosError(None, errorAnswer)
<1>1. /\ errorAt = "answered" /\ errorAt' = "thrown" /\ error' = e
      /\ hop < MaxHops /\ hop' = hop + 1 /\ errorAnswer' = None /\ raised' = raised
    BY DEF Raised!Receive, Raised!Throw
<1>2. /\ raised \in Raised!Error /\ Raised!StatusOf(raised) \in ApiStatuses /\ hop \in 0 .. MaxHops
      /\ raised.kind = "api" => Raised!StatusOf(raised) = raised.status
      /\ errorAnswer \in Raised!Answer /\ errorAnswer.message.depth <= hop + 1
      /\ errorAnswer.status = Raised!StatusOf(raised)
      /\ raised.kind = "api" => errorAnswer.message.text = Raised!SwaggerMessage(raised)
    BY <1>1, ErrorKnown
<1>3. errorAnswer # None
    BY <1>2, RaisedAssumed
<1>4. /\ e \in Raised!Error /\ e.kind = "axios" /\ e.code = None /\ e.response # None
      /\ e.status = errorAnswer.status /\ e.message = errorAnswer.message
    BY <1>2, <1>3, AxiosFacts
<1> HIDE DEF e
<1>5. Raised!GetStatusCode(e) = Raised!StatusOf(raised)
    BY <1>2, <1>4, StatusFacts, RaisedAssumed DEF Raised!Codes
<1>6. ~Raised!GetMessageThrows(e, Raised!GetStatusCode(e))
    BY <1>4, ShownFacts
<1>7. raised.kind = "api" /\ raised.status \notin DefaultStatuses => e.message.text = raised.message.text
    BY <1>2, <1>4 DEF Raised!SwaggerMessage
<1>8. hop' \in 0 .. MaxHops /\ e.message.depth <= hop'
    BY <1>1, <1>2, <1>4, RaisedAssumed
<1> QED
    BY <1>1, <1>2, <1>4, <1>5, <1>6, <1>7, <1>8, ErrorThrown

LEMMA ErrorsInit == RequestsInit => Raised!ErrorsInv
    BY RaisedAssumed
       DEF RequestsInit, Raised!Init, Raised!ErrorsInv, Raised!TypeOK, Raised!ThrownAmounts,
           Raised!InterceptedAmounts, Raised!AnswersAmount

LEMMA ErrorsStep ==
    Raised!ErrorsInv /\ [RequestsNext]_<<part, vars, errorVars, callVars, traceVars>> => Raised!ErrorsInv'
<1> SUFFICES ASSUME Raised!ErrorsInv, [RequestsNext]_<<part, vars, errorVars, callVars, traceVars>>
             PROVE  Raised!ErrorsInv'
    OBVIOUS
<1>1. Raised!Next \/ UNCHANGED errorVars
    BY DEF RequestsNext
<1>2. CASE Raised!Finish
    BY <1>2, RaisedAssumed
       DEF Raised!Finish, Raised!ErrorsInv, Raised!TypeOK, Raised!ThrownAmounts, Raised!InterceptedAmounts,
           Raised!AnswersAmount
<1>3. CASE UNCHANGED errorVars
  <2>1. Raised!TypeOK' /\ errorAt' = errorAt /\ raised' = raised /\ error' = error
    BY <1>3 DEF errorVars, Raised!ErrorsInv, Raised!TypeOK
  <2>2. /\ hop' = hop /\ hop \in 0 .. MaxHops /\ (Raised!GetStatusCode(error))' = Raised!GetStatusCode(error)
        /\ (Raised!GetStatus(error))' = Raised!GetStatus(error)
        /\ \A s : (Raised!GetMessageThrows(error, s))' = Raised!GetMessageThrows(error, s)
    BY <1>3, <2>1
       DEF errorVars, Raised!ErrorsInv, Raised!TypeOK, Raised!GetStatusCode, Raised!GetStatus,
           Raised!First, Raised!GetMessageThrows, Raised!HasGetResponse
  <2>3. Raised!ThrownAmounts' /\ Raised!InterceptedAmounts'
    <3>1. (Raised!StatusOf(raised))' = Raised!StatusOf(raised)
      BY <2>1 DEF Raised!StatusOf
    <3> QED
      BY <2>1, <2>2, <3>1, ErrorKnown DEF Raised!ThrownAmounts, Raised!InterceptedAmounts, Raised!Amounts
  <2>4. Raised!AnswersAmount'
    BY <1>3
       DEF errorVars, Raised!ErrorsInv, Raised!AnswersAmount, Raised!StatusSurvives, Raised!DocumentedMessages,
           Raised!StatusOf, Raised!SwaggerMessage
  <2>5. (Raised!StatusOf(raised))' = Raised!StatusOf(raised)
    BY <2>1 DEF Raised!StatusOf
  <2> QED
    BY <2>1, <2>3, <2>4, <2>5 DEF Raised!ErrorsInv
<1> QED
    BY <1>1, <1>2, <1>3, ErrorRaise, ErrorIntercept, ErrorCatch, ErrorReceive DEF Raised!Next

(***************************************************************************)
(* Through however many applications an error comes, each answers it, with *)
(* the status it was raised with and the message Swagger shows for it.     *)
(***************************************************************************)
THEOREM ErrorsOfRequests == RequestsSpec => []ErrorsSurvive
<1>1. Raised!ErrorsInv => ErrorsSurvive
  <2> SUFFICES ASSUME Raised!ErrorsInv PROVE ErrorsSurvive
      OBVIOUS
  <2>1. Raised!StatusSurvives /\ Raised!DocumentedMessages
      BY DEF Raised!ErrorsInv, Raised!AnswersAmount, Raised!StatusSurvives, Raised!DocumentedMessages
  <2>2. Raised!FilterAnswers
      BY DEF Raised!ErrorsInv, Raised!InterceptedAmounts, Raised!Amounts, Raised!FilterAnswers
  <2> QED
      BY <2>1, <2>2 DEF ErrorsSurvive, Raised!ErrorsInv
<1> QED
    BY <1>1, ErrorsInit, ErrorsStep, PTL DEF RequestsSpec

-----------------------------------------------------------------------------
(***************************************************************************)
(* HttpCalls.                                                              *)
(***************************************************************************)
LEMMA CallsAssumed ==
    /\ Retries \in Nat \ {0} /\ Delay \in Nat \ {0} /\ Timeout \in Nat \ {0}
    /\ Http!Attempts = 0 .. Retries
    BY RequestsAssumption DEF Http!HttpCallsAssumption, Http!Attempts

LEMMA Pauses == ASSUME NEW a \in 0 .. Retries, a < Retries PROVE Delay * (a + 1) \in 1 .. Delay * Retries
<1> DEFINE d == Retries - (a + 1)
<1>1. d \in Nat /\ Retries = (a + 1) + d /\ Delay \in Nat /\ Delay > 0 /\ a \in Nat
    BY CallsAssumed
<1> HIDE DEF d
<1>2. Delay * Retries = Delay * (a + 1) + Delay * d /\ Delay * d \in Nat /\ Delay * (a + 1) \in Nat
    BY <1>1
<1>3. Delay * (a + 1) = Delay * a + Delay /\ Delay * a \in Nat
    BY <1>1
<1> QED
    BY <1>1, <1>2, <1>3

JobRecord == [at : {"none", "running", "ended"}, left : 0 .. Timeout, open : BOOLEAN]

LEMMA CallsTyped ==
    ASSUME Http!TypeOK
    PROVE  /\ attempt \in 0 .. Retries /\ wait \in 0 .. Delay * Retries /\ left \in 0 .. Timeout
           /\ callAnswer \in {"none", "ok", "error", "timeout"}
           /\ job \in [0 .. Retries -> JobRecord] /\ heard \in [0 .. Retries -> Http!Outcomes \cup {"none"}]
           /\ \A e \in effects : e[1] \in 0 .. Retries
           /\ \A k \in 0 .. Retries : job[k] \in JobRecord
    BY CallsAssumed DEF Http!TypeOK, JobRecord

\* What the caller hears of the attempt it is waiting for or could not make
LEMMA HeardFacts ==
    ASSUME Http!TypeOK, NEW outcome \in Http!Outcomes, Http!Hear(outcome)
    PROVE  /\ heard' = [heard EXCEPT ![attempt] = outcome] /\ attempt' = attempt /\ left' = left
           /\ heard' \in [0 .. Retries -> Http!Outcomes \cup {"none"}]
           /\ wait' \in 0 .. Delay * Retries
           /\ callAnswer' \in {"none", "ok", "error", "timeout"}
           /\ callAnswer # "none" => callAnswer' = callAnswer
           /\ \/ /\ callAt' = "pausing" /\ callAnswer' = callAnswer /\ attempt < Retries /\ wait' > 0
                 /\ outcome \notin {"ok", "failed"}
              \/ /\ callAt' = "over"
                 /\ outcome = "timeout" => attempt = Retries
<1>1. attempt < Retries => Delay * (attempt + 1) \in 1 .. Delay * Retries
    BY CallsTyped, Pauses
<1> DEFINE pause == Delay * (attempt + 1)
           most == Delay * Retries
<1>2. attempt < Retries => pause \in 1 .. most
    BY <1>1
<1>3. /\ heard' = [heard EXCEPT ![attempt] = outcome] /\ attempt' = attempt /\ left' = left
      /\ IF Http!Retryable(outcome) /\ attempt < Retries
         THEN callAt' = "pausing" /\ wait' = pause /\ callAnswer' = callAnswer
         ELSE callAt' = "over" /\ Http!Respond(IF outcome = "ok" THEN "ok" ELSE "error") /\ wait' = wait
    BY DEF Http!Hear
<1>4. attempt \in 0 .. Retries /\ wait \in 0 .. most /\ Retries \in Nat /\ most \in Nat
    BY CallsTyped, CallsAssumed
<1> HIDE DEF pause, most
<1>5. CASE Http!Retryable(outcome) /\ attempt < Retries
    BY <1>2, <1>3, <1>4, <1>5, CallsTyped DEF Http!Retryable, most
<1>6. CASE ~(Http!Retryable(outcome) /\ attempt < Retries)
    BY <1>3, <1>4, <1>6, CallsTyped DEF Http!Retryable, Http!Respond, most
<1> QED
    BY <1>5, <1>6

\* The invariant without its abbreviations
LEMMA CallKnown ==
    ASSUME Http!HttpCallsInv
    PROVE  /\ Http!TypeOK
           /\ \A k \in 0 .. Retries :
                /\ job[k].at # "none" => k < attempt \/ (k = attempt /\ callAt \notin {"idle", "calling"})
                /\ job[k].open => k = attempt /\ callAt = "waiting" /\ job[k].at = "running"
                /\ job[k].at = "running" /\ ~job[k].open => heard[k] \in {"reset", "timeout"}
                /\ job[k].open => \/ callAnswer = "timeout" \/ job[k].left > left
                                  \/ attempt = 0 /\ job[k].left = left
                /\ heard[k] = "timeout" => \/ callAnswer = "timeout"
                                           \/ callAnswer = "none" /\ callAt = "pausing" /\ wait > 0 /\ left = 0
           /\ \A e \in effects :
                /\ job[e[1]].at = "ended"
                /\ e[1] < attempt \/ (e[1] = attempt /\ callAt = "pausing") => heard[e[1]] \in {"reset", "timeout"}
                /\ e[2] \in {"ok", "error"} => heard[e[1]] \in {"reset", "timeout"}
           /\ callAnswer \in {"ok", "error"} => callAt = "over"
           /\ attempt > 0 => left < Timeout
           /\ callAt = "pausing" => attempt < Retries /\ (wait > 0 \/ left < Timeout)
    BY CallsAssumed
       DEF Http!HttpCallsInv, Http!JobsAreOfAttempts, Http!EffectsAreOfJobs, Http!LateEffectsAreGivenUp,
           Http!AnswersAreInTime, Http!GaveUp, Http!TriedAgain

\* The connection of the attempt that is waited for ends, with its handler or before
LEMMA CallReplied ==
    ASSUME Http!HttpCallsInv, NEW k \in 0 .. Retries, job[k].open,
           NEW j \in JobRecord, ~j.open, job' = [job EXCEPT ![k] = j],
           NEW outcome \in Http!Outcomes, Http!Hear(outcome),
           \/ j.at = "running" /\ outcome \in {"reset", "timeout"} /\ effects' = effects
           \/ j.at = "ended" /\ outcome # "timeout" /\ effects' = effects
           \/ j.at = "ended" /\ outcome \in {"ok", "failed"} /\ effects' = effects \cup {<<k, callAnswer>>},
           outcome = "timeout" => job[k].left = 0
    PROVE  Http!HttpCallsInv'
<1>1. Http!TypeOK
    BY CallKnown
<1>2. k = attempt /\ callAt = "waiting" /\ job[k].at = "running" /\ callAnswer \in {"none", "timeout"}
    BY <1>1, CallKnown, CallsTyped
<1>3. /\ heard' = [heard EXCEPT ![attempt] = outcome] /\ attempt' = attempt /\ left' = left
      /\ heard' \in [0 .. Retries -> Http!Outcomes \cup {"none"}]
      /\ callAnswer # "none" => callAnswer' = callAnswer
      /\ \/ /\ callAt' = "pausing" /\ callAnswer' = callAnswer /\ attempt < Retries /\ wait' > 0
            /\ outcome \notin {"ok", "failed"}
         \/ callAt' = "over" /\ (outcome = "timeout" => attempt = Retries)
    BY <1>1, HeardFacts
<1>4. /\ job \in [0 .. Retries -> JobRecord] /\ job' \in [0 .. Retries -> JobRecord] /\ job'[k] = j
      /\ \A n \in 0 .. Retries \ {k} : job'[n] = job[n] /\ heard'[n] = heard[n]
      /\ heard'[k] = outcome
    BY <1>1, <1>2, <1>3, CallsTyped
<1>5. Http!TypeOK'
  <2>1. effects' \subseteq Http!Attempts \X {"none", "ok", "error", "timeout"}
    BY <1>1, CallsAssumed DEF Http!TypeOK
  <2>2. wait' \in 0 .. Delay * Retries /\ callAnswer' \in {"none", "ok", "error", "timeout"}
    BY <1>1, HeardFacts
  <2> QED
    BY <1>1, <1>3, <1>4, <2>1, <2>2, CallsAssumed DEF Http!TypeOK, JobRecord
<1>6. Http!JobsAreOfAttempts'
    BY <1>2, <1>3, <1>4, CallKnown, CallsAssumed DEF Http!JobsAreOfAttempts, Http!GaveUp
<1>7. ASSUME NEW e \in effects'
      PROVE  /\ job'[e[1]].at = "ended"
             /\ e[1] < attempt \/ (e[1] = attempt /\ callAt' = "pausing") => heard'[e[1]] \in {"reset", "timeout"}
             /\ e[2] \in {"ok", "error"} => heard'[e[1]] \in {"reset", "timeout"}
  <2>1. CASE e \in effects
    <3>1. e[1] \in 0 .. Retries /\ e[1] # k
      BY <1>1, <1>2, <2>1, CallsTyped, CallKnown
    <3> QED
      BY <1>2, <1>4, <2>1, <3>1, CallKnown
  <2>2. CASE e \notin effects
    <3>1. e[1] = k /\ e[2] = callAnswer /\ j.at = "ended" /\ callAt' = "over"
      BY <1>3, <1>7, <2>2
    <3> QED
      BY <1>2, <1>4, <3>1
  <2> QED
    BY <2>1, <2>2
<1>8. Http!EffectsAreOfJobs' /\ Http!LateEffectsAreGivenUp'
    BY <1>3, <1>7 DEF Http!EffectsAreOfJobs, Http!LateEffectsAreGivenUp, Http!GaveUp, Http!TriedAgain
<1>9. Http!AnswersAreInTime'
  <2>1. callAnswer' \in {"ok", "error"} => callAt' = "over"
    BY <1>2, <1>3
  <2>2. \A n \in 0 .. Retries : ~job'[n].open
    BY <1>2, <1>4, CallKnown
  <2>3. ASSUME outcome = "timeout"
        PROVE  \/ callAnswer' = "timeout"
               \/ callAnswer' = "none" /\ callAt' = "pausing" /\ wait' > 0 /\ left' = 0
    <3>1. job[k].left = 0 /\ left \in Nat
      BY <1>1, <2>3, CallsTyped
    <3>2. callAnswer = "timeout" \/ (attempt = 0 /\ left = 0)
      BY <3>1, CallKnown
    <3> QED
      BY <1>2, <1>3, <2>3, <3>2, CallsAssumed
  <2>4. ASSUME NEW n \in 0 .. Retries, n # k, heard'[n] = "timeout" PROVE callAnswer' = "timeout"
    BY <1>2, <1>3, <1>4, <2>4, CallKnown
  <2>5. attempt' > 0 => left' < Timeout
    BY <1>3, CallKnown
  <2> QED
    BY <1>3, <1>4, <2>1, <2>2, <2>3, <2>4, <2>5, CallsAssumed DEF Http!AnswersAreInTime
<1> QED
    BY <1>5, <1>6, <1>8, <1>9 DEF Http!HttpCallsInv

LEMMA CallBreaks ==
    ASSUME Http!HttpCallsInv, NEW k \in 0 .. Retries, Http!Break(k) \/ Http!JobTimeout(k)
    PROVE  Http!HttpCallsInv'
<1> DEFINE j == [job[k] EXCEPT !.open = FALSE]
<1>1. PICK outcome \in {"reset", "timeout"} :
        /\ job[k].at = "running" /\ job[k].open /\ effects' = effects
        /\ job' = [job EXCEPT ![k].open = FALSE] /\ Http!Hear(outcome)
        /\ outcome = "timeout" => job[k].left = 0
    BY DEF Http!Break, Http!JobTimeout, Http!Reply
<1>2. job' = [job EXCEPT ![k] = j] /\ job[k] \in JobRecord
    BY <1>1, CallKnown, CallsTyped
<1>3. j \in JobRecord /\ ~j.open /\ j.at = "running"
    BY <1>1, <1>2 DEF JobRecord
<1> HIDE DEF j
<1>4. outcome \in Http!Outcomes
    BY DEF Http!Outcomes
<1> QED
    BY <1>1, <1>2, <1>3, <1>4, CallReplied

LEMMA CallWorks ==
    ASSUME Http!HttpCallsInv, NEW k \in 0 .. Retries, Http!Work(k)
    PROVE  Http!HttpCallsInv'
<1> DEFINE j == [job[k] EXCEPT !.at = "ended", !.open = FALSE]
<1>1. /\ job[k].at = "running" /\ job' = [job EXCEPT ![k] = j]
      /\ \/ effects' = effects \cup {<<k, callAnswer>>} /\ \E o \in {"ok", "failed"} : Http!Reply(k, o)
         \/ effects' = effects /\ \E o \in {"failed", "unavailable"} : Http!Reply(k, o)
    BY DEF Http!Work, Http!Effect
<1>2. job[k] \in JobRecord /\ Http!TypeOK
    BY CallKnown, CallsTyped
<1>3. j \in JobRecord /\ ~j.open /\ j.at = "ended"
    BY <1>2 DEF JobRecord
<1> HIDE DEF j
<1>4. CASE job[k].open
  <2>1. PICK o \in {"ok", "failed", "unavailable"} :
            /\ Http!Hear(o)
            /\ \/ effects' = effects
               \/ o \in {"ok", "failed"} /\ effects' = effects \cup {<<k, callAnswer>>}
    BY <1>1, <1>4 DEF Http!Reply
  <2>2. o \in Http!Outcomes
    BY DEF Http!Outcomes
  <2> QED
    BY <1>1, <1>3, <1>4, <2>1, <2>2, CallReplied
<1>5. CASE ~job[k].open
  <2>1. /\ callAt' = callAt /\ attempt' = attempt /\ wait' = wait /\ left' = left /\ callAnswer' = callAnswer
        /\ heard' = heard
        /\ effects' = effects \/ effects' = effects \cup {<<k, callAnswer>>}
    BY <1>1, <1>5 DEF Http!Reply
  <2>2. heard[k] \in {"reset", "timeout"}
    BY <1>1, <1>5, CallKnown
  <2>3. /\ job' \in [0 .. Retries -> JobRecord] /\ job'[k] = j
        /\ \A n \in 0 .. Retries \ {k} : job'[n] = job[n]
    BY <1>1, <1>2, <1>3, CallsTyped
  <2>4. Http!TypeOK'
    BY <1>2, <2>1, <2>3, CallsAssumed DEF Http!TypeOK, JobRecord
  <2>5. Http!JobsAreOfAttempts'
    BY <1>1, <1>3, <2>1, <2>3, CallKnown, CallsAssumed DEF Http!JobsAreOfAttempts, Http!GaveUp
  <2>6. \A e \in effects : e[1] \in 0 .. Retries /\ job'[e[1]].at = "ended"
    BY <1>2, <1>3, <2>3, CallsTyped, CallKnown
  <2>7. Http!EffectsAreOfJobs' /\ Http!LateEffectsAreGivenUp'
    BY <1>3, <2>1, <2>2, <2>3, <2>6, CallKnown
       DEF Http!EffectsAreOfJobs, Http!LateEffectsAreGivenUp, Http!GaveUp, Http!TriedAgain
  <2>8. \A n \in 0 .. Retries : job'[n].open => job'[n] = job[n]
    BY <1>3, <2>3
  <2>9. Http!AnswersAreInTime'
    BY <2>1, <2>8, CallKnown, CallsAssumed DEF Http!AnswersAreInTime
  <2> QED
    BY <2>4, <2>5, <2>7, <2>9 DEF Http!HttpCallsInv
<1> QED
    BY <1>4, <1>5

LEMMA CallCalls == ASSUME Http!HttpCallsInv, Http!Call PROVE Http!HttpCallsInv'
<1>0. /\ callAt = "calling" /\ effects' = effects /\ Http!TypeOK /\ callAnswer \in {"none", "timeout"}
      /\ attempt \in 0 .. Retries
    BY CallKnown, CallsTyped DEF Http!Call
<1>1. /\ \A k \in 0 .. Retries : ~job[k].open /\ (job[k].at # "none" => k < attempt)
      /\ \A e \in effects : e[1] \in 0 .. Retries /\ e[1] < attempt /\ job[e[1]].at = "ended"
                            /\ heard[e[1]] \in {"reset", "timeout"}
    BY <1>0, CallKnown, CallsTyped
<1>2. CASE /\ callAt' = "waiting"
           /\ job' = [job EXCEPT ![attempt] = [at |-> "running", left |-> Timeout, open |-> TRUE]]
           /\ attempt' = attempt /\ wait' = wait /\ left' = left /\ callAnswer' = callAnswer /\ heard' = heard
  <2> DEFINE j == [at |-> "running", left |-> Timeout, open |-> TRUE]
  <2>1. j \in JobRecord /\ j.at = "running" /\ j.left = Timeout /\ j.open
    BY CallsAssumed DEF JobRecord
  <2>2. job' = [job EXCEPT ![attempt] = j]
    BY <1>2
  <2> HIDE DEF j
  <2>3. /\ job' \in [0 .. Retries -> JobRecord] /\ job'[attempt] = j
        /\ \A n \in 0 .. Retries \ {attempt} : job'[n] = job[n]
    BY <1>0, <2>1, <2>2, CallsTyped
  <2>4. Http!TypeOK'
    BY <1>0, <1>2, <2>3, CallsAssumed DEF Http!TypeOK, JobRecord
  <2>5. Http!JobsAreOfAttempts'
    BY <1>0, <1>1, <1>2, <2>1, <2>3, CallKnown, CallsAssumed DEF Http!JobsAreOfAttempts, Http!GaveUp
  <2>6. Http!EffectsAreOfJobs' /\ Http!LateEffectsAreGivenUp'
    BY <1>0, <1>1, <1>2, <2>3, CallKnown
       DEF Http!EffectsAreOfJobs, Http!LateEffectsAreGivenUp, Http!GaveUp, Http!TriedAgain
  <2>7. attempt > 0 => left < Timeout
    BY CallKnown
  <2>8. left \in 0 .. Timeout
    BY <1>0, CallsTyped
  <2>9. Http!AnswersAreInTime'
    BY <1>0, <1>1, <1>2, <2>1, <2>3, <2>7, <2>8, CallKnown, CallsAssumed DEF Http!AnswersAreInTime
  <2> QED
    BY <2>4, <2>5, <2>6, <2>9 DEF Http!HttpCallsInv
<1>3. CASE \E o \in {"unreachable", "reset"} : Http!Hear(o) /\ job' = job
  <2>1. PICK o \in {"unreachable", "reset"} : Http!Hear(o) /\ job' = job
    BY <1>3
  <2>2. o \in Http!Outcomes
    BY DEF Http!Outcomes
  <2>3. /\ heard' = [heard EXCEPT ![attempt] = o] /\ attempt' = attempt /\ left' = left
        /\ heard' \in [0 .. Retries -> Http!Outcomes \cup {"none"}]
        /\ wait' \in 0 .. Delay * Retries /\ callAnswer' \in {"none", "ok", "error", "timeout"}
        /\ callAnswer # "none" => callAnswer' = callAnswer
        /\ \/ callAt' = "pausing" /\ callAnswer' = callAnswer /\ attempt < Retries /\ wait' > 0
           \/ callAt' = "over"
    BY <1>0, <2>1, <2>2, HeardFacts
  <2>4. heard'[attempt] = o /\ \A n \in 0 .. Retries \ {attempt} : heard'[n] = heard[n]
    BY <1>0, <2>3, CallsTyped
  <2>5. Http!TypeOK'
    BY <1>0, <2>1, <2>3, CallsAssumed DEF Http!TypeOK
  <2>6. Http!JobsAreOfAttempts'
    BY <1>0, <1>1, <2>1, <2>3, <2>4, CallKnown, CallsAssumed DEF Http!JobsAreOfAttempts, Http!GaveUp
  <2>7. Http!EffectsAreOfJobs' /\ Http!LateEffectsAreGivenUp'
    BY <1>0, <1>1, <2>1, <2>3, <2>4
       DEF Http!EffectsAreOfJobs, Http!LateEffectsAreGivenUp, Http!GaveUp, Http!TriedAgain
  <2>8. \A n \in 0 .. Retries : heard'[n] = "timeout" => callAnswer = "timeout"
    BY <1>0, <2>4, CallKnown
  <2>9. Http!AnswersAreInTime'
    BY <1>0, <1>1, <2>1, <2>3, <2>8, CallKnown, CallsAssumed DEF Http!AnswersAreInTime
  <2> QED
    BY <2>5, <2>6, <2>7, <2>9 DEF Http!HttpCallsInv
<1>4. CASE /\ callAt' = "lost" /\ attempt' = attempt /\ wait' = wait /\ left' = left
           /\ callAnswer' = callAnswer /\ job' = job /\ heard' = heard
  <2>1. Http!TypeOK'
    BY <1>0, <1>4 DEF Http!TypeOK
  <2>2. Http!JobsAreOfAttempts' /\ Http!EffectsAreOfJobs' /\ Http!LateEffectsAreGivenUp'
    BY <1>0, <1>1, <1>4, CallKnown, CallsAssumed
       DEF Http!JobsAreOfAttempts, Http!EffectsAreOfJobs, Http!LateEffectsAreGivenUp, Http!GaveUp, Http!TriedAgain
  <2>3. Http!AnswersAreInTime'
    BY <1>0, <1>1, <1>4, CallKnown, CallsAssumed DEF Http!AnswersAreInTime
  <2> QED
    BY <2>1, <2>2, <2>3 DEF Http!HttpCallsInv
<1> QED
    BY <1>2, <1>3, <1>4 DEF Http!Call, Http!JobLimit

\* Steps that leave the jobs alone
LEMMA CallTimers ==
    ASSUME Http!HttpCallsInv, Http!Request \/ Http!Resume \/ Http!TimeOut
    PROVE  Http!HttpCallsInv'
<1>0. /\ Http!TypeOK /\ attempt \in 0 .. Retries /\ wait \in 0 .. Delay * Retries /\ left \in 0 .. Timeout
      /\ callAnswer \in {"none", "ok", "error", "timeout"}
      /\ \A e \in effects : e[1] \in 0 .. Retries
    BY CallKnown, CallsTyped
<1>1. /\ job' = job /\ heard' = heard /\ effects' = effects /\ wait' = wait /\ left' = left
      /\ \/ callAt = "idle" /\ callAt' = "calling" /\ attempt' = attempt /\ callAnswer' = callAnswer
         \/ callAt = "pausing" /\ wait = 0 /\ callAt' = "calling" /\ attempt' = attempt + 1 /\ callAnswer' = callAnswer
         \/ callAt' = callAt /\ attempt' = attempt /\ callAnswer = "none" /\ callAnswer' = "timeout"
    BY DEF Http!Request, Http!Resume, Http!TimeOut
<1>2. attempt' \in 0 .. Retries
    BY <1>0, <1>1, CallKnown, CallsAssumed
<1>3. Http!TypeOK'
    BY <1>0, <1>1, <1>2, CallsAssumed DEF Http!TypeOK
<1>4. Http!JobsAreOfAttempts'
    BY <1>0, <1>1, CallKnown, CallsAssumed DEF Http!JobsAreOfAttempts, Http!GaveUp
<1>5. Http!EffectsAreOfJobs' /\ Http!LateEffectsAreGivenUp'
    BY <1>0, <1>1, CallKnown
       DEF Http!EffectsAreOfJobs, Http!LateEffectsAreGivenUp, Http!GaveUp, Http!TriedAgain
<1>6. Http!AnswersAreInTime'
    BY <1>0, <1>1, <1>2, CallKnown, CallsAssumed DEF Http!AnswersAreInTime
<1> QED
    BY <1>3, <1>4, <1>5, <1>6 DEF Http!HttpCallsInv

LEMMA CallTick == ASSUME Http!HttpCallsInv, Http!Tick PROVE Http!HttpCallsInv'
<1>0. /\ Http!TypeOK /\ attempt \in 0 .. Retries /\ wait \in 0 .. Delay * Retries /\ left \in 0 .. Timeout
      /\ callAnswer \in {"none", "ok", "error", "timeout"}
      /\ job \in [0 .. Retries -> JobRecord] /\ \A k \in 0 .. Retries : job[k] \in JobRecord
      /\ \A e \in effects : e[1] \in 0 .. Retries
    BY CallKnown, CallsTyped
<1>1. /\ callAt' = callAt /\ attempt' = attempt /\ callAnswer' = callAnswer /\ heard' = heard /\ effects' = effects
      /\ left' = Http!Less(left) /\ wait' = Http!Less(wait)
      /\ job' = [k \in 0 .. Retries |-> [job[k] EXCEPT !.left = IF job[k].open THEN Http!Less(@) ELSE 0]]
      /\ ~(callAt = "pausing" /\ wait = 0) /\ (left = 0 => callAnswer # "none")
      /\ \A k \in 0 .. Retries : ~(job[k].open /\ job[k].left = 0)
    BY CallsAssumed DEF Http!Tick, Http!Due
<1>2. left' \in 0 .. Timeout /\ (left = 0 => left' = 0) /\ (left > 0 => left' = left - 1)
    BY <1>0, <1>1, CallsAssumed DEF Http!Less
<1>3. wait' \in 0 .. Delay * Retries
  <2> DEFINE most == Delay * Retries
  <2>1. most \in Nat /\ wait \in 0 .. most
    BY <1>0, CallsAssumed
  <2> HIDE DEF most
  <2>2. wait' \in 0 .. most
    BY <1>1, <2>1 DEF Http!Less
  <2> QED
    BY <2>2 DEF most
<1>4. ASSUME NEW k \in 0 .. Retries
      PROVE  /\ job'[k] \in JobRecord /\ job'[k].at = job[k].at /\ job'[k].open = job[k].open
             /\ job[k].open => job'[k].left = job[k].left - 1
  <2> DEFINE rest == IF job[k].open THEN Http!Less(job[k].left) ELSE 0
  <2>1. job[k].left \in 0 .. Timeout
    BY <1>0 DEF JobRecord
  <2>2. rest \in 0 .. Timeout /\ (job[k].open => rest = job[k].left - 1)
    BY <1>1, <2>1, CallsAssumed DEF Http!Less
  <2>3. job'[k] = [job[k] EXCEPT !.left = rest]
    BY <1>1
  <2> HIDE DEF rest
  <2> QED
    BY <1>0, <2>2, <2>3 DEF JobRecord
<1>5. Http!TypeOK'
  <2>1. job' \in [0 .. Retries -> JobRecord]
    BY <1>1, <1>4
  <2> QED
    BY <1>0, <1>1, <1>2, <1>3, <2>1, CallsAssumed DEF Http!TypeOK, JobRecord
<1>6. Http!JobsAreOfAttempts'
    BY <1>1, <1>4, CallKnown, CallsAssumed DEF Http!JobsAreOfAttempts, Http!GaveUp
<1>7. Http!EffectsAreOfJobs' /\ Http!LateEffectsAreGivenUp'
    BY <1>0, <1>1, <1>4, CallKnown
       DEF Http!EffectsAreOfJobs, Http!LateEffectsAreGivenUp, Http!GaveUp, Http!TriedAgain
<1>8. Http!AnswersAreInTime'
  <2>1. ASSUME NEW k \in 0 .. Retries, job'[k].open
        PROVE  callAnswer' = "timeout" \/ job'[k].left > left' \/ (attempt' = 0 /\ job'[k].left = left')
    <3>1. job[k].open /\ job'[k].left = job[k].left - 1 /\ callAt = "waiting"
      BY <1>4, <2>1, CallKnown
    <3>2. job[k].left \in 0 .. Timeout
      BY <1>0 DEF JobRecord
    <3>3. CASE callAnswer = "timeout"
      BY <1>1, <3>3
    <3>4. CASE callAnswer # "timeout"
      <4>1. callAnswer = "none" /\ left > 0
        BY <1>0, <1>1, <3>1, <3>4, CallKnown
      <4>2. job[k].left > left \/ (attempt = 0 /\ job[k].left = left)
        BY <3>1, <3>4, CallKnown
      <4> QED
        BY <1>0, <1>1, <1>2, <3>1, <3>2, <4>1, <4>2
    <3> QED
      BY <3>3, <3>4
  <2>2. \A k \in 0 .. Retries : heard'[k] = "timeout" => callAnswer' = "timeout"
    BY <1>1, CallKnown
  <2>3. left' < Timeout
    BY <1>0, <1>2, CallsAssumed
  <2> QED
    BY <1>1, <2>1, <2>2, <2>3, CallKnown, CallsAssumed DEF Http!AnswersAreInTime
<1> QED
    BY <1>5, <1>6, <1>7, <1>8 DEF Http!HttpCallsInv

\* Nothing has happened to a request that has not begun
LEMMA CallsIdle ==
    ASSUME callAt' = "idle", attempt' = 0, wait' = 0, left' = Timeout, callAnswer' = "none",
           job' = [k \in 0 .. Retries |-> Http!NoJob], heard' = [k \in 0 .. Retries |-> "none"], effects' = {}
    PROVE  Http!HttpCallsInv'
<1>1. Http!NoJob \in JobRecord /\ Http!NoJob.at = "none" /\ ~Http!NoJob.open
    BY CallsAssumed DEF Http!NoJob, JobRecord
<1>2. 0 \in 0 .. Delay * Retries
    BY CallsAssumed
<1>3. Http!TypeOK'
    BY <1>1, <1>2, CallsAssumed DEF Http!TypeOK, JobRecord
<1> QED
    BY <1>1, <1>3, CallsAssumed
       DEF Http!HttpCallsInv, Http!JobsAreOfAttempts, Http!EffectsAreOfJobs, Http!LateEffectsAreGivenUp,
           Http!AnswersAreInTime

LEMMA CallsInit == RequestsInit => Http!HttpCallsInv
<1> SUFFICES ASSUME RequestsInit PROVE Http!HttpCallsInv
    OBVIOUS
<1>1. Http!Init
    BY DEF RequestsInit
<1>2. Http!NoJob \in JobRecord /\ Http!NoJob.at = "none" /\ ~Http!NoJob.open
    BY CallsAssumed DEF Http!NoJob, JobRecord
<1>3. 0 \in 0 .. Delay * Retries
    BY CallsAssumed
<1>4. Http!TypeOK
    BY <1>1, <1>2, <1>3, CallsAssumed DEF Http!Init, Http!TypeOK, JobRecord
<1> QED
    BY <1>1, <1>2, <1>4, CallsAssumed
       DEF Http!Init, Http!HttpCallsInv, Http!JobsAreOfAttempts, Http!EffectsAreOfJobs, Http!LateEffectsAreGivenUp,
           Http!AnswersAreInTime

LEMMA CallsStep ==
    Http!HttpCallsInv /\ [RequestsNext]_<<part, vars, errorVars, callVars, traceVars>> => Http!HttpCallsInv'
<1> SUFFICES ASSUME Http!HttpCallsInv, [RequestsNext]_<<part, vars, errorVars, callVars, traceVars>>
             PROVE  Http!HttpCallsInv'
    OBVIOUS
<1>1. Http!Next \/ UNCHANGED callVars
    BY DEF RequestsNext
<1>2. CASE Http!Again
    BY <1>2, CallsIdle, CallsAssumed DEF Http!Again
<1>3. CASE \E k \in Http!Attempts : Http!Work(k) \/ Http!Break(k) \/ Http!JobTimeout(k)
    BY <1>3, CallWorks, CallBreaks, CallsAssumed
<1>4. CASE UNCHANGED callVars
    BY <1>4
       DEF callVars, Http!HttpCallsInv, Http!TypeOK, Http!JobsAreOfAttempts, Http!EffectsAreOfJobs,
           Http!LateEffectsAreGivenUp, Http!AnswersAreInTime, Http!GaveUp, Http!TriedAgain
<1> QED
    BY <1>1, <1>2, <1>3, <1>4, CallCalls, CallTimers, CallTick DEF Http!Next

(***************************************************************************)
(* Whatever connections break and timers go off, with any number of        *)
(* retries, a call that takes effect twice, or after the client was        *)
(* answered, was given up by its caller before; and once the application   *)
(* called timed out, so has the client.                                    *)
(***************************************************************************)
THEOREM CallsOfRequests == RequestsSpec => []RepeatedAndLateEffectsAreGivenUp
<1>1. Http!HttpCallsInv => RepeatedAndLateEffectsAreGivenUp
  <2> SUFFICES ASSUME Http!HttpCallsInv PROVE RepeatedAndLateEffectsAreGivenUp
      OBVIOUS
  <2>1. Http!EffectsRepeatUnheard
    <3>1. ASSUME NEW d \in effects, NEW e \in effects, d[1] < e[1] PROVE heard[d[1]] \in {"reset", "timeout"}
      <4>1. d[1] \in 0 .. Retries /\ e[1] \in 0 .. Retries /\ attempt \in 0 .. Retries
        BY CallKnown, CallsTyped
      <4>2. job[e[1]].at = "ended"
        BY CallKnown
      <4>3. e[1] <= attempt
        BY <4>1, <4>2, CallKnown
      <4>4. d[1] < attempt
        BY <3>1, <4>1, <4>3, CallsAssumed
      <4> QED
        BY <4>4, CallKnown
    <3> QED
      BY <3>1 DEF Http!EffectsRepeatUnheard, Http!Effective
  <2>2. Http!TimeoutsComeTooLate
    BY CallKnown, CallsAssumed DEF Http!TimeoutsComeTooLate
  <2> QED
    BY <2>1, <2>2 DEF Http!HttpCallsInv, RepeatedAndLateEffectsAreGivenUp
<1> QED
    BY <1>1, CallsInit, CallsStep, PTL DEF RequestsSpec

-----------------------------------------------------------------------------
(***************************************************************************)
(* Routes.                                                                 *)
(***************************************************************************)
Words ==
    {"health", "users", "me", "search", "change-password", "roles", "add-permissions", "remove-permissions",
     "permissions", "cats", "login", "refresh", "logout", "reset-password", "send-email"}
Paths ==
    {<<Is(p)>> : p \in Words}
        \cup {Is(p) : p \in Words} \X ({Id} \cup {Is(p) : p \in Words} \cup {Glued[p] : p \in Words})

Readers ==
    {"getHello", "listUsers", "me", "searchUser", "getUser", "getRole", "listRoles", "getPermission",
     "listPermissions", "getCat", "listCats"}

\* A route of which what it changes, and whom it calls, is as the invariant says
SafeRoute ==
    {t \in [method : {"GET", "POST", "PUT", "DELETE"}, prefix : {"", "api/v1"}, path : Paths,
            controller : Guarded \cup {"health", "login", "reset-password"}, handler : Writers \cup Callers \cup Readers] :
        t.handler \in Writers => t.controller \in Guarded /\ t.method # "GET"}
QuietRoute == {t \in SafeRoute : t.handler \notin Callers}

LEMMA RouteFacts ==
    ASSUME NEW method \in {"GET", "POST", "PUT", "DELETE"}, NEW prefix \in {"", "api/v1"}, NEW path \in Paths,
           NEW controller \in Guarded \cup {"health", "login", "reset-password"},
           NEW handler \in Writers \cup Callers \cup Readers,
           handler \in Writers => controller \in Guarded /\ method # "GET"
    PROVE  /\ Route(method, prefix, path, controller, handler) \in SafeRoute
           /\ handler \notin Callers => Route(method, prefix, path, controller, handler) \in QuietRoute
    BY DEF Route, SafeRoute, QuietRoute

LEMMA PathFacts ==
    /\ \A p \in Words : <<Is(p)>> \in Paths /\ <<Is(p), Id>> \in Paths
    /\ \A p, q \in Words : <<Is(p), Is(q)>> \in Paths /\ <<Is(p), Glued[q]>> \in Paths
<1>1. ASSUME NEW p \in Words PROVE <<Is(p)>> \in Paths /\ <<Is(p), Id>> \in Paths
    BY DEF Paths
<1>2. ASSUME NEW p \in Words, NEW q \in Words PROVE <<Is(p), Is(q)>> \in Paths /\ <<Is(p), Glued[q]>> \in Paths
    BY DEF Paths
<1> QED
    BY <1>1, <1>2

LEMMA HealthIsQuiet == Health \in QuietRoute
    BY RouteFacts, PathFacts DEF Health, Words, Readers, Writers, Callers, Guarded

LEMMA CatsAreQuiet == CatRoutes \in Seq(QuietRoute)
<1>1. /\ Route("POST",   "api/v1", <<Is("cats")>>, "cats", "createCat") \in QuietRoute
      /\ Route("PUT",    "api/v1", <<Is("cats"), Id>>, "cats", "updateCat") \in QuietRoute
      /\ Route("GET",    "api/v1", <<Is("cats"), Id>>, "cats", "getCat") \in QuietRoute
      /\ Route("GET",    "api/v1", <<Is("cats")>>, "cats", "listCats") \in QuietRoute
      /\ Route("DELETE", "api/v1", <<Is("cats"), Id>>, "cats", "deleteCat") \in QuietRoute
    BY RouteFacts, PathFacts DEF Words, Readers, Writers, Callers, Guarded
<1> QED
    BY <1>1 DEF CatRoutes

LEMMA PermissionsAreQuiet == PermissionRoutes \in Seq(QuietRoute)
<1>1. /\ Route("POST",   "api/v1", <<Is("permissions")>>, "permissions", "createPermission") \in QuietRoute
      /\ Route("PUT",    "api/v1", <<Is("permissions"), Id>>, "permissions", "updatePermission") \in QuietRoute
      /\ Route("GET",    "api/v1", <<Is("permissions"), Id>>, "permissions", "getPermission") \in QuietRoute
      /\ Route("GET",    "api/v1", <<Is("permissions")>>, "permissions", "listPermissions") \in QuietRoute
      /\ Route("DELETE", "api/v1", <<Is("permissions"), Id>>, "permissions", "deletePermission") \in QuietRoute
    BY RouteFacts, PathFacts DEF Words, Readers, Writers, Callers, Guarded
<1> QED
    BY <1>1 DEF PermissionRoutes

LEMMA RolesAreQuiet == RoleRoutes \in Seq(QuietRoute)
<1>1. /\ Route("POST",   "api/v1", <<Is("roles")>>, "roles", "createRole") \in QuietRoute
      /\ Route("PUT",    "api/v1", <<Is("roles"), Id>>, "roles", "updateRole") \in QuietRoute
      /\ Route("GET",    "api/v1", <<Is("roles"), Id>>, "roles", "getRole") \in QuietRoute
      /\ Route("GET",    "api/v1", <<Is("roles")>>, "roles", "listRoles") \in QuietRoute
      /\ Route("DELETE", "api/v1", <<Is("roles"), Id>>, "roles", "deleteRole") \in QuietRoute
      /\ Route("PUT",    "api/v1", <<Is("roles"), Glued["add-permissions"]>>, "roles", "addPermissions") \in QuietRoute
      /\ Route("PUT",    "api/v1", <<Is("roles"), Glued["remove-permissions"]>>, "roles", "removePermissions") \in QuietRoute
    BY RouteFacts, PathFacts DEF Words, Readers, Writers, Callers, Guarded
<1> QED
    BY <1>1 DEF RoleRoutes

LEMMA UsersAreQuiet == UserRoutes \in Seq(QuietRoute)
<1>1. /\ Route("POST",   "api/v1", <<Is("users")>>, "users", "createUser") \in QuietRoute
      /\ Route("PUT",    "api/v1", <<Is("users"), Id>>, "users", "updateUser") \in QuietRoute
      /\ Route("GET",    "api/v1", <<Is("users")>>, "users", "listUsers") \in QuietRoute
      /\ Route("GET",    "api/v1", <<Is("users"), Is("me")>>, "users", "me") \in QuietRoute
      /\ Route("GET",    "api/v1", <<Is("users"), Is("search")>>, "users", "searchUser") \in QuietRoute
      /\ Route("GET",    "api/v1", <<Is("users"), Id>>, "users", "getUser") \in QuietRoute
      /\ Route("PUT",    "api/v1", <<Is("users"), Glued["change-password"]>>, "users", "changePassword") \in QuietRoute
      /\ Route("DELETE", "api/v1", <<Is("users"), Id>>, "users", "deleteUser") \in QuietRoute
    BY RouteFacts, PathFacts DEF Words, Readers, Writers, Callers, Guarded
<1> QED
    BY <1>1 DEF UserRoutes

LEMMA LoginsAreSafe == LoginRoutes \in Seq(SafeRoute)
<1>1. /\ Route("POST", "api/v1", <<Is("login")>>, "login", "login") \in SafeRoute
      /\ Route("POST", "api/v1", <<Is("refresh")>>, "login", "refresh") \in SafeRoute
    BY RouteFacts, PathFacts DEF Words, Readers, Writers, Callers, Guarded
<1> QED
    BY <1>1 DEF LoginRoutes

LEMMA LogoutIsSafe == LogoutRoutes \in Seq(SafeRoute)
<1>1. /\ Route("POST", "api/v1", <<Is("logout")>>, "logout", "logout") \in SafeRoute
    BY RouteFacts, PathFacts DEF Words, Readers, Writers, Callers, Guarded
<1> QED
    BY <1>1 DEF LogoutRoutes

LEMMA ResetsAreSafe == ResetPasswordRoutes \in Seq(SafeRoute)
<1>1. /\ Route("POST", "api/v1", <<Is("reset-password"), Is("send-email")>>, "reset-password", "sendEmail") \in SafeRoute
      /\ Route("PUT",  "api/v1", <<Is("reset-password"), Id>>, "reset-password", "confirmResetPassword") \in SafeRoute
    BY RouteFacts, PathFacts DEF Words, Readers, Writers, Callers, Guarded
<1> QED
    BY <1>1 DEF ResetPasswordRoutes

\* Of all the routes of an application
LEMMA RoutesAreSafe ==
    /\ RoutesOf("user") \in Seq(QuietRoute) /\ RoutesOf("cat") \in Seq(QuietRoute)
    /\ RoutesOf("auth") \in Seq(SafeRoute)
<1>1. <<Health>> \in Seq(QuietRoute) /\ <<Health>> \in Seq(SafeRoute)
    BY HealthIsQuiet DEF QuietRoute
<1>2. /\ RoutesOf("user") = ((<<Health>> \o PermissionRoutes) \o RoleRoutes) \o UserRoutes
      /\ RoutesOf("auth") = ((<<Health>> \o ResetPasswordRoutes) \o LoginRoutes) \o LogoutRoutes
      /\ RoutesOf("cat") = <<Health>> \o CatRoutes
    BY DEF RoutesOf
<1>3. <<Health>> \o CatRoutes \in Seq(QuietRoute)
    BY <1>1, CatsAreQuiet
<1>4. /\ <<Health>> \o PermissionRoutes \in Seq(QuietRoute)
      /\ <<Health>> \o ResetPasswordRoutes \in Seq(SafeRoute)
    BY <1>1, PermissionsAreQuiet, ResetsAreSafe
<1>5. /\ (<<Health>> \o PermissionRoutes) \o RoleRoutes \in Seq(QuietRoute)
      /\ (<<Health>> \o ResetPasswordRoutes) \o LoginRoutes \in Seq(SafeRoute)
    BY <1>4, RolesAreQuiet, LoginsAreSafe
<1>6. /\ ((<<Health>> \o PermissionRoutes) \o RoleRoutes) \o UserRoutes \in Seq(QuietRoute)
      /\ ((<<Health>> \o ResetPasswordRoutes) \o LoginRoutes) \o LogoutRoutes \in Seq(SafeRoute)
    BY <1>5, UsersAreQuiet, LogoutIsSafe
<1> QED
    BY <1>2, <1>3, <1>6

\* Whichever route is taken
LEMMA TakenFacts ==
    ASSUME NEW app \in Applications, NEW n \in 1 .. Len(RoutesOf(app))
    PROVE  LET t == RoutesOf(app)[n] IN
           /\ t.handler \in Handlers
           /\ t.handler \in Writers => t.controller \in Guarded /\ t.method # "GET"
           /\ t.handler \in Callers => app = "auth"
<1>1. RoutesOf(app)[n].handler \in Handlers
    BY DEF Handlers
<1>2. RoutesOf(app) \in Seq(SafeRoute) /\ (app # "auth" => RoutesOf(app) \in Seq(QuietRoute))
    BY RoutesAreSafe DEF Applications, QuietRoute
<1>3. RoutesOf(app)[n] \in SafeRoute /\ (app # "auth" => RoutesOf(app)[n] \in QuietRoute)
    BY <1>2
<1> QED
    BY <1>1, <1>3 DEF SafeRoute, QuietRoute

LEMMA CallsFacts ==
    ASSUME NEW handler
    PROVE  /\ Calls(handler) \in Seq(Calling) /\ Len(Calls(handler)) \in 0 .. 2
           /\ handler \notin Callers => Calls(handler) = <<>>
<1>1. /\ CallTo("GET", "api/v1", <<"users", "search">>) \in Calling
      /\ CallTo("GET", "", <<"find-by">>) \in Calling
      /\ CallTo("GET", "api/vi", <<"users", "find-by">>) \in Calling
      /\ CallTo("POST", "api/vi", <<"users">>) \in Calling
    BY DEF Calling, CallTo
<1>2. handler \in {"login", "refresh"} => Calls(handler) = <<CallTo("GET", "api/v1", <<"users", "search">>)>>
    BY DEF Calls
<1>3. handler = "sendEmail" => Calls(handler) = <<CallTo("GET", "", <<"find-by">>)>>
    BY DEF Calls
<1>4. handler = "confirmResetPassword" =>
        Calls(handler) = <<CallTo("GET", "api/vi", <<"users", "find-by">>), CallTo("POST", "api/vi", <<"users">>)>>
    BY DEF Calls
<1>5. handler \notin Callers => Calls(handler) = <<>>
    BY DEF Calls, Callers
<1>6. ASSUME NEW c \in Calling PROVE <<c>> \in Seq(Calling) /\ Len(<<c>>) = 1
    OBVIOUS
<1>7. ASSUME NEW c \in Calling, NEW d \in Calling PROVE <<c, d>> \in Seq(Calling) /\ Len(<<c, d>>) = 2
    OBVIOUS
<1>8. <<>> \in Seq(Calling) /\ Len(<<>>) = 0
    OBVIOUS
<1>9. handler \notin Callers \/ handler \in {"login", "refresh"} \/ handler = "sendEmail"
        \/ handler = "confirmResetPassword"
    BY DEF Callers
<1> DEFINE Fits2(s) == s \in Seq(Calling) /\ Len(s) \in 0 .. 2
<1>10. \A c \in Calling : Fits2(<<c>>)
    BY <1>6
<1>11. \A c, d \in Calling : Fits2(<<c, d>>)
    BY <1>7
<1>12. Fits2(<<>>)
    BY <1>8
<1> HIDE DEF Fits2
<1>13. Fits2(Calls(handler))
  <2>1. CASE handler \in {"login", "refresh"}
    BY <1>1, <1>2, <1>10, <2>1
  <2>2. CASE handler = "sendEmail"
    BY <1>1, <1>3, <1>10, <2>2
  <2>3. CASE handler = "confirmResetPassword"
    BY <1>1, <1>4, <1>11, <2>3
  <2>4. CASE handler \notin Callers
    BY <1>5, <1>12, <2>4
  <2> QED
    BY <1>9, <2>1, <2>2, <2>3, <2>4
<1> QED
    BY <1>5, <1>13 DEF Fits2

LEMMA CallingFacts == \A c \in Calling : c.app = "user" /\ c.token = FALSE
    BY DEF Calling, CallTo

LEMMA StackFacts ==
    ASSUME RoutesInv, stack # <<>>
    PROVE  /\ Len(stack) \in 1 .. 2 /\ Top \in Frame /\ FrameInv(Top) /\ Top = stack[Len(stack)]
           /\ Below \in Seq(Frame) /\ Len(Below) = Len(stack) - 1
           /\ \A n \in 1 .. Len(Below) : Below[n] = stack[n]
<1>1. stack \in Seq(Frame) /\ Len(stack) \in 1 .. 2
  <2>1. stack \in Seq(Frame) /\ Len(stack) <= 2
    BY DEF RoutesInv
  <2>2. Len(stack) \in Nat \ {0}
    BY <2>1, EmptySeq
  <2>3. \A k \in Nat \ {0} : k <= 2 => k \in 1 .. 2
    OBVIOUS
  <2> QED
    BY <2>1, <2>2, <2>3
<1>2. Top \in Frame /\ FrameInv(Top) /\ Top = stack[Len(stack)]
    BY <1>1 DEF RoutesInv, Top
<1>3. \A n \in 1 .. Len(stack) - 1 : stack[n] \in Frame
    BY <1>1
<1>4. /\ Below \in Seq(Frame) /\ Len(Below) = Len(stack) - 1
      /\ \A n \in 1 .. Len(stack) - 1 : Below[n] = stack[n]
  <2> DEFINE k == Len(stack) - 1
  <2>1. k \in Int /\ k >= 0 /\ 1 \in Int /\ \A n \in 1 .. k : stack[n] \in Frame
    BY <1>1, <1>3
  <2>2. Below = SubSeq(stack, 1, k)
    BY DEF Below
  <2> HIDE DEF k
  <2>3. /\ SubSeq(stack, 1, k) \in Seq(Frame)
        /\ Len(SubSeq(stack, 1, k)) = IF 1 <= k THEN k - 1 + 1 ELSE 0
        /\ \A n \in 1 .. k - 1 + 1 : SubSeq(stack, 1, k)[n] = stack[1 + n - 1]
    BY <2>1, SubSeqProperties
  <2>4. /\ Below \in Seq(Frame) /\ Len(Below) = k /\ \A n \in 1 .. k : Below[n] = stack[n]
    BY <2>1, <2>2, <2>3
  <2> QED
    BY <2>4 DEF k
<1> QED
    BY <1>1, <1>2, <1>4

LEMMA StackPops ==
    ASSUME RoutesInv, stack # <<>>, stack' = Below, last' \in Statuses \cup {"none"}
    PROVE  RoutesInv'
<1>1. Len(stack') = Len(stack) - 1 /\ \A n \in 1 .. Len(stack) - 1 : stack'[n] = stack[n]
    BY StackFacts
<1>2. \A n \in 1 .. Len(stack') : FrameInv(stack'[n]) /\ (n = 2 => stack'[n].request.app = "user")
    BY <1>1, StackFacts DEF RoutesInv
<1> QED
    BY <1>1, <1>2, StackFacts DEF RoutesInv

LEMMA StackMoves ==
    ASSUME RoutesInv, stack # <<>>, NEW q \in Frame, FrameInv(q), q.request = Top.request,
           stack' = Append(Below, q), last' = last
    PROVE  RoutesInv'
<1>1. /\ stack' \in Seq(Frame) /\ Len(stack') = Len(stack) /\ stack'[Len(stack)] = q
      /\ \A n \in 1 .. Len(stack) - 1 : stack'[n] = stack[n]
    BY StackFacts
<1>2. \A n \in 1 .. Len(stack') : FrameInv(stack'[n]) /\ (n = 2 => stack'[n].request.app = "user")
    BY <1>1, StackFacts DEF RoutesInv
<1> QED
    BY <1>1, <1>2 DEF RoutesInv

LEMMA ArrivingFacts ==
    ASSUME NEW r \in Requests \cup Calling
    PROVE  Arriving(r) \in Frame /\ Arriving(r).request = r /\ FrameInv(Arriving(r))
<1>1. Arriving(r) \in Frame /\ Arriving(r).request = r /\ Arriving(r).at = "sent" /\ Arriving(r).handler = "none"
    BY DEF Arriving, Frame
<1>2. r.app \in Applications
    BY RoutesAssumption, CallingFacts DEF Applications
<1> QED
    BY <1>1, <1>2 DEF FrameInv, Writers, Callers

LEMMA RouteAuthenticate == ASSUME RoutesInv, Authenticate PROVE RoutesInv'
<1>1. stack # <<>> /\ Top.at = "sent" /\ Top \in Frame /\ FrameInv(Top)
    BY StackFacts DEF Authenticate
<1>2. CASE NeedsToken(Top.request) /\ ~Top.request.token
    BY <1>1, <1>2, StackPops DEF Authenticate, Reply, Statuses
<1>3. CASE ~(NeedsToken(Top.request) /\ ~Top.request.token)
  <2> DEFINE q == [Top EXCEPT !.at = "admitted"]
  <2>1. stack' = Append(Below, q) /\ last' = last
    BY <1>3 DEF Authenticate
  <2>2. q \in Frame /\ q.request = Top.request /\ q.handler = Top.handler
    BY <1>1 DEF Frame
  <2> HIDE DEF q
  <2>3. FrameInv(q)
    BY <1>1, <1>3, <2>2 DEF FrameInv
  <2> QED
    BY <1>1, <2>1, <2>2, <2>3, StackMoves
<1> QED
    BY <1>2, <1>3

\* A route that writes is of a guarded controller, and nothing excludes what is no GET
LEMMA WritersNeedTokens ==
    ASSUME NEW r, r.app \in Applications, NEW n \in Taken(r), RoutesOf(r.app)[n].handler \in Writers
    PROVE  NeedsToken(r)
<1>1. /\ n \in Matching(r) /\ n \in 1 .. Len(RoutesOf(r.app))
      /\ RoutesOf(r.app)[n].method = r.method
    BY DEF Taken, Matching
<1>2. RoutesOf(r.app)[n].controller \in Guarded /\ RoutesOf(r.app)[n].method # "GET"
    BY <1>1, TakenFacts
<1> QED
    BY <1>1, <1>2 DEF NeedsToken, Excluded

LEMMA RouteDispatch == ASSUME RoutesInv, Dispatch PROVE RoutesInv'
<1>1. stack # <<>> /\ Top.at = "admitted" /\ Top \in Frame /\ FrameInv(Top)
    BY StackFacts DEF Dispatch
<1>2. CASE Reply("noRoute")
    BY <1>1, <1>2, StackPops DEF Reply, Statuses
<1>3. CASE ~Reply("noRoute")
  <2>1. PICK n \in Taken(Top.request) :
            /\ stack' = Append(Below, [Top EXCEPT !.at = "handling",
                                                  !.handler = RoutesOf(Top.request.app)[n].handler])
            /\ last' = last
    BY <1>3 DEF Dispatch
  <2> DEFINE h == RoutesOf(Top.request.app)[n].handler
             q == [Top EXCEPT !.at = "handling", !.handler = h]
  <2>2. Top.request.app \in Applications /\ n \in 1 .. Len(RoutesOf(Top.request.app))
    BY <1>1 DEF FrameInv, Taken, Matching
  <2>3. h \in Handlers /\ (h \in Callers => Top.request.app = "auth")
    BY <2>2, TakenFacts
  <2>4. h \in Writers => Top.request.token
    BY <1>1, <2>2, WritersNeedTokens DEF FrameInv
  <2>5. stack' = Append(Below, q)
    BY <2>1
  <2> HIDE DEF h
  <2>6. q \in Frame /\ q.request = Top.request /\ q.at = "handling" /\ q.handler = h
    BY <1>1, <2>3 DEF Frame
  <2> HIDE DEF q
  <2>7. FrameInv(q)
    BY <1>1, <2>3, <2>4, <2>6 DEF FrameInv
  <2> QED
    BY <1>1, <2>1, <2>5, <2>6, <2>7, StackMoves
<1> QED
    BY <1>2, <1>3

LEMMA RouteCall == ASSUME RoutesInv, Call PROVE RoutesInv'
<1> DEFINE q == [Top EXCEPT !.calls = Top.calls + 1]
           c == Calls(Top.handler)[Top.calls + 1]
<1>1. /\ stack # <<>> /\ Top.at = "handling" /\ Top \in Frame /\ FrameInv(Top)
      /\ Top.calls < Len(Calls(Top.handler))
      /\ stack' = Append(Append(Below, q), Arriving(c)) /\ last' = "none"
    BY StackFacts DEF Call
<1>2. Top.calls \in 0 .. 2 /\ Top.handler \in Handlers \cup {"none"}
    BY <1>1 DEF Frame
<1>3. /\ Calls(Top.handler) \in Seq(Calling) /\ Len(Calls(Top.handler)) \in 0 .. 2
      /\ Top.handler \in Callers
    BY <1>1, <1>2, CallsFacts
<1>4. c \in Calling /\ c.app = "user"
    BY <1>1, <1>2, <1>3, CallingFacts
<1>5. q \in Frame /\ q.request = Top.request /\ q.at = Top.at /\ q.handler = Top.handler
    BY <1>1, <1>2, <1>3 DEF Frame
<1> HIDE DEF q, c
<1>6. FrameInv(q) /\ Arriving(c) \in Frame /\ Arriving(c).request = c /\ FrameInv(Arriving(c))
    BY <1>1, <1>4, <1>5, ArrivingFacts DEF FrameInv
<1>7. Len(stack) = 1
  <2>1. Top.request.app = "auth"
    BY <1>1, <1>3 DEF FrameInv
  <2> QED
    BY <1>1, <2>1, StackFacts DEF RoutesInv
<1>8. Append(Below, q) \in Seq(Frame) /\ Len(Append(Below, q)) = 1 /\ Append(Below, q)[1] = q
    BY <1>1, <1>5, <1>7, StackFacts
<1>9. stack' \in Seq(Frame) /\ Len(stack') = 2 /\ stack'[1] = q /\ stack'[2] = Arriving(c)
    BY <1>1, <1>6, <1>8
<1>10. \A n \in 1 .. Len(stack') : FrameInv(stack'[n]) /\ (n = 2 => stack'[n].request.app = "user")
    BY <1>4, <1>6, <1>9
<1> QED
    BY <1>1, <1>9, <1>10 DEF RoutesInv

LEMMA RouteRest ==
    ASSUME RoutesInv, Finish \/ \E r \in Requests : Send(r)
    PROVE  RoutesInv'
<1>1. CASE Finish
  <2>1. stack # <<>> /\ stack' = Below /\ (last' \in {"ok", "refused"} \/ (last' = last /\ Top.calls > 0))
    BY <1>1 DEF Finish, Failed, Reply
  <2>2. last \in Statuses \cup {"none"}
    BY DEF RoutesInv
  <2> QED
    BY <2>1, <2>2, StackPops DEF Statuses
<1>2. CASE \E r \in Requests : Send(r)
  <2>1. PICK r \in Requests : stack' = <<Arriving(r)>> /\ last' = "none"
    BY <1>2 DEF Send
  <2>2. stack' \in Seq(Frame) /\ Len(stack') = 1 /\ stack'[1] = Arriving(r)
    BY <2>1, ArrivingFacts
  <2>3. \A n \in 1 .. Len(stack') : FrameInv(stack'[n]) /\ n # 2
    BY <2>2, ArrivingFacts
  <2> QED
    BY <2>1, <2>2, <2>3 DEF RoutesInv
<1> QED
    BY <1>1, <1>2

LEMMA RoutesStep ==
    RoutesInv /\ [RequestsNext]_<<part, vars, errorVars, callVars, traceVars>> => RoutesInv'
<1> SUFFICES ASSUME RoutesInv, [RequestsNext]_<<part, vars, errorVars, callVars, traceVars>> PROVE RoutesInv'
    OBVIOUS
<1>1. Next \/ UNCHANGED vars
    BY DEF RequestsNext
<1>2. CASE UNCHANGED vars
    BY <1>2 DEF vars, RoutesInv
<1> QED
    BY <1>1, <1>2, RouteAuthenticate, RouteDispatch, RouteCall, RouteRest DEF Next

LEMMA RoutesHold == RequestsSpec => []RoutesInv
<1>1. RequestsInit => RoutesInv
    BY DEF RequestsInit, Init, RoutesInv
<1> QED
    BY <1>1, RoutesStep, PTL DEF RequestsSpec

(***************************************************************************)
(* Whatever clients send, what changes users, roles, permissions, cats or  *)
(* the blacklist runs only for a request that came with a token.           *)
(***************************************************************************)
THEOREM WritesOfRequests == RequestsSpec => []WritesNeedToken
<1>1. RoutesInv => WritesNeedToken
    BY DEF RoutesInv, FrameInv, WritesNeedToken
<1> QED
    BY <1>1, RoutesHold, PTL

(***************************************************************************)
(* A handler that is called calls nobody: calls from application to        *)
(* application are one deep.                                               *)
(***************************************************************************)
THEOREM CallsAreOneDeep == RequestsSpec => []TypeOK
<1>1. RoutesInv => TypeOK
    BY DEF RoutesInv, TypeOK
<1> QED
    BY <1>1, RoutesHold, PTL

-----------------------------------------------------------------------------
(***************************************************************************)
(* Routes in order: of two that fit one request, the later is not static.  *)
(***************************************************************************)
OnePoint(S) == \E x : S = {x}
StaticPath(p) == OnePoint(p[1]) /\ (Len(p) = 2 => OnePoint(p[2]))
Clash(t, u) ==
    /\ t.method = u.method /\ t.prefix = u.prefix /\ Len(t.path) = Len(u.path)
    /\ t.path[1] \cap u.path[1] # {} /\ (Len(t.path) = 2 => t.path[2] \cap u.path[2] # {})

\* The routes of a table start with words of roots, those of the users with theirs
Rooted(T, roots) ==
    \A n \in 1 .. Len(T) :
        /\ T[n] \in SafeRoute
        /\ \E p \in roots : T[n].path[1] = Is(p)
        /\ "users" \in T[n].path[1] => T[n].controller = "users"
StaticFirst(T) ==
    \A k \in 1 .. Len(T) : StaticPath(T[k].path) => \A n \in 1 .. k - 1 : ~Clash(T[n], T[k])
Table(T, roots) == T \in Seq(SafeRoute) /\ Rooted(T, roots) /\ StaticFirst(T)

LEMMA ParametersVary ==
    /\ ~OnePoint(Id)
    /\ \A p \in {"change-password", "add-permissions", "remove-permissions"} : ~OnePoint(Glued[p])
    BY RoutesAssumption DEF OnePoint, Id

LEMMA TablesJoin ==
    ASSUME NEW S, NEW T, NEW P, NEW Q, Table(S, P), Table(T, Q), P \cap Q = {}
    PROVE  Table(S \o T, P \cup Q)
<1> DEFINE U == S \o T
<1>1. S \in Seq(SafeRoute) /\ T \in Seq(SafeRoute)
    BY DEF Table
<1>2. /\ U \in Seq(SafeRoute) /\ Len(U) = Len(S) + Len(T) /\ Len(S) \in Nat /\ Len(T) \in Nat
      /\ \A n \in 1 .. Len(S) : U[n] = S[n]
      /\ \A n \in 1 .. Len(U) : n > Len(S) => n - Len(S) \in 1 .. Len(T) /\ U[n] = T[n - Len(S)]
    BY <1>1
<1> HIDE DEF U
<1>3. Rooted(U, P \cup Q)
  <2> SUFFICES ASSUME NEW n \in 1 .. Len(U)
               PROVE  /\ U[n] \in SafeRoute
                      /\ \E p \in P \cup Q : U[n].path[1] = Is(p)
                      /\ "users" \in U[n].path[1] => U[n].controller = "users"
    BY DEF Rooted
  <2>1. CASE n \in 1 .. Len(S)
    BY <1>2, <2>1 DEF Table, Rooted
  <2>2. CASE n > Len(S)
    BY <1>2, <2>2 DEF Table, Rooted
  <2> QED
    BY <1>2, <2>1, <2>2
<1>4. ASSUME NEW n \in 1 .. Len(S), NEW k \in 1 .. Len(T) PROVE ~Clash(S[n], T[k])
  <2>1. PICK p \in P : S[n].path[1] = {p}
    BY DEF Table, Rooted, Is
  <2>2. PICK q \in Q : T[k].path[1] = {q}
    BY DEF Table, Rooted, Is
  <2>3. p # q
    OBVIOUS
  <2> QED
    BY <2>1, <2>2, <2>3 DEF Clash
<1>5. ASSUME NEW k \in 1 .. Len(U), StaticPath(U[k].path), NEW n \in 1 .. k - 1 PROVE ~Clash(U[n], U[k])
  <2>1. n \in 1 .. Len(U) /\ n < k
    BY <1>2
  <2>2. CASE k \in 1 .. Len(S)
    BY <1>2, <1>5, <2>2 DEF Table, StaticFirst
  <2>3. CASE k > Len(S) /\ n \in 1 .. Len(S)
    BY <1>2, <1>4, <2>3
  <2>4. CASE n > Len(S)
    <3>1. /\ k - Len(S) \in 1 .. Len(T) /\ n - Len(S) \in 1 .. (k - Len(S)) - 1
          /\ U[k] = T[k - Len(S)] /\ U[n] = T[n - Len(S)]
      BY <1>2, <2>1, <2>4
    <3> QED
      BY <1>5, <3>1 DEF Table, StaticFirst
  <2> QED
    BY <1>2, <2>1, <2>2, <2>3, <2>4
<1>6. StaticFirst(U)
    BY <1>5 DEF StaticFirst
<1> QED
    BY <1>2, <1>3, <1>6 DEF Table, U

LEMMA HealthTable == Table(<<Health>>, {"health"})
<1> DEFINE T == <<Health>>
<1>1. T \in Seq(SafeRoute) /\ Len(T) = 1 /\ T[1] = Health
    BY HealthIsQuiet DEF QuietRoute
<1>2. Health.path[1] = Is("health") /\ Health \in SafeRoute
    BY HealthIsQuiet DEF QuietRoute, Health, Route
<1> HIDE DEF T
<1>3. Rooted(T, {"health"})
    BY <1>1, <1>2 DEF Rooted, Is
<1>4. StaticFirst(T)
    BY <1>1 DEF StaticFirst
<1> QED
    BY <1>1, <1>3, <1>4 DEF Table, T

LEMMA PermissionTable == Table(PermissionRoutes, {"permissions"})
<1> DEFINE T == PermissionRoutes
<1>1. T \in Seq(SafeRoute)
    BY PermissionsAreQuiet DEF QuietRoute
<1>2. /\ Len(T) = 5
      /\ T[1] = Route("POST",   "api/v1", <<Is("permissions")>>, "permissions", "createPermission")
      /\ T[2] = Route("PUT",    "api/v1", <<Is("permissions"), Id>>, "permissions", "updatePermission")
      /\ T[3] = Route("GET",    "api/v1", <<Is("permissions"), Id>>, "permissions", "getPermission")
      /\ T[4] = Route("GET",    "api/v1", <<Is("permissions")>>, "permissions", "listPermissions")
      /\ T[5] = Route("DELETE", "api/v1", <<Is("permissions"), Id>>, "permissions", "deletePermission")
    BY DEF PermissionRoutes
<1> HIDE DEF T
<1>3. 1 .. Len(T) = {1, 2, 3, 4, 5}
    BY <1>2
<1>4. /\ T[1].path[1] = Is("permissions")
      /\ T[2].path[1] = Is("permissions")
      /\ T[3].path[1] = Is("permissions")
      /\ T[4].path[1] = Is("permissions")
      /\ T[5].path[1] = Is("permissions")
    BY <1>2 DEF Route
<1>5. Rooted(T, {"permissions"})
    BY <1>1, <1>3, <1>4 DEF Rooted, Is
<1>6. ASSUME NEW k \in 1 .. Len(T), StaticPath(T[k].path) PROVE k \in {1, 4}
  <2>1. /\ ~StaticPath(T[2].path)
        /\ ~StaticPath(T[3].path)
        /\ ~StaticPath(T[5].path)
    BY <1>2, ParametersVary DEF Route, StaticPath
  <2> QED
    BY <1>3, <1>6, <2>1
<1>7. /\ ~Clash(T[1], T[4])
      /\ ~Clash(T[2], T[4])
      /\ ~Clash(T[3], T[4])
    BY <1>2 DEF Route, Clash, Is
<1>8. StaticFirst(T)
    BY <1>3, <1>6, <1>7 DEF StaticFirst
<1> QED
    BY <1>1, <1>5, <1>8 DEF Table, T

LEMMA RoleTable == Table(RoleRoutes, {"roles"})
<1> DEFINE T == RoleRoutes
<1>1. T \in Seq(SafeRoute)
    BY RolesAreQuiet DEF QuietRoute
<1>2. /\ Len(T) = 7
      /\ T[1] = Route("POST",   "api/v1", <<Is("roles")>>, "roles", "createRole")
      /\ T[2] = Route("PUT",    "api/v1", <<Is("roles"), Id>>, "roles", "updateRole")
      /\ T[3] = Route("GET",    "api/v1", <<Is("roles"), Id>>, "roles", "getRole")
      /\ T[4] = Route("GET",    "api/v1", <<Is("roles")>>, "roles", "listRoles")
      /\ T[5] = Route("DELETE", "api/v1", <<Is("roles"), Id>>, "roles", "deleteRole")
      /\ T[6] = Route("PUT",    "api/v1", <<Is("roles"), Glued["add-permissions"]>>, "roles", "addPermissions")
      /\ T[7] = Route("PUT",    "api/v1", <<Is("roles"), Glued["remove-permissions"]>>, "roles", "removePermissions")
    BY DEF RoleRoutes
<1> HIDE DEF T
<1>3. 1 .. Len(T) = {1, 2, 3, 4, 5, 6, 7}
    BY <1>2
<1>4. /\ T[1].path[1] = Is("roles")
      /\ T[2].path[1] = Is("roles")
      /\ T[3].path[1] = Is("roles")
      /\ T[4].path[1] = Is("roles")
      /\ T[5].path[1] = Is("roles")
      /\ T[6].path[1] = Is("roles")
      /\ T[7].path[1] = Is("roles")
    BY <1>2 DEF Route
<1>5. Rooted(T, {"roles"})
    BY <1>1, <1>3, <1>4 DEF Rooted, Is
<1>6. ASSUME NEW k \in 1 .. Len(T), StaticPath(T[k].path) PROVE k \in {1, 4}
  <2>1. /\ ~StaticPath(T[2].path)
        /\ ~StaticPath(T[3].path)
        /\ ~StaticPath(T[5].path)
        /\ ~StaticPath(T[6].path)
        /\ ~StaticPath(T[7].path)
    BY <1>2, ParametersVary DEF Route, StaticPath
  <2> QED
    BY <1>3, <1>6, <2>1
<1>7. /\ ~Clash(T[1], T[4])
      /\ ~Clash(T[2], T[4])
      /\ ~Clash(T[3], T[4])
    BY <1>2 DEF Route, Clash, Is
<1>8. StaticFirst(T)
    BY <1>3, <1>6, <1>7 DEF StaticFirst
<1> QED
    BY <1>1, <1>5, <1>8 DEF Table, T

LEMMA UserTable == Table(UserRoutes, {"users"})
<1> DEFINE T == UserRoutes
<1>1. T \in Seq(SafeRoute)
    BY UsersAreQuiet DEF QuietRoute
<1>2. /\ Len(T) = 8
      /\ T[1] = Route("POST",   "api/v1", <<Is("users")>>, "users", "createUser")
      /\ T[2] = Route("PUT",    "api/v1", <<Is("users"), Id>>, "users", "updateUser")
      /\ T[3] = Route("GET",    "api/v1", <<Is("users")>>, "users", "listUsers")
      /\ T[4] = Route("GET",    "api/v1", <<Is("users"), Is("me")>>, "users", "me")
      /\ T[5] = Route("GET",    "api/v1", <<Is("users"), Is("search")>>, "users", "searchUser")
      /\ T[6] = Route("GET",    "api/v1", <<Is("users"), Id>>, "users", "getUser")
      /\ T[7] = Route("PUT",    "api/v1", <<Is("users"), Glued["change-password"]>>, "users", "changePassword")
      /\ T[8] = Route("DELETE", "api/v1", <<Is("users"), Id>>, "users", "deleteUser")
    BY DEF UserRoutes
<1> HIDE DEF T
<1>3. 1 .. Len(T) = {1, 2, 3, 4, 5, 6, 7, 8}
    BY <1>2
<1>4. /\ T[1].path[1] = Is("users") /\ T[1].controller = "users"
      /\ T[2].path[1] = Is("users") /\ T[2].controller = "users"
      /\ T[3].path[1] = Is("users") /\ T[3].controller = "users"
      /\ T[4].path[1] = Is("users") /\ T[4].controller = "users"
      /\ T[5].path[1] = Is("users") /\ T[5].controller = "users"
      /\ T[6].path[1] = Is("users") /\ T[6].controller = "users"
      /\ T[7].path[1] = Is("users") /\ T[7].controller = "users"
      /\ T[8].path[1] = Is("users") /\ T[8].controller = "users"
    BY <1>2 DEF Route
<1>5. Rooted(T, {"users"})
    BY <1>1, <1>3, <1>4 DEF Rooted, Is
<1>6. ASSUME NEW k \in 1 .. Len(T), StaticPath(T[k].path) PROVE k \in {1, 3, 4, 5}
  <2>1. /\ ~StaticPath(T[2].path)
        /\ ~StaticPath(T[6].path)
        /\ ~StaticPath(T[7].path)
        /\ ~StaticPath(T[8].path)
    BY <1>2, ParametersVary DEF Route, StaticPath
  <2> QED
    BY <1>3, <1>6, <2>1
<1>7. /\ ~Clash(T[1], T[3])
      /\ ~Clash(T[2], T[3])
      /\ ~Clash(T[1], T[4])
      /\ ~Clash(T[2], T[4])
      /\ ~Clash(T[3], T[4])
      /\ ~Clash(T[1], T[5])
      /\ ~Clash(T[2], T[5])
      /\ ~Clash(T[3], T[5])
      /\ ~Clash(T[4], T[5])
    BY <1>2 DEF Route, Clash, Is
<1>8. StaticFirst(T)
    BY <1>3, <1>6, <1>7 DEF StaticFirst
<1> QED
    BY <1>1, <1>5, <1>8 DEF Table, T

LEMMA CatTable == Table(CatRoutes, {"cats"})
<1> DEFINE T == CatRoutes
<1>1. T \in Seq(SafeRoute)
    BY CatsAreQuiet DEF QuietRoute
<1>2. /\ Len(T) = 5
      /\ T[1] = Route("POST",   "api/v1", <<Is("cats")>>, "cats", "createCat")
      /\ T[2] = Route("PUT",    "api/v1", <<Is("cats"), Id>>, "cats", "updateCat")
      /\ T[3] = Route("GET",    "api/v1", <<Is("cats"), Id>>, "cats", "getCat")
      /\ T[4] = Route("GET",    "api/v1", <<Is("cats")>>, "cats", "listCats")
      /\ T[5] = Route("DELETE", "api/v1", <<Is("cats"), Id>>, "cats", "deleteCat")
    BY DEF CatRoutes
<1> HIDE DEF T
<1>3. 1 .. Len(T) = {1, 2, 3, 4, 5}
    BY <1>2
<1>4. /\ T[1].path[1] = Is("cats")
      /\ T[2].path[1] = Is("cats")
      /\ T[3].path[1] = Is("cats")
      /\ T[4].path[1] = Is("cats")
      /\ T[5].path[1] = Is("cats")
    BY <1>2 DEF Route
<1>5. Rooted(T, {"cats"})
    BY <1>1, <1>3, <1>4 DEF Rooted, Is
<1>6. ASSUME NEW k \in 1 .. Len(T), StaticPath(T[k].path) PROVE k \in {1, 4}
  <2>1. /\ ~StaticPath(T[2].path)
        /\ ~StaticPath(T[3].path)
        /\ ~StaticPath(T[5].path)
    BY <1>2, ParametersVary DEF Route, StaticPath
  <2> QED
    BY <1>3, <1>6, <2>1
<1>7. /\ ~Clash(T[1], T[4])
      /\ ~Clash(T[2], T[4])
      /\ ~Clash(T[3], T[4])
    BY <1>2 DEF Route, Clash, Is
<1>8. StaticFirst(T)
    BY <1>3, <1>6, <1>7 DEF StaticFirst
<1> QED
    BY <1>1, <1>5, <1>8 DEF Table, T

LEMMA LoginTable == Table(LoginRoutes, {"login", "refresh"})
<1> DEFINE T == LoginRoutes
<1>1. T \in Seq(SafeRoute)
    BY LoginsAreSafe DEF QuietRoute
<1>2. /\ Len(T) = 2
      /\ T[1] = Route("POST", "api/v1", <<Is("login")>>, "login", "login")
      /\ T[2] = Route("POST", "api/v1", <<Is("refresh")>>, "login", "refresh")
    BY DEF LoginRoutes
<1> HIDE DEF T
<1>3. 1 .. Len(T) = {1, 2}
    BY <1>2
<1>4. /\ T[1].path[1] = Is("login")
      /\ T[2].path[1] = Is("refresh")
    BY <1>2 DEF Route
<1>5. Rooted(T, {"login", "refresh"})
    BY <1>1, <1>3, <1>4 DEF Rooted, Is
<1>6. ASSUME NEW k \in 1 .. Len(T), StaticPath(T[k].path) PROVE k \in {1, 2}
    BY <1>3
<1>7. /\ ~Clash(T[1], T[2])
    BY <1>2 DEF Route, Clash, Is
<1>8. StaticFirst(T)
    BY <1>3, <1>6, <1>7 DEF StaticFirst
<1> QED
    BY <1>1, <1>5, <1>8 DEF Table, T

LEMMA LogoutTable == Table(LogoutRoutes, {"logout"})
<1> DEFINE T == LogoutRoutes
<1>1. T \in Seq(SafeRoute)
    BY LogoutIsSafe DEF QuietRoute
<1>2. /\ Len(T) = 1
      /\ T[1] = Route("POST", "api/v1", <<Is("logout")>>, "logout", "logout")
    BY DEF LogoutRoutes
<1> HIDE DEF T
<1>3. 1 .. Len(T) = {1}
    BY <1>2
<1>4. /\ T[1].path[1] = Is("logout")
    BY <1>2 DEF Route
<1>5. Rooted(T, {"logout"})
    BY <1>1, <1>3, <1>4 DEF Rooted, Is
<1>6. ASSUME NEW k \in 1 .. Len(T), StaticPath(T[k].path) PROVE k \in {1}
    BY <1>3
<1>8. StaticFirst(T)
    BY <1>3, <1>6 DEF StaticFirst
<1> QED
    BY <1>1, <1>5, <1>8 DEF Table, T

LEMMA ResetPasswordTable == Table(ResetPasswordRoutes, {"reset-password"})
<1> DEFINE T == ResetPasswordRoutes
<1>1. T \in Seq(SafeRoute)
    BY ResetsAreSafe DEF QuietRoute
<1>2. /\ Len(T) = 2
      /\ T[1] = Route("POST", "api/v1", <<Is("reset-password"), Is("send-email")>>, "reset-password", "sendEmail")
      /\ T[2] = Route("PUT",  "api/v1", <<Is("reset-password"), Id>>, "reset-password", "confirmResetPassword")
    BY DEF ResetPasswordRoutes
<1> HIDE DEF T
<1>3. 1 .. Len(T) = {1, 2}
    BY <1>2
<1>4. /\ T[1].path[1] = Is("reset-password")
      /\ T[2].path[1] = Is("reset-password")
    BY <1>2 DEF Route
<1>5. Rooted(T, {"reset-password"})
    BY <1>1, <1>3, <1>4 DEF Rooted, Is
<1>6. ASSUME NEW k \in 1 .. Len(T), StaticPath(T[k].path) PROVE k \in {1}
  <2>1. /\ ~StaticPath(T[2].path)
    BY <1>2, ParametersVary DEF Route, StaticPath
  <2> QED
    BY <1>3, <1>6, <2>1
<1>8. StaticFirst(T)
    BY <1>3, <1>6 DEF StaticFirst
<1> QED
    BY <1>1, <1>5, <1>8 DEF Table, T

\* So it is in each application
LEMMA ApplicationTables ==
    \A app \in Applications : \E roots : Table(RoutesOf(app), roots)
<1>1. /\ RoutesOf("user") = ((<<Health>> \o PermissionRoutes) \o RoleRoutes) \o UserRoutes
      /\ RoutesOf("auth") = ((<<Health>> \o ResetPasswordRoutes) \o LoginRoutes) \o LogoutRoutes
      /\ RoutesOf("cat") = <<Health>> \o CatRoutes
    BY DEF RoutesOf
<1>2. Table(RoutesOf("cat"), {"health"} \cup {"cats"})
  <2>1. {"health"} \cap {"cats"} = {}
    OBVIOUS
  <2>2. Table(<<Health>> \o CatRoutes, {"health"} \cup {"cats"})
    BY <2>1, CatTable, HealthTable, TablesJoin
  <2> QED
    BY <1>1, <2>2
<1>3. Table(RoutesOf("user"), (({"health"} \cup {"permissions"}) \cup {"roles"}) \cup {"users"})
  <2>1. Table(<<Health>> \o PermissionRoutes, {"health"} \cup {"permissions"})
    BY HealthTable, PermissionTable, TablesJoin
  <2>2. Table((<<Health>> \o PermissionRoutes) \o RoleRoutes, ({"health"} \cup {"permissions"}) \cup {"roles"})
    BY <2>1, RoleTable, TablesJoin
  <2>3. (({"health"} \cup {"permissions"}) \cup {"roles"}) \cap {"users"} = {}
    OBVIOUS
  <2>4. Table(((<<Health>> \o PermissionRoutes) \o RoleRoutes) \o UserRoutes,
              (({"health"} \cup {"permissions"}) \cup {"roles"}) \cup {"users"})
    BY <2>2, <2>3, UserTable, TablesJoin
  <2> QED
    BY <1>1, <2>4
<1>4. Table(RoutesOf("auth"), (({"health"} \cup {"reset-password"}) \cup {"login", "refresh"}) \cup {"logout"})
  <2>1. Table(<<Health>> \o ResetPasswordRoutes, {"health"} \cup {"reset-password"})
    BY HealthTable, ResetPasswordTable, TablesJoin
  <2>2. Table((<<Health>> \o ResetPasswordRoutes) \o LoginRoutes,
              ({"health"} \cup {"reset-password"}) \cup {"login", "refresh"})
    BY <2>1, LoginTable, TablesJoin
  <2>3. (({"health"} \cup {"reset-password"}) \cup {"login", "refresh"}) \cap {"logout"} = {}
    OBVIOUS
  <2>4. Table(((<<Health>> \o ResetPasswordRoutes) \o LoginRoutes) \o LogoutRoutes,
              (({"health"} \cup {"reset-password"}) \cup {"login", "refresh"}) \cup {"logout"})
    BY <2>2, <2>3, LogoutTable, TablesJoin
  <2> QED
    BY <1>1, <2>4
<1> QED
    BY <1>2, <1>3, <1>4 DEF Applications

LEMMA PathLengths == \A t \in SafeRoute : Len(t.path) \in {1, 2}
<1>1. ASSUME NEW p \in Paths PROVE Len(p) \in {1, 2}
    BY DEF Paths
<1> QED
    BY <1>1 DEF SafeRoute

\* Whoever is taken, a static route that fits is his
LEMMA StaticIsTaken ==
    ASSUME NEW r, r.app \in Applications, NEW n \in Taken(r), NEW k \in Matching(r),
           Static(RoutesOf(r.app)[k], r)
    PROVE  n = k
<1> DEFINE T == RoutesOf(r.app)
<1>1. PICK roots : Table(T, roots)
    BY ApplicationTables
<1>2. /\ n \in 1 .. Len(T) /\ k \in 1 .. Len(T) /\ n <= k
      /\ T[n].method = r.method /\ T[n].prefix = r.prefix /\ Fits(T[n].path, r.url)
      /\ T[k].method = r.method /\ T[k].prefix = r.prefix /\ Fits(T[k].path, r.url)
    BY DEF Taken, Matching
<1>3. Len(T[k].path) \in {1, 2} /\ Len(T[n].path) \in {1, 2}
    BY <1>1, <1>2, PathLengths DEF Table
<1>4. T[k].path = [m \in 1 .. Len(r.url) |-> {r.url[m]}]
    BY DEF Static, Is
<1> HIDE DEF T
<1>5. /\ Len(T[k].path) = Len(r.url) /\ Len(T[n].path) = Len(r.url)
      /\ \A m \in 1 .. Len(r.url) : r.url[m] \in T[n].path[m] /\ T[k].path[m] = {r.url[m]}
  <2>1. /\ Len(T[k].path) = Len(r.url) /\ Len(T[n].path) = Len(r.url)
        /\ \A m \in 1 .. Len(T[n].path) : r.url[m] \in T[n].path[m]
    BY <1>2 DEF Fits
  <2> QED
    BY <1>4, <2>1
<1>6. 1 \in 1 .. Len(r.url) /\ (Len(r.url) = 2 => 2 \in 1 .. Len(r.url))
    BY <1>3, <1>5
<1>7. StaticPath(T[k].path)
    BY <1>5, <1>6 DEF StaticPath, OnePoint
<1>8. Clash(T[n], T[k])
  <2>1. r.url[1] \in T[n].path[1] \cap T[k].path[1]
    BY <1>5, <1>6
  <2>2. Len(T[n].path) = 2 => r.url[2] \in T[n].path[2] \cap T[k].path[2]
    BY <1>5, <1>6
  <2> QED
    BY <1>2, <1>5, <2>1, <2>2 DEF Clash
<1>9. n \notin 1 .. k - 1
    BY <1>1, <1>2, <1>7, <1>8 DEF Table, StaticFirst
<1>10. Len(T) \in Nat
    BY <1>1 DEF Table
<1> QED
    BY <1>2, <1>9, <1>10

\* The call of a login finds the search, which is static, and needs no token
LEMMA SearchFacts ==
    /\ \E k \in Matching(SearchCall) :
          RoutesOf("user")[k].handler = "searchUser" /\ Static(RoutesOf("user")[k], SearchCall)
    /\ ~NeedsToken(SearchCall)
<1> DEFINE r == SearchCall
           T == RoutesOf("user")
           A == (<<Health>> \o PermissionRoutes) \o RoleRoutes
           k == Len(A) + 5
           u == <<"users", "search">>
<1>1. r.app = "user" /\ r.method = "GET" /\ r.prefix = "api/v1" /\ r.url = u /\ ~r.token
    BY DEF SearchCall, CallTo
<1>2. Len(u) = 2 /\ u[1] = "users" /\ u[2] = "search"
    OBVIOUS
<1>3. T = A \o UserRoutes
    BY DEF RoutesOf
<1>4. A \in Seq(SafeRoute) /\ UserRoutes \in Seq(SafeRoute)
  <2>1. /\ <<Health>> \in Seq(SafeRoute) /\ PermissionRoutes \in Seq(SafeRoute)
        /\ RoleRoutes \in Seq(SafeRoute) /\ UserRoutes \in Seq(SafeRoute)
    BY HealthTable, PermissionTable, RoleTable, UserTable DEF Table
  <2>2. <<Health>> \o PermissionRoutes \in Seq(SafeRoute)
    BY <2>1
  <2> QED
    BY <2>1, <2>2
<1>5. /\ Len(UserRoutes) = 8
      /\ UserRoutes[5] = Route("GET", "api/v1", <<Is("users"), Is("search")>>, "users", "searchUser")
    BY DEF UserRoutes
<1> HIDE DEF r, T, A, u
<1>6. k \in 1 .. Len(T) /\ T[k] = UserRoutes[5]
  <2>1. Len(A) \in Nat /\ Len(T) = Len(A) + 8
    <3>1. Len(A) \in Nat /\ Len(A \o UserRoutes) = Len(A) + Len(UserRoutes)
      BY <1>4
    <3> QED
      BY <1>3, <1>5, <3>1
  <2>2. k \in Nat /\ k > Len(A) /\ k <= Len(A) + Len(UserRoutes) /\ k - Len(A) = 5 /\ k \in 1 .. Len(T)
    BY <1>5, <2>1
  <2> HIDE DEF k
  <2>3. T[k] = UserRoutes[k - Len(A)]
    BY <1>3, <1>4, <2>2
  <2> QED
    BY <2>2, <2>3
<1> HIDE DEF k
<1>7. /\ T[k].method = "GET" /\ T[k].prefix = "api/v1" /\ T[k].handler = "searchUser"
      /\ T[k].path = <<{"users"}, {"search"}>>
    BY <1>5, <1>6 DEF Route, Is
<1>8. Fits(T[k].path, r.url)
    BY <1>1, <1>2, <1>7 DEF Fits
<1>9. k \in Matching(r)
    BY <1>1, <1>6, <1>7, <1>8 DEF Matching, T
<1>10. Static(T[k], r)
    BY <1>1, <1>2, <1>7 DEF Static, Is
<1>11. ~NeedsToken(r)
  <2>1. PICK roots : Table(T, roots)
    BY ApplicationTables DEF T, Applications
  <2>2. ASSUME NEW n \in Matching(r) PROVE T[n].controller = "users"
    <3>1. n \in 1 .. Len(T) /\ Fits(T[n].path, r.url)
      BY <1>1 DEF Matching, T
    <3>2. Len(T[n].path) = 2
      BY <1>1, <1>2, <3>1 DEF Fits
    <3>3. "users" \in T[n].path[1]
      BY <1>1, <1>2, <3>1, <3>2 DEF Fits
    <3> QED
      BY <2>1, <3>1, <3>3 DEF Table, Rooted
  <2>3. Excluded(r)
    BY <1>1, <1>2 DEF Excluded
  <2> QED
    BY <1>1, <2>2, <2>3 DEF NeedsToken, T
<1> QED
    BY <1>7, <1>9, <1>10, <1>11 DEF r, T

LEMMA LookupPops == ASSUME LookupInv, RoutesInv', stack # <<>>, stack' = Below PROVE LookupInv'
<1>1. /\ Len(stack) \in 1 .. 2 /\ Len(stack') = Len(stack) - 1
      /\ \A n \in 1 .. Len(stack') : stack'[n] = stack[n] /\ n \in 1 .. Len(stack)
    BY StackFacts DEF LookupInv
<1>2. Len(stack') # 2
    BY <1>1
<1>3. \A n \in 1 .. Len(stack') : Served(stack'[n])
    BY <1>1 DEF LookupInv
<1> QED
    BY <1>2, <1>3 DEF LookupInv, Served

LEMMA LookupMoves ==
    ASSUME LookupInv, RoutesInv', stack # <<>>, NEW q \in Frame, Served(q),
           q.request = Top.request, q.calls = Top.calls, stack' = Append(Below, q)
    PROVE  LookupInv'
<1>1. /\ Len(stack) \in 1 .. 2 /\ Len(stack') = Len(stack) /\ stack'[Len(stack)] = q
      /\ \A n \in 1 .. Len(stack) - 1 : stack'[n] = stack[n]
    BY StackFacts DEF LookupInv
<1>2. \A n \in 1 .. Len(stack') : Served(stack'[n])
    BY <1>1 DEF LookupInv
<1>3. Len(stack') = 2 =>
        /\ stack'[2].calls = 0
        /\ stack'[1].handler \in {"login", "refresh"} => stack'[2].request = SearchCall
    BY <1>1 DEF LookupInv, Top
<1> QED
    BY <1>2, <1>3 DEF LookupInv, Served, SearchCall, CallTo

LEMMA LookupAuthenticate == ASSUME LookupInv, RoutesInv', Authenticate PROVE LookupInv'
<1>1. stack # <<>> /\ Top \in Frame
    BY StackFacts DEF Authenticate, LookupInv
<1>2. CASE Reply("noToken")
    BY <1>1, <1>2, LookupPops DEF Reply
<1>3. CASE stack' = Append(Below, [Top EXCEPT !.at = "admitted"])
  <2> DEFINE q == [Top EXCEPT !.at = "admitted"]
  <2>1. q \in Frame /\ q.request = Top.request /\ q.calls = Top.calls /\ q.at = "admitted"
    BY <1>1 DEF Frame
  <2>2. stack' = Append(Below, q)
    BY <1>3
  <2> HIDE DEF q
  <2> QED
    BY <1>1, <2>1, <2>2, LookupMoves DEF Served
<1> QED
    BY <1>2, <1>3 DEF Authenticate

LEMMA LookupDispatch == ASSUME LookupInv, RoutesInv', Dispatch PROVE LookupInv'
<1>1. stack # <<>> /\ Top \in Frame /\ FrameInv(Top)
    BY StackFacts DEF Dispatch, LookupInv
<1>2. CASE Reply("noRoute")
    BY <1>1, <1>2, LookupPops DEF Reply
<1>3. CASE ~Reply("noRoute")
  <2>1. PICK n \in Taken(Top.request) :
            stack' = Append(Below, [Top EXCEPT !.at = "handling",
                                               !.handler = RoutesOf(Top.request.app)[n].handler])
    BY <1>3 DEF Dispatch
  <2> DEFINE h == RoutesOf(Top.request.app)[n].handler
             q == [Top EXCEPT !.at = "handling", !.handler = h]
  <2>2. Top.request.app \in Applications /\ n \in 1 .. Len(RoutesOf(Top.request.app))
    BY <1>1 DEF FrameInv, Taken, Matching
  <2>3. h \in Handlers
    BY <2>2, TakenFacts
  <2>4. stack' = Append(Below, q) /\ RoutesOf(Top.request.app)[n].handler = h
    BY <2>1
  <2> HIDE DEF h
  <2>5. q \in Frame /\ q.request = Top.request /\ q.calls = Top.calls /\ q.handler = h
    BY <1>1, <2>3 DEF Frame
  <2> HIDE DEF q
  <2>6. Served(q)
    BY <2>1, <2>4, <2>5 DEF Served
  <2> QED
    BY <1>1, <2>4, <2>5, <2>6, LookupMoves
<1> QED
    BY <1>2, <1>3

LEMMA LookupCall == ASSUME LookupInv, RoutesInv', Call PROVE LookupInv'
<1> DEFINE q == [Top EXCEPT !.calls = Top.calls + 1]
           c == Calls(Top.handler)[Top.calls + 1]
<1>1. /\ stack # <<>> /\ Top.at = "handling" /\ Top \in Frame /\ FrameInv(Top) /\ Served(Top)
      /\ Top.calls < Len(Calls(Top.handler))
      /\ stack' = Append(Append(Below, q), Arriving(c))
    BY StackFacts DEF Call, LookupInv
<1>2. Top.calls \in 0 .. 2 /\ Calls(Top.handler) \in Seq(Calling) /\ Top.handler \in Callers
  <2>1. Top.calls \in 0 .. 2 /\ Calls(Top.handler) \in Seq(Calling)
    BY <1>1, CallsFacts DEF Frame
  <2>2. Calls(Top.handler) # <<>>
    BY <1>1, <2>1
  <2> QED
    BY <2>1, <2>2, CallsFacts
<1>3. Len(stack) = 1
  <2>1. Top.request.app = "auth"
    BY <1>1, <1>2 DEF FrameInv
  <2> QED
    BY <1>1, <2>1, StackFacts DEF RoutesInv, LookupInv
<1>4. Top.handler \in {"login", "refresh"} => c = SearchCall
  <2> HAVE Top.handler \in {"login", "refresh"}
  <2>1. Calls(Top.handler) = <<SearchCall>>
    BY DEF Calls, SearchCall
  <2> HIDE DEF c
  <2>2. Top.calls = 0
    BY <1>1, <1>2, <2>1
  <2> QED
    BY <2>1, <2>2 DEF c
<1>5. c \in Calling
    BY <1>1, <1>2
<1>6. q.request = Top.request /\ q.at = "handling" /\ q.handler = Top.handler
    BY <1>1 DEF Frame
<1> HIDE DEF q, c
<1>7. Arriving(c).at = "sent" /\ Arriving(c).calls = 0 /\ Arriving(c).request = c
    BY DEF Arriving
<1>8. Below \in Seq(Frame) /\ Len(Below) = 0
    BY <1>1, <1>3, StackFacts DEF LookupInv
<1>9. Below = <<>>
    BY <1>8
<1>10. Len(stack') = 2 /\ stack'[1] = q /\ stack'[2] = Arriving(c)
    BY <1>1, <1>9
<1>11. Served(q) /\ Served(Arriving(c))
    BY <1>1, <1>6, <1>7 DEF Served
<1>12. \A n \in 1 .. Len(stack') : Served(stack'[n])
    BY <1>10, <1>11
<1> QED
    BY <1>4, <1>6, <1>7, <1>10, <1>12 DEF LookupInv, Served, SearchCall, CallTo

LEMMA LookupRest ==
    ASSUME LookupInv, RoutesInv', Finish \/ \E r \in Requests : Send(r)
    PROVE  LookupInv'
<1>1. CASE Finish
    BY <1>1, LookupPops DEF Finish, Reply
<1>2. CASE \E r \in Requests : Send(r)
  <2>1. PICK r \in Requests : stack' = <<Arriving(r)>>
    BY <1>2 DEF Send
  <2>2. Len(stack') = 1 /\ stack'[1] = Arriving(r)
    BY <2>1
  <2>3. Served(Arriving(r))
    BY DEF Served, Arriving
  <2>4. \A n \in 1 .. Len(stack') : Served(stack'[n])
    BY <2>2, <2>3
  <2> QED
    BY <2>2, <2>4 DEF LookupInv, Served
<1> QED
    BY <1>1, <1>2

LEMMA LookupStep ==
    LookupInv /\ [RequestsNext]_<<part, vars, errorVars, callVars, traceVars>> => LookupInv'
<1> SUFFICES ASSUME LookupInv, [RequestsNext]_<<part, vars, errorVars, callVars, traceVars>> PROVE LookupInv'
    OBVIOUS
<1>1. RoutesInv'
    BY RoutesStep DEF LookupInv
<1>2. Next \/ UNCHANGED vars
    BY DEF RequestsNext
<1>3. CASE UNCHANGED vars
    BY <1>1, <1>3 DEF vars, LookupInv, Served
<1> QED
    BY <1>1, <1>2, <1>3, LookupAuthenticate, LookupDispatch, LookupCall, LookupRest DEF Next

\* Of the call of a login: it needs no token, fits a route, and is handled by the search
LEMMA LookupSearch ==
    ASSUME LookupInv, Len(stack) = 2, stack[1].handler \in {"login", "refresh"}
    PROVE  /\ Top = stack[2] /\ Top.request = SearchCall /\ Top.calls = 0
           /\ Top.at = "handling" => Top.handler = "searchUser"
<1>1. stack \in Seq(Frame) /\ Top = stack[2] /\ Top.request = SearchCall /\ Top.calls = 0 /\ Served(Top)
    BY DEF LookupInv, RoutesInv, Top
<1>2. Top.at = "handling" => Top.handler = "searchUser"
  <2> HAVE Top.at = "handling"
  <2>1. SearchCall.app = "user" /\ SearchCall.app \in Applications
    BY DEF SearchCall, CallTo, Applications
  <2>2. PICK n \in Taken(SearchCall) : RoutesOf("user")[n].handler = Top.handler
    BY <1>1, <2>1 DEF Served
  <2>3. PICK k \in Matching(SearchCall) :
            RoutesOf("user")[k].handler = "searchUser" /\ Static(RoutesOf("user")[k], SearchCall)
    BY SearchFacts
  <2>4. n = k
    BY <2>1, <2>3, StaticIsTaken
  <2> QED
    BY <2>2, <2>3, <2>4
<1> QED
    BY <1>1, <1>2

LEMMA LookupAnswered ==
    ASSUME LookupInv, Next, Len(stack) = 2, stack[1].handler \in {"login", "refresh"}, Len(stack') = 1
    PROVE  last' \notin {"noRoute", "noToken"}
<1>1. /\ stack # <<>> /\ Top.request = SearchCall /\ Top.calls = 0 /\ Top \in Frame
      /\ Below \in Seq(Frame) /\ Len(Below) = 1
    BY LookupSearch, StackFacts DEF LookupInv
<1>2. ASSUME NEW s \in Seq(Frame), NEW q PROVE Len(Append(s, q)) = Len(s) + 1
  <2>1. s \in Seq(Frame \cup {q})
    OBVIOUS
  <2> QED
    BY <2>1
<1>3. CASE Authenticate
    BY <1>1, <1>2, <1>3, SearchFacts DEF Authenticate
<1>4. CASE Dispatch
  <2>1. Matching(Top.request) # {}
    BY <1>1, SearchFacts
  <2>2. PICK q : stack' = Append(Below, q)
    BY <1>4, <2>1 DEF Dispatch
  <2> QED
    BY <1>1, <1>2, <2>2
<1>5. CASE Call
  <2>1. PICK q, f : stack' = Append(Append(Below, q), f)
    BY <1>5 DEF Call
  <2> DEFINE s == Append(Below, q)
  <2>2. s \in Seq(Frame \cup {q}) /\ Len(s) = 2
    <3>1. Below \in Seq(Frame \cup {q}) /\ q \in Frame \cup {q}
      BY <1>1
    <3>2. s \in Seq(Frame \cup {q})
      BY <3>1
    <3>3. Len(s) = Len(Below) + 1
      BY <1>1, <1>2, Zenon
    <3>4. Len(s) = 2
      BY <1>1, <3>3
    <3> QED
      BY <3>2, <3>4
  <2>3. s \in Seq(Frame \cup {q, f}) /\ stack' = Append(s, f)
    BY <2>1, <2>2
  <2> HIDE DEF s
  <2>4. Len(stack') = 3
    BY <2>2, <2>3
  <2> QED
    BY <2>4
<1>6. CASE Finish
    BY <1>1, <1>6 DEF Finish, Failed, Reply
<1>7. CASE \E r \in Requests : Send(r)
    BY <1>1, <1>7 DEF Send
<1> QED
    BY <1>3, <1>4, <1>5, <1>6, <1>7 DEF Next

(***************************************************************************)
(* Login and refresh look their user up without a token and get through,   *)
(* and a route without parameters gets every request for its path,         *)
(* whatever clients send and whatever a parameter fits, if it fits more    *)
(* than one segment (the decorators of the controllers, in order).         *)
(***************************************************************************)
THEOREM LookupsOfRequests == RequestsSpec => LookupsGetThrough
<1> DEFINE Looks ==
        \A n \in 1 .. Len(stack) :
            stack[n].handler \in {"login", "refresh"} /\ Len(stack) = n + 1 =>
               /\ Top.at = "handling" => Top.handler = "searchUser"
               /\ Len(stack') = n => last' \notin {"noRoute", "noToken"}
<1>1. RequestsInit => LookupInv
  <2>1. RequestsInit => stack = <<>> /\ RoutesInv
    BY DEF RequestsInit, Init, RoutesInv
  <2> QED
    BY <2>1 DEF LookupInv
<1>2. LookupInv => TypeOK /\ StaticRoutesFirst
  <2> HAVE LookupInv
  <2>1. TypeOK
    BY DEF LookupInv, RoutesInv, TypeOK
  <2>2. ASSUME NEW n \in 1 .. Len(stack), stack[n].at = "handling",
               NEW k \in Matching(stack[n].request),
               Static(RoutesOf(stack[n].request.app)[k], stack[n].request)
        PROVE  RoutesOf(stack[n].request.app)[k].handler = stack[n].handler
    <3>1. stack[n].request.app \in Applications /\ Served(stack[n])
      BY DEF LookupInv, RoutesInv, FrameInv
    <3>2. PICK m \in Taken(stack[n].request) :
              RoutesOf(stack[n].request.app)[m].handler = stack[n].handler
      BY <2>2, <3>1 DEF Served
    <3>3. m = k
      BY <2>2, <3>1, StaticIsTaken
    <3> QED
      BY <3>2, <3>3
  <2> QED
    BY <2>1, <2>2 DEF StaticRoutesFirst
<1>3. LookupInv /\ [RequestsNext]_<<part, vars, errorVars, callVars, traceVars>> => [Looks]_vars
  <2> SUFFICES ASSUME LookupInv, [RequestsNext]_<<part, vars, errorVars, callVars, traceVars>>, ~UNCHANGED vars,
                      NEW n \in 1 .. Len(stack), stack[n].handler \in {"login", "refresh"}, Len(stack) = n + 1
               PROVE  /\ Top.at = "handling" => Top.handler = "searchUser"
                      /\ Len(stack') = n => last' \notin {"noRoute", "noToken"}
    OBVIOUS
  <2>1. Next
    BY DEF RequestsNext
  <2>2. n = 1 /\ Len(stack) = 2
    BY DEF LookupInv, RoutesInv
  <2> QED
    BY <2>1, <2>2, LookupSearch, LookupAnswered
<1>4. [][Looks]_vars => LoginsGetThrough
    BY PTL DEF LoginsGetThrough
<1> QED
    BY <1>1, <1>2, <1>3, <1>4, LookupStep, PTL DEF RequestsSpec, LookupsGetThrough
=============================================================================
