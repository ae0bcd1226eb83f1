------------------------ MODULE ResetPasswordProofs ------------------------
(***************************************************************************)
(* Proofs about ResetPassword, for every set of users, passwords and       *)
(* slots, every window, life of a token and bound on time.  ResetInv is    *)
(* inductive; the properties follow from it.                               *)
(***************************************************************************)
EXTENDS MCResetPassword, TLAPS

Reading == {"confirmFind", "confirmPost"}

\* A slot that goes on touches no other
LEMMA GoFacts ==
    ASSUME TypeOK, NEW s \in Slots, NEW r \in Request, Go(s, r)
    PROVE  /\ req' \in [Slots -> Request] /\ req'[s] = r
           /\ \A t \in Slots \ {s} : req'[t] = req[t]
    BY DEF Go, TypeOK

LEMMA IdleIsARequest == Idle \in Request /\ Idle.at = "idle"
    BY DEF Idle, Request, Steps

\* The instants of rows, tokens and the clock are numbers
LEMMA InstantsAreNumbers ==
    ASSUME ResetInv
    PROVE  /\ clock \in Nat /\ Window \in Nat \ {0} /\ TokenLife \in Nat /\ clock <= MaxClock
           /\ MaxClock \in Nat
           /\ \A r \in resets : r.at \in Nat /\ r.token.at \in Nat /\ r.token \in Token /\ r.token.user \in Users
           /\ \A s \in Slots : req[s].at = "sendCreate" => req[s].token.at \in Nat
    BY ResetAssumption DEF ResetInv, TypeOK, Reset, Token, RequestsAreComplete

-----------------------------------------------------------------------------
\* A step that writes no row has to leave its own request complete, noted as a
\* race if it looks for a reset, and the only one if it is to make one
LEMMA QuietStep ==
    ASSUME ResetInv, NEW s \in Slots, NEW r \in Request, Go(s, r),
           UNCHANGED <<clock, resets>>,
           password' \in [Users -> Passwords], emitted' \in Mail \cup {None},
           raced \subseteq raced', raced' \subseteq Users, overtaken' \subseteq Slots,
           \A t \in Slots \ {s} : t \notin overtaken' =>
                t \notin overtaken /\ (req[t].at \in Reading => password'[req[t].user] = password[req[t].user]),
           s \notin overtaken' /\ r.at \in Reading => r.read = password'[r.user],
           r.at # "idle" => r.user \in Users,
           r.at \in ConfirmSteps => r.read \in Passwords,
           r.at = "sendCreate" =>
                /\ r.token \in Token /\ r.token.user = r.user
                /\ clock + Window <= r.token.at + TokenLife
                /\ FindByIdUserId(r.user) = {},
           r.at \in SendSteps =>
                \A t \in Slots \ {s} :
                    req[t].at \in SendSteps /\ req[t].user = r.user => r.user \in raced'
    PROVE  ResetInv'
<1> USE DEF ResetInv
<1>1. /\ req' \in [Slots -> Request] /\ req'[s] = r
      /\ \A t \in Slots \ {s} : req'[t] = req[t]
    BY GoFacts
<1>2. TypeOK'
    BY <1>1 DEF TypeOK
<1>3. OneResetUnlessRaced'
    BY DEF OneResetUnlessRaced
<1>4. RequestsAreComplete'
    BY <1>1 DEF RequestsAreComplete
<1>5. TokensOutlastTheWindow'
    BY <1>1 DEF TokensOutlastTheWindow
<1>6. RacesAreNoted'
    BY <1>1 DEF RacesAreNoted
<1>7. CreatorsFoundNone'
    BY <1>1 DEF CreatorsFoundNone, FindByIdUserId
<1>8. ReadsAreCurrent'
  <2> SUFFICES ASSUME NEW t \in Slots \ overtaken', req'[t].at \in Reading
               PROVE  req'[t].read = password'[req'[t].user]
    BY DEF ReadsAreCurrent, Reading
  <2>1. CASE t = s
    BY <1>1, <2>1
  <2>2. CASE t # s
    BY <1>1, <2>2 DEF ReadsAreCurrent, Reading
  <2> QED
    BY <2>1, <2>2
<1> QED
    BY <1>2, <1>3, <1>4, <1>5, <1>6, <1>7, <1>8

\* A request that is answered leaves everything in order
LEMMA AnswerStep ==
    ASSUME ResetInv, NEW s \in Slots, Answer(s), UNCHANGED <<clock, password, resets, raced, overtaken>>,
           emitted' \in Mail \cup {None}
    PROVE  ResetInv'
<1>1. raced \subseteq Users /\ overtaken \subseteq Slots /\ password \in [Users -> Passwords]
    BY DEF ResetInv, TypeOK
<1> QED
    BY <1>1, QuietStep, IdleIsARequest DEF Answer, ConfirmSteps, SendSteps, Reading

\* Time passes no further than an insert may take
LEMMA TickInv == ASSUME ResetInv, Tick PROVE ResetInv'
<1> USE DEF ResetInv
<1>1. /\ clock < MaxClock /\ clock' = clock + 1 /\ emitted' = None
      /\ UNCHANGED <<password, resets, req, raced, overtaken>>
      /\ \A s \in Slots : req[s].at = "sendCreate" => clock < req[s].token.at + TokenLife - Window
    BY DEF Tick, Silent
<1>2. TypeOK'
    BY <1>1, InstantsAreNumbers DEF TypeOK
<1>3. OneResetUnlessRaced' /\ RequestsAreComplete' /\ RacesAreNoted' /\ ReadsAreCurrent'
    BY <1>1 DEF OneResetUnlessRaced, RequestsAreComplete, RacesAreNoted, ReadsAreCurrent
<1>4. TokensOutlastTheWindow'
    BY <1>1, InstantsAreNumbers DEF TokensOutlastTheWindow
<1>5. CreatorsFoundNone'
    BY <1>1, InstantsAreNumbers DEF CreatorsFoundNone, FindByIdUserId
<1> QED
    BY <1>2, <1>3, <1>4, <1>5

-----------------------------------------------------------------------------
\* The steps of a request for a mail
LEMMA SendEmailInv == ASSUME ResetInv, NEW s \in Slots, NEW u \in Users, SendEmail(s, u) PROVE ResetInv'
<1> DEFINE r == [Idle EXCEPT !.at = "sendGet", !.user = u]
<1>1. r \in Request /\ r.at = "sendGet" /\ r.user = u
    BY DEF Idle, Request, Steps
<1>2. Go(s, r) /\ Quiet
    BY DEF SendEmail
<1> HIDE DEF r
<1>3. /\ password' \in [Users -> Passwords] /\ emitted' \in Mail \cup {None}
      /\ raced' \subseteq Users /\ overtaken' \subseteq Slots
      /\ UNCHANGED <<clock, password, resets, raced, overtaken>>
    BY <1>2 DEF Quiet, Silent, ResetInv, TypeOK
<1> QED
    BY <1>1, <1>2, <1>3, QuietStep DEF ConfirmSteps, SendSteps, Reading

\* What a step that emits nothing leaves alone
LEMMA QuietFacts ==
    ASSUME ResetInv, Quiet
    PROVE  /\ password' \in [Users -> Passwords] /\ emitted' \in Mail \cup {None}
           /\ raced' \subseteq Users /\ raced \subseteq raced' /\ overtaken' \subseteq Slots
           /\ UNCHANGED <<clock, password, resets, raced, overtaken>>
    BY DEF Quiet, Silent, ResetInv, TypeOK

LEMMA SendGetInv == ASSUME ResetInv, NEW s \in Slots, SendGet(s) PROVE ResetInv'
<1> DEFINE r == [req[s] EXCEPT !.at = "sendFind"]
<1>1. req[s] \in Request /\ req[s].user \in Users
    BY DEF SendGet, ResetInv, TypeOK, RequestsAreComplete
<1>2. r \in Request /\ r.at = "sendFind" /\ r.user = req[s].user
    BY <1>1 DEF Request, Steps
<1> HIDE DEF r
<1>3. CASE Answer(s) /\ Quiet
    BY <1>3, QuietFacts, AnswerStep
<1>4. CASE /\ Go(s, r) /\ Silent /\ UNCHANGED <<clock, password, resets, overtaken>>
           /\ raced' = raced \cup Mutex(s, req[s].user)
  <2>1. raced \subseteq raced' /\ raced' \subseteq Users
    BY <1>1, <1>4 DEF Mutex, ResetInv, TypeOK
  <2>2. \A t \in Slots \ {s} : req[t].at \in SendSteps /\ req[t].user = r.user => r.user \in raced'
    BY <1>2, <1>4 DEF Mutex, SendSteps
  <2>3. password' \in [Users -> Passwords] /\ emitted' \in Mail \cup {None} /\ overtaken' \subseteq Slots
    BY <1>4 DEF Silent, ResetInv, TypeOK
  <2> QED
    BY <1>1, <1>2, <1>4, <2>1, <2>2, <2>3, QuietStep DEF ConfirmSteps, Reading
<1> QED
    BY <1>3, <1>4 DEF SendGet, r

LEMMA SendFindInv == ASSUME ResetInv, NEW s \in Slots, SendFind(s) PROVE ResetInv'
<1> DEFINE u == req[s].user
<1>1. req[s] \in Request /\ u \in Users /\ req[s].at = "sendFind"
    BY DEF SendFind, ResetInv, TypeOK, RequestsAreComplete
<1>2. CASE FindByIdUserId(u) # {}
  <2>1. PICK x \in FindByIdUserId(u) : Emit([user |-> u, kind |-> "reset", token |-> x.token])
    BY <1>2 DEF SendFind
  <2>2. x.token \in Token
    BY <2>1, InstantsAreNumbers DEF FindByIdUserId
  <2>3. emitted' \in Mail
    BY <1>1, <2>1, <2>2 DEF Emit, Mail
  <2>4. Answer(s) /\ UNCHANGED <<clock, password, resets, raced, overtaken>>
    BY <1>2 DEF SendFind
  <2> QED
    BY <2>3, <2>4, AnswerStep DEF ResetInv, TypeOK
<1>3. CASE FindByIdUserId(u) = {}
  <2> DEFINE r == [req[s] EXCEPT !.at = "sendCreate", !.token = [user |-> u, at |-> clock]]
  <2>1. Go(s, r) /\ Quiet
    BY <1>3 DEF SendFind
  <2>2. clock \in 0 .. MaxClock
    BY DEF ResetInv, TypeOK
  <2>3. /\ r \in Request /\ r.at = "sendCreate" /\ r.user = u
        /\ r.token = [user |-> u, at |-> clock] /\ r.token \in Token
    BY <1>1, <2>2 DEF Request, Steps, Token
  <2> HIDE DEF r
  <2>4. r.token.user = u /\ clock + Window <= r.token.at + TokenLife
    BY <2>3, InstantsAreNumbers, ResetAssumption
  <2>5. \A t \in Slots \ {s} : req[t].at \in SendSteps /\ req[t].user = u => u \in raced'
    BY <1>1, <2>1, QuietFacts DEF ResetInv, RacesAreNoted, SendSteps
  <2> QED
    BY <1>1, <1>3, <2>1, <2>3, <2>4, <2>5, QuietFacts, QuietStep DEF ConfirmSteps, Reading
<1> QED
    BY <1>2, <1>3

\* The row is made: no other of the user is within the window of it
LEMMA SendCreateInv == ASSUME ResetInv, NEW s \in Slots, SendCreate(s) PROVE ResetInv'
<1> DEFINE q == req[s]
           x == [token |-> q.token, at |-> clock]
<1> USE DEF ResetInv
<1>1. /\ q \in Request /\ q.user \in Users /\ q.at = "sendCreate" /\ q.token \in Token
      /\ q.token.user = q.user
    BY DEF SendCreate, TypeOK, RequestsAreComplete
<1>2. CASE Answer(s) /\ Quiet
    BY <1>2, QuietFacts, AnswerStep
<1>3. CASE /\ resets' = resets \cup {x} /\ Answer(s)
           /\ Emit([user |-> q.user, kind |-> "reset", token |-> q.token])
           /\ UNCHANGED <<clock, password, raced, overtaken>>
  <2>1. x \in Reset /\ x.token = q.token /\ x.at = clock
    BY <1>1 DEF Reset, TypeOK
  <2>2. /\ req' \in [Slots -> Request] /\ req'[s] = Idle
        /\ \A t \in Slots \ {s} : req'[t] = req[t]
    BY <1>3, GoFacts, IdleIsARequest DEF Answer
  <2>3. emitted' \in Mail
    BY <1>1, <1>3 DEF Emit, Mail
  <2> HIDE DEF x
  <2>4. TypeOK'
    BY <1>3, <2>1, <2>2, <2>3 DEF TypeOK
  <2>5. OneResetUnlessRaced'
    <3>1. q.user \notin raced => \A r \in resets : r.token.user = q.user => r.at + Window <= clock
      BY <1>1, InstantsAreNumbers DEF CreatorsFoundNone, FindByIdUserId
    <3>2. \A r \in resets : r.at <= clock
      BY DEF TokensOutlastTheWindow
    <3>3. ASSUME NEW r \in resets, r.token.user = q.user, q.user \notin raced
          PROVE  ~ (clock < r.at + Window) /\ ~ (clock <= r.at)
      BY <3>1, <3>3, InstantsAreNumbers
    <3> QED
      BY <1>1, <1>3, <2>1, <3>3 DEF OneResetUnlessRaced
  <2>6. RequestsAreComplete'
    BY <2>2, IdleIsARequest DEF RequestsAreComplete, ConfirmSteps
  <2>7. TokensOutlastTheWindow'
    BY <1>1, <1>3, <2>1, <2>2, IdleIsARequest, InstantsAreNumbers DEF TokensOutlastTheWindow
  <2>8. RacesAreNoted'
    BY <1>3, <2>2, IdleIsARequest DEF RacesAreNoted, SendSteps
  <2>9. CreatorsFoundNone'
    BY <1>1, <1>3, <2>1, <2>2, IdleIsARequest
       DEF CreatorsFoundNone, FindByIdUserId, RacesAreNoted, SendSteps
  <2>10. ReadsAreCurrent'
    BY <1>3, <2>2, IdleIsARequest DEF ReadsAreCurrent
  <2> QED
    BY <2>4, <2>5, <2>6, <2>7, <2>8, <2>9, <2>10
<1> QED
    BY <1>2, <1>3 DEF SendCreate

-----------------------------------------------------------------------------
\* The steps of a request that brings a token back
LEMMA ConfirmInv ==
    ASSUME ResetInv, NEW s \in Slots, NEW u \in Users, NEW at \in 0 .. clock, NEW new \in Passwords,
           Confirm(s, [user |-> u, at |-> at], new)
    PROVE  ResetInv'
<1> DEFINE token == [user |-> u, at |-> at]
           r == [Idle EXCEPT !.at = "confirmGet", !.user = token.user, !.token = token, !.new = new]
<1>1. token \in Token /\ token.user = u
    BY InstantsAreNumbers DEF Token
<1>2. Go(s, r) /\ Quiet
    BY DEF Confirm
<1> HIDE DEF token
<1>3. r \in Request /\ r.at = "confirmGet" /\ r.user = u
    BY <1>1 DEF Idle, Request, Steps
<1> HIDE DEF r
<1> QED
    BY <1>2, <1>3, QuietFacts, QuietStep DEF ConfirmSteps, SendSteps, Reading

LEMMA ConfirmGetInv == ASSUME ResetInv, NEW s \in Slots, ConfirmGet(s) PROVE ResetInv'
<1> DEFINE r == [req[s] EXCEPT !.at = "confirmFind", !.read = password[req[s].user]]
<1>1. req[s] \in Request /\ req[s].user \in Users /\ password[req[s].user] \in Passwords
    BY DEF ConfirmGet, ResetInv, TypeOK, RequestsAreComplete
<1>2. /\ r \in Request /\ r.at = "confirmFind" /\ r.user \in Users /\ r.read \in Passwords
      /\ r.read = password[r.user]
    BY <1>1 DEF Request, Steps
<1>3. \/ Answer(s) /\ Quiet
      \/ Go(s, r) /\ overtaken' = overtaken \ {s} /\ Silent /\ UNCHANGED <<clock, password, resets, raced>>
    BY DEF ConfirmGet
<1> HIDE DEF r
<1>4. CASE Answer(s) /\ Quiet
    BY <1>4, QuietFacts, AnswerStep
<1>5. CASE Go(s, r) /\ overtaken' = overtaken \ {s} /\ Silent /\ UNCHANGED <<clock, password, resets, raced>>
  <2>1. /\ password' \in [Users -> Passwords] /\ emitted' \in Mail \cup {None}
        /\ raced' \subseteq Users /\ raced \subseteq raced' /\ overtaken' \subseteq Slots
    BY <1>5 DEF Silent, ResetInv, TypeOK
  <2> QED
    BY <1>2, <1>5, <2>1, QuietStep DEF SendSteps, Reading
<1> QED
    BY <1>3, <1>4, <1>5

LEMMA ConfirmFindInv == ASSUME ResetInv, NEW s \in Slots, ConfirmFind(s) PROVE ResetInv'
<1> DEFINE r == [req[s] EXCEPT !.at = "confirmPost"]
<1>1. /\ req[s] \in Request /\ req[s].user \in Users /\ req[s].read \in Passwords
      /\ s \notin overtaken => req[s].read = password[req[s].user]
    BY DEF ConfirmFind, ResetInv, TypeOK, RequestsAreComplete, ConfirmSteps, ReadsAreCurrent
<1>2. /\ r \in Request /\ r.at = "confirmPost" /\ r.user = req[s].user /\ r.read = req[s].read
    BY <1>1 DEF Request, Steps
<1>3. \/ Answer(s) /\ Quiet
      \/ Go(s, r) /\ Quiet
    BY DEF ConfirmFind
<1> HIDE DEF r
<1>4. CASE Answer(s) /\ Quiet
    BY <1>4, QuietFacts, AnswerStep
<1>5. CASE Go(s, r) /\ Quiet
    BY <1>1, <1>2, <1>5, QuietFacts, QuietStep DEF SendSteps, Reading
<1> QED
    BY <1>3, <1>4, <1>5

\* A write is known to those that read the user before
LEMMA WriteFacts ==
    ASSUME ResetInv, NEW u \in Users, NEW p \in Passwords, Write(u, p)
    PROVE  /\ password' \in [Users -> Passwords] /\ password'[u] = p /\ overtaken' \subseteq Slots
           /\ \A v \in Users \ {u} : password'[v] = password[v]
           /\ overtaken \subseteq overtaken'
           /\ \A t \in Slots : t \notin overtaken' /\ req[t].at \in Reading
                                => password'[req[t].user] = password[req[t].user]
<1>1. password \in [Users -> Passwords] /\ overtaken \subseteq Slots
    BY DEF ResetInv, TypeOK
<1>2. \A t \in Slots : req[t].at \in Reading => req[t].user \in Users
    BY DEF ResetInv, RequestsAreComplete, Reading
<1>3. password' = [password EXCEPT ![u] = p]
    BY DEF Write
<1>4. \A t \in Slots : t \notin overtaken' /\ req[t].at \in Reading /\ req[t].user = u => p = password[u]
    BY DEF Write, Readers, Reading
<1> QED
    BY <1>1, <1>2, <1>3, <1>4 DEF Write, Readers

LEMMA ConfirmPostInv == ASSUME ResetInv, NEW s \in Slots, ConfirmPost(s) PROVE ResetInv'
<1> DEFINE r == [req[s] EXCEPT !.at = "confirmRemove"]
           mail == [user |-> req[s].user, kind |-> "changed", token |-> None]
<1>1. req[s] \in Request /\ req[s].user \in Users /\ req[s].read \in Passwords /\ req[s].at = "confirmPost"
    BY DEF ConfirmPost, ResetInv, TypeOK, RequestsAreComplete, ConfirmSteps
<1>2. r \in Request /\ r.at = "confirmRemove" /\ r.user \in Users /\ r.read \in Passwords
    BY <1>1 DEF Request, Steps
<1>3. req[s] = [req[s] EXCEPT !.at = req[s].at] /\ (UNCHANGED req => Go(s, req[s]))
  <2>1. req \in [Slots -> Request]
    BY DEF ResetInv, TypeOK
  <2> QED
    BY <1>1, <2>1 DEF Go, Request
<1>4. \/ Answer(s) /\ Quiet
      \/ /\ Write(req[s].user, req[s].read) /\ emitted' \in {mail, None} /\ UNCHANGED <<clock, resets, raced>>
         /\ Go(s, r) \/ Go(s, Idle) \/ Go(s, req[s])
    BY <1>3 DEF ConfirmPost, Emit, Silent, Answer
<1>5. mail \in Mail
    BY <1>1 DEF Mail
<1> HIDE DEF r, mail
<1>6. CASE Answer(s) /\ Quiet
    BY <1>6, QuietFacts, AnswerStep
<1>7. ASSUME Write(req[s].user, req[s].read), emitted' \in {mail, None}, UNCHANGED <<clock, resets, raced>>,
             Go(s, r) \/ Go(s, Idle) \/ Go(s, req[s])
      PROVE  ResetInv'
  <2>1. /\ raced' \subseteq Users /\ raced \subseteq raced' /\ emitted' \in Mail \cup {None}
    BY <1>5, <1>7 DEF ResetInv, TypeOK
  <2>2. /\ password' \in [Users -> Passwords] /\ password'[req[s].user] = req[s].read
        /\ overtaken' \subseteq Slots /\ overtaken \subseteq overtaken'
        /\ \A t \in Slots : t \notin overtaken' /\ req[t].at \in Reading
                             => password'[req[t].user] = password[req[t].user]
    BY <1>1, <1>7, WriteFacts
  <2>3. CASE Go(s, r)
    BY <1>2, <1>7, <2>1, <2>2, <2>3, QuietStep DEF SendSteps, Reading
  <2>4. CASE Go(s, Idle)
    BY <1>7, <2>1, <2>2, <2>4, IdleIsARequest, QuietStep DEF SendSteps, Reading, ConfirmSteps
  <2>5. CASE Go(s, req[s])
    BY <1>1, <1>7, <2>1, <2>2, <2>5, QuietStep DEF SendSteps, Reading
  <2> QED
    BY <1>7, <2>3, <2>4, <2>5
<1> QED
    BY <1>4, <1>6, <1>7

LEMMA ConfirmRemoveInv == ASSUME ResetInv, NEW s \in Slots, ConfirmRemove(s) PROVE ResetInv'
    BY QuietFacts, AnswerStep DEF ConfirmRemove

\* The user application changes a password behind the back of all of them
LEMMA ChangePasswordInv ==
    ASSUME ResetInv, NEW u \in Users, NEW p \in Passwords, ChangePassword(u, p)
    PROVE  ResetInv'
<1> USE DEF ResetInv
<1>1. Write(u, p) /\ Silent /\ UNCHANGED <<clock, resets, req, raced>>
    BY DEF ChangePassword
<1>2. TypeOK'
    BY <1>1, WriteFacts DEF TypeOK, Silent
<1>3. ReadsAreCurrent'
    BY <1>1, WriteFacts DEF ReadsAreCurrent, Reading
<1> QED
    BY <1>1, <1>2, <1>3 DEF OneResetUnlessRaced, RequestsAreComplete, TokensOutlastTheWindow, RacesAreNoted,
                            CreatorsFoundNone, FindByIdUserId

-----------------------------------------------------------------------------
LEMMA InitInv == Init => ResetInv
<1> SUFFICES ASSUME Init PROVE ResetInv
    OBVIOUS
<1> USE DEF Init
<1>1. TypeOK
    BY IdleIsARequest, ResetAssumption DEF TypeOK
<1>2. RequestsAreComplete /\ RacesAreNoted /\ CreatorsFoundNone /\ ReadsAreCurrent
    BY IdleIsARequest DEF ReadsAreCurrent, RequestsAreComplete, RacesAreNoted, CreatorsFoundNone, ConfirmSteps, SendSteps
<1>3. OneResetUnlessRaced /\ TokensOutlastTheWindow
    BY IdleIsARequest DEF OneResetUnlessRaced, TokensOutlastTheWindow
<1> QED
    BY <1>1, <1>2, <1>3 DEF ResetInv

LEMMA StepInv == ResetInv /\ [Next]_vars => ResetInv'
<1> SUFFICES ASSUME ResetInv, [Next]_vars PROVE ResetInv'
    OBVIOUS
<1>1. CASE UNCHANGED vars
    BY <1>1 DEF vars, ResetInv, TypeOK, OneResetUnlessRaced, RequestsAreComplete, TokensOutlastTheWindow,
                RacesAreNoted, CreatorsFoundNone, FindByIdUserId, ReadsAreCurrent
<1>2. CASE Tick
    BY <1>2, TickInv
<1>3. ASSUME NEW s \in Slots, Step(s) PROVE ResetInv'
    BY <1>3, SendGetInv, SendFindInv, SendCreateInv, ConfirmGetInv, ConfirmFindInv, ConfirmPostInv,
       ConfirmRemoveInv DEF Step
<1>4. ASSUME NEW s \in Slots, NEW u \in Users, SendEmail(s, u) PROVE ResetInv'
    BY <1>4, SendEmailInv
<1>5. ASSUME NEW s \in Slots, NEW u \in Users, NEW at \in 0 .. clock, NEW new \in Passwords,
             Confirm(s, [user |-> u, at |-> at], new)
      PROVE  ResetInv'
    BY <1>5, ConfirmInv
<1>6. ASSUME NEW u \in Users, NEW p \in Passwords, ChangePassword(u, p) PROVE ResetInv'
    BY <1>6, ChangePasswordInv
<1> QED
    BY <1>1, <1>2, <1>3, <1>4, <1>5, <1>6 DEF Next

\* The invariant holds of every behaviour
THEOREM Invariance == Spec => []ResetInv
<1> QED
    BY InitInv, StepInv, PTL DEF Spec

(***************************************************************************)
(* ResetPasswordSendEmailUsecase looks for a reset before it makes one:    *)
(* with any number of requests and any window, a user has two within it    *)
(* only if two mails were asked for at the same time.                      *)
(***************************************************************************)
THEOREM OneReset == Spec => []OneResetAtATime
<1>1. ResetInv => OneResetAtATime
    BY DEF ResetInv, OneResetAtATime
<1> QED
    BY Invariance, <1>1, PTL

(***************************************************************************)
(* A token is mailed alive, the first time and every time it is found      *)
(* again, for every TOKEN_EXPIRATION that is no shorter than the window.   *)
(***************************************************************************)
THEOREM MailsAreOfUse == Spec => MailedTokensAreAlive
<1> DEFINE Mailed == emitted' # None /\ emitted'.kind = "reset"
<1>1. ASSUME ResetInv, Next, Mailed PROVE Alive(emitted'.token)
  <2>1. PICK s \in Slots : (SendFind(s) \/ SendCreate(s) \/ ConfirmPost(s)) /\ ~ Silent
    BY <1>1 DEF Next, Step, Tick, Quiet, Silent, SendEmail, SendGet, Confirm, ConfirmGet, ConfirmFind,
                ConfirmRemove, ChangePassword
  <2>2. CASE SendFind(s)
    <3>1. PICK x \in FindByIdUserId(req[s].user) :
              Emit([user |-> req[s].user, kind |-> "reset", token |-> x.token])
      BY <2>1, <2>2 DEF SendFind, Quiet
    <3>2. x \in resets /\ clock < x.at + Window /\ x.at + Window <= x.token.at + TokenLife
      BY <1>1, InstantsAreNumbers DEF FindByIdUserId, ResetInv, TokensOutlastTheWindow
    <3>3. clock < x.token.at + TokenLife
      BY <1>1, <3>2, InstantsAreNumbers
    <3> QED
      BY <3>1, <3>3 DEF Emit, Alive
  <2>3. CASE SendCreate(s)
    <3>1. /\ req[s].at = "sendCreate"
          /\ Emit([user |-> req[s].user, kind |-> "reset", token |-> req[s].token])
      BY <2>1, <2>3 DEF SendCreate, Quiet
    <3>2. clock + Window <= req[s].token.at + TokenLife
      BY <1>1, <3>1 DEF ResetInv, TokensOutlastTheWindow
    <3>3. clock < req[s].token.at + TokenLife
      BY <1>1, <3>1, <3>2, InstantsAreNumbers
    <3> QED
      BY <3>1, <3>3 DEF Emit, Alive
  <2>4. CASE ConfirmPost(s)
    BY <1>1, <2>1, <2>4 DEF ConfirmPost, Quiet, Emit
  <2> QED
    BY <2>1, <2>2, <2>3, <2>4
<1>2. ResetInv /\ [Next]_vars => [Mailed => Alive(emitted'.token)]_vars
    BY <1>1
<1> QED
    BY Invariance, <1>2, PTL DEF Spec, MailedTokensAreAlive

(***************************************************************************)
(* UserPasswordEntity of the confirmation is made of user.password: of a   *)
(* user that nobody changed since it was read, the post writes what is     *)
(* there.  A change is taken back only by who read before it.              *)
(***************************************************************************)
THEOREM UndoneByOvertakenReads == Spec => OnlyOvertakenReadsUndoChanges
<1>1. ASSUME ResetInv, Next, NEW u \in Users, password'[u] # password[u]
      PROVE  (\E p \in Passwords : ChangePassword(u, p)) \/ \E s \in Slots : ChangesAreTakenBackBy(s, u)
  <2>1. \/ \E s \in Slots : ConfirmPost(s) /\ ~ Quiet
        \/ \E v \in Users, p \in Passwords : ChangePassword(v, p)
    BY <1>1 DEF Next, Step, Tick, Quiet, SendEmail, SendGet, SendFind, SendCreate, Confirm, ConfirmGet,
                ConfirmFind, ConfirmRemove
  <2>2. CASE \E v \in Users, p \in Passwords : ChangePassword(v, p)
    <3>1. PICK v \in Users, p \in Passwords : ChangePassword(v, p)
      BY <2>2
    <3>2. v = u
      BY <1>1, <3>1, WriteFacts DEF ChangePassword
    <3> QED
      BY <3>1, <3>2
  <2>3. CASE \E s \in Slots : ConfirmPost(s) /\ ~ Quiet
    <3>1. PICK s \in Slots : ConfirmPost(s) /\ ~ Quiet
      BY <2>3
    <3>2. /\ req[s].at = "confirmPost" /\ Write(req[s].user, req[s].read)
          /\ req[s].user \in Users /\ req[s].read \in Passwords
      BY <1>1, <3>1 DEF ConfirmPost, ResetInv, RequestsAreComplete, ConfirmSteps
    <3>3. req[s].user = u /\ password'[u] = req[s].read
      BY <1>1, <3>2, WriteFacts
    <3>4. s \in overtaken
      BY <1>1, <3>2, <3>3 DEF ResetInv, ReadsAreCurrent
    <3> QED
      BY <3>2, <3>3, <3>4 DEF ChangesAreTakenBackBy
  <2> QED
    BY <2>1, <2>2, <2>3
<1>2. ResetInv /\ [Next]_vars
        => [\A u \in Users : password'[u] # password[u] =>
              (\E p \in Passwords : ChangePassword(u, p)) \/ \E s \in Slots : ChangesAreTakenBackBy(s, u)]_vars
    BY <1>1
<1> QED
    BY Invariance, <1>2, PTL DEF Spec, OnlyOvertakenReadsUndoChanges
=============================================================================
