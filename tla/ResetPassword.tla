---------------------------- MODULE ResetPassword ----------------------------
(***************************************************************************)
(* The password reset of the auth application: a mail with a token is      *)
(* asked for, and the token is brought back with a new password.  Requests *)
(* interleave at every await: the calls to the user application, which     *)
(* answers as it likes, and the queries on reset_password.  A mail is an   *)
(* event that is emitted; its listener is in a module that the application *)
(* does not import.                                                        *)
(***************************************************************************)
EXTENDS Naturals

CONSTANTS
    Users,          \* users of the user application
    Passwords,      \* their passwords, before and after
    Slots,          \* requests in flight at the same time
    Window,         \* 30 minutes: a reset is found for so long
    TokenLife,      \* TOKEN_EXPIRATION
    MaxClock,       \* bound on time
    None

ASSUME ResetAssumption ==
    /\ Window \in Nat \ {0} /\ TokenLife \in Nat /\ MaxClock \in Nat
    /\ Window <= TokenLife

VARIABLES
    clock,
    password,       \* password[u] in the user application
    resets,         \* rows of reset_password
    req,            \* req[s]: the request in flight in slot s
    emitted,        \* the mail of the SEND_EMAIL event the last step emitted, if any
    raced,          \* history: users of whom two mails were asked for at a time
    overtaken       \* history: requests whose user got another password since it was read

vars == <<clock, password, resets, req, emitted, raced, overtaken>>

\* A token is known by its user and the second it was signed in
Token == [user : Users, at : 0 .. MaxClock]
Reset == [token : Token, at : 0 .. MaxClock]
Mail == [user : Users, kind : {"reset", "changed"}, token : Token \cup {None}]
Steps == {"idle", "sendGet", "sendFind", "sendCreate", "confirmGet", "confirmFind",
          "confirmPost", "confirmRemove"}
Request ==
    [at : Steps, user : Users \cup {None}, token : Token \cup {None},
     new : Passwords \cup {None}, read : Passwords \cup {None}]
Idle == [at |-> "idle", user |-> None, token |-> None, new |-> None, read |-> None]

TypeOK ==
    /\ clock \in 0 .. MaxClock
    /\ password \in [Users -> Passwords]
    /\ resets \subseteq Reset
    /\ req \in [Slots -> Request]
    /\ emitted \in Mail \cup {None}
    /\ raced \subseteq Users /\ overtaken \subseteq Slots

Init ==
    /\ clock = 0
    /\ \E p \in Passwords : password = [u \in Users |-> p]
    /\ resets = {}
    /\ req = [s \in Slots |-> Idle]
    /\ emitted = None
    /\ raced = {} /\ overtaken = {}

-----------------------------------------------------------------------------
Go(s, r) == req' = [req EXCEPT ![s] = r]
Answer(s) == Go(s, Idle)
\* EventEmitter2.emit; nothing in the application listens, and nobody would wait
Emit(mail) == emitted' = mail
Silent == emitted' = None
Quiet == Silent /\ UNCHANGED <<clock, password, resets, raced, overtaken>>

\* An insert takes no longer than the life of a token exceeds the window
Tick ==
    /\ clock < MaxClock /\ clock' = clock + 1
    /\ \A s \in Slots : req[s].at = "sendCreate" => clock < req[s].token.at + TokenLife - Window
    /\ Silent /\ UNCHANGED <<password, resets, req, raced, overtaken>>

Mutex(s, u) == {v \in {u} : \E t \in Slots \ {s} : req[t].user = v /\ req[t].at \in {"sendFind", "sendCreate"}}

\* Mutant: a reset is found at any age
FindAnyAge(u) == {r \in resets : r.token.user = u}

\* Mutant: LessThan for MoreThan
FindOlder(u) == {r \in resets : r.token.user = u /\ r.at + Window <= clock}

\* findByIdUserId: the resets of the user created less than 30 minutes ago
FindByIdUserId(u) == {r \in resets : r.token.user = u /\ r.at + Window > clock}

\* POST /reset-password/send-email
SendEmail(s, u) ==
    /\ req[s].at = "idle"
    /\ Go(s, [Idle EXCEPT !.at = "sendGet", !.user = u])
    /\ Quiet

\* GET find-by?email: a user, nobody, or an error
SendGet(s) ==
    /\ req[s].at = "sendGet"
    /\ \/ /\ Go(s, [req[s] EXCEPT !.at = "sendFind"])
          /\ raced' = raced \cup Mutex(s, req[s].user)
          /\ Silent /\ UNCHANGED <<clock, password, resets, overtaken>>
       \/ Answer(s) /\ Quiet   \* 404 or 500

\* A reset that is found is mailed again, or a new token is signed
SendFind(s) ==
    /\ req[s].at = "sendFind"
    /\ LET u == req[s].user IN
       IF FindByIdUserId(u) # {}
       THEN /\ \E r \in FindByIdUserId(u) :
                  Emit([user |-> u, kind |-> "reset", token |-> r.token])
            /\ Answer(s)
            /\ UNCHANGED <<clock, password, resets, raced, overtaken>>
       ELSE /\ Go(s, [req[s] EXCEPT !.at = "sendCreate", !.token = [user |-> u, at |-> clock]])
            /\ Quiet

\* The row is created and its token mailed, or the query fails
SendCreate(s) ==
    /\ req[s].at = "sendCreate"
    /\ \/ /\ resets' = resets \cup {[token |-> req[s].token, at |-> clock]}
          /\ Emit([user |-> req[s].user, kind |-> "reset", token |-> req[s].token])
          /\ Answer(s)
          /\ UNCHANGED <<clock, password, raced, overtaken>>
       \/ Answer(s) /\ Quiet

\* TokenService.verify
Alive(token) == clock < token.at + TokenLife

\* PUT /reset-password/:token with equal passwords and any token that was signed
\* for a user: those of a login are as good
Confirm(s, token, new) ==
    /\ req[s].at = "idle"
    /\ Alive(token)
    /\ Go(s, [Idle EXCEPT !.at = "confirmGet", !.user = token.user, !.token = token, !.new = new])
    /\ Quiet

\* GET find-by?id
ConfirmGet(s) ==
    /\ req[s].at = "confirmGet"
    /\ \/ /\ Go(s, [req[s] EXCEPT !.at = "confirmFind", !.read = password[req[s].user]])
          /\ overtaken' = overtaken \ {s}
          /\ Silent /\ UNCHANGED <<clock, password, resets, raced>>
       \/ Answer(s) /\ Quiet   \* 404 or 500

\* Mutant: nothing is thrown, and the promise stays open
ConfirmFindOnly(s) ==
    /\ req[s].at = "confirmFind"
    /\ FindByIdUserId(req[s].user) # {}
    /\ Go(s, [req[s] EXCEPT !.at = "confirmPost"])
    /\ Quiet

\* Any reset of the user will do
ConfirmFind(s) ==
    /\ req[s].at = "confirmFind"
    /\ IF FindByIdUserId(req[s].user) = {}
       THEN Answer(s) /\ Quiet
       ELSE /\ Go(s, [req[s] EXCEPT !.at = "confirmPost"])
            /\ Quiet

Readers(u) == {s \in Slots : req[s].user = u /\ req[s].at \in {"confirmFind", "confirmPost"}}
\* The user application has another password than the confirmations of it read
Write(u, p) ==
    /\ password' = [password EXCEPT ![u] = p]
    /\ overtaken' = IF p = password[u] THEN overtaken ELSE overtaken \cup Readers(u)

\* The hash is made of the password that was read; the user is posted as it was
\* read, and the event emitted.  An answer that is lost fails the request or has
\* the post repeated
ConfirmPost(s) ==
    /\ req[s].at = "confirmPost"
    /\ \/ /\ Write(req[s].user, req[s].read)
          /\ \/ /\ Emit([user |-> req[s].user, kind |-> "changed", token |-> None])
                /\ Go(s, [req[s] EXCEPT !.at = "confirmRemove"])
             \/ Silent /\ (Answer(s) \/ UNCHANGED req)
          /\ UNCHANGED <<clock, resets, raced>>
       \/ Answer(s) /\ Quiet

\* Mutant: what was posted is taken back when nothing can be removed
ConfirmRemoveRollback(s) ==
    /\ req[s].at = "confirmRemove"
    /\ Write(req[s].user, req[s].read)
    /\ Answer(s) /\ Silent /\ UNCHANGED <<clock, resets, raced>>

\* remove({ userId }) throws: the entity has a user and no userId.  The answer is
\* 500 after all, and the resets of the user stay
ConfirmRemove(s) == req[s].at = "confirmRemove" /\ Answer(s) /\ Quiet

\* The user application changes a password
ChangePassword(u, p) ==
    /\ p # password[u] /\ Write(u, p)
    /\ Silent /\ UNCHANGED <<clock, resets, req, raced>>

Step(s) ==
    \/ SendGet(s) \/ SendFind(s) \/ SendCreate(s)
    \/ ConfirmGet(s) \/ ConfirmFind(s) \/ ConfirmPost(s) \/ ConfirmRemove(s)

Next ==
    \/ Tick
    \/ \E s \in Slots :
          \/ Step(s)
          \/ \E u \in Users : SendEmail(s, u)
          \/ \E u \in Users, t \in 0 .. clock, new \in Passwords : Confirm(s, [user |-> u, at |-> t], new)
    \/ \E u \in Users, p \in Passwords : ChangePassword(u, p)

\* The event loop runs what is awaited, and a query succeeds or fails in the end.  A
\* call need not: axios has no timeout
Queries(s) == SendFind(s) \/ SendCreate(s) \/ ConfirmFind(s) \/ ConfirmRemove(s)
Fairness == \A s \in Slots : WF_vars(Queries(s))

Spec == Init /\ [][Next]_vars /\ Fairness

-----------------------------------------------------------------------------
(***************************************************************************)
(* A user has one reset at a time within the window, unless two mails were *)
(* asked for at the same time and both found none (nothing in the table    *)
(* keeps a second one out).                                                *)
(***************************************************************************)
OneResetUnlessRaced ==
    \A r, t \in resets :
        /\ r.token.user = t.token.user /\ r.token.user \notin raced
        /\ r.at <= t.at /\ t.at < r.at + Window
        => r = t

(***************************************************************************)
(* The token of a mail is alive when it is mailed, also when it is mailed  *)
(* again within the window, as TOKEN_EXPIRATION is no shorter.             *)
(***************************************************************************)
MailedTokensAreAlive ==
    [][emitted' # None /\ emitted'.kind = "reset" => Alive(emitted'.token)]_vars

(***************************************************************************)
(* A confirmation posts the user it read two awaits ago, and the hash of   *)
(* that password: it takes a change of the password back only if that was  *)
(* made in between, be it by the user application or by the confirmation   *)
(* of another.  Nothing else of a reset writes a password.                 *)
(***************************************************************************)
ChangesAreTakenBackBy(s, u) ==
    /\ req[s].at = "confirmPost" /\ req[s].user = u
    /\ password'[u] = req[s].new \/ (s \in overtaken /\ password'[u] = req[s].read)
OnlyOvertakenReadsUndoChanges ==
    [][\A u \in Users : password'[u] # password[u] =>
          (\E p \in Passwords : ChangePassword(u, p)) \/ \E s \in Slots : ChangesAreTakenBackBy(s, u)]_vars

(***************************************************************************)
(* A request is answered, or waits for ever for a call that it made to the *)
(* user application: nothing it finds in its own table leaves it open.     *)
(***************************************************************************)
Calls == {"sendGet", "confirmGet", "confirmPost"}
OnlyCallsLeaveRequestsOpen ==
    \A s \in Slots : req[s].at # "idle" ~> (req[s].at = "idle" \/ [](req[s].at \in Calls))
-----------------------------------------------------------------------------
(***************************************************************************)
(* The inductive invariant.                                                *)
(***************************************************************************)
SendSteps == {"sendFind", "sendCreate"}
ConfirmSteps == {"confirmFind", "confirmPost", "confirmRemove"}

\* A request is about a user, and carries what its step needs
RequestsAreComplete ==
    \A s \in Slots :
        /\ req[s].at # "idle" => req[s].user \in Users
        /\ req[s].at \in ConfirmSteps => req[s].read \in Passwords
        /\ req[s].at = "sendCreate" => req[s].token \in Token /\ req[s].token.user = req[s].user

\* A token lives for a window from the moment its row is made, or will be made
TokensOutlastTheWindow ==
    /\ \A r \in resets : r.at <= clock /\ r.at + Window <= r.token.at + TokenLife
    /\ \A s \in Slots :
          req[s].at = "sendCreate" => clock + Window <= req[s].token.at + TokenLife

\* Two requests that look for a reset of a user at a time are noted
RacesAreNoted ==
    \A s, t \in Slots :
        s # t /\ req[s].at \in SendSteps /\ req[t].at \in SendSteps /\ req[s].user = req[t].user
            => req[s].user \in raced

\* A request that makes a reset is the only one who could
CreatorsFoundNone ==
    \A s \in Slots :
        req[s].at = "sendCreate" /\ req[s].user \notin raced => FindByIdUserId(req[s].user) = {}

\* A request that was not overtaken knows the password of its user
ReadsAreCurrent ==
    \A s \in Slots \ overtaken :
        req[s].at \in {"confirmFind", "confirmPost"} => req[s].read = password[req[s].user]

ResetInv ==
    /\ TypeOK /\ OneResetUnlessRaced
    /\ RequestsAreComplete /\ TokensOutlastTheWindow
    /\ RacesAreNoted /\ CreatorsFoundNone /\ ReadsAreCurrent
=============================================================================
