------------------------------ MODULE Session ------------------------------
(***************************************************************************)
(* Login, refresh and logout of the authentication application, and the    *)
(* authentication middleware that every application puts before its        *)
(* controllers.  A session is a signed token with an expiry; the only      *)
(* state that is shared is the blacklist of logged-out tokens in Redis.    *)
(*                                                                         *)
(* Time is in milliseconds.  A token keeps whole seconds, as jsonwebtoken  *)
(* does; Redis keeps milliseconds, and both take their lifetime from       *)
(* TOKEN_EXPIRATION.  All machines share one clock.                        *)
(***************************************************************************)
EXTENDS Integers, FiniteSets

CONSTANTS
    Users,
    Slots,      \* requests in flight at the same time
    Lifetime,   \* TOKEN_EXPIRATION, in milliseconds
    WithUnit,   \* whether TOKEN_EXPIRATION names its unit, as in 1h
    Ticks,      \* the steps in which time passes
    MaxNow,     \* bound on time
    MaxKeys     \* bound on the tokens that are logged out

ASSUME LifetimeIsNat == Lifetime \in Nat
ASSUME TicksArePositive == Ticks \subseteq Nat \ {0}
ASSUME BoundsAreNat == MaxNow \in Nat /\ MaxKeys \in Nat

VARIABLES
    now,
    known,      \* the users that users/search finds with a role
    issued,     \* the tokens that were signed
    blacklist,  \* blacklist[t]: when Redis forgets the key t, last set in the past
    snapshot,   \* the blacklist as Redis last saved it to disk
    req,        \* req[s]: the request in flight in slot s
    late,       \* history: the slots whose request came with a logged-out token
    removedAt   \* history: when a user was removed, no token of his being signed

redis == <<blacklist, snapshot>>
vars == <<now, known, issued, redis, req, late, removedAt>>

Second == 1000

\* The payload tells the two kinds apart: { id, email, name } and { userId }.
\* Two tokens of a user signed in one second are the same string.
Token == [kind : {"access", "refresh"}, user : Users, iat : Nat]

Expired(t) == now \div Second >= t.iat + Lifetime \div Second
Listed(t) == t \in DOMAIN blacklist /\ now <= blacklist[t]

\* A request is authenticated ("get", "verify", "serve"), or is a logout of
\* token `body' that was ("logout"), or is a login or a refresh ("search",
\* "sign"), or is about to be answered 400 ("incorrectToken").
Steps == {"idle", "get", "verify", "serve", "logout", "search", "sign", "incorrectToken"}
NoToken == [kind |-> "none"]
NoUser == [user |-> "none"]
Request == [at : Steps, token : Token \cup {NoToken}, body : Token \cup {NoToken},
            user : Users \cup {NoUser}]
Idle == [at |-> "idle", token |-> NoToken, body |-> NoToken, user |-> NoUser]

TypeOK ==
    /\ now \in Nat
    /\ known \subseteq Users
    /\ issued \subseteq Token
    /\ DOMAIN blacklist \subseteq issued /\ blacklist \in [DOMAIN blacklist -> Nat]
    /\ DOMAIN snapshot \subseteq DOMAIN blacklist /\ snapshot \in [DOMAIN snapshot -> Nat]
    /\ req \in [Slots -> Request]
    /\ late \subseteq Slots
    /\ DOMAIN removedAt \subseteq Users /\ removedAt \in [DOMAIN removedAt -> Nat]

Init ==
    /\ now = 0
    /\ known = Users
    /\ issued = {}
    /\ blacklist = [t \in {} |-> 0]
    /\ snapshot = [t \in {} |-> 0]
    /\ req = [s \in Slots |-> Idle]
    /\ late = {}
    /\ removedAt = [u \in {} |-> 0]

-----------------------------------------------------------------------------
Begin(s, step, t, b, u) ==
    /\ req[s].at = "idle"
    /\ req' = [req EXCEPT ![s] = [at |-> step, token |-> t, body |-> b, user |-> u]]
Continue(s, step) == req' = [req EXCEPT ![s].at = step] /\ UNCHANGED late
Answer(s) == req' = [req EXCEPT ![s] = Idle] /\ late' = late \ {s}
Put(f, k, v) == [x \in DOMAIN f \cup {k} |-> IF x = k THEN v ELSE f[x]]
Drop(f, S) == [x \in DOMAIN f \ S |-> f[x]]

\* A request with a token in its header; a logout also has one in its body
Arrive(s, t, b) ==
    /\ t \in issued /\ b \in issued \cup {NoToken}
    /\ Begin(s, "get", t, b, NoUser)
    /\ late' = IF t \in DOMAIN blacklist THEN late \cup {s} ELSE late
    /\ UNCHANGED <<now, known, issued, redis, removedAt>>

\* redisService.get: a listed token is answered 401 by the first next(error);
\* the verification and the second next() that follow reach no handler
Get(s) ==
    /\ req[s].at = "get"
    /\ \/ Listed(req[s].token) /\ Answer(s)
       \/ ~ Listed(req[s].token) /\ Continue(s, "verify")
    /\ UNCHANGED <<now, known, issued, redis, removedAt>>

\* The reply of Redis is handled: the token is verified, and the request goes
\* to its handler
Verify(s) ==
    /\ req[s].at = "verify"
    /\ \/ Expired(req[s].token) /\ Answer(s)
       \/ ~ Expired(req[s].token) /\ req[s].body = NoToken /\ Continue(s, "serve")
       \/ ~ Expired(req[s].token) /\ req[s].body # NoToken /\ Continue(s, "logout")
    /\ UNCHANGED <<now, known, issued, redis, removedAt>>

Serve(s) ==
    /\ req[s].at = "serve"
    /\ Answer(s)
    /\ UNCHANGED <<now, known, issued, redis, removedAt>>

\* Mutant: the lifetime is given to Redis in seconds
LogoutInSeconds(s) ==
    /\ req[s].at = "logout"
    /\ Cardinality(DOMAIN blacklist \cup {req[s].body}) <= MaxKeys
    /\ blacklist' = Put(blacklist, req[s].body, now + Lifetime \div Second)
    /\ Answer(s)
    /\ UNCHANGED <<now, known, issued, snapshot, removedAt>>

\* user-logout.ts: SET token token PX TOKEN_EXPIRATION.  Redis takes digits
\* only, and answers an error otherwise
Logout(s) ==
    /\ req[s].at = "logout"
    /\ Cardinality(DOMAIN blacklist \cup {req[s].body}) <= MaxKeys
    /\ blacklist' = IF WithUnit THEN blacklist
                    ELSE Put(blacklist, req[s].body, now + Lifetime)
    /\ Answer(s)
    /\ UNCHANGED <<now, known, issued, snapshot, removedAt>>

-----------------------------------------------------------------------------
\* user-login.ts: the user is asked of the user application
Login(s, u) ==
    /\ Begin(s, "search", NoToken, NoToken, u)
    /\ UNCHANGED <<now, known, issued, redis, late, removedAt>>

\* user-refresh-token.ts: the token is verified and must carry an id, which
\* is asked of the user application.  The blacklist is not consulted.
Refresh(s, t) ==
    /\ t \in issued
    /\ ~ Expired(t)
    /\ Begin(s, IF t.kind = "access" THEN "search" ELSE "incorrectToken", t, NoToken, t.user)
    /\ UNCHANGED <<now, known, issued, redis, late, removedAt>>

RefuseRefresh(s) ==
    /\ req[s].at = "incorrectToken"
    /\ Answer(s)
    /\ UNCHANGED <<now, known, issued, redis, removedAt>>

\* Mutant: the answer of the search is not looked at
SearchUnseen(s) ==
    /\ req[s].at = "search"
    /\ Continue(s, "sign")
    /\ UNCHANGED <<now, known, issued, redis, removedAt>>

\* The user application reads the user and its roles
Search(s) ==
    /\ req[s].at = "search"
    /\ req[s].user \in known
    /\ Continue(s, "sign")
    /\ UNCHANGED <<now, known, issued, redis, removedAt>>

\* 404 userNotFound or roleNotFound, or the call to the user application failed
Refuse(s) ==
    /\ req[s].at = "search"
    /\ Answer(s)
    /\ UNCHANGED <<now, known, issued, redis, removedAt>>

\* Mutant: a token is backdated by a second to allow for skewed clocks
SignBackdated(s) ==
    /\ req[s].at = "sign"
    /\ issued' = issued \cup
            {[kind |-> "access", user |-> req[s].user, iat |-> now \div Second - 1]}
    /\ Answer(s)
    /\ UNCHANGED <<now, known, redis, removedAt>>

\* The answer is handled: a login with the wrong password is refused,
\* otherwise two tokens are signed
Sign(s) ==
    /\ req[s].at = "sign"
    /\ \/ issued' = issued \cup
              {[kind |-> k, user |-> req[s].user, iat |-> now \div Second] :
                  k \in {"access", "refresh"}}
       \/ req[s].token = NoToken /\ issued' = issued
    /\ Answer(s)
    /\ UNCHANGED <<now, known, redis, removedAt>>

-----------------------------------------------------------------------------
\* The user application deletes a user or takes its last role, or gives one back
Remove(u) ==
    /\ u \in known
    /\ known' = known \ {u}
    /\ removedAt' = IF \E s \in Slots : req[s].at = "sign" /\ req[s].user = u
                    THEN removedAt ELSE Put(removedAt, u, now)
    /\ UNCHANGED <<now, issued, redis, req, late>>

Admit(u) ==
    /\ u \notin known
    /\ known' = known \cup {u}
    /\ removedAt' = Drop(removedAt, {u})
    /\ UNCHANGED <<now, issued, redis, req, late>>

\* Redis saves its keys now and then, and comes back with them from a crash.
\* A logout that the crash drops no longer counts.
Save ==
    /\ snapshot' = blacklist
    /\ UNCHANGED <<now, known, issued, blacklist, req, late, removedAt>>

Crash ==
    /\ blacklist' = snapshot
    /\ late' = {s \in late : req[s].token \in DOMAIN snapshot}
    /\ UNCHANGED <<now, known, issued, snapshot, req, removedAt>>

Tick ==
    /\ \E d \in Ticks : now + d <= MaxNow /\ now' = now + d
    /\ UNCHANGED <<known, issued, redis, req, late, removedAt>>

Next ==
    \/ \E s \in Slots :
        \/ \E t \in issued, b \in issued \cup {NoToken} : Arrive(s, t, b)
        \/ Get(s) \/ Verify(s) \/ Serve(s) \/ Logout(s)
        \/ \E u \in Users : Login(s, u)
        \/ \E t \in issued : Refresh(s, t)
        \/ RefuseRefresh(s) \/ Search(s) \/ Refuse(s) \/ Sign(s)
    \/ \E u \in Users : Remove(u) \/ Admit(u)
    \/ Save \/ Crash \/ Tick

Spec == Init /\ [][Next]_vars

-----------------------------------------------------------------------------
(***************************************************************************)
(* A request that arrives after its token was logged out never reaches a   *)
(* handler, whatever happens between the query of the blacklist and the    *)
(* verification of the token, and however long it waits there: the entry   *)
(* of Redis outlives the token although one counts seconds and the other   *)
(* milliseconds.                                                           *)
(***************************************************************************)
LoggedOutTokenIsRefused ==
    \A s \in Slots : req[s].at \in {"serve", "logout"} => s \notin late

(***************************************************************************)
(* A user that is removed while no token of his is being signed is let in  *)
(* for one token lifetime at most: no chain of refreshes keeps him in.     *)
(***************************************************************************)
RemovedUserIsLetInForOneLifetime ==
    [][\A s \in Slots :
          req[s].at = "verify" /\ req'[s].at \in {"serve", "logout"}
              => LET u == req[s].token.user IN
                 u \in DOMAIN removedAt => now < removedAt[u] + Lifetime]_vars

-----------------------------------------------------------------------------
(***************************************************************************)
(* The inductive invariant behind the two properties (SessionProofs).      *)
(***************************************************************************)
RequestsCarryIssuedTokens ==
    \A s \in Slots :
        /\ req[s].at \in {"get", "verify", "serve", "logout"} => req[s].token \in issued
        /\ req[s].at = "logout" => req[s].body \in issued
        /\ req[s].body # NoToken => req[s].body \in issued
        /\ req[s].at \in {"search", "sign"} => req[s].user \in Users

TokensAreFromThePast == \A t \in issued : t.iat * Second <= now

\* What Redis holds it holds until the token has expired
EntriesOutliveTokens ==
    /\ \A t \in DOMAIN blacklist : t.iat * Second + Lifetime <= blacklist[t]
    /\ \A t \in DOMAIN snapshot : t.iat * Second + Lifetime <= snapshot[t]

\* A late request that Redis has let pass has an expired token
LateRequestsAreExpired ==
    \A s \in late :
        \/ req[s].at = "get" /\ req[s].token \in DOMAIN blacklist
        \/ req[s].at = "verify" /\ Expired(req[s].token)

RemovedUsersAreNotSigned ==
    \A u \in DOMAIN removedAt :
        /\ u \notin known
        /\ \A s \in Slots : req[s].at = "sign" => req[s].user # u
        /\ \A t \in issued : t.user = u => t.iat * Second <= removedAt[u]

SessionInv ==
    /\ TypeOK
    /\ RequestsCarryIssuedTokens
    /\ TokensAreFromThePast
    /\ EntriesOutliveTokens
    /\ LateRequestsAreExpired
    /\ LoggedOutTokenIsRefused
    /\ RemovedUsersAreNotSigned
=============================================================================
