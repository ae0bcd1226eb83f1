--------------------------- MODULE SessionProofs ---------------------------
(***************************************************************************)
(* SessionInv is an inductive invariant of Session, for any users, slots,  *)
(* lifetime and granularity of time, and gives its two properties.         *)
(***************************************************************************)
EXTENDS Session, TLAPS

\* The whole seconds of a time never run back, and lag it by less than one
LEMMA Seconds ==
    ASSUME NEW a \in Nat
    PROVE  /\ a \div Second \in Nat
           /\ (a \div Second) * Second <= a
           /\ a < (a \div Second) * Second + Second
  BY SMT DEF Second

\* A token whose lifetime has passed since it was signed is expired
LEMMA LifetimePassed ==
    ASSUME NEW t \in Token, now \in Nat, t.iat * Second + Lifetime <= now
    PROVE  Expired(t)
  BY LifetimeIsNat, SMT DEF Expired, Second, Token

\* An expired token stays expired
LEMMA ExpiredForGood ==
    ASSUME NEW t \in Token, now \in Nat, now' \in Nat, now <= now', Expired(t)
    PROVE  Expired(t)'
  BY LifetimeIsNat, SMT DEF Expired, Second, Token

\* What Put does to the blacklist and to the times of removal
LEMMA PutFacts ==
    ASSUME NEW f, f \in [DOMAIN f -> Nat], NEW k, NEW v \in Nat
    PROVE  /\ DOMAIN Put(f, k, v) = DOMAIN f \cup {k}
           /\ Put(f, k, v) \in [DOMAIN f \cup {k} -> Nat]
           /\ \A x \in DOMAIN f \cup {k} : Put(f, k, v)[x] = IF x = k THEN v ELSE f[x]
  BY SMT DEF Put

LEMMA InitEstablishes == Init => SessionInv
  BY SMT DEF Init, SessionInv, TypeOK, RequestsCarryIssuedTokens, TokensAreFromThePast,
    EntriesOutliveTokens, LateRequestsAreExpired, LoggedOutTokenIsRefused,
    RemovedUsersAreNotSigned, Request, Idle, Steps, NoToken, NoUser

LEMMA StepPreserves == SessionInv /\ [Next]_vars => SessionInv'
<1> SUFFICES ASSUME SessionInv, [Next]_vars PROVE SessionInv'
  OBVIOUS
<1> USE DEF SessionInv
<1>1. ASSUME NEW s \in Slots, NEW t \in issued, NEW b \in issued \cup {NoToken},
             Arrive(s, t, b)
      PROVE  SessionInv'
  <2>1. TypeOK' /\ RequestsCarryIssuedTokens'
    BY <1>1, SMT DEF Arrive, Begin, TypeOK, RequestsCarryIssuedTokens, redis, Request,
      Steps, Idle, NoToken, NoUser, Token
  <2>2. TokensAreFromThePast' /\ EntriesOutliveTokens'
    BY <1>1, SMT DEF Arrive, Begin, TypeOK, TokensAreFromThePast, EntriesOutliveTokens,
      redis, Token, Second
  <2>3. LateRequestsAreExpired' /\ LoggedOutTokenIsRefused'
    <3>1. /\ req'[s].at = "get" /\ req'[s].token = t
          /\ s \in late' => t \in DOMAIN blacklist
      BY <1>1, SMT DEF Arrive, Begin, TypeOK, LateRequestsAreExpired
    <3>2. \A r \in Slots \ {s} : req'[r] = req[r] /\ (r \in late' => r \in late)
      BY <1>1, SMT DEF Arrive, Begin, TypeOK
    <3>3. late' \subseteq Slots /\ UNCHANGED <<blacklist, now>>
      BY <1>1, <2>1 DEF Arrive, redis, TypeOK
    <3> QED
      BY <3>1, <3>2, <3>3, SMT DEF LateRequestsAreExpired, LoggedOutTokenIsRefused, Expired
  <2>4. RemovedUsersAreNotSigned'
    BY <1>1, SMT DEF Arrive, Begin, TypeOK, RemovedUsersAreNotSigned, redis, Request,
      Idle, Token, Second, NoUser, NoToken, RequestsCarryIssuedTokens
  <2> QED
    BY <2>1, <2>2, <2>3, <2>4
<1>2. ASSUME NEW s \in Slots, Get(s) PROVE SessionInv'
  <2>1. TypeOK' /\ RequestsCarryIssuedTokens'
    BY <1>2, SMT DEF Get, Answer, Continue, TypeOK, RequestsCarryIssuedTokens, redis,
      Request, Steps, Idle, NoToken, NoUser, Token
  <2>2. TokensAreFromThePast' /\ EntriesOutliveTokens'
    BY <1>2, SMT DEF Get, Answer, Continue, TypeOK, TokensAreFromThePast,
      EntriesOutliveTokens, redis, Token, Second
  <2>3. LateRequestsAreExpired' /\ LoggedOutTokenIsRefused'
    <3>1. \A r \in Slots \ {s} : req'[r] = req[r] /\ (r \in late' => r \in late)
      BY <1>2, SMT DEF Get, Answer, Continue, TypeOK
    <3>2. late' \subseteq Slots /\ UNCHANGED <<blacklist, now>>
      BY <1>2, <2>1 DEF Get, redis, TypeOK
    <3>3. CASE Listed(req[s].token)
      BY <1>2, <3>1, <3>2, <3>3, SMT DEF Get, Answer, TypeOK, Idle, LateRequestsAreExpired,
        LoggedOutTokenIsRefused, Expired
    <3>4. CASE ~ Listed(req[s].token)
      <4>1. req'[s].at = "verify" /\ req'[s].token = req[s].token /\ late' = late
        BY <1>2, <3>4, SMT DEF Get, Continue, TypeOK, Request
      <4>2. s \in late => Expired(req[s].token)
        <5> SUFFICES ASSUME s \in late PROVE Expired(req[s].token)
          OBVIOUS
        <5>1. req[s].token \in DOMAIN blacklist /\ req[s].token \in Token
          BY <1>2, SMT DEF Get, LateRequestsAreExpired, TypeOK
        <5>2. req[s].token.iat * Second + Lifetime <= now
          BY <5>1, <3>4, LifetimeIsNat, SMT DEF Listed, EntriesOutliveTokens, TypeOK,
            Token, Second
        <5> QED
          BY <5>1, <5>2, LifetimePassed DEF TypeOK
      <4> QED
        BY <3>1, <3>2, <4>1, <4>2, SMT DEF LateRequestsAreExpired,
          LoggedOutTokenIsRefused, Expired
    <3> QED
      BY <3>3, <3>4
  <2>4. RemovedUsersAreNotSigned'
    BY <1>2, SMT DEF Get, Answer, Continue, TypeOK, RemovedUsersAreNotSigned, redis,
      Request, Idle, Token, Second, NoUser, NoToken, RequestsCarryIssuedTokens
  <2> QED
    BY <2>1, <2>2, <2>3, <2>4
<1>3. ASSUME NEW s \in Slots, Verify(s) PROVE SessionInv'
  <2>1. TypeOK' /\ RequestsCarryIssuedTokens'
    <3>1. ASSUME NEW step \in {"serve", "logout"}, Continue(s, step),
                 step = "logout" => req[s].body # NoToken
          PROVE  /\ req' \in [Slots -> Request] /\ late' = late
                 /\ RequestsCarryIssuedTokens'
      BY <1>3, <3>1, SMT DEF Verify, Continue, TypeOK, RequestsCarryIssuedTokens, Request, Steps
    <3>2. CASE Answer(s)
      BY <1>3, <3>2, SMT DEF Verify, Answer, TypeOK, RequestsCarryIssuedTokens, redis, Request,
        Steps, Idle, NoToken, NoUser
    <3> QED
      BY <1>3, <3>1, <3>2, Zenon DEF Verify, TypeOK, redis
  <2>2. TokensAreFromThePast' /\ EntriesOutliveTokens'
    BY <1>3, SMT DEF Verify, Answer, Continue, TypeOK, TokensAreFromThePast,
      EntriesOutliveTokens, redis, Token, Second
  <2>3. LateRequestsAreExpired' /\ LoggedOutTokenIsRefused'
    BY <1>3, SMT DEF Verify, Answer, Continue, TypeOK, RequestsCarryIssuedTokens,
      LateRequestsAreExpired, LoggedOutTokenIsRefused, redis, Request, Idle, NoToken,
      Expired
  <2>4. RemovedUsersAreNotSigned'
    BY <1>3, SMT DEF Verify, Answer, Continue, TypeOK, RemovedUsersAreNotSigned, redis,
      Request, Idle, Token, Second, NoUser, NoToken, RequestsCarryIssuedTokens
  <2> QED
    BY <2>1, <2>2, <2>3, <2>4
<1>4. ASSUME NEW s \in Slots, Serve(s) PROVE SessionInv'
  <2>1. TypeOK' /\ RequestsCarryIssuedTokens'
    BY <1>4, SMT DEF Serve, Answer, TypeOK, RequestsCarryIssuedTokens, redis, Request,
      Steps, Idle, NoToken, NoUser, Token
  <2>2. TokensAreFromThePast' /\ EntriesOutliveTokens'
    BY <1>4, SMT DEF Serve, Answer, TypeOK, TokensAreFromThePast, EntriesOutliveTokens,
      redis, Token, Second
  <2>3. LateRequestsAreExpired' /\ LoggedOutTokenIsRefused'
    BY <1>4, SMT DEF Serve, Answer, TypeOK, RequestsCarryIssuedTokens,
      LateRequestsAreExpired, LoggedOutTokenIsRefused, redis, Request, Idle, NoToken,
      Expired
  <2>4. RemovedUsersAreNotSigned'
    BY <1>4, SMT DEF Serve, Answer, TypeOK, RemovedUsersAreNotSigned, redis, Request,
      Idle, Token, Second, NoUser, NoToken, RequestsCarryIssuedTokens
  <2> QED
    BY <2>1, <2>2, <2>3, <2>4
<1>5. ASSUME NEW s \in Slots, Logout(s) PROVE SessionInv'
  <2>1. TypeOK' /\ RequestsCarryIssuedTokens'
    <3>1. req[s].body \in issued /\ now + Lifetime \in Nat
      BY <1>5, LifetimeIsNat, SMT DEF Logout, RequestsCarryIssuedTokens, TypeOK
    <3>2. /\ DOMAIN blacklist' \subseteq issued /\ DOMAIN blacklist \subseteq DOMAIN blacklist'
          /\ blacklist' \in [DOMAIN blacklist' -> Nat]
      <4> DEFINE put == Put(blacklist, req[s].body, now + Lifetime)
      <4>1. DOMAIN put = DOMAIN blacklist \cup {req[s].body}
        BY DEF Put
      <4>2. put \in [DOMAIN blacklist \cup {req[s].body} -> Nat]
        BY <3>1, PutFacts, Zenon DEF TypeOK
      <4>3. blacklist' = blacklist \/ blacklist' = put
        BY <1>5 DEF Logout
      <4> HIDE DEF put
      <4> QED
        BY <3>1, <4>1, <4>2, <4>3, SMT DEF TypeOK
    <3> QED
      BY <1>5, <3>2, SMT DEF Logout, Answer, TypeOK, RequestsCarryIssuedTokens, Request,
        Steps, Idle, NoToken, NoUser
  <2>2. TokensAreFromThePast' /\ EntriesOutliveTokens'
    <3>1. TokensAreFromThePast'
      BY <1>5 DEF Logout, TokensAreFromThePast
    <3>2. \A t \in DOMAIN snapshot' : t.iat * Second + Lifetime <= snapshot'[t]
      BY <1>5 DEF Logout, EntriesOutliveTokens
    <3>3. ASSUME NEW t \in DOMAIN blacklist' PROVE t.iat * Second + Lifetime <= blacklist'[t]
      <4>1. req[s].body \in issued /\ now + Lifetime \in Nat
        BY <1>5, LifetimeIsNat, SMT DEF Logout, RequestsCarryIssuedTokens, TypeOK
      <4>2. t.iat * Second <= now /\ t.iat * Second \in Nat
        BY <2>1, <1>5, SMT DEF TypeOK, TokensAreFromThePast, Logout, Token, Second
      <4>3. \/ blacklist'[t] = now + Lifetime
            \/ t \in DOMAIN blacklist /\ blacklist'[t] = blacklist[t]
        BY <1>5, <3>3, SMT DEF Logout, Put
      <4> QED
        BY <4>2, <4>3, LifetimeIsNat, SMT DEF EntriesOutliveTokens, TypeOK
    <3> QED
      BY <3>1, <3>2, <3>3 DEF EntriesOutliveTokens
  <2>3. LateRequestsAreExpired' /\ LoggedOutTokenIsRefused'
    <3>1. DOMAIN blacklist \subseteq DOMAIN blacklist'
      BY <1>5, SMT DEF Logout, Put
    <3>2. /\ late' = late \ {s} /\ now' = now
          /\ \A r \in Slots \ {s} : req'[r] = req[r]
      BY <1>5, SMT DEF Logout, Answer, TypeOK
    <3>3. late \subseteq Slots
      BY DEF TypeOK
    <3> QED
      BY <3>1, <3>2, <3>3, SMT DEF LateRequestsAreExpired, LoggedOutTokenIsRefused, Expired
  <2>4. RemovedUsersAreNotSigned'
    BY <1>5, SMT DEF Logout, Answer, TypeOK, RemovedUsersAreNotSigned, redis, Request,
      Idle, Token, Second, NoUser, NoToken, RequestsCarryIssuedTokens
  <2> QED
    BY <2>1, <2>2, <2>3, <2>4
<1>6. ASSUME NEW s \in Slots, NEW u \in Users, Login(s, u) PROVE SessionInv'
  <2>1. TypeOK' /\ RequestsCarryIssuedTokens'
    BY <1>6, SMT DEF Login, Begin, TypeOK, RequestsCarryIssuedTokens, redis, Request,
      Steps, Idle, NoToken, NoUser, Token
  <2>2. TokensAreFromThePast' /\ EntriesOutliveTokens'
    BY <1>6, SMT DEF Login, Begin, TypeOK, TokensAreFromThePast, EntriesOutliveTokens,
      redis, Token, Second
  <2>3. LateRequestsAreExpired' /\ LoggedOutTokenIsRefused'
    BY <1>6, SMT DEF Login, Begin, TypeOK, RequestsCarryIssuedTokens,
      LateRequestsAreExpired, LoggedOutTokenIsRefused, redis, Request, Idle, NoToken,
      Expired
  <2>4. RemovedUsersAreNotSigned'
    BY <1>6, SMT DEF Login, Begin, TypeOK, RemovedUsersAreNotSigned, redis, Request, Idle,
      Token, Second, NoUser, NoToken, RequestsCarryIssuedTokens
  <2> QED
    BY <2>1, <2>2, <2>3, <2>4
<1>7. ASSUME NEW s \in Slots, NEW t \in issued, Refresh(s, t) PROVE SessionInv'
  <2>1. TypeOK' /\ RequestsCarryIssuedTokens'
    BY <1>7, SMT DEF Refresh, Begin, TypeOK, RequestsCarryIssuedTokens, redis, Request,
      Steps, Idle, NoToken, NoUser, Token
  <2>2. TokensAreFromThePast' /\ EntriesOutliveTokens'
    BY <1>7, SMT DEF Refresh, Begin, TypeOK, TokensAreFromThePast, EntriesOutliveTokens,
      redis, Token, Second
  <2>3. LateRequestsAreExpired' /\ LoggedOutTokenIsRefused'
    BY <1>7, SMT DEF Refresh, Begin, TypeOK, RequestsCarryIssuedTokens,
      LateRequestsAreExpired, LoggedOutTokenIsRefused, redis, Request, Idle, NoToken,
      Expired
  <2>4. RemovedUsersAreNotSigned'
    BY <1>7, SMT DEF Refresh, Begin, TypeOK, RemovedUsersAreNotSigned, redis, Request,
      Idle, Token, Second, NoUser, NoToken, RequestsCarryIssuedTokens
  <2> QED
    BY <2>1, <2>2, <2>3, <2>4
<1>8. ASSUME NEW s \in Slots, RefuseRefresh(s) PROVE SessionInv'
  <2>1. TypeOK' /\ RequestsCarryIssuedTokens'
    BY <1>8, SMT DEF RefuseRefresh, Answer, TypeOK, RequestsCarryIssuedTokens, redis,
      Request, Steps, Idle, NoToken, NoUser, Token
  <2>2. TokensAreFromThePast' /\ EntriesOutliveTokens'
    BY <1>8, SMT DEF RefuseRefresh, Answer, TypeOK, TokensAreFromThePast,
      EntriesOutliveTokens, redis, Token, Second
  <2>3. LateRequestsAreExpired' /\ LoggedOutTokenIsRefused'
    BY <1>8, SMT DEF RefuseRefresh, Answer, TypeOK, RequestsCarryIssuedTokens,
      LateRequestsAreExpired, LoggedOutTokenIsRefused, redis, Request, Idle, NoToken,
      Expired
  <2>4. RemovedUsersAreNotSigned'
    BY <1>8, SMT DEF RefuseRefresh, Answer, TypeOK, RemovedUsersAreNotSigned, redis,
      Request, Idle, Token, Second, NoUser, NoToken, RequestsCarryIssuedTokens
  <2> QED
    BY <2>1, <2>2, <2>3, <2>4
<1>9. ASSUME NEW s \in Slots, Search(s) PROVE SessionInv'
  <2>1. TypeOK' /\ RequestsCarryIssuedTokens'
    BY <1>9, SMT DEF Search, Continue, TypeOK, RequestsCarryIssuedTokens, redis, Request,
      Steps, Idle, NoToken, NoUser, Token
  <2>2. TokensAreFromThePast' /\ EntriesOutliveTokens'
    BY <1>9, SMT DEF Search, Continue, TypeOK, TokensAreFromThePast, EntriesOutliveTokens,
      redis, Token, Second
  <2>3. LateRequestsAreExpired' /\ LoggedOutTokenIsRefused'
    BY <1>9, SMT DEF Search, Continue, TypeOK, RequestsCarryIssuedTokens,
      LateRequestsAreExpired, LoggedOutTokenIsRefused, redis, Request, Idle, NoToken,
      Expired
  <2>4. RemovedUsersAreNotSigned'
    BY <1>9, SMT DEF Search, Continue, TypeOK, RemovedUsersAreNotSigned, redis, Request,
      Idle, Token, Second, NoUser, NoToken, RequestsCarryIssuedTokens
  <2> QED
    BY <2>1, <2>2, <2>3, <2>4
<1>10. ASSUME NEW s \in Slots, Refuse(s) PROVE SessionInv'
  <2>1. TypeOK' /\ RequestsCarryIssuedTokens'
    BY <1>10, SMT DEF Refuse, Answer, TypeOK, RequestsCarryIssuedTokens, redis, Request,
      Steps, Idle, NoToken, NoUser, Token
  <2>2. TokensAreFromThePast' /\ EntriesOutliveTokens'
    BY <1>10, SMT DEF Refuse, Answer, TypeOK, TokensAreFromThePast, EntriesOutliveTokens,
      redis, Token, Second
  <2>3. LateRequestsAreExpired' /\ LoggedOutTokenIsRefused'
    BY <1>10, SMT DEF Refuse, Answer, TypeOK, RequestsCarryIssuedTokens,
      LateRequestsAreExpired, LoggedOutTokenIsRefused, redis, Request, Idle, NoToken,
      Expired
  <2>4. RemovedUsersAreNotSigned'
    BY <1>10, SMT DEF Refuse, Answer, TypeOK, RemovedUsersAreNotSigned, redis, Request,
      Idle, Token, Second, NoUser, NoToken, RequestsCarryIssuedTokens
  <2> QED
    BY <2>1, <2>2, <2>3, <2>4
<1>11. ASSUME NEW s \in Slots, Sign(s) PROVE SessionInv'
  <2>1. TypeOK' /\ RequestsCarryIssuedTokens'
    <3> DEFINE signed == {[kind |-> k, user |-> req[s].user, iat |-> now \div Second] :
                            k \in {"access", "refresh"}}
    <3>1. req[s].user \in Users /\ now \div Second \in Nat
      BY <1>11, Seconds DEF Sign, RequestsCarryIssuedTokens, TypeOK
    <3>2. signed \subseteq Token
      BY <3>1, SMT DEF Token
    <3>3. issued \subseteq issued' /\ issued' \subseteq Token
      BY <1>11, <3>2, SMT DEF Sign, TypeOK
    <3> HIDE DEF signed
    <3> QED
      BY <1>11, <3>3, SMT DEF Sign, Answer, TypeOK, RequestsCarryIssuedTokens, redis, Request,
        Steps, Idle, NoToken, NoUser
  <2>2. TokensAreFromThePast' /\ EntriesOutliveTokens'
    BY <1>11, SMT DEF Sign, Answer, TypeOK, TokensAreFromThePast, EntriesOutliveTokens,
      redis, Token, Second
  <2>3. LateRequestsAreExpired' /\ LoggedOutTokenIsRefused'
    BY <1>11, SMT DEF Sign, Answer, TypeOK, RequestsCarryIssuedTokens,
      LateRequestsAreExpired, LoggedOutTokenIsRefused, redis, Request, Idle, NoToken,
      Expired
  <2>4. RemovedUsersAreNotSigned'
    BY <1>11, SMT DEF Sign, Answer, TypeOK, RemovedUsersAreNotSigned, redis, Request,
      Idle, Token, Second, NoUser, NoToken, RequestsCarryIssuedTokens
  <2> QED
    BY <2>1, <2>2, <2>3, <2>4
<1>12. ASSUME NEW u \in Users, Remove(u) PROVE SessionInv'
  <2>1. TypeOK' /\ RequestsCarryIssuedTokens'
    <3>1. Put(removedAt, u, now) \in [DOMAIN Put(removedAt, u, now) -> Nat]
          /\ DOMAIN Put(removedAt, u, now) = DOMAIN removedAt \cup {u}
      BY PutFacts, Zenon DEF TypeOK
    <3>2. removedAt' = removedAt \/ removedAt' = Put(removedAt, u, now)
      BY <1>12, Zenon DEF Remove
    <3>3. DOMAIN removedAt' \subseteq Users /\ removedAt' \in [DOMAIN removedAt' -> Nat]
      BY <3>1, <3>2, SMT DEF TypeOK
    <3> QED
      BY <1>12, <3>3, SMT DEF Remove, TypeOK, RequestsCarryIssuedTokens, redis
  <2>2. TokensAreFromThePast' /\ EntriesOutliveTokens'
    BY <1>12, SMT DEF Remove, TypeOK, TokensAreFromThePast, EntriesOutliveTokens, redis,
      Token, Second
  <2>3. LateRequestsAreExpired' /\ LoggedOutTokenIsRefused'
    BY <1>12, SMT DEF Remove, TypeOK, RequestsCarryIssuedTokens, LateRequestsAreExpired,
      LoggedOutTokenIsRefused, redis, Request, Idle, NoToken, Expired
  <2>4. RemovedUsersAreNotSigned'
    <3> SUFFICES ASSUME NEW w \in DOMAIN removedAt'
                 PROVE  /\ w \notin known'
                        /\ \A s \in Slots : req[s].at = "sign" => req[s].user # w
                        /\ \A t \in issued : t.user = w => t.iat * Second <= removedAt'[w]
      BY <1>12, SMT DEF Remove, RemovedUsersAreNotSigned, redis
    <3>1. CASE w \in DOMAIN removedAt /\ w # u
      BY <1>12, <3>1, SMT DEF Remove, Put, RemovedUsersAreNotSigned
    <3>2. CASE w = u
      <4>1. u \notin DOMAIN removedAt /\ u \notin known'
        BY <1>12 DEF Remove, RemovedUsersAreNotSigned
      <4>2. /\ \A s \in Slots : ~ (req[s].at = "sign" /\ req[s].user = u)
            /\ removedAt' = Put(removedAt, u, now)
        BY <1>12, <3>2, <4>1 DEF Remove
      <4>3. removedAt'[u] = now
        BY <4>2, SMT DEF Put
      <4> QED
        BY <3>2, <4>1, <4>2, <4>3 DEF TokensAreFromThePast
    <3>3. w \in DOMAIN removedAt \cup {u}
      BY <1>12, SMT DEF Remove, Put
    <3> QED
      BY <3>1, <3>2, <3>3
  <2> QED
    BY <2>1, <2>2, <2>3, <2>4
<1>13. ASSUME NEW u \in Users, Admit(u) PROVE SessionInv'
  <2>1. TypeOK' /\ RequestsCarryIssuedTokens'
    BY <1>13, SMT DEF Admit, Drop, TypeOK, RequestsCarryIssuedTokens, redis, Request,
      Steps, Idle, NoToken, NoUser, Token
  <2>2. TokensAreFromThePast' /\ EntriesOutliveTokens'
    BY <1>13, SMT DEF Admit, Drop, TypeOK, TokensAreFromThePast, EntriesOutliveTokens,
      redis, Token, Second
  <2>3. LateRequestsAreExpired' /\ LoggedOutTokenIsRefused'
    BY <1>13, SMT DEF Admit, Drop, TypeOK, RequestsCarryIssuedTokens,
      LateRequestsAreExpired, LoggedOutTokenIsRefused, redis, Request, Idle, NoToken,
      Expired
  <2>4. RemovedUsersAreNotSigned'
    BY <1>13, SMT DEF Admit, Drop, TypeOK, RemovedUsersAreNotSigned, redis, Request, Idle,
      Token, Second, NoUser, NoToken, RequestsCarryIssuedTokens
  <2> QED
    BY <2>1, <2>2, <2>3, <2>4
<1>14. ASSUME Save PROVE SessionInv'
  <2>1. TypeOK' /\ RequestsCarryIssuedTokens'
    BY <1>14, SMT DEF Save, TypeOK, RequestsCarryIssuedTokens, redis, Request, Steps,
      Idle, NoToken, NoUser, Token
  <2>2. TokensAreFromThePast' /\ EntriesOutliveTokens'
    BY <1>14, SMT DEF Save, TypeOK, TokensAreFromThePast, EntriesOutliveTokens, redis,
      Token, Second
  <2>3. LateRequestsAreExpired' /\ LoggedOutTokenIsRefused'
    BY <1>14, SMT DEF Save, TypeOK, RequestsCarryIssuedTokens, LateRequestsAreExpired,
      LoggedOutTokenIsRefused, redis, Request, Idle, NoToken, Expired
  <2>4. RemovedUsersAreNotSigned'
    BY <1>14, SMT DEF Save, TypeOK, RemovedUsersAreNotSigned, redis, Request, Idle, Token,
      Second, NoUser, NoToken, RequestsCarryIssuedTokens
  <2> QED
    BY <2>1, <2>2, <2>3, <2>4
<1>15. ASSUME Crash PROVE SessionInv'
  <2>1. TypeOK' /\ RequestsCarryIssuedTokens'
    BY <1>15, SMT DEF Crash, TypeOK, RequestsCarryIssuedTokens, redis, Request, Steps,
      Idle, NoToken, NoUser, Token
  <2>2. TokensAreFromThePast' /\ EntriesOutliveTokens'
    BY <1>15, SMT DEF Crash, TypeOK, TokensAreFromThePast, EntriesOutliveTokens, redis,
      Token, Second
  <2>3. LateRequestsAreExpired' /\ LoggedOutTokenIsRefused'
    BY <1>15, SMT DEF Crash, TypeOK, RequestsCarryIssuedTokens, LateRequestsAreExpired,
      LoggedOutTokenIsRefused, redis, Request, Idle, NoToken, Expired
  <2>4. RemovedUsersAreNotSigned'
    BY <1>15, SMT DEF Crash, TypeOK, RemovedUsersAreNotSigned, redis, Request, Idle,
      Token, Second, NoUser, NoToken, RequestsCarryIssuedTokens
  <2> QED
    BY <2>1, <2>2, <2>3, <2>4
<1>16. ASSUME Tick PROVE SessionInv'
  <2>1. TypeOK' /\ RequestsCarryIssuedTokens'
    BY <1>16, BoundsAreNat, TicksArePositive, LifetimeIsNat, SMT DEF Tick, TypeOK,
      RequestsCarryIssuedTokens, redis, Request, Steps, Idle, NoToken, NoUser, Token
  <2>2. TokensAreFromThePast' /\ EntriesOutliveTokens'
    BY <1>16, BoundsAreNat, TicksArePositive, LifetimeIsNat, SMT DEF Tick, TypeOK,
      TokensAreFromThePast, EntriesOutliveTokens, redis, Token, Second
  <2>3. LateRequestsAreExpired' /\ LoggedOutTokenIsRefused'
    <3>1. now \in Nat /\ now' \in Nat /\ now <= now'
      BY <1>16, <2>1, TicksArePositive, SMT DEF Tick, TypeOK
    <3>2. \A s \in late : Expired(req[s].token) /\ req[s].token \in Token => Expired(req[s].token)'
      BY <1>16, <3>1, ExpiredForGood DEF Tick
    <3> QED
      BY <1>16, <3>1, <3>2, SMT DEF Tick, TypeOK, LateRequestsAreExpired,
        RequestsCarryIssuedTokens,
        LoggedOutTokenIsRefused, redis
  <2>4. RemovedUsersAreNotSigned'
    BY <1>16, BoundsAreNat, TicksArePositive, LifetimeIsNat, SMT DEF Tick, TypeOK,
      RemovedUsersAreNotSigned, redis, Request, Idle, Token, Second, NoUser, NoToken,
      RequestsCarryIssuedTokens
  <2> QED
    BY <2>1, <2>2, <2>3, <2>4
<1>17. ASSUME UNCHANGED vars PROVE SessionInv'
  BY <1>17, SMT DEF vars, redis, TypeOK, RequestsCarryIssuedTokens,
    TokensAreFromThePast, EntriesOutliveTokens, LateRequestsAreExpired,
    LoggedOutTokenIsRefused, RemovedUsersAreNotSigned, Expired
<1> QED
  BY <1>1, <1>2, <1>3, <1>4, <1>5, <1>6, <1>7, <1>8, <1>9, <1>10, <1>11, <1>12, <1>13,
    <1>14, <1>15, <1>16, <1>17 DEF Next

LEMMA SessionInvHolds == Spec => []SessionInv
<1>1. Init => SessionInv
  BY InitEstablishes
<1>2. SessionInv /\ [Next]_vars => SessionInv'
  BY StepPreserves
<1> QED
  BY <1>1, <1>2, PTL DEF Spec

\* Every state of Session is of the declared types.
THEOREM SessionTypes == Spec => []TypeOK
  BY SessionInvHolds, PTL DEF SessionInv

(***************************************************************************)
(* A request that comes with a token already logged out reaches no         *)
(* handler (authentication.middleware.ts), for any number of requests and  *)
(* users, any lifetime and any granularity of time.                        *)
(***************************************************************************)
THEOREM LogoutIsFinal == Spec => []LoggedOutTokenIsRefused
  BY SessionInvHolds, PTL DEF SessionInv

\* A token that is not expired was signed less than a lifetime ago
LEMMA NotExpiredIsYoung ==
    ASSUME NEW t \in Token, now \in Nat, ~ Expired(t)
    PROVE  now < t.iat * Second + Lifetime
  BY LifetimeIsNat, SMT DEF Expired, Token, Second

(***************************************************************************)
(* A removed user is let in for one lifetime at most.                      *)
(***************************************************************************)
THEOREM RemovalIsEffective == Spec => RemovedUserIsLetInForOneLifetime
<1> DEFINE LetIn ==
      \A s \in Slots :
          req[s].at = "verify" /\ req'[s].at \in {"serve", "logout"}
              => LET u == req[s].token.user IN
                 u \in DOMAIN removedAt => now < removedAt[u] + Lifetime
<1>1. ASSUME SessionInv, [Next]_vars, NEW s \in Slots,
             req[s].at = "verify", req'[s].at \in {"serve", "logout"},
             req[s].token.user \in DOMAIN removedAt
      PROVE  now < removedAt[req[s].token.user] + Lifetime
  <2> DEFINE t == req[s].token
  <2>1. ~ Expired(t)
    <3>1. CASE Verify(s)
      BY <1>1, <3>1, SMT DEF Verify, Answer, Idle, SessionInv, TypeOK
    <3>2. CASE req'[s] = req[s]
      BY <1>1, <3>2
    <3> DEFINE Arrives(r) ==
                 \/ \E t1 \in issued, b \in issued \cup {NoToken} : Arrive(r, t1, b)
                 \/ \E u \in Users : Login(r, u)
                 \/ \E t1 \in issued : Refresh(r, t1)
               Proceeds(r) ==
                 \/ Get(r) \/ Serve(r) \/ Logout(r)
                 \/ RefuseRefresh(r) \/ Search(r) \/ Refuse(r) \/ Sign(r)
               Environment ==
                 \/ \E u \in Users : Remove(u) \/ Admit(u)
                 \/ Save \/ Crash \/ Tick \/ UNCHANGED vars
    <3>3. ASSUME NEW r \in Slots, Arrives(r) PROVE req'[s] = req[s]
      BY <1>1, <3>3, SMT DEF Arrive, Login, Refresh, Begin, SessionInv, TypeOK
    <3>4. ASSUME NEW r \in Slots, Proceeds(r) PROVE req'[s] = req[s]
      BY <1>1, <3>4, SMT DEF Get, Serve, Logout, RefuseRefresh, Search, Refuse, Sign,
        Answer, Continue, SessionInv, TypeOK
    <3>5. ASSUME NEW r \in Slots, Verify(r), r # s PROVE req'[s] = req[s]
      BY <1>1, <3>5, SMT DEF Verify, Answer, Continue, SessionInv, TypeOK
    <3>6. ASSUME Environment PROVE req'[s] = req[s]
      BY <3>6, Zenon DEF Remove, Admit, Save, Crash, Tick, vars
    <3>7. Environment \/ \E r \in Slots : Arrives(r) \/ Proceeds(r) \/ Verify(r)
      BY <1>1 DEF Next
    <3> HIDE DEF Environment, Arrives, Proceeds
    <3> QED
      BY <3>1, <3>2, <3>3, <3>4, <3>5, <3>6, <3>7, Zenon
  <2>2. t \in issued /\ t \in Token /\ now \in Nat
    BY <1>1 DEF SessionInv, RequestsCarryIssuedTokens, TypeOK
  <2>3. now < t.iat * Second + Lifetime
    BY <2>1, <2>2, NotExpiredIsYoung
  <2>4. t.iat * Second <= removedAt[t.user]
    BY <1>1, <2>2 DEF SessionInv, RemovedUsersAreNotSigned
  <2>5. removedAt[t.user] \in Nat /\ t.iat * Second \in Nat
    BY <1>1, <2>2, SMT DEF SessionInv, TypeOK, Token, Second
  <2> QED
    BY <2>2, <2>3, <2>4, <2>5, LifetimeIsNat, SMT
<1>2. SessionInv /\ [Next]_vars => [LetIn]_vars
  BY <1>1
<1> QED
  BY <1>2, SessionInvHolds, PTL DEF Spec, RemovedUserIsLetInForOneLifetime
=============================================================================
