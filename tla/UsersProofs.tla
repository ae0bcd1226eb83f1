---------------------------- MODULE UsersProofs ----------------------------
(***************************************************************************)
(* Proofs about Users, for every set of identifiers, e-mails, passwords    *)
(* and slots.  UsersInv is inductive; the properties follow from it.  Run  *)
(* one request at a time, Users implements UserDirectory.                  *)
(***************************************************************************)
EXTENDS UsersDirectory, TLAPS

\* A save leaves, column by column, the entity's value or the present one
LEMMA DiffUser ==
    ASSUME NEW x \in UserRow, NEW y \in UserRow, NEW z \in UserRow
    PROVE  /\ Diff(x, y, z) \in UserRow
           /\ Diff(x, y, z).state = (IF x.state = y.state THEN z.state ELSE x.state)
           /\ Diff(x, y, z).email = (IF x.email = y.email THEN z.email ELSE x.email)
<1>1. Diff(x, y, z) = [state |-> IF x.state = y.state THEN z.state ELSE x.state,
                       email |-> IF x.email = y.email THEN z.email ELSE x.email]
    BY DEF Diff, UserRow
<1> QED
    BY <1>1 DEF UserRow

LEMMA DiffPassword ==
    ASSUME NEW x \in PasswordRow, NEW y \in PasswordRow, NEW z \in PasswordRow
    PROVE  /\ Diff(x, y, z) \in PasswordRow
           /\ Diff(x, y, z).state = (IF x.state = y.state THEN z.state ELSE x.state)
           /\ Diff(x, y, z).hash = (IF x.hash = y.hash THEN z.hash ELSE x.hash)
<1>1. Diff(x, y, z) = [state |-> IF x.state = y.state THEN z.state ELSE x.state,
                       hash |-> IF x.hash = y.hash THEN z.hash ELSE x.hash]
    BY DEF Diff, PasswordRow
<1> QED
    BY <1>1 DEF PasswordRow

-----------------------------------------------------------------------------
\* A request that starts, goes on or ends touches its own slot alone
LEMMA BeginFacts ==
    ASSUME TypeOK, NEW s \in Slots, req[s].at = "idle",
           NEW step \in Steps, NEW i \in Ids, NEW e \in Emails \cup {None},
           NEW h \in Hashes \cup {None}, NEW h0 \in Hashes \cup {None},
           Begin(s, step, i, e, h, h0)
    PROVE  /\ req' \in [Slots -> Request]
           /\ req'[s].at = step /\ req'[s].id = i /\ req'[s].email = e /\ req'[s].old = h0
           /\ \A t \in Slots \ {s} : req'[t] = req[t]
           /\ Writers' = IF step \in WriterSteps THEN Writers \cup {s} ELSE Writers
           /\ s \notin Writers
<1>1. NoUser \in UserRow /\ NoPassword \in PasswordRow
    BY DEF UserRow, PasswordRow, NoUser, NoPassword
<1>2. req' \in [Slots -> Request]
    BY <1>1 DEF Begin, TypeOK, Request
<1>3. /\ req'[s].at = step /\ req'[s].id = i /\ req'[s].email = e /\ req'[s].old = h0
      /\ \A t \in Slots \ {s} : req'[t] = req[t]
    BY DEF Begin, TypeOK
<1> QED
    BY <1>2, <1>3 DEF Writers, WriterSteps

LEMMA ContinueFacts ==
    ASSUME TypeOK, NEW s \in Slots, NEW step \in Steps, Continue(s, step)
    PROVE  /\ req' \in [Slots -> Request]
           /\ req'[s].at = step /\ req'[s].id = req[s].id
           /\ req'[s].email = req[s].email /\ req'[s].old = req[s].old
           /\ \A t \in Slots \ {s} : req'[t] = req[t]
           /\ Writers' = IF step \in WriterSteps THEN Writers \cup {s} ELSE Writers \ {s}
<1>1. req' \in [Slots -> Request]
    BY DEF Continue, TypeOK, Request
<1>2. /\ req'[s].at = step /\ req'[s].id = req[s].id
      /\ req'[s].email = req[s].email /\ req'[s].old = req[s].old
      /\ \A t \in Slots \ {s} : req'[t] = req[t]
    BY DEF Continue, TypeOK, Request
<1> QED
    BY <1>1, <1>2 DEF Writers

LEMMA AnswerFacts ==
    ASSUME TypeOK, NEW s \in Slots, Answer(s)
    PROVE  /\ req' \in [Slots -> Request]
           /\ req'[s].at = "idle" /\ req'[s].id = None
           /\ \A t \in Slots \ {s} : req'[t] = req[t]
           /\ Writers' = Writers \ {s}
<1>1. Idle \in Request
    BY DEF Idle, Request, Steps, UserRow, PasswordRow, NoUser, NoPassword
<1>2. req' \in [Slots -> Request]
    BY <1>1 DEF Answer, TypeOK
<1>3. req'[s].at = "idle" /\ req'[s].id = None /\ \A t \in Slots \ {s} : req'[t] = req[t]
    BY DEF Answer, Idle, TypeOK
<1> QED
    BY <1>2, <1>3 DEF Writers, WriterSteps

\* A writer that takes off keeps the histories well-typed and notes its overlaps
LEMMA TakeOffFacts ==
    ASSUME TypeOK, RequestsAreAboutUsers, NEW i \in Ids, TakeOff(i)
    PROVE  /\ overlapped' \subseteq SUBSET Ids /\ raced' \subseteq Ids
           /\ overlapped \subseteq overlapped' /\ raced \subseteq raced'
           /\ \A t \in Writers : {i, req[t].id} \in overlapped'
           /\ Deleting(i) => i \in raced'
<1>1. \A t \in Writers : req[t].id \in Ids
    BY DEF RequestsAreAboutUsers, Writers, WriterSteps
<1> QED
    BY <1>1 DEF TakeOff, TypeOK

-----------------------------------------------------------------------------
\* The invariant is kept by a request that starts writing: a create ...
LEMMA CreateCheckInv ==
    ASSUME UsersInv, NEW s \in Slots, NEW i \in Ids, NEW e \in Emails, NEW p \in Passwords,
           CreateCheck(s, i, e, p)
    PROVE  UsersInv'
<1> USE DEF UsersInv
<1>0. /\ UNCHANGED <<users, passwords>> /\ TakeOff(i)
      /\ users[i].state = "absent" /\ \A t \in Slots : req[t].id # i
      /\ FindOneByEmail(e) = {}
    BY DEF CreateCheck
<1>1. /\ req' \in [Slots -> Request]
      /\ req'[s].at = "createSave" /\ req'[s].id = i /\ req'[s].email = e
      /\ \A t \in Slots \ {s} : req'[t] = req[t]
      /\ Writers' = Writers \cup {s} /\ s \notin Writers
    BY BeginFacts DEF CreateCheck, Hashes, Steps, WriterSteps
<1>2. /\ overlapped' \subseteq SUBSET Ids /\ raced' \subseteq Ids
      /\ overlapped \subseteq overlapped' /\ raced \subseteq raced'
      /\ \A t \in Writers : {i, req[t].id} \in overlapped'
    BY <1>0, TakeOffFacts
<1>3. TypeOK'
    BY <1>0, <1>1, <1>2 DEF TypeOK
<1>4. RequestsAreAboutUsers'
    BY <1>0, <1>1 DEF RequestsAreAboutUsers, RowsComeTogether
<1>5. RowsComeTogether'
    BY <1>0 DEF RowsComeTogether
<1>6. OverlapIsNoted'
    BY <1>1, <1>2 DEF OverlapIsNoted, Writers
<1>7. EmailsUniqueUnlessOverlapped'
    BY <1>0, <1>2 DEF EmailsUniqueUnlessOverlapped, Live
<1>8. WritersHoldFreeEmails'
    BY <1>0, <1>1, <1>2 DEF WritersHoldFreeEmails, FindOneByEmail, Live, Writers
<1>9. PasswordFollowsUserUnlessRaced'
    BY <1>0, <1>2 DEF PasswordFollowsUserUnlessRaced
<1>10. WritersHaveLiveUsers'
    BY <1>0, <1>1, <1>2 DEF WritersHaveLiveUsers, Live, Deleting, Writers
<1>11. LoneChangeIsUpToDate'
    BY <1>0, <1>1, <1>2 DEF LoneChangeIsUpToDate, ChangeSteps
<1> QED
    BY <1>3, <1>4, <1>5, <1>6, <1>7, <1>8, <1>9, <1>10, <1>11

\* ... an update ...
LEMMA UpdateReadInv ==
    ASSUME UsersInv, NEW s \in Slots, NEW i \in Ids, NEW e \in Emails, UpdateRead(s, i, e)
    PROVE  UsersInv'
<1> USE DEF UsersInv
<1>0. UNCHANGED <<users, passwords>> /\ TakeOff(i) /\ Live(i)
    BY DEF UpdateRead
<1>1. /\ req' \in [Slots -> Request]
      /\ req'[s].at = "updateCheck" /\ req'[s].id = i /\ req'[s].email = e
      /\ \A t \in Slots \ {s} : req'[t] = req[t]
      /\ Writers' = Writers \cup {s} /\ s \notin Writers
    BY BeginFacts DEF UpdateRead, Steps, WriterSteps
<1>2. /\ overlapped' \subseteq SUBSET Ids /\ raced' \subseteq Ids
      /\ overlapped \subseteq overlapped' /\ raced \subseteq raced'
      /\ \A t \in Writers : {i, req[t].id} \in overlapped'
      /\ Deleting(i) => i \in raced'
    BY <1>0, TakeOffFacts
<1>3. TypeOK'
    BY <1>0, <1>1, <1>2 DEF TypeOK
<1>4. RequestsAreAboutUsers'
    BY <1>0, <1>1 DEF RequestsAreAboutUsers, Live
<1>5. RowsComeTogether'
    BY <1>0 DEF RowsComeTogether
<1>6. OverlapIsNoted'
    BY <1>1, <1>2 DEF OverlapIsNoted, Writers
<1>7. EmailsUniqueUnlessOverlapped'
    BY <1>0, <1>2 DEF EmailsUniqueUnlessOverlapped, Live
<1>8. WritersHoldFreeEmails'
    BY <1>0, <1>1, <1>2
    DEF WritersHoldFreeEmails, EmailsUniqueUnlessOverlapped, Live, Writers
<1>9. PasswordFollowsUserUnlessRaced'
    BY <1>0, <1>2 DEF PasswordFollowsUserUnlessRaced
<1>10. WritersHaveLiveUsers'
    BY <1>0, <1>1, <1>2 DEF WritersHaveLiveUsers, Live, Deleting, Writers
<1>11. LoneChangeIsUpToDate'
    BY <1>0, <1>1, <1>2 DEF LoneChangeIsUpToDate, ChangeSteps
<1> QED
    BY <1>3, <1>4, <1>5, <1>6, <1>7, <1>8, <1>9, <1>10, <1>11

\* ... or a password change
LEMMA ChangePasswordReadInv ==
    ASSUME UsersInv, NEW s \in Slots, NEW i \in Ids,
           NEW old \in Passwords, NEW new \in Passwords, ChangePasswordRead(s, i, old, new)
    PROVE  UsersInv'
<1> USE DEF UsersInv
<1>0. /\ UNCHANGED <<users, passwords>> /\ TakeOff(i) /\ Live(i)
      /\ passwords[i].hash = Hash(old)
    BY DEF ChangePasswordRead
<1>1. /\ req' \in [Slots -> Request]
      /\ req'[s].at = "changeLoadUser" /\ req'[s].id = i
      /\ req'[s].email = users[i].email /\ req'[s].old = passwords[i].hash
      /\ \A t \in Slots \ {s} : req'[t] = req[t]
      /\ Writers' = Writers \cup {s} /\ s \notin Writers
  <2>1. users[i].email \in Emails \cup {None} /\ Hash(old) \in Hashes /\ Hash(new) \in Hashes
    BY DEF TypeOK, UserRow, Hashes
  <2> QED
    BY <1>0, <2>1, BeginFacts DEF ChangePasswordRead, Steps, WriterSteps
<1>2. /\ overlapped' \subseteq SUBSET Ids /\ raced' \subseteq Ids
      /\ overlapped \subseteq overlapped' /\ raced \subseteq raced'
      /\ \A t \in Writers : {i, req[t].id} \in overlapped'
      /\ Deleting(i) => i \in raced'
    BY <1>0, TakeOffFacts
<1>3. TypeOK'
    BY <1>0, <1>1, <1>2 DEF TypeOK
<1>4. RequestsAreAboutUsers'
    BY <1>0, <1>1 DEF RequestsAreAboutUsers, Live
<1>5. RowsComeTogether'
    BY <1>0 DEF RowsComeTogether
<1>6. OverlapIsNoted'
    BY <1>1, <1>2 DEF OverlapIsNoted, Writers
<1>7. EmailsUniqueUnlessOverlapped'
    BY <1>0, <1>2 DEF EmailsUniqueUnlessOverlapped, Live
<1>8. WritersHoldFreeEmails'
    BY <1>0, <1>1, <1>2
    DEF WritersHoldFreeEmails, EmailsUniqueUnlessOverlapped, Live, Writers
<1>9. PasswordFollowsUserUnlessRaced'
    BY <1>0, <1>2 DEF PasswordFollowsUserUnlessRaced
<1>10. WritersHaveLiveUsers'
    BY <1>0, <1>1, <1>2 DEF WritersHaveLiveUsers, Live, Deleting, Writers
<1>11. LoneChangeIsUpToDate'
    BY <1>0, <1>1, <1>2 DEF LoneChangeIsUpToDate, ChangeSteps
<1> QED
    BY <1>3, <1>4, <1>5, <1>6, <1>7, <1>8, <1>9, <1>10, <1>11

\* A delete that starts notes the writers of its user
LEMMA DeleteReadInv ==
    ASSUME UsersInv, NEW s \in Slots, NEW i \in Ids, DeleteRead(s, i)
    PROVE  UsersInv'
<1> USE DEF UsersInv
<1>0. /\ UNCHANGED <<users, passwords, overlapped>> /\ Live(i)
      /\ raced \subseteq raced' /\ raced' \subseteq Ids /\ (Writing(i) => i \in raced')
    BY DEF DeleteRead, TypeOK
<1>1. /\ req' \in [Slots -> Request]
      /\ req'[s].at = "deleteRemove" /\ req'[s].id = i
      /\ \A t \in Slots \ {s} : req'[t] = req[t]
      /\ Writers' = Writers /\ s \notin Writers
    BY BeginFacts DEF DeleteRead, Steps, WriterSteps
<1>2. \A t \in Writers : t \in Slots /\ req'[t] = req[t]
    BY <1>1 DEF Writers
<1>3. TypeOK'
    BY <1>0, <1>1 DEF TypeOK
<1>4. RequestsAreAboutUsers'
  <2>1. \A t \in Slots : req[t].at = "createSave" => req[t].id # i
    BY <1>0 DEF RequestsAreAboutUsers, Live
  <2> QED
    BY <1>0, <1>1, <2>1 DEF RequestsAreAboutUsers, Live
<1>5. RowsComeTogether'
    BY <1>0 DEF RowsComeTogether
<1>6. OverlapIsNoted'
    BY <1>0, <1>1, <1>2 DEF OverlapIsNoted
<1>7. EmailsUniqueUnlessOverlapped'
    BY <1>0 DEF EmailsUniqueUnlessOverlapped, Live
<1>8. WritersHoldFreeEmails'
    BY <1>0, <1>1, <1>2 DEF WritersHoldFreeEmails, Live
<1>9. PasswordFollowsUserUnlessRaced'
    BY <1>0 DEF PasswordFollowsUserUnlessRaced
<1>10. WritersHaveLiveUsers'
    BY <1>0, <1>1, <1>2 DEF WritersHaveLiveUsers, Live, Deleting, Writing
<1>11. LoneChangeIsUpToDate'
    BY <1>0, <1>1 DEF LoneChangeIsUpToDate, ChangeSteps
<1> QED
    BY <1>3, <1>4, <1>5, <1>6, <1>7, <1>8, <1>9, <1>10, <1>11

-----------------------------------------------------------------------------
\* A step that writes no row and leaves the request answered ...
LEMMA QuietAnswerInv ==
    ASSUME UsersInv, NEW s \in Slots, Answer(s),
           UNCHANGED <<users, passwords, overlapped, raced>>
    PROVE  UsersInv'
<1> USE DEF UsersInv
<1>1. /\ req' \in [Slots -> Request]
      /\ req'[s].at = "idle" /\ req'[s].id = None
      /\ \A t \in Slots \ {s} : req'[t] = req[t]
      /\ Writers' = Writers \ {s}
    BY AnswerFacts
<1>2. TypeOK'
    BY <1>1 DEF TypeOK
<1>3. RequestsAreAboutUsers'
    BY <1>1, NoneIsNoValue DEF RequestsAreAboutUsers
<1>4. RowsComeTogether'
    BY DEF RowsComeTogether
<1>5. OverlapIsNoted'
    BY <1>1 DEF OverlapIsNoted, Writers
<1>6. EmailsUniqueUnlessOverlapped'
    BY DEF EmailsUniqueUnlessOverlapped, Live
<1>7. WritersHoldFreeEmails'
    BY <1>1 DEF WritersHoldFreeEmails, Live, Writers
<1>8. PasswordFollowsUserUnlessRaced'
    BY DEF PasswordFollowsUserUnlessRaced
<1>9. WritersHaveLiveUsers'
    BY <1>1 DEF WritersHaveLiveUsers, Live, Deleting, Writers
<1>10. LoneChangeIsUpToDate'
    BY <1>1 DEF LoneChangeIsUpToDate, ChangeSteps
<1> QED
    BY <1>2, <1>3, <1>4, <1>5, <1>6, <1>7, <1>8, <1>9, <1>10

\* ... or on its way to the save, with an e-mail that is free
LEMMA QuietContinueInv ==
    ASSUME UsersInv, NEW s \in Slots,
           req' \in [Slots -> Request],
           \A t \in Slots \ {s} : req'[t] = req[t],
           req[s].at \in WriterSteps \ {"createSave"},
           req'[s].at \in WriterSteps \ {"createSave", "updateCheck"},
           req'[s].at \in ChangeSteps => req[s].at \in ChangeSteps,
           req'[s].id = req[s].id, req'[s].email = req[s].email, req'[s].old = req[s].old,
           req[s].at = "updateCheck" => ~ ExistsOnUpdate(req[s].email, req[s].id),
           UNCHANGED <<users, passwords, overlapped, raced>>
    PROVE  UsersInv'
<1> USE DEF UsersInv
<1>1. Writers' = Writers /\ s \in Writers
    BY DEF Writers
<1>2. TypeOK'
    BY DEF TypeOK
<1>3. RequestsAreAboutUsers'
    BY DEF RequestsAreAboutUsers, WriterSteps
<1>4. RowsComeTogether'
    BY DEF RowsComeTogether
<1>5. OverlapIsNoted'
    BY <1>1 DEF OverlapIsNoted, Writers
<1>6. EmailsUniqueUnlessOverlapped'
    BY DEF EmailsUniqueUnlessOverlapped, Live
<1>7. WritersHoldFreeEmails'
    BY <1>1 DEF WritersHoldFreeEmails, Live, Writers, ExistsOnUpdate
<1>8. PasswordFollowsUserUnlessRaced'
    BY DEF PasswordFollowsUserUnlessRaced
<1>9. WritersHaveLiveUsers'
    BY <1>1 DEF WritersHaveLiveUsers, Live, Deleting, Writers, WriterSteps
<1>10. LoneChangeIsUpToDate'
    BY DEF LoneChangeIsUpToDate
<1> QED
    BY <1>2, <1>3, <1>4, <1>5, <1>6, <1>7, <1>8, <1>9, <1>10

LEMMA UpdateCheckInv ==
    ASSUME UsersInv, NEW s \in Slots, UpdateCheck(s)
    PROVE  UsersInv'
<1>1. CASE Answer(s)
    BY <1>1, QuietAnswerInv DEF UpdateCheck
<1>2. CASE /\ ~ ExistsOnUpdate(req[s].email, req[s].id)
           /\ Continue(s, "updateLoad")
    BY <1>2, ContinueFacts, QuietContinueInv
    DEF UpdateCheck, UsersInv, Steps, WriterSteps, ChangeSteps
<1> QED
    BY <1>1, <1>2 DEF UpdateCheck

LEMMA UpdateLoadInv ==
    ASSUME UsersInv, NEW s \in Slots, UpdateLoad(s)
    PROVE  UsersInv'
<1>1. req[s].id \in Ids
    BY DEF UpdateLoad, UsersInv, RequestsAreAboutUsers
<1>2. /\ req' \in [Slots -> Request]
      /\ \A t \in Slots \ {s} : req'[t] = req[t]
      /\ req'[s].at = "updateCommit"
      /\ req'[s].id = req[s].id /\ req'[s].email = req[s].email /\ req'[s].old = req[s].old
    BY <1>1 DEF UpdateLoad, UsersInv, TypeOK, Request, Steps, WriterSteps
<1> QED
    BY <1>2, QuietContinueInv DEF UpdateLoad, WriterSteps, ChangeSteps

LEMMA ChangePasswordLoadUserInv ==
    ASSUME UsersInv, NEW s \in Slots, ChangePasswordLoadUser(s)
    PROVE  UsersInv'
<1>1. req[s].id \in Ids
    BY DEF ChangePasswordLoadUser, UsersInv, RequestsAreAboutUsers
<1>2. /\ req' \in [Slots -> Request]
      /\ \A t \in Slots \ {s} : req'[t] = req[t]
      /\ req'[s].at = "changeLoadPassword"
      /\ req'[s].id = req[s].id /\ req'[s].email = req[s].email /\ req'[s].old = req[s].old
    BY <1>1 DEF ChangePasswordLoadUser, UsersInv, TypeOK, Request, Steps, WriterSteps
<1> QED
    BY <1>2, QuietContinueInv DEF ChangePasswordLoadUser, WriterSteps, ChangeSteps

LEMMA ChangePasswordLoadPasswordInv ==
    ASSUME UsersInv, NEW s \in Slots, ChangePasswordLoadPassword(s)
    PROVE  UsersInv'
<1>1. req[s].id \in Ids
    BY DEF ChangePasswordLoadPassword, UsersInv, RequestsAreAboutUsers
<1>2. /\ req' \in [Slots -> Request]
      /\ \A t \in Slots \ {s} : req'[t] = req[t]
      /\ req'[s].at = "changeCommit"
      /\ req'[s].id = req[s].id /\ req'[s].email = req[s].email /\ req'[s].old = req[s].old
    BY <1>1 DEF ChangePasswordLoadPassword, UsersInv, TypeOK, Request, Steps, WriterSteps
<1> QED
    BY <1>2, QuietContinueInv DEF ChangePasswordLoadPassword, WriterSteps, ChangeSteps

-----------------------------------------------------------------------------
\* The inserts of a create
LEMMA CreateSaveInv ==
    ASSUME UsersInv, NEW s \in Slots, CreateSave(s)
    PROVE  UsersInv'
<1> USE DEF UsersInv
<1> DEFINE i == req[s].id
<1>1. /\ i \in Ids /\ s \in Writers
      /\ users[i].state = "absent" /\ passwords[i].state = "absent"
      /\ \A t \in Slots \ {s} : req[t].id # i
    BY DEF CreateSave, RequestsAreAboutUsers, Writers, WriterSteps
<1>2. /\ req' \in [Slots -> Request]
      /\ req'[s].at = "idle" /\ req'[s].id = None
      /\ \A t \in Slots \ {s} : req'[t] = req[t]
      /\ Writers' = Writers \ {s}
    BY AnswerFacts DEF CreateSave
<1>3. /\ users' \in [Ids -> UserRow] /\ passwords' \in [Ids -> PasswordRow]
      /\ users'[i].state = "live" /\ users'[i].email = req[s].email
      /\ passwords'[i].state = "live"
      /\ \A j \in Ids \ {i} : users'[j] = users[j] /\ passwords'[j] = passwords[j]
    BY <1>1 DEF CreateSave, TypeOK, Request, UserRow, PasswordRow
<1>4. UNCHANGED <<overlapped, raced>>
    BY DEF CreateSave
<1>5. \A t \in Writers \ {s} : req[t].id # i /\ {req[t].id, i} \in overlapped
    BY <1>1 DEF OverlapIsNoted, Writers
<1>6. TypeOK'
    BY <1>2, <1>3, <1>4 DEF TypeOK
<1>7. RequestsAreAboutUsers'
    BY <1>1, <1>2, <1>3, NoneIsNoValue DEF RequestsAreAboutUsers
<1>8. RowsComeTogether'
    BY <1>3 DEF RowsComeTogether
<1>9. OverlapIsNoted'
    BY <1>2, <1>4 DEF OverlapIsNoted, Writers
<1>10. EmailsUniqueUnlessOverlapped'
  <2>1. \A j \in Ids \ {i} : Live(j) /\ {i, j} \notin overlapped
                               => req[s].email # users[j].email
    BY <1>1 DEF WritersHoldFreeEmails, CreateSave
  <2> QED
    BY <1>1, <1>3, <1>4, <2>1 DEF EmailsUniqueUnlessOverlapped, Live
<1>11. WritersHoldFreeEmails'
  <2>1. \A t \in Writers' : req'[t] = req[t] /\ t \in Writers \ {s} /\ req[t].id \in Ids \ {i}
    BY <1>1, <1>2 DEF Writers, RequestsAreAboutUsers, WriterSteps
  <2> QED
    BY <1>3, <1>4, <1>5, <2>1 DEF WritersHoldFreeEmails, Live
<1>12. PasswordFollowsUserUnlessRaced'
    BY <1>3, <1>4 DEF PasswordFollowsUserUnlessRaced
<1>13. WritersHaveLiveUsers'
  <2>1. \A t \in Writers' : req'[t] = req[t] /\ t \in Writers \ {s} /\ req[t].id \in Ids \ {i}
    BY <1>1, <1>2 DEF Writers, RequestsAreAboutUsers, WriterSteps
  <2> QED
    BY <1>2, <1>3, <1>4, <2>1 DEF WritersHaveLiveUsers, Live, Deleting
<1>14. LoneChangeIsUpToDate'
  <2>1. \A t \in Slots : req'[t].at \in ChangeSteps => t # s /\ req[t].id \in Ids \ {i}
    BY <1>1, <1>2 DEF ChangeSteps, RequestsAreAboutUsers
  <2> QED
    BY <1>2, <1>3, <1>4, <2>1 DEF LoneChangeIsUpToDate
<1> QED
    BY <1>6, <1>7, <1>8, <1>9, <1>10, <1>11, <1>12, <1>13, <1>14

\* The write of an update: the row keeps its place, and its e-mail is the
\* entity's or the one it had
LEMMA UpdateCommitInv ==
    ASSUME UsersInv, NEW s \in Slots, UpdateCommit(s)
    PROVE  UsersInv'
<1> USE DEF UsersInv
<1> DEFINE i == req[s].id
           entity == [state |-> "live", email |-> req[s].email]
<1>1. i \in Ids /\ s \in Writers /\ req[s].at = "updateCommit" /\ users[i].state # "absent"
    BY DEF UpdateCommit, RequestsAreAboutUsers, Writers, WriterSteps
<1>2. /\ req' \in [Slots -> Request]
      /\ req'[s].at = "updateReread" /\ req'[s].id = i
      /\ \A t \in Slots \ {s} : req'[t] = req[t]
      /\ Writers' = Writers \ {s}
    BY ContinueFacts DEF UpdateCommit, Steps, WriterSteps
<1>3. /\ users' \in [Ids -> UserRow]
      /\ users'[i].state = IF "live" = req[s].userSeen.state THEN users[i].state ELSE "live"
      /\ users'[i].email \in {users[i].email, req[s].email}
      /\ \A j \in Ids \ {i} : users'[j] = users[j]
  <2>1. entity \in UserRow /\ req[s].userSeen \in UserRow /\ users[i] \in UserRow
    BY <1>1 DEF TypeOK, Request, UserRow
  <2>2. Diff(entity, req[s].userSeen, users[i]) \in UserRow
    BY <2>1, DiffUser
  <2>3. /\ users' \in [Ids -> UserRow]
        /\ users'[i] = Diff(entity, req[s].userSeen, users[i])
        /\ \A j \in Ids \ {i} : users'[j] = users[j]
    BY <1>1, <2>2 DEF UpdateCommit, TypeOK
  <2> QED
    BY <2>1, <2>3, DiffUser
<1>4. UNCHANGED <<passwords, overlapped, raced>>
    BY DEF UpdateCommit
<1>5. users'[i].state # "absent" /\ (users[i].state = "live" => users'[i].state = "live")
    BY <1>1, <1>3 DEF Live
<1>6. \A t \in Writers' : req'[t] = req[t] /\ t \in Writers \ {s}
                            /\ req[t].id \in Ids /\ {req[t].id, i} \in overlapped
    BY <1>1, <1>2 DEF Writers, RequestsAreAboutUsers, WriterSteps, OverlapIsNoted
<1>7. \A j \in Ids \ {i} : Live(j) /\ {i, j} \notin overlapped
                             => users'[i].email # users[j].email
    BY <1>1, <1>3 DEF WritersHoldFreeEmails
<1>8. TypeOK'
    BY <1>2, <1>3, <1>4 DEF TypeOK
<1>9. RequestsAreAboutUsers'
    BY <1>1, <1>2, <1>3, <1>4, <1>5 DEF RequestsAreAboutUsers
<1>10. RowsComeTogether'
    BY <1>1, <1>3, <1>4, <1>5 DEF RowsComeTogether
<1>11. OverlapIsNoted'
    BY <1>4, <1>6 DEF OverlapIsNoted
<1>12. EmailsUniqueUnlessOverlapped'
    BY <1>1, <1>3, <1>4, <1>7 DEF EmailsUniqueUnlessOverlapped, Live
<1>13. WritersHoldFreeEmails'
  <2>1. SUFFICES ASSUME NEW t \in Writers', NEW j \in Ids, j # req'[t].id,
                        users'[j].state = "live", {req'[t].id, j} \notin overlapped'
                 PROVE  /\ req'[t].at # "createSave" => users'[req'[t].id].email # users'[j].email
                        /\ req'[t].at # "updateCheck" => req'[t].email # users'[j].email
    BY DEF WritersHoldFreeEmails, Live
  <2>2. t \in Writers /\ req'[t] = req[t] /\ req[t].id \in Ids
    BY <1>6
  <2>3. j # i /\ users'[j] = users[j] /\ Live(j) /\ {req[t].id, j} \notin overlapped
    BY <1>1, <1>3, <1>4, <1>6, <2>1, <2>2 DEF Live
  <2>4. /\ req[t].at # "createSave" => users[req[t].id].email # users[j].email
        /\ req[t].at # "updateCheck" => req[t].email # users[j].email
    BY <2>1, <2>2, <2>3 DEF WritersHoldFreeEmails
  <2>5. req[t].at # "createSave" => users'[req[t].id].email # users[j].email
    BY <1>3, <1>7, <2>2, <2>3, <2>4
  <2> QED
    BY <2>2, <2>3, <2>4, <2>5
<1>14. PasswordFollowsUserUnlessRaced'
    BY <1>1, <1>3, <1>4, <1>5
    DEF PasswordFollowsUserUnlessRaced, WritersHaveLiveUsers, Live
<1>15. WritersHaveLiveUsers'
  <2>1. SUFFICES ASSUME NEW t \in Writers'
                 PROVE  /\ Deleting(req[t].id)' => req'[t].id \in raced'
                        /\ req'[t].at # "createSave" /\ req'[t].id \notin raced'
                              => users'[req'[t].id].state = "live"
    BY DEF WritersHaveLiveUsers, Live
  <2>2. t \in Writers /\ req'[t] = req[t] /\ req[t].id \in Ids
    BY <1>6
  <2>3. ASSUME NEW u \in Slots, req'[u].at = "deleteRemove", req'[u].id = req[t].id
        PROVE  req[t].id \in raced
    <3>1. req[u].at = "deleteRemove" /\ req[u].id = req[t].id
        BY <1>2, <2>3
    <3> QED
        BY <2>2, <3>1 DEF WritersHaveLiveUsers, Deleting
  <2>4. req[t].at # "createSave" /\ req[t].id \notin raced => users[req[t].id].state = "live"
    BY <2>2 DEF WritersHaveLiveUsers, Live
  <2> QED
    BY <1>3, <1>5, <1>4, <2>2, <2>3, <2>4 DEF Deleting
<1>16. LoneChangeIsUpToDate'
  <2>1. \A t \in Slots : req'[t].at \in ChangeSteps => t \in Writers' /\ t # s
    BY <1>2 DEF ChangeSteps, Writers, WriterSteps
  <2>2. ASSUME NEW t \in Slots, req'[t].at \in ChangeSteps, {req'[t].id} \notin overlapped'
        PROVE  req'[t].old = passwords'[req'[t].id].hash /\ req'[t].email = users'[req'[t].id].email
    <3>1. req'[t] = req[t] /\ req[t].id \in Ids /\ req[t].id # i
        BY <1>4, <1>6, <2>1, <2>2
    <3> QED
        BY <1>3, <1>4, <2>2, <3>1 DEF LoneChangeIsUpToDate
  <2> QED
    BY <2>2 DEF LoneChangeIsUpToDate
<1> QED
    BY <1>8, <1>9, <1>10, <1>11, <1>12, <1>13, <1>14, <1>15, <1>16

\* The write of a password change, in both tables
LEMMA ChangePasswordCommitInv ==
    ASSUME UsersInv, NEW s \in Slots, ChangePasswordCommit(s)
    PROVE  UsersInv'
<1> USE DEF UsersInv
<1> DEFINE i == req[s].id
           user == [state |-> "live", email |-> req[s].email]
           password == [state |-> "live", hash |-> req[s].hash]
<1>1. i \in Ids /\ s \in Writers /\ req[s].at = "changeCommit" /\ users[i].state # "absent"
    BY DEF ChangePasswordCommit, RequestsAreAboutUsers, Writers, WriterSteps
<1>2. /\ req' \in [Slots -> Request]
      /\ req'[s].at = "idle" /\ req'[s].id = None
      /\ \A t \in Slots \ {s} : req'[t] = req[t]
      /\ Writers' = Writers \ {s}
    BY AnswerFacts DEF ChangePasswordCommit
<1>3. /\ users' \in [Ids -> UserRow]
      /\ users'[i].state = IF "live" = req[s].userSeen.state THEN users[i].state ELSE "live"
      /\ users'[i].email \in {users[i].email, req[s].email}
      /\ \A j \in Ids \ {i} : users'[j] = users[j]
  <2>1. user \in UserRow /\ req[s].userSeen \in UserRow /\ users[i] \in UserRow
    BY <1>1 DEF TypeOK, Request, UserRow
  <2>2. Diff(user, req[s].userSeen, users[i]) \in UserRow
    BY <2>1, DiffUser
  <2>3. /\ users' \in [Ids -> UserRow]
        /\ users'[i] = Diff(user, req[s].userSeen, users[i])
        /\ \A j \in Ids \ {i} : users'[j] = users[j]
    BY <1>1, <2>2 DEF ChangePasswordCommit, TypeOK
  <2> QED
    BY <2>1, <2>3, DiffUser
<1>4. /\ passwords' \in [Ids -> PasswordRow]
      /\ passwords'[i].state =
            IF "live" = req[s].passwordSeen.state THEN passwords[i].state ELSE "live"
      /\ \A j \in Ids \ {i} : passwords'[j] = passwords[j]
  <2>1. password \in PasswordRow /\ req[s].passwordSeen \in PasswordRow
        /\ passwords[i] \in PasswordRow
    BY <1>1 DEF TypeOK, Request, PasswordRow
  <2>2. Diff(password, req[s].passwordSeen, passwords[i]) \in PasswordRow
    BY <2>1, DiffPassword
  <2>3. /\ passwords' \in [Ids -> PasswordRow]
        /\ passwords'[i] = Diff(password, req[s].passwordSeen, passwords[i])
        /\ \A j \in Ids \ {i} : passwords'[j] = passwords[j]
    BY <1>1, <2>2 DEF ChangePasswordCommit, TypeOK
  <2> QED
    BY <2>1, <2>3, DiffPassword
<1>5. UNCHANGED <<overlapped, raced>>
    BY DEF ChangePasswordCommit
<1>6. /\ users'[i].state # "absent" /\ (users[i].state = "live" => users'[i].state = "live")
      /\ passwords'[i].state # "absent"
      /\ passwords[i].state = "live" => passwords'[i].state = "live"
    BY <1>1, <1>3, <1>4 DEF Live, RowsComeTogether
<1>7. \A t \in Writers' : req'[t] = req[t] /\ t \in Writers \ {s}
                            /\ req[t].id \in Ids /\ {req[t].id, i} \in overlapped
    BY <1>1, <1>2 DEF Writers, RequestsAreAboutUsers, WriterSteps, OverlapIsNoted
<1>8. \A j \in Ids \ {i} : Live(j) /\ {i, j} \notin overlapped
                             => users'[i].email # users[j].email
    BY <1>1, <1>3 DEF WritersHoldFreeEmails
<1>9. TypeOK'
    BY <1>2, <1>3, <1>4, <1>5 DEF TypeOK
<1>10. RequestsAreAboutUsers'
  <2>1. \A t \in Slots \ {s} : req[t].at = "createSave" => req[t].id # i
    BY <1>1 DEF RequestsAreAboutUsers
  <2> QED
    BY <1>1, <1>2, <1>3, <1>4, <1>6, <2>1, NoneIsNoValue DEF RequestsAreAboutUsers
<1>11. RowsComeTogether'
    BY <1>1, <1>3, <1>4, <1>6 DEF RowsComeTogether
<1>12. OverlapIsNoted'
    BY <1>5, <1>7 DEF OverlapIsNoted
<1>13. EmailsUniqueUnlessOverlapped'
    BY <1>1, <1>3, <1>5, <1>8 DEF EmailsUniqueUnlessOverlapped, Live
<1>14. WritersHoldFreeEmails'
  <2>1. SUFFICES ASSUME NEW t \in Writers', NEW j \in Ids, j # req'[t].id,
                        users'[j].state = "live", {req'[t].id, j} \notin overlapped'
                 PROVE  /\ req'[t].at # "createSave" => users'[req'[t].id].email # users'[j].email
                        /\ req'[t].at # "updateCheck" => req'[t].email # users'[j].email
    BY DEF WritersHoldFreeEmails, Live
  <2>2. t \in Writers /\ req'[t] = req[t] /\ req[t].id \in Ids
    BY <1>7
  <2>3. j # i /\ users'[j] = users[j] /\ Live(j) /\ {req[t].id, j} \notin overlapped
    BY <1>1, <1>3, <1>5, <1>7, <2>1, <2>2 DEF Live
  <2>4. /\ req[t].at # "createSave" => users[req[t].id].email # users[j].email
        /\ req[t].at # "updateCheck" => req[t].email # users[j].email
    BY <2>1, <2>2, <2>3 DEF WritersHoldFreeEmails
  <2>5. req[t].at # "createSave" => users'[req[t].id].email # users[j].email
    BY <1>3, <1>8, <2>2, <2>3, <2>4
  <2> QED
    BY <2>2, <2>3, <2>4, <2>5
<1>15. PasswordFollowsUserUnlessRaced'
    BY <1>1, <1>3, <1>4, <1>5, <1>6
    DEF PasswordFollowsUserUnlessRaced, WritersHaveLiveUsers, Live
<1>16. WritersHaveLiveUsers'
  <2>1. SUFFICES ASSUME NEW t \in Writers'
                 PROVE  /\ Deleting(req[t].id)' => req'[t].id \in raced'
                        /\ req'[t].at # "createSave" /\ req'[t].id \notin raced'
                              => users'[req'[t].id].state = "live"
    BY DEF WritersHaveLiveUsers, Live
  <2>2. t \in Writers /\ req'[t] = req[t] /\ req[t].id \in Ids
    BY <1>7
  <2>3. ASSUME NEW u \in Slots, req'[u].at = "deleteRemove", req'[u].id = req[t].id
        PROVE  req[t].id \in raced
    <3>1. req[u].at = "deleteRemove" /\ req[u].id = req[t].id
        BY <1>2, <2>3
    <3> QED
        BY <2>2, <3>1 DEF WritersHaveLiveUsers, Deleting
  <2>4. req[t].at # "createSave" /\ req[t].id \notin raced => users[req[t].id].state = "live"
    BY <2>2 DEF WritersHaveLiveUsers, Live
  <2> QED
    BY <1>3, <1>6, <1>5, <2>2, <2>3, <2>4 DEF Deleting
<1>17. LoneChangeIsUpToDate'
  <2>1. \A t \in Slots : req'[t].at \in ChangeSteps => t \in Writers' /\ t # s
    BY <1>2 DEF ChangeSteps, Writers, WriterSteps
  <2>2. ASSUME NEW t \in Slots, req'[t].at \in ChangeSteps, {req'[t].id} \notin overlapped'
        PROVE  req'[t].old = passwords'[req'[t].id].hash /\ req'[t].email = users'[req'[t].id].email
    <3>1. req'[t] = req[t] /\ req[t].id \in Ids /\ req[t].id # i
        BY <1>5, <1>7, <2>1, <2>2
    <3> QED
        BY <1>3, <1>4, <1>5, <2>2, <3>1 DEF LoneChangeIsUpToDate
  <2> QED
    BY <2>2 DEF LoneChangeIsUpToDate
<1> QED
    BY <1>9, <1>10, <1>11, <1>12, <1>13, <1>14, <1>15, <1>16, <1>17

\* The soft remove of both rows
LEMMA DeleteRemoveInv ==
    ASSUME UsersInv, NEW s \in Slots, DeleteRemove(s)
    PROVE  UsersInv'
<1> USE DEF UsersInv
<1> DEFINE i == req[s].id
<1>1. /\ i \in Ids /\ s \notin Writers /\ req[s].at = "deleteRemove"
      /\ users[i].state # "absent" /\ passwords[i].state # "absent"
    BY DEF DeleteRemove, RequestsAreAboutUsers, RowsComeTogether, Writers, WriterSteps
<1>2. /\ req' \in [Slots -> Request]
      /\ req'[s].at = "idle" /\ req'[s].id = None
      /\ \A t \in Slots \ {s} : req'[t] = req[t]
      /\ Writers' = Writers
    BY <1>1, AnswerFacts DEF DeleteRemove
<1>3. /\ users' \in [Ids -> UserRow] /\ passwords' \in [Ids -> PasswordRow]
      /\ users'[i].state = "deleted" /\ passwords'[i].state = "deleted"
      /\ \A j \in Ids : users'[j].email = users[j].email /\ passwords'[j].hash = passwords[j].hash
      /\ \A j \in Ids \ {i} : users'[j] = users[j] /\ passwords'[j] = passwords[j]
    BY <1>1 DEF DeleteRemove, TypeOK, UserRow, PasswordRow
<1>4. UNCHANGED <<overlapped, raced>>
    BY DEF DeleteRemove
<1>5. \A t \in Writers : /\ t \in Slots \ {s} /\ req'[t] = req[t] /\ req[t].id \in Ids
                         /\ req[t].id = i => i \in raced
    BY <1>1, <1>2
    DEF Writers, WriterSteps, RequestsAreAboutUsers, WritersHaveLiveUsers, Deleting
<1>6. TypeOK'
    BY <1>2, <1>3, <1>4 DEF TypeOK
<1>7. RequestsAreAboutUsers'
  <2>1. \A t \in Slots \ {s} : req[t].at = "createSave" => req[t].id # i
    BY <1>1 DEF RequestsAreAboutUsers
  <2> QED
    BY <1>1, <1>2, <1>3, <2>1, NoneIsNoValue DEF RequestsAreAboutUsers
<1>8. RowsComeTogether'
    BY <1>3 DEF RowsComeTogether
<1>9. OverlapIsNoted'
    BY <1>2, <1>4, <1>5 DEF OverlapIsNoted
<1>10. EmailsUniqueUnlessOverlapped'
    BY <1>3, <1>4 DEF EmailsUniqueUnlessOverlapped, Live
<1>11. WritersHoldFreeEmails'
  <2>1. SUFFICES ASSUME NEW t \in Writers', NEW j \in Ids, j # req'[t].id,
                        users'[j].state = "live", {req'[t].id, j} \notin overlapped'
                 PROVE  /\ req'[t].at # "createSave" => users'[req'[t].id].email # users'[j].email
                        /\ req'[t].at # "updateCheck" => req'[t].email # users'[j].email
    BY DEF WritersHoldFreeEmails, Live
  <2>2. t \in Writers /\ req'[t] = req[t] /\ req[t].id \in Ids
    BY <1>2, <1>5
  <2>3. j # i /\ users'[j] = users[j] /\ Live(j) /\ {req[t].id, j} \notin overlapped
    BY <1>3, <1>4, <2>1, <2>2 DEF Live
  <2>4. /\ req[t].at # "createSave" => users[req[t].id].email # users[j].email
        /\ req[t].at # "updateCheck" => req[t].email # users[j].email
    BY <2>1, <2>2, <2>3 DEF WritersHoldFreeEmails
  <2>5. req[t].at # "createSave" => users'[req[t].id].email # users[j].email
    BY <1>3, <2>2, <2>4
  <2> QED
    BY <2>2, <2>3, <2>4, <2>5
<1>12. PasswordFollowsUserUnlessRaced'
    BY <1>3, <1>4 DEF PasswordFollowsUserUnlessRaced
<1>13. WritersHaveLiveUsers'
    BY <1>2, <1>3, <1>4, <1>5 DEF WritersHaveLiveUsers, Live, Deleting
<1>14. LoneChangeIsUpToDate'
  <2>1. \A t \in Slots : req'[t].at \in ChangeSteps => t \in Writers
    BY <1>2 DEF ChangeSteps, Writers, WriterSteps
  <2> QED
    BY <1>3, <1>4, <1>5, <2>1 DEF LoneChangeIsUpToDate
<1> QED
    BY <1>6, <1>7, <1>8, <1>9, <1>10, <1>11, <1>12, <1>13, <1>14

-----------------------------------------------------------------------------
LEMMA InitInv == Init => UsersInv
<1> SUFFICES ASSUME Init PROVE UsersInv
    OBVIOUS
<1>1. \A s \in Slots : req[s] = Idle /\ Idle.at = "idle"
    BY DEF Init, Idle
<1>2. Writers = {}
    BY <1>1 DEF Writers, WriterSteps
<1>3. Idle \in Request
    BY DEF Idle, Request, Steps, UserRow, PasswordRow, NoUser, NoPassword
<1>4. TypeOK
    BY <1>3 DEF Init, TypeOK, UserRow, PasswordRow, NoUser, NoPassword
<1>5. RequestsAreAboutUsers /\ LoneChangeIsUpToDate
    BY <1>1 DEF RequestsAreAboutUsers, LoneChangeIsUpToDate, ChangeSteps
<1>6. OverlapIsNoted /\ WritersHoldFreeEmails /\ WritersHaveLiveUsers
    BY <1>2 DEF OverlapIsNoted, WritersHoldFreeEmails, WritersHaveLiveUsers
<1>7. RowsComeTogether /\ EmailsUniqueUnlessOverlapped /\ PasswordFollowsUserUnlessRaced
    BY DEF Init, RowsComeTogether, EmailsUniqueUnlessOverlapped,
           PasswordFollowsUserUnlessRaced, Live, NoUser, NoPassword
<1> QED
    BY <1>4, <1>5, <1>6, <1>7 DEF UsersInv

LEMMA StutterInv == UsersInv /\ UNCHANGED vars => UsersInv'
BY DEF UsersInv, vars, TypeOK, RequestsAreAboutUsers, RowsComeTogether, OverlapIsNoted,
       EmailsUniqueUnlessOverlapped, WritersHoldFreeEmails, PasswordFollowsUserUnlessRaced,
       WritersHaveLiveUsers, LoneChangeIsUpToDate, Writers, Live, Deleting

LEMMA NextInv == UsersInv /\ [Next]_vars => UsersInv'
<1> SUFFICES ASSUME UsersInv, [Next]_vars PROVE UsersInv'
    OBVIOUS
<1>1. CASE UNCHANGED vars
    BY <1>1, StutterInv
<1>2. CASE Next
  <2> PICK s \in Slots : Arrive(s) \/ Serve(s)
    BY <1>2 DEF Next
  <2>1. CASE Arrive(s)
    <3> PICK i \in Ids :
            \/ NotFound(s, i)
            \/ \E e \in Emails, p \in Passwords : CreateCheck(s, i, e, p)
            \/ \E e \in Emails : UpdateRead(s, i, e)
            \/ \E old, new \in Passwords : ChangePasswordRead(s, i, old, new)
            \/ DeleteRead(s, i)
        BY <2>1 DEF Arrive
    <3>1. CASE NotFound(s, i)
        BY <3>1, StutterInv DEF NotFound
    <3>2. CASE \E e \in Emails, p \in Passwords : CreateCheck(s, i, e, p)
        BY <3>2, CreateCheckInv
    <3>3. CASE \E e \in Emails : UpdateRead(s, i, e)
        BY <3>3, UpdateReadInv
    <3>4. CASE \E old, new \in Passwords : ChangePasswordRead(s, i, old, new)
        BY <3>4, ChangePasswordReadInv
    <3>5. CASE DeleteRead(s, i)
        BY <3>5, DeleteReadInv
    <3> QED
        BY <3>1, <3>2, <3>3, <3>4, <3>5
  <2>2. CASE Serve(s)
    <3>1. CASE UpdateReread(s)
        BY <3>1, QuietAnswerInv DEF UpdateReread
    <3> QED
        BY <2>2, <3>1, CreateSaveInv, UpdateCheckInv, UpdateLoadInv, UpdateCommitInv,
           ChangePasswordLoadUserInv, ChangePasswordLoadPasswordInv,
           ChangePasswordCommitInv, DeleteRemoveInv
        DEF Serve
  <2> QED
    BY <2>1, <2>2
<1> QED
    BY <1>1, <1>2

LEMMA Invariance == Spec => []UsersInv
BY InitInv, NextInv, PTL DEF Spec

(***************************************************************************)
(* Every state of the tables and of the requests is well-typed.            *)
(***************************************************************************)
THEOREM TypeCorrect == Spec => []TypeOK
<1>1. UsersInv => TypeOK
    BY DEF UsersInv
<1> QED
    BY <1>1, Invariance, PTL

(***************************************************************************)
(* Two live users have one e-mail only if requests writing them overlapped *)
(* (the lookups of user-create.ts:58 and user-update.ts:44 do no more).    *)
(***************************************************************************)
THEOREM EmailUniqueness == Spec => []EmailsUniqueUnlessOverlapped
<1>1. UsersInv => EmailsUniqueUnlessOverlapped
    BY DEF UsersInv
<1> QED
    BY <1>1, Invariance, PTL

(***************************************************************************)
(* With one request at a time no two live users ever have one e-mail: the  *)
(* check and the save of user-create.ts and user-update.ts then suffice.   *)
(***************************************************************************)
THEOREM SerialEmailUniqueness ==
    ASSUME \A s, t \in Slots : s = t
    PROVE  Spec => [](\A i, j \in Ids : Live(i) /\ Live(j) /\ users[i].email = users[j].email
                                          => i = j)
<1> DEFINE NoOverlap == \A i, j \in Ids : i # j => {i, j} \notin overlapped
           Unique == \A i, j \in Ids : Live(i) /\ Live(j) /\ users[i].email = users[j].email
                                         => i = j
<1>1. Init => NoOverlap
    BY DEF Init
<1>2. NoOverlap /\ [Next]_vars => NoOverlap'
  <2> SUFFICES ASSUME NoOverlap, [Next]_vars PROVE NoOverlap'
    OBVIOUS
  <2>1. ASSUME NEW s \in Slots, req[s].at = "idle" PROVE Writers = {}
    BY <2>1 DEF Writers, WriterSteps
  <2>2. overlapped' = overlapped
    BY <2>1 DEF Next, vars, Arrive, Serve, NotFound, CreateCheck, UpdateRead,
                ChangePasswordRead, DeleteRead, TakeOff, CreateSave, UpdateCheck, UpdateLoad,
                UpdateCommit, UpdateReread, ChangePasswordLoadUser,
                ChangePasswordLoadPassword, ChangePasswordCommit, DeleteRemove
  <2> QED
    BY <2>2
<1>3. UsersInv /\ NoOverlap => Unique
    BY DEF UsersInv, EmailsUniqueUnlessOverlapped
<1> QED
    BY <1>1, <1>2, <1>3, Invariance, PTL DEF Spec

(***************************************************************************)
(* A user and its password row are live or soft-deleted together, unless a *)
(* delete of the user met another writer of it.                            *)
(***************************************************************************)
THEOREM PasswordFollowsUser == Spec => []PasswordFollowsUserUnlessRaced
<1>1. UsersInv => PasswordFollowsUserUnlessRaced
    BY DEF UsersInv
<1> QED
    BY <1>1, Invariance, PTL

-----------------------------------------------------------------------------
\* Which step writes a row that is there: the three saves and the delete, the
\* row of their own user
LEMMA WhoWrites ==
    ASSUME UsersInv, [Next]_vars, NEW i \in Ids, users[i].state # "absent",
           users'[i] # users[i] \/ passwords'[i] # passwords[i]
    PROVE  \E s \in Slots : /\ req[s].id = i
                            /\ UpdateCommit(s) \/ ChangePasswordCommit(s) \/ DeleteRemove(s)
<1>1. ~ UNCHANGED <<users, passwords>>
    OBVIOUS
<1>2. PICK s \in Slots : \/ CreateSave(s) \/ UpdateCommit(s)
                         \/ ChangePasswordCommit(s) \/ DeleteRemove(s)
    BY <1>1 DEF Next, vars, Arrive, Serve, NotFound, CreateCheck, UpdateRead,
                ChangePasswordRead, DeleteRead, UpdateCheck, UpdateLoad, UpdateReread,
                ChangePasswordLoadUser, ChangePasswordLoadPassword
<1>3. req[s].id = i
    BY <1>2 DEF CreateSave, UpdateCommit, ChangePasswordCommit, DeleteRemove, UsersInv, TypeOK
<1>4. ~ CreateSave(s)
    BY <1>3 DEF CreateSave, UsersInv, RequestsAreAboutUsers
<1> QED
    BY <1>2, <1>3, <1>4

(***************************************************************************)
(* A deleted user stays deleted, unless a delete of it met a writer of it. *)
(***************************************************************************)
THEOREM DeletionIsFinal == Spec => QuietDeleteIsFinal
<1>1. ASSUME UsersInv, [Next]_vars, NEW i \in Ids \ raced, users[i].state = "deleted"
      PROVE  users'[i].state = "deleted"
  <2>1. CASE users'[i] = users[i]
    BY <1>1, <2>1
  <2>2. CASE users'[i] # users[i]
    <3>1. PICK s \in Slots : /\ req[s].id = i
                             /\ UpdateCommit(s) \/ ChangePasswordCommit(s) \/ DeleteRemove(s)
        BY <1>1, <2>2, WhoWrites
    <3>2. s \notin Writers
        BY <1>1, <3>1 DEF UsersInv, WritersHaveLiveUsers, Live, Writers,
                          UpdateCommit, ChangePasswordCommit, DeleteRemove
    <3>3. DeleteRemove(s)
        BY <3>1, <3>2 DEF UpdateCommit, ChangePasswordCommit, Writers, WriterSteps
    <3> QED
        BY <1>1, <3>1, <3>3 DEF DeleteRemove, UsersInv, TypeOK
  <2> QED
    BY <2>1, <2>2
<1>2. UsersInv /\ [Next]_vars
        => [\A i \in Ids \ raced : users[i].state = "deleted"
                                    => users'[i].state = "deleted"]_vars
    BY <1>1
<1> QED
    BY <1>2, Invariance, PTL DEF Spec, QuietDeleteIsFinal

(***************************************************************************)
(* A stored hash is replaced only by a request that verified that very     *)
(* hash, unless writers of the user overlapped.                            *)
(***************************************************************************)
THEOREM VerifiedPasswordChange == Spec => OldPasswordWasVerified
<1> DEFINE P(i) == \/ {i} \in overlapped
                   \/ \E s \in Slots : req[s].id = i /\ req[s].old = passwords[i].hash
<1>1. ASSUME UsersInv, [Next]_vars, NEW i \in Ids, passwords[i].state # "absent",
             passwords'[i].hash # passwords[i].hash, {i} \notin overlapped
      PROVE  \E s \in Slots : req[s].id = i /\ req[s].old = passwords[i].hash
  <2>1. users[i].state # "absent"
    BY <1>1 DEF UsersInv, RowsComeTogether
  <2>2. PICK s \in Slots : /\ req[s].id = i
                           /\ UpdateCommit(s) \/ ChangePasswordCommit(s) \/ DeleteRemove(s)
    BY <1>1, <2>1, WhoWrites
  <2>3. ~ UpdateCommit(s)
    BY <1>1 DEF UpdateCommit
  <2>4. ~ DeleteRemove(s)
    BY <1>1, <2>2 DEF DeleteRemove, UsersInv, TypeOK, PasswordRow
  <2>5. req[s].at \in ChangeSteps
    BY <2>2, <2>3, <2>4 DEF ChangePasswordCommit, ChangeSteps
  <2> QED
    BY <1>1, <2>2, <2>5 DEF UsersInv, LoneChangeIsUpToDate
<1>2. UsersInv /\ [Next]_vars
        => [\A i \in Ids :
              passwords[i].state # "absent" /\ passwords'[i].hash # passwords[i].hash
                => P(i)]_vars
    BY <1>1
<1> QED
    BY <1>2, Invariance, PTL DEF Spec, OldPasswordWasVerified

(***************************************************************************)
(* The e-mail of a live user is changed by an update of it, and by no      *)
(* password change, unless writers of the user overlapped.                 *)
(***************************************************************************)
THEOREM EmailChange == Spec => EmailChangedByUpdate
<1>1. ASSUME UsersInv, [Next]_vars, NEW i \in Ids, Live(i),
             users'[i].email # users[i].email, {i} \notin overlapped
      PROVE  \E s \in Slots : req[s].id = i /\ req[s].at = "updateCommit"
  <2>1. users[i].state # "absent"
    BY <1>1 DEF Live
  <2>2. PICK s \in Slots : /\ req[s].id = i
                           /\ UpdateCommit(s) \/ ChangePasswordCommit(s) \/ DeleteRemove(s)
    BY <1>1, <2>1, WhoWrites
  <2>3. ~ DeleteRemove(s)
    BY <1>1, <2>2 DEF DeleteRemove, UsersInv, TypeOK, UserRow
  <2>4. ~ ChangePasswordCommit(s)
    <3> SUFFICES ASSUME ChangePasswordCommit(s) PROVE FALSE
        OBVIOUS
    <3> DEFINE user == [state |-> "live", email |-> req[s].email]
    <3>1. req[s].email = users[i].email
        BY <1>1, <2>2
        DEF UsersInv, LoneChangeIsUpToDate, ChangePasswordCommit, ChangeSteps
    <3>2. user \in UserRow /\ req[s].userSeen \in UserRow /\ users[i] \in UserRow
        BY <1>1 DEF UsersInv, TypeOK, Request, UserRow
    <3>3. users'[i] = Diff(user, req[s].userSeen, users[i])
        BY <1>1, <2>2 DEF ChangePasswordCommit, UsersInv, TypeOK
    <3>4. users'[i].email = users[i].email
        BY <3>1, <3>2, <3>3, DiffUser
    <3> QED
        BY <1>1, <3>4
  <2> QED
    BY <2>2, <2>3, <2>4 DEF UpdateCommit
<1>2. UsersInv /\ [Next]_vars
        => [\A i \in Ids :
              Live(i) /\ users'[i].email # users[i].email
                => \/ {i} \in overlapped
                   \/ \E s \in Slots : req[s].id = i /\ req[s].at = "updateCommit"]_vars
    BY <1>1
<1> QED
    BY <1>2, Invariance, PTL DEF Spec, EmailChangedByUpdate

-----------------------------------------------------------------------------
(***************************************************************************)
(* Users implements UserDirectory when at most one request is in flight,   *)
(* for every set of identifiers, e-mails and passwords.                    *)
(***************************************************************************)
OneSlot == \A s, t \in Slots : s = t

\* What a request holds when no other runs: the rows as they are
SoleRequest(s) ==
    LET r == req[s] IN
    /\ r.at \in (WriterSteps \ {"createSave"}) \cup {"deleteRemove"} => Live(r.id)
    /\ r.at = "createSave" => r.email \in Emails /\ r.hash \in Hashes
    /\ r.at \in {"updateCheck", "updateLoad", "updateCommit"} => r.email \in Emails
    /\ r.at \in ChangeSteps => r.old \in Hashes /\ r.hash \in Hashes
    /\ r.at \in {"updateCommit", "changeLoadPassword", "changeCommit"} =>
          r.userSeen = users[r.id]
    /\ r.at = "changeCommit" => r.passwordSeen = passwords[r.id]

LiveRowsAreAccounts ==
    \A i \in Ids : Live(i) => users[i].email \in Emails /\ passwords[i].hash \in Hashes

SerialInv ==
    /\ overlapped = {} /\ raced = {}
    /\ \A s \in Slots : SoleRequest(s)
    /\ LiveRowsAreAccounts

-----------------------------------------------------------------------------
\* A save that selected the row as it is leaves the entity
LEMMA DiffUpToDate ==
    /\ \A x, y \in UserRow : Diff(x, y, y) = x
    /\ \A x, y \in PasswordRow : Diff(x, y, y) = x
<1>1. ASSUME NEW x \in UserRow, NEW y \in UserRow PROVE Diff(x, y, y) = x
  <2>1. /\ Diff(x, y, y) \in UserRow
        /\ Diff(x, y, y).state = x.state /\ Diff(x, y, y).email = x.email
    BY DiffUser
  <2> QED
    BY <2>1 DEF UserRow
<1>2. ASSUME NEW x \in PasswordRow, NEW y \in PasswordRow PROVE Diff(x, y, y) = x
  <2>1. /\ Diff(x, y, y) \in PasswordRow
        /\ Diff(x, y, y).state = x.state /\ Diff(x, y, y).hash = x.hash
    BY DiffPassword
  <2> QED
    BY <2>1 DEF PasswordRow
<1> QED
    BY <1>1, <1>2

\* The two writes of a lone request, as values
LEMMA UpdateCommitWrites ==
    ASSUME UsersInv, SerialInv, NEW s \in Slots, UpdateCommit(s)
    PROVE  /\ req[s].id \in Ids /\ Live(req[s].id) /\ req[s].email \in Emails
           /\ users' = [users EXCEPT ![req[s].id] = [state |-> "live", email |-> req[s].email]]
           /\ passwords' = passwords
<1> DEFINE i == req[s].id
           entity == [state |-> "live", email |-> req[s].email]
<1>1. /\ i \in Ids /\ Live(i) /\ req[s].email \in Emails /\ req[s].userSeen = users[i]
    BY DEF UpdateCommit, UsersInv, RequestsAreAboutUsers, SerialInv, SoleRequest, WriterSteps
<1>2. entity \in UserRow /\ users[i] \in UserRow
    BY <1>1 DEF UserRow, UsersInv, TypeOK
<1>3. Diff(entity, req[s].userSeen, users[i]) = entity
    BY <1>1, <1>2, DiffUpToDate
<1> QED
    BY <1>1, <1>3 DEF UpdateCommit

LEMMA ChangePasswordCommitWrites ==
    ASSUME UsersInv, SerialInv, NEW s \in Slots, ChangePasswordCommit(s)
    PROVE  /\ req[s].id \in Ids /\ Live(req[s].id)
           /\ req[s].old = passwords[req[s].id].hash
           /\ req[s].old \in Hashes /\ req[s].hash \in Hashes
           /\ users' = users
           /\ passwords' = [passwords EXCEPT ![req[s].id] =
                                [state |-> "live", hash |-> req[s].hash]]
<1> DEFINE i == req[s].id
           user == [state |-> "live", email |-> req[s].email]
           password == [state |-> "live", hash |-> req[s].hash]
<1>1. /\ i \in Ids /\ Live(i) /\ req[s].old \in Hashes /\ req[s].hash \in Hashes
      /\ req[s].userSeen = users[i] /\ req[s].passwordSeen = passwords[i]
    BY DEF ChangePasswordCommit, UsersInv, RequestsAreAboutUsers, SerialInv, SoleRequest,
           WriterSteps, ChangeSteps
<1>2. req[s].old = passwords[i].hash /\ req[s].email = users[i].email
    BY DEF ChangePasswordCommit, UsersInv, LoneChangeIsUpToDate, SerialInv, ChangeSteps
<1>3. /\ users \in [Ids -> UserRow] /\ users[i] \in UserRow
      /\ passwords[i] \in PasswordRow /\ password \in PasswordRow
    BY <1>1 DEF UsersInv, TypeOK, PasswordRow
<1>4. user = users[i]
    BY <1>1, <1>2, <1>3 DEF UserRow, Live
<1>5. Diff(user, req[s].userSeen, users[i]) = users[i]
    BY <1>1, <1>3, <1>4, DiffUpToDate
<1>6. Diff(password, req[s].passwordSeen, passwords[i]) = password
    BY <1>1, <1>3, DiffUpToDate
<1> QED
    BY <1>1, <1>2, <1>3, <1>5, <1>6 DEF ChangePasswordCommit

-----------------------------------------------------------------------------
LEMMA SerialInit == Init => SerialInv
BY DEF Init, SerialInv, SoleRequest, LiveRowsAreAccounts, Live, Idle, NoUser, NoPassword,
       WriterSteps, ChangeSteps

LEMMA SerialNext ==
    ASSUME OneSlot, UsersInv, UsersInv', SerialInv, [Next]_vars
    PROVE  SerialInv'
<1>1. CASE UNCHANGED vars
    BY <1>1 DEF vars, SerialInv, SoleRequest, LiveRowsAreAccounts, Live
<1>2. CASE Next
  <2> PICK s \in Slots : Arrive(s) \/ Serve(s)
    BY <1>2 DEF Next
  <2>0. /\ req \in [Slots -> Request] /\ \A t \in Slots : t = s
        /\ (req[s].at = "idle" => Writers = {})
        /\ \A j \in Ids : ~ (req[s].at = "idle" /\ (Deleting(j) \/ Writing(j)))
    BY DEF OneSlot, UsersInv, TypeOK, Writers, WriterSteps, Deleting, Writing
  <2>1. overlapped' = {} /\ raced' = {}
    BY <2>0 DEF SerialInv, Arrive, Serve, NotFound, vars, CreateCheck, UpdateRead,
                ChangePasswordRead, DeleteRead, TakeOff, CreateSave, UpdateCheck, UpdateLoad,
                UpdateCommit, UpdateReread, ChangePasswordLoadUser,
                ChangePasswordLoadPassword, ChangePasswordCommit, DeleteRemove
  <2>2. SoleRequest(s)
    BY DEF SerialInv
  <2>3. SoleRequest(s)' /\ LiveRowsAreAccounts'
    <3>1. CASE \E i \in Ids : NotFound(s, i)
        BY <3>1, <2>2 DEF NotFound, vars, SoleRequest, LiveRowsAreAccounts, Live, SerialInv
    <3>2. CASE \E i \in Ids, e \in Emails, p \in Passwords : CreateCheck(s, i, e, p)
      <4>1. UNCHANGED <<users, passwords>> /\ req'[s].at = "createSave"
            /\ req'[s].email \in Emails /\ req'[s].hash \in Hashes
        BY <3>2, <2>0 DEF CreateCheck, Begin, Hashes
      <4> QED
        BY <4>1 DEF SoleRequest, LiveRowsAreAccounts, Live, SerialInv, ChangeSteps
    <3>3. CASE \E i \in Ids, e \in Emails : UpdateRead(s, i, e)
      <4>1. UNCHANGED <<users, passwords>> /\ req'[s].at = "updateCheck"
            /\ req'[s].email \in Emails /\ Live(req'[s].id)
        BY <3>3, <2>0 DEF UpdateRead, Begin
      <4> QED
        BY <4>1 DEF SoleRequest, LiveRowsAreAccounts, Live, SerialInv, ChangeSteps
    <3>4. CASE \E i \in Ids, old, new \in Passwords : ChangePasswordRead(s, i, old, new)
      <4>1. UNCHANGED <<users, passwords>> /\ req'[s].at = "changeLoadUser"
            /\ req'[s].old \in Hashes /\ req'[s].hash \in Hashes /\ Live(req'[s].id)
        BY <3>4, <2>0 DEF ChangePasswordRead, Begin, Hashes
      <4> QED
        BY <4>1 DEF SoleRequest, LiveRowsAreAccounts, Live, SerialInv, ChangeSteps
    <3>5. CASE \E i \in Ids : DeleteRead(s, i)
      <4>1. UNCHANGED <<users, passwords>> /\ req'[s].at = "deleteRemove" /\ Live(req'[s].id)
        BY <3>5, <2>0 DEF DeleteRead, Begin
      <4> QED
        BY <4>1 DEF SoleRequest, LiveRowsAreAccounts, Live, SerialInv, ChangeSteps
    <3>6. CASE UpdateCheck(s) \/ UpdateReread(s)
      <4>1. /\ UNCHANGED <<users, passwords>>
            /\ \/ req'[s].at = "idle"
               \/ /\ req[s].at = "updateCheck" /\ req'[s].at = "updateLoad"
                  /\ req'[s].id = req[s].id /\ req'[s].email = req[s].email
        BY <3>6, <2>0 DEF UpdateCheck, UpdateReread, Answer, Idle, Continue, Request
      <4> QED
        BY <4>1, <2>2
        DEF SoleRequest, LiveRowsAreAccounts, Live, SerialInv, ChangeSteps, WriterSteps
    <3>7. CASE UpdateLoad(s) \/ ChangePasswordLoadUser(s) \/ ChangePasswordLoadPassword(s)
      <4>1. /\ UNCHANGED <<users, passwords>>
            /\ req'[s].id = req[s].id /\ req'[s].email = req[s].email
            /\ req'[s].old = req[s].old /\ req'[s].hash = req[s].hash
            /\ \/ /\ req[s].at = "updateLoad" /\ req'[s].at = "updateCommit"
                  /\ req'[s].userSeen = users[req[s].id]
               \/ /\ req[s].at = "changeLoadUser" /\ req'[s].at = "changeLoadPassword"
                  /\ req'[s].userSeen = users[req[s].id]
               \/ /\ req[s].at = "changeLoadPassword" /\ req'[s].at = "changeCommit"
                  /\ req'[s].userSeen = req[s].userSeen
                  /\ req'[s].passwordSeen = passwords[req[s].id]
        BY <3>7, <2>0 DEF UpdateLoad, ChangePasswordLoadUser, ChangePasswordLoadPassword, Request
      <4> QED
        BY <4>1, <2>2
        DEF SoleRequest, LiveRowsAreAccounts, Live, SerialInv, ChangeSteps, WriterSteps
    <3>8. CASE CreateSave(s)
      <4>1. req'[s].at = "idle"
        BY <3>8, <2>0 DEF CreateSave, Answer, Idle
      <4>2. req[s].id \in Ids /\ req[s].email \in Emails /\ req[s].hash \in Hashes
        BY <3>8, <2>2 DEF CreateSave, SoleRequest, UsersInv, RequestsAreAboutUsers
      <4>3. LiveRowsAreAccounts'
        BY <3>8, <4>2 DEF CreateSave, LiveRowsAreAccounts, SerialInv, Live, UsersInv, TypeOK
      <4> QED
        BY <4>1, <4>3 DEF SoleRequest, ChangeSteps, WriterSteps
    <3>9. CASE UpdateCommit(s)
      <4>1. req'[s].at = "updateReread"
        BY <3>9, <2>0 DEF UpdateCommit, Continue, Request
      <4>2. LiveRowsAreAccounts'
        <5>1. /\ users' = [users EXCEPT ![req[s].id] =
                                [state |-> "live", email |-> req[s].email]]
              /\ req[s].id \in Ids /\ Live(req[s].id) /\ req[s].email \in Emails
              /\ passwords' = passwords
            BY <3>9, UpdateCommitWrites
        <5>2. \A i \in Ids : users'[i].state = "live" =>
                 Live(i) /\ users'[i].email \in {users[i].email, req[s].email}
            BY <5>1 DEF UsersInv, TypeOK, Live
        <5> QED
            BY <5>1, <5>2 DEF LiveRowsAreAccounts, SerialInv, Live
      <4> QED
        BY <4>1, <4>2 DEF SoleRequest, ChangeSteps, WriterSteps
    <3>10. CASE ChangePasswordCommit(s)
      <4>1. req'[s].at = "idle"
        BY <3>10, <2>0 DEF ChangePasswordCommit, Answer, Idle
      <4>2. LiveRowsAreAccounts'
        <5>1. /\ passwords' = [passwords EXCEPT ![req[s].id] =
                                    [state |-> "live", hash |-> req[s].hash]]
              /\ req[s].id \in Ids /\ req[s].hash \in Hashes /\ users' = users
            BY <3>10, ChangePasswordCommitWrites
        <5>2. \A i \in Ids : passwords'[i].hash \in {passwords[i].hash, req[s].hash}
            BY <5>1 DEF UsersInv, TypeOK
        <5> QED
            BY <5>1, <5>2 DEF LiveRowsAreAccounts, SerialInv, Live
      <4> QED
        BY <4>1, <4>2 DEF SoleRequest, ChangeSteps, WriterSteps
    <3>11. CASE DeleteRemove(s)
      <4>1. req'[s].at = "idle" /\ req[s].id \in Ids
        BY <3>11, <2>0 DEF DeleteRemove, Answer, Idle, UsersInv, RequestsAreAboutUsers
      <4>2. LiveRowsAreAccounts'
        BY <3>11, <4>1
        DEF DeleteRemove, LiveRowsAreAccounts, SerialInv, Live, UsersInv, TypeOK,
            UserRow, PasswordRow
      <4> QED
        BY <4>1, <4>2 DEF SoleRequest, ChangeSteps, WriterSteps
    <3> QED
        BY <3>1, <3>2, <3>3, <3>4, <3>5, <3>6, <3>7, <3>8, <3>9, <3>10, <3>11
        DEF Arrive, Serve
  <2> QED
    BY <2>0, <2>1, <2>3 DEF SerialInv
<1> QED
    BY <1>1, <1>2
-----------------------------------------------------------------------------
\* A step that writes neither table is a stutter of the directory
LEMMA QuietStep ==
    ASSUME UNCHANGED <<users, passwords>>
    PROVE  UNCHANGED Accounts
BY DEF Accounts, Live

\* Who holds which account
LEMMA AccountsAre ==
    ASSUME UsersInv, SerialInv, NEW i \in Ids
    PROVE  /\ users[i].state = "absent" => Accounts[i] = Directory!Absent
           /\ Live(i) => /\ Accounts[i] \in Directory!Account
                         /\ Accounts[i] = [state |-> "live", email |-> users[i].email,
                                           hash |-> passwords[i].hash]
           /\ \A e \in Emails : Directory!Holds(i, e) <=> Live(i) /\ users[i].email = e
BY NoneIsNoValue
DEF Accounts, Live, SerialInv, LiveRowsAreAccounts, UsersInv, TypeOK, UserRow,
    Directory!Absent, Directory!Account, Directory!Holds

LEMMA CreateSaveRegisters ==
    ASSUME UsersInv, SerialInv, NEW s \in Slots, CreateSave(s)
    PROVE  Directory!Next
<1> DEFINE i == req[s].id
<1>1. /\ i \in Ids /\ users[i].state = "absent" /\ s \in Writers
      /\ req[s].email \in Emails /\ req[s].hash \in Hashes
    BY DEF CreateSave, UsersInv, RequestsAreAboutUsers, SerialInv, SoleRequest, Writers, WriterSteps
<1>2. Accounts[i] = Directory!Absent
    BY <1>1, AccountsAre
<1>3. \A j \in Ids : ~ Directory!Holds(j, req[s].email)
  <2>1. \A j \in Ids : ~ (Live(j) /\ users[j].email = req[s].email)
    BY <1>1 DEF UsersInv, WritersHoldFreeEmails, SerialInv, CreateSave, Live
  <2> QED
    BY <1>1, <2>1, AccountsAre
<1>4. Accounts' = [Accounts EXCEPT ![i] =
                      [state |-> "live", email |-> req[s].email, hash |-> req[s].hash]]
    BY <1>1 DEF CreateSave, Accounts, Live, UsersInv, TypeOK
<1> QED
    BY <1>1, <1>2, <1>3, <1>4 DEF Directory!Next, Directory!Register

LEMMA UpdateCommitChangesEmail ==
    ASSUME UsersInv, SerialInv, NEW s \in Slots, UpdateCommit(s)
    PROVE  Directory!Next
<1> DEFINE i == req[s].id
<1>1. /\ i \in Ids /\ Live(i) /\ req[s].email \in Emails
      /\ users' = [users EXCEPT ![i] = [state |-> "live", email |-> req[s].email]]
      /\ passwords' = passwords
    BY UpdateCommitWrites
<1>2. \A j \in Ids \ {i} : ~ Directory!Holds(j, req[s].email)
  <2>1. \A j \in Ids \ {i} : ~ (Live(j) /\ users[j].email = req[s].email)
    BY DEF UsersInv, WritersHoldFreeEmails, SerialInv, UpdateCommit, Writers, WriterSteps
  <2> QED
    BY <1>1, <2>1, AccountsAre
<1>3. Accounts' = [Accounts EXCEPT ![i] =
                      [state |-> "live", email |-> req[s].email, hash |-> Accounts[i].hash]]
    BY <1>1 DEF Accounts, Live, UsersInv, TypeOK
<1>4. Accounts[i] \in Directory!Account
    BY <1>1, AccountsAre
<1> QED
    BY <1>1, <1>2, <1>3, <1>4 DEF Directory!Next, Directory!ChangeEmail

LEMMA ChangePasswordCommitChangesPassword ==
    ASSUME UsersInv, SerialInv, NEW s \in Slots, ChangePasswordCommit(s)
    PROVE  Directory!Next
<1> DEFINE i == req[s].id
<1>1. /\ i \in Ids /\ Live(i) /\ req[s].old = passwords[i].hash
      /\ req[s].old \in Hashes /\ req[s].hash \in Hashes
      /\ users' = users
      /\ passwords' = [passwords EXCEPT ![i] = [state |-> "live", hash |-> req[s].hash]]
    BY ChangePasswordCommitWrites
<1>2. Accounts' = [Accounts EXCEPT ![i] =
                      [state |-> "live", email |-> Accounts[i].email, hash |-> req[s].hash]]
  <2>1. \A j \in Ids \ {i} : passwords'[j] = passwords[j]
    BY <1>1
  <2>2. passwords'[i].hash = req[s].hash
    BY <1>1 DEF UsersInv, TypeOK
  <2>3. \A j \in Ids \ {i} : Accounts'[j] = Accounts[j]
    BY <1>1, <2>1 DEF Accounts, Live
  <2>4. Accounts'[i] = [state |-> "live", email |-> Accounts[i].email, hash |-> req[s].hash]
    BY <1>1, <2>2 DEF Accounts, Live
  <2> QED
    BY <1>1, <2>3, <2>4 DEF Accounts
<1>3. Accounts[i] \in Directory!Account /\ Accounts[i].hash = req[s].old
  <2>1. /\ Accounts[i] \in Directory!Account
        /\ Accounts[i] = [state |-> "live", email |-> users[i].email, hash |-> passwords[i].hash]
    BY <1>1, AccountsAre
  <2> QED
    BY <1>1, <2>1
<1> QED
    BY <1>1, <1>2, <1>3 DEF Directory!Next, Directory!ChangePassword

LEMMA DeleteRemoveRemoves ==
    ASSUME UsersInv, SerialInv, NEW s \in Slots, DeleteRemove(s)
    PROVE  Directory!Next
<1> DEFINE i == req[s].id
<1>1. i \in Ids /\ Live(i)
    BY DEF DeleteRemove, UsersInv, RequestsAreAboutUsers, SerialInv, SoleRequest
<1>2. /\ users' \in [Ids -> UserRow]
      /\ users'[i].state = "deleted" /\ \A j \in Ids \ {i} : users'[j] = users[j]
      /\ \A j \in Ids \ {i} : passwords'[j] = passwords[j]
    BY <1>1 DEF DeleteRemove, UsersInv, TypeOK, UserRow
<1>3. Accounts' = [Accounts EXCEPT ![i] = Directory!Removed]
  <2>1. Accounts'[i] = Directory!Removed
    BY <1>1, <1>2 DEF Accounts, Live, Directory!Removed
  <2>2. \A j \in Ids \ {i} : Accounts'[j] = Accounts[j]
    BY <1>2 DEF Accounts, Live
  <2>3. Accounts = [j \in Ids |-> Accounts[j]] /\ Accounts' = [j \in Ids |-> Accounts'[j]]
    BY DEF Accounts
  <2> QED
    BY <1>1, <2>1, <2>2, <2>3
<1>4. Accounts[i] \in Directory!Account
    BY <1>1, AccountsAre
<1> QED
    BY <1>1, <1>3, <1>4 DEF Directory!Next, Directory!Remove

LEMMA StepImplements ==
    ASSUME UsersInv, SerialInv, [Next]_vars
    PROVE  [Directory!Next]_Accounts
<1>1. CASE UNCHANGED <<users, passwords>>
    BY <1>1, QuietStep
<1>2. CASE ~ UNCHANGED <<users, passwords>>
  <2> PICK s \in Slots : \/ CreateSave(s) \/ UpdateCommit(s)
                         \/ ChangePasswordCommit(s) \/ DeleteRemove(s)
    BY <1>2 DEF Next, vars, Arrive, Serve, NotFound, CreateCheck, UpdateRead,
                ChangePasswordRead, DeleteRead, UpdateCheck, UpdateLoad, UpdateReread,
                ChangePasswordLoadUser, ChangePasswordLoadPassword
  <2> QED
    BY CreateSaveRegisters, UpdateCommitChangesEmail, ChangePasswordCommitChangesPassword,
       DeleteRemoveRemoves
<1> QED
    BY <1>1, <1>2

(***************************************************************************)
(* The use cases of core/user, run one request at a time, are the atomic   *)
(* operations of UserDirectory: register, change e-mail, change password   *)
(* and remove.                                                             *)
(***************************************************************************)
THEOREM SerialUsersImplementDirectory ==
    ASSUME OneSlot
    PROVE  Spec => ImplementsDirectory
<1>1. Init => Directory!Init
    BY DEF Init, Directory!Init, Directory!Absent, Accounts, NoUser, NoPassword, Live
<1>2. UsersInv /\ UsersInv' /\ SerialInv /\ [Next]_vars => SerialInv'
    BY SerialNext
<1>3. UsersInv /\ SerialInv /\ [Next]_vars => [Directory!Next]_Accounts
    BY StepImplements
<1> QED
    BY <1>1, <1>2, <1>3, SerialInit, Invariance, PTL DEF Spec, Directory!Spec, ImplementsDirectory
=============================================================================
