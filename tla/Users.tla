------------------------------- MODULE Users -------------------------------
(***************************************************************************)
(* The users of the user application: the tables users and users_password  *)
(* of Postgres and the use cases of core/user that write them, run by      *)
(* concurrent requests.  A request gives the event loop away at every      *)
(* await, so each query of a use case is a step of its own and other       *)
(* requests run between any two of them.                                   *)
(*                                                                         *)
(* Repository.save (TypeORM) is not one step: it first SELECTs the rows it *)
(* is about to write, soft-deleted ones included, and then, in a           *)
(* transaction, writes the columns in which the entity differs from what   *)
(* it selected.  The entity comes from a read that happened even earlier.  *)
(*                                                                         *)
(* Names, timestamps and roles of a user are left out; the role lookup of  *)
(* a create or an update is kept as an answer that may always be           *)
(* roleNotFound.                                                           *)
(***************************************************************************)
EXTENDS FiniteSets

CONSTANTS
    Ids,        \* uuids a user may be created with: the bound on creations
    Emails,
    Passwords,
    Slots,      \* requests in flight at the same time
    None        \* the value of a column of a row that is not there

ASSUME NoneIsNoValue == None \notin Ids \cup Emails

\* utils/crypto.ts: the hash stored for a password.  Two passwords have two
\* hashes, and a hash is not a password.
Hash(p) == [sha256 |-> p]
Hashes == {Hash(p) : p \in Passwords}

VARIABLES
    users,      \* users[i]: the row of table users with id i
    passwords,  \* passwords[i]: the row of users_password that row i points to
    req,        \* req[s]: the request in flight in slot s
    overlapped, \* history: {i, j} when writers of i and j were in flight together
    raced       \* history: the users a delete of which met another writer

vars == <<users, passwords, req, overlapped, raced>>

\* deletedAt is null in a "live" row and a date in a "deleted" one
UserRow == [state : {"absent", "live", "deleted"}, email : Emails \cup {None}]
PasswordRow == [state : {"absent", "live", "deleted"}, hash : Hashes \cup {None}]

NoUser == [state |-> "absent", email |-> None]
NoPassword == [state |-> "absent", hash |-> None]

\* The steps of a request that still may write user `id', and all its steps
WriterSteps == {"createSave", "updateCheck", "updateLoad", "updateCommit",
                "changeLoadUser", "changeLoadPassword", "changeCommit"}
Steps == WriterSteps \cup {"idle", "updateReread", "deleteRemove"}

(***************************************************************************)
(* A request: the query it is about to run, the user it is about, the      *)
(* columns of the entity it will save (email, hash), the hash it verified  *)
(* (old), and the rows its save selected.                                  *)
(***************************************************************************)
Request ==
    [at : Steps, id : Ids \cup {None}, email : Emails \cup {None},
     hash : Hashes \cup {None}, old : Hashes \cup {None},
     userSeen : UserRow, passwordSeen : PasswordRow]

Idle == [at |-> "idle", id |-> None, email |-> None, hash |-> None, old |-> None,
         userSeen |-> NoUser, passwordSeen |-> NoPassword]

TypeOK ==
    /\ users \in [Ids -> UserRow]
    /\ passwords \in [Ids -> PasswordRow]
    /\ req \in [Slots -> Request]
    /\ overlapped \subseteq SUBSET Ids
    /\ raced \subseteq Ids

Init ==
    /\ users = [i \in Ids |-> NoUser]
    /\ passwords = [i \in Ids |-> NoPassword]
    /\ req = [s \in Slots |-> Idle]
    /\ overlapped = {}
    /\ raced = {}

-----------------------------------------------------------------------------
\* Mutant: the finds also see soft-deleted rows (withDeleted)
LiveOrDeleted(i) == users[i].state # "absent"

\* Mutant: Not() is missing, and the user is compared with itself
ExistsOnUpdateItself(e, i) == users[i].state = "live" /\ users[i].email = e

\* Queries.  A find sees no soft-deleted row.
Live(i) == users[i].state = "live"
FindOneByEmail(e) == {i \in Ids : Live(i) /\ users[i].email = e}
ExistsOnUpdate(e, i) == \E j \in Ids : j # i /\ Live(j) /\ users[j].email = e

\* The row that is left when a save writes the columns in which `entity'
\* differs from `seen' over the present row
Diff(entity, seen, present) ==
    [c \in DOMAIN present |-> IF entity[c] = seen[c] THEN present[c] ELSE entity[c]]

\* Requests in flight that still may write, and those that will delete
Writers == {s \in Slots : req[s].at \in WriterSteps}
Deleting(i) == \E s \in Slots : req[s].at = "deleteRemove" /\ req[s].id = i
Writing(i) == \E s \in Writers : req[s].id = i

\* History: a request that may write i takes off, beside the writers in flight
TakeOff(i) ==
    /\ overlapped' = overlapped \cup {{i, req[t].id} : t \in Writers}
    /\ raced' = IF Deleting(i) THEN raced \cup {i} ELSE raced

Begin(s, step, i, e, h, h0) ==
    req' = [req EXCEPT ![s] = [at |-> step, id |-> i, email |-> e, hash |-> h, old |-> h0,
                               userSeen |-> NoUser, passwordSeen |-> NoPassword]]
Continue(s, step) == req' = [req EXCEPT ![s].at = step]
Answer(s) == req' = [req EXCEPT ![s] = Idle]

-----------------------------------------------------------------------------
\* user-create.ts: the roles are found, the uuid drawn, no user has the email
CreateCheck(s, i, e, p) ==
    /\ req[s].at = "idle"
    /\ users[i].state = "absent"
    /\ \A t \in Slots : req[t].id # i
    /\ FindOneByEmail(e) = {}
    /\ Begin(s, "createSave", i, e, Hash(p), None)
    /\ TakeOff(i)
    /\ UNCHANGED <<users, passwords>>

\* Mutant: the password is stored as it came, without createPassword()
CreateSaveUnhashed(s) ==
    /\ req[s].at = "createSave"
    /\ LET i == req[s].id IN
        /\ users' = [users EXCEPT ![i] = [state |-> "live", email |-> req[s].email]]
        /\ passwords' = [passwords EXCEPT ![i] =
                             [state |-> "live", hash |-> req[s].hash.sha256]]
    /\ Answer(s)
    /\ UNCHANGED <<overlapped, raced>>

\* The insert of both rows, in one transaction (cascade: insert)
CreateSave(s) ==
    /\ req[s].at = "createSave"
    /\ LET i == req[s].id IN
        /\ users' = [users EXCEPT ![i] = [state |-> "live", email |-> req[s].email]]
        /\ passwords' = [passwords EXCEPT ![i] = [state |-> "live", hash |-> req[s].hash]]
    /\ Answer(s)
    /\ UNCHANGED <<overlapped, raced>>

\* user-update.ts: findOne({ id })
UpdateRead(s, i, e) ==
    /\ req[s].at = "idle"
    /\ Live(i)
    /\ Begin(s, "updateCheck", i, e, None, None)
    /\ TakeOff(i)
    /\ UNCHANGED <<users, passwords>>

\* Mutant: the answer of existsOnUpdate is not awaited
UpdateCheckBlind(s) ==
    /\ req[s].at = "updateCheck"
    /\ Continue(s, "updateLoad")
    /\ UNCHANGED <<users, passwords, overlapped, raced>>

\* 404 roleNotFound, 409 userExists, or on to the save
UpdateCheck(s) ==
    /\ req[s].at = "updateCheck"
    /\ \/ Answer(s)
       \/ /\ ~ ExistsOnUpdate(req[s].email, req[s].id)
          /\ Continue(s, "updateLoad")
    /\ UNCHANGED <<users, passwords, overlapped, raced>>

UpdateLoad(s) ==
    /\ req[s].at = "updateLoad"
    /\ req' = [req EXCEPT ![s].at = "updateCommit", ![s].userSeen = users[req[s].id]]
    /\ UNCHANGED <<users, passwords, overlapped, raced>>

\* The entity carries deletedAt: null from the read; it has no password
UpdateCommit(s) ==
    /\ req[s].at = "updateCommit"
    /\ LET i == req[s].id
           entity == [state |-> "live", email |-> req[s].email]
       IN  users' = [users EXCEPT ![i] = Diff(entity, req[s].userSeen, users[i])]
    /\ Continue(s, "updateReread")
    /\ UNCHANGED <<passwords, overlapped, raced>>

\* The second findOne: the entity, or a TypeError (500) on null
UpdateReread(s) ==
    /\ req[s].at = "updateReread"
    /\ Answer(s)
    /\ UNCHANGED <<users, passwords, overlapped, raced>>

\* Mutant: verifyPassword is not called
ChangePasswordUnverified(s, i, old, new) ==
    /\ req[s].at = "idle"
    /\ Live(i)
    /\ passwords[i].state = "live"
    /\ Begin(s, "changeLoadUser", i, users[i].email, Hash(new), Hash(old))
    /\ TakeOff(i)
    /\ UNCHANGED <<users, passwords>>

\* Mutant: the entity takes its e-mail from the body, as in user-update.ts
ChangePasswordFromBody(s, i, old, new) ==
    /\ req[s].at = "idle"
    /\ Live(i)
    /\ passwords[i] = [state |-> "live", hash |-> Hash(old)]
    /\ \E e \in Emails : Begin(s, "changeLoadUser", i, e, Hash(new), Hash(old))
    /\ TakeOff(i)
    /\ UNCHANGED <<users, passwords>>

\* user-change-password.ts: the user is found with its password row, the
\* hash of the password given equals the stored one (400 otherwise, 500 when
\* the password row is soft-deleted), and new and confirmation agree
ChangePasswordRead(s, i, old, new) ==
    /\ req[s].at = "idle"
    /\ Live(i)
    /\ passwords[i].state = "live"
    /\ passwords[i].hash = Hash(old)
    /\ Begin(s, "changeLoadUser", i, users[i].email, Hash(new), Hash(old))
    /\ TakeOff(i)
    /\ UNCHANGED <<users, passwords>>

\* The two SELECTs of the save, one per table
ChangePasswordLoadUser(s) ==
    /\ req[s].at = "changeLoadUser"
    /\ req' = [req EXCEPT ![s].at = "changeLoadPassword", ![s].userSeen = users[req[s].id]]
    /\ UNCHANGED <<users, passwords, overlapped, raced>>

ChangePasswordLoadPassword(s) ==
    /\ req[s].at = "changeLoadPassword"
    /\ req' = [req EXCEPT ![s].at = "changeCommit", ![s].passwordSeen = passwords[req[s].id]]
    /\ UNCHANGED <<users, passwords, overlapped, raced>>

ChangePasswordCommit(s) ==
    /\ req[s].at = "changeCommit"
    /\ LET i == req[s].id
           user == [state |-> "live", email |-> req[s].email]
           password == [state |-> "live", hash |-> req[s].hash]
       IN  /\ users' = [users EXCEPT ![i] = Diff(user, req[s].userSeen, users[i])]
           /\ passwords' = [passwords EXCEPT ![i] =
                                Diff(password, req[s].passwordSeen, passwords[i])]
    /\ Answer(s)
    /\ UNCHANGED <<overlapped, raced>>

\* user-delete.ts: a user whose password row is soft-deleted is refused (400:
\* the schema takes no null password)
DeleteRead(s, i) ==
    /\ req[s].at = "idle"
    /\ Live(i)
    /\ passwords[i].state = "live"
    /\ Begin(s, "deleteRemove", i, None, None, None)
    /\ raced' = IF Writing(i) THEN raced \cup {i} ELSE raced
    /\ UNCHANGED <<users, passwords, overlapped>>

\* Mutant: the relation to the password has no cascade
DeleteRemoveUserOnly(s) ==
    /\ req[s].at = "deleteRemove"
    /\ users' = [users EXCEPT ![req[s].id].state = "deleted"]
    /\ Answer(s)
    /\ UNCHANGED <<passwords, overlapped, raced>>

\* softRemove, with the cascade to the password row, in one transaction
DeleteRemove(s) ==
    /\ req[s].at = "deleteRemove"
    /\ LET i == req[s].id IN
        /\ users' = [users EXCEPT ![i].state = "deleted"]
        /\ passwords' = [passwords EXCEPT ![i].state = "deleted"]
    /\ Answer(s)
    /\ UNCHANGED <<overlapped, raced>>

\* The first query of an update, a password change or a delete finds no user:
\* 404 userNotFound
NotFound(s, i) ==
    /\ req[s].at = "idle"
    /\ ~ Live(i)
    /\ UNCHANGED vars

-----------------------------------------------------------------------------
Arrive(s) ==
    \E i \in Ids :
        \/ NotFound(s, i)
        \/ \E e \in Emails, p \in Passwords : CreateCheck(s, i, e, p)
        \/ \E e \in Emails : UpdateRead(s, i, e)
        \/ \E old, new \in Passwords : ChangePasswordRead(s, i, old, new)
        \/ DeleteRead(s, i)

Serve(s) ==
    \/ CreateSave(s)
    \/ UpdateCheck(s) \/ UpdateLoad(s) \/ UpdateCommit(s) \/ UpdateReread(s)
    \/ ChangePasswordLoadUser(s) \/ ChangePasswordLoadPassword(s)
    \/ ChangePasswordCommit(s)
    \/ DeleteRemove(s)

Next == \E s \in Slots : Arrive(s) \/ Serve(s)

Spec == Init /\ [][Next]_vars

-----------------------------------------------------------------------------
(***************************************************************************)
(* Nothing in the tables keeps two users from having one e-mail: only the  *)
(* lookup before the save does (user-create.ts:58, user-update.ts:44).     *)
(* What it achieves: two live users share an e-mail only when requests     *)
(* that write one and the other were once in flight together.              *)
(***************************************************************************)
EmailsUniqueUnlessOverlapped ==
    \A i, j \in Ids :
        i # j /\ Live(i) /\ Live(j) /\ users[i].email = users[j].email
            => {i, j} \in overlapped

(***************************************************************************)
(* A user and its password row are soft-deleted together and never         *)
(* separated, unless a delete of the user met an update or a password      *)
(* change of the same user (their saves write deletedAt: null back).       *)
(***************************************************************************)
PasswordFollowsUserUnlessRaced ==
    \A i \in Ids \ raced : users[i].state = passwords[i].state

(***************************************************************************)
(* A deleted user stays deleted, whatever requests come later (every find  *)
(* filters deletedAt), unless a delete of it met another writer of it.     *)
(***************************************************************************)
QuietDeleteIsFinal ==
    [][\A i \in Ids \ raced : users[i].state = "deleted"
                                => users'[i].state = "deleted"]_vars

(***************************************************************************)
(* A stored hash is replaced only by a request that presented the password *)
(* being replaced, although verification and save are four queries apart,  *)
(* unless two writers of that user overlapped.                             *)
(***************************************************************************)
OldPasswordWasVerified ==
    [][\A i \in Ids :
          passwords[i].state # "absent" /\ passwords'[i].hash # passwords[i].hash
              => \/ {i} \in overlapped
                 \/ \E s \in Slots : req[s].id = i /\ req[s].old = passwords[i].hash]_vars

(***************************************************************************)
(* Saving a whole user to change its password puts the e-mail back that    *)
(* was read with it.  It changes the e-mail of a live user only when       *)
(* another writer of that user overlapped: otherwise only an update does.  *)
(***************************************************************************)
EmailChangedByUpdate ==
    [][\A i \in Ids :
          Live(i) /\ users'[i].email # users[i].email
              => \/ {i} \in overlapped
                 \/ \E s \in Slots : req[s].id = i /\ req[s].at = "updateCommit"]_vars

-----------------------------------------------------------------------------
(***************************************************************************)
(* The inductive invariant behind the properties above (UsersProofs).      *)
(***************************************************************************)
ChangeSteps == {"changeLoadUser", "changeLoadPassword", "changeCommit"}

\* A request in flight is about a user; a create alone knows its uuid, and
\* has no row yet; the rows of the other writers are there
RequestsAreAboutUsers ==
    \A s \in Slots :
        /\ req[s].at # "idle" => req[s].id \in Ids
        /\ req[s].at = "createSave" =>
              /\ users[req[s].id].state = "absent"
              /\ passwords[req[s].id].state = "absent"
              /\ \A t \in Slots \ {s} : req[t].id # req[s].id
        /\ req[s].at \notin {"idle", "createSave"} => users[req[s].id].state # "absent"

RowsComeTogether ==
    \A i \in Ids : users[i].state = "absent" <=> passwords[i].state = "absent"

\* Writers in flight at the same time have been noted as such
OverlapIsNoted ==
    \A s, t \in Writers : s # t => {req[s].id, req[t].id} \in overlapped

\* What a writer of i may leave in row i is the e-mail of no live user whose
\* writers it has not met
WritersHoldFreeEmails ==
    \A s \in Writers : \A j \in Ids :
        LET i == req[s].id IN
        j # i /\ Live(j) /\ {i, j} \notin overlapped =>
            /\ req[s].at # "createSave" => users[i].email # users[j].email
            /\ req[s].at # "updateCheck" => req[s].email # users[j].email

\* A writer that has met no delete of its user has it live
WritersHaveLiveUsers ==
    \A s \in Writers :
        /\ Deleting(req[s].id) => req[s].id \in raced
        /\ req[s].at # "createSave" /\ req[s].id \notin raced => Live(req[s].id)

\* A password change alone with its user holds the rows as they are
LoneChangeIsUpToDate ==
    \A s \in Slots :
        LET i == req[s].id IN
        req[s].at \in ChangeSteps /\ {i} \notin overlapped =>
            /\ req[s].old = passwords[i].hash
            /\ req[s].email = users[i].email

UsersInv ==
    /\ TypeOK
    /\ RequestsAreAboutUsers
    /\ RowsComeTogether
    /\ OverlapIsNoted
    /\ EmailsUniqueUnlessOverlapped
    /\ WritersHoldFreeEmails
    /\ PasswordFollowsUserUnlessRaced
    /\ WritersHaveLiveUsers
    /\ LoneChangeIsUpToDate
=============================================================================
