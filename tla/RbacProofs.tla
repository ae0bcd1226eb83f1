----------------------------- MODULE RbacProofs -----------------------------
(***************************************************************************)
(* Proofs about Rbac, for every set of roles, permissions, names and       *)
(* slots.  RbacInv is inductive; the properties follow from it.            *)
(***************************************************************************)
EXTENDS Rbac, TLAPS

\* A save of a row leaves, column by column, the entity's value or the present one
LEMMA DiffPermission ==
    ASSUME NEW n \in Names, NEW y \in PermissionRow, NEW z \in PermissionRow
    PROVE  LET d == Diff([state |-> "live", name |-> n], y, z) IN
           /\ d \in PermissionRow
           /\ d.state = (IF y.state = "live" THEN z.state ELSE "live")
           /\ d.name = (IF y.name = n THEN z.name ELSE n)
<1> DEFINE d == Diff([state |-> "live", name |-> n], y, z)
<1>1. d = [state |-> IF y.state = "live" THEN z.state ELSE "live",
           name |-> IF y.name = n THEN z.name ELSE n]
    BY DEF Diff, PermissionRow
<1> HIDE DEF d
<1>2. d \in PermissionRow /\ d.state = (IF y.state = "live" THEN z.state ELSE "live")
        /\ d.name = (IF y.name = n THEN z.name ELSE n)
    BY <1>1 DEF PermissionRow, State
<1> QED
    BY <1>2 DEF d

\* ... and a save of a role leaves it live, or as it was when it was read live
LEMMA DiffRole ==
    ASSUME NEW x \in State, NEW y \in State
    PROVE  Diff([state |-> "live"], [state |-> x], [state |-> y]).state
                = (IF x = "live" THEN y ELSE "live")
    BY DEF Diff

LEMMA IdleIsARequest == Idle \in Request /\ NoRow \in PermissionRow
    BY DEF Idle, Request, Steps, NoRow, PermissionRow, State

-----------------------------------------------------------------------------
\* What the history says of the requests after a step
LEMMA NoteFacts ==
    ASSUME TypeOK, req' \in [Slots -> Request], Note
    PROVE  /\ contended' \subseteq Roles \cup Perms
           /\ contended \subseteq contended'
           /\ ContentionIsNoted'
<1>1. contended' \subseteq Roles \cup Perms /\ contended \subseteq contended'
    BY DEF Note, TypeOK
<1>2. \A s \in Slots : Edits(req[s])' \subseteq Roles \cup Perms
    BY DEF Edits, Request
<1>3. ContentionIsNoted'
    BY <1>2 DEF ContentionIsNoted, Note
<1> QED
    BY <1>1, <1>3

\* A request that a step leaves alone is as sound as before
LEMMA RequestKept ==
    ASSUME NEW s \in Slots, RequestInv(s), req'[s] = req[s], UNCHANGED tables,
           contended \subseteq contended'
    PROVE  RequestInv(s)'
<1> USE DEF RequestInv, tables
<1>1. RequestIsComplete(s)'
    BY DEF RequestIsComplete
<1>2. ItemsAreUpToDate(s)'
    BY DEF ItemsAreUpToDate
<1>3. SaverIsCurrent(s)'
    BY DEF SaverIsCurrent, LiveRole, Live
<1>4. OnlyTheNamedAreDropped(s)'
    BY DEF OnlyTheNamedAreDropped
<1>5. WriterIsCurrent(s)'
    BY DEF WriterIsCurrent
<1> QED
    BY <1>1, <1>2, <1>3, <1>4, <1>5

\* A free slot asks for nothing
LEMMA IdleIsSound ==
    ASSUME NEW s \in Slots, req[s] = Idle
    PROVE  RequestInv(s)
    BY DEF RequestInv, RequestIsComplete, ItemsAreUpToDate, SaverIsCurrent,
           OnlyTheNamedAreDropped, WriterIsCurrent, Idle, RoleSteps, SaveSteps, PermissionSteps

\* A step of one request that writes no row has to leave that request sound,
\* with no more new permissions than are free
LEMMA QuietStep ==
    ASSUME RbacInv, NEW s \in Slots, UNCHANGED tables, Note,
           req' \in [Slots -> Request], \A t \in Slots \ {s} : req'[t] = req[t],
           contended \subseteq contended' => RequestInv(s)',
           \A p \in Ids(req'[s].items) :
                p \in Ids(req[s].items) \/ Fresh(p) \/ permissions[p].state # "absent"
    PROVE  RbacInv'
<1> USE DEF RbacInv
<1>1. contended' \subseteq Roles \cup Perms /\ contended \subseteq contended' /\ ContentionIsNoted'
    BY NoteFacts
<1>2. TypeOK'
    BY <1>1 DEF TypeOK, tables
<1>3. RowsAreNamed'
    BY DEF RowsAreNamed, tables
<1>4. NewPermissionsHaveOneHolder'
  <2> SUFFICES ASSUME NEW p \in Perms, permissions[p].state = "absent",
                      NEW t \in Slots, NEW u \in Slots, t # u,
                      p \in Ids(req'[t].items), p \in Ids(req'[u].items)
               PROVE  FALSE
    BY DEF NewPermissionsHaveOneHolder, tables, Ids
  <2>1. \A v \in Slots : Fresh(p) => p \notin Ids(req[v].items)
    BY DEF Fresh, Uses
  <2> QED
    BY <2>1 DEF NewPermissionsHaveOneHolder
<1>5. GrantsJoinLiveRowsUnlessContended'
    BY <1>1 DEF GrantsJoinLiveRowsUnlessContended, LiveRole, Live, tables
<1>6. \A t \in Slots : RequestInv(t)'
    BY <1>1, RequestKept
<1> QED
    BY <1>1, <1>2, <1>3, <1>4, <1>5, <1>6

\* A request that is answered leaves its slot alone
LEMMA AnswerFacts ==
    ASSUME TypeOK, NEW s \in Slots, Answer(s)
    PROVE  /\ req' \in [Slots -> Request]
           /\ req'[s] = Idle
           /\ \A t \in Slots \ {s} : req'[t] = req[t]
    BY IdleIsARequest DEF Answer, TypeOK

\* A request that starts has its slot to itself
LEMMA BeginFacts ==
    ASSUME TypeOK, NEW s \in Slots, NEW request \in Request, Begin(s, request)
    PROVE  /\ req' \in [Slots -> Request]
           /\ req'[s] = request
           /\ \A t \in Slots \ {s} : req'[t] = req[t]
    BY DEF Begin, TypeOK

\* What a find returns is entities of live rows, with the names they have
LEMMA JoinFacts ==
    ASSUME TypeOK, RowsAreNamed, NEW S \in SUBSET {q \in Perms : Live(q)}, NEW J,
           J = {[id |-> p, name |-> permissions[p].name] : p \in S}
    PROVE  /\ J \in SUBSET Item
           /\ \A x \in J : x.id \in S /\ Live(x.id) /\ x.name = permissions[x.id].name
           /\ S \subseteq Ids(J)
<1>1. ASSUME NEW x \in J
      PROVE  x \in Item /\ x.id \in S /\ Live(x.id) /\ x.name = permissions[x.id].name
  <2> PICK p \in S : x = [id |-> p, name |-> permissions[p].name]
    OBVIOUS
  <2>1. permissions[p].name \in Names
    BY DEF RowsAreNamed, Live, NoRow
  <2> QED
    BY <2>1 DEF Item
<1>2. ASSUME NEW p \in S PROVE p \in Ids(J)
  <2> DEFINE x == [id |-> p, name |-> permissions[p].name]
  <2>1. x \in J /\ x.id = p
    OBVIOUS
  <2> QED
    BY <2>1 DEF Ids
<1> QED
    BY <1>1, <1>2

\* Reading a role with its permissions, and looking permissions up by name
LEMMA FindFacts ==
    ASSUME TypeOK, RowsAreNamed
    PROVE  /\ \A r \in Roles :
                /\ PermissionsOf(r) \in SUBSET Item
                /\ \A x \in PermissionsOf(r) : Live(x.id) /\ x.name = permissions[x.id].name
                /\ \A p \in Perms : <<r, p>> \in granted /\ Live(p) => p \in Ids(PermissionsOf(r))
           /\ \A wanted :
                /\ FindIn(wanted) \in SUBSET Item
                /\ \A x \in FindIn(wanted) :
                      /\ Live(x.id) /\ x.name = permissions[x.id].name
                      /\ [name |-> x.name, canonical |-> TRUE] \in wanted
<1>1. ASSUME NEW r \in Roles
      PROVE  /\ PermissionsOf(r) \in SUBSET Item
             /\ \A x \in PermissionsOf(r) : Live(x.id) /\ x.name = permissions[x.id].name
             /\ \A p \in Perms : <<r, p>> \in granted /\ Live(p) => p \in Ids(PermissionsOf(r))
  <2> DEFINE S == {q \in Perms : <<r, q>> \in granted /\ Live(q)}
  <2>1. S \in SUBSET {q \in Perms : Live(q)}
    OBVIOUS
  <2>2. PermissionsOf(r) = {[id |-> p, name |-> permissions[p].name] : p \in S}
    BY DEF PermissionsOf
  <2>3. \A p \in Perms : <<r, p>> \in granted /\ Live(p) => p \in S
    OBVIOUS
  <2> HIDE DEF S
  <2>4. /\ PermissionsOf(r) \in SUBSET Item
        /\ \A x \in PermissionsOf(r) : Live(x.id) /\ x.name = permissions[x.id].name
        /\ S \subseteq Ids(PermissionsOf(r))
    BY <2>1, <2>2, JoinFacts
  <2> QED
    BY <2>3, <2>4
<1>2. ASSUME NEW wanted
      PROVE  /\ FindIn(wanted) \in SUBSET Item
             /\ \A x \in FindIn(wanted) :
                   /\ Live(x.id) /\ x.name = permissions[x.id].name
                   /\ [name |-> x.name, canonical |-> TRUE] \in wanted
  <2> DEFINE S == {q \in Perms : Live(q) /\ [name |-> permissions[q].name, canonical |-> TRUE] \in wanted}
  <2>1. S \in SUBSET {q \in Perms : Live(q)}
    OBVIOUS
  <2>2. FindIn(wanted) = {[id |-> p, name |-> permissions[p].name] : p \in S}
    BY DEF FindIn
  <2>3. \A x \in FindIn(wanted) : x.id \in S /\ Live(x.id) /\ x.name = permissions[x.id].name
    BY <2>1, <2>2, JoinFacts
  <2> QED
    BY <2>1, <2>2, <2>3, JoinFacts
<1> QED
    BY <1>1, <1>2

-----------------------------------------------------------------------------
\* The invariant is kept by a request that reads a role: to update it ...
LEMMA RoleUpdateReadInv ==
    ASSUME RbacInv, NEW s \in Slots, NEW r \in Roles, RoleUpdateRead(s, r), Note
    PROVE  RbacInv'
<1> DEFINE request == [Idle EXCEPT !.at = "roleUpdate", !.role = r]
<1>1. request \in Request /\ request.at = "roleUpdate" /\ request.role = r /\ request.items = {}
    BY IdleIsARequest DEF Request, Idle, Steps, RoleSteps
<1>2. /\ req' \in [Slots -> Request] /\ req'[s] = request
      /\ \A t \in Slots \ {s} : req'[t] = req[t]
    BY <1>1, BeginFacts DEF RoleUpdateRead, RbacInv
<1> HIDE DEF request
<1>3. RequestInv(s)'
    BY <1>1, <1>2 DEF RequestInv, RequestIsComplete, ItemsAreUpToDate, SaverIsCurrent,
                      OnlyTheNamedAreDropped, WriterIsCurrent, SaveSteps, PermissionSteps
<1> QED
    BY <1>1, <1>2, <1>3, QuietStep DEF RoleUpdateRead, Ids

\* ... to delete it ...
LEMMA RoleDeleteReadInv ==
    ASSUME RbacInv, NEW s \in Slots, NEW r \in Roles, RoleDeleteRead(s, r), Note
    PROVE  RbacInv'
<1> DEFINE request == [Idle EXCEPT !.at = "roleDelete", !.role = r]
<1>1. request \in Request /\ request.at = "roleDelete" /\ request.role = r /\ request.items = {}
    BY IdleIsARequest DEF Request, Idle, Steps, RoleSteps
<1>2. /\ req' \in [Slots -> Request] /\ req'[s] = request
      /\ \A t \in Slots \ {s} : req'[t] = req[t]
    BY <1>1, BeginFacts DEF RoleDeleteRead, RbacInv
<1> HIDE DEF request
<1>3. \A p \in Perms \ contended : r \notin contended => <<r, p>> \notin granted
    BY DEF RoleDeleteRead, PermissionsOf, RbacInv, GrantsJoinLiveRowsUnlessContended
<1>4. contended \subseteq contended' => RequestInv(s)'
    BY <1>1, <1>2, <1>3
       DEF RequestInv, RequestIsComplete, ItemsAreUpToDate, SaverIsCurrent, RoleDeleteRead,
           OnlyTheNamedAreDropped, WriterIsCurrent, SaveSteps, PermissionSteps, tables
<1> QED
    BY <1>1, <1>2, <1>4, QuietStep DEF RoleDeleteRead, Ids

\* ... to grant it permissions, or to revoke some
LEMMA ListReadInv ==
    ASSUME RbacInv, NEW s \in Slots, NEW r \in Roles, NEW wanted \in Wishes,
           GrantRead(s, r, wanted) \/ RevokeRead(s, r, wanted), Note
    PROVE  RbacInv'
<1> DEFINE request(step) == [Idle EXCEPT !.at = step, !.role = r, !.wanted = wanted,
                                         !.items = PermissionsOf(r)]
<1> PICK step \in {"grantFind", "revokeFind"} : Begin(s, request(step))
    BY DEF GrantRead, RevokeRead
<1>1. LiveRole(r) /\ UNCHANGED tables
    BY DEF GrantRead, RevokeRead
<1>2. /\ request(step) \in Request /\ request(step).at = step /\ request(step).role = r
      /\ request(step).items = PermissionsOf(r)
    BY IdleIsARequest, FindFacts DEF Request, Idle, Steps, RoleSteps, SaveSteps, Wishes, RbacInv
<1>3. /\ req' \in [Slots -> Request] /\ req'[s] = request(step)
      /\ \A t \in Slots \ {s} : req'[t] = req[t]
    BY <1>2, BeginFacts DEF RbacInv
<1> HIDE DEF request
<1>4. \A x \in PermissionsOf(r) : Live(x.id) /\ x.name = permissions[x.id].name
    BY FindFacts DEF RbacInv
<1>5. \A p \in Perms \ contended :
        r \notin contended /\ <<r, p>> \in granted => p \in Ids(PermissionsOf(r))
    BY FindFacts DEF RbacInv, GrantsJoinLiveRowsUnlessContended
<1>6. ASSUME contended \subseteq contended' PROVE RequestInv(s)'
  <2>1. RequestIsComplete(s)' /\ WriterIsCurrent(s)'
    BY <1>2, <1>3 DEF RequestIsComplete, WriterIsCurrent, PermissionSteps
  <2>2. ItemsAreUpToDate(s)'
    BY <1>1, <1>2, <1>3, <1>4 DEF ItemsAreUpToDate, tables
  <2>3. SaverIsCurrent(s)'
    BY <1>1, <1>2, <1>3 DEF SaverIsCurrent, LiveRole, tables
  <2>4. OnlyTheNamedAreDropped(s)'
    BY <1>1, <1>2, <1>3, <1>5, <1>6 DEF OnlyTheNamedAreDropped, tables, Ids
  <2> QED
    BY <2>1, <2>2, <2>3, <2>4 DEF RequestInv
<1>7. \A p \in Ids(req'[s].items) : permissions[p].state # "absent"
    BY <1>2, <1>3, <1>4 DEF Ids, Live
<1> QED
    BY <1>1, <1>3, <1>6, <1>7, QuietStep

-----------------------------------------------------------------------------
\* The invariant is kept by a grant that looks up what it is to add ...
LEMMA GrantFindInv ==
    ASSUME RbacInv, NEW s \in Slots, GrantFind(s), Note
    PROVE  RbacInv'
<1> DEFINE q == req[s]
           found == FindIn(q.wanted)
           associated == {x.name : x \in q.items}
           missing == {w \in q.wanted : ~ w.canonical \/ \A x \in found : x.name # w.name}
           kept == {x \in found : x.name \notin associated}
           created(id) == {[id |-> id[w], name |-> w.name] : w \in missing}
           items(id) == q.items \cup kept \cup created(id)
<1> PICK id \in Injection(missing, {p \in Perms : Fresh(p)}) :
        req' = [req EXCEPT ![s].at = "saveLoadRole", ![s].items = items(id)]
    BY DEF GrantFind
<1>1. q.at = "grantFind" /\ UNCHANGED tables
    BY DEF GrantFind
<1>2. q \in Request /\ q.wanted \subseteq Spelling
    BY DEF RbacInv, TypeOK, Request
<1>3. \A w \in missing : w \in Spelling /\ id[w] \in Perms /\ Fresh(id[w])
    BY <1>2 DEF Injection, IsInjective
<1>4. ASSUME NEW x \in created(id)
      PROVE  x \in Item /\ Fresh(x.id)
  <2> PICK w \in missing : x = [id |-> id[w], name |-> w.name]
    OBVIOUS
  <2> HIDE DEF missing
  <2> QED
    BY <1>3 DEF Item, Spelling
<1>5. \A x \in kept : x \in Item /\ Live(x.id) /\ x.name = permissions[x.id].name
    BY FindFacts DEF RbacInv
<1> HIDE DEF kept, created, missing, found, associated
<1>6. items(id) \in SUBSET Item
    BY <1>2, <1>4, <1>5 DEF Request
<1>7. /\ req' \in [Slots -> Request]
      /\ req'[s].at = "saveLoadRole" /\ req'[s].items = items(id)
      /\ req'[s].role = q.role /\ req'[s].perm = q.perm /\ req'[s].name = q.name
      /\ req'[s].wanted = q.wanted
      /\ \A t \in Slots \ {s} : req'[t] = req[t]
    BY <1>6 DEF RbacInv, TypeOK, Request, Steps, RoleSteps, SaveSteps
<1>8. ASSUME contended \subseteq contended' PROVE RequestInv(s)'
  <2> USE DEF RbacInv, RequestInv
  <2>1. RequestIsComplete(s)' /\ WriterIsCurrent(s)'
    BY <1>1, <1>7 DEF RequestIsComplete, WriterIsCurrent, PermissionSteps, RoleSteps, SaveSteps
  <2>2. ItemsAreUpToDate(s)'
    BY <1>1, <1>4, <1>5, <1>7, <1>8 DEF ItemsAreUpToDate, Fresh, tables
  <2>3. SaverIsCurrent(s)'
    BY <1>1, <1>7, <1>8 DEF SaverIsCurrent, SaveSteps, LiveRole, tables
  <2>4. OnlyTheNamedAreDropped(s)'
    BY <1>1, <1>7, <1>8 DEF OnlyTheNamedAreDropped, SaveSteps, tables, Ids
  <2> QED
    BY <2>1, <2>2, <2>3, <2>4
<1>9. \A p \in Ids(req'[s].items) :
        p \in Ids(req[s].items) \/ Fresh(p) \/ permissions[p].state # "absent"
    BY <1>4, <1>5, <1>7 DEF Ids, Live
<1> QED
    BY <1>1, <1>7, <1>8, <1>9, QuietStep

\* ... by a revocation that takes what it found off the list ...
LEMMA RevokeFindInv ==
    ASSUME RbacInv, NEW s \in Slots, RevokeFind(s), Note
    PROVE  RbacInv'
<1> DEFINE q == req[s]
           found == {x.name : x \in FindIn(q.wanted)}
           items == {x \in q.items : x.name \notin found}
<1>1. /\ q.at = "revokeFind" /\ UNCHANGED tables
      /\ req' = [req EXCEPT ![s].at = "saveLoadRole", ![s].items = items]
    BY DEF RevokeFind
<1>2. \A n \in found : [name |-> n, canonical |-> TRUE] \in q.wanted
    BY FindFacts DEF RbacInv
<1>3. q \in Request /\ items \in SUBSET Item
    BY DEF RbacInv, TypeOK, Request
<1>4. \A x \in q.items : x \notin items => x.name \in found
    OBVIOUS
<1> HIDE DEF found
<1>5. /\ req' \in [Slots -> Request]
      /\ req'[s].at = "saveLoadRole" /\ req'[s].items = items
      /\ req'[s].role = q.role /\ req'[s].perm = q.perm /\ req'[s].name = q.name
      /\ req'[s].wanted = q.wanted
      /\ \A t \in Slots \ {s} : req'[t] = req[t]
    BY <1>1, <1>3 DEF RbacInv, TypeOK, Request, Steps, RoleSteps, SaveSteps
<1>6. ASSUME contended \subseteq contended' PROVE RequestInv(s)'
  <2> USE DEF RbacInv, RequestInv
  <2>1. RequestIsComplete(s)' /\ WriterIsCurrent(s)'
    BY <1>1, <1>5 DEF RequestIsComplete, WriterIsCurrent, PermissionSteps, RoleSteps, SaveSteps
  <2>2. ItemsAreUpToDate(s)'
    BY <1>1, <1>5, <1>6 DEF ItemsAreUpToDate, tables
  <2>3. SaverIsCurrent(s)'
    BY <1>1, <1>5, <1>6 DEF SaverIsCurrent, SaveSteps, LiveRole, tables
  <2>4. ASSUME NEW p \in Perms \ contended, <<q.role, p>> \in granted, q.role \notin contended,
               p \notin Ids(items)
        PROVE  [name |-> permissions[p].name, canonical |-> TRUE] \in q.wanted
    <3>1. PICK x \in q.items : x.id = p
      BY <1>1, <2>4 DEF OnlyTheNamedAreDropped, SaveSteps, Ids
    <3>2. x.name \in found
      BY <1>4, <2>4, <3>1 DEF Ids
    <3>3. x.name = permissions[p].name
      BY <2>4, <3>1, <1>1
         DEF ItemsAreUpToDate, GrantsJoinLiveRowsUnlessContended, Live, RequestIsComplete, RoleSteps, SaveSteps
    <3> QED
      BY <1>2, <3>2, <3>3
  <2>5. OnlyTheNamedAreDropped(s)'
    BY <1>1, <1>5, <1>6, <2>4 DEF OnlyTheNamedAreDropped, tables
  <2> QED
    BY <2>1, <2>2, <2>3, <2>5
<1>7. Ids(req'[s].items) \subseteq Ids(req[s].items)
    BY <1>5 DEF Ids
<1> QED
    BY <1>1, <1>5, <1>6, <1>7, QuietStep

\* ... and by the two queries of their save: what they select is written
\* down, the permissions as they are at that moment
LEMMA SaveLoadStep ==
    ASSUME RbacInv, NEW s \in Slots, UNCHANGED tables, Note,
           req[s].at \in {"saveLoadRole", "saveLoadPermissions"},
           req' \in [Slots -> Request], \A t \in Slots \ {s} : req'[t] = req[t],
           req'[s].at \in {"saveLoadPermissions", "saveCommit"},
           req'[s].role = req[s].role, req'[s].wanted = req[s].wanted, req'[s].items = req[s].items,
           req'[s].at = "saveCommit" => \A p \in Perms :
                \/ req'[s].rowsSeen[p] = NoRow
                \/ p \in Ids(req[s].items) /\ req'[s].rowsSeen[p] = permissions[p]
    PROVE  RbacInv'
<1> USE DEF RbacInv, RequestInv
<1>1. ASSUME contended \subseteq contended' PROVE RequestInv(s)'
  <2>1. RequestIsComplete(s)' /\ WriterIsCurrent(s)'
    BY DEF RequestIsComplete, WriterIsCurrent, PermissionSteps, RoleSteps, SaveSteps
  <2>2. ItemsAreUpToDate(s)'
    BY <1>1 DEF ItemsAreUpToDate, tables
  <2>3. SaverIsCurrent(s)'
    BY <1>1
       DEF SaverIsCurrent, SaveSteps, LiveRole, Live, RowsAreNamed, NoRow, tables, Ids
  <2>4. OnlyTheNamedAreDropped(s)'
    BY <1>1 DEF OnlyTheNamedAreDropped, SaveSteps, tables
  <2> QED
    BY <2>1, <2>2, <2>3, <2>4
<1> QED
    BY <1>1, QuietStep

LEMMA SaveLoadRoleInv ==
    ASSUME RbacInv, NEW s \in Slots, SaveLoadRole(s), Note
    PROVE  RbacInv'
<1> DEFINE present == {p \in Perms : <<req[s].role, p>> \in granted}
<1> PICK held \in SUBSET Perms :
        req' = [req EXCEPT ![s].at = "saveLoadPermissions",
                           ![s].roleSeen = roles[req[s].role], ![s].grantsSeen = held]
    BY DEF SaveLoadRole
<1>1. req[s].at = "saveLoadRole" /\ UNCHANGED tables
    BY DEF SaveLoadRole
<1>2. req[s] \in Request /\ roles[req[s].role] \in State
    BY <1>1 DEF RbacInv, RequestInv, RequestIsComplete, TypeOK, Request, RoleSteps, SaveSteps
<1>3. /\ req' \in [Slots -> Request] /\ \A t \in Slots \ {s} : req'[t] = req[t]
      /\ req'[s].at = "saveLoadPermissions"
      /\ req'[s].role = req[s].role /\ req'[s].wanted = req[s].wanted /\ req'[s].items = req[s].items
    BY <1>2 DEF RbacInv, TypeOK, Request, Steps, RoleSteps, SaveSteps
<1> QED
    BY <1>1, <1>3, SaveLoadStep

LEMMA SaveLoadPermissionsInv ==
    ASSUME RbacInv, NEW s \in Slots, SaveLoadPermissions(s), Note
    PROVE  RbacInv'
<1> DEFINE seen == [p \in Perms |-> IF p \in Ids(req[s].items) THEN permissions[p] ELSE NoRow]
<1>1. /\ req[s].at = "saveLoadPermissions" /\ UNCHANGED tables
      /\ req' = [req EXCEPT ![s].at = "saveCommit", ![s].rowsSeen = seen]
    BY DEF SaveLoadPermissions
<1>2. /\ seen \in [Perms -> PermissionRow]
      /\ \A p \in Perms : seen[p] = NoRow \/ (p \in Ids(req[s].items) /\ seen[p] = permissions[p])
    BY IdleIsARequest DEF RbacInv, TypeOK
<1> HIDE DEF seen
<1>3. req[s] \in Request
    BY DEF RbacInv, TypeOK
<1>4. /\ req' \in [Slots -> Request] /\ \A t \in Slots \ {s} : req'[t] = req[t]
      /\ req'[s].at = "saveCommit" /\ req'[s].rowsSeen = seen
      /\ req'[s].role = req[s].role /\ req'[s].wanted = req[s].wanted /\ req'[s].items = req[s].items
    BY <1>1, <1>2, <1>3 DEF RbacInv, TypeOK, Request, Steps, RoleSteps, SaveSteps
<1> QED
    BY <1>1, <1>2, <1>4, SaveLoadStep

-----------------------------------------------------------------------------
\* The invariant is kept by the requests about one permission: a create ...
LEMMA PermissionCreateCheckInv ==
    ASSUME RbacInv, NEW s \in Slots, NEW p \in Perms, NEW n \in Names,
           PermissionCreateCheck(s, p, n), Note
    PROVE  RbacInv'
<1> DEFINE request == [Idle EXCEPT !.at = "permissionCreate", !.perm = p, !.name = n]
<1>1. /\ request \in Request /\ request.at = "permissionCreate" /\ request.perm = p
      /\ request.name = n /\ request.items = {}
    BY IdleIsARequest DEF Request, Idle, Steps
<1>2. /\ req' \in [Slots -> Request] /\ req'[s] = request
      /\ \A t \in Slots \ {s} : req'[t] = req[t]
    BY <1>1, BeginFacts DEF PermissionCreateCheck, RbacInv
<1> HIDE DEF request
<1>3. RequestInv(s)'
    BY <1>1, <1>2
       DEF RequestInv, RequestIsComplete, ItemsAreUpToDate, SaverIsCurrent, OnlyTheNamedAreDropped,
           WriterIsCurrent, PermissionCreateCheck, Fresh, RoleSteps, SaveSteps, tables
<1> QED
    BY <1>1, <1>2, <1>3, QuietStep DEF PermissionCreateCheck, Ids

\* ... an update, with its check of the new name ...
LEMMA PermissionUpdateReadInv ==
    ASSUME RbacInv, NEW s \in Slots, NEW p \in Perms, NEW n \in Names \cup {None},
           PermissionUpdateRead(s, p, n), Note
    PROVE  RbacInv'
<1> DEFINE step == IF n = None THEN "permissionUpdate" ELSE "permissionCheck"
           name == IF n = None THEN permissions[p].name ELSE n
           request == [Idle EXCEPT !.at = step, !.perm = p, !.name = name]
<1>1. step \in {"permissionUpdate", "permissionCheck"} /\ name \in Names
    BY DEF PermissionUpdateRead, Live, RbacInv, RowsAreNamed, NoRow
<1> HIDE DEF name, step
<1>2. /\ request \in Request /\ request.at = step /\ request.perm = p
      /\ request.name = name /\ request.items = {}
    BY <1>1, IdleIsARequest DEF Request, Idle, Steps, PermissionSteps
<1>3. Begin(s, request) /\ UNCHANGED tables
    BY DEF PermissionUpdateRead, name, step
<1> HIDE DEF request
<1>4. /\ req' \in [Slots -> Request] /\ req'[s] = request
      /\ \A t \in Slots \ {s} : req'[t] = req[t]
    BY <1>2, <1>3, BeginFacts DEF RbacInv
<1>5. RequestInv(s)'
    BY <1>1, <1>2, <1>4
       DEF RequestInv, RequestIsComplete, ItemsAreUpToDate, SaverIsCurrent, OnlyTheNamedAreDropped,
           WriterIsCurrent, RoleSteps, SaveSteps
<1> QED
    BY <1>2, <1>3, <1>4, <1>5, QuietStep DEF Ids

LEMMA PermissionCheckInv ==
    ASSUME RbacInv, NEW s \in Slots, PermissionCheck(s), Note
    PROVE  RbacInv'
<1> USE DEF RbacInv
<1>1. /\ req[s].at = "permissionCheck" /\ UNCHANGED tables
      /\ req' = [req EXCEPT ![s].at = "permissionUpdate"]
    BY DEF PermissionCheck, Continue
<1>2. /\ req' \in [Slots -> Request]
      /\ req'[s].at = "permissionUpdate" /\ req'[s].perm = req[s].perm
      /\ req'[s].name = req[s].name /\ req'[s].items = req[s].items
      /\ \A t \in Slots \ {s} : req'[t] = req[t]
    BY <1>1 DEF TypeOK, Request, Steps, PermissionSteps
<1>3. contended \subseteq contended' => RequestInv(s)'
    BY <1>1, <1>2
       DEF RequestInv, RequestIsComplete, ItemsAreUpToDate, SaverIsCurrent, OnlyTheNamedAreDropped,
           WriterIsCurrent, RoleSteps, SaveSteps, PermissionSteps, tables
<1> QED
    BY <1>1, <1>2, <1>3, QuietStep

\* ... a delete ...
LEMMA PermissionDeleteReadInv ==
    ASSUME RbacInv, NEW s \in Slots, NEW p \in Perms, PermissionDeleteRead(s, p), Note
    PROVE  RbacInv'
<1> DEFINE request == [Idle EXCEPT !.at = "permissionDelete", !.perm = p,
                                   !.name = permissions[p].name]
<1>1. permissions[p].name \in Names /\ permissions[p].state # "absent"
    BY DEF PermissionDeleteRead, Live, RbacInv, RowsAreNamed, NoRow
<1>2. /\ request \in Request /\ request.at = "permissionDelete" /\ request.perm = p
      /\ request.name = permissions[p].name /\ request.items = {}
    BY <1>1, IdleIsARequest DEF Request, Idle, Steps, PermissionSteps
<1>3. Begin(s, request) /\ UNCHANGED tables
    BY DEF PermissionDeleteRead
<1> HIDE DEF request
<1>4. /\ req' \in [Slots -> Request] /\ req'[s] = request
      /\ \A t \in Slots \ {s} : req'[t] = req[t]
    BY <1>2, <1>3, BeginFacts DEF RbacInv
<1>5. \A r \in Roles \ contended : p \notin contended => <<r, p>> \notin granted
    BY DEF PermissionDeleteRead, RolesOf, RbacInv, GrantsJoinLiveRowsUnlessContended
<1>6. contended \subseteq contended' => RequestInv(s)'
    BY <1>1, <1>2, <1>3, <1>4, <1>5
       DEF RequestInv, RequestIsComplete, ItemsAreUpToDate, SaverIsCurrent, OnlyTheNamedAreDropped,
           WriterIsCurrent, RoleSteps, SaveSteps, tables
<1> QED
    BY <1>2, <1>3, <1>4, <1>6, QuietStep DEF Ids

\* ... and one that ends with nothing written
LEMMA AbortInv ==
    ASSUME RbacInv, NEW s \in Slots, Abort(s), Note
    PROVE  RbacInv'
<1>1. /\ req' \in [Slots -> Request] /\ req'[s] = Idle
      /\ \A t \in Slots \ {s} : req'[t] = req[t] /\ UNCHANGED tables
    BY AnswerFacts DEF Abort, RbacInv
<1>2. (req[s] = Idle)' => RequestInv(s)'
    BY IdleIsSound, PTL
<1> QED
    BY <1>1, <1>2, QuietStep DEF Abort, Ids, Idle

LEMMA NotFoundInv ==
    ASSUME RbacInv, NEW s \in Slots, NotFound(s), Note
    PROVE  RbacInv'
<1>1. req' = req /\ req \in [Slots -> Request] /\ UNCHANGED tables
    BY DEF NotFound, RbacInv, TypeOK
<1>2. contended \subseteq contended' => RequestInv(s)'
    BY <1>1, RequestKept DEF RbacInv
<1> QED
    BY <1>1, <1>2, QuietStep

-----------------------------------------------------------------------------
\* What a request edits, no other request uses, unless that is noted
LEMMA NobodyElse ==
    ASSUME TypeOK, ContentionIsNoted, NEW s \in Slots, NEW t \in Slots, s # t
    PROVE  /\ req[s].role \in Roles \ contended => req[t].role # req[s].role
           /\ req[s].perm \in Perms \ contended =>
                /\ req[t].perm # req[s].perm /\ req[s].perm \notin Ids(req[t].items)
                /\ req[t].at \in SaveSteps => <<req[t].role, req[s].perm>> \notin granted
<1>1. req[s].role \in Roles => req[s].role \in Edits(req[s])
    BY RowsAreApart DEF Edits
<1>2. req[s].perm \in Perms => req[s].perm \in Edits(req[s])
    BY RowsAreApart DEF Edits
<1>3. \A x \in Edits(req[s]) : x \notin contended => x \notin Uses(req[t])
    BY DEF ContentionIsNoted
<1>4. req[s].role \in Roles \ contended => req[t].role # req[s].role
    BY <1>1, <1>3, RowsAreApart DEF Uses, Edits
<1>5. req[s].perm \in Perms \ contended =>
        /\ req[t].perm # req[s].perm /\ req[s].perm \notin Ids(req[t].items)
        /\ req[t].at \in SaveSteps => <<req[t].role, req[s].perm>> \notin granted
    BY <1>2, <1>3, RowsAreApart DEF Uses, Edits
<1> QED
    BY <1>4, <1>5

\* The invariant is kept when a role is created ...
LEMMA RoleCreateInv ==
    ASSUME RbacInv, NEW r \in Roles, RoleCreate(r), Note
    PROVE  RbacInv'
<1> USE DEF RbacInv
<1>1. /\ roles' = [roles EXCEPT ![r] = "live"]
      /\ permissions' = permissions /\ granted' = granted /\ req' = req
    BY DEF RoleCreate
<1>2. roles' \in [Roles -> State] /\ \A x \in Roles : LiveRole(x) => LiveRole(x)'
    BY <1>1 DEF TypeOK, State, LiveRole
<1>3. contended' \subseteq Roles \cup Perms /\ contended \subseteq contended' /\ ContentionIsNoted'
    BY <1>1, NoteFacts DEF TypeOK
<1>4. TypeOK' /\ RowsAreNamed' /\ NewPermissionsHaveOneHolder'
    BY <1>1, <1>2, <1>3 DEF TypeOK, RowsAreNamed, NewPermissionsHaveOneHolder
<1>5. GrantsJoinLiveRowsUnlessContended'
    BY <1>1, <1>2, <1>3 DEF GrantsJoinLiveRowsUnlessContended, Live
<1>6. ASSUME NEW t \in Slots PROVE RequestInv(t)'
  <2> USE DEF RequestInv
  <2>1. RequestIsComplete(t)' /\ WriterIsCurrent(t)'
    BY <1>1, <1>3 DEF RequestIsComplete, WriterIsCurrent
  <2>2. ItemsAreUpToDate(t)' /\ OnlyTheNamedAreDropped(t)'
    BY <1>1, <1>3 DEF ItemsAreUpToDate, OnlyTheNamedAreDropped
  <2>3. SaverIsCurrent(t)'
    BY <1>1, <1>2, <1>3 DEF SaverIsCurrent, RequestIsComplete, RoleSteps, Live
  <2> QED
    BY <2>1, <2>2, <2>3
<1> QED
    BY <1>3, <1>4, <1>5, <1>6

\* ... or written or deleted by the request that read it ...
LEMMA RoleWriteInv ==
    ASSUME RbacInv, NEW s \in Slots, RoleUpdate(s) \/ RoleDelete(s), Note
    PROVE  RbacInv'
<1> DEFINE r == req[s].role
<1> USE DEF RbacInv, RequestInv
<1> PICK state \in {"live", "deleted"} :
        /\ roles' = [roles EXCEPT ![r] = state]
        /\ state = "deleted" => req[s].at = "roleDelete"
    BY DEF RoleUpdate, RoleDelete
<1>1. r \in Roles /\ Answer(s) /\ permissions' = permissions /\ granted' = granted
    BY DEF RoleUpdate, RoleDelete, RequestIsComplete, RoleSteps
<1>2. /\ roles' \in [Roles -> State]
      /\ \A x \in Roles \ {r} : LiveRole(x) => LiveRole(x)'
      /\ req[s].at = "roleDelete" \/ roles'[r] = "live"
    BY <1>1 DEF TypeOK, State, LiveRole
<1>3. req' \in [Slots -> Request] /\ req'[s] = Idle /\ \A t \in Slots \ {s} : req'[t] = req[t]
    BY <1>1, AnswerFacts
<1>4. contended' \subseteq Roles \cup Perms /\ contended \subseteq contended' /\ ContentionIsNoted'
    BY <1>3, NoteFacts
<1>5. TypeOK' /\ RowsAreNamed'
    BY <1>1, <1>2, <1>3, <1>4 DEF TypeOK, RowsAreNamed
<1>6. NewPermissionsHaveOneHolder'
    BY <1>1, <1>3 DEF NewPermissionsHaveOneHolder, Ids, Idle
<1>7. GrantsJoinLiveRowsUnlessContended'
    BY <1>1, <1>2, <1>4 DEF GrantsJoinLiveRowsUnlessContended, WriterIsCurrent, Live, LiveRole
<1>8. ASSUME NEW t \in Slots \ {s} PROVE RequestInv(t)'
  <2>1. req'[t] = req[t] /\ (r \notin contended => req[t].role # r)
    BY <1>1, <1>3, NobodyElse
  <2>2. RequestIsComplete(t)' /\ WriterIsCurrent(t)'
    BY <1>1, <1>4, <2>1 DEF RequestIsComplete, WriterIsCurrent
  <2>3. ItemsAreUpToDate(t)' /\ OnlyTheNamedAreDropped(t)'
    BY <1>1, <1>4, <2>1 DEF ItemsAreUpToDate, OnlyTheNamedAreDropped
  <2>4. SaverIsCurrent(t)'
    BY <1>1, <1>2, <1>4, <2>1 DEF SaverIsCurrent, RequestIsComplete, RoleSteps, Live
  <2> QED
    BY <2>2, <2>3, <2>4
<1>9. (req[s] = Idle)' => RequestInv(s)'
    BY IdleIsSound, PTL
<1> QED
    BY <1>3, <1>4, <1>5, <1>6, <1>7, <1>8, <1>9

\* ... and when a permission is inserted, written or deleted
LEMMA PermissionWriteInv ==
    ASSUME RbacInv, NEW s \in Slots,
           PermissionCreate(s) \/ PermissionUpdate(s) \/ PermissionDelete(s), Note
    PROVE  RbacInv'
<1> DEFINE p == req[s].perm
           n == req[s].name
<1> USE DEF RbacInv, RequestInv
<1> PICK state \in {"live", "deleted"} :
        /\ permissions' = [permissions EXCEPT ![p] = [state |-> state, name |-> n]]
        /\ state = "deleted" => req[s].at = "permissionDelete"
    BY DEF PermissionCreate, PermissionUpdate, PermissionDelete, PermissionWrite
<1>1. /\ p \in Perms /\ n \in Names /\ Answer(s) /\ roles' = roles /\ granted' = granted
    BY DEF PermissionCreate, PermissionUpdate, PermissionDelete, PermissionWrite,
           RequestIsComplete, PermissionSteps
<1>2. /\ permissions' \in [Perms -> PermissionRow]
      /\ permissions'[p].state = state /\ permissions'[p].name = n
      /\ \A q \in Perms \ {p} : permissions'[q] = permissions[q]
    BY <1>1 DEF TypeOK, PermissionRow, State
<1>3. req' \in [Slots -> Request] /\ req'[s] = Idle /\ \A t \in Slots \ {s} : req'[t] = req[t]
    BY <1>1, AnswerFacts
<1>4. contended' \subseteq Roles \cup Perms /\ contended \subseteq contended' /\ ContentionIsNoted'
    BY <1>3, NoteFacts
<1>5. TypeOK' /\ RowsAreNamed'
    BY <1>1, <1>2, <1>3, <1>4 DEF TypeOK, RowsAreNamed
<1>6. NewPermissionsHaveOneHolder'
    BY <1>1, <1>2, <1>3 DEF NewPermissionsHaveOneHolder, Ids, Idle
<1>7. GrantsJoinLiveRowsUnlessContended'
    BY <1>1, <1>2, <1>4 DEF GrantsJoinLiveRowsUnlessContended, WriterIsCurrent, Live, LiveRole
<1>8. ASSUME NEW t \in Slots \ {s} PROVE RequestInv(t)'
  <2>1. /\ req'[t] = req[t] /\ req[t] \in Request
        /\ p \notin contended =>
              /\ req[t].perm # p /\ p \notin Ids(req[t].items)
              /\ req[t].at \in SaveSteps => <<req[t].role, p>> \notin granted
    BY <1>1, <1>3, NobodyElse DEF TypeOK
  <2>2. RequestIsComplete(t)'
    BY <2>1 DEF RequestIsComplete
  <2>3. ItemsAreUpToDate(t)'
    BY <1>2, <1>4, <2>1 DEF ItemsAreUpToDate, Ids, Request, Item
  <2>4. SaverIsCurrent(t)'
    <3>1. (req[t].at \in SaveSteps /\ req[t].role \notin contended => LiveRole(req[t].role))'
      BY <1>1, <1>4, <2>1 DEF SaverIsCurrent, LiveRole
    <3>2. ASSUME req[t].at = "saveCommit", NEW q \in Perms
          PROVE  /\ \/ req[t].rowsSeen[q] = NoRow
                    \/ /\ q \in Ids(req[t].items) /\ req[t].rowsSeen[q].name \in Names
                       /\ permissions'[q].state # "absent"
                 /\ req[t].rowsSeen[q].state = "live" /\ q \notin contended' => Live(q)'
      BY <1>2, <1>4, <2>1, <3>2 DEF SaverIsCurrent, Live, NoRow
    <3> QED
      BY <3>1, <3>2, <2>1 DEF SaverIsCurrent, Ids
  <2>5. OnlyTheNamedAreDropped(t)'
    BY <1>1, <1>2, <1>4, <2>1 DEF OnlyTheNamedAreDropped
  <2>6. WriterIsCurrent(t)'
    BY <1>1, <1>2, <1>4, <2>1 DEF WriterIsCurrent, RequestIsComplete, PermissionSteps
  <2> QED
    BY <2>2, <2>3, <2>4, <2>5, <2>6
<1>9. (req[s] = Idle)' => RequestInv(s)'
    BY IdleIsSound, PTL
<1> QED
    BY <1>3, <1>4, <1>5, <1>6, <1>7, <1>8, <1>9

-----------------------------------------------------------------------------
\* What a committed save does to the rows: nothing is undone or renamed, and
\* what the entity has is live
LEMMA CommitFacts ==
    ASSUME RbacInv, NEW s \in Slots, SaveCommit(s)
    PROVE  /\ permissions' \in [Perms -> PermissionRow] /\ roles' \in [Roles -> State]
           /\ granted' \subseteq Roles \X Perms
           /\ \A p \in Perms : p \notin Ids(req[s].items) => permissions'[p] = permissions[p]
           /\ \A p \in Ids(req[s].items) :
                /\ p \in Perms
                /\ permissions'[p].name \in Names /\ permissions'[p].state # "absent"
                /\ Live(p) \/ p \notin contended => permissions'[p].state = "live"
                /\ p \notin contended /\ permissions[p].state # "absent"
                        => permissions'[p].name = permissions[p].name
           /\ req[s].role \in Roles
           /\ \A r \in Roles : r # req[s].role => roles'[r] = roles[r]
           /\ LiveRole(req[s].role) => roles'[req[s].role] = "live"
           /\ \A r \in Roles, p \in Perms :
                /\ <<r, p>> \in granted' /\ <<r, p>> \notin granted
                        => r = req[s].role /\ p \in Ids(req[s].items)
                /\ <<r, p>> \in granted /\ <<r, p>> \notin granted'
                        => r = req[s].role /\ p \notin Ids(req[s].items)
<1> DEFINE q == req[s]
           held == Ids(q.items)
           entity(n) == [state |-> "live", name |-> n]
<1> USE DEF RbacInv, RequestInv
<1>1. q \in Request /\ q.at = "saveCommit" /\ q.role \in Roles /\ held \subseteq Perms
    BY DEF SaveCommit, TypeOK, RequestIsComplete, RoleSteps, SaveSteps, Request, Ids, Item
<1> PICK name \in [held -> Names] :
        /\ \A p \in held : [id |-> p, name |-> name[p]] \in q.items
        /\ permissions' = [p \in Perms |-> IF p \in held
                                           THEN Diff(entity(name[p]), q.rowsSeen[p], permissions[p])
                                           ELSE permissions[p]]
    BY DEF SaveCommit
<1>2. ASSUME NEW p \in held
      PROVE  /\ permissions'[p] \in PermissionRow
             /\ permissions'[p].name \in Names /\ permissions'[p].state # "absent"
             /\ Live(p) \/ p \notin contended => permissions'[p].state = "live"
             /\ p \notin contended /\ permissions[p].state # "absent"
                     => permissions'[p].name = permissions[p].name
  <2> DEFINE y == q.rowsSeen[p]
             z == permissions[p]
             d == Diff(entity(name[p]), y, z)
  <2>1. y \in PermissionRow /\ z \in PermissionRow /\ name[p] \in Names /\ p \in Perms
    BY <1>1 DEF TypeOK, Request
  <2>2. permissions'[p] = d
    BY <2>1
  <2>3. /\ d \in PermissionRow
        /\ d.state = (IF y.state = "live" THEN z.state ELSE "live")
        /\ d.name = (IF y.name = name[p] THEN z.name ELSE name[p])
    BY <2>1, DiffPermission
  <2>4. /\ y = NoRow \/ (y.name \in Names /\ z.state # "absent")
        /\ y.state = "live" /\ p \notin contended => Live(p)
    BY <1>1, <2>1 DEF SaverIsCurrent
  <2>5. z.state # "absent" /\ p \notin contended => name[p] = z.name
    BY DEF ItemsAreUpToDate
  <2>6. z.state # "absent" => z.name \in Names
    BY <2>1 DEF RowsAreNamed, NoRow
  <2> HIDE DEF d, y
  <2>7. d.name \in Names /\ d.state # "absent"
    BY <2>1, <2>3, <2>4, <2>6, RowsAreApart DEF NoRow
  <2>8. Live(p) \/ p \notin contended => d.state = "live"
    BY <2>3, <2>4 DEF Live
  <2> QED
    BY <2>2, <2>3, <2>5, <2>7, <2>8
<1>3. permissions' \in [Perms -> PermissionRow]
    BY <1>2 DEF TypeOK
<1>4. \A p \in Perms : p \notin held => permissions'[p] = permissions[p]
    OBVIOUS
<1>5. /\ roles' \in [Roles -> State] /\ \A r \in Roles : r # q.role => roles'[r] = roles[r]
      /\ LiveRole(q.role) => roles'[q.role] = "live"
  <2>1. roles[q.role] \in State /\ q.roleSeen \in State
    BY <1>1 DEF TypeOK, Request
  <2>2. roles' = [roles EXCEPT ![q.role] = IF q.roleSeen = "live" THEN roles[q.role] ELSE "live"]
    BY <2>1, DiffRole DEF SaveCommit
  <2> QED
    BY <1>1, <2>1, <2>2 DEF TypeOK, State, LiveRole
<1>6. q.grantsSeen \subseteq Perms
    BY <1>1 DEF Request
<1>7. granted' = (granted \ ({q.role} \X (q.grantsSeen \ held))) \cup ({q.role} \X (held \ q.grantsSeen))
    BY DEF SaveCommit
<1> HIDE DEF held
<1>8. /\ granted' \subseteq Roles \X Perms
      /\ \A r \in Roles, p \in Perms :
                /\ <<r, p>> \in granted' /\ <<r, p>> \notin granted => r = q.role /\ p \in held
                /\ <<r, p>> \in granted /\ <<r, p>> \notin granted' => r = q.role /\ p \notin held
    BY <1>1, <1>6, <1>7 DEF TypeOK
<1> QED
    BY <1>1, <1>2, <1>3, <1>4, <1>5, <1>8 DEF held

\* The invariant is kept when a save commits
LEMMA SaveCommitInv ==
    ASSUME RbacInv, NEW s \in Slots, SaveCommit(s), Note
    PROVE  RbacInv'
<1> DEFINE r == req[s].role
           held == Ids(req[s].items)
<1> USE DEF RbacInv, RequestInv
<1>1. Answer(s) /\ r \in Roles /\ req[s].at = "saveCommit"
    BY CommitFacts DEF SaveCommit
<1>2. /\ permissions' \in [Perms -> PermissionRow] /\ roles' \in [Roles -> State]
      /\ granted' \subseteq Roles \X Perms
      /\ \A p \in Perms : p \notin held => permissions'[p] = permissions[p]
      /\ \A p \in held :
           /\ permissions'[p].name \in Names /\ permissions'[p].state # "absent"
           /\ Live(p) \/ p \notin contended => permissions'[p].state = "live"
           /\ p \notin contended /\ permissions[p].state # "absent"
                   => permissions'[p].name = permissions[p].name
    BY CommitFacts
<1>3. /\ \A x \in Roles : x # r => roles'[x] = roles[x]
      /\ LiveRole(r) => roles'[r] = "live"
      /\ \A x \in Roles, p \in Perms :
           /\ <<x, p>> \in granted' /\ <<x, p>> \notin granted => x = r /\ p \in held
           /\ <<x, p>> \in granted /\ <<x, p>> \notin granted' => x = r /\ p \notin held
    BY CommitFacts
<1>4. req' \in [Slots -> Request] /\ req'[s] = Idle /\ \A t \in Slots \ {s} : req'[t] = req[t]
    BY <1>1, AnswerFacts
<1>5. contended' \subseteq Roles \cup Perms /\ contended \subseteq contended' /\ ContentionIsNoted'
    BY <1>4, NoteFacts
<1>6. TypeOK'
    BY <1>2, <1>4, <1>5 DEF TypeOK
<1>7. RowsAreNamed'
    BY <1>2 DEF RowsAreNamed
<1>8. NewPermissionsHaveOneHolder'
  <2>1. \A p \in Perms : permissions'[p].state = "absent" => permissions[p].state = "absent"
    BY <1>2
  <2> QED
    BY <1>4, <2>1 DEF NewPermissionsHaveOneHolder, Ids, Idle
<1>9. GrantsJoinLiveRowsUnlessContended'
  <2> SUFFICES ASSUME NEW x \in Roles \ contended', NEW p \in Perms \ contended',
                      <<x, p>> \in granted'
               PROVE  roles'[x] = "live" /\ permissions'[p].state = "live"
    BY DEF GrantsJoinLiveRowsUnlessContended, LiveRole, Live
  <2>1. CASE <<x, p>> \in granted
    BY <1>2, <1>3, <1>5, <2>1 DEF GrantsJoinLiveRowsUnlessContended, LiveRole, Live
  <2>2. CASE <<x, p>> \notin granted
    <3>1. x = r /\ p \in held
      BY <1>3, <2>2
    <3>2. LiveRole(r)
      BY <1>1, <1>5, <3>1 DEF SaverIsCurrent, SaveSteps
    <3> QED
      BY <1>2, <1>3, <1>5, <3>1, <3>2
  <2> QED
    BY <2>1, <2>2
<1>10. ASSUME NEW t \in Slots \ {s} PROVE RequestInv(t)'
  <2>1. req'[t] = req[t] /\ req[t] \in Request
    BY <1>4 DEF TypeOK
  <2>2. r \notin contended => req[t].role # r
    BY <1>1, NobodyElse
  <2>3. \A p \in Perms \ contended : req[t].perm = p => p \notin held
    BY NobodyElse
  <2>4. RequestIsComplete(t)'
    BY <2>1 DEF RequestIsComplete
  <2>5. ItemsAreUpToDate(t)'
    <3> SUFFICES ASSUME NEW x \in req[t].items, x.id \notin contended', permissions'[x.id].state # "absent"
                 PROVE  x.name = permissions'[x.id].name
      BY <2>1 DEF ItemsAreUpToDate
    <3>1. x.id \in Perms /\ x.id \in Ids(req[t].items)
      BY <2>1 DEF Request, Item, Ids
    <3>2. permissions[x.id].state # "absent"
      BY <1>2, <3>1 DEF NewPermissionsHaveOneHolder
    <3>3. permissions'[x.id].name = permissions[x.id].name
      BY <1>2, <1>5, <3>1, <3>2
    <3> QED
      BY <1>5, <3>2, <3>3 DEF ItemsAreUpToDate
  <2>6. SaverIsCurrent(t)'
    <3>1. req[t].at \in SaveSteps /\ req[t].role \notin contended' => roles'[req[t].role] = "live"
      BY <1>3, <1>5, <2>4, <2>1, <2>2 DEF SaverIsCurrent, LiveRole, RequestIsComplete, RoleSteps
    <3>2. ASSUME req[t].at = "saveCommit", NEW p \in Perms
          PROVE  /\ \/ req[t].rowsSeen[p] = NoRow
                    \/ /\ p \in Ids(req[t].items) /\ req[t].rowsSeen[p].name \in Names
                       /\ permissions'[p].state # "absent"
                 /\ req[t].rowsSeen[p].state = "live" /\ p \notin contended' => permissions'[p].state = "live"
      BY <1>2, <1>5, <3>2 DEF SaverIsCurrent, Live
    <3> QED
      BY <3>1, <3>2, <2>1 DEF SaverIsCurrent, Ids, LiveRole, Live
  <2>7. OnlyTheNamedAreDropped(t)'
    <3> SUFFICES ASSUME req[t].at \in SaveSteps, req[t].role \notin contended',
                        NEW p \in Perms \ contended', <<req[t].role, p>> \in granted',
                        p \notin Ids(req[t].items)
                 PROVE  /\ req[t].at \notin {"grantFind", "revokeFind"}
                        /\ [name |-> permissions'[p].name, canonical |-> TRUE] \in req[t].wanted
      BY <2>1 DEF OnlyTheNamedAreDropped, Ids
    <3>1. req[t].role \in Roles /\ req[t].role # r
      BY <1>5, <2>2 DEF OnlyTheNamedAreDropped, RequestIsComplete, RoleSteps
    <3>2. <<req[t].role, p>> \in granted
      BY <1>3, <3>1
    <3>3. permissions[p].state # "absent"
      BY <1>5, <3>1, <3>2 DEF GrantsJoinLiveRowsUnlessContended, Live
    <3>4. permissions'[p].name = permissions[p].name
      BY <1>2, <1>5, <3>3
    <3> QED
      BY <1>5, <3>2, <3>4 DEF OnlyTheNamedAreDropped
  <2>8. WriterIsCurrent(t)'
    <3>1. ASSUME req[t].at = "roleDelete", req[t].role \notin contended', NEW p \in Perms \ contended'
          PROVE  <<req[t].role, p>> \notin granted'
      BY <1>3, <1>5, <2>2, <3>1 DEF WriterIsCurrent, RequestIsComplete, RoleSteps
    <3>2. ASSUME req[t].at \in {"permissionDelete", "permissionCreate"}, req[t].perm \notin contended'
          PROVE  /\ permissions'[req[t].perm] = permissions[req[t].perm]
                 /\ \A x \in Roles : <<x, req[t].perm>> \in granted' => <<x, req[t].perm>> \in granted
      BY <1>2, <1>3, <1>5, <2>3, <3>2 DEF RequestIsComplete, PermissionSteps
    <3> QED
      BY <1>5, <2>1, <3>1, <3>2 DEF WriterIsCurrent
  <2> QED
    BY <2>4, <2>5, <2>6, <2>7, <2>8
<1>11. (req[s] = Idle)' => RequestInv(s)'
    BY IdleIsSound, PTL
<1> QED
    BY <1>4, <1>5, <1>6, <1>7, <1>8, <1>9, <1>10, <1>11

-----------------------------------------------------------------------------
LEMMA InitInv == Init => RbacInv
<1> SUFFICES ASSUME Init PROVE RbacInv
    OBVIOUS
<1> USE DEF Init
<1>1. TypeOK
    BY IdleIsARequest DEF TypeOK, State
<1>2. RowsAreNamed /\ GrantsJoinLiveRowsUnlessContended
    BY DEF RowsAreNamed, GrantsJoinLiveRowsUnlessContended
<1>3. ContentionIsNoted /\ NewPermissionsHaveOneHolder
    BY RowsAreApart DEF ContentionIsNoted, NewPermissionsHaveOneHolder, Edits, Ids, Idle
<1>4. \A s \in Slots : RequestInv(s)
    BY IdleIsSound
<1> QED
    BY <1>1, <1>2, <1>3, <1>4 DEF RbacInv

LEMMA StepInv == RbacInv /\ [Next]_vars => RbacInv'
<1> SUFFICES ASSUME RbacInv, [Next]_vars PROVE RbacInv'
    OBVIOUS
<1>1. CASE UNCHANGED vars
  <2>1. \A s \in Slots : RequestInv(s) => RequestInv(s)'
    BY <1>1, RequestKept DEF vars
  <2> QED
    BY <1>1, <2>1 DEF vars, tables, RbacInv, TypeOK, RowsAreNamed, ContentionIsNoted, Edits, Uses, Ids,
           NewPermissionsHaveOneHolder, GrantsJoinLiveRowsUnlessContended, LiveRole, Live
<1>2. ASSUME NEW r \in Roles, RoleCreate(r), Note PROVE RbacInv'
    BY <1>2, RoleCreateInv
<1>3. ASSUME NEW s \in Slots, Arrive(s), Note PROVE RbacInv'
  <2>1. CASE NotFound(s)
    BY <1>3, <2>1, NotFoundInv
  <2>2. ASSUME NEW r \in Roles, RoleUpdateRead(s, r) \/ RoleDeleteRead(s, r) PROVE RbacInv'
    BY <1>3, <2>2, RoleUpdateReadInv, RoleDeleteReadInv
  <2>3. ASSUME NEW r \in Roles, NEW wanted \in Wishes,
               GrantRead(s, r, wanted) \/ RevokeRead(s, r, wanted)
        PROVE  RbacInv'
    BY <1>3, <2>3, ListReadInv
  <2>4. ASSUME NEW p \in Perms, NEW n \in Names, PermissionCreateCheck(s, p, n) PROVE RbacInv'
    BY <1>3, <2>4, PermissionCreateCheckInv
  <2>5. ASSUME NEW p \in Perms, NEW n \in Names \cup {None}, PermissionUpdateRead(s, p, n) PROVE RbacInv'
    BY <1>3, <2>5, PermissionUpdateReadInv
  <2>6. ASSUME NEW p \in Perms, PermissionDeleteRead(s, p) PROVE RbacInv'
    BY <1>3, <2>6, PermissionDeleteReadInv
  <2> QED
    BY <1>3, <2>1, <2>2, <2>3, <2>4, <2>5, <2>6 DEF Arrive
<1>4. ASSUME NEW s \in Slots, Serve(s), Note PROVE RbacInv'
  <2>1. CASE RoleUpdate(s) \/ RoleDelete(s)
    BY <1>4, <2>1, RoleWriteInv
  <2>2. CASE GrantFind(s)
    BY <1>4, <2>2, GrantFindInv
  <2>3. CASE RevokeFind(s)
    BY <1>4, <2>3, RevokeFindInv
  <2>4. CASE SaveLoadRole(s)
    BY <1>4, <2>4, SaveLoadRoleInv
  <2>5. CASE SaveLoadPermissions(s)
    BY <1>4, <2>5, SaveLoadPermissionsInv
  <2>6. CASE SaveCommit(s)
    BY <1>4, <2>6, SaveCommitInv
  <2>7. CASE PermissionCheck(s)
    BY <1>4, <2>7, PermissionCheckInv
  <2>8. CASE PermissionCreate(s) \/ PermissionUpdate(s) \/ PermissionDelete(s)
    BY <1>4, <2>8, PermissionWriteInv
  <2>9. CASE Abort(s)
    BY <1>4, <2>9, AbortInv
  <2> QED
    BY <1>4, <2>1, <2>2, <2>3, <2>4, <2>5, <2>6, <2>7, <2>8, <2>9 DEF Serve
<1> QED
    BY <1>1, <1>2, <1>3, <1>4 DEF Next

\* The invariant holds of every behaviour
THEOREM Invariance == Spec => []RbacInv
<1> QED
    BY InitInv, StepInv, PTL DEF Spec

\* Rows and requests keep their form, whatever the requests do to each other
THEOREM TypeCorrect == Spec => []TypeOK
<1>1. RbacInv => TypeOK
    BY DEF RbacInv
<1> QED
    BY Invariance, <1>1, PTL

(***************************************************************************)
(* The checks of role-delete.ts and permission-delete.ts keep every row of *)
(* permissions_roles between a live role and a live permission, as long as *)
(* no two requests meet on either: in any number of requests, only such a  *)
(* meeting leaves a role with a deleted permission.                        *)
(***************************************************************************)
THEOREM GrantsJoinLiveRows == Spec => []GrantsJoinLiveRowsUnlessContended
<1>1. RbacInv => GrantsJoinLiveRowsUnlessContended
    BY DEF RbacInv
<1> QED
    BY Invariance, <1>1, PTL

(***************************************************************************)
(* Role-add-permission.ts and role-delete-permission.ts write the whole    *)
(* list of a role back, and yet an uncontended role loses an uncontended   *)
(* permission only to a request that names it.                             *)
(***************************************************************************)
THEOREM RevocationsOnly == Spec => OnlyRevokedGrantsAreLost
<1> DEFINE Lost(r, p) == <<r, p>> \in granted /\ <<r, p>> \notin granted'
           Asked(r, p) == \E s \in Slots :
                /\ req[s].role = r
                /\ [name |-> permissions[p].name, canonical |-> TRUE] \in req[s].wanted
           Revoked == \A r \in Roles \ contended, p \in Perms \ contended : Lost(r, p) => Asked(r, p)
<1>1. RbacInv /\ [Next]_vars => [Revoked]_vars
  <2> SUFFICES ASSUME RbacInv, Next, NEW r \in Roles \ contended, NEW p \in Perms \ contended, Lost(r, p)
               PROVE  Asked(r, p)
    BY DEF RbacInv
  <2>1. PICK s \in Slots : SaveCommit(s)
    BY DEF Next, Arrive, Serve, RoleCreate, NotFound, RoleUpdateRead, RoleDeleteRead, GrantRead, RevokeRead,
           PermissionCreateCheck, PermissionUpdateRead, PermissionDeleteRead, RoleUpdate, RoleDelete,
           GrantFind, RevokeFind, SaveLoadRole, SaveLoadPermissions, PermissionCreate, PermissionCheck,
           PermissionUpdate, PermissionDelete, PermissionWrite, Abort, tables
  <2>2. r = req[s].role /\ p \notin Ids(req[s].items)
    BY <2>1, CommitFacts
  <2>3. req[s].at = "saveCommit"
    BY <2>1 DEF SaveCommit
  <2> QED
    BY <2>2, <2>3 DEF RbacInv, RequestInv, OnlyTheNamedAreDropped, SaveSteps
<1> QED
    BY Invariance, <1>1, PTL DEF Spec, OnlyRevokedGrantsAreLost

(***************************************************************************)
(* Saving a role writes the names of all its permissions, and a delete the *)
(* name it read; a permission nobody contends is renamed by an update of   *)
(* it alone.                                                               *)
(***************************************************************************)
THEOREM RenamesOnly == Spec => OnlyUpdatesRename
<1> DEFINE Renamed(p) == permissions[p].state # "absent" /\ permissions'[p].name # permissions[p].name
           Kept == \A p \in Perms \ contended :
                Renamed(p) => \E s \in Slots : req[s].at = "permissionUpdate" /\ req[s].perm = p
<1>1. RbacInv /\ [Next]_vars => [Kept]_vars
  <2> SUFFICES ASSUME RbacInv, Next, NEW p \in Perms \ contended, Renamed(p)
               PROVE  \E s \in Slots : req[s].at = "permissionUpdate" /\ req[s].perm = p
    BY DEF RbacInv
  <2>1. PICK s \in Slots :
            SaveCommit(s) \/ PermissionCreate(s) \/ PermissionUpdate(s) \/ PermissionDelete(s)
    BY DEF Next, Arrive, Serve, RoleCreate, NotFound, RoleUpdateRead, RoleDeleteRead, GrantRead, RevokeRead,
           PermissionCreateCheck, PermissionUpdateRead, PermissionDeleteRead, RoleUpdate, RoleDelete,
           GrantFind, RevokeFind, SaveLoadRole, SaveLoadPermissions, PermissionCheck, Abort, tables
  <2>2. ~ SaveCommit(s)
    BY <2>1, CommitFacts
  <2>3. req[s].perm \in Perms /\ permissions \in [Perms -> PermissionRow]
    BY <2>1, <2>2 DEF PermissionCreate, PermissionUpdate, PermissionDelete, PermissionWrite, RbacInv,
           RequestInv, RequestIsComplete, PermissionSteps, TypeOK
  <2>4. req[s].perm = p
    BY <2>1, <2>2, <2>3 DEF PermissionCreate, PermissionUpdate, PermissionDelete, PermissionWrite
  <2>5. ~ PermissionCreate(s)
    BY <2>4 DEF PermissionCreate, PermissionWrite, RbacInv, RequestInv, WriterIsCurrent
  <2>6. ~ PermissionDelete(s)
    BY <2>3, <2>4 DEF PermissionDelete, PermissionWrite, RbacInv, RequestInv, WriterIsCurrent
  <2> QED
    BY <2>1, <2>2, <2>4, <2>5, <2>6 DEF PermissionUpdate, PermissionWrite
<1> QED
    BY Invariance, <1>1, PTL DEF Spec, OnlyUpdatesRename
=============================================================================
