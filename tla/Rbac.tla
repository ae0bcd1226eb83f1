-------------------------------- MODULE Rbac --------------------------------
(***************************************************************************)
(* Roles and permissions of the user application: the tables roles,        *)
(* permissions and permissions_roles of Postgres, and the use cases of     *)
(* core/role and core/permission that write them, run by concurrent        *)
(* requests.  Each query is a step of its own.                             *)
(*                                                                         *)
(* Granting and revoking save the role they read, with all its             *)
(* permissions: TypeORM's save SELECTs the role with the ids of its        *)
(* permissions, then the permissions themselves, soft-deleted ones         *)
(* included, and in a transaction writes every difference.  The other      *)
(* writes are UPDATEs of every column of the entity that was read.         *)
(*                                                                         *)
(* The names of roles are left out.  A request names a permission once.    *)
(***************************************************************************)
EXTENDS FiniteSets, Functions

CONSTANTS
    Roles, Perms,   \* the uuids of roles and of permissions: bounds on creations
    Names,          \* the names of permissions, as they are stored
    Slots,          \* requests in flight at the same time
    None

ASSUME RowsAreApart == Roles \cap Perms = {} /\ None \notin Roles \cup Perms \cup Names

VARIABLES
    roles,          \* roles[r]: "absent", "live" or "deleted"
    permissions,    \* permissions[p]: the row with id p
    granted,        \* the rows <<role, permission>> of permissions_roles
    req,            \* req[s]: the request in flight in slot s
    contended       \* history: the rows some request edited while another used them

tables == <<roles, permissions, granted>>
vars == <<tables, req, contended>>

State == {"absent", "live", "deleted"}
PermissionRow == [state : State, name : Names \cup {None}]
NoRow == [state |-> "absent", name |-> None]

\* A name as it is written in a request: findIn finds it only if it is in
\* lower case and without spaces, and PermissionEntity makes it so
Spelling == [name : Names, canonical : BOOLEAN]
Wishes == {w \in SUBSET Spelling : \A x, y \in w : x.name = y.name => x = y}

\* A permission as an entity has it
Item == [id : Perms, name : Names]

SaveSteps == {"grantFind", "revokeFind", "saveLoadRole", "saveLoadPermissions", "saveCommit"}
RoleSteps == SaveSteps \cup {"roleUpdate", "roleDelete"}
PermissionSteps == {"permissionCheck", "permissionUpdate", "permissionDelete"}
Steps == RoleSteps \cup PermissionSteps \cup {"idle", "permissionCreate"}

(***************************************************************************)
(* A request: its next query, the role or the permission it is about, the  *)
(* permissions it names, the ones of the entity it will save, and what its *)
(* save selected.                                                          *)
(***************************************************************************)
Request ==
    [at : Steps, role : Roles \cup {None}, perm : Perms \cup {None},
     name : Names \cup {None}, wanted : SUBSET Spelling, items : SUBSET Item,
     roleSeen : State, grantsSeen : SUBSET Perms, rowsSeen : [Perms -> PermissionRow]]

Idle ==
    [at |-> "idle", role |-> None, perm |-> None, name |-> None, wanted |-> {},
     items |-> {}, roleSeen |-> "absent", grantsSeen |-> {},
     rowsSeen |-> [p \in Perms |-> NoRow]]

TypeOK ==
    /\ roles \in [Roles -> State]
    /\ permissions \in [Perms -> PermissionRow]
    /\ granted \subseteq Roles \X Perms
    /\ req \in [Slots -> Request]
    /\ contended \subseteq Roles \cup Perms

Init ==
    /\ roles = [r \in Roles |-> "absent"]
    /\ permissions = [p \in Perms |-> NoRow]
    /\ granted = {}
    /\ req = [s \in Slots |-> Idle]
    /\ contended = {}

-----------------------------------------------------------------------------
LiveRole(r) == roles[r] = "live"
Live(p) == permissions[p].state = "live"
Ids(items) == {x.id : x \in items}

\* What finds return.  The joins leave soft-deleted rows out.
PermissionsOf(r) ==
    {[id |-> p, name |-> permissions[p].name] : p \in {q \in Perms : <<r, q>> \in granted /\ Live(q)}}
RolesOf(p) == {r \in Roles : <<r, p>> \in granted /\ LiveRole(r)}
FindIn(wanted) ==
    {[id |-> p, name |-> permissions[p].name] :
        p \in {q \in Perms : Live(q) /\ [name |-> permissions[q].name, canonical |-> TRUE] \in wanted}}
ExistsOnUpdate(n, p) == \E q \in Perms \ {p} : Live(q) /\ permissions[q].name = n

\* UNIQUE (name) of table permissions, soft-deleted rows included
NamesAreUnique(table) ==
    \A p, q \in Perms : p # q /\ table[p].state # "absent" => table[p].name # table[q].name

\* The row that is left when a save writes the columns in which `entity'
\* differs from `seen' over the present row
Diff(entity, seen, present) ==
    [c \in DOMAIN present |-> IF entity[c] = seen[c] THEN present[c] ELSE entity[c]]

\* Rows a request in flight edits, and those it uses: a save also writes the
\* permissions its entity has, and drops others the role has
Edits(q) == {q.role, q.perm} \ {None}
Uses(q) ==
    Edits(q) \cup Ids(q.items)
        \cup {p \in Perms : q.at \in SaveSteps /\ <<q.role, p>> \in granted}

\* A uuid that no row and no request has
Fresh(p) ==
    /\ permissions[p].state = "absent"
    /\ \A s \in Slots : p \notin Uses(req[s])

Begin(s, request) ==
    /\ req[s].at = "idle"
    /\ req' = [req EXCEPT ![s] = request]
Continue(s, step) == req' = [req EXCEPT ![s].at = step]
Answer(s) == req' = [req EXCEPT ![s] = Idle]

-----------------------------------------------------------------------------
\* role-create.ts: one insert
RoleCreate(r) ==
    /\ roles[r] = "absent"
    /\ roles' = [roles EXCEPT ![r] = "live"]
    /\ UNCHANGED <<permissions, granted, req>>

\* role-update.ts: the entity that is written has deletedAt: null from the read
RoleUpdateRead(s, r) ==
    /\ LiveRole(r)
    /\ Begin(s, [Idle EXCEPT !.at = "roleUpdate", !.role = r])
    /\ UNCHANGED tables

RoleUpdate(s) ==
    /\ req[s].at = "roleUpdate"
    /\ roles' = [roles EXCEPT ![req[s].role] = "live"]
    /\ Answer(s)
    /\ UNCHANGED <<permissions, granted>>

\* Mutant: the permissions of the role are not looked at
RoleDeleteReadUnchecked(s, r) ==
    /\ LiveRole(r)
    /\ Begin(s, [Idle EXCEPT !.at = "roleDelete", !.role = r])
    /\ UNCHANGED tables

\* role-delete.ts: 409 when the role was read with a permission
RoleDeleteRead(s, r) ==
    /\ LiveRole(r)
    /\ PermissionsOf(r) = {}
    /\ Begin(s, [Idle EXCEPT !.at = "roleDelete", !.role = r])
    /\ UNCHANGED tables

RoleDelete(s) ==
    /\ req[s].at = "roleDelete"
    /\ roles' = [roles EXCEPT ![req[s].role] = "deleted"]
    /\ Answer(s)
    /\ UNCHANGED <<permissions, granted>>

\* role-add-permission.ts, role-delete-permission.ts: the role is read with
\* its permissions
GrantRead(s, r, wanted) ==
    /\ LiveRole(r)
    /\ Begin(s, [Idle EXCEPT !.at = "grantFind", !.role = r, !.wanted = wanted,
                             !.items = PermissionsOf(r)])
    /\ UNCHANGED tables

RevokeRead(s, r, wanted) ==
    /\ LiveRole(r)
    /\ Begin(s, [Idle EXCEPT !.at = "revokeFind", !.role = r, !.wanted = wanted,
                             !.items = PermissionsOf(r)])
    /\ UNCHANGED tables

\* Mutant: a new permission is called as the request wrote it
GrantFindRaw(s) ==
    LET q == req[s]
        found == FindIn(q.wanted)
        associated == {x.name : x \in q.items}
        missing == {w \in q.wanted : ~ w.canonical \/ \A x \in found : x.name # w.name}
    IN  /\ q.at = "grantFind"
        /\ \E id \in Injection(missing, {p \in Perms : Fresh(p)}) :
              req' = [req EXCEPT ![s].at = "saveLoadRole",
                                 ![s].items = q.items
                                    \cup {x \in found : x.name \notin associated}
                                    \cup {[id |-> id[w], name |-> w] : w \in missing}]
        /\ UNCHANGED tables

\* Mutant: a permission that is found is taken under the wrong name of the list
GrantFindMixed(s) ==
    LET q == req[s]
        found == FindIn(q.wanted)
    IN  /\ q.at = "grantFind"
        /\ req' = [req EXCEPT ![s].at = "saveLoadRole",
                              ![s].items = q.items
                                 \cup {[id |-> x.id, name |-> w.name] : x \in found, w \in q.wanted}]
        /\ UNCHANGED tables

\* A permission that is found is associated unless one of its name is; one
\* that is not found becomes a new permission
GrantFind(s) ==
    LET q == req[s]
        found == FindIn(q.wanted)
        associated == {x.name : x \in q.items}
        missing == {w \in q.wanted : ~ w.canonical \/ \A x \in found : x.name # w.name}
    IN  /\ q.at = "grantFind"
        /\ \E id \in Injection(missing, {p \in Perms : Fresh(p)}) :
              req' = [req EXCEPT ![s].at = "saveLoadRole",
                                 ![s].items = q.items
                                    \cup {x \in found : x.name \notin associated}
                                    \cup {[id |-> id[w], name |-> w.name] : w \in missing}]
        /\ UNCHANGED tables

\* Mutant: the filter keeps the permissions that were to go
RevokeFindInverted(s) ==
    LET found == {x.name : x \in FindIn(req[s].wanted)} IN
    /\ req[s].at = "revokeFind"
    /\ req' = [req EXCEPT ![s].at = "saveLoadRole",
                          ![s].items = {x \in req[s].items : x.name \in found}]
    /\ UNCHANGED tables

RevokeFind(s) ==
    LET found == {x.name : x \in FindIn(req[s].wanted)} IN
    /\ req[s].at = "revokeFind"
    /\ req' = [req EXCEPT ![s].at = "saveLoadRole",
                          ![s].items = {x \in req[s].items : x.name \notin found}]
    /\ UNCHANGED tables

\* The SELECT of the role and of the ids of its permissions, which may or may
\* not show the soft-deleted ones
SaveLoadRole(s) ==
    LET present == {p \in Perms : <<req[s].role, p>> \in granted} IN
    /\ req[s].at = "saveLoadRole"
    /\ \E seen \in {present, {p \in present : Live(p)}} :
          req' = [req EXCEPT ![s].at = "saveLoadPermissions",
                             ![s].roleSeen = roles[req[s].role], ![s].grantsSeen = seen]
    /\ UNCHANGED tables

SaveLoadPermissions(s) ==
    /\ req[s].at = "saveLoadPermissions"
    /\ req' = [req EXCEPT ![s].at = "saveCommit",
                          ![s].rowsSeen = [p \in Perms |-> IF p \in Ids(req[s].items)
                                                           THEN permissions[p] ELSE NoRow]]
    /\ UNCHANGED tables

\* The transaction.  An entity may have a permission under two names, when it
\* was renamed between the two reads; either may be written.  A pair that is
\* there already, or a name that is taken, aborts it.
SaveCommit(s) ==
    LET q == req[s]
        held == Ids(q.items)
    IN  /\ q.at = "saveCommit"
        /\ roles' = [roles EXCEPT ![q.role] = Diff([state |-> "live"], [state |-> q.roleSeen],
                                                   [state |-> roles[q.role]]).state]
        /\ \E name \in [held -> Names] :
              /\ \A p \in held : [id |-> p, name |-> name[p]] \in q.items
              /\ permissions' =
                    [p \in Perms |->
                        IF p \in held
                        THEN Diff([state |-> "live", name |-> name[p]], q.rowsSeen[p], permissions[p])
                        ELSE permissions[p]]
        /\ NamesAreUnique(permissions')
        /\ \A p \in held \ q.grantsSeen : <<q.role, p>> \notin granted
        /\ granted' = (granted \ ({q.role} \X (q.grantsSeen \ held)))
                        \cup ({q.role} \X (held \ q.grantsSeen))
        /\ Answer(s)

-----------------------------------------------------------------------------
\* permission-create.ts: no live permission has the name, then one insert
PermissionCreateCheck(s, p, n) ==
    /\ Fresh(p)
    /\ \A q \in Perms : ~ (Live(q) /\ permissions[q].name = n)
    /\ Begin(s, [Idle EXCEPT !.at = "permissionCreate", !.perm = p, !.name = n])
    /\ UNCHANGED tables

\* permission-update.ts: the entity keeps the name that was read if the
\* request has none, and deletedAt: null
PermissionUpdateRead(s, p, n) ==
    /\ Live(p)
    /\ Begin(s, [Idle EXCEPT !.at = IF n = None THEN "permissionUpdate" ELSE "permissionCheck",
                             !.perm = p, !.name = IF n = None THEN permissions[p].name ELSE n])
    /\ UNCHANGED tables

PermissionCheck(s) ==
    /\ req[s].at = "permissionCheck"
    /\ ~ ExistsOnUpdate(req[s].name, req[s].perm)
    /\ Continue(s, "permissionUpdate")
    /\ UNCHANGED tables

\* permission-delete.ts: 409 when a role has the permission
PermissionDeleteRead(s, p) ==
    /\ Live(p)
    /\ RolesOf(p) = {}
    /\ Begin(s, [Idle EXCEPT !.at = "permissionDelete", !.perm = p,
                             !.name = permissions[p].name])
    /\ UNCHANGED tables

\* The insert or the UPDATE of the row, every column of it
PermissionWrite(s, step, state) ==
    /\ req[s].at = step
    /\ permissions' = [permissions EXCEPT ![req[s].perm] = [state |-> state, name |-> req[s].name]]
    /\ NamesAreUnique(permissions')
    /\ Answer(s)
    /\ UNCHANGED <<roles, granted>>

PermissionCreate(s) == PermissionWrite(s, "permissionCreate", "live")
PermissionUpdate(s) == PermissionWrite(s, "permissionUpdate", "live")
PermissionDelete(s) == PermissionWrite(s, "permissionDelete", "deleted")

\* 409 permissionExists, a constraint of the database or a query that fails:
\* the request is answered and nothing is written
Abort(s) ==
    /\ req[s].at # "idle"
    /\ Answer(s)
    /\ UNCHANGED tables

\* 404 roleNotFound, permissionNotFound
NotFound(s) ==
    /\ req[s].at = "idle"
    /\ (\E r \in Roles : ~ LiveRole(r)) \/ (\E p \in Perms : ~ Live(p))
    /\ UNCHANGED <<tables, req>>

-----------------------------------------------------------------------------
Arrive(s) ==
    \/ NotFound(s)
    \/ \E r \in Roles :
        \/ RoleUpdateRead(s, r) \/ RoleDeleteRead(s, r)
        \/ \E wanted \in Wishes : GrantRead(s, r, wanted) \/ RevokeRead(s, r, wanted)
    \/ \E p \in Perms :
        \/ \E n \in Names : PermissionCreateCheck(s, p, n)
        \/ \E n \in Names \cup {None} : PermissionUpdateRead(s, p, n)
        \/ PermissionDeleteRead(s, p)

Serve(s) ==
    \/ RoleUpdate(s) \/ RoleDelete(s)
    \/ GrantFind(s) \/ RevokeFind(s)
    \/ SaveLoadRole(s) \/ SaveLoadPermissions(s) \/ SaveCommit(s)
    \/ PermissionCreate(s)
    \/ PermissionCheck(s) \/ PermissionUpdate(s)
    \/ PermissionDelete(s)
    \/ Abort(s)

\* History: a row that a request edits is contended when another uses it
Note ==
    contended' = contended \cup
        {x \in Roles \cup Perms : \E s, t \in Slots :
            s # t /\ x \in Edits(req[s])' /\ x \in Uses(req[t])'}

Next ==
    /\ \/ \E r \in Roles : RoleCreate(r)
       \/ \E s \in Slots : Arrive(s) \/ Serve(s)
    /\ Note

Spec == Init /\ [][Next]_vars

-----------------------------------------------------------------------------
(***************************************************************************)
(* A role is deleted only when it has no permission, and a permission only *)
(* when no role has it (409 otherwise), so that a row of permissions_roles *)
(* joins two live rows -- unless the role or the permission was used by    *)
(* another request while it was edited.                                    *)
(***************************************************************************)
GrantsJoinLiveRowsUnlessContended ==
    \A r \in Roles \ contended : \A p \in Perms \ contended :
        <<r, p>> \in granted => LiveRole(r) /\ Live(p)

(***************************************************************************)
(* A role loses a permission only to a request that revokes it by name,    *)
(* although every grant and every revocation writes the whole list back.   *)
(***************************************************************************)
OnlyRevokedGrantsAreLost ==
    [][\A r \in Roles \ contended, p \in Perms \ contended :
          <<r, p>> \in granted /\ <<r, p>> \notin granted'
              => \E s \in Slots :
                    /\ req[s].role = r
                    /\ [name |-> permissions[p].name, canonical |-> TRUE] \in req[s].wanted]_vars

(***************************************************************************)
(* A permission keeps its name until an update renames it, although every  *)
(* grant and every revocation saves the names of all permissions of the    *)
(* role, and a delete writes the name it read.                             *)
(***************************************************************************)
OnlyUpdatesRename ==
    [][\A p \in Perms \ contended :
          permissions[p].state # "absent" /\ permissions'[p].name # permissions[p].name
              => \E s \in Slots : req[s].at = "permissionUpdate" /\ req[s].perm = p]_vars
-----------------------------------------------------------------------------
(***************************************************************************)
(* The inductive invariant.  Most of it says what a request in flight knows *)
(* of rows that nobody has contended since it read them.                    *)
(***************************************************************************)

\* A row that exists has a name
RowsAreNamed ==
    \A p \in Perms :
        \/ permissions[p] = NoRow
        \/ permissions[p].state # "absent" /\ permissions[p].name \in Names

\* What two requests in flight share is noted as soon as one of them edits it
ContentionIsNoted ==
    \A s, t \in Slots : s # t => \A x \in Edits(req[s]) \cap Uses(req[t]) : x \in contended

\* A permission that is yet to be inserted is in the list of one grant only
NewPermissionsHaveOneHolder ==
    \A p \in Perms : permissions[p].state = "absent" =>
        \A s, t \in Slots : p \in Ids(req[s].items) /\ p \in Ids(req[t].items) => s = t

\* A request has the role, or the permission and the name, that its step needs
RequestIsComplete(s) ==
    /\ req[s].at \in RoleSteps => req[s].role \in Roles
    /\ req[s].at \in PermissionSteps \cup {"permissionCreate"} =>
          req[s].perm \in Perms /\ req[s].name \in Names

\* The entity of a save has the names the permissions have
ItemsAreUpToDate(s) ==
    \A x \in req[s].items :
        permissions[x.id].state # "absent" /\ x.id \notin contended => x.name = permissions[x.id].name

\* A save writes a live role, and over rows that are as it saw them
SaverIsCurrent(s) ==
    /\ req[s].at \in SaveSteps /\ req[s].role \notin contended => LiveRole(req[s].role)
    /\ req[s].at = "saveCommit" => \A p \in Perms :
          /\ \/ req[s].rowsSeen[p] = NoRow
             \/ /\ p \in Ids(req[s].items) /\ req[s].rowsSeen[p].name \in Names
                /\ permissions[p].state # "absent"
          /\ req[s].rowsSeen[p].state = "live" /\ p \notin contended => Live(p)

\* A permission of the role that the entity lacks is one the request names
OnlyTheNamedAreDropped(s) ==
    req[s].at \in SaveSteps /\ req[s].role \notin contended =>
        \A p \in Perms \ contended :
            <<req[s].role, p>> \in granted /\ p \notin Ids(req[s].items) =>
                /\ req[s].at \notin {"grantFind", "revokeFind"}
                /\ [name |-> permissions[p].name, canonical |-> TRUE] \in req[s].wanted

\* What is being deleted has nothing, what is being created is not there yet
WriterIsCurrent(s) ==
    /\ req[s].at = "roleDelete" /\ req[s].role \notin contended =>
          \A p \in Perms \ contended : <<req[s].role, p>> \notin granted
    /\ req[s].at = "permissionDelete" /\ req[s].perm \notin contended =>
          /\ \A r \in Roles \ contended : <<r, req[s].perm>> \notin granted
          /\ permissions[req[s].perm].state # "absent"
          /\ permissions[req[s].perm].name = req[s].name
    /\ req[s].at = "permissionCreate" /\ req[s].perm \notin contended =>
          permissions[req[s].perm].state = "absent"

RequestInv(s) ==
    /\ RequestIsComplete(s) /\ ItemsAreUpToDate(s) /\ SaverIsCurrent(s)
    /\ OnlyTheNamedAreDropped(s) /\ WriterIsCurrent(s)

RbacInv ==
    /\ TypeOK /\ RowsAreNamed /\ ContentionIsNoted /\ NewPermissionsHaveOneHolder
    /\ GrantsJoinLiveRowsUnlessContended
    /\ \A s \in Slots : RequestInv(s)
=============================================================================
