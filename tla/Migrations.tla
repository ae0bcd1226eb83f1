----------------------------- MODULE Migrations -----------------------------
(***************************************************************************)
(* The migrations of Postgres, run and undone without transactions: a      *)
(* statement that fails and a process that is cut leave what was done      *)
(* before, and a migration is recorded after its last statement.           *)
(***************************************************************************)
EXTENDS Naturals, Sequences

CONSTANTS
    MaxRuns,    \* bound on migration:run
    MaxUndos    \* bound on migration:undo

MigrationsAssumption == MaxRuns \in Nat /\ MaxUndos \in Nat

VARIABLES
    db,         \* the tables, indexes, foreign keys and rows, each one a tuple
    recorded,   \* the migrations of table migrations: the first ones
    mode,       \* idle, up or down
    at, pc,     \* the migration and the statement that is next
    runs, undos,
    changed,    \* the administrators that have changed their password
    moved,      \* the administrators that have changed their e-mail
    cutIn,      \* history: the migrations that were cut or failed half way
    made        \* history: what a synchronisation made

vars == <<db, recorded, mode, at, pc, runs, undos, changed, moved, cutIn, made>>

Tables == {"permissions", "roles", "users_password", "users", "reset_password",
           "permissions_roles", "users_roles"}
\* Two permissions stand for the two lists of them
Permissions == {"user", "backoffice"}
Roles == {"USER", "BACKOFFICE"}
\* Foreign keys: the table that has it and the one it refers to
ForeignKeys ==
    {<<"users", "users_password">>, <<"reset_password", "users">>, <<"permissions_roles", "roles">>,
     <<"permissions_roles", "permissions">>, <<"users_roles", "users">>, <<"users_roles", "roles">>}
Indexes == {"permissions_roles", "users_roles"} \X {"1", "2"}

\* What the schemas declare: the names TypeORM derives are those of the migrations
Entities == ({"table"} \X Tables) \cup ({"index"} \X Indexes) \cup ({"fk"} \X ForeignKeys)

Object ==
    Entities
    \cup ({"permission"} \X Permissions) \cup ({"role"} \X Roles) \cup {<<"extension">>}
    \cup ({"password", "admin"} \X (1 .. MaxRuns)) \cup ({"assigned"} \X (1 .. MaxRuns) \X Roles)
    \cup ({"granted"} \X Roles \X Permissions)

Admins == {n \in 1 .. MaxRuns : <<"admin", n>> \in db}
\* Those that are found by the e-mail of the seed
SeedAdmins == Admins \ moved
Tuples(tag) == {o \in db : o[1] = tag}

-----------------------------------------------------------------------------
\* A statement: it needs objects, refuses to find others, adds and removes
Statement(needs, refuses, adds, removes) ==
    [needs |-> needs, refuses |-> refuses, adds |-> adds, removes |-> removes]

CreateTable(t) == Statement({}, {}, {<<"table", t>>}, {})
CreateIndex(t, i) == Statement({<<"table", t>>}, {<<"index", <<t, i>>>>}, {<<"index", <<t, i>>>>}, {})
AddForeignKey(t, to) ==
    Statement({<<"table", t>>, <<"table", to>>}, {<<"fk", <<t, to>>>>}, {<<"fk", <<t, to>>>>}, {})
InsertUnique(t, row) == Statement({<<"table", t>>}, {row}, {row}, {})
Insert(t, row) == Statement({<<"table", t>>}, {}, {row}, {})
Grant(r, p) ==
    Statement({<<"role", r>>, <<"permission", p>>}, {<<"granted", r, p>>}, {<<"granted", r, p>>}, {})

\* Mutant: an index is created twice
CreateJoinTableTwice(t) == <<CreateTable(t), CreateIndex(t, "1"), CreateIndex(t, "1")>>

CreateJoinTable(t) == <<CreateTable(t), CreateIndex(t, "1"), CreateIndex(t, "2")>>

AddForeignKeys ==
    <<AddForeignKey("users", "users_password"), AddForeignKey("reset_password", "users"),
      AddForeignKey("permissions_roles", "roles"), AddForeignKey("permissions_roles", "permissions"),
      AddForeignKey("users_roles", "users"), AddForeignKey("users_roles", "roles")>>

\* They are sent at once, and the one connection takes them in turn: what is behind
\* a failed one may still come about, but one fails only behind a cut
InsertPermissions ==
    <<InsertUnique("permissions", <<"permission", "user">>),
      InsertUnique("permissions", <<"permission", "backoffice">>)>>

InsertRoles ==
    <<InsertUnique("roles", <<"role", "BACKOFFICE">>), InsertUnique("roles", <<"role", "USER">>)>>

\* Neither the password nor the email is unique: every run has new ids.  The grants
\* are sent at once, as the permissions are
InsertUser ==
    <<Insert("users_password", <<"password", runs>>), Insert("users", <<"admin", runs>>),
      Insert("users_roles", <<"assigned", runs, "BACKOFFICE">>),
      Insert("users_roles", <<"assigned", runs, "USER">>),
      Grant("USER", "user"), Grant("BACKOFFICE", "user"), Grant("BACKOFFICE", "backoffice")>>

\* The files of migrations/, by timestamp
Up ==
    <<<<CreateTable("permissions")>>, <<CreateTable("roles")>>, <<CreateTable("users_password")>>,
      <<CreateTable("users")>>, <<CreateTable("reset_password")>>,
      CreateJoinTable("permissions_roles"), CreateJoinTable("users_roles"),
      AddForeignKeys, InsertPermissions, InsertRoles, InsertUser,
      <<Statement({}, {}, {<<"extension">>}, {})>>>>

-----------------------------------------------------------------------------
\* queryRunner.dropTable: with its own indexes and keys, not with those of others
DropTable(t) ==
    Statement({}, {<<"fk", k>> : k \in {k \in ForeignKeys : k[2] = t}}, {},
              {<<"table", t>>} \cup {<<"index", <<t, i>>>> : i \in {"1", "2"}}
              \cup {<<"fk", k>> : k \in {k \in ForeignKeys : k[1] = t}})
DropIndex(t, i) == Statement({<<"index", <<t, i>>>>}, {}, {}, {<<"index", <<t, i>>>>})
DropJoinTable(t) == <<DropIndex(t, "1"), DropIndex(t, "2"), DropTable(t)>>
Nothing == Statement({}, {}, {}, {})

\* What TypeORM refuses: dropCheckConstraint of what is a foreign key, and
\* remove of what is no entity
Refused == Statement({<<"check">>}, {}, {}, {})

\* The passwords with the hash of the seed go first, and users refer to them
DeletePasswords ==
    LET seeded == (1 .. MaxRuns) \ changed IN
    Statement({}, IF <<"fk", <<"users", "users_password">>>> \in db
                  THEN {<<"admin", n>> : n \in seeded} ELSE {},
              {}, {<<"password", n>> : n \in seeded})
\* Mutant: the users stay, and lose their roles
DeleteAssignments == Statement({}, {}, {}, {o \in Tuples("assigned") : o[2] \in SeedAdmins})

\* By the e-mail of the seed; the roles of a user go with it.  That no request for
\* another password refers to them is assumed
DeleteAdmins ==
    Statement({}, {}, {}, {<<"admin", n>> : n \in SeedAdmins}
                          \cup {o \in Tuples("assigned") : o[2] \in SeedAdmins})
DeleteGrants == Statement({}, {}, {}, Tuples("granted"))

DropForeignKeys == <<Refused>>

\* createUserTable drops users_password; the roles are looked up by ids nobody has
Down ==
    <<<<DropTable("permissions")>>, <<DropTable("roles")>>, <<DropTable("users_password")>>,
      <<DropTable("users_password")>>, <<DropTable("reset_password")>>,
      DropJoinTable("permissions_roles"), DropJoinTable("users_roles"),
      DropForeignKeys, <<Refused>>, <<Nothing>>, <<DeletePasswords, DeleteAdmins, DeleteGrants>>,
      <<Statement({}, {}, {}, {<<"extension">>})>>>>

Statements == IF mode = "up" THEN Up[at] ELSE Down[at]

TypeOK ==
    /\ db \subseteq Object
    /\ recorded \in 0 .. 12 /\ mode \in {"idle", "up", "down"}
    /\ at \in 1 .. 12 /\ pc \in 1 .. 8
    /\ runs \in 0 .. MaxRuns /\ undos \in 0 .. MaxUndos
    /\ changed \subseteq 1 .. MaxRuns /\ moved \subseteq 1 .. MaxRuns
    /\ cutIn \subseteq 1 .. 12 /\ made \subseteq Entities

Init ==
    /\ db = {} /\ recorded = 0 /\ mode = "idle" /\ at = 1 /\ pc = 1
    /\ runs = 0 /\ undos = 0 /\ changed = {} /\ moved = {} /\ cutIn = {} /\ made = {}

-----------------------------------------------------------------------------
Run ==
    /\ mode = "idle" /\ recorded < 12 /\ runs < MaxRuns
    /\ mode' = "up" /\ at' = recorded + 1 /\ pc' = 1 /\ runs' = runs + 1
    /\ UNCHANGED <<db, recorded, undos, changed, moved, cutIn, made>>

Undo ==
    /\ mode = "idle" /\ recorded > 0 /\ undos < MaxUndos
    /\ mode' = "down" /\ at' = recorded /\ pc' = 1 /\ undos' = undos + 1
    /\ UNCHANGED <<db, recorded, runs, changed, moved, cutIn, made>>

Executes == LET s == Statements[pc] IN s.needs \subseteq db /\ s.refuses \cap db = {}

Execute ==
    /\ mode # "idle" /\ pc <= Len(Statements) /\ Executes
    /\ db' = (db \ Statements[pc].removes) \cup Statements[pc].adds
    /\ pc' = pc + 1
    /\ UNCHANGED <<recorded, mode, at, runs, undos, changed, moved, cutIn, made>>

\* The process ends, by a statement that fails or from outside
Stop ==
    /\ mode' = "idle" /\ at' = 1 /\ pc' = 1
    /\ cutIn' = IF pc > 1 THEN cutIn \cup {at} ELSE cutIn
    /\ UNCHANGED <<db, recorded, runs, undos, changed, moved, made>>
Fail == mode # "idle" /\ pc <= Len(Statements) /\ ~Executes /\ Stop
Cut == mode # "idle" /\ Stop

\* Mutant: a migration is recorded before its statements
RecordFirst ==
    /\ mode # "idle" /\ pc = Len(Statements)
    /\ recorded' = (IF mode = "up" THEN at ELSE at - 1)
    /\ IF mode = "up" /\ at < 12 THEN at' = at + 1 /\ UNCHANGED mode ELSE mode' = "idle" /\ at' = 1
    /\ pc' = 1
    /\ UNCHANGED <<db, runs, undos, changed, moved, cutIn, made>>

\* The migration is recorded, or no longer; a run goes on with the next one
Record ==
    /\ mode # "idle" /\ pc > Len(Statements)
    /\ recorded' = (IF mode = "up" THEN at ELSE at - 1)
    /\ IF mode = "up" /\ at < 12 THEN at' = at + 1 /\ UNCHANGED mode ELSE mode' = "idle" /\ at' = 1
    /\ pc' = 1
    /\ UNCHANGED <<db, runs, undos, changed, moved, cutIn, made>>

\* The application, at any time: an administrator has another password, or e-mail
ChangePassword(n) ==
    /\ n \in Admins \ changed /\ changed' = changed \cup {n}
    /\ UNCHANGED <<db, recorded, mode, at, pc, runs, undos, moved, cutIn, made>>
ChangeEmail(n) ==
    /\ n \in Admins \ moved /\ moved' = moved \cup {n}
    /\ UNCHANGED <<db, recorded, mode, at, pc, runs, undos, changed, cutIn, made>>

\* An application starts in the local environment, where synchronize is set: what its
\* schemas declare and the database lacks is made in one transaction, and not recorded
Synchronise ==
    /\ ~(Entities \subseteq db)
    /\ db' = db \cup Entities /\ made' = made \cup (Entities \ db)
    /\ UNCHANGED <<recorded, mode, at, pc, runs, undos, changed, moved, cutIn>>
-----------------------------------------------------------------------------
Next ==
    \/ Run \/ Undo \/ Execute \/ Fail \/ Cut \/ Record \/ Synchronise
    \/ \E n \in 1 .. MaxRuns : ChangePassword(n) \/ ChangeEmail(n)

Spec == Init /\ [][Next]_vars

-----------------------------------------------------------------------------
(***************************************************************************)
(* As long as nothing was undone, what a recorded migration adds is there, *)
(* wherever runs were cut.                                                 *)
(***************************************************************************)
AddedBy(m) == UNION {Up[m][n].adds : n \in 1 .. Len(Up[m])}
RecordedMeansDone ==
    undos = 0 =>
        /\ \A m \in (1 .. recorded) \ {11} : AddedBy(m) \subseteq db
        /\ recorded >= 11 => Admins # {} /\ {<<"granted", "BACKOFFICE", p>> : p \in Permissions} \subseteq db

(***************************************************************************)
(* There is a second administrator with the e-mail of the seed only when   *)
(* an earlier run of insertUser, or its undo, was cut half way.            *)
(***************************************************************************)
OneAdminUnlessCut ==
    (\E n, k \in SeedAdmins : n # k) => 11 \in cutIn

(***************************************************************************)
(* A run fails only where the same migration was cut half way before,      *)
(* after something was undone, or where an application has synchronised    *)
(* what it is about to make: tables IF NOT EXISTS heal; indexes, keys and  *)
(* rows do not.                                                            *)
(***************************************************************************)
RunsFailOnlyAfterCuts ==
    [][Fail /\ mode = "up" => \/ undos > 0 \/ at \in cutIn \cap {6, 7, 8, 9, 10, 11}
                              \/ Statements[pc].refuses \cap made # {}]_vars

(***************************************************************************)
(* Undoing never drops a table that has rows of a migration, although the  *)
(* down of createUserTable names the wrong one: it never gets past the     *)
(* keys.                                                                   *)
(***************************************************************************)
RowsOf(t) ==
    CASE t = "permissions" -> Tuples("permission") [] t = "roles" -> Tuples("role")
      [] t = "users_password" -> Tuples("password") [] t = "users" -> Tuples("admin")
      [] t = "users_roles" -> Tuples("assigned") [] t = "permissions_roles" -> Tuples("granted")
      [] OTHER -> {}
RowsKeepTheirTables == \A t \in Tables : RowsOf(t) # {} => <<"table", t>> \in db
=============================================================================
