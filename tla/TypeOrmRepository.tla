-------------------------- MODULE TypeOrmRepository --------------------------
(***************************************************************************)
(* The repository adapter over a table of PostgreSQL.  TypeORM hides       *)
(* soft-deleted rows from every find and from no update or delete; create  *)
(* is entity.save(), which selects the row and inserts or updates it;      *)
(* createOrUpdate and findOneAndUpdate are made of the other operations.   *)
(* Requests interleave between two queries.                                *)
(***************************************************************************)
CONSTANTS
    Ids,        \* primary keys
    Fields,     \* the columns besides id and deletedAt, none of them nullable
    Values,     \* what a column may hold
    Slots,      \* requests in flight at the same time
    None

VARIABLES
    rows,       \* rows[i]: the row with primary key i
    req,        \* req[s]: the request of several queries in flight in slot s
    answer,     \* the ids of the rows the last step answered
    outcome,    \* what the last step answered besides
    raced       \* history: the requests in flight while another one wrote

vars == <<rows, req, answer, outcome, raced>>

Absent == [state |-> "absent", fields |-> [f \in Fields |-> None]]
Row == {Absent} \cup [state : {"live", "deleted"}, fields : [Fields -> Values]]
Partial == [Fields -> Values \cup {None}]
Patch == [state : {"live", "deleted", None}, fields : Partial]
Total(p) == \A f \in Fields : p.fields[f] # None

\* A filter has at most one condition here: none, on the id or on a column
Empty == [on |-> "all", eq |-> None]
Filters == {Empty} \cup [on : {"id"}, eq : Ids] \cup [on : Fields, eq : Values]

Steps == {"idle", "save", "insert", "update", "updateAll", "find"}
NoPatch == [state |-> None, fields |-> [f \in Fields |-> None]]
Idle == [at |-> "idle", id |-> None, patch |-> NoPatch, given |-> NoPatch, filter |-> Empty]
Request == [at : Steps, id : Ids \cup {None}, patch : Patch, given : Patch, filter : Filters]

TypeOK ==
    /\ rows \in [Ids -> Row]
    /\ req \in [Slots -> Request]
    /\ answer \subseteq Ids
    /\ raced \subseteq Slots

Init ==
    /\ rows = [i \in Ids |-> Absent]
    /\ req = [s \in Slots |-> Idle]
    /\ answer = {} /\ outcome = "none" /\ raced = {}

-----------------------------------------------------------------------------
Present == {i \in Ids : rows[i].state # "absent"}
Live == {i \in Ids : rows[i].state = "live"}

\* The rows of a WHERE, soft-deleted or not
Where(w) ==
    {i \in Present :
        /\ w.on = "id" => i = w.eq
        /\ w.on \in Fields => rows[i].fields[w.on] = w.eq}

\* Mutant: withDeleted
VisibleWithDeleted(w) == Where(w)

\* ... and those a find selects: deletedAt IS NULL is added
Visible(w) == Where(w) \cap Live
OneOf(T) == IF T = {} THEN {{}} ELSE {{i} : i \in T}

Set(row, p) ==
    [state |-> IF p.state = None THEN row.state ELSE p.state,
     fields |-> [f \in Fields |-> IF p.fields[f] = None THEN row.fields[f] ELSE p.fields[f]]]

Put(T, p) == rows' = [i \in Ids |-> IF i \in T THEN Set(rows[i], p) ELSE rows[i]]

\* The patch that makes one row into another: what entity.save() updates
DiffOf(row, p) ==
    [state |-> IF p.state = row.state THEN None ELSE p.state,
     fields |-> [f \in Fields |-> IF p.fields[f] = row.fields[f] THEN None ELSE p.fields[f]]]

Reply(what, A) == outcome' = what /\ answer' = A
Select(A) == Reply("rows", A) /\ UNCHANGED <<rows, req, raced>>

Go(s, r) == req' = [req EXCEPT ![s] = r]
\* The other requests in flight are raced by a write of slot s
Race(s) ==
    raced' = IF rows' = rows
             THEN raced \ {t \in {s} : req'[t] = Idle}
             ELSE {t \in Slots \ {s} : req[t] # Idle} \cup (raced \ {t \in {s} : req'[t] = Idle})
Wrote == raced' = IF rows' = rows THEN raced ELSE {t \in Slots : req[t] # Idle}

-----------------------------------------------------------------------------
\* create: entity.save() of a whole entity
Create(s, i, p) ==
    /\ req[s] = Idle /\ Total(p)
    /\ Go(s, [Idle EXCEPT !.at = "save", !.id = i, !.patch = p, !.given = p])
    /\ Reply("none", {})
    /\ UNCHANGED <<rows, raced>>

\* ... selects the row, soft-deleted or not,
SaveLoad(s) ==
    /\ req[s].at = "save"
    /\ Go(s, IF req[s].id \in Present
             THEN [req[s] EXCEPT !.at = "update", !.patch = DiffOf(rows[req[s].id], @)]
             ELSE [req[s] EXCEPT !.at = "insert"])
    /\ Reply("none", {})
    /\ UNCHANGED <<rows, raced>>

\* ... and inserts it: refused without a column or when the key is taken by now
SaveInsert(s) ==
    /\ req[s].at = "insert"
    /\ Go(s, Idle)
    /\ IF Total(req[s].patch) /\ req[s].id \notin Present
       THEN /\ Put({req[s].id}, [req[s].patch EXCEPT !.state = IF @ = None THEN "live" ELSE @])
            /\ Reply("created", {req[s].id} \cap {i \in Ids : rows'[i].state = "live"})
       ELSE Reply("error", {}) /\ UNCHANGED rows
    /\ Race(s)

\* ... or updates the columns that differ, by the key, if the row is there still
SaveUpdate(s) ==
    /\ req[s].at = "update"
    /\ Go(s, Idle)
    /\ Put({req[s].id} \cap Present, req[s].patch)
    /\ Reply("created", {})
    /\ Race(s)

\* One statement: all of the rows or none
InsertMany(T, p) ==
    /\ Total(p)
    /\ IF T \cap Present = {}
       THEN /\ Put(T, [p EXCEPT !.state = IF @ = None THEN "live" ELSE @])
            /\ Reply("none", {})
       ELSE Reply("error", {}) /\ UNCHANGED rows
    /\ UNCHANGED req /\ Wrote

\* Mutant: { ...updated, ...exists }
CreateOrUpdateSwapped(s, i, p) ==
    /\ req[s] = Idle
    /\ Go(s, IF i \in Live
             THEN [Idle EXCEPT !.at = "updateAll", !.id = i, !.patch = Set(p, rows[i]), !.given = p]
             ELSE [Idle EXCEPT !.at = "save", !.id = i, !.patch = p, !.given = p])
    /\ Reply("none", {})
    /\ UNCHANGED <<rows, raced>>

\* createOrUpdate: findById sees live rows only; the others are created
CreateOrUpdate(s, i, p) ==
    /\ req[s] = Idle
    /\ Go(s, IF i \in Live
             THEN [Idle EXCEPT !.at = "updateAll", !.id = i, !.patch = Set(rows[i], p), !.given = p]
             ELSE [Idle EXCEPT !.at = "save", !.id = i, !.patch = p, !.given = p])
    /\ Reply("none", {})
    /\ UNCHANGED <<rows, raced>>

\* ... update with { ...exists, ...updated }: every column as it was read
UpdateFound(s) ==
    /\ req[s].at = "updateAll"
    /\ Go(s, Idle)
    /\ Put({req[s].id} \cap Present, req[s].patch)
    /\ Reply(IF req[s].id \in Present THEN "updated" ELSE "notUpdated", {})
    /\ Race(s)

FindById(i) == Select({i} \cap Live)
FindAll == Select(Live)
Find(w) == Select(Visible(w))
FindIn(T) == Select(T \cap Live)
FindOr(K, v) ==
    Select({i \in Live : \E k \in K : IF k = "id" THEN i = v ELSE rows[i].fields[k] = v})
FindOne(w) == \E A \in OneOf(Visible(w)) : Select(A)
FindOneWithFields(w) == FindOne(w)
FindAllWithFields(w) == Find(w)

\* delete and update take any row; TypeORM refuses an empty criterion
Remove(w) ==
    /\ w # Empty
    /\ rows' = [i \in Ids |-> IF i \in Where(w) THEN Absent ELSE rows[i]]
    /\ Reply("none", {}) /\ UNCHANGED req /\ Wrote

UpdateOne(w, p) ==
    /\ w # Empty /\ p # NoPatch
    /\ Put(Where(w), p)
    /\ Reply("none", {}) /\ UNCHANGED req /\ Wrote
UpdateMany(w, p) == UpdateOne(w, p)

\* findOneAndUpdate updates every row of the filter
FindOneAndUpdate(s, w, p) ==
    /\ req[s] = Idle /\ w # Empty /\ p # NoPatch
    /\ Put(Where(w), p)
    /\ Go(s, [Idle EXCEPT !.at = "find", !.filter = w, !.given = p,
                          !.id = IF Visible(w) = {} THEN None ELSE CHOOSE i \in Visible(w) : TRUE])
    /\ Reply("none", {})
    /\ Race(s)

\* ... and finds one by the same filter, which the update may have moved it from
FindUpdated(s) ==
    /\ req[s].at = "find"
    /\ Go(s, Idle)
    /\ \E A \in OneOf(Visible(req[s].filter)) : Reply("rows", A)
    /\ UNCHANGED rows
    /\ Race(s)
-----------------------------------------------------------------------------
Next ==
    \/ \E s \in Slots, i \in Ids, p \in Patch : Create(s, i, p) \/ CreateOrUpdate(s, i, p)
    \/ \E s \in Slots : SaveLoad(s) \/ SaveInsert(s) \/ SaveUpdate(s) \/ UpdateFound(s) \/ FindUpdated(s)
    \/ \E T \in SUBSET Ids, p \in Patch : InsertMany(T, p)
    \/ \E i \in Ids : FindById(i)
    \/ \E T \in SUBSET Ids : FindIn(T)
    \/ \E K \in SUBSET (Fields \cup {"id"}), v \in Ids \cup Values : FindOr(K, v)
    \/ FindAll
    \/ \E w \in Filters : Find(w) \/ FindOne(w) \/ FindOneWithFields(w) \/ FindAllWithFields(w) \/ Remove(w)
    \/ \E w \in Filters, p \in Patch :
          UpdateOne(w, p) \/ UpdateMany(w, p) \/ \E s \in Slots : FindOneAndUpdate(s, w, p)

Spec == Init /\ [][Next]_vars

-----------------------------------------------------------------------------
(***************************************************************************)
(* createOrUpdate and create write columns as they were read.  Unless      *)
(* another request wrote in between, they change nothing but what they     *)
(* were given: a request that raced nobody loses no update.                *)
(***************************************************************************)
QuietWritesKeepTheRest ==
    [][\A s \in Slots :
          req[s].at \in {"update", "updateAll"} /\ req'[s] = Idle /\ s \notin raced =>
              \A i \in Present :
                  rows'[i] = IF i = req[s].id THEN Set(rows[i], req[s].given) ELSE rows[i]]_vars

(***************************************************************************)
(* createOrUpdate answers updated only if its row is there to be updated,  *)
(* also when it was removed after it was found.                            *)
(***************************************************************************)
UpdatedMeansThere ==
    [][outcome' = "updated" =>
          \E s \in Slots : req[s].at = "updateAll" /\ req'[s] = Idle /\ req[s].id \in Present]_vars

\* A findOneAndUpdate whose update takes its own rows out of its filter
MovedByItself(r) ==
    \/ r.given.state = "deleted"
    \/ r.filter.on \in Fields /\ r.given.fields[r.filter.on] \notin {None, r.filter.eq}

(***************************************************************************)
(* findOneAndUpdate answers nobody, although a live row matched its        *)
(* filter, only if the update itself made the row match no longer or       *)
(* another request wrote in between.                                       *)
(***************************************************************************)
NobodyIsExplained ==
    [][\A s \in Slots :
          /\ req[s].at = "find" /\ req'[s] = Idle
          /\ req[s].id # None /\ answer' = {}
          => s \in raced \/ MovedByItself(req[s])]_vars

(***************************************************************************)
(* The adapter as a store of soft-deleted rows: no answer shows one, and   *)
(* writes reach them all the same.                                         *)
(***************************************************************************)
Store == INSTANCE SoftDeleteStore WITH Reached <- {"live", "deleted"}, Shown <- {"live"}
ImplementsStore == Store!Spec

-----------------------------------------------------------------------------
(***************************************************************************)
(* The inductive invariant behind the properties of requests               *)
(* (RepositoriesProofs): until another request writes, the row that a      *)
(* findOneAndUpdate updated matches its filter still, and what a create or *)
(* a createOrUpdate is about to write amounts to what it was given.        *)
(***************************************************************************)
FoundStillMatches(s) ==
    req[s].at = "find" /\ req[s].id # None /\ s \notin raced /\ ~ MovedByItself(req[s])
        => req[s].id \in Visible(req[s].filter)

PatchIsTheGiven(s) ==
    req[s].at \in {"update", "updateAll"} /\ s \notin raced
        => /\ req[s].id \in Ids
           /\ Set(rows[req[s].id], req[s].patch) = Set(rows[req[s].id], req[s].given)

SavesTheGiven(s) == req[s].at = "save" => req[s].patch = req[s].given

RepositoryInv ==
    /\ TypeOK
    /\ \A s \in Slots : FoundStillMatches(s) /\ PatchIsTheGiven(s) /\ SavesTheGiven(s)
=============================================================================
