--------------------------- MODULE MongoRepository ---------------------------
(***************************************************************************)
(* The repository adapter over a collection of MongoDB: every operation is *)
(* one query, except createOrUpdate, which finds the document and then     *)
(* inserts or $sets it, whatever happened in between.                      *)
(*                                                                         *)
(* A decorator adds deletedAt: null to the filter of most operations, when *)
(* there is one.                                                           *)
(***************************************************************************)
CONSTANTS
    Ids,        \* values of _id
    Fields,     \* the required fields of the schema
    Values,     \* what a field may hold
    Slots,      \* createOrUpdates in flight at the same time
    None

VARIABLES
    docs,       \* docs[i]: the document with _id i
    req,        \* req[s]: the createOrUpdate in flight in slot s
    answer,     \* the ids of the documents the last step answered
    by          \* the operation that answered

vars == <<docs, req, answer, by>>

Absent == [state |-> "absent", fields |-> [f \in Fields |-> None]]
Doc == {Absent} \cup [state : {"live", "deleted"}, fields : [Fields -> Values]]

\* An update: the fields it gives, and deletedAt if it gives that
Partial == [Fields -> Values \cup {None}]
Patch == [state : {"live", "deleted", None}, fields : Partial]
Total(p) == \A f \in Fields : p.fields[f] # None

\* A filter has at most one condition here: none, on the id or on a field
NoFilter == [on |-> None, eq |-> None]
Empty == [on |-> "all", eq |-> None]
Filters ==
    {Empty} \cup [on : {"id"}, eq : Ids] \cup [on : Fields, eq : Values]

Idle == [at |-> "idle", id |-> None, patch |-> None]
Request == {Idle} \cup [at : {"insert", "set"}, id : Ids, patch : Patch]

TypeOK ==
    /\ docs \in [Ids -> Doc]
    /\ req \in [Slots -> Request]
    /\ answer \subseteq Ids

Init ==
    /\ docs = [i \in Ids |-> Absent]
    /\ req = [s \in Slots |-> Idle]
    /\ answer = {}
    /\ by = "none"

-----------------------------------------------------------------------------
Present == {i \in Ids : docs[i].state # "absent"}
Live == {i \in Ids : docs[i].state = "live"}

Matching(w) ==
    {i \in Present :
        /\ w.on = "id" => i = w.eq
        /\ w.on \in Fields => docs[i].fields[w.on] = w.eq}

\* Mutant: deletedAt: null is added to filters by id only
ConvertIds(w) == IF w.on = "id" THEN Matching(w) \cap Live ELSE Matching(w)

\* The decorator: a filter that is not there stays away
Convert(w) == IF w = NoFilter THEN Present ELSE Matching(w) \cap Live

\* { ...document, ...update } by $set
Set(doc, p) ==
    [state |-> IF p.state = None THEN doc.state ELSE p.state,
     fields |-> [f \in Fields |-> IF p.fields[f] = None THEN doc.fields[f] ELSE p.fields[f]]]

SetAll(T, p) == docs' = [i \in Ids |-> IF i \in T THEN Set(docs[i], p) ELSE docs[i]]

Reply(op, A) == by' = op /\ answer' = A
Read(op, A) == Reply(op, A) /\ UNCHANGED <<docs, req>>

\* findOne and the like: one of the documents, or null
OneOf(T) == IF T = {} THEN {{}} ELSE {{i} : i \in T}

-----------------------------------------------------------------------------
Create(i, p) ==
    /\ Total(p) /\ i \notin Present
    /\ SetAll({i}, [p EXCEPT !.state = IF @ = None THEN "live" ELSE @])
    /\ Reply("create", {i})
    /\ UNCHANGED req

\* In order, up to the first whose _id is taken: those before it stay
InsertMany(T, p) ==
    /\ Total(p)
    /\ \E New \in SUBSET (T \ Present) :
          /\ T \cap Present = {} => New = T
          /\ SetAll(New, [p EXCEPT !.state = IF @ = None THEN "live" ELSE @])
    /\ Reply("insertMany", {})
    /\ UNCHANGED req

\* createOrUpdate finds the document by its id, soft-deleted or not
CreateOrUpdate(s, i, p) ==
    /\ req[s] = Idle
    /\ req' = [req EXCEPT ![s] =
                  [at |-> IF i \in Present THEN "set" ELSE "insert", id |-> i, patch |-> p]]
    /\ Reply("none", {})
    /\ UNCHANGED docs

\* ... and saves it: refused without its fields, or when its id is taken by now
Save(s) ==
    /\ req[s].at = "insert"
    /\ req' = [req EXCEPT ![s] = Idle]
    /\ IF Total(req[s].patch) /\ req[s].id \notin Present
       THEN /\ SetAll({req[s].id}, [req[s].patch EXCEPT !.state = IF @ = None THEN "live" ELSE @])
            /\ Reply("created", {req[s].id})
       ELSE Reply("error", {}) /\ UNCHANGED docs

\* ... or $sets it by its id alone: updated is answered when it has gone, too
SetById(s) ==
    /\ req[s].at = "set"
    /\ req' = [req EXCEPT ![s] = Idle]
    /\ SetAll({req[s].id} \cap Present, req[s].patch)
    /\ Reply("updated", {req[s].id} \cap Present)

Find(w) == Read("find", Convert(w))
FindById(i) == Read("findById", {i} \cap Present)
FindOne(w) == \E A \in OneOf(Convert(w)) : Read("findOne", A)
FindAll(w) == Read(IF w = NoFilter THEN "findAll" ELSE "find", Convert(w))

Remove(w) ==
    \E A \in OneOf(Convert(w)) :
        /\ docs' = [i \in Ids |-> IF i \in A THEN Absent ELSE docs[i]]
        /\ Reply("remove", {})
        /\ UNCHANGED req

UpdateOne(w, p) ==
    \E A \in OneOf(Convert(w)) : SetAll(A, p) /\ Reply("updateOne", {}) /\ UNCHANGED req

\* new: true, the document is answered as it is after the update
FindOneAndUpdate(w, p) ==
    \E A \in OneOf(Convert(w)) : SetAll(A, p) /\ Reply("findOneAndUpdate", A) /\ UNCHANGED req

UpdateMany(w, p) == SetAll(Convert(w), p) /\ Reply("updateMany", {}) /\ UNCHANGED req

FindIn(T) == Read("findIn", T \cap Live)
FindOr(K, v) ==
    Read("findOr", {i \in Live : \E k \in K :
                        IF k = "id" THEN i = v ELSE docs[i].fields[k] = v})
FindOneWithExcludeFields(w) == \E A \in OneOf(Convert(w)) : Read("findOneWithFields", A)
FindOneWithSelectFields(w) == \E A \in OneOf(Convert(w)) : Read("findOneWithFields", A)

\* The filter is the second parameter: it gets no deletedAt
ApplyFilter(w) == Matching(w)
FindAllWithExcludeFields(w) == Read("findAllWithFields", ApplyFilter(w))
FindAllWithSelectFields(w) == Read("findAllWithFields", ApplyFilter(w))
-----------------------------------------------------------------------------
Next ==
    \/ \E i \in Ids, p \in Patch : Create(i, p)
    \/ \E T \in SUBSET Ids, p \in Patch : InsertMany(T, p)
    \/ \E s \in Slots : Save(s) \/ SetById(s) \/ \E i \in Ids, p \in Patch : CreateOrUpdate(s, i, p)
    \/ \E i \in Ids : FindById(i)
    \/ \E w \in Filters : Find(w) \/ FindOne(w) \/ Remove(w)
    \/ \E w \in Filters, p \in Patch : UpdateOne(w, p) \/ FindOneAndUpdate(w, p) \/ UpdateMany(w, p)
    \/ \E T \in SUBSET Ids : FindIn(T)
    \/ \E K \in SUBSET (Fields \cup {"id"}), v \in Ids \cup Values : FindOr(K, v)
    \/ \E w \in Filters : FindOneWithExcludeFields(w) \/ FindOneWithSelectFields(w)
    \/ \E w \in Filters \cup {NoFilter} :
          FindAll(w) \/ FindAllWithExcludeFields(w) \/ FindAllWithSelectFields(w)

Spec == Init /\ [][Next]_vars

-----------------------------------------------------------------------------
(***************************************************************************)
(* Soft deletion and the operations that go around it: a soft-deleted      *)
(* document changes only by a createOrUpdate that found it, and is shown   *)
(* only by the finds that have no filter to add deletedAt: null to.        *)
(***************************************************************************)
Unfiltered == {"findById", "findAll", "findAllWithFields", "updated", "created", "create"}
DeletedAreOutOfReach ==
    [][\A i \in Ids :
          /\ docs[i].state = "deleted" /\ docs'[i] # docs[i] =>
                \E s \in Slots : req[s].at = "set" /\ req[s].id = i /\ req'[s] = Idle
          /\ i \in answer' /\ docs[i].state = "deleted" => by' \in Unfiltered]_vars

(***************************************************************************)
(* Two createOrUpdates of one new document do not both create it, and a    *)
(* document whose creation was answered is never written over by another   *)
(* one: what was there keeps the fields that an update does not give.      *)
(***************************************************************************)
CreationsDoNotOverwrite ==
    [][\A s \in Slots : req[s].at = "insert" /\ req'[s] = Idle =>
          \A i \in Present : docs'[i] = docs[i]]_vars

(***************************************************************************)
(* updateOne, findOneAndUpdate and remove, whose names say one, change at  *)
(* most one document of those their filter matches.                        *)
(***************************************************************************)
OneMeansOne ==
    [][by' \in {"updateOne", "findOneAndUpdate", "remove"} =>
          \A i, j \in Ids : docs'[i] # docs[i] /\ docs'[j] # docs[j] => i = j]_vars

(***************************************************************************)
(* The adapter as a store of soft-deleted rows: filtered writes reach live *)
(* documents only.                                                         *)
(***************************************************************************)
Store == INSTANCE SoftDeleteStore
             WITH rows <- docs, Reached <- {"live"}, Shown <- {"live", "deleted"}
ImplementsStore == Store!Spec
=============================================================================
