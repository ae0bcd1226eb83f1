-------------------------------- MODULE Cats --------------------------------
(***************************************************************************)
(* The cats of the cat application: a collection of MongoDB and the use    *)
(* cases of core/cat, run by concurrent requests, each query a step.       *)
(*                                                                         *)
(* An update or a delete reads the document, soft-deleted or not, and      *)
(* $sets all of it, under a filter that only a live document passes.       *)
(***************************************************************************)
CONSTANTS
    Ids,        \* uuids: the bound on creations
    Fields,     \* name, breed and age
    Values,     \* what a field may hold
    Slots,      \* requests in flight at the same time
    None

ASSUME NoneIsNoValue == None \notin Ids \cup Values

VARIABLES
    cats,       \* cats[i]: the document with _id i
    req,        \* req[s]: the request in flight in slot s
    overlapped  \* history: the cats two requests were about to write at a time

vars == <<cats, req, overlapped>>

NoCat == [state |-> "absent", fields |-> [f \in Fields |-> None]]
Cat == {NoCat} \cup [state : {"live", "deleted"}, fields : [Fields -> Values]]

Steps == {"idle", "updateWrite", "deleteWrite", "reread", "found"}

\* A request: its next query, its cat, the fields of its body and the entity
Request ==
    [at : Steps, id : Ids \cup {None}, body : [Fields -> Values \cup {None}], entity : Cat]
Idle == [at |-> "idle", id |-> None, body |-> NoCat.fields, entity |-> NoCat]

TypeOK ==
    /\ cats \in [Ids -> Cat]
    /\ req \in [Slots -> Request]
    /\ overlapped \subseteq Ids

Init ==
    /\ cats = [i \in Ids |-> NoCat]
    /\ req = [s \in Slots |-> Idle]
    /\ overlapped = {}

-----------------------------------------------------------------------------
\* MongoRepository.findById: the document, soft-deleted or not
FindById(i) == cats[i].state # "absent"

\* Mutant: the filter is { _id } alone
UpdateOneUnfiltered(i, entity) == cats' = [cats EXCEPT ![i] = entity]

\* MongoRepository.updateOne: the decorator adds deletedAt: null to the filter
UpdateOne(i, entity) ==
    cats' = IF cats[i].state = "live" THEN [cats EXCEPT ![i] = entity] ELSE cats

\* Mutant: the cat that was read is not spread
MergeBodyOnly(fields, body) == body

\* { ...cat, ...input }
Merge(fields, body) == [f \in Fields |-> IF body[f] = None THEN fields[f] ELSE body[f]]

Writing(s, i) == req[s].at \in {"updateWrite", "deleteWrite"} /\ req[s].id = i
TakeOff(i) == overlapped' = overlapped \cup {j \in {i} : \E s \in Slots : Writing(s, j)}

Begin(s, step, i, body, entity) ==
    /\ req[s].at = "idle"
    /\ req' = [req EXCEPT ![s] = [at |-> step, id |-> i, body |-> body, entity |-> entity]]
Answer(s) == req' = [req EXCEPT ![s] = Idle]

\* cat-create.ts: one insert
Create(i, fields) ==
    /\ cats[i].state = "absent"
    /\ cats' = [cats EXCEPT ![i] = [state |-> "live", fields |-> fields]]
    /\ UNCHANGED <<req, overlapped>>

\* cat-update.ts; the body may say deletedAt: null
UpdateRead(s, i, body) ==
    /\ FindById(i)
    /\ \E state \in {cats[i].state, "live"} :
          Begin(s, "updateWrite", i, body,
                [state |-> state, fields |-> Merge(cats[i].fields, body)])
    /\ TakeOff(i)
    /\ UNCHANGED cats

UpdateWrite(s) ==
    /\ req[s].at = "updateWrite"
    /\ UpdateOne(req[s].id, req[s].entity)
    /\ req' = [req EXCEPT ![s].at = "reread"]
    /\ UNCHANGED overlapped

Reread(s) ==
    /\ req[s].at = "reread"
    /\ Answer(s)
    /\ UNCHANGED <<cats, overlapped>>

\* Mutant: the document is found without the id of the request
DeleteReadOther(s, i) ==
    /\ \E j \in Ids : FindById(j) /\ FindById(i)
          /\ Begin(s, "deleteWrite", i, Idle.body, [cats[j] EXCEPT !.state = "deleted"])
    /\ TakeOff(i)
    /\ UNCHANGED cats

\* cat-delete.ts: the entity that was read, with a deletedAt
DeleteRead(s, i) ==
    /\ FindById(i)
    /\ Begin(s, "deleteWrite", i, Idle.body, [cats[i] EXCEPT !.state = "deleted"])
    /\ TakeOff(i)
    /\ UNCHANGED cats

DeleteWrite(s) ==
    /\ req[s].at = "deleteWrite"
    /\ UpdateOne(req[s].id, req[s].entity)
    /\ Answer(s)
    /\ UNCHANGED overlapped

\* cat-get-by-id.ts: the cat is found and answered
GetById(s, i) ==
    /\ FindById(i)
    /\ Begin(s, "found", i, Idle.body, cats[i])
    /\ UNCHANGED <<cats, overlapped>>

AnswerFound(s) ==
    /\ req[s].at = "found"
    /\ Answer(s)
    /\ UNCHANGED <<cats, overlapped>>
\* A TypeError (500) when a document is gone is all that a reread can add; a
\* cat that was never created is answered 404
NotFound(s, i) ==
    /\ req[s].at = "idle"
    /\ ~ FindById(i)
    /\ UNCHANGED vars

Next ==
    \/ \E i \in Ids, fields \in [Fields -> Values] : Create(i, fields)
    \/ \E s \in Slots :
        \/ \E i \in Ids :
            \/ \E body \in [Fields -> Values \cup {None}] : UpdateRead(s, i, body)
            \/ DeleteRead(s, i) \/ GetById(s, i) \/ NotFound(s, i)
        \/ UpdateWrite(s) \/ Reread(s) \/ DeleteWrite(s) \/ AnswerFound(s)

Spec == Init /\ [][Next]_vars

-----------------------------------------------------------------------------
(***************************************************************************)
(* Nothing changes a cat after its delete, neither a write that was under  *)
(* way at that time nor one that comes later, although both find it, and   *)
(* even if it says deletedAt: null.                                        *)
(***************************************************************************)
DeletedCatsAreFrozen ==
    [][\A i \in Ids : cats[i].state = "deleted" => cats'[i] = cats[i]]_vars

(***************************************************************************)
(* A field changes only by an update whose body has it, although every     *)
(* update and delete writes all fields, unless two of them overlapped.     *)
(***************************************************************************)
OnlyNamedFieldsChange ==
    [][\A i \in Ids \ overlapped, f \in Fields :
          cats[i].state = "live" /\ cats'[i].fields[f] # cats[i].fields[f]
              => \E s \in Slots : Writing(s, i) /\ req[s].body[f] # None]_vars

-----------------------------------------------------------------------------
(***************************************************************************)
(* The inductive invariant behind the second (RepositoriesProofs).         *)
(***************************************************************************)
WritersAreNoted ==
    \A s, t \in Slots : \A i \in Ids :
        s # t /\ Writing(s, i) /\ Writing(t, i) => i \in overlapped

LoneEntityIsUpToDate ==
    \A s \in Slots : \A i \in Ids \ overlapped : \A f \in Fields :
        Writing(s, i) /\ req[s].body[f] = None
            => req[s].entity.fields[f] = cats[i].fields[f]

RequestsAreAboutCats ==
    \A s \in Slots :
        req[s].at # "idle" =>
            /\ req[s].id \in Ids
            /\ cats[req[s].id].state # "absent"
            /\ req[s].entity.state # "absent"

CatsInv ==
    /\ TypeOK
    /\ RequestsAreAboutCats
    /\ WritersAreNoted
    /\ LoneEntityIsUpToDate
=============================================================================
