------------------------- MODULE RepositoriesProofs -------------------------
(***************************************************************************)
(* Proofs about the cats and about the two repository adapters, for every  *)
(* set of ids, fields, columns, values, requests and callers: the writes   *)
(* of cats respect deletions and each other's fields, and each adapter is  *)
(* a store of soft-deleted rows that keeps what is particular to it.       *)
(***************************************************************************)
EXTENDS MCRepositories, TLAPS

-----------------------------------------------------------------------------
LEMMA CatsBlank == NoCat \in Cat /\ Idle \in Request
  BY DEF NoCat, Cat, Idle, Request, Steps

(***************************************************************************)
(* What a write leaves in the collection: a deleted or absent cat as it    *)
(* was, and every other cat as it was.                                     *)
(***************************************************************************)
LEMMA UpdateOneFacts ==
  ASSUME cats \in [Ids -> Cat], NEW i \in Ids, NEW entity \in Cat, UpdateOne(i, entity)
  PROVE  /\ cats' \in [Ids -> Cat]
         /\ \A j \in Ids : cats[j].state # "live" \/ j # i => cats'[j] = cats[j]
         /\ cats[i].state = "live" => cats'[i] = entity
  BY DEF UpdateOne

LEMMA MergeType ==
  ASSUME NEW fields \in [Fields -> Values], NEW body \in [Fields -> Values \cup {None}]
  PROVE  Merge(fields, body) \in [Fields -> Values]
  BY DEF Merge

LEMMA CatFacts ==
  ASSUME NEW c \in Cat
  PROVE  /\ c.state \in {"absent", "live", "deleted"}
         /\ c.state # "absent" => c \in [state : {"live", "deleted"}, fields : [Fields -> Values]]
         /\ c.fields \in [Fields -> Values \cup {None}]
  BY DEF Cat, NoCat

LEMMA CatsInit == Init => CatsInv
  <1> SUFFICES ASSUME Init PROVE CatsInv
    OBVIOUS
  <1>1. TypeOK
    BY CatsBlank DEF Init, TypeOK
  <1>2. \A s \in Slots : req[s].at = "idle"
    BY DEF Init, Idle
  <1> QED
    BY <1>1, <1>2
    DEF CatsInv, RequestsAreAboutCats, WritersAreNoted, LoneEntityIsUpToDate, Writing

(***************************************************************************)
(* A request takes off: it has read cat i, and will write `entity' or only *)
(* answer with it.                                                         *)
(***************************************************************************)
LEMMA TakingOff ==
  ASSUME CatsInv, NEW s \in Slots, NEW i \in Ids,
         NEW step \in {"updateWrite", "deleteWrite"},
         NEW body \in [Fields -> Values \cup {None}], NEW entity \in Cat,
         cats[i].state # "absent", entity.state # "absent",
         \A f \in Fields : body[f] = None => entity.fields[f] = cats[i].fields[f],
         Begin(s, step, i, body, entity), TakeOff(i), UNCHANGED cats
  PROVE  CatsInv'
  <1> DEFINE r == [at |-> step, id |-> i, body |-> body, entity |-> entity]
  <1>1. r \in Request
    BY DEF Request, Steps
  <1>2. req' = [req EXCEPT ![s] = r] /\ req \in [Slots -> Request]
    BY DEF Begin, CatsInv, TypeOK
  <1>3. req'[s] = r /\ \A t \in Slots \ {s} : req'[t] = req[t]
    BY <1>2
  <1>4. overlapped \subseteq overlapped' /\ overlapped' \subseteq Ids
    BY DEF TakeOff, CatsInv, TypeOK
  <1>5. \A t \in Slots \ {s} : Writing(t, i) => i \in overlapped'
    BY DEF TakeOff
  <1>6. TypeOK'
    BY <1>1, <1>2, <1>4 DEF CatsInv, TypeOK
  <1>7. RequestsAreAboutCats'
    BY <1>3 DEF CatsInv, RequestsAreAboutCats
  <1>8. \A t \in Slots \ {s} : \A j \in Ids : Writing(t, j)' <=> Writing(t, j)
    BY <1>3 DEF Writing
  <1>9. \A j \in Ids : Writing(s, j)' => j = i
    BY <1>3 DEF Writing
  <1>10. WritersAreNoted'
    <2> SUFFICES ASSUME NEW t \in Slots, NEW u \in Slots, NEW j \in Ids,
                        t # u, Writing(t, j)', Writing(u, j)'
                 PROVE  j \in overlapped'
      BY DEF WritersAreNoted
    <2>1. CASE t = s \/ u = s
      BY <2>1, <1>5, <1>8, <1>9
    <2>2. CASE t # s /\ u # s
      BY <2>2, <1>4, <1>8 DEF CatsInv, WritersAreNoted
    <2> QED
      BY <2>1, <2>2
  <1>11. LoneEntityIsUpToDate'
    <2> SUFFICES ASSUME NEW t \in Slots, NEW j \in Ids \ overlapped', NEW f \in Fields,
                        Writing(t, j)', req'[t].body[f] = None
                 PROVE  req'[t].entity.fields[f] = cats'[j].fields[f]
      BY DEF LoneEntityIsUpToDate
    <2>1. CASE t = s
      BY <2>1, <1>3, <1>9
    <2>2. CASE t # s
      BY <2>2, <1>3, <1>4, <1>8 DEF CatsInv, LoneEntityIsUpToDate
    <2> QED
      BY <2>1, <2>2
  <1> QED
    BY <1>6, <1>7, <1>10, <1>11 DEF CatsInv

(***************************************************************************)
(* A request that stops being a writer of its cat, without a write.        *)
(***************************************************************************)
LEMMA Passing ==
  ASSUME CatsInv, NEW s \in Slots, NEW r \in Request,
         r.at \notin {"updateWrite", "deleteWrite"},
         r.at # "idle" => /\ r.id \in Ids /\ cats[r.id].state # "absent"
                          /\ r.entity.state # "absent",
         req' = [req EXCEPT ![s] = r], UNCHANGED <<cats, overlapped>>
  PROVE  CatsInv'
  <1>1. req'[s] = r /\ \A t \in Slots \ {s} : req'[t] = req[t]
    BY DEF CatsInv, TypeOK
  <1>2. TypeOK'
    BY DEF CatsInv, TypeOK
  <1>3. \A t \in Slots : \A i \in Ids : Writing(t, i)' => t # s /\ Writing(t, i)
    BY <1>1 DEF Writing
  <1>4. RequestsAreAboutCats'
    BY <1>1 DEF CatsInv, RequestsAreAboutCats
  <1>5. WritersAreNoted'
    BY <1>3 DEF CatsInv, WritersAreNoted
  <1>6. LoneEntityIsUpToDate'
    BY <1>1, <1>3 DEF CatsInv, LoneEntityIsUpToDate
  <1> QED
    BY <1>2, <1>4, <1>5, <1>6 DEF CatsInv

(***************************************************************************)
(* A write: other requests about the cat, if any, have been noted.         *)
(***************************************************************************)
LEMMA Writes ==
  ASSUME CatsInv, NEW s \in Slots, NEW r \in Request,
         req[s].at \in {"updateWrite", "deleteWrite"},
         r = Idle \/ r = [req[s] EXCEPT !.at = "reread"],
         UpdateOne(req[s].id, req[s].entity),
         req' = [req EXCEPT ![s] = r], UNCHANGED overlapped
  PROVE  CatsInv'
  <1> DEFINE i == req[s].id
  <1>1. req'[s] = r /\ \A t \in Slots \ {s} : req'[t] = req[t]
    BY DEF CatsInv, TypeOK
  <1>2. i \in Ids /\ req[s] \in Request /\ req[s].entity.state # "absent"
    BY DEF CatsInv, RequestsAreAboutCats, TypeOK
  <1>3. req[s].entity \in Cat
    BY <1>2 DEF Request
  <1>4. /\ cats' \in [Ids -> Cat]
        /\ \A j \in Ids : cats[j].state # "live" \/ j # i => cats'[j] = cats[j]
        /\ cats[i].state = "live" => cats'[i] = req[s].entity
    BY <1>2, <1>3, UpdateOneFacts DEF CatsInv, TypeOK
  <1>5. TypeOK'
    BY <1>4 DEF CatsInv, TypeOK
  <1>6. \A j \in Ids : cats[j].state # "absent" => cats'[j].state # "absent"
    BY <1>2, <1>4
  <1>7. r.at # "idle" => r.id = i /\ r.entity = req[s].entity
    BY <1>2 DEF Idle, Request
  <1>8. RequestsAreAboutCats'
    BY <1>1, <1>2, <1>6, <1>7 DEF CatsInv, RequestsAreAboutCats
  <1>9. r.at \notin {"updateWrite", "deleteWrite"}
    BY <1>2 DEF Idle, Request
  <1>10. \A t \in Slots : \A j \in Ids : Writing(t, j)' => t # s /\ Writing(t, j)
    BY <1>1, <1>9 DEF Writing
  <1>11. WritersAreNoted'
    BY <1>10 DEF CatsInv, WritersAreNoted
  <1>12. Writing(s, i)
    BY DEF Writing
  <1>13. LoneEntityIsUpToDate'
    <2> SUFFICES ASSUME NEW t \in Slots, NEW j \in Ids \ overlapped', NEW f \in Fields,
                        Writing(t, j)', req'[t].body[f] = None
                 PROVE  req'[t].entity.fields[f] = cats'[j].fields[f]
      BY DEF LoneEntityIsUpToDate
    <2>1. t # s /\ Writing(t, j) /\ req'[t] = req[t]
      BY <1>1, <1>10
    <2>2. j # i
      BY <2>1, <1>2, <1>12 DEF CatsInv, WritersAreNoted
    <2> QED
      BY <2>1, <2>2, <1>4 DEF CatsInv, LoneEntityIsUpToDate
  <1> QED
    BY <1>5, <1>8, <1>11, <1>13 DEF CatsInv

LEMMA CatsStep == CatsInv /\ [Next]_vars => CatsInv'
  <1> SUFFICES ASSUME CatsInv, [Next]_vars PROVE CatsInv'
    OBVIOUS
  <1>t. /\ cats \in [Ids -> Cat] /\ req \in [Slots -> Request]
    BY DEF CatsInv, TypeOK
  <1>1. ASSUME NEW i \in Ids, NEW fields \in [Fields -> Values], Create(i, fields) PROVE CatsInv'
    <2>1. /\ cats' \in [Ids -> Cat]
          /\ \A j \in Ids : cats[j].state # "absent" => cats'[j] = cats[j]
      BY <1>1, <1>t DEF Create, Cat
    <2>2. TypeOK'
      BY <1>1, <2>1 DEF Create, CatsInv, TypeOK
    <2>3. RequestsAreAboutCats'
      BY <1>1, <2>1 DEF Create, CatsInv, RequestsAreAboutCats
    <2>4. WritersAreNoted'
      BY <1>1 DEF Create, CatsInv, WritersAreNoted, Writing
    <2>5. LoneEntityIsUpToDate'
      <3> SUFFICES ASSUME NEW t \in Slots, NEW j \in Ids \ overlapped', NEW f \in Fields,
                          Writing(t, j)', req'[t].body[f] = None
                   PROVE  req'[t].entity.fields[f] = cats'[j].fields[f]
        BY DEF LoneEntityIsUpToDate
      <3>1. Writing(t, j) /\ req' = req /\ overlapped' = overlapped
        BY <1>1 DEF Create, Writing
      <3>2. cats'[j] = cats[j]
        BY <3>1, <2>1 DEF CatsInv, RequestsAreAboutCats, Writing
      <3> QED
        BY <3>1, <3>2 DEF CatsInv, LoneEntityIsUpToDate
    <2> QED
      BY <2>2, <2>3, <2>4, <2>5 DEF CatsInv
  <1>2. ASSUME NEW s \in Slots, NEW i \in Ids, NEW body \in [Fields -> Values \cup {None}],
               UpdateRead(s, i, body)
        PROVE  CatsInv'
    <2>1. PICK state \in {cats[i].state, "live"} :
             Begin(s, "updateWrite", i, body,
                   [state |-> state, fields |-> Merge(cats[i].fields, body)])
      BY <1>2 DEF UpdateRead
    <2> DEFINE entity == [state |-> state, fields |-> Merge(cats[i].fields, body)]
    <2>2. cats[i].state # "absent" /\ cats[i] \in Cat
      BY <1>2, <1>t DEF UpdateRead, FindById
    <2>3. cats[i].fields \in [Fields -> Values] /\ state \in {"live", "deleted"}
      BY <2>2, CatFacts
    <2>4. entity \in Cat /\ entity.state # "absent"
      BY <2>3, MergeType DEF Cat
    <2>5. \A f \in Fields : body[f] = None => entity.fields[f] = cats[i].fields[f]
      BY <2>3 DEF Merge
    <2>6. TakeOff(i) /\ UNCHANGED cats
      BY <1>2 DEF UpdateRead
    <2> HIDE DEF entity
    <2>7. Begin(s, "updateWrite", i, body, entity)
      BY <2>1 DEF entity
    <2> QED
      BY <2>2, <2>4, <2>5, <2>6, <2>7, TakingOff
  <1>3. ASSUME NEW s \in Slots, NEW i \in Ids, DeleteRead(s, i) PROVE CatsInv'
    <2> DEFINE entity == [cats[i] EXCEPT !.state = "deleted"]
    <2>1. cats[i].state # "absent" /\ cats[i] \in Cat
      BY <1>3, <1>t DEF DeleteRead, FindById
    <2>2. cats[i] \in [state : {"live", "deleted"}, fields : [Fields -> Values]]
      BY <2>1, CatFacts
    <2>3. entity \in Cat /\ entity.state # "absent" /\ entity.fields = cats[i].fields
      BY <2>2 DEF Cat
    <2>4. Idle.body \in [Fields -> Values \cup {None}]
      BY DEF Idle, NoCat
    <2>5. /\ Begin(s, "deleteWrite", i, Idle.body, entity) /\ TakeOff(i) /\ UNCHANGED cats
      BY <1>3 DEF DeleteRead
    <2> HIDE DEF entity
    <2> QED
      BY <2>1, <2>3, <2>4, <2>5, TakingOff
  <1>4. ASSUME NEW s \in Slots, NEW i \in Ids, GetById(s, i) PROVE CatsInv'
    <2> DEFINE r == [at |-> "found", id |-> i, body |-> Idle.body, entity |-> cats[i]]
    <2>1. r \in Request /\ r.at = "found" /\ r.id = i /\ r.entity = cats[i]
      BY <1>t DEF Request, Steps, Idle, NoCat
    <2>2. req' = [req EXCEPT ![s] = r] /\ UNCHANGED <<cats, overlapped>>
      BY <1>4 DEF GetById, Begin
    <2>3. cats[i].state # "absent"
      BY <1>4 DEF GetById, FindById
    <2> HIDE DEF r
    <2> QED
      BY <2>1, <2>2, <2>3, Passing
  <1>5. ASSUME NEW s \in Slots, UpdateWrite(s) PROVE CatsInv'
    <2> DEFINE r == [req[s] EXCEPT !.at = "reread"]
    <2>1. r \in Request
      BY <1>t DEF Request, Steps
    <2>2. req' = [req EXCEPT ![s] = r]
      BY <1>5 DEF UpdateWrite
    <2>3. /\ req[s].at = "updateWrite" /\ UpdateOne(req[s].id, req[s].entity)
          /\ UNCHANGED overlapped
      BY <1>5 DEF UpdateWrite
    <2> QED
      BY <2>1, <2>2, <2>3, Writes
  <1>6. ASSUME NEW s \in Slots, DeleteWrite(s) PROVE CatsInv'
    BY <1>6, CatsBlank, Writes DEF DeleteWrite, Answer
  <1>7. ASSUME NEW s \in Slots, Reread(s) \/ AnswerFound(s) PROVE CatsInv'
    <2>1. req' = [req EXCEPT ![s] = Idle] /\ UNCHANGED <<cats, overlapped>>
      BY <1>7 DEF Reread, AnswerFound, Answer
    <2>2. Idle.at = "idle"
      BY DEF Idle
    <2> QED
      BY <2>1, <2>2, CatsBlank, Passing
  <1>8. ASSUME UNCHANGED vars PROVE CatsInv'
    BY <1>8 DEF vars, CatsInv, TypeOK, RequestsAreAboutCats, WritersAreNoted,
                LoneEntityIsUpToDate, Writing
  <1> QED
    BY <1>1, <1>2, <1>3, <1>4, <1>5, <1>6, <1>7, <1>8 DEF Next, NotFound

LEMMA CatsInvHolds == Spec => []CatsInv
  BY CatsInit, CatsStep, PTL DEF Spec

(***************************************************************************)
(* The collection and the requests have their types: in particular a cat   *)
(* that is there has a value in every field (cat-create.ts, cat-update.ts).*)
(***************************************************************************)
THEOREM TypeCorrect == Spec => []TypeOK
  <1>1. CatsInv => TypeOK
    BY DEF CatsInv
  <1> QED
    BY <1>1, CatsInvHolds, PTL

(***************************************************************************)
(* A deleted cat never changes, whatever was under way when it was deleted *)
(* (cat-update.ts:31, cat-delete.ts:29).                                   *)
(***************************************************************************)
THEOREM DeletionIsFinal == Spec => DeletedCatsAreFrozen
  <1>1. CatsInv /\ [Next]_vars
            => [\A i \in Ids : cats[i].state = "deleted" => cats'[i] = cats[i]]_vars
    <2> SUFFICES ASSUME CatsInv, Next, NEW i \in Ids, cats[i].state = "deleted"
                 PROVE  cats'[i] = cats[i]
      BY DEF vars
    <2>t. cats \in [Ids -> Cat] /\ req \in [Slots -> Request]
      BY DEF CatsInv, TypeOK
    <2>1. ASSUME NEW j \in Ids, NEW fields \in [Fields -> Values], Create(j, fields)
          PROVE  cats'[i] = cats[i]
      BY <2>1, <2>t DEF Create
    <2>2. ASSUME NEW s \in Slots, UpdateWrite(s) \/ DeleteWrite(s) PROVE cats'[i] = cats[i]
      <3>1. UpdateOne(req[s].id, req[s].entity) /\ req[s].at # "idle"
        BY <2>2 DEF UpdateWrite, DeleteWrite
      <3>2. req[s].id \in Ids
        BY <3>1 DEF CatsInv, RequestsAreAboutCats
      <3> QED
        BY <3>1, <3>2, <2>t DEF UpdateOne
    <2>3. ASSUME UNCHANGED cats PROVE cats'[i] = cats[i]
      BY <2>3
    <2> QED
      BY <2>1, <2>2, <2>3
      DEF Next, UpdateRead, DeleteRead, GetById, NotFound, Reread, AnswerFound, vars
  <1> QED
    BY <1>1, CatsInvHolds, PTL DEF Spec, DeletedCatsAreFrozen

(***************************************************************************)
(* A field of a live cat is changed by an update that names it, unless     *)
(* writers of the cat overlapped (cat-update.ts:29).                       *)
(***************************************************************************)
THEOREM FieldChange == Spec => OnlyNamedFieldsChange
  <1>1. CatsInv /\ [Next]_vars
            => [\A i \in Ids \ overlapped, f \in Fields :
                  cats[i].state = "live" /\ cats'[i].fields[f] # cats[i].fields[f]
                      => \E s \in Slots : Writing(s, i) /\ req[s].body[f] # None]_vars
    <2> SUFFICES ASSUME CatsInv, Next, NEW i \in Ids \ overlapped, NEW f \in Fields,
                        cats[i].state = "live", cats'[i].fields[f] # cats[i].fields[f]
                 PROVE  \E s \in Slots : Writing(s, i) /\ req[s].body[f] # None
      BY DEF vars
    <2>t. cats \in [Ids -> Cat] /\ req \in [Slots -> Request]
      BY DEF CatsInv, TypeOK
    <2>1. ASSUME NEW j \in Ids, NEW fields \in [Fields -> Values], Create(j, fields)
          PROVE  FALSE
      BY <2>1, <2>t DEF Create
    <2>2. ASSUME NEW s \in Slots, UpdateWrite(s) \/ DeleteWrite(s)
          PROVE  Writing(s, i) /\ req[s].body[f] # None
      <3>1. /\ UpdateOne(req[s].id, req[s].entity)
            /\ req[s].at \in {"updateWrite", "deleteWrite"}
        BY <2>2 DEF UpdateWrite, DeleteWrite
      <3>2. req[s].id \in Ids
        BY <3>1 DEF CatsInv, RequestsAreAboutCats
      <3>3. req[s].id = i /\ cats'[i] = req[s].entity
        BY <3>1, <3>2, <2>t DEF UpdateOne
      <3>4. Writing(s, i)
        BY <3>1, <3>3 DEF Writing
      <3> QED
        BY <3>3, <3>4 DEF CatsInv, LoneEntityIsUpToDate
    <2>3. ASSUME UNCHANGED cats PROVE FALSE
      BY <2>3
    <2> QED
      BY <2>1, <2>2, <2>3
      DEF Next, UpdateRead, DeleteRead, GetById, NotFound, Reread, AnswerFound, vars
  <1> QED
    BY <1>1, CatsInvHolds, PTL DEF Spec, OnlyNamedFieldsChange

-----------------------------------------------------------------------------
(***************************************************************************)
(* The Mongo adapter.  Each of its steps is one of five: a read, a write   *)
(* or a removal of live documents, an insert, or a $set by the id alone.   *)
(***************************************************************************)
Single(T) == T = {} \/ \E i \in T : T = {i}

MongoOnly(T) == \A i \in Ids \ T : documents'[i] = documents[i]
MongoKept(T) == \A i \in T : documents'[i].state # "absent"

MongoRead ==
    /\ documents' = documents
    /\ mongoAnswer' \subseteq Mongo!Present
    /\ \A i \in mongoAnswer' : documents[i].state = "live" \/ by' \in Mongo!Unfiltered
    /\ by' \notin {"updateOne", "findOneAndUpdate", "remove"}

MongoWrite ==
    /\ mongoReq' = mongoReq
    /\ \E T \in SUBSET Mongo!Live :
          /\ MongoOnly(T) /\ MongoKept(T) /\ mongoAnswer' \subseteq T
          /\ by' \in {"updateOne", "findOneAndUpdate", "remove"} => Single(T)

MongoRemoval ==
    /\ mongoReq' = mongoReq /\ mongoAnswer' = {}
    /\ \E T \in SUBSET Mongo!Live :
          /\ documents' = [i \in Ids |-> IF i \in T THEN Mongo!Absent ELSE documents[i]]
          /\ Single(T)

MongoInsert ==
    \E T \in SUBSET (Ids \ Mongo!Present) :
        /\ MongoOnly(T) /\ MongoKept(T) /\ mongoAnswer' \subseteq T
        /\ by' \in {"create", "insertMany", "created"}

MongoSetById ==
    \E s \in Callers :
        /\ mongoReq[s].at = "set" /\ mongoReq'[s] = Mongo!Idle
        /\ MongoOnly({mongoReq[s].id} \cap Mongo!Present) /\ MongoKept({mongoReq[s].id} \cap Mongo!Present)
        /\ mongoReq[s].id \in Ids
        /\ mongoAnswer' = {mongoReq[s].id} \cap Mongo!Present /\ by' = "updated"

\* $set leaves a document that is there one that is there
LEMMA MongoSetFacts ==
    ASSUME NEW doc \in Mongo!Doc, doc.state # "absent", NEW p \in Mongo!Patch
    PROVE  Mongo!Set(doc, p) \in Mongo!Doc /\ Mongo!Set(doc, p).state # "absent"
<1>1. doc \in [state : {"live", "deleted"}, fields : [Columns -> Values]]
    BY DEF Mongo!Doc, Mongo!Absent
<1> DEFINE fields == [f \in Columns |-> IF p.fields[f] = None THEN doc.fields[f] ELSE p.fields[f]]
           state == IF p.state = None THEN doc.state ELSE p.state
<1>2. fields \in [Columns -> Values]
    BY <1>1 DEF Mongo!Patch, Mongo!Partial
<1>3. state \in {"live", "deleted"}
    BY <1>1 DEF Mongo!Patch
<1>4. Mongo!Set(doc, p) = [state |-> state, fields |-> fields]
    BY DEF Mongo!Set
<1> HIDE DEF state, fields
<1> QED
    BY <1>2, <1>3, <1>4 DEF Mongo!Doc

\* ... and an entity with all of its fields makes a document
LEMMA MongoInsertFacts ==
    ASSUME NEW p \in Mongo!Patch, Mongo!Total(p), NEW q,
           q = [p EXCEPT !.state = IF @ = None THEN "live" ELSE @]
    PROVE  Mongo!Set(Mongo!Absent, q) \in Mongo!Doc /\ Mongo!Set(Mongo!Absent, q).state # "absent"
<1> DEFINE fields == [f \in Columns |-> IF q.fields[f] = None THEN Mongo!Absent.fields[f] ELSE q.fields[f]]
           state == IF q.state = None THEN Mongo!Absent.state ELSE q.state
<1>1. /\ q.fields = p.fields
      /\ q.state = (IF p.state = None THEN "live" ELSE p.state)
    BY DEF Mongo!Patch
<1>2. fields \in [Columns -> Values]
    BY <1>1 DEF Mongo!Patch, Mongo!Partial, Mongo!Total
<1>3. state \in {"live", "deleted"}
    BY <1>1, ColumnsAreColumns DEF Mongo!Patch
<1>4. Mongo!Set(Mongo!Absent, q) = [state |-> state, fields |-> fields]
    BY DEF Mongo!Set
<1> HIDE DEF state, fields
<1> QED
    BY <1>2, <1>3, <1>4 DEF Mongo!Doc

\* A filter with deletedAt: null matches live documents only
LEMMA MongoFilters ==
    ASSUME NEW w
    PROVE  /\ w \in Mongo!Filters => Mongo!Convert(w) \subseteq Mongo!Live
           /\ Mongo!Convert(w) \subseteq Mongo!Present /\ Mongo!Matching(w) \subseteq Mongo!Present
           /\ Mongo!Live \subseteq Mongo!Present /\ Mongo!Present \subseteq Ids
<1>1. w \in Mongo!Filters => w # Mongo!NoFilter
    BY ColumnsAreColumns DEF Mongo!Filters, Mongo!NoFilter, Mongo!Empty
<1>2. Mongo!Matching(w) \subseteq Mongo!Present
    BY DEF Mongo!Matching
<1>3. Mongo!Live \subseteq Mongo!Present /\ Mongo!Present \subseteq Ids
    BY DEF Mongo!Live, Mongo!Present
<1> QED
    BY <1>1, <1>2, <1>3 DEF Mongo!Convert

\* Present documents keep their form when they are $set
LEMMA MongoSetAllFacts ==
    ASSUME Mongo!TypeOK, NEW T \in SUBSET Mongo!Present, NEW p \in Mongo!Patch, Mongo!SetAll(T, p)
    PROVE  documents' \in [Ids -> Mongo!Doc] /\ MongoOnly(T) /\ MongoKept(T)
<1>1. \A i \in T : i \in Ids /\ documents[i] \in Mongo!Doc /\ documents[i].state # "absent"
    BY DEF Mongo!Present, Mongo!TypeOK
<1>2. \A i \in Ids : documents'[i] = IF i \in T THEN Mongo!Set(documents[i], p) ELSE documents[i]
    BY DEF Mongo!SetAll
<1>3. \A i \in T : documents'[i] \in Mongo!Doc /\ documents'[i].state # "absent"
    BY <1>1, <1>2, MongoSetFacts
<1>4. \A i \in Ids : documents'[i] \in Mongo!Doc
    BY <1>2, <1>3 DEF Mongo!TypeOK
<1>5. documents' \in [Ids -> Mongo!Doc]
    BY <1>4 DEF Mongo!SetAll
<1> QED
    BY <1>2, <1>3, <1>5 DEF MongoOnly, MongoKept

\* ... and absent ones come to be when they are inserted
LEMMA MongoInsertAllFacts ==
    ASSUME Mongo!TypeOK, NEW T \in SUBSET (Ids \ Mongo!Present), NEW p \in Mongo!Patch, Mongo!Total(p),
           Mongo!SetAll(T, [p EXCEPT !.state = IF @ = None THEN "live" ELSE @])
    PROVE  documents' \in [Ids -> Mongo!Doc] /\ MongoOnly(T) /\ MongoKept(T)
<1> DEFINE q == [p EXCEPT !.state = IF @ = None THEN "live" ELSE @]
<1>1. \A i \in T : documents[i] = Mongo!Absent
    BY DEF Mongo!Present, Mongo!TypeOK, Mongo!Doc
<1>2. \A i \in Ids : documents'[i] = IF i \in T THEN Mongo!Set(documents[i], q) ELSE documents[i]
    BY DEF Mongo!SetAll
<1>3. Mongo!Set(Mongo!Absent, q) \in Mongo!Doc /\ Mongo!Set(Mongo!Absent, q).state # "absent"
    BY MongoInsertFacts
<1> HIDE DEF q
<1>4. \A i \in T : documents'[i] \in Mongo!Doc /\ documents'[i].state # "absent"
    BY <1>1, <1>2, <1>3
<1>5. \A i \in Ids : documents'[i] \in Mongo!Doc
    BY <1>2, <1>4 DEF Mongo!TypeOK
<1>6. documents' \in [Ids -> Mongo!Doc]
    BY <1>5 DEF Mongo!SetAll
<1> QED
    BY <1>2, <1>4, <1>6 DEF MongoOnly, MongoKept

\* One of a set is none or a single one of it
LEMMA MongoOneOf ==
    ASSUME NEW T, NEW A \in Mongo!OneOf(T)
    PROVE  A \subseteq T /\ Single(A)
    BY DEF Mongo!OneOf, Single

\* The finds are reads
LEMMA MongoFindsRead ==
    ASSUME Mongo!TypeOK, NEW op, NEW A \in SUBSET Mongo!Present, Mongo!Read(op, A),
           A \subseteq Mongo!Live \/ op \in Mongo!Unfiltered,
           op \notin {"updateOne", "findOneAndUpdate", "remove"}
    PROVE  Mongo!TypeOK' /\ MongoRead
<1>1. documents' = documents /\ mongoReq' = mongoReq /\ mongoAnswer' = A /\ by' = op
    BY DEF Mongo!Read, Mongo!Reply
<1>2. Mongo!TypeOK'
    BY <1>1, MongoFilters DEF Mongo!TypeOK
<1> QED
    BY <1>1, <1>2 DEF MongoRead, Mongo!Live

LEMMA MongoFindsById ==
    ASSUME Mongo!TypeOK, NEW i \in Ids, Mongo!FindById(i)
    PROVE  Mongo!TypeOK' /\ MongoRead
<1>1. {i} \cap Mongo!Present \subseteq Mongo!Present
    OBVIOUS
<1> QED
    BY <1>1, MongoFindsRead DEF Mongo!FindById, Mongo!Unfiltered

LEMMA MongoFindsIn ==
    ASSUME Mongo!TypeOK, NEW T \in SUBSET Ids, Mongo!FindIn(T)
    PROVE  Mongo!TypeOK' /\ MongoRead
<1>1. T \cap Mongo!Live \subseteq Mongo!Live /\ Mongo!Live \subseteq Mongo!Present
    BY MongoFilters
<1> QED
    BY <1>1, MongoFindsRead DEF Mongo!FindIn

LEMMA MongoFindsOr ==
    ASSUME Mongo!TypeOK, NEW K, NEW v, Mongo!FindOr(K, v)
    PROVE  Mongo!TypeOK' /\ MongoRead
<1> DEFINE A == {x \in Mongo!Live : \E k \in K :
                      IF k = "id" THEN x = v ELSE documents[x].fields[k] = v}
<1>1. A \subseteq Mongo!Live /\ Mongo!Read("findOr", A) /\ Mongo!Live \subseteq Mongo!Present
    BY MongoFilters DEF Mongo!FindOr
<1> HIDE DEF A
<1> QED
    BY <1>1, MongoFindsRead

LEMMA MongoFindsAll ==
    ASSUME Mongo!TypeOK, NEW w,
           \/ Mongo!FindAll(w) /\ w \in Mongo!Filters \cup {Mongo!NoFilter}
           \/ Mongo!FindAllWithExcludeFields(w) \/ Mongo!FindAllWithSelectFields(w)
    PROVE  Mongo!TypeOK' /\ MongoRead
<1> USE DEF Mongo!Unfiltered
<1>1. CASE Mongo!FindAll(w) /\ w \in Mongo!Filters \cup {Mongo!NoFilter}
  <2> DEFINE op == IF w = Mongo!NoFilter THEN "findAll" ELSE "find"
  <2>1. Mongo!Read(op, Mongo!Convert(w)) /\ Mongo!Convert(w) \subseteq Mongo!Present
    BY <1>1, MongoFilters DEF Mongo!FindAll
  <2>2. op = "findAll" \/ Mongo!Convert(w) \subseteq Mongo!Live
    BY <1>1, MongoFilters
  <2>3. op \notin {"updateOne", "findOneAndUpdate", "remove"}
    OBVIOUS
  <2> HIDE DEF op
  <2> QED
    BY <2>1, <2>2, <2>3, MongoFindsRead
<1>2. CASE Mongo!FindAllWithExcludeFields(w) \/ Mongo!FindAllWithSelectFields(w)
  <2>1. Mongo!Read("findAllWithFields", Mongo!Matching(w)) /\ Mongo!Matching(w) \subseteq Mongo!Present
    BY <1>2, MongoFilters
       DEF Mongo!FindAllWithExcludeFields, Mongo!FindAllWithSelectFields, Mongo!ApplyFilter
  <2> QED
    BY <2>1, MongoFindsRead
<1> QED
    BY <1>1, <1>2

LEMMA MongoFinds ==
    ASSUME Mongo!TypeOK, NEW w \in Mongo!Filters,
           \/ Mongo!Find(w) \/ Mongo!FindOne(w)
           \/ Mongo!FindOneWithExcludeFields(w) \/ Mongo!FindOneWithSelectFields(w)
    PROVE  Mongo!TypeOK' /\ MongoRead
<1>0. Mongo!Live \subseteq Mongo!Present
    BY MongoFilters
<1>1. CASE Mongo!Find(w)
  <2>1. Mongo!Read("find", Mongo!Convert(w)) /\ Mongo!Convert(w) \subseteq Mongo!Live
    BY <1>1, MongoFilters DEF Mongo!Find
  <2> QED
    BY <1>0, <2>1, MongoFindsRead
<1>2. CASE Mongo!FindOne(w) \/ Mongo!FindOneWithExcludeFields(w) \/ Mongo!FindOneWithSelectFields(w)
  <2>1. PICK A \in Mongo!OneOf(Mongo!Convert(w)), op \in {"findOne", "findOneWithFields"} : Mongo!Read(op, A)
    BY <1>2 DEF Mongo!FindOne, Mongo!FindOneWithExcludeFields, Mongo!FindOneWithSelectFields
  <2>2. A \subseteq Mongo!Live
    BY <1>2, MongoOneOf, MongoFilters
  <2> QED
    BY <1>0, <2>1, <2>2, MongoFindsRead
<1> QED
    BY <1>1, <1>2

\* Creating and inserting many insert
LEMMA MongoCreates ==
    ASSUME Mongo!TypeOK, NEW p \in Mongo!Patch, NEW i \in Ids, Mongo!Create(i, p)
    PROVE  Mongo!TypeOK' /\ MongoInsert
<1>1. {i} \in SUBSET (Ids \ Mongo!Present) /\ Mongo!Total(p)
  BY DEF Mongo!Create
<1>2. documents' \in [Ids -> Mongo!Doc] /\ MongoOnly({i}) /\ MongoKept({i})
  BY <1>1, MongoInsertAllFacts DEF Mongo!Create
<1>3. mongoReq' = mongoReq /\ mongoAnswer' = {i} /\ by' = "create"
  BY DEF Mongo!Create, Mongo!Reply
<1>4. Mongo!TypeOK'
  BY <1>2, <1>3 DEF Mongo!TypeOK
<1> QED
  BY <1>1, <1>2, <1>3, <1>4 DEF MongoInsert

LEMMA MongoInsertsMany ==
    ASSUME Mongo!TypeOK, NEW p \in Mongo!Patch, NEW T \in SUBSET Ids, Mongo!InsertMany(T, p)
    PROVE  Mongo!TypeOK' /\ MongoInsert
<1>1. Mongo!Total(p) /\ mongoReq' = mongoReq /\ mongoAnswer' = {} /\ by' = "insertMany"
  BY DEF Mongo!InsertMany, Mongo!Reply
<1>2. PICK New \in SUBSET (T \ Mongo!Present) :
          Mongo!SetAll(New, [p EXCEPT !.state = IF @ = None THEN "live" ELSE @])
  BY DEF Mongo!InsertMany
<1>3. New \in SUBSET (Ids \ Mongo!Present)
  OBVIOUS
<1>4. documents' \in [Ids -> Mongo!Doc] /\ MongoOnly(New) /\ MongoKept(New)
  BY <1>1, <1>2, <1>3, MongoInsertAllFacts
<1>5. Mongo!TypeOK'
  BY <1>1, <1>4 DEF Mongo!TypeOK
<1> QED
  BY <1>1, <1>3, <1>4, <1>5 DEF MongoInsert

\* A createOrUpdate that finds what there is writes nothing yet
LEMMA MongoCreateOrUpdate ==
    ASSUME Mongo!TypeOK, NEW s \in Callers, NEW i \in Ids, NEW p \in Mongo!Patch,
           Mongo!CreateOrUpdate(s, i, p)
    PROVE  Mongo!TypeOK' /\ MongoRead
<1> DEFINE r == [at |-> IF i \in Mongo!Present THEN "set" ELSE "insert", id |-> i, patch |-> p]
<1>1. /\ mongoReq' = [mongoReq EXCEPT ![s] = r]
      /\ documents' = documents /\ mongoAnswer' = {} /\ by' = "none"
    BY DEF Mongo!CreateOrUpdate, Mongo!Reply
<1>2. r \in Mongo!Request
    BY DEF Mongo!Request
<1> HIDE DEF r
<1>3. Mongo!TypeOK'
    BY <1>1, <1>2 DEF Mongo!TypeOK
<1> QED
    BY <1>1, <1>3 DEF MongoRead

\* ... what it writes then is a document of an id that was free, or the one it found
LEMMA MongoSave ==
    ASSUME Mongo!TypeOK, NEW s \in Callers, Mongo!Save(s)
    PROVE  Mongo!TypeOK' /\ (MongoRead \/ MongoInsert)
<1> DEFINE r == mongoReq[s]
<1>1. r.at = "insert" /\ mongoReq' = [mongoReq EXCEPT ![s] = Mongo!Idle]
    BY DEF Mongo!Save
<1>2. r.id \in Ids /\ r.patch \in Mongo!Patch
    BY <1>1 DEF Mongo!TypeOK, Mongo!Request, Mongo!Idle
<1>3. mongoReq' \in [Callers -> Mongo!Request]
    BY <1>1 DEF Mongo!TypeOK, Mongo!Request
<1>4. CASE Mongo!Total(r.patch) /\ r.id \notin Mongo!Present
  <2>1. /\ Mongo!SetAll({r.id}, [r.patch EXCEPT !.state = IF @ = None THEN "live" ELSE @])
        /\ mongoAnswer' = {r.id} /\ by' = "created"
    BY <1>4 DEF Mongo!Save, Mongo!Reply
  <2>2. {r.id} \in SUBSET (Ids \ Mongo!Present)
    BY <1>2, <1>4
  <2>3. documents' \in [Ids -> Mongo!Doc] /\ MongoOnly({r.id}) /\ MongoKept({r.id})
    BY <1>2, <1>4, <2>1, <2>2, MongoInsertAllFacts
  <2>4. Mongo!TypeOK'
    BY <1>2, <1>3, <2>1, <2>3 DEF Mongo!TypeOK
  <2>5. \E T \in SUBSET (Ids \ Mongo!Present) :
            MongoOnly(T) /\ MongoKept(T) /\ mongoAnswer' \subseteq T /\ by' \in {"create", "insertMany", "created"}
    BY <2>1, <2>2, <2>3
  <2> QED
    BY <2>4, <2>5 DEF MongoInsert
<1>5. CASE ~ (Mongo!Total(r.patch) /\ r.id \notin Mongo!Present)
  <2>1. documents' = documents /\ mongoAnswer' = {} /\ by' = "error"
    BY <1>5 DEF Mongo!Save, Mongo!Reply
  <2> QED
    BY <1>3, <2>1 DEF Mongo!TypeOK, MongoRead
<1> QED
    BY <1>4, <1>5

LEMMA MongoSetsById ==
    ASSUME Mongo!TypeOK, NEW s \in Callers, Mongo!SetById(s)
    PROVE  Mongo!TypeOK' /\ MongoSetById
<1> DEFINE r == mongoReq[s]
           T == {r.id} \cap Mongo!Present
<1>1. /\ r.at = "set" /\ mongoReq' = [mongoReq EXCEPT ![s] = Mongo!Idle]
      /\ Mongo!SetAll(T, r.patch) /\ mongoAnswer' = T /\ by' = "updated"
    BY DEF Mongo!SetById, Mongo!Reply
<1>2. r.id \in Ids /\ r.patch \in Mongo!Patch /\ T \subseteq Mongo!Present
    BY <1>1 DEF Mongo!TypeOK, Mongo!Request, Mongo!Idle
<1>3. documents' \in [Ids -> Mongo!Doc] /\ MongoOnly(T) /\ MongoKept(T)
    BY <1>1, <1>2, MongoSetAllFacts
<1>4. mongoReq' \in [Callers -> Mongo!Request] /\ mongoReq'[s] = Mongo!Idle
    BY <1>1 DEF Mongo!TypeOK, Mongo!Request
<1>5. Mongo!TypeOK'
    BY <1>1, <1>2, <1>3, <1>4 DEF Mongo!TypeOK
<1> QED
    BY <1>1, <1>2, <1>3, <1>4, <1>5 DEF MongoSetById

\* The updates by a filter write, and remove removes
LEMMA MongoUpdates ==
    ASSUME Mongo!TypeOK, NEW w \in Mongo!Filters, NEW p \in Mongo!Patch,
           Mongo!UpdateOne(w, p) \/ Mongo!FindOneAndUpdate(w, p) \/ Mongo!UpdateMany(w, p)
    PROVE  Mongo!TypeOK' /\ MongoWrite
<1>1. PICK T \in SUBSET Mongo!Live :
        /\ Mongo!SetAll(T, p) /\ mongoReq' = mongoReq /\ mongoAnswer' \subseteq T
        /\ by' \in {"updateOne", "findOneAndUpdate", "remove"} => Single(T)
  <2>1. CASE Mongo!UpdateOne(w, p) \/ Mongo!FindOneAndUpdate(w, p)
    <3>1. PICK A \in Mongo!OneOf(Mongo!Convert(w)) :
            Mongo!SetAll(A, p) /\ mongoReq' = mongoReq /\ mongoAnswer' \subseteq A
      BY <2>1 DEF Mongo!UpdateOne, Mongo!FindOneAndUpdate, Mongo!Reply
    <3>2. A \in SUBSET Mongo!Live /\ Single(A)
      BY MongoOneOf, MongoFilters
    <3> QED
      BY <3>1, <3>2
  <2>2. CASE Mongo!UpdateMany(w, p)
    <3>1. Mongo!Convert(w) \in SUBSET Mongo!Live
      BY MongoFilters
    <3>2. /\ Mongo!SetAll(Mongo!Convert(w), p) /\ mongoReq' = mongoReq /\ mongoAnswer' = {}
          /\ by' = "updateMany"
      BY <2>2 DEF Mongo!UpdateMany, Mongo!Reply
    <3> QED
      BY <3>1, <3>2
  <2> QED
    BY <2>1, <2>2
<1>2. T \in SUBSET Mongo!Present /\ T \subseteq Ids
    BY MongoFilters
<1>3. documents' \in [Ids -> Mongo!Doc] /\ MongoOnly(T) /\ MongoKept(T)
    BY <1>1, <1>2, MongoSetAllFacts
<1>4. Mongo!TypeOK'
    BY <1>1, <1>2, <1>3 DEF Mongo!TypeOK
<1> QED
    BY <1>1, <1>3, <1>4 DEF MongoWrite

LEMMA MongoRemoves ==
    ASSUME Mongo!TypeOK, NEW w \in Mongo!Filters, Mongo!Remove(w)
    PROVE  Mongo!TypeOK' /\ MongoRemoval
<1>1. PICK A \in Mongo!OneOf(Mongo!Convert(w)) :
        documents' = [i \in Ids |-> IF i \in A THEN Mongo!Absent ELSE documents[i]]
    BY DEF Mongo!Remove
<1>2. mongoReq' = mongoReq /\ mongoAnswer' = {}
    BY DEF Mongo!Remove, Mongo!Reply
<1>3. A \in SUBSET Mongo!Live /\ Single(A)
    BY MongoOneOf, MongoFilters
<1>4. Mongo!TypeOK'
    BY <1>1, <1>2 DEF Mongo!TypeOK, Mongo!Doc
<1> QED
    BY <1>1, <1>2, <1>3, <1>4 DEF MongoRemoval

\* Every step is one of the five
LEMMA MongoStep ==
    ASSUME Mongo!TypeOK, Mongo!Next
    PROVE  /\ Mongo!TypeOK'
           /\ MongoRead \/ MongoWrite \/ MongoRemoval \/ MongoInsert \/ MongoSetById
<1>1. ASSUME NEW i \in Ids, NEW p \in Mongo!Patch, Mongo!Create(i, p)
      PROVE  Mongo!TypeOK' /\ MongoInsert
    BY <1>1, MongoCreates
<1>2. ASSUME NEW T \in SUBSET Ids, NEW p \in Mongo!Patch, Mongo!InsertMany(T, p)
      PROVE  Mongo!TypeOK' /\ MongoInsert
    BY <1>2, MongoInsertsMany
<1>3. ASSUME NEW s \in Callers, Mongo!Save(s) \/ Mongo!SetById(s) \/ \E i \in Ids, p \in Mongo!Patch : Mongo!CreateOrUpdate(s, i, p)
      PROVE  Mongo!TypeOK' /\ (MongoRead \/ MongoInsert \/ MongoSetById)
    BY <1>3, MongoSave, MongoSetsById, MongoCreateOrUpdate
<1>4. ASSUME NEW w \in Mongo!Filters, Mongo!Remove(w) PROVE Mongo!TypeOK' /\ MongoRemoval
    BY <1>4, MongoRemoves
<1>5. ASSUME NEW w \in Mongo!Filters, NEW p \in Mongo!Patch,
             Mongo!UpdateOne(w, p) \/ Mongo!FindOneAndUpdate(w, p) \/ Mongo!UpdateMany(w, p)
      PROVE  Mongo!TypeOK' /\ MongoWrite
    BY <1>5, MongoUpdates
<1>6. ASSUME \/ \E i \in Ids : Mongo!FindById(i)
             \/ \E T \in SUBSET Ids : Mongo!FindIn(T)
             \/ \E K \in SUBSET (Columns \cup {"id"}), v \in Ids \cup Values : Mongo!FindOr(K, v)
             \/ \E w \in Mongo!Filters :
                    \/ Mongo!Find(w) \/ Mongo!FindOne(w)
                    \/ Mongo!FindOneWithExcludeFields(w) \/ Mongo!FindOneWithSelectFields(w)
             \/ \E w \in Mongo!Filters \cup {Mongo!NoFilter} :
                    \/ Mongo!FindAll(w) \/ Mongo!FindAllWithExcludeFields(w)
                    \/ Mongo!FindAllWithSelectFields(w)
      PROVE  Mongo!TypeOK' /\ MongoRead
    BY <1>6, MongoFindsById, MongoFindsIn, MongoFindsOr, MongoFinds, MongoFindsAll
<1> QED
    BY <1>1, <1>2, <1>3, <1>4, <1>5, <1>6 DEF Mongo!Next

\* The steps of the adapter are steps of a store of soft-deleted rows
LEMMA MongoRowFacts ==
    /\ Mongo!Doc \subseteq Mongo!Store!Row /\ Mongo!Absent = Mongo!Store!NoRow
    /\ \A doc \in Mongo!Doc : doc.state \in {"absent", "live", "deleted"}
    /\ \A doc \in Mongo!Doc : doc.state = "absent" => doc = Mongo!Absent
    BY DEF Mongo!Doc, Mongo!Absent, Mongo!Store!Row, Mongo!Store!States, Mongo!Store!NoRow

LEMMA MongoStoreStep ==
    ASSUME Mongo!TypeOK, Mongo!Next
    PROVE  Mongo!Store!Next
<1>1. /\ documents \in [Ids -> Mongo!Doc] /\ documents' \in [Ids -> Mongo!Doc]
      /\ documents' \in [Ids -> Mongo!Store!Row]
      /\ MongoRead \/ MongoWrite \/ MongoRemoval \/ MongoInsert \/ MongoSetById
    BY MongoStep, MongoRowFacts DEF Mongo!TypeOK
<1>2. \A i \in Ids : documents'[i].state # "absent" => documents'[i].state \in {"live", "deleted"}
    BY <1>1, MongoRowFacts
<1>3. Mongo!Live \subseteq Mongo!Present /\ Mongo!Present \subseteq Ids
    BY MongoFilters
<1> USE DEF Mongo!Store!Next
<1>4. CASE MongoRead
  <2>1. documents' = documents /\ mongoAnswer' \subseteq Mongo!Present
    BY <1>4 DEF MongoRead
  <2>2. Mongo!Store!Write
    BY <1>1, <2>1 DEF Mongo!Store!Write
  <2>3. Mongo!Store!Answer
    BY <1>1, <1>2, <2>1 DEF Mongo!Store!Answer, Mongo!Present
  <2> QED
    BY <2>2, <2>3
<1>5. CASE MongoWrite
  <2>1. PICK T \in SUBSET Mongo!Live : MongoOnly(T) /\ MongoKept(T) /\ mongoAnswer' \subseteq T
    BY <1>5 DEF MongoWrite
  <2>2. Mongo!Store!Write
    BY <1>1, <1>2, <1>3, <2>1 DEF Mongo!Store!Write, MongoOnly, MongoKept, Mongo!Live
  <2>3. Mongo!Store!Answer
    BY <1>2, <1>3, <2>1 DEF Mongo!Store!Answer, MongoKept
  <2> QED
    BY <2>2, <2>3
<1>6. CASE MongoRemoval
  <2>1. PICK T \in SUBSET Mongo!Live :
            documents' = [i \in Ids |-> IF i \in T THEN Mongo!Absent ELSE documents[i]]
    BY <1>6 DEF MongoRemoval
  <2>2. Mongo!Store!Discard
    <3>1. T \in SUBSET {i \in Mongo!Store!Present : documents[i].state \in {"live"}}
      BY DEF Mongo!Live, Mongo!Store!Present
    <3> QED
      BY <2>1, <3>1, MongoRowFacts DEF Mongo!Store!Discard
  <2>3. Mongo!Store!Answer
    BY <1>6 DEF Mongo!Store!Answer, MongoRemoval
  <2> QED
    BY <2>2, <2>3
<1>7. CASE MongoInsert
  <2>1. PICK T \in SUBSET (Ids \ Mongo!Present) : MongoOnly(T) /\ MongoKept(T) /\ mongoAnswer' \subseteq T
    BY <1>7 DEF MongoInsert
  <2>2. Mongo!Store!Insert
    BY <1>1, <1>2, <2>1 DEF Mongo!Store!Insert, MongoOnly, MongoKept, Mongo!Present
  <2>3. Mongo!Store!Answer
    BY <1>2, <2>1 DEF Mongo!Store!Answer, MongoKept
  <2> QED
    BY <2>2, <2>3
<1>8. CASE MongoSetById
  <2>1. PICK s \in Callers :
            /\ MongoOnly({mongoReq[s].id} \cap Mongo!Present) /\ MongoKept({mongoReq[s].id} \cap Mongo!Present)
            /\ mongoReq[s].id \in Ids /\ mongoAnswer' = {mongoReq[s].id} \cap Mongo!Present
    BY <1>8 DEF MongoSetById
  <2> DEFINE i == mongoReq[s].id
  <2>2. Mongo!Store!Answer
    BY <1>2, <1>3, <2>1 DEF Mongo!Store!Answer, MongoKept
  <2>3. CASE i \in Mongo!Present
    <3>1. /\ documents'[i] \in Mongo!Store!Row /\ documents'[i].state # "absent"
          /\ documents' = [documents EXCEPT ![i] = documents'[i]]
      BY <1>1, <2>1, <2>3 DEF MongoOnly, MongoKept
    <3> QED
      BY <2>1, <2>2, <3>1 DEF Mongo!Store!Put
  <2>4. CASE i \notin Mongo!Present
    <3>1. \A x \in Ids : documents'[x] = documents[x]
      BY <2>1, <2>4 DEF MongoOnly
    <3>2. Mongo!Store!Write
      BY <1>1, <3>1 DEF Mongo!Store!Write
    <3> QED
      BY <2>2, <3>2
  <2> QED
    BY <2>3, <2>4
<1> QED
    BY <1>1, <1>4, <1>5, <1>6, <1>7, <1>8

LEMMA MongoInit == RepositoriesInit => Mongo!TypeOK /\ Mongo!Store!Init
<1> SUFFICES ASSUME RepositoriesInit PROVE Mongo!TypeOK /\ Mongo!Store!Init
    OBVIOUS
<1>1. Mongo!Init
    BY DEF RepositoriesInit
<1>2. Mongo!TypeOK
    BY <1>1 DEF Mongo!Init, Mongo!TypeOK, Mongo!Doc, Mongo!Request
<1>3. Mongo!Store!Init
    BY <1>1, MongoRowFacts DEF Mongo!Init, Mongo!Store!Init
<1> QED
    BY <1>2, <1>3

\* A step of the suite is one of the adapter or leaves it alone
LEMMA MongoOrNothing ==
    ASSUME [RepositoriesNext]_<<part, vars, mongoVars, ormVars>>
    PROVE  Mongo!Next \/ UNCHANGED mongoVars
    BY DEF RepositoriesNext

LEMMA MongoTypeStep ==
    Mongo!TypeOK /\ [RepositoriesNext]_<<part, vars, mongoVars, ormVars>> => Mongo!TypeOK'
<1> SUFFICES ASSUME Mongo!TypeOK, [RepositoriesNext]_<<part, vars, mongoVars, ormVars>>
             PROVE  Mongo!TypeOK'
    OBVIOUS
<1>1. CASE Mongo!Next
    BY <1>1, MongoStep
<1>2. CASE UNCHANGED mongoVars
    BY <1>2 DEF mongoVars, Mongo!TypeOK
<1> QED
    BY <1>1, <1>2, MongoOrNothing

\* What is soft-deleted is changed by a createOrUpdate that found it, and shown
\* by the finds without a filter
LEMMA MongoReach ==
    ASSUME Mongo!TypeOK, Mongo!Next, NEW i \in Ids, documents[i].state = "deleted"
    PROVE  /\ documents'[i] # documents[i] =>
                \E s \in Callers : mongoReq[s].at = "set" /\ mongoReq[s].id = i /\ mongoReq'[s] = Mongo!Idle
           /\ i \in mongoAnswer' => by' \in Mongo!Unfiltered
<1>0. i \notin Mongo!Live /\ i \in Mongo!Present
    BY DEF Mongo!Live, Mongo!Present
<1>1. CASE MongoRead
    BY <1>1 DEF MongoRead
<1>2. CASE MongoWrite
    BY <1>0, <1>2 DEF MongoWrite, MongoOnly
<1>3. CASE MongoRemoval
  <2>1. documents'[i] = documents[i] /\ mongoAnswer' = {}
    BY <1>0, <1>3 DEF MongoRemoval
  <2> QED
    BY <2>1
<1>4. CASE MongoInsert
    BY <1>0, <1>4 DEF MongoInsert, MongoOnly
<1>5. CASE MongoSetById
    BY <1>5 DEF MongoSetById, MongoOnly, Mongo!Unfiltered
<1> QED
    BY <1>1, <1>2, <1>3, <1>4, <1>5, MongoStep

\* The createOrUpdate that found nothing leaves what is there by now alone
LEMMA MongoCreation ==
    ASSUME Mongo!TypeOK, Mongo!Next, NEW s \in Callers, mongoReq[s].at = "insert", mongoReq'[s] = Mongo!Idle
    PROVE  \A i \in Mongo!Present : documents'[i] = documents[i]
<1>1. mongoReq'[s] # mongoReq[s]
    BY DEF Mongo!Idle
<1>2. ASSUME MongoSetById PROVE mongoReq'[s] = mongoReq[s] \/ MongoInsert \/ MongoRead
  <2>1. PICK u \in Callers : Mongo!Save(u) \/ Mongo!SetById(u) \/ \E i \in Ids, p \in Mongo!Patch : Mongo!CreateOrUpdate(u, i, p)
    BY <1>1 DEF Mongo!Next, Mongo!Create, Mongo!InsertMany, Mongo!FindById, Mongo!FindIn, Mongo!FindOr, Mongo!Find,
                Mongo!FindOne, Mongo!Remove, Mongo!UpdateOne, Mongo!FindOneAndUpdate, Mongo!UpdateMany,
                Mongo!FindOneWithExcludeFields, Mongo!FindOneWithSelectFields, Mongo!FindAll,
                Mongo!FindAllWithExcludeFields, Mongo!FindAllWithSelectFields, Mongo!Read
  <2>2. CASE Mongo!SetById(u)
    BY <2>2 DEF Mongo!SetById, Mongo!TypeOK
  <2> QED
    BY <2>1, <2>2, MongoSave, MongoCreateOrUpdate
<1>3. MongoRead \/ MongoInsert
    BY <1>1, <1>2, MongoStep DEF MongoWrite, MongoRemoval
<1>4. Mongo!Present \subseteq Ids
    BY MongoFilters
<1> QED
    BY <1>3, <1>4 DEF MongoRead, MongoInsert, MongoOnly

\* What is called one changes at most one
LEMMA MongoOne ==
    ASSUME Mongo!TypeOK, Mongo!Next, by' \in {"updateOne", "findOneAndUpdate", "remove"}
    PROVE  \A i, j \in Ids : documents'[i] # documents[i] /\ documents'[j] # documents[j] => i = j
<1>1. \E T : Single(T) /\ {i \in Ids : documents'[i] # documents[i]} \subseteq T
  <2>1. CASE MongoWrite
    BY <2>1 DEF MongoWrite, MongoOnly
  <2>2. CASE MongoRemoval
    BY <2>2 DEF MongoRemoval
  <2> QED
    BY <2>1, <2>2, MongoStep DEF MongoRead, MongoInsert, MongoSetById
<1> QED
    BY <1>1 DEF Single

(***************************************************************************)
(* MongoRepository implements the store of soft-deleted rows whose         *)
(* filtered writes reach live documents only, whatever its callers do to   *)
(* each other; a deleted document is changed only by a createOrUpdate that *)
(* found it, no creation overwrites a document, and one means one.         *)
(***************************************************************************)
THEOREM MongoIsAStore == RepositoriesSpec => MongoImplementsStore
<1> DEFINE N == [RepositoriesNext]_<<part, vars, mongoVars, ormVars>>
           Reach == \A i \in Ids :
                /\ documents[i].state = "deleted" /\ documents'[i] # documents[i] =>
                    \E s \in Callers : mongoReq[s].at = "set" /\ mongoReq[s].id = i /\ mongoReq'[s] = Mongo!Idle
                /\ i \in mongoAnswer' /\ documents[i].state = "deleted" => by' \in Mongo!Unfiltered
           Creation == \A s \in Callers : mongoReq[s].at = "insert" /\ mongoReq'[s] = Mongo!Idle =>
                \A i \in Mongo!Present : documents'[i] = documents[i]
           One == by' \in {"updateOne", "findOneAndUpdate", "remove"} =>
                \A i, j \in Ids : documents'[i] # documents[i] /\ documents'[j] # documents[j] => i = j
<1>1. Mongo!TypeOK /\ N => [Mongo!Store!Next]_<<documents, mongoAnswer>>
    BY MongoOrNothing, MongoStoreStep DEF mongoVars
<1>2. Mongo!TypeOK /\ N => [Reach]_<<documents, mongoReq, mongoAnswer, by>>
    BY MongoOrNothing, MongoReach DEF mongoVars
<1>3. Mongo!TypeOK /\ N => [Creation]_<<documents, mongoReq, mongoAnswer, by>>
    BY MongoOrNothing, MongoCreation DEF mongoVars
<1>4. Mongo!TypeOK /\ N => [One]_<<documents, mongoReq, mongoAnswer, by>>
    BY MongoOrNothing, MongoOne DEF mongoVars
<1>5. RepositoriesSpec => []Mongo!TypeOK
    BY MongoInit, MongoTypeStep, PTL DEF RepositoriesSpec
<1>6. RepositoriesSpec => Mongo!ImplementsStore
    BY <1>1, <1>5, MongoInit, PTL DEF RepositoriesSpec, Mongo!ImplementsStore, Mongo!Store!Spec
<1>7. RepositoriesSpec => Mongo!DeletedAreOutOfReach
    BY <1>2, <1>5, PTL DEF RepositoriesSpec, Mongo!DeletedAreOutOfReach, Mongo!vars
<1>8. RepositoriesSpec => Mongo!CreationsDoNotOverwrite
    BY <1>3, <1>5, PTL DEF RepositoriesSpec, Mongo!CreationsDoNotOverwrite, Mongo!vars
<1>9. RepositoriesSpec => Mongo!OneMeansOne
    BY <1>4, <1>5, PTL DEF RepositoriesSpec, Mongo!OneMeansOne, Mongo!vars
<1> QED
    BY <1>5, <1>6, <1>7, <1>8, <1>9 DEF MongoImplementsStore

-----------------------------------------------------------------------------
(***************************************************************************)
(* The TypeORM adapter.  What a step does to the table is one of four: a   *)
(* read, a write or a removal of rows that are there, or an insert.        *)
(***************************************************************************)
OrmOnly(T) == \A i \in Ids \ T : rows'[i] = rows[i]
OrmKept(T) == \A i \in T : rows'[i].state # "absent"

OrmRead == rows' = rows /\ ormAnswer' \subseteq TypeOrm!Live
OrmWrite == ormAnswer' = {} /\ \E T \in SUBSET TypeOrm!Present : OrmOnly(T) /\ OrmKept(T)
OrmRemoval ==
    /\ ormAnswer' = {}
    /\ \E T \in SUBSET TypeOrm!Present : rows' = [i \in Ids |-> IF i \in T THEN TypeOrm!Absent ELSE rows[i]]
OrmInsert ==
    /\ ormAnswer' \subseteq {i \in Ids : rows'[i].state = "live"}
    /\ \E T \in SUBSET (Ids \ TypeOrm!Present) : OrmOnly(T) /\ OrmKept(T)

OrmStored == rows' \in [Ids -> TypeOrm!Row] /\ (OrmRead \/ OrmWrite \/ OrmRemoval \/ OrmInsert)

\* A step aside of a request leaves it alone, and notes that it wrote
OrmAside(t) ==
    /\ ormReq'[t] = ormReq[t]
    /\ ormReq[t] # TypeOrm!Idle /\ t \notin raced' => t \notin raced /\ rows' = rows

\* The steps of no request, and those of one
OrmNobodys == OrmStored /\ outcome' # "updated" /\ ormReq' = ormReq /\ \A t \in Callers : OrmAside(t)
OrmTurn(s) == OrmStored /\ \A t \in Callers \ {s} : OrmAside(t)

OrmRequestInv(s) ==
    TypeOrm!FoundStillMatches(s) /\ TypeOrm!PatchIsTheGiven(s) /\ TypeOrm!SavesTheGiven(s)

LEMMA OrmSets ==
    /\ TypeOrm!Live \subseteq TypeOrm!Present /\ TypeOrm!Present \subseteq Ids
    /\ \A w : TypeOrm!Where(w) \subseteq TypeOrm!Present
    /\ \A w : TypeOrm!Visible(w) \subseteq TypeOrm!Live
    /\ \A w : \A A \in TypeOrm!OneOf(TypeOrm!Visible(w)) : A \subseteq TypeOrm!Visible(w)
    BY DEF TypeOrm!Live, TypeOrm!Present, TypeOrm!Where, TypeOrm!Visible, TypeOrm!OneOf

LEMMA OrmEmpty ==
    /\ TypeOrm!NoPatch \in TypeOrm!Patch /\ TypeOrm!Empty \in TypeOrm!Filters
    /\ TypeOrm!Idle \in TypeOrm!Request /\ TypeOrm!Idle.at = "idle"
<1>1. TypeOrm!NoPatch \in TypeOrm!Patch
    BY DEF TypeOrm!NoPatch, TypeOrm!Patch, TypeOrm!Partial
<1>2. TypeOrm!Empty \in TypeOrm!Filters
    BY DEF TypeOrm!Filters
<1> QED
    BY <1>1, <1>2 DEF TypeOrm!Idle, TypeOrm!Request, TypeOrm!Steps

\* An update leaves a row that is there one that is there
LEMMA OrmSetFacts ==
    ASSUME NEW row \in TypeOrm!Row, row.state # "absent", NEW p \in TypeOrm!Patch
    PROVE  TypeOrm!Set(row, p) \in TypeOrm!Row /\ TypeOrm!Set(row, p).state # "absent"
<1>1. row \in [state : {"live", "deleted"}, fields : [Columns -> Values]]
    BY DEF TypeOrm!Row, TypeOrm!Absent
<1> DEFINE fields == [f \in Columns |-> IF p.fields[f] = None THEN row.fields[f] ELSE p.fields[f]]
           state == IF p.state = None THEN row.state ELSE p.state
<1>2. fields \in [Columns -> Values]
    BY <1>1 DEF TypeOrm!Patch, TypeOrm!Partial
<1>3. state \in {"live", "deleted"}
    BY <1>1 DEF TypeOrm!Patch
<1>4. TypeOrm!Set(row, p) = [state |-> state, fields |-> fields]
    BY DEF TypeOrm!Set
<1> HIDE DEF state, fields
<1> QED
    BY <1>2, <1>3, <1>4 DEF TypeOrm!Row

\* ... and a whole entity makes a row
LEMMA OrmInsertFacts ==
    ASSUME NEW p \in TypeOrm!Patch, TypeOrm!Total(p), NEW q,
           q = [p EXCEPT !.state = IF @ = None THEN "live" ELSE @]
    PROVE  TypeOrm!Set(TypeOrm!Absent, q) \in TypeOrm!Row /\ TypeOrm!Set(TypeOrm!Absent, q).state # "absent"
<1> DEFINE fields == [f \in Columns |-> IF q.fields[f] = None THEN TypeOrm!Absent.fields[f] ELSE q.fields[f]]
           state == IF q.state = None THEN TypeOrm!Absent.state ELSE q.state
<1>1. /\ q.fields = p.fields
      /\ q.state = (IF p.state = None THEN "live" ELSE p.state)
    BY DEF TypeOrm!Patch
<1>2. fields \in [Columns -> Values]
    BY <1>1 DEF TypeOrm!Patch, TypeOrm!Partial, TypeOrm!Total
<1>3. state \in {"live", "deleted"}
    BY <1>1, ColumnsAreColumns DEF TypeOrm!Patch
<1>4. TypeOrm!Set(TypeOrm!Absent, q) = [state |-> state, fields |-> fields]
    BY DEF TypeOrm!Set
<1> HIDE DEF state, fields
<1> QED
    BY <1>2, <1>3, <1>4 DEF TypeOrm!Row

LEMMA OrmPutFacts ==
    ASSUME TypeOrm!TypeOK, NEW T \in SUBSET TypeOrm!Present, NEW p \in TypeOrm!Patch,
           TypeOrm!Put(T, p), ormAnswer' = {}
    PROVE  OrmStored /\ \A i \in Ids : rows'[i] = IF i \in T THEN TypeOrm!Set(rows[i], p) ELSE rows[i]
<1>1. \A i \in T : i \in Ids /\ rows[i] \in TypeOrm!Row /\ rows[i].state # "absent"
    BY DEF TypeOrm!Present, TypeOrm!TypeOK
<1>2. \A i \in Ids : rows'[i] = IF i \in T THEN TypeOrm!Set(rows[i], p) ELSE rows[i]
    BY DEF TypeOrm!Put
<1>3. \A i \in T : rows'[i] \in TypeOrm!Row /\ rows'[i].state # "absent"
    BY <1>1, <1>2, OrmSetFacts
<1>4. \A i \in Ids : rows'[i] \in TypeOrm!Row
    BY <1>2, <1>3 DEF TypeOrm!TypeOK
<1>5. rows' \in [Ids -> TypeOrm!Row]
    BY <1>4 DEF TypeOrm!Put
<1>6. OrmOnly(T) /\ OrmKept(T)
    BY <1>2, <1>3 DEF OrmOnly, OrmKept
<1> QED
    BY <1>2, <1>5, <1>6 DEF OrmStored, OrmWrite

LEMMA OrmPutNewFacts ==
    ASSUME TypeOrm!TypeOK, NEW T \in SUBSET (Ids \ TypeOrm!Present), NEW p \in TypeOrm!Patch, TypeOrm!Total(p),
           TypeOrm!Put(T, [p EXCEPT !.state = IF @ = None THEN "live" ELSE @]),
           ormAnswer' \subseteq {i \in Ids : rows'[i].state = "live"}
    PROVE  OrmStored
<1> DEFINE q == [p EXCEPT !.state = IF @ = None THEN "live" ELSE @]
<1>1. \A i \in T : rows[i] = TypeOrm!Absent
    BY DEF TypeOrm!Present, TypeOrm!TypeOK, TypeOrm!Row
<1>2. \A i \in Ids : rows'[i] = IF i \in T THEN TypeOrm!Set(rows[i], q) ELSE rows[i]
    BY DEF TypeOrm!Put
<1>3. TypeOrm!Set(TypeOrm!Absent, q) \in TypeOrm!Row /\ TypeOrm!Set(TypeOrm!Absent, q).state # "absent"
    BY OrmInsertFacts
<1> HIDE DEF q
<1>4. \A i \in T : rows'[i] \in TypeOrm!Row /\ rows'[i].state # "absent"
    BY <1>1, <1>2, <1>3
<1>5. \A i \in Ids : rows'[i] \in TypeOrm!Row
    BY <1>2, <1>4 DEF TypeOrm!TypeOK
<1>6. rows' \in [Ids -> TypeOrm!Row]
    BY <1>5 DEF TypeOrm!Put
<1>7. OrmOnly(T) /\ OrmKept(T)
    BY <1>2, <1>4 DEF OrmOnly, OrmKept
<1> QED
    BY <1>6, <1>7 DEF OrmStored, OrmInsert

\* The finds show live rows
LEMMA OrmSelects ==
    ASSUME TypeOrm!TypeOK, NEW A \in SUBSET TypeOrm!Live, TypeOrm!Select(A)
    PROVE  TypeOrm!TypeOK' /\ OrmNobodys
<1>1. rows' = rows /\ ormReq' = ormReq /\ raced' = raced /\ ormAnswer' = A /\ outcome' = "rows"
    BY DEF TypeOrm!Select, TypeOrm!Reply
<1>2. TypeOrm!TypeOK'
    BY <1>1, OrmSets DEF TypeOrm!TypeOK
<1>3. OrmStored
    BY <1>1 DEF OrmStored, OrmRead, TypeOrm!TypeOK
<1> QED
    BY <1>1, <1>2, <1>3 DEF OrmNobodys, OrmAside

LEMMA OrmFinds ==
    ASSUME TypeOrm!TypeOK,
           \/ \E i \in Ids : TypeOrm!FindById(i)
           \/ \E T \in SUBSET Ids : TypeOrm!FindIn(T)
           \/ \E K \in SUBSET (Columns \cup {"id"}), v \in Ids \cup Values : TypeOrm!FindOr(K, v)
           \/ TypeOrm!FindAll
           \/ \E w \in TypeOrm!Filters : \/ TypeOrm!Find(w) \/ TypeOrm!FindOne(w)
                                         \/ TypeOrm!FindOneWithFields(w) \/ TypeOrm!FindAllWithFields(w)
    PROVE  TypeOrm!TypeOK' /\ OrmNobodys
<1>1. PICK A \in SUBSET TypeOrm!Live : TypeOrm!Select(A)
  <2>1. CASE \E i \in Ids : TypeOrm!FindById(i)
    <3>1. PICK i \in Ids : TypeOrm!FindById(i)
      BY <2>1
    <3>2. {i} \cap TypeOrm!Live \in SUBSET TypeOrm!Live /\ TypeOrm!Select({i} \cap TypeOrm!Live)
      BY <3>1 DEF TypeOrm!FindById
    <3> QED
      BY <3>2
  <2>2. CASE \E T \in SUBSET Ids : TypeOrm!FindIn(T)
    <3>1. PICK T \in SUBSET Ids : TypeOrm!FindIn(T)
      BY <2>2
    <3>2. T \cap TypeOrm!Live \in SUBSET TypeOrm!Live /\ TypeOrm!Select(T \cap TypeOrm!Live)
      BY <3>1 DEF TypeOrm!FindIn
    <3> QED
      BY <3>2
  <2>3. CASE \E K \in SUBSET (Columns \cup {"id"}), v \in Ids \cup Values : TypeOrm!FindOr(K, v)
    <3>1. PICK K, v : TypeOrm!FindOr(K, v)
      BY <2>3
    <3> DEFINE A == {i \in TypeOrm!Live : \E k \in K : IF k = "id" THEN i = v ELSE rows[i].fields[k] = v}
    <3>2. A \in SUBSET TypeOrm!Live /\ TypeOrm!Select(A)
      BY <3>1 DEF TypeOrm!FindOr
    <3> HIDE DEF A
    <3> QED
      BY <3>2
  <2>4. CASE TypeOrm!FindAll
    <3>1. TypeOrm!Live \in SUBSET TypeOrm!Live /\ TypeOrm!Select(TypeOrm!Live)
      BY <2>4 DEF TypeOrm!FindAll
    <3> QED
      BY <3>1
  <2>5. CASE \E w \in TypeOrm!Filters : \/ TypeOrm!Find(w) \/ TypeOrm!FindOne(w)
                                        \/ TypeOrm!FindOneWithFields(w) \/ TypeOrm!FindAllWithFields(w)
    <3>1. PICK w \in TypeOrm!Filters : TypeOrm!Find(w) \/ TypeOrm!FindOne(w)
      BY <2>5 DEF TypeOrm!FindOneWithFields, TypeOrm!FindAllWithFields
    <3>2. TypeOrm!Visible(w) \in SUBSET TypeOrm!Live
      BY OrmSets
    <3>3. TypeOrm!Select(TypeOrm!Visible(w)) \/ \E A \in TypeOrm!OneOf(TypeOrm!Visible(w)) : TypeOrm!Select(A)
      BY <3>1 DEF TypeOrm!Find, TypeOrm!FindOne
    <3> QED
      BY <3>2, <3>3, OrmSets
  <2> QED
    BY <2>1, <2>2, <2>3, <2>4, <2>5
<1> QED
    BY <1>1, OrmSelects

\* The writes of one statement are noted against everybody in flight
LEMMA OrmWrites ==
    ASSUME TypeOrm!TypeOK, OrmStored, TypeOrm!Wrote, ormReq' = ormReq, outcome' # "updated"
    PROVE  TypeOrm!TypeOK' /\ OrmNobodys
<1>1. ormAnswer' \subseteq Ids
    BY OrmSets DEF OrmStored, OrmRead, OrmWrite, OrmRemoval, OrmInsert
<1>2. raced' \subseteq Callers
    BY DEF TypeOrm!Wrote, TypeOrm!TypeOK
<1>3. TypeOrm!TypeOK'
    BY <1>1, <1>2 DEF TypeOrm!TypeOK, OrmStored
<1>4. \A t \in Callers : OrmAside(t)
    BY DEF TypeOrm!Wrote, OrmAside
<1> QED
    BY <1>3, <1>4 DEF OrmNobodys

LEMMA OrmInsertsMany ==
    ASSUME TypeOrm!TypeOK, NEW T \in SUBSET Ids, NEW p \in TypeOrm!Patch, TypeOrm!InsertMany(T, p)
    PROVE  TypeOrm!TypeOK' /\ OrmNobodys
<1>1. TypeOrm!Total(p) /\ ormReq' = ormReq /\ TypeOrm!Wrote /\ ormAnswer' = {} /\ outcome' # "updated"
    BY DEF TypeOrm!InsertMany, TypeOrm!Reply
<1>2. CASE T \cap TypeOrm!Present = {}
  <2>1. TypeOrm!Put(T, [p EXCEPT !.state = IF @ = None THEN "live" ELSE @])
    BY <1>2 DEF TypeOrm!InsertMany
  <2>2. T \in SUBSET (Ids \ TypeOrm!Present)
    BY <1>2
  <2>3. ormAnswer' \subseteq {i \in Ids : rows'[i].state = "live"}
    BY <1>1
  <2>4. OrmStored
    BY <1>1, <2>1, <2>2, <2>3, OrmPutNewFacts
  <2> QED
    BY <1>1, <2>4, OrmWrites
<1>3. CASE T \cap TypeOrm!Present # {}
  <2>1. rows' = rows
    BY <1>3 DEF TypeOrm!InsertMany
  <2>2. OrmStored
    BY <1>1, <2>1 DEF OrmStored, OrmRead, TypeOrm!TypeOK
  <2> QED
    BY <1>1, <2>2, OrmWrites
<1> QED
    BY <1>2, <1>3

LEMMA OrmRemoves ==
    ASSUME TypeOrm!TypeOK, NEW w, TypeOrm!Remove(w)
    PROVE  TypeOrm!TypeOK' /\ OrmNobodys
<1>1. /\ rows' = [i \in Ids |-> IF i \in TypeOrm!Where(w) THEN TypeOrm!Absent ELSE rows[i]]
      /\ ormReq' = ormReq /\ TypeOrm!Wrote /\ ormAnswer' = {} /\ outcome' # "updated"
    BY DEF TypeOrm!Remove, TypeOrm!Reply
<1>2. rows' \in [Ids -> TypeOrm!Row]
    BY <1>1 DEF TypeOrm!TypeOK, TypeOrm!Row
<1>3. OrmRemoval
    BY <1>1, OrmSets DEF OrmRemoval
<1>4. OrmStored
    BY <1>2, <1>3 DEF OrmStored
<1> QED
    BY <1>1, <1>4, OrmWrites

LEMMA OrmUpdatesOne ==
    ASSUME TypeOrm!TypeOK, NEW w, NEW p \in TypeOrm!Patch, TypeOrm!UpdateOne(w, p)
    PROVE  TypeOrm!TypeOK' /\ OrmNobodys
<1>1. /\ TypeOrm!Put(TypeOrm!Where(w), p)
      /\ ormReq' = ormReq /\ TypeOrm!Wrote /\ ormAnswer' = {} /\ outcome' # "updated"
    BY DEF TypeOrm!UpdateOne, TypeOrm!Reply
<1>2. TypeOrm!Where(w) \in SUBSET TypeOrm!Present
    BY OrmSets
<1>3. OrmStored
    BY <1>1, <1>2, OrmPutFacts
<1> QED
    BY <1>1, <1>3, OrmWrites

\* A step of a request is a step aside of the others
LEMMA OrmTakesTurn ==
    ASSUME TypeOrm!TypeOK, NEW s \in Callers, NEW r \in TypeOrm!Request, TypeOrm!Go(s, r),
           OrmStored, TypeOrm!Race(s) \/ (rows' = rows /\ raced' = raced)
    PROVE  TypeOrm!TypeOK' /\ OrmTurn(s) /\ ormReq'[s] = r
<1>1. ormAnswer' \subseteq Ids
    BY OrmSets DEF OrmStored, OrmRead, OrmWrite, OrmRemoval, OrmInsert
<1>2. raced' \subseteq Callers
    BY DEF TypeOrm!Race, TypeOrm!TypeOK
<1>3. ormReq' \in [Callers -> TypeOrm!Request] /\ ormReq'[s] = r /\ \A t \in Callers \ {s} : ormReq'[t] = ormReq[t]
    BY DEF TypeOrm!Go, TypeOrm!TypeOK
<1>4. TypeOrm!TypeOK'
    BY <1>1, <1>2, <1>3 DEF TypeOrm!TypeOK, OrmStored
<1>5. \A t \in Callers \ {s} : OrmAside(t)
    BY <1>3 DEF TypeOrm!Race, OrmAside
<1> QED
    BY <1>3, <1>4, <1>5 DEF OrmTurn

\* A request that is over, or that writes all it was given, has nothing to keep
OrmOver(s) == ormReq[s].at \notin {"save", "find", "update", "updateAll"}

LEMMA OrmOverIsSound ==
    ASSUME NEW s \in Callers, OrmOver(s)'
    PROVE  OrmRequestInv(s)'
    BY DEF OrmOver, OrmRequestInv, TypeOrm!FoundStillMatches, TypeOrm!PatchIsTheGiven, TypeOrm!SavesTheGiven

\* entity.save() of a whole entity begins
LEMMA OrmSaves ==
    ASSUME TypeOrm!TypeOK, NEW s \in Callers, NEW i \in Ids, NEW p \in TypeOrm!Patch, NEW r,
           r = [TypeOrm!Idle EXCEPT !.at = "save", !.id = i, !.patch = p, !.given = p],
           TypeOrm!Go(s, r), TypeOrm!Reply("none", {}), rows' = rows, raced' = raced
    PROVE  TypeOrm!TypeOK' /\ OrmTurn(s) /\ OrmRequestInv(s)' /\ outcome' = "none"
<1>1. r \in TypeOrm!Request /\ r.at = "save" /\ r.patch = r.given
    BY OrmEmpty DEF TypeOrm!Request, TypeOrm!Steps
<1>2. OrmStored /\ outcome' = "none"
    BY DEF OrmStored, OrmRead, TypeOrm!Reply, TypeOrm!TypeOK
<1>3. TypeOrm!TypeOK' /\ OrmTurn(s) /\ ormReq'[s] = r
    BY <1>1, <1>2, OrmTakesTurn
<1>4. OrmRequestInv(s)'
    BY <1>1, <1>3
       DEF OrmRequestInv, TypeOrm!FoundStillMatches, TypeOrm!PatchIsTheGiven, TypeOrm!SavesTheGiven
<1> QED
    BY <1>2, <1>3, <1>4

\* createOrUpdate merges what it was given into the row it found
LEMMA OrmMergeFacts ==
    ASSUME NEW row, NEW p
    PROVE  TypeOrm!Set(row, TypeOrm!Set(row, p)) = TypeOrm!Set(row, p)
    BY DEF TypeOrm!Set

\* ... and entity.save() updates the columns that differ from it
LEMMA OrmDiffFacts ==
    ASSUME NEW row, NEW p
    PROVE  TypeOrm!Set(row, TypeOrm!DiffOf(row, p)) = TypeOrm!Set(row, p)
    BY DEF TypeOrm!Set, TypeOrm!DiffOf

LEMMA OrmPatchFacts ==
    /\ \A row \in TypeOrm!Row, p \in TypeOrm!Patch : row.state # "absent" => TypeOrm!Set(row, p) \in TypeOrm!Patch
    /\ \A row, p : p \in TypeOrm!Patch => TypeOrm!DiffOf(row, p) \in TypeOrm!Patch
<1>1. ASSUME NEW row \in TypeOrm!Row, NEW p \in TypeOrm!Patch, row.state # "absent"
      PROVE  TypeOrm!Set(row, p) \in TypeOrm!Patch
  <2>1. TypeOrm!Set(row, p) \in [state : {"live", "deleted"}, fields : [Columns -> Values]]
    BY <1>1, OrmSetFacts DEF TypeOrm!Row, TypeOrm!Absent
  <2>2. [Columns -> Values] \subseteq [Columns -> Values \cup {None}]
    OBVIOUS
  <2> QED
    BY <2>1, <2>2 DEF TypeOrm!Patch, TypeOrm!Partial
<1>2. ASSUME NEW row, NEW p \in TypeOrm!Patch
      PROVE  TypeOrm!DiffOf(row, p) \in TypeOrm!Patch
    BY DEF TypeOrm!DiffOf, TypeOrm!Patch, TypeOrm!Partial
<1> QED
    BY <1>1, <1>2

LEMMA OrmLoads ==
    ASSUME TypeOrm!TypeOK, NEW s \in Callers, OrmRequestInv(s), TypeOrm!SaveLoad(s)
    PROVE  TypeOrm!TypeOK' /\ OrmTurn(s) /\ OrmRequestInv(s)' /\ outcome' = "none" /\ ormReq'[s] # TypeOrm!Idle
<1> DEFINE q == ormReq[s]
           i == ormReq[s].id
           d == TypeOrm!DiffOf(rows[ormReq[s].id], ormReq[s].patch)
<1>0. q \in TypeOrm!Request /\ TypeOrm!Present \subseteq Ids /\ d \in TypeOrm!Patch
  <2>1. q \in TypeOrm!Request
    BY DEF TypeOrm!TypeOK
  <2> QED
    BY <2>1, OrmSets, OrmPatchFacts DEF TypeOrm!Request
<1>1. /\ q.at = "save" /\ rows' = rows /\ raced' = raced /\ ormAnswer' = {} /\ outcome' = "none"
      /\ TypeOrm!Go(s, IF i \in TypeOrm!Present
                       THEN [q EXCEPT !.at = "update", !.patch = d] ELSE [q EXCEPT !.at = "insert"])
    BY DEF TypeOrm!SaveLoad, TypeOrm!Reply
<1>2. OrmStored
    BY <1>1 DEF OrmStored, OrmRead, TypeOrm!TypeOK
<1> HIDE DEF d
<1>3. CASE i \in TypeOrm!Present
  <2> DEFINE r == [q EXCEPT !.at = "update", !.patch = d]
  <2>1. /\ r \in TypeOrm!Request
        /\ r.at = "update" /\ r.id = i /\ r.patch = d /\ r.given = q.given
    BY <1>0 DEF TypeOrm!Request, TypeOrm!Steps
  <2>2. TypeOrm!Go(s, r)
    BY <1>1, <1>3
  <2> HIDE DEF r
  <2>3. TypeOrm!TypeOK' /\ OrmTurn(s) /\ ormReq'[s] = r
    BY <1>1, <1>2, <2>1, <2>2, OrmTakesTurn
  <2>4. TypeOrm!Set(rows'[i], d) = TypeOrm!Set(rows'[i], q.patch)
    BY <1>1, OrmDiffFacts DEF d
  <2>5. q.patch = q.given
    BY <1>1 DEF OrmRequestInv, TypeOrm!SavesTheGiven
  <2>6. OrmRequestInv(s)'
    BY <1>0, <1>3, <2>1, <2>3, <2>4, <2>5 DEF OrmRequestInv, TypeOrm!FoundStillMatches, TypeOrm!PatchIsTheGiven, TypeOrm!SavesTheGiven
  <2> QED
    BY <1>1, <2>1, <2>3, <2>6, OrmEmpty
<1>4. CASE i \notin TypeOrm!Present
  <2> DEFINE r == [q EXCEPT !.at = "insert"]
  <2>1. r \in TypeOrm!Request /\ r.at = "insert"
    BY <1>0 DEF TypeOrm!Request, TypeOrm!Steps
  <2>2. TypeOrm!Go(s, r)
    BY <1>1, <1>4
  <2> HIDE DEF r
  <2>3. TypeOrm!TypeOK' /\ OrmTurn(s) /\ ormReq'[s] = r
    BY <1>1, <1>2, <2>1, <2>2, OrmTakesTurn
  <2>4. OrmOver(s)' /\ ormReq'[s] # TypeOrm!Idle
    BY <2>1, <2>3, OrmEmpty DEF OrmOver
  <2> QED
    BY <1>1, <2>3, <2>4, OrmOverIsSound
<1> QED
    BY <1>3, <1>4

LEMMA OrmCreates ==
    ASSUME TypeOrm!TypeOK, NEW s \in Callers, NEW i \in Ids, NEW p \in TypeOrm!Patch,
           TypeOrm!Create(s, i, p) \/ TypeOrm!CreateOrUpdate(s, i, p)
    PROVE  TypeOrm!TypeOK' /\ OrmTurn(s) /\ OrmRequestInv(s)' /\ outcome' = "none"
<1> DEFINE save == [TypeOrm!Idle EXCEPT !.at = "save", !.id = i, !.patch = p, !.given = p]
           update == [TypeOrm!Idle EXCEPT !.at = "updateAll", !.id = i, !.patch = TypeOrm!Set(rows[i], p), !.given = p]
<1>1. rows' = rows /\ raced' = raced /\ TypeOrm!Reply("none", {})
    BY DEF TypeOrm!Create, TypeOrm!CreateOrUpdate
<1>2. TypeOrm!Go(s, save) \/ (i \in TypeOrm!Live /\ TypeOrm!Go(s, update))
    BY DEF TypeOrm!Create, TypeOrm!CreateOrUpdate
<1>3. CASE TypeOrm!Go(s, save)
    BY <1>1, <1>3, OrmSaves
<1>4. CASE i \in TypeOrm!Live /\ TypeOrm!Go(s, update)
  <2>1. TypeOrm!Set(rows[i], p) \in TypeOrm!Patch
    BY <1>4, OrmPatchFacts DEF TypeOrm!Live, TypeOrm!TypeOK
  <2>2. /\ update \in TypeOrm!Request
        /\ update.at = "updateAll" /\ update.id = i /\ update.given = p
        /\ update.patch = TypeOrm!Set(rows[i], p)
    BY <2>1, OrmEmpty DEF TypeOrm!Request, TypeOrm!Steps
  <2> HIDE DEF update
  <2>3. OrmStored /\ outcome' = "none"
    BY <1>1 DEF OrmStored, OrmRead, TypeOrm!Reply, TypeOrm!TypeOK
  <2>4. TypeOrm!TypeOK' /\ OrmTurn(s) /\ ormReq'[s] = update
    BY <1>1, <1>4, <2>2, <2>3, OrmTakesTurn
  <2>5. TypeOrm!Set(rows'[i], update.patch) = TypeOrm!Set(rows'[i], p)
    BY <1>1, <2>2, OrmMergeFacts
  <2>6. OrmRequestInv(s)'
    BY <2>2, <2>4, <2>5
       DEF OrmRequestInv, TypeOrm!FoundStillMatches, TypeOrm!PatchIsTheGiven, TypeOrm!SavesTheGiven
  <2> QED
    BY <2>3, <2>4, <2>6
<1> QED
    BY <1>2, <1>3, <1>4

\* A step that ends its request
LEMMA OrmEnds ==
    ASSUME TypeOrm!TypeOK, NEW s \in Callers, TypeOrm!Go(s, TypeOrm!Idle), OrmStored, TypeOrm!Race(s)
    PROVE  TypeOrm!TypeOK' /\ OrmTurn(s) /\ OrmRequestInv(s)'
<1>1. TypeOrm!TypeOK' /\ OrmTurn(s) /\ ormReq'[s] = TypeOrm!Idle
    BY OrmEmpty, OrmTakesTurn
<1>2. OrmOver(s)'
    BY <1>1, OrmEmpty DEF OrmOver
<1> QED
    BY <1>1, <1>2, OrmOverIsSound

LEMMA OrmInserts ==
    ASSUME TypeOrm!TypeOK, NEW s \in Callers, TypeOrm!SaveInsert(s)
    PROVE  TypeOrm!TypeOK' /\ OrmTurn(s) /\ OrmRequestInv(s)' /\ outcome' # "updated" /\ ormReq[s].at = "insert"
<1> DEFINE q == ormReq[s]
           T == {q.id} \cap Ids
<1>1. TypeOrm!Go(s, TypeOrm!Idle) /\ TypeOrm!Race(s) /\ outcome' # "updated" /\ q.at = "insert"
    BY DEF TypeOrm!SaveInsert, TypeOrm!Reply
<1>2. q.patch \in TypeOrm!Patch
    BY DEF TypeOrm!TypeOK, TypeOrm!Request
<1>3. CASE TypeOrm!Total(q.patch) /\ q.id \notin TypeOrm!Present
  <2>1. /\ TypeOrm!Put({q.id}, [q.patch EXCEPT !.state = IF @ = None THEN "live" ELSE @])
        /\ ormAnswer' = {q.id} \cap {i \in Ids : rows'[i].state = "live"}
    BY <1>3 DEF TypeOrm!SaveInsert, TypeOrm!Reply
  <2>2. TypeOrm!Put(T, [q.patch EXCEPT !.state = IF @ = None THEN "live" ELSE @])
    BY <2>1 DEF TypeOrm!Put
  <2>3. T \in SUBSET (Ids \ TypeOrm!Present) /\ ormAnswer' \subseteq {i \in Ids : rows'[i].state = "live"}
    BY <1>3, <2>1
  <2> HIDE DEF T
  <2>4. OrmStored
    BY <1>2, <1>3, <2>2, <2>3, OrmPutNewFacts
  <2> QED
    BY <1>1, <2>4, OrmEnds
<1>4. CASE ~ (TypeOrm!Total(q.patch) /\ q.id \notin TypeOrm!Present)
  <2>1. rows' = rows /\ ormAnswer' = {}
    BY <1>4 DEF TypeOrm!SaveInsert, TypeOrm!Reply
  <2>2. OrmStored
    BY <2>1 DEF OrmStored, OrmRead, TypeOrm!TypeOK
  <2> QED
    BY <1>1, <2>2, OrmEnds
<1> QED
    BY <1>3, <1>4

\* The row of the request becomes what it was given, unless it was raced
LEMMA OrmUpdates ==
    ASSUME TypeOrm!TypeOK, NEW s \in Callers, OrmRequestInv(s), TypeOrm!SaveUpdate(s) \/ TypeOrm!UpdateFound(s)
    PROVE  /\ TypeOrm!TypeOK' /\ OrmTurn(s) /\ OrmRequestInv(s)' /\ ormReq'[s] = TypeOrm!Idle
           /\ outcome' = "updated" => ormReq[s].at = "updateAll" /\ ormReq[s].id \in TypeOrm!Present
           /\ s \notin raced => \A i \in TypeOrm!Present :
                  rows'[i] = IF i = ormReq[s].id THEN TypeOrm!Set(rows[i], ormReq[s].given) ELSE rows[i]
           /\ ormReq[s].at \in {"update", "updateAll"}
<1> DEFINE q == ormReq[s]
           T == {q.id} \cap TypeOrm!Present
<1>1. /\ TypeOrm!Go(s, TypeOrm!Idle) /\ TypeOrm!Race(s) /\ TypeOrm!Put(T, q.patch) /\ ormAnswer' = {}
      /\ q.at \in {"update", "updateAll"}
      /\ outcome' = "updated" => q.at = "updateAll" /\ q.id \in TypeOrm!Present
    BY DEF TypeOrm!SaveUpdate, TypeOrm!UpdateFound, TypeOrm!Reply
<1>2. q.patch \in TypeOrm!Patch /\ T \in SUBSET TypeOrm!Present /\ TypeOrm!Present \subseteq Ids
    BY OrmSets DEF TypeOrm!TypeOK, TypeOrm!Request
<1>3. OrmStored /\ \A i \in Ids : rows'[i] = IF i \in T THEN TypeOrm!Set(rows[i], q.patch) ELSE rows[i]
  <2> HIDE DEF T
  <2> QED
    BY <1>1, <1>2, OrmPutFacts
<1>4. TypeOrm!TypeOK' /\ OrmTurn(s) /\ OrmRequestInv(s)'
    BY <1>1, <1>3, OrmEnds
<1>5. ASSUME s \notin raced, NEW i \in TypeOrm!Present
      PROVE  rows'[i] = IF i = q.id THEN TypeOrm!Set(rows[i], q.given) ELSE rows[i]
    BY <1>1, <1>2, <1>3, <1>5 DEF OrmRequestInv, TypeOrm!PatchIsTheGiven
<1>6. ormReq'[s] = TypeOrm!Idle
    BY <1>1 DEF TypeOrm!Go, TypeOrm!TypeOK
<1> QED
    BY <1>1, <1>4, <1>5, <1>6

\* Of the rows that a findOneAndUpdate updates, the one it would find is found
\* by the same filter, unless the update itself moves it
LEMMA OrmUpdatedMatches ==
    ASSUME NEW w \in TypeOrm!Filters, NEW p \in TypeOrm!Patch, NEW i \in TypeOrm!Visible(w), NEW r,
           r.given = p, r.filter = w, ~ TypeOrm!MovedByItself(r),
           rows'[i] = TypeOrm!Set(rows[i], p)
    PROVE  i \in TypeOrm!Visible(w)'
<1>1. i \in Ids /\ rows[i].state = "live" /\ i \in TypeOrm!Where(w)
    BY DEF TypeOrm!Visible, TypeOrm!Where, TypeOrm!Live
<1>2. p.state \in {"live", None}
    BY DEF TypeOrm!MovedByItself, TypeOrm!Patch
<1>3. rows'[i].state = "live"
    BY <1>1, <1>2 DEF TypeOrm!Set
<1>4. w.on = "id" => i = w.eq
    BY <1>1 DEF TypeOrm!Where
<1>5. w.on \in Columns => rows'[i].fields[w.on] = w.eq
  <2>1. w.on \in Columns => rows[i].fields[w.on] = w.eq
    BY <1>1 DEF TypeOrm!Where
  <2>2. w.on \in Columns => p.fields[w.on] \in {None, w.eq}
    BY DEF TypeOrm!MovedByItself
  <2> QED
    BY <2>1, <2>2 DEF TypeOrm!Set
<1>6. i \in TypeOrm!Where(w)'
    BY <1>1, <1>3, <1>4, <1>5 DEF TypeOrm!Where, TypeOrm!Present
<1> QED
    BY <1>1, <1>3, <1>6 DEF TypeOrm!Visible, TypeOrm!Live

LEMMA OrmFindsAndUpdates ==
    ASSUME TypeOrm!TypeOK, NEW s \in Callers, NEW w \in TypeOrm!Filters, NEW p \in TypeOrm!Patch,
           TypeOrm!FindOneAndUpdate(s, w, p)
    PROVE  TypeOrm!TypeOK' /\ OrmTurn(s) /\ OrmRequestInv(s)' /\ outcome' = "none" /\ ormReq'[s] # TypeOrm!Idle
<1> DEFINE id == IF TypeOrm!Visible(w) = {} THEN None ELSE CHOOSE i \in TypeOrm!Visible(w) : TRUE
           r == [TypeOrm!Idle EXCEPT !.at = "find", !.filter = w, !.given = p, !.id = id]
<1>1. /\ TypeOrm!Put(TypeOrm!Where(w), p) /\ TypeOrm!Go(s, r) /\ TypeOrm!Race(s)
      /\ ormAnswer' = {} /\ outcome' = "none"
    BY DEF TypeOrm!FindOneAndUpdate, TypeOrm!Reply
<1>2. id = None \/ id \in TypeOrm!Visible(w)
    OBVIOUS
<1>3. TypeOrm!Visible(w) \subseteq TypeOrm!Where(w) /\ TypeOrm!Where(w) \in SUBSET TypeOrm!Present
      /\ TypeOrm!Present \subseteq Ids
    BY OrmSets DEF TypeOrm!Visible
<1> HIDE DEF id
<1>4. /\ r \in TypeOrm!Request
      /\ r.at = "find" /\ r.filter = w /\ r.given = p /\ r.id = id
    BY <1>2, <1>3, OrmEmpty DEF TypeOrm!Request, TypeOrm!Steps
<1> HIDE DEF r
<1>5. OrmStored /\ \A i \in Ids : rows'[i] = IF i \in TypeOrm!Where(w) THEN TypeOrm!Set(rows[i], p) ELSE rows[i]
    BY <1>1, <1>3, OrmPutFacts
<1>6. TypeOrm!TypeOK' /\ OrmTurn(s) /\ ormReq'[s] = r
    BY <1>1, <1>4, <1>5, OrmTakesTurn
<1>7. id # None /\ ~ TypeOrm!MovedByItself(r) => id \in TypeOrm!Visible(w)'
    BY <1>2, <1>3, <1>4, <1>5, OrmUpdatedMatches
<1>8. OrmRequestInv(s)'
    BY <1>4, <1>6, <1>7
       DEF OrmRequestInv, TypeOrm!FoundStillMatches, TypeOrm!PatchIsTheGiven, TypeOrm!SavesTheGiven,
           TypeOrm!MovedByItself
<1> QED
    BY <1>1, <1>4, <1>6, <1>8, OrmEmpty

LEMMA OrmFindsUpdated ==
    ASSUME TypeOrm!TypeOK, NEW s \in Callers, OrmRequestInv(s), TypeOrm!FindUpdated(s)
    PROVE  /\ TypeOrm!TypeOK' /\ OrmTurn(s) /\ OrmRequestInv(s)' /\ outcome' # "updated" /\ ormReq[s].at = "find"
           /\ ormReq[s].id # None /\ ormAnswer' = {} => s \in raced \/ TypeOrm!MovedByItself(ormReq[s])
<1> DEFINE q == ormReq[s]
<1>1. /\ TypeOrm!Go(s, TypeOrm!Idle) /\ TypeOrm!Race(s) /\ rows' = rows /\ q.at = "find" /\ outcome' = "rows"
      /\ ormAnswer' \in TypeOrm!OneOf(TypeOrm!Visible(q.filter))
    BY DEF TypeOrm!FindUpdated, TypeOrm!Reply
<1>2. OrmStored
    BY <1>1, OrmSets DEF OrmStored, OrmRead, TypeOrm!TypeOK
<1>3. TypeOrm!TypeOK' /\ OrmTurn(s) /\ OrmRequestInv(s)'
    BY <1>1, <1>2, OrmEnds
<1>4. ormAnswer' = {} => TypeOrm!Visible(q.filter) = {}
    BY <1>1 DEF TypeOrm!OneOf
<1> QED
    BY <1>1, <1>3, <1>4 DEF OrmRequestInv, TypeOrm!FoundStillMatches

-----------------------------------------------------------------------------
\* What a step does for the request of one caller
OrmKeepsTheRest(s) ==
    ormReq[s].at \in {"update", "updateAll"} /\ ormReq'[s] = TypeOrm!Idle /\ s \notin raced =>
        \A i \in TypeOrm!Present :
            rows'[i] = IF i = ormReq[s].id THEN TypeOrm!Set(rows[i], ormReq[s].given) ELSE rows[i]

OrmExplains(s) ==
    /\ ormReq[s].at = "find" /\ ormReq'[s] = TypeOrm!Idle
    /\ ormReq[s].id # None /\ ormAnswer' = {}
    => s \in raced \/ TypeOrm!MovedByItself(ormReq[s])

OrmUpdatesWhatIsThere ==
    outcome' = "updated" =>
        \E s \in Callers : ormReq[s].at = "updateAll" /\ ormReq'[s] = TypeOrm!Idle /\ ormReq[s].id \in TypeOrm!Present

OrmDoes(s) == OrmKeepsTheRest(s) /\ OrmExplains(s)

\* A request that another one or nobody steps by does nothing, and stays sound
LEMMA OrmAsideFacts ==
    ASSUME NEW s \in Callers, OrmRequestInv(s), OrmAside(s)
    PROVE  OrmDoes(s) /\ OrmRequestInv(s)'
<1>1. OrmDoes(s)
    BY OrmEmpty DEF OrmDoes, OrmKeepsTheRest, OrmExplains, OrmAside
<1>2. CASE ormReq[s] = TypeOrm!Idle
  <2>1. OrmOver(s)'
    BY <1>2, OrmEmpty DEF OrmAside, OrmOver
  <2> QED
    BY <1>1, <2>1, OrmOverIsSound
<1>3. CASE ormReq[s] # TypeOrm!Idle
  <2>1. ormReq'[s] = ormReq[s] /\ (s \notin raced' => s \notin raced /\ rows' = rows)
    BY <1>3 DEF OrmAside
  <2>2. rows' = rows => TypeOrm!Visible(ormReq[s].filter)' = TypeOrm!Visible(ormReq[s].filter)
    BY <2>1 DEF TypeOrm!Visible, TypeOrm!Where, TypeOrm!Live, TypeOrm!Present
  <2>3. TypeOrm!FoundStillMatches(s)'
    BY <2>1, <2>2 DEF OrmRequestInv, TypeOrm!FoundStillMatches
  <2>4. TypeOrm!PatchIsTheGiven(s)' /\ TypeOrm!SavesTheGiven(s)'
    BY <2>1 DEF OrmRequestInv, TypeOrm!PatchIsTheGiven, TypeOrm!SavesTheGiven
  <2> QED
    BY <1>1, <2>3, <2>4 DEF OrmRequestInv
<1> QED
    BY <1>2, <1>3

\* The steps of one request
LEMMA OrmTurns ==
    ASSUME TypeOrm!RepositoryInv, NEW s \in Callers,
           \/ \E i \in Ids, p \in TypeOrm!Patch : TypeOrm!Create(s, i, p) \/ TypeOrm!CreateOrUpdate(s, i, p)
           \/ TypeOrm!SaveLoad(s) \/ TypeOrm!SaveInsert(s) \/ TypeOrm!SaveUpdate(s)
           \/ TypeOrm!UpdateFound(s) \/ TypeOrm!FindUpdated(s)
           \/ \E w \in TypeOrm!Filters, p \in TypeOrm!Patch : TypeOrm!FindOneAndUpdate(s, w, p)
    PROVE  /\ TypeOrm!TypeOK' /\ OrmTurn(s) /\ OrmRequestInv(s)'
           /\ OrmDoes(s) /\ OrmUpdatesWhatIsThere
<1>0. TypeOrm!TypeOK /\ OrmRequestInv(s)
    BY DEF TypeOrm!RepositoryInv, OrmRequestInv
<1> USE DEF OrmDoes, OrmKeepsTheRest, OrmExplains, OrmUpdatesWhatIsThere
<1>1. CASE \E i \in Ids, p \in TypeOrm!Patch : TypeOrm!Create(s, i, p) \/ TypeOrm!CreateOrUpdate(s, i, p)
  <2>1. ormReq[s].at = "idle"
    BY <1>1, OrmEmpty DEF TypeOrm!Create, TypeOrm!CreateOrUpdate
  <2> QED
    BY <1>0, <1>1, <2>1, OrmCreates
<1>2. CASE TypeOrm!SaveLoad(s)
    BY <1>0, <1>2, OrmLoads
<1>3. CASE TypeOrm!SaveInsert(s)
    BY <1>0, <1>3, OrmInserts
<1>4. CASE TypeOrm!SaveUpdate(s) \/ TypeOrm!UpdateFound(s)
    BY <1>0, <1>4, OrmUpdates
<1>5. CASE TypeOrm!FindUpdated(s)
    BY <1>0, <1>5, OrmFindsUpdated
<1>6. CASE \E w \in TypeOrm!Filters, p \in TypeOrm!Patch : TypeOrm!FindOneAndUpdate(s, w, p)
    BY <1>0, <1>6, OrmFindsAndUpdates
<1> QED
    BY <1>1, <1>2, <1>3, <1>4, <1>5, <1>6

LEMMA OrmNextIsOf ==
    ASSUME TypeOrm!TypeOK, TypeOrm!Next
    PROVE  \/ TypeOrm!TypeOK' /\ OrmNobodys
           \/ \E s \in Callers :
                \/ \E i \in Ids, p \in TypeOrm!Patch : TypeOrm!Create(s, i, p) \/ TypeOrm!CreateOrUpdate(s, i, p)
                \/ TypeOrm!SaveLoad(s) \/ TypeOrm!SaveInsert(s) \/ TypeOrm!SaveUpdate(s)
                \/ TypeOrm!UpdateFound(s) \/ TypeOrm!FindUpdated(s)
                \/ \E w \in TypeOrm!Filters, p \in TypeOrm!Patch : TypeOrm!FindOneAndUpdate(s, w, p)
<1>1. ASSUME NEW T \in SUBSET Ids, NEW p \in TypeOrm!Patch, TypeOrm!InsertMany(T, p)
      PROVE  TypeOrm!TypeOK' /\ OrmNobodys
    BY <1>1, OrmInsertsMany
<1>2. ASSUME NEW w \in TypeOrm!Filters, TypeOrm!Remove(w)
      PROVE  TypeOrm!TypeOK' /\ OrmNobodys
    BY <1>2, OrmRemoves
<1>3. ASSUME NEW w \in TypeOrm!Filters, NEW p \in TypeOrm!Patch, TypeOrm!UpdateOne(w, p) \/ TypeOrm!UpdateMany(w, p)
      PROVE  TypeOrm!TypeOK' /\ OrmNobodys
    BY <1>3, OrmUpdatesOne DEF TypeOrm!UpdateMany
<1> QED
    BY <1>1, <1>2, <1>3, OrmFinds DEF TypeOrm!Next

LEMMA OrmStep ==
    ASSUME TypeOrm!RepositoryInv, TypeOrm!Next
    PROVE  /\ TypeOrm!RepositoryInv' /\ OrmStored
           /\ OrmUpdatesWhatIsThere /\ \A s \in Callers : OrmDoes(s)
<1>0. TypeOrm!TypeOK /\ \A t \in Callers : OrmRequestInv(t)
    BY DEF TypeOrm!RepositoryInv, OrmRequestInv
<1>1. CASE TypeOrm!TypeOK' /\ OrmNobodys
  <2>1. \A t \in Callers : OrmRequestInv(t)' /\ OrmDoes(t)
    BY <1>0, <1>1, OrmAsideFacts DEF OrmNobodys
  <2>2. TypeOrm!RepositoryInv'
    BY <1>1, <2>1 DEF TypeOrm!RepositoryInv, OrmRequestInv
  <2> QED
    BY <1>1, <2>1, <2>2 DEF OrmNobodys, OrmUpdatesWhatIsThere
<1>2. ASSUME NEW s \in Callers,
             \/ \E i \in Ids, p \in TypeOrm!Patch : TypeOrm!Create(s, i, p) \/ TypeOrm!CreateOrUpdate(s, i, p)
             \/ TypeOrm!SaveLoad(s) \/ TypeOrm!SaveInsert(s) \/ TypeOrm!SaveUpdate(s)
             \/ TypeOrm!UpdateFound(s) \/ TypeOrm!FindUpdated(s)
             \/ \E w \in TypeOrm!Filters, p \in TypeOrm!Patch : TypeOrm!FindOneAndUpdate(s, w, p)
      PROVE  /\ TypeOrm!RepositoryInv' /\ OrmStored
             /\ OrmUpdatesWhatIsThere /\ \A t \in Callers : OrmDoes(t)
  <2>1. /\ TypeOrm!TypeOK' /\ OrmTurn(s) /\ OrmRequestInv(s)'
        /\ OrmDoes(s) /\ OrmUpdatesWhatIsThere
    BY <1>2, OrmTurns
  <2>2. \A t \in Callers \ {s} : OrmRequestInv(t)' /\ OrmDoes(t)
    BY <1>0, <2>1, OrmAsideFacts DEF OrmTurn
  <2>3. TypeOrm!RepositoryInv'
    BY <2>1, <2>2 DEF TypeOrm!RepositoryInv, OrmRequestInv
  <2> QED
    BY <2>1, <2>2, <2>3 DEF OrmTurn
<1> QED
    BY <1>0, <1>1, <1>2, OrmNextIsOf

LEMMA OrmRowFacts ==
    /\ TypeOrm!Row \subseteq TypeOrm!Store!Row /\ TypeOrm!Absent = TypeOrm!Store!NoRow
    /\ \A row \in TypeOrm!Row : row.state \in {"absent", "live", "deleted"}
    /\ \A row \in TypeOrm!Row : row.state = "absent" => row = TypeOrm!Absent
    BY DEF TypeOrm!Row, TypeOrm!Absent, TypeOrm!Store!Row, TypeOrm!Store!States, TypeOrm!Store!NoRow

LEMMA OrmStoreStep ==
    ASSUME TypeOrm!TypeOK, OrmStored
    PROVE  TypeOrm!Store!Next
<1>1. /\ rows \in [Ids -> TypeOrm!Row] /\ rows' \in [Ids -> TypeOrm!Row]
      /\ rows' \in [Ids -> TypeOrm!Store!Row]
    BY OrmRowFacts DEF TypeOrm!TypeOK, OrmStored
<1>2. \A i \in Ids : rows'[i].state # "absent" => rows'[i].state \in {"live", "deleted"}
    BY <1>1, OrmRowFacts
<1>3. \A i \in Ids : i \in TypeOrm!Present => rows[i].state \in {"live", "deleted"}
    BY <1>1, OrmRowFacts DEF TypeOrm!Present
<1> USE DEF TypeOrm!Store!Next, TypeOrm!Store!Answer
<1>4. CASE OrmRead
  <2>1. rows' = rows /\ ormAnswer' \subseteq TypeOrm!Live
    BY <1>4 DEF OrmRead
  <2>2. TypeOrm!Store!Write
    BY <1>1, <2>1 DEF TypeOrm!Store!Write
  <2> QED
    BY <2>1, <2>2 DEF TypeOrm!Live
<1>5. CASE OrmWrite
  <2>1. PICK T \in SUBSET TypeOrm!Present : OrmOnly(T) /\ OrmKept(T)
    BY <1>5 DEF OrmWrite
  <2>2. TypeOrm!Store!Write
    BY <1>1, <1>2, <1>3, <2>1 DEF TypeOrm!Store!Write, OrmOnly, OrmKept
  <2> QED
    BY <1>5, <2>2 DEF OrmWrite
<1>6. CASE OrmRemoval
  <2>1. PICK T \in SUBSET TypeOrm!Present :
            rows' = [i \in Ids |-> IF i \in T THEN TypeOrm!Absent ELSE rows[i]]
    BY <1>6 DEF OrmRemoval
  <2>2. T \in SUBSET {i \in TypeOrm!Store!Present : rows[i].state \in {"live", "deleted"}}
    BY <1>3 DEF TypeOrm!Present, TypeOrm!Store!Present
  <2>3. TypeOrm!Store!Discard
    BY <2>1, <2>2, OrmRowFacts DEF TypeOrm!Store!Discard
  <2> QED
    BY <1>6, <2>3 DEF OrmRemoval
<1>7. CASE OrmInsert
  <2>1. PICK T \in SUBSET (Ids \ TypeOrm!Present) : OrmOnly(T) /\ OrmKept(T)
    BY <1>7 DEF OrmInsert
  <2>2. TypeOrm!Store!Insert
    BY <1>1, <1>2, <2>1 DEF TypeOrm!Store!Insert, OrmOnly, OrmKept, TypeOrm!Present
  <2> QED
    BY <1>7, <2>2 DEF OrmInsert
<1> QED
    BY <1>4, <1>5, <1>6, <1>7 DEF OrmStored

LEMMA OrmInit == RepositoriesInit => TypeOrm!RepositoryInv /\ TypeOrm!Store!Init
<1> SUFFICES ASSUME RepositoriesInit PROVE TypeOrm!RepositoryInv /\ TypeOrm!Store!Init
    OBVIOUS
<1>1. TypeOrm!Init
    BY DEF RepositoriesInit
<1>2. TypeOrm!TypeOK
    BY <1>1, OrmEmpty DEF TypeOrm!Init, TypeOrm!TypeOK, TypeOrm!Row
<1>3. \A s \in Callers : ormReq[s] = TypeOrm!Idle
    BY <1>1 DEF TypeOrm!Init
<1>4. TypeOrm!RepositoryInv
    BY <1>2, <1>3, OrmEmpty
       DEF TypeOrm!RepositoryInv, TypeOrm!FoundStillMatches, TypeOrm!PatchIsTheGiven, TypeOrm!SavesTheGiven
<1>5. TypeOrm!Store!Init
    BY <1>1, OrmRowFacts DEF TypeOrm!Init, TypeOrm!Store!Init
<1> QED
    BY <1>4, <1>5

LEMMA OrmOrNothing ==
    ASSUME [RepositoriesNext]_<<part, vars, mongoVars, ormVars>>
    PROVE  TypeOrm!Next \/ UNCHANGED ormVars
    BY DEF RepositoriesNext

LEMMA OrmInvStep ==
    TypeOrm!RepositoryInv /\ [RepositoriesNext]_<<part, vars, mongoVars, ormVars>> => TypeOrm!RepositoryInv'
<1> SUFFICES ASSUME TypeOrm!RepositoryInv, [RepositoriesNext]_<<part, vars, mongoVars, ormVars>>
             PROVE  TypeOrm!RepositoryInv'
    OBVIOUS
<1>1. CASE TypeOrm!Next
    BY <1>1, OrmStep
<1>2. CASE UNCHANGED ormVars
    BY <1>2
       DEF ormVars, TypeOrm!RepositoryInv, TypeOrm!TypeOK, TypeOrm!FoundStillMatches, TypeOrm!PatchIsTheGiven,
           TypeOrm!SavesTheGiven, TypeOrm!Visible, TypeOrm!Where, TypeOrm!Live, TypeOrm!Present
<1> QED
    BY <1>1, <1>2, OrmOrNothing

\* RepositoryInv is an invariant of every instance of the adapters
LEMMA OrmInvariance == RepositoriesSpec => []TypeOrm!RepositoryInv
    BY OrmInit, OrmInvStep, PTL DEF RepositoriesSpec

(***************************************************************************)
(* TypeOrmRepository implements the store of soft-deleted rows whose       *)
(* answers show live rows only, however its callers interleave between two *)
(* queries; it answers updated only for a row that is there, and nobody    *)
(* only when the update or another request took the row out of the filter. *)
(***************************************************************************)
THEOREM TypeOrmIsAStore == RepositoriesSpec => TypeOrmImplementsStore
<1> DEFINE N == [RepositoriesNext]_<<part, vars, mongoVars, ormVars>>
           Nobody == \A s \in Callers :
                /\ ormReq[s].at = "find" /\ ormReq'[s] = TypeOrm!Idle
                /\ ormReq[s].id # None /\ ormAnswer' = {}
                => s \in raced \/ TypeOrm!MovedByItself(ormReq[s])
           Updated == outcome' = "updated" =>
                \E s \in Callers : ormReq[s].at = "updateAll" /\ ormReq'[s] = TypeOrm!Idle
                                        /\ ormReq[s].id \in TypeOrm!Present
<1>1. TypeOrm!RepositoryInv => TypeOrm!TypeOK
    BY DEF TypeOrm!RepositoryInv
<1>2. TypeOrm!RepositoryInv /\ N => [TypeOrm!Store!Next]_<<rows, ormAnswer>>
    BY <1>1, OrmOrNothing, OrmStep, OrmStoreStep DEF ormVars
<1>3. TypeOrm!RepositoryInv /\ N => [Updated]_<<rows, ormReq, ormAnswer, outcome, raced>>
    BY OrmOrNothing, OrmStep DEF ormVars, OrmUpdatesWhatIsThere
<1>4. TypeOrm!RepositoryInv /\ N => [Nobody]_<<rows, ormReq, ormAnswer, outcome, raced>>
    BY OrmOrNothing, OrmStep DEF ormVars, OrmDoes, OrmExplains
<1>5. RepositoriesSpec => []TypeOrm!TypeOK
    BY <1>1, OrmInvariance, PTL
<1>6. RepositoriesSpec => TypeOrm!ImplementsStore
    BY <1>2, OrmInit, OrmInvariance, PTL DEF RepositoriesSpec, TypeOrm!ImplementsStore, TypeOrm!Store!Spec
<1>7. RepositoriesSpec => TypeOrm!UpdatedMeansThere
    BY <1>3, OrmInvariance, PTL DEF RepositoriesSpec, TypeOrm!UpdatedMeansThere, TypeOrm!vars
<1>8. RepositoriesSpec => TypeOrm!NobodyIsExplained
    BY <1>4, OrmInvariance, PTL DEF RepositoriesSpec, TypeOrm!NobodyIsExplained, TypeOrm!vars
<1> QED
    BY <1>5, <1>6, <1>7, <1>8 DEF TypeOrmImplementsStore

(***************************************************************************)
(* A create or createOrUpdate that no other request raced changes its row  *)
(* to what it was given and nothing else, although it writes the columns   *)
(* as it read them before.                                                 *)
(***************************************************************************)
THEOREM QuietWrites == RepositoriesSpec => QuietWritesKeepTheRest
<1> DEFINE Rest == \A s \in Callers :
        ormReq[s].at \in {"update", "updateAll"} /\ ormReq'[s] = TypeOrm!Idle /\ s \notin raced =>
            \A i \in TypeOrm!Present :
                rows'[i] = IF i = ormReq[s].id THEN TypeOrm!Set(rows[i], ormReq[s].given) ELSE rows[i]
<1>1. TypeOrm!RepositoryInv /\ [RepositoriesNext]_<<part, vars, mongoVars, ormVars>>
          => [Rest]_<<rows, ormReq, ormAnswer, outcome, raced>>
    BY OrmOrNothing, OrmStep DEF ormVars, OrmDoes, OrmKeepsTheRest
<1> QED
    BY <1>1, OrmInvariance, PTL
       DEF RepositoriesSpec, QuietWritesKeepTheRest, TypeOrm!QuietWritesKeepTheRest, TypeOrm!vars
=============================================================================
