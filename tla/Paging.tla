------------------------------- MODULE Paging -------------------------------
(***************************************************************************)
(* A client walks through the pages of a list, newest first as the default *)
(* sort has it, while rows are created and soft-deleted.  A page is two    *)
(* queries, the rows and their count: TypeORM's findAndCount sends them    *)
(* one after the other, mongoose-paginate at the same time.                *)
(***************************************************************************)
EXTENDS Integers, SequencesExt

CONSTANTS
    Ids,        \* rows: the bound on creations
    PageSize,   \* rows on a page
    MaxClock,   \* bound on the values of createdAt
    Stores      \* the repositories: "typeorm", "mongo"

PagingAssumption ==
    /\ IsFiniteSet(Ids) /\ 0 \notin Ids
    /\ PageSize \in Nat \ {0} /\ MaxClock \in Nat
    /\ Stores \subseteq {"typeorm", "mongo"}

VARIABLES
    rows,       \* rows[i]: "absent", "live" or "deleted"
    createdAt,  \* createdAt[i]
    store,      \* the repository that is asked
    page,       \* the page being asked for; 0 when the walk is over
    docs,       \* its rows: a sequence, or Asked while the query is not answered
    total,      \* its count, or -1
    shown,      \* history: the rows of the pages that were answered
    start,      \* history: the rows live when the walk began
    created,    \* history: a row was created during the walk
    removed     \* history: the rows deleted during the walk

vars == <<rows, createdAt, store, page, docs, total, shown, start, created, removed>>

Asked == <<0>>
Live == {i \in Ids : rows[i] = "live"}
Clock == {createdAt[i] : i \in Ids}

TypeOK ==
    /\ rows \in [Ids -> {"absent", "live", "deleted"}]
    /\ createdAt \in [Ids -> 0 .. MaxClock]
    /\ page \in Nat
    /\ docs = Asked \/ (docs \in Seq(Ids) /\ Len(docs) <= PageSize)
    /\ total \in -1 .. Cardinality(Ids)
    /\ shown \in Seq(Ids)

\* The walk begins on a table of live rows
Begin(live, times, st) ==
    /\ rows = [i \in Ids |-> IF i \in live THEN "live" ELSE "absent"]
    /\ createdAt = [i \in Ids |-> IF i \in live THEN times[i] ELSE 0]
    /\ start = live /\ store = st
    /\ page = 1 /\ docs = Asked /\ total = -1
    /\ shown = <<>> /\ created = FALSE /\ removed = {}

Init == \E live \in SUBSET Ids, times \in [Ids -> 0 .. MaxClock], st \in Stores : Begin(live, times, st)

-----------------------------------------------------------------------------
\* Mutant: pages are counted from 0
SkipFromZero(p) == p * PageSize

\* calculateSkip
Skip(p) == (p - 1) * PageSize

\* calculateTotalPages
TotalPages(t) == (t + PageSize - 1) \div PageSize

\* The live rows by createdAt, those of one instant in any order
Sorted ==
    {q \in SetToSeqs(Live) : \A m, n \in DOMAIN q : m < n => createdAt[q[m]] >= createdAt[q[n]]}

\* LIMIT and OFFSET
PageOf(q, p) == SubSeq(q, Skip(p) + 1, Min({Len(q), Skip(p) + PageSize}))

FindRows ==
    /\ page > 0 /\ docs = Asked
    /\ \E q \in Sorted : docs' = PageOf(q, page)
    /\ UNCHANGED <<rows, createdAt, store, page, total, shown, start, created, removed>>

Count ==
    /\ page > 0 /\ total = -1
    /\ store = "typeorm" => docs # Asked
    /\ total' = Cardinality(Live)
    /\ UNCHANGED <<rows, createdAt, store, page, docs, shown, start, created, removed>>

\* The page is answered; the client asks for the next while total says there is one
Turn ==
    /\ docs # Asked /\ total # -1
    /\ shown' = shown \o docs
    /\ page' = IF page < TotalPages(total) THEN page + 1 ELSE 0
    /\ docs' = Asked /\ total' = -1
    /\ UNCHANGED <<rows, createdAt, store, start, created, removed>>

\* A new row is not older than any other
Create(i) ==
    /\ rows[i] = "absent" /\ page > 0
    /\ rows' = [rows EXCEPT ![i] = "live"]
    /\ \E c \in 0 .. MaxClock :
          /\ \A d \in Clock : d <= c
          /\ createdAt' = [createdAt EXCEPT ![i] = c]
    /\ created' = TRUE
    /\ UNCHANGED <<store, page, docs, total, shown, start, removed>>

Delete(i) ==
    /\ rows[i] = "live" /\ page > 0
    /\ rows' = [rows EXCEPT ![i] = "deleted"]
    /\ removed' = removed \cup {i}
    /\ UNCHANGED <<createdAt, store, page, docs, total, shown, start, created>>

Next ==
    \/ FindRows \/ Count \/ Turn
    \/ \E i \in Ids : Create(i) \/ Delete(i)

Spec == Init /\ [][Next]_vars

-----------------------------------------------------------------------------
Distinct == \A i, j \in Ids : rows[i] # "absent" /\ rows[j] # "absent" /\ createdAt[i] = createdAt[j] => i = j
Shown == {shown[n] : n \in DOMAIN shown}

(***************************************************************************)
(* A walk skips a row that was there all the time only if another one was  *)
(* deleted meanwhile, and shows a row twice only if another one was        *)
(* created meanwhile, as long as no two rows have the same createdAt.      *)
(* MongoDB may also end a walk early: a row created between its count and  *)
(* its find pushes the last one to a page the count knows nothing of.      *)
(***************************************************************************)
SkipsNeedDeletes ==
    page = 0 /\ Distinct /\ removed = {} /\ (store = "typeorm" \/ ~ created) => start \subseteq Shown
RepeatsNeedCreates ==
    Distinct /\ ~ created => \A m, n \in DOMAIN shown : shown[m] = shown[n] => m = n

(***************************************************************************)
(* The total of a page counts the rows shown on it and before, unless rows *)
(* went away meanwhile: an answer with a total below them is explained.    *)
(***************************************************************************)
TotalCoversPage ==
    docs # Asked /\ total # -1 /\ page > 0 /\ removed = {} /\ (store = "typeorm" \/ ~ created)
        => total >= Len(docs) + (IF docs = <<>> THEN 0 ELSE Skip(page))
=============================================================================
