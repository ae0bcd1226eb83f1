------------------------------ MODULE ListQuery ------------------------------
(***************************************************************************)
(* The query string of a list: sort, search, page and limit are parsed by  *)
(* the controller (utils/sort, utils/search), checked by the schema of the *)
(* use case (utils/pagination) and turned into an order and a condition by *)
(* the decorators of the repository, for MongoDB or for TypeORM.  A query  *)
(* is composed an entry at a time and answered after each.                 *)
(***************************************************************************)
EXTENDS Integers, Sequences, FiniteSets, SequencesExt

CONSTANTS
    Fields,         \* the properties that a sort names
    Id,             \* the property that ConvertMongooseFilter takes out first
    Unknown,        \* a property name that no allow-list has
    AllowedSort,    \* the allow-list of ValidateDatabaseSortAllowed, a sequence
    AllowedFilter,  \* the allow-list of the filter decorators, a sequence
    LikeFields,     \* the allowed filters of type like; the others are equal
    NumberFields,   \* those of type equal whose format is Number
    Numbers, Texts, \* what a property may hold
    Words,          \* the texts that a query may ask for
    Keys,           \* the identities of entities
    Blank,          \* nothing but spaces
    Arrays,         \* the sets of values that a query separates by |
    Ilike, Regex,   \* pairs of a value and a text that it is like: for unaccent
                    \* ... ilike the whole text, for $regex a part of it
    Names,          \* values that may name a parameter of TypeORM
    BadRegex,       \* values that MongoDB cannot compile
    Pages, Limits,  \* the page and limit parameters asked for
    NaN, Fraction,  \* parameters that are no number, or no whole one
    MaxLimit,       \* 100
    MaxEntries      \* bound on the entries of sort and search together

Entries(seq) == {seq[n] : n \in 1 .. Len(seq)}
Value == Numbers \cup Words \cup Keys \cup {Blank}

ASSUME ListQueryAssumption ==
    /\ AllowedSort \in Seq(Fields) /\ AllowedFilter \in Seq(STRING)
    /\ LikeFields \subseteq Entries(AllowedFilter)
    /\ NumberFields \subseteq Entries(AllowedFilter) \ LikeFields
    /\ Id \notin Entries(AllowedFilter)
    /\ Unknown \notin Fields \cup Entries(AllowedFilter) \cup {Id}
    /\ Arrays \subseteq (SUBSET Value) \ {{}}
    /\ Blank \notin Names /\ 0 \in Numbers
    /\ \A t \in Texts : <<Blank, t>> \in Regex
    /\ Pages \cup Limits \subseteq Int \cup {NaN, Fraction} /\ {NaN, Fraction} \cap Int = {}
    /\ MaxLimit \in Nat \ {0}

VARIABLES
    sort,       \* the entries of the sort parameter, field:order
    search,     \* the entries of the search parameter, field:value|value
    paging,     \* the page and limit parameters
    answer      \* what each kind of repository makes of the query

vars == <<sort, search, paging, answer>>

\* An order after the colon, maybe none; a name that is not allowed; a bare asc
SortEntry ==
    [field : Fields, colon : {TRUE}, order : {"asc", "desc", "", "other"}]
        \cup [field : {Unknown}, colon : BOOLEAN, order : {"asc"}]

\* One value, or several after |, {} is nothing after the colon; a name that is not
\* allowed, whatever it is searched for; a bare word
Searchable == Entries(AllowedFilter) \cup {Id}
SearchEntry ==
    [field : Searchable, colon : {TRUE}, array : {FALSE}, values : {{v} : v \in Value} \cup {{}}]
        \cup [field : Searchable, colon : {TRUE}, array : {TRUE}, values : Arrays]
        \cup [field : {Unknown}, colon : BOOLEAN, array : {FALSE}, values : {{Blank}}]

HeldBy(f) == IF f = Id THEN Keys ELSE IF f \in NumberFields THEN Numbers ELSE Texts
Entity ==
    {e \in [Searchable -> Keys \cup Numbers \cup Texts] : \A f \in DOMAIN e : e[f] \in HeldBy(f)}

-----------------------------------------------------------------------------
\* SortHttpSchema: a colon somewhere but not first, and orders that are orders;
\* an entry that is a bare asc or desc passes, and breaks the transformation
SortStatus(s) ==
    CASE s = <<>> -> 200
      [] \A e \in Entries(s) : ~ e.colon -> 400
      [] \E e \in Entries(s) : e.order = "other" -> 400
      [] \E e \in Entries(s) : ~ e.colon -> 500
      [] OTHER -> 200

\* SearchHttpSchema: every entry ends in a value; a bare word passes, and breaks
SearchStatus(s) ==
    CASE s = <<>> -> 200
      [] \A e \in Entries(s) : ~ e.colon -> 400
      [] \E e \in Entries(s) : e.colon /\ e.values = {} -> 400
      [] \E e \in Entries(s) : ~ e.colon -> 500
      [] OTHER -> 200

\* The last entry of a field
LastOf(s, f) == s[Max({n \in 1 .. Len(s) : s[n].field = f})]
FieldsOf(s) == {e.field : e \in Entries(s)}

\* createdAt:desc by default; no order is asc
Order(s) ==
    IF s = <<>> THEN [f \in {"createdAt"} |-> "desc"]
    ELSE [f \in FieldsOf(s) |-> IF LastOf(s, f).order = "desc" THEN "desc" ELSE "asc"]

\* { key: value } or { key: values }, trimmed
Search(s) == [f \in FieldsOf(s) |-> LastOf(s, f)]

\* PaginationSchema
Normalised(raw, default) ==
    IF raw \in {NaN, Fraction} THEN default ELSE IF raw > 0 THEN raw ELSE default
Page(p) == Normalised(p.page, 1)
Limit(p) == LET l == Normalised(p.limit, 10) IN IF l > MaxLimit THEN MaxLimit ELSE l
PagingStatus(p) == IF Fraction \in {p.page, p.limit} THEN 400 ELSE 200

\* ValidateDatabaseSortAllowed: the sort keys in the order of the allow-list
AllowedOrder(o) ==
    FoldLeft(LAMBDA order, f : IF f \in DOMAIN o THEN Append(order, <<f, o[f]>>) ELSE order, <<>>, AllowedSort)
SortAllowed(o) == DOMAIN o \subseteq Entries(AllowedSort)

\* The filters a decorator looks at: one empty text is none, in an array it is a value
IsBlank(entry) == ~ entry.array /\ entry.values = {Blank}
Filters(w) == {f \in Entries(AllowedFilter) \cap DOMAIN w : ~ IsBlank(w[f])}
LikesOf(w) == Filters(w) \cap LikeFields

\* convertFilterValue never throws: Number('') is 0, and of a word it is the NaN
\* that no database compares with
Converted(f, v) == IF f \in NumberFields /\ v = Blank THEN 0 ELSE v
BadNumber(w) == \E f \in Filters(w) \cap NumberFields : \E v \in w[f].values : Converted(f, v) \notin Numbers
IsLike(like, e, f, v) == IF f \in LikeFields THEN <<v, e[f]>> \in like ELSE e[f] = Converted(f, v)

\* All single filters of type like name their parameter value, and share the
\* one that was bound last
SingleLikes(w) == {f \in LikesOf(w) : ~ w[f].array}
Bound(w) ==
    w[AllowedFilter[Max({n \in 1 .. Len(AllowedFilter) : AllowedFilter[n] \in SingleLikes(w)})]].values
TypeOrmValues(w, f) == IF f \in SingleLikes(w) THEN Bound(w) ELSE w[f].values

\* Mutant: one field that matches is enough
TypeOrmWhereAny(w) ==
    {e \in Entity : Filters(w) # {} => \E f \in Filters(w) : \E v \in TypeOrmValues(w, f) : IsLike(Ilike, e, f, v)}

\* ConvertTypeOrmFilter: a condition per field
TypeOrmWhere(w) ==
    {e \in Entity : \A f \in Filters(w) : \E v \in TypeOrmValues(w, f) : IsLike(Ilike, e, f, v)}

\* A value of an array names its own parameter
TypeOrmStatus(w) ==
    IF ~ (DOMAIN w \subseteq Entries(AllowedFilter)) THEN 400
    ELSE IF BadNumber(w) \/ (\E f \in LikesOf(w) : w[f].array /\ ~ (w[f].values \subseteq Names)) THEN 500
    ELSE 200

\* search.id is trimmed, taken out and compared with _id
IdAsked(w) == Id \in DOMAIN w /\ ~ IsBlank(w[Id])
MongoMeets(w, e, f) == \E v \in w[f].values : IsLike(Regex, e, f, v)
ArraysOf(w) == {f \in Filters(w) : w[f].array}

\* Mutant: single values are alternatives, too
MongoWhereOr(w) == {e \in Entity : Filters(w) # {} => \E f \in Filters(w) : MongoMeets(w, e, f)}

\* ConvertMongooseFilter: $and of the single values and one $or of all arrays
MongoWhere(w) ==
    {e \in Entity :
        /\ IdAsked(w) => e[Id] \in w[Id].values
        /\ \A f \in Filters(w) \ ArraysOf(w) : MongoMeets(w, e, f)
        /\ ArraysOf(w) # {} => \E f \in ArraysOf(w) : MongoMeets(w, e, f)}

\* An array has no trim; a text that is no ObjectId is no _id
MongoStatus(w) ==
    CASE IdAsked(w) /\ w[Id].array -> 500
      [] ~ (DOMAIN w \subseteq Entries(AllowedFilter) \cup (IF IdAsked(w) THEN {Id} ELSE {})) -> 400
      [] IdAsked(w) /\ ~ (w[Id].values \subseteq Keys) -> 500
      [] BadNumber(w) \/ (\E f \in LikesOf(w) : w[f].values \cap BadRegex # {}) -> 500
      [] OTHER -> 200

Rows(status, found) == [status |-> status, found |-> IF status = 200 THEN found ELSE {}]
Refuse(status) == [order |-> <<>>, typeorm |-> Rows(status, {}), mongo |-> Rows(status, {})]

\* The list handler, the schema of the use case, the decorators, the query
List(so, se, p) ==
    CASE SortStatus(so) # 200 -> Refuse(SortStatus(so))
      [] SearchStatus(se) # 200 -> Refuse(SearchStatus(se))
      [] PagingStatus(p) # 200 -> Refuse(400)
      [] ~ SortAllowed(Order(so)) -> Refuse(400)
      [] OTHER -> LET w == Search(se)
                  IN  [order   |-> AllowedOrder(Order(so)),
                       typeorm |-> Rows(TypeOrmStatus(w), TypeOrmWhere(w)),
                       mongo   |-> Rows(MongoStatus(w), MongoWhere(w))]

TypeOK ==
    /\ sort \in Seq(SortEntry)
    /\ search \in Seq(SearchEntry)
    /\ answer.typeorm.status \in {200, 400, 500} /\ answer.mongo.status \in {200, 400, 500}
    /\ Page(paging) \in Nat \ {0} /\ Limit(paging) \in 1 .. MaxLimit

Init ==
    /\ sort = <<>> /\ search = <<>>
    /\ paging \in [page : Pages, limit : Limits]
    /\ answer = List(<<>>, <<>>, paging)

Room == Len(sort) + Len(search) < MaxEntries

AddSort(e) ==
    /\ Room
    /\ sort' = Append(sort, e)
    /\ answer' = List(sort', search, paging)
    /\ UNCHANGED <<search, paging>>

AddSearch(e) ==
    /\ Room
    /\ search' = Append(search, e)
    /\ answer' = List(sort, search', paging)
    /\ UNCHANGED <<sort, paging>>

Next == (\E e \in SortEntry : AddSort(e)) \/ (\E e \in SearchEntry : AddSearch(e))
Spec == Init /\ [][Next]_vars

-----------------------------------------------------------------------------
\* What the last entry of each field asks of an entity, by one meaning of like
Wanted(like, e) ==
    \A f \in FieldsOf(search) :
        LET last == LastOf(search, f)
        IN  IsBlank(last) \/ \E v \in last.values : IsLike(like, e, f, v)

Liked == {f \in FieldsOf(search) \cap LikeFields : ~ IsBlank(LastOf(search, f))}
SharedParameter == \E f, g \in Liked : f # g /\ ~ LastOf(search, f).array /\ ~ LastOf(search, g).array
TwoArrays == \E f, g \in FieldsOf(search) : f # g /\ LastOf(search, f).array /\ LastOf(search, g).array

(***************************************************************************)
(* A list that TypeORM answers honours its query, whatever the order of    *)
(* the entries and how often a field comes: an entity is found exactly if  *)
(* it has, for each field that was searched, one of the values of the last *)
(* entry.  One blank value asks for nothing; a blank number in an array is *)
(* 0.  Two single values of type like share one parameter: no promise.     *)
(***************************************************************************)
SearchIsHonoured ==
    answer.typeorm.status = 200 /\ ~ SharedParameter => answer.typeorm.found = {e \in Entity : Wanted(Ilike, e)}

(***************************************************************************)
(* MongoDB hides nothing that was asked for in its own sense of like, and  *)
(* finds more only where two fields have arrays, which become alternatives *)
(* of each other.  It hides a row that TypeORM finds only if two single    *)
(* values share the parameter, or if a value is like that text for ilike   *)
(* and not for $regex (an accent is stripped from the value by the one and *)
(* kept by the other).                                                     *)
(***************************************************************************)
MongoHidesNothing ==
    answer.mongo.status = 200 =>
        /\ {e \in Entity : Wanted(Regex, e)} \subseteq answer.mongo.found
        /\ answer.mongo.found = {e \in Entity : Wanted(Regex, e)} \/ TwoArrays
        /\ \A e \in answer.typeorm.found \ answer.mongo.found :
              \/ SharedParameter
              \/ \E f \in Liked : \E v \in LastOf(search, f).values : <<v, e[f]>> \in Ilike \ Regex

(***************************************************************************)
(* The documents are sorted by each field that was asked for, once, in the *)
(* direction of its last entry; which field comes first is decided by the  *)
(* allow-list and not by the query, so that two queries with the same      *)
(* entries are answered in the same order.                                 *)
(***************************************************************************)
SortIsCanonical ==
    200 \in {answer.typeorm.status, answer.mongo.status} =>
        /\ sort # <<>> => Entries(answer.order) =
              {<<f, IF LastOf(sort, f).order = "desc" THEN "desc" ELSE "asc">> : f \in FieldsOf(sort)}
        /\ \A m, n \in 1 .. Len(answer.order) : m < n =>
              \E j, k \in 1 .. Len(AllowedSort) :
                  j < k /\ AllowedSort[j] = answer.order[m][1] /\ AllowedSort[k] = answer.order[n][1]
=============================================================================
