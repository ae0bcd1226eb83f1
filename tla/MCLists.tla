------------------------------- MODULE MCLists -------------------------------
(***************************************************************************)
(* Small instances of ListQuery, FindByCommands, Paging and Collections    *)
(* for TLC.  Each behaviour is of one part; the others rest in an initial  *)
(* state.  The texts a, A and ba stand for those that commands compare.    *)
(***************************************************************************)
EXTENDS ListQuery, TLC

CONSTANTS Null, Text, Absent, MaxLength, Ids, PageSize, MaxClock, Properties, a, A, ba, MaxCommands,
          per, persian, accented, star

VARIABLES part,
          filterList, refused, mongo, postgres,
          rows, createdAt, store, page, docs, total, shown, start, created, removed,
          list, result

MCAllowedSort == <<"createdAt", "breed">>
MCAllowedFilter == <<"name", "breed", "age">>
MCArrays ==
    {{per, persian}, {persian}, {accented, per}, {Blank, persian}, {star, per}, {0, 1}, {Blank, 1}}

\* per is a part of persian, accented is persian with an accent, star compiles to
\* nothing.  unaccent strips accents from value and text; the regular expression of a letter
\* stands for its accents, that of an accent for itself, and the empty one for all
MCIlike == {persian, accented} \X {persian, accented}
MCRegex == {per, persian, Blank} \X {persian, accented} \cup {<<accented, accented>>}

Alike == {<<a, a>>, <<A, A>>, <<ba, ba>>, <<a, A>>, <<A, a>>}

Commands == INSTANCE FindByCommands
                WITH Strings <- {a, A, ba}, Prefix <- Alike, Folded <- Alike,
                     Part <- Alike \cup {<<a, ba>>, <<A, ba>>}
Walk == INSTANCE Paging WITH Stores <- {"typeorm", "mongo"}
Folds == INSTANCE Collections WITH Numbers <- {0} \cup Numbers

ASSUME ListsAssumption ==
    Commands!CommandsAssumption /\ Walk!PagingAssumption /\ Folds!CollectionsAssumption

queryVars == <<sort, search, paging, answer>>
commandsVars == <<filterList, refused, mongo, postgres>>
walkVars == <<rows, createdAt, store, page, docs, total, shown, start, created, removed>>
foldsVars == <<list, result>>

ListsInit ==
    /\ part \in {"query", "commands", "walk", "folds"}
    /\ part # "query" => paging = [page |-> 0, limit |-> Fraction]
    /\ Init
    /\ Commands!Init
    /\ IF part = "walk" THEN Walk!Init ELSE Walk!Begin({}, [i \in Ids |-> 0], "typeorm")
    /\ part # "folds" => list = <<>>
    /\ Folds!Init

ListsNext ==
    /\ UNCHANGED part
    /\ \/ part = "query" /\ Next /\ UNCHANGED <<commandsVars, walkVars, foldsVars>>
       \/ part = "commands" /\ Commands!Next /\ UNCHANGED <<queryVars, walkVars, foldsVars>>
       \/ part = "walk" /\ Walk!Next /\ UNCHANGED <<queryVars, commandsVars, foldsVars>>
       \/ part = "folds" /\ Folds!Next /\ UNCHANGED <<queryVars, commandsVars, walkVars>>

ListsSpec == ListsInit /\ [][ListsNext]_<<part, queryVars, commandsVars, walkVars, foldsVars>>

Symmetry == Permutations(Ids)

-----------------------------------------------------------------------------
(***************************************************************************)
(* A list that is answered honours its query: it finds what was searched,  *)
(* and sorts by what was asked for in the order of the allow-list.         *)
(***************************************************************************)
QueriesAreHonoured == TypeOK /\ SearchIsHonoured /\ SortIsCanonical

(***************************************************************************)
(* A list of commands that passes is a conjunction of them where they name *)
(* each property once.  PostgreSQL finds at least what MongoDB finds by    *)
(* lists that include, and at most that by lists that exclude.             *)
(***************************************************************************)
CommandsAreMet == Commands!TypeOK /\ Commands!ListIsConjunction /\ Commands!PostgresIsLooser

(***************************************************************************)
(* A walk through the pages shows each row once, unless rows are created   *)
(* or deleted on the way, and the total covers what was shown.             *)
(***************************************************************************)
WalksShowRowsOnce ==
    Walk!TypeOK /\ Walk!SkipsNeedDeletes /\ Walk!RepeatsNeedCreates /\ Walk!TotalCoversPage

(***************************************************************************)
(* The folds of a list are what their names say: sum, extremes, chunks and *)
(* groups that make up the list, and nulls in the last place.              *)
(***************************************************************************)
FoldsAreExact ==
    Folds!SumsAreExact /\ Folds!ExtremesAreExact /\ Folds!PartsMakeTheList /\ Folds!NullsAreLast
=============================================================================
