--------------------------- MODULE MCRepositories ---------------------------
(***************************************************************************)
(* Small instances of Cats and of the two repository adapters for TLC.     *)
(* Each behaviour is of one part; the others rest in their initial state.  *)
(***************************************************************************)
EXTENDS Cats, TLC

CONSTANTS Columns, Callers      \* of an adapter

\* A column is neither the id, which filters name besides, nor nothing
ASSUME ColumnsAreColumns ==
    None \notin Columns \cup {"id", "all", "absent", "live", "deleted"} /\ Columns \cap {"id", "all"} = {}

VARIABLES part, documents, mongoReq, mongoAnswer, by, rows, ormReq, ormAnswer, outcome, raced

Mongo == INSTANCE MongoRepository
             WITH docs <- documents, req <- mongoReq, answer <- mongoAnswer,
                  Fields <- Columns, Slots <- Callers
TypeOrm == INSTANCE TypeOrmRepository
             WITH req <- ormReq, answer <- ormAnswer, Fields <- Columns, Slots <- Callers

mongoVars == <<documents, mongoReq, mongoAnswer, by>>
ormVars == <<rows, ormReq, ormAnswer, outcome, raced>>

RepositoriesInit == Init /\ Mongo!Init /\ TypeOrm!Init /\ part \in {"cats", "mongo", "typeorm"}

RepositoriesNext ==
    /\ UNCHANGED part
    /\ \/ part = "cats" /\ Next /\ UNCHANGED <<mongoVars, ormVars>>
       \/ part = "mongo" /\ Mongo!Next /\ UNCHANGED <<vars, ormVars>>
       \/ part = "typeorm" /\ TypeOrm!Next /\ UNCHANGED <<vars, mongoVars>>

RepositoriesSpec ==
    RepositoriesInit /\ [][RepositoriesNext]_<<part, vars, mongoVars, ormVars>>

\* One permutation of the ids is one of the cats, documents and rows
Symmetry ==
    Permutations(Ids) \cup Permutations(Fields) \cup Permutations(Values) \cup Permutations(Slots)

-----------------------------------------------------------------------------
(***************************************************************************)
(* The Mongo adapter is a store of soft-deleted rows; beyond that, nothing *)
(* with a filter shows or changes a deleted document, nothing that creates *)
(* overwrites one, and updateOne and remove change one.                    *)
(***************************************************************************)
MongoImplementsStore ==
    /\ []Mongo!TypeOK
    /\ Mongo!ImplementsStore
    /\ Mongo!DeletedAreOutOfReach /\ Mongo!CreationsDoNotOverwrite /\ Mongo!OneMeansOne

(***************************************************************************)
(* The TypeORM adapter is such a store, too; beyond that, it answers       *)
(* updated and nobody with reason.                                         *)
(***************************************************************************)
TypeOrmImplementsStore ==
    /\ []TypeOrm!TypeOK
    /\ TypeOrm!ImplementsStore
    /\ TypeOrm!UpdatedMeansThere /\ TypeOrm!NobodyIsExplained

(***************************************************************************)
(* A save of TypeORM that nobody raced keeps what it was not given.        *)
(***************************************************************************)
QuietWritesKeepTheRest == TypeOrm!QuietWritesKeepTheRest
=============================================================================
