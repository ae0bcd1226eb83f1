---------------------------- MODULE MCOperations ----------------------------
(***************************************************************************)
(* Small instances of Lifecycle, Migrations and Cache for TLC.  Each       *)
(* behaviour is of one part; the others rest in their initial state.       *)
(***************************************************************************)
EXTENDS Lifecycle

CONSTANTS MaxRuns, MaxUndos, Keys, Values, None, Second, StdTTL, MaxTime

VARIABLES part,
          db, recorded, mode, at, pc, runs, undos, changed, moved, cutIn, made,
          now, redis, memory, written, aside

Postgres == INSTANCE Migrations
Caches == INSTANCE Cache

ASSUME OperationsAssumption == Postgres!MigrationsAssumption /\ Caches!CacheAssumption

migrationVars == <<db, recorded, mode, at, pc, runs, undos, changed, moved, cutIn, made>>
cacheVars == <<now, redis, memory, written, aside>>

OperationsInit ==
    /\ part \in {"processes", "migrations", "caches"}
    /\ Init /\ Postgres!Init /\ Caches!Init

OperationsNext ==
    /\ UNCHANGED part
    /\ \/ part = "processes" /\ Next /\ UNCHANGED <<migrationVars, cacheVars>>
       \/ part = "migrations" /\ Postgres!Next /\ UNCHANGED <<vars, cacheVars>>
       \/ part = "caches" /\ Caches!Next /\ UNCHANGED <<vars, migrationVars>>

\* A part at rest has no action that is fair
OperationsSpec ==
    /\ OperationsInit /\ [][OperationsNext]_<<part, vars, migrationVars, cacheVars>>
    /\ Fairness

-----------------------------------------------------------------------------
(***************************************************************************)
(* A process listens only with the stores and the configuration it needs,  *)
(* each start ends, and no process stays when Mongo stays away.            *)
(***************************************************************************)
ProcessesListenWiredOrEnd == [](TypeOK /\ ListensWired) /\ StartsEnd /\ NobodyWithoutMongo

(***************************************************************************)
(* What is recorded is done as long as nothing was undone, and no table    *)
(* with rows is ever dropped.                                              *)
(***************************************************************************)
RecordedMeansDone ==
    Postgres!TypeOK /\ Postgres!RecordedMeansDone /\ Postgres!RowsKeepTheirTables

(***************************************************************************)
(* A second administrator with the e-mail of the seed comes of a cut in    *)
(* insertUser, or in its undo.                                             *)
(***************************************************************************)
OneAdminUnlessCut == Postgres!OneAdminUnlessCut

(***************************************************************************)
(* A run fails only where one was cut half way, something was undone, or   *)
(* an application has synchronised what it would make.                     *)
(***************************************************************************)
RunsFailOnlyAfterCuts == Postgres!RunsFailOnlyAfterCuts

(***************************************************************************)
(* Redis answers a string just as long as it was told, and the caches      *)
(* differ only by the times of the memory, which are not those of Redis.   *)
(***************************************************************************)
CachesAgree == Caches!TypeOK /\ Caches!AdaptersAgree /\ Caches!RedisKeepsItsWord
=============================================================================
