\* Two of the three processes, which meet only in the stores; two runs of the migrations
\* and as many undos as it takes from the last join table to the down of createUserTable,
\* which drops the wrong table, and one more; one key, as the caches
\* treat each on its own, a second of two ticks and a standard time of one second.
SPECIFICATION OperationsSpec
CONSTANTS
    Apps = {user, cat}
    MaxRuns = 2
    MaxUndos = 5
    Keys = {k1}
    Values = {v1, v2}
    None = None
    Second = 2
    StdTTL = 1
    MaxTime = 5
INVARIANTS
    RecordedMeansDone
    OneAdminUnlessCut
    CachesAgree
PROPERTIES
    RunsFailOnlyAfterCuts
    ProcessesListenWiredOrEnd
CHECK_DEADLOCK FALSE
