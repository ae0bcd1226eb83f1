\* Queries of up to three entries and lists of up to three commands, the fewest with a
\* repeated field or kind and another one; walks over up to four rows on pages of two;
\* lists of up to four of six values.
SPECIFICATION ListsSpec
CONSTANTS
    Fields = {"createdAt", "breed", "age"}
    Id = "id"
    Unknown = unknown
    AllowedSort <- MCAllowedSort
    AllowedFilter <- MCAllowedFilter
    LikeFields = {"name", "breed"}
    NumberFields = {"age"}
    Numbers = {0, 1}
    Texts = {persian, accented}
    Words = {per, persian, accented, star}
    Keys = {k1, k2}
    per = per
    persian = persian
    accented = accented
    star = star
    Blank = Blank
    Arrays <- MCArrays
    Ilike <- MCIlike
    Regex <- MCRegex
    Names = {per, persian, 0, 1}
    BadRegex = {star}
    Pages = {0}
    Limits = {101, NaN, Fraction}
    NaN = NaN
    Fraction = Fraction
    MaxLimit = 100
    MaxEntries = 3
    Properties = {"name", "breed"}
    a = a
    A = A
    ba = ba
    MaxCommands = 3
    Ids = {r1, r2, r3, r4}
    PageSize = 2
    MaxClock = 3
    Null = Null
    Text = Text
    Absent = Absent
    MaxLength = 4
SYMMETRY Symmetry
INVARIANTS
    QueriesAreHonoured
    MongoHidesNothing
    CommandsAreMet
    WalksShowRowsOnce
    FoldsAreExact
CHECK_DEADLOCK FALSE
