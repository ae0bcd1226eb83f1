\* Two requests at a time over two cats of two fields; one createOrUpdate, save or
\* findOneAndUpdate of an adapter among operations of one query, over two rows.
SPECIFICATION RepositoriesSpec
CONSTANTS
    Ids = {c1, c2}
    Fields = {name, breed}
    Values = {v1, v2}
    Slots = {s1, s2}
    None = None
    Columns = {column}
    Callers = {caller}
SYMMETRY Symmetry
INVARIANTS
    TypeOK
PROPERTIES
    DeletedCatsAreFrozen
    OnlyNamedFieldsChange
    MongoImplementsStore
    TypeOrmImplementsStore
    QuietWritesKeepTheRest
