\* Two requests at a time over two token lifetimes cut in half seconds.
SPECIFICATION Spec
CONSTANTS
    Users = {u1}
    Slots = {s1, s2}
    Lifetime = 1000
    WithUnit = FALSE
    Ticks = {500}
    MaxNow = 2000
    MaxKeys = 1
SYMMETRY Symmetry
INVARIANTS
    TypeOK
    LoggedOutTokenIsRefused
PROPERTIES
    RemovedUserIsLetInForOneLifetime
