\* A login whose refresh token is then presented.
SPECIFICATION Spec
CONSTANTS
    Users = {u1}
    Slots = {s1}
    Lifetime = 1000
    WithUnit = FALSE
    Ticks = {500}
    MaxNow = 1000
    MaxKeys = 1
INVARIANTS
    RefreshTokensRefresh
