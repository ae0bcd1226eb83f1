\* Two requests at a time over one role and two permissions, or over
\* one permission that two roles may share.
SPECIFICATION Spec
CONSTANTS
    Roles = {r1, r2}
    Perms = {p1, p2}
    Names = {n1, n2}
    Slots = {s1, s2}
    None = None
CONSTRAINT OneOfAKindStaysAlone
SYMMETRY Symmetry
INVARIANTS
    TypeOK
    GrantsJoinLiveRowsUnlessContended
PROPERTIES
    OnlyRevokedGrantsAreLost
    OnlyUpdatesRename
