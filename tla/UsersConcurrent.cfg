\* Two requests at a time over two users.
SPECIFICATION Spec
CONSTANTS
    Ids = {u1, u2}
    Emails = {e1, e2}
    Passwords = {p1, p2}
    Slots = {s1, s2}
    None = None
SYMMETRY Symmetry
INVARIANTS
    TypeOK
    EmailsUniqueUnlessOverlapped
    PasswordFollowsUserUnlessRaced
PROPERTIES
    QuietDeleteIsFinal
    OldPasswordWasVerified
    EmailChangedByUpdate
