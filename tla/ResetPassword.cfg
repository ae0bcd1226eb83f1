\* Two requests at a time over one user, until a reset has left the window.
SPECIFICATION Spec
CONSTANTS
    Users = {u1}
    Passwords = {old, new}
    Slots = {s1, s2}
    Window = 2
    TokenLife = 3
    MaxClock = 3
    None = None
INVARIANTS
    OneResetAtATime
PROPERTIES
    MailedTokensAreAlive
    OnlyOvertakenReadsUndoChanges
    OnlyCallsLeaveRequestsOpen
