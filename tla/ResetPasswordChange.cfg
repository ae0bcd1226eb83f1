\* One request at a time and changes of the password.
SPECIFICATION Spec
CONSTANTS
    Users = {u1}
    Passwords = {old, new}
    Slots = {s1}
    Window = 1
    TokenLife = 2
    MaxClock = 2
    None = None
PROPERTIES
    SuccessMeansChanged
