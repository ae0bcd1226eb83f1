\* One request at a time over three users.
SPECIFICATION Spec
CONSTANTS
    Ids = {u1, u2, u3}
    Emails = {e1, e2, e3}
    Passwords = {p1, p2}
    Slots = {s1}
    None = None
SYMMETRY Symmetry
PROPERTIES
    ImplementsDirectory
