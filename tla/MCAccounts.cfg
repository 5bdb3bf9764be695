CONSTANTS
    Emails = {e1, e2}
    Passwords = {p1, p2}
    Operations = {o1, o2}
    DbMayFail = TRUE
    MayDeactivate = TRUE
    None = None
SPECIFICATION Spec
SYMMETRY Symmetry
INVARIANT TypeOK
PROPERTIES
    AddedOnce
    ChangedByHolder
