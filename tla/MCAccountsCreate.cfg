CONSTANTS
    Emails = {e1}
    Passwords = {p1, p2, p3}
    Operations = {o1, o2}
    DbMayFail = FALSE
    MayDeactivate = FALSE
    None = None
SPECIFICATION Spec
SYMMETRY Symmetry
INVARIANT CreateAnswers
