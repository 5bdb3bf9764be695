CONSTANTS
    Sids = {s1, s2}
    Users = {u1, u2}
    Keys = {k1, k2}
    None = None
    NoRow = NoRow
    Null = Null
    Blank = Blank
    Requests = {r1, r2}
    Browsers = {b1}
    DbMayFail = FALSE
SPECIFICATION Spec
SYMMETRY Symmetry
PROPERTY LogoutSignsOut
