CONSTANTS
    Sids = {s1, s2}
    Users = {u1, u2}
    Keys = {k1, k2}
    None = None
    NoRow = NoRow
    Null = Null
    Blank = Blank
    Ids = {a1}
    New = New
    Texts = {t1}
    Requests = {r1, r2}
    DbMayFail = TRUE
    Patient = {s1}
SPECIFICATION Spec
SYMMETRY Symmetry
INVARIANT TypeOK
PROPERTIES
    ChangedByOwnForm
    StoredAsTold
    OwnWorkKept
