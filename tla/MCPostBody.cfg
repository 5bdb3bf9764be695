CONSTANTS
    Names = {csrf, upload, other}
    Csrf = csrf
    Upload = upload
    MaxParts = 3
    MaxPieces = 2
    MaxBuffers = 2
    Failures = {"open", "write", "close"}
    None = None
SPECIFICATION Spec
INVARIANTS
    TypeOK
    SeenHasEnded
    ReportedIsWhole
    StopsOnlyOnFailure
CHECK_DEADLOCK FALSE
