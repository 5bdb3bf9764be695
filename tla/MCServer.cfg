CONSTANTS
    Requests = {r1, r2, r3}
    Threads = {t1, t2}
    Nobody = Nobody
    Cookies = {"valued", "valueless"}
    MaxConns = 2
    DbMayStop = TRUE
    MaxRestarts = 2
SPECIFICATION FairSpec
INVARIANTS
    TypeOK
    ConnectionsAreHeld
PROPERTIES
    Survives
    ConnectionsReturned
CHECK_DEADLOCK FALSE
