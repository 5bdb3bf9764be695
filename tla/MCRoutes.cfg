CONSTANTS
    Ids = {"1", "2"}
    Files = {"f", "a+b", "100%"}
    Typed <- MCTyped
    Segments <- MCSegments
    Decoded <- MCDecoded
    Refused = Refused
    SameDir = TRUE
    MaxChanges = 2
SPECIFICATION RoutesFairSpec
INVARIANTS
    RoutesTypeOK
    OffersAreServed
PROPERTY RedirectsEnd
