SPECIFICATION FairSpec
CONSTANTS
    Requests = {r1, r2}
    Length = 3
    Framings = {TRUE, FALSE}
    None = None
INVARIANTS
    NoPartialFill
    StoredWasDelivered
    StoreNeverTruncates
    ParentsAreBacked
PROPERTIES
    DisconnectsEnd
CHECK_DEADLOCK FALSE
