SPECIFICATION FairSpec
CONSTANTS
    Processes = {p1}
    r1 = r1
    r2 = r2
    Requests = {r1, r2}
    Wanted <- MCWanted
    plain = plain
    odd = odd
    escaped = escaped
    Files <- MCFiles
    Escape <- MCEscape
    Derivable = {}
    Packages <- MCPackages
    Index = Index
    None = None
INVARIANTS
    NegativeIsLatest
    NeverFetchesFromSelf
PROPERTIES
    FallsBackToStore
    EveryoneIsAnswered
