SPECIFICATION GenericSpec
CONSTANTS
    Overwrites = {TRUE, FALSE}
    Puts = {p1, p2, p3}
    Gets = {g1}
    Notes = {n1, n2}
    Bare = Bare
    None = None
SYMMETRY Symmetry
INVARIANTS
    GenericTypeOK
    CreatedOnce
    AnnotationsStand
    ReadsAreFresh
