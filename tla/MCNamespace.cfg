SPECIFICATION Spec
CONSTANTS
    Processes = {p1}
    Hooked = {p1}
    Requests = {r1, r2}
    Admins = {a1}
    Subjects = {s1}
    Specs <- MCSpecs
    Absent = Absent
    None = None
    TTL = 1
    Latency = 1
    MaxTime = 3
    MaxVersion = 3
SYMMETRY Symmetry
INVARIANTS
    BoundedStaleness
    QuietHookInvalidates
PROPERTIES
    NeverRegresses
