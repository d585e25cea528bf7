SPECIFICATION Spec
CONSTANTS
    Packages = {"hello", "world"}
    Versions = {"1", "2"}
    Unknown = Unknown
    Modes = {"hosted", "proxy"}
    Chains <- MCChains
    Ref <- MCRef
    Indexes = {d1}
    Pool = Pool
    Bodies = {b1, b2}
    Requests = {r1, r2}
    None = None
SYMMETRY Symmetry
INVARIANTS
    StoredIsServed
    OnlyAdmittedIsStored
