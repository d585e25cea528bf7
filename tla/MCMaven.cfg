SPECIFICATION Spec
CONSTANTS
    Modes = {"hosted", "proxy"}
    Overwritables = {TRUE, FALSE}
    Bodies = {b1, b2}
    Docs = {d1}
    Uploads = {u1, u2}
    Requests = {r1, r2}
    None = None
SYMMETRY Symmetry
INVARIANTS
    ChecksumsFit
    StoredIsServed
    FilesAreListed
