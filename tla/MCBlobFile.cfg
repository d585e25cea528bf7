SPECIFICATION Spec
CONSTANTS
    Bodies = {b1, b2}
    Writers = {w1, w2}
    Readers = {r1}
    Evictors = {e1}
    Modes = {TRUE, FALSE}
    Absent = Absent
    Partial = Partial
    Corrupt = Corrupt
SYMMETRY Symmetry
INVARIANTS
    TypeOK
    NoTornSidecar
    CoherentDownload
    SoloUploadSettles
PROPERTIES
    ImplementsWriteOnce
    CommitsOnlyVerified
