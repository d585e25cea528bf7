SPECIFICATION Spec
CONSTANTS
    v1 = v1
    v2 = v2
    plain = plain
    odd = odd
    escaped = escaped
    Publishes = {u1, u2}
    Taggers = {}
    Readers = {r1}
    Versions <- MCVersions
    Tarballs <- MCTarballs
    Names <- MCNames
    Escape <- MCEscape
    Derived <- MCDerived
    Tags = {1}
    Latest = 1
    None = None
SYMMETRY MCSymmetry
PROPERTIES
    ListedVersionsImmutable
