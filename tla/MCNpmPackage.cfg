SPECIFICATION Spec
CONSTANTS
    v1 = v1
    v2 = v2
    plain = plain
    odd = odd
    escaped = escaped
    Publishes = {u1, u2}
    Taggers = {d1}
    Readers = {r1}
    Versions <- MCVersions
    Tarballs <- MCTarballs
    Names <- MCNames
    Escape <- MCEscape
    Derived <- MCDerived
    Tags = {1, 2}
    Latest = 1
    None = None
SYMMETRY MCSymmetry
INVARIANTS
    Backed
    InstallsWhatIsListed
    PublishesAreListed
    OwnTagsResolve
