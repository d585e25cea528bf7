SPECIFICATION FairSpec
CONSTANTS
    f1 = f1
    f2 = f2
    v1 = v1
    v2 = v2
    Processes = {p1, p2}
    Uploads = {u1}
    Requests = {r1}
    Files <- MCFiles
    Versions <- MCVersions
    VersionOf <- MCVersionOf
    Nothing = Nothing
    MaxGeneration = 2
INVARIANTS
    UploadsAreListed
PROPERTIES
    ReplicasCatchUp
