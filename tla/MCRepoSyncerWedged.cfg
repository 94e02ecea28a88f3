CONSTANTS
    k1 = k1
    k2 = k2
    c1 = c1
    c2 = c2
    Keys <- MCOneKey
    RepoKeys <- MCNoKeys
    Callers <- MCCallers
    Concurrency = 1
    MaxFailures = 1
    TreeOut <- MCTreeOut
    BlobOut <- MCBlobOut
    RefsOut <- MCRefsOut
    CheckLen = 2
    MaxSize = 4
    MaxWrites = 3

SPECIFICATION Spec

PROPERTY SyncerEventuallyAvailable
