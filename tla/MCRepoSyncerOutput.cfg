\* git outputs the writers mishandle; each invariant fails on its own.
CONSTANTS
    k1 = k1
    k2 = k2
    c1 = c1
    c2 = c2
    Keys <- MCKeys
    RepoKeys <- MCRepoKeys
    Callers <- MCCallers
    Concurrency = 1
    MaxFailures = 1
    TreeOut <- MCTreeOutSpace
    BlobOut <- MCBlobOutLateNul
    RefsOut <- MCRefsOut
    CheckLen = 2
    MaxSize = 4
    MaxWrites = 3

SPECIFICATION Spec

INVARIANT TreeStoredAsListed
INVARIANT BlobStoredAsShown
