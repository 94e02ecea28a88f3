CONSTANTS
    u1 = u1
    h1 = h1
    h2 = h2
    h3 = h3
    c1 = c1
    c2 = c2
    w1 = w1
    w2 = w2
    w3 = w3
    w4 = w4
    NoUrl = NoUrl
    Urls <- MCUrls
    Hashes <- MCHashes
    Callers <- MCCallers
    Workers <- MCWorkers
    Concurrency = 2
    MaxLeaked = 1


SYMMETRY WorkerSymmetry

SPECIFICATION Spec

\* A leaked read lock wedges every caller, checkResult and, once the
\* channels fill, every worker: the service really stops (see README).
CHECK_DEADLOCK FALSE

INVARIANT TypeOK
INVARIANT ReqSendNeverBlocks
INVARIANT OneWorkerPerHash
