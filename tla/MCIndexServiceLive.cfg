CONSTANTS
    u1 = u1
    h1 = h1
    h2 = h2
    h3 = h3
    c1 = c1
    c2 = c2
    w1 = w1
    w2 = w2
    w3 = w3
    w4 = w4
    NoUrl = NoUrl
    Urls <- MCUrls
    Callers <- MCCallers
    Workers <- MCOneWorker
    Concurrency = 1
    MaxLeaked = 1
    Hashes <- MCTwoHashes

SPECIFICATION RepositorySpec

PROPERTY TasksEventuallyRemoved
