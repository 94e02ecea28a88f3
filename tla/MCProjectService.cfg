CONSTANTS
    o1 = o1  o2 = o2  r1 = r1  s1 = s1  h1 = h1  h2 = h2  n1 = n1
    p1 = p1  p2 = p2  c1 = c1  c2 = c2
    NoDoc = NoDoc
    Users <- MCUsers
    Urls = {r1}
    RawUrls = {r1}
    RepoUrlOf <- MCRepoUrlOf
    Hashes <- MCHashes
    Names = {n1}
    Files <- MCFiles
    Pids <- MCPids
    Callers <- MCCallers
    MaxFailures = 1
SPECIFICATION Spec
SYMMETRY Symmetry
INVARIANT TypeOK
INVARIANT RollupVisible
INVARIANT LatestChainComplete
