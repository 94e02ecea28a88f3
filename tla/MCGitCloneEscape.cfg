CONSTANTS
    c1 = c1
    c2 = c2
    j1 = j1
    j2 = j2
    Requests <- MCEscapeRequests
    QueryRequests <- MCQueryRequests
    Callers <- MCCallers
    Jobs <- MCJobs
    CloneConcurrency = 1
    MaxFailures = 1
    OtherConcurrency = 1
    ArchiveConcurrency = 1
    Queries <- MCQueries

SPECIFICATION Spec


INVARIANT GitRunsInMirrors
