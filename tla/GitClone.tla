------------------------------ MODULE GitClone ------------------------------
(***************************************************************************)
(* The gits service's mirror manager (gits/service/command.go): the clone  *)
(* request path (os.Stat of the mirror, prepareClone under statusMutex,    *)
(* TryAcquire on cloneSem), the clone goroutine (git clone --mirror into   *)
(* <dst>_tmp, rename to <dst>, and its deferred cleanup), and the clone    *)
(* status query, and the queries run against a mirror (show-ref, ls-tree,  *)
(* show, archive) under their own semaphores.  The disk holds, per url,    *)
(* whether the mirror directory exists and what the sibling _tmp           *)
(* directory holds; the progress strings of the status map are abstracted  *)
(* away, only its keys are kept.  What git writes is abstracted to how a   *)
(* query's git command ends.                                               *)
(*                                                                         *)
(* Urls reach the handlers from clients: the gateway normalises a url     *)
(* (NormalizeRepoUrl) and sends what it accepts, every gits handler       *)
(* normalises it again, and the mirror directory is urlToLocal of the     *)
(* result.  The status map is keyed by url, the disk by directory.        *)
(***************************************************************************)
EXTENDS Naturals, FiniteSets, RepoUrl

CONSTANTS
    Requests,          \* urls clients give the gateway
    QueryRequests,     \* urls the repository service and the indexer query with
    Callers,           \* RPC handler goroutines serving Clone and GetCloneStatus
    Jobs,              \* identities for clone goroutines
    CloneConcurrency,  \* conf.Concurrency.Clone, the weight of cloneSem
    MaxFailures,       \* bound on git clones that fail or are killed
    OtherConcurrency,  \* conf.Concurrency.Other, the weight of otherSem
    ArchiveConcurrency,\* conf.Concurrency.Archive, the weight of archiveSem
    Queries            \* the query handlers a model lets callers make

\* The urls the gits handlers receive: what the gateway (or the repository
\* service) accepted, normalised once.
Gateway == [r \in Requests \cup QueryRequests |-> NormalizeRepoUrl(r)]
Sent == {Gateway[r].url : r \in {r \in Requests \cup QueryRequests : Gateway[r].ok}}
\* A gits handler's own normalisation of what it received.
Norm == [s \in Sent |-> NormalizeRepoUrl(s)]
\* The urls gitCommander works on (the status keys), and the empty url
\* Archive passes on when normalisation fails, held as the strings they
\* spell.
Urls == {Text(Norm[s].url) : s \in {s \in Sent : Norm[s].ok}}
TargetUrls == Sent \cup {Norm[s].url : s \in Sent} \cup {<<>>}
Targets == {Text(u) : u \in TargetUrls}
TokensOf(t) == CHOOSE u \in TargetUrls : Text(u) = t
\* urlToLocal of each url, and its host, the directory as a string.
Local == [t \in Targets |->
            LET l == UrlToLocal(TokensOf(t)) IN [ok |-> l.ok, dir |-> DirText(l.dir)]]
HostOf == [t \in Targets |-> Host(TokensOf(t))]
Dir(u) == Local[u].dir
Dirs == {Dir(u) : u \in Targets}

\* MkdirAll of a mirror's parent directory is not tracked: no directory of
\* the model other than DataDir holds another.
ASSUME \A d, e \in {UrlToLocal(u).dir : u \in TargetUrls} :
          d # <<>> /\ Len(d) < Len(e) => SubSeq(e, 1, Len(d)) # d

ASSUME /\ {CloneConcurrency, OtherConcurrency, ArchiveConcurrency} \subseteq Nat \ {0}
       /\ MaxFailures \in Nat
       /\ Queries \subseteq {"refs", "tree", "blob", "archive"}

VARIABLES
    mirror,    \* the directory exists, per directory under (or next to) DataDir
    tmp,       \* content of the directory's sibling <dir>_tmp
    status,    \* DOMAIN gitCommander.status
    held,      \* permits of cloneSem currently acquired
    job,       \* the clone goroutines
    caller,    \* program counter, url and query of each handler
    failures,  \* git clones that have failed so far
    qheld,     \* permits of otherSem and of archiveSem currently acquired
    reply      \* the answer each handler returns in this step, or "none"

vars == <<mirror, tmp, status, held, job, caller, failures, qheld, reply>>

TmpStates == {"absent", "partial", "full"}
JobPhases == {"none", "start", "run", "rename", "release", "delete", "remove"}
PCs == {"idle", "prepare", "acquire", "statusLocked", "git"}
Sems == {"other", "archive"}
SemOf(q) == IF q = "archive" THEN "archive" ELSE "other"
Weight(s) == IF s = "archive" THEN ArchiveConcurrency ELSE OtherConcurrency
Answers == {"none", "ok", "cloned", "cloning", "busy", "unknown",
            "notExist", "internal", "plain", "binary"}

TypeOK ==
    /\ mirror \in [Dirs -> BOOLEAN]
    /\ tmp \in [Dirs -> TmpStates]
    /\ status \subseteq Urls
    /\ held \in Nat
    /\ job \in [Jobs -> [url : Targets, phase : JobPhases]]
    /\ caller \in [Callers -> [pc : PCs, url : Targets, q : Queries \cup {"none"}]]
    /\ failures \in 0..MaxFailures
    /\ qheld \in [Sems -> Nat]
    /\ reply \in [Callers -> Answers]

\* A handler's answer is observed in the step that returns it only.
NoReply == [c \in Callers |-> "none"]
Quiet == reply' = NoReply

AnyUrl == ""

Init ==
    /\ mirror = [d \in Dirs |-> d = ""]
    /\ tmp = [d \in Dirs |-> "absent"]
    /\ status = {}
    /\ held = 0
    /\ job = [j \in Jobs |-> [url |-> AnyUrl, phase |-> "none"]]
    /\ caller = [c \in Callers |-> [pc |-> "idle", url |-> AnyUrl, q |-> "none"]]
    /\ failures = 0
    /\ qheld = [s \in Sems |-> 0]
    /\ reply = NoReply

Answer(c, a) ==
    /\ caller' = [caller EXCEPT ![c] = [pc |-> "idle", url |-> AnyUrl, q |-> "none"]]
    /\ reply' = [NoReply EXCEPT ![c] = a]

\* A url a handler cannot normalise is refused with a bad request before
\* the commander is called; no property reads that answer.
Reject(c) == UNCHANGED caller /\ Quiet

Goto(c, pc, u) ==
    /\ caller' = [caller EXCEPT ![c] = [pc |-> pc, url |-> u, q |-> "none"]]
    /\ Quiet

\* isRepositoryCloned: urlToLocal succeeds and os.Stat of the directory
\* succeeds.
IsRepositoryCloned(u) == Local[u].ok /\ mirror[Dir(u)]

(***************************************************************************)
(* Clone: the gateway's CloneRepository, GitService.Clone, then            *)
(* clone(url): urlToLocal, prepareClone (its os.Stat outside the lock,    *)
(* then the map check and insert under statusMutex), TryAcquire and the   *)
(* goroutine.                                                             *)
(***************************************************************************)
\* gitCommander.clone: urlToLocal's error is returned; then prepareClone's
\* os.Stat(dst), taken before statusMutex (errorRepositoryCloned).
CommanderClone(c, u) ==
    CASE ~Local[u].ok    -> Answer(c, "internal")
      [] mirror[Dir(u)]  -> Answer(c, "cloned")
      [] OTHER           -> Goto(c, "prepare", u)

\* Variant: the handler hands the url to the commander as it came.
GitsCloneWithoutNormalize(c, s) == CommanderClone(c, Text(s))

\* GitService.Clone normalises the url again and answers a bad request for
\* one it rejects.
GitsClone(c, s) ==
    IF Norm[s].ok THEN CommanderClone(c, Text(Norm[s].url)) ELSE Reject(c)

\* The gateway's CloneRepository: 400 for a url it cannot normalise.
CloneRepository(c, r) ==
    /\ caller[c].pc = "idle"
    /\ IF Gateway[r].ok THEN GitsClone(c, Gateway[r].url) ELSE Reject(c)
    /\ UNCHANGED <<mirror, tmp, status, held, job, failures, qheld>>

\* Under statusMutex: an entry means another clone is in flight.
PrepareClone(c) ==
    LET u == caller[c].url IN
    /\ caller[c].pc = "prepare"
    /\ IF u \in status
          THEN Answer(c, "cloning") /\ UNCHANGED status
          ELSE Goto(c, "acquire", u) /\ status' = status \cup {u}
    /\ UNCHANGED <<mirror, tmp, held, job, failures, qheld>>

\* Variant: TryAcquire succeeds while as many permits as the weight are out.
CloneAcquireOffByOne(c) ==
    LET u == caller[c].url IN
    /\ caller[c].pc = "acquire"
    /\ IF held <= CloneConcurrency
          THEN \E j \in Jobs :
                  /\ job[j].phase = "none"
                  /\ held' = held + 1
                  /\ job' = [job EXCEPT ![j] = [url |-> u, phase |-> "start"]]
                  /\ Answer(c, "ok")
          ELSE Answer(c, "busy") /\ UNCHANGED <<held, job>>
    /\ UNCHANGED <<mirror, tmp, status, failures, qheld>>

\* cloneSem.TryAcquire(1); on success wg.Add and the goroutine is started.
\* The busy return leaves the entry prepareClone inserted.
CloneAcquire(c) ==
    LET u == caller[c].url IN
    /\ caller[c].pc = "acquire"
    /\ IF held < CloneConcurrency
          THEN \E j \in Jobs :
                  /\ job[j].phase = "none"
                  /\ held' = held + 1
                  /\ job' = [job EXCEPT ![j] = [url |-> u, phase |-> "start"]]
                  /\ Answer(c, "ok")
          ELSE Answer(c, "busy") /\ UNCHANGED <<held, job>>
    /\ UNCHANGED <<mirror, tmp, status, failures, qheld>>

(***************************************************************************)
(* The clone goroutine of job j.                                           *)
(***************************************************************************)
\* MkdirAll of the parent, then git clone --mirror into <dst>_tmp.  git
\* refuses a destination that already exists and is not empty, and leaves
\* it alone.
GitCloneStart(j) ==
    LET u == Dir(job[j].url) IN
    /\ job[j].phase = "start"
    /\ IF tmp[u] = "absent"
          THEN /\ tmp' = [tmp EXCEPT ![u] = "partial"]
               /\ job' = [job EXCEPT ![j].phase = "run"]
          ELSE /\ job' = [job EXCEPT ![j].phase = "release"]
               /\ UNCHANGED tmp
    /\ UNCHANGED <<mirror, status, held, caller, failures, qheld>>
    /\ Quiet

\* cmd.Run returns.  Success leaves a complete mirror in _tmp.  A git error
\* makes git remove the directory it created; a kill by the clone deadline
\* (SIGKILL from exec.CommandContext) leaves the partial directory.
GitCloneDone(j) ==
    LET u == Dir(job[j].url) IN
    /\ job[j].phase = "run"
    /\ \/ /\ tmp' = [tmp EXCEPT ![u] = "full"]
          /\ job' = [job EXCEPT ![j].phase = "rename"]
          /\ UNCHANGED failures
       \/ /\ failures < MaxFailures
          /\ failures' = failures + 1
          /\ \E left \in {"absent", "partial"} : tmp' = [tmp EXCEPT ![u] = left]
          /\ job' = [job EXCEPT ![j].phase = "release"]
    /\ UNCHANGED <<mirror, status, held, caller, qheld>>
    /\ Quiet

\* os.Rename(tmpDir, dstDir) fails when dstDir already exists (non-empty).
\* The error is stored in the status entry, whose value the model omits.
RenameMirror(j) ==
    LET u == Dir(job[j].url) IN
    /\ job[j].phase = "rename"
    /\ IF ~mirror[u]
          THEN /\ mirror' = [mirror EXCEPT ![u] = TRUE]
               /\ tmp' = [tmp EXCEPT ![u] = "absent"]
          ELSE UNCHANGED <<mirror, tmp>>
    /\ job' = [job EXCEPT ![j].phase = "release"]
    /\ UNCHANGED <<status, held, caller, failures, qheld>>
    /\ Quiet

\* Variant: the permit is released both by the defer and on the error path.
DeferReleaseTwice(j) ==
    /\ job[j].phase = "release"
    /\ held' = held - 2
    /\ job' = [job EXCEPT ![j].phase = "delete"]
    /\ UNCHANGED <<mirror, tmp, status, caller, failures, qheld>>
    /\ Quiet

\* The deferred cleanup: wg.Done, cancel, cloneSem.Release(1) ...
DeferRelease(j) ==
    /\ job[j].phase = "release"
    /\ held' = held - 1
    /\ job' = [job EXCEPT ![j].phase = "delete"]
    /\ UNCHANGED <<mirror, tmp, status, caller, failures, qheld>>
    /\ Quiet

\* Variant: the cleanup forgets the status entry.
DeferDeleteKeepingEntry(j) ==
    /\ job[j].phase = "delete"
    /\ job' = [job EXCEPT ![j].phase = "remove"]
    /\ UNCHANGED <<mirror, tmp, status, held, caller, failures, qheld>>
    /\ Quiet

\* ... delete(g.status, url) under statusMutex ...
DeferDelete(j) ==
    /\ job[j].phase = "delete"
    /\ status' = status \ {job[j].url}
    /\ job' = [job EXCEPT ![j].phase = "remove"]
    /\ UNCHANGED <<mirror, tmp, held, caller, failures, qheld>>
    /\ Quiet

\* ... and os.Remove(dstDir + "_tmp"), which removes only an empty
\* directory: every _tmp content the model distinguishes survives it.
DeferRemove(j) ==
    /\ job[j].phase = "remove"
    /\ job' = [job EXCEPT ![j].phase = "none"]
    /\ UNCHANGED <<mirror, tmp, status, held, caller, failures, qheld>>
    /\ Quiet

(***************************************************************************)
(* GetCloneStatus: the gateway's GetRepositoryStatus, GitService.          *)
(* GetCloneStatus, then cloneStatus(url): os.Stat, then under the read    *)
(* lock the map lookup and a second urlToLocal and os.Stat.               *)
(***************************************************************************)
CloneStatus(c, u) ==
    IF IsRepositoryCloned(u) THEN Answer(c, "cloned") ELSE Goto(c, "statusLocked", u)

\* GitService.GetCloneStatus: a url it cannot normalise is a bad request.
GetCloneStatus(c, s) ==
    IF Norm[s].ok THEN CloneStatus(c, Text(Norm[s].url)) ELSE Reject(c)

\* The gateway's GetRepositoryStatus: 400 for a url it cannot normalise.
GetRepositoryStatus(c, r) ==
    /\ caller[c].pc = "idle"
    /\ IF Gateway[r].ok THEN GetCloneStatus(c, Gateway[r].url) ELSE Reject(c)
    /\ UNCHANGED <<mirror, tmp, status, held, job, failures, qheld>>

CloneStatusLocked(c) ==
    LET u == caller[c].url IN
    /\ caller[c].pc = "statusLocked"
    /\ Answer(c, CASE u \in status                 -> "cloning"
                   [] Local[u].ok /\ mirror[Dir(u)] -> "cloned"
                   [] OTHER                         -> "unknown")
    /\ UNCHANGED <<mirror, tmp, status, held, job, failures, qheld>>

(***************************************************************************)
(* The queries.  Each handler calls its commander method, which takes a    *)
(* permit with TryAcquire, releases it by defer, runs isRepositoryCloned   *)
(* (an os.Stat of the mirror) and then git in the mirror.  Only            *)
(* errorRepositoryNotExist becomes NotFound; every other error, busy       *)
(* included, becomes an internal error.                                    *)
(***************************************************************************)
\* Variant: the permit is taken without looking at the semaphore's count.
QueryWithoutTryAcquire(c, u, q) ==
    LET s == SemOf(q) IN
    /\ caller[c].pc = "idle"
    /\ IF ~IsRepositoryCloned(u)
          THEN Answer(c, "notExist") /\ UNCHANGED qheld
          ELSE /\ qheld' = [qheld EXCEPT ![s] = @ + 1]
               /\ caller' = [caller EXCEPT ![c] = [pc |-> "git", url |-> u, q |-> q]]
               /\ Quiet
    /\ UNCHANGED <<mirror, tmp, status, held, job, failures>>

\* TryAcquire, then isRepositoryCloned.  The permit of a refused query is
\* taken and released by its defer in the same call.
Query(c, u, q) ==
    LET s == SemOf(q) IN
    /\ caller[c].pc = "idle"
    /\ CASE qheld[s] >= Weight(s) -> Answer(c, "internal") /\ UNCHANGED qheld
         [] ~IsRepositoryCloned(u)              -> Answer(c, "notExist") /\ UNCHANGED qheld
         [] OTHER                   ->
               /\ qheld' = [qheld EXCEPT ![s] = @ + 1]
               /\ caller' = [caller EXCEPT ![c] = [pc |-> "git", url |-> u, q |-> q]]
               /\ Quiet
    /\ UNCHANGED <<mirror, tmp, status, held, job, failures>>

\* getRepositoryBlob's answer from how `git show` ends: failed (killed by
\* the contentWriter's cancel, by the deadline, or a missing file), whether
\* the contentWriter marked the output binary (a NUL byte in the first
\* write, or more than plainFileMaxSize bytes), and whether the output is
\* git's directory banner "tree <commit>:<file>".
BlobAnswer(failed, binary, banner) ==
    CASE binary           -> "binary"
      [] failed \/ banner -> "internal"
      [] OTHER            -> "plain"

\* The handlers of GetNamedCommits, GetRepositoryFiles and GetRepositoryBlob
\* answer a bad request for a url they cannot normalise; Archive's check
\* is commented out, and it queries with the empty url, whose directory
\* is DataDir itself.
GitsQuery(c, s, q) ==
    CASE Norm[s].ok      -> Query(c, Text(Norm[s].url), q)
      [] q = "archive"   -> Query(c, "", q)
      [] OTHER           -> /\ caller[c].pc = "idle"
                            /\ Reject(c)
                            /\ UNCHANGED <<mirror, tmp, status, held, job, failures, qheld>>

\* git runs in the mirror, bounded by the context deadline; the deferred
\* Release returns the permit.  show-ref, ls-tree and archive either
\* succeed or fail with an internal error.
QueryRun(c) ==
    LET q == caller[c].q IN
    /\ caller[c].pc = "git"
    /\ qheld' = [qheld EXCEPT ![SemOf(q)] = @ - 1]
    /\ IF q = "blob"
          THEN \E a \in {BlobAnswer(f, b, t) : f, b, t \in BOOLEAN} : Answer(c, a)
          ELSE \E a \in {"ok", "internal"} : Answer(c, a)
    /\ UNCHANGED <<mirror, tmp, status, held, job, failures>>

JobStep(j) ==
    \/ GitCloneStart(j) \/ GitCloneDone(j) \/ RenameMirror(j)
    \/ DeferRelease(j) \/ DeferDelete(j) \/ DeferRemove(j)

CallerStep(c) ==
    PrepareClone(c) \/ CloneAcquire(c) \/ CloneStatusLocked(c) \/ QueryRun(c)

Next ==
    \/ \E c \in Callers, r \in Requests : CloneRepository(c, r) \/ GetRepositoryStatus(c, r)
    \/ \E c \in Callers, r \in {r \in QueryRequests : Gateway[r].ok}, q \in Queries :
          GitsQuery(c, Gateway[r].url, q)
    \/ \E c \in Callers : CallerStep(c)
    \/ \E j \in Jobs : JobStep(j)

\* Clone goroutines run to completion: git is bounded by the clone
\* deadline, and the cleanup takes statusMutex, which every holder releases
\* without blocking.  Handlers are not assumed to finish: no property
\* needs it.  New requests are not fair.
Spec == Init /\ [][Next]_vars /\ \A j \in Jobs : WF_vars(JobStep(j))

-----------------------------------------------------------------------------
\* Goroutines that hold a permit of cloneSem.
Cloning == {j \in Jobs : job[j].phase \in {"start", "run", "rename", "release"}}

\* At most conf.Concurrency.Clone git clones run at once (spec 4.1).
CloneConcurrencyBounded == Cardinality(Cloning) <= CloneConcurrency

\* Every git query runs holding a permit of its own semaphore, and no more
\* queries of a class run than the semaphore's weight (spec 4.1: three
\* bounded classes, refused with BUSY when saturated).
QueryPermitsBounded ==
    \A s \in Sems :
        LET running == {c \in Callers : caller[c].pc = "git" /\ SemOf(caller[c].q) = s}
        IN  qheld[s] = Cardinality(running) /\ qheld[s] <= Weight(s)

\* Every clone goroutine eventually removes its url from the status map, so
\* a polling client stops seeing Cloning.
ClonesEventuallySettle ==
    \A u \in Urls :
        (\E j \in Jobs : job[j].phase = "run" /\ job[j].url = u) ~> u \notin status

\* Every status entry belongs to a clone in flight (spec 8: a clone refused
\* with BUSY must clean up the status entry it took).
StatusEntryHasOwner ==
    \A u \in status :
        \/ \E j \in Jobs : job[j].url = u /\ job[j].phase \notin {"none", "remove"}
        \/ \E c \in Callers : caller[c].pc = "acquire" /\ caller[c].url = u

\* A git clone is started only for a repository that is not cloned yet
\* (spec 5: concurrent clone(u) calls, exactly one performs the work).
CloneOnlyUncloned ==
    \A j \in Jobs : job[j].phase = "run" => ~mirror[Dir(job[j].url)]

\* A _tmp directory exists only while a clone of that url is in flight
\* (spec 4.1: on any failure, remove dst_tmp).
TmpOnlyWhileCloning ==
    \A d \in Dirs :
        tmp[d] # "absent" => \E j \in Jobs : Dir(job[j].url) = d /\ job[j].phase # "none"

\* Every git clone the service starts fetches from github.com, whatever url
\* a client gives the gateway.  NormalizeRepoUrl checks the "github.com/"
\* prefix before path.Clean, so "github.com/../evil.com/o/r" passes the
\* gateway as https://evil.com/o/r; GitService.Clone's second
\* normalisation is what rejects it.
ClonesOnlyFromGithub ==
    \A j \in Jobs : job[j].phase # "none" => HostOf[job[j].url] = GithubHost

\* A mirror path is DataDir/<org>/<repo>.
MirrorPaths == {DirText(l) : l \in {l \in {UrlToLocal(u).dir : u \in TargetUrls} :
                                    Len(l) = 2 /\ l[1] # DotDot}}
IsMirrorPath(d) == d \in MirrorPaths

\* Every git command the service runs works in a mirror path under DataDir
\* (spec 4.1: dst = DataDir/urlPath, depth 2).  urlToLocal unescapes the
\* path, so "github.com/%2e%2e/o" clones next to DataDir, and Archive runs
\* git in DataDir itself for a url it could not normalise.
GitRunsInMirrors ==
    /\ \A j \in Jobs : job[j].phase \in {"start", "run", "rename"} => IsMirrorPath(Dir(job[j].url))
    /\ \A c \in Callers : caller[c].pc = "git" => IsMirrorPath(Dir(caller[c].url))
\* Spec 6's law of NormalizeRepoUrl: normalising a url it accepted gives
\* the same answer again.  The gateway's normalised url is what every gits
\* handler normalises a second time.
NormalizeIdempotent ==
    \A r \in Requests \cup QueryRequests : Gateway[r].ok => Norm[Gateway[r].url] = Gateway[r]
=============================================================================
