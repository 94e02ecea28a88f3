----------------------------- MODULE RepoSyncer -----------------------------
(***************************************************************************)
(* The repository service's read-through cache (repository/service) and   *)
(* the syncer behind it (repository/service/sync.go), with the part of    *)
(* the mongodb store it writes (repository/store/mongodb/store.go).        *)
(*                                                                         *)
(* A key is one url@commit.  The RPC handlers Directory and Blob read the  *)
(* store; on a miss they call syncDirectories / syncBlob, whose            *)
(* prepareSync is split at its lock boundaries into three atomic steps,    *)
(* and return IN_SYNC.  NamedCommits reads the repository document and,   *)
(* on a miss, asks gits for the clone status and calls syncRepository,     *)
(* keyed url@"" (RepoKeys).  A goroutine per admitted key fetches from the gits *)
(* service, writes the store and runs finishSync.  The store keeps the    *)
(* number of InsertMany batches written for a commit (each carries the "/" *)
(* sentinel) and the entries of the last, the synced, plain and content   *)
(* fields of the one file row the model follows per commit, and the       *)
(* repository documents with their named commits.  What gits answers is   *)
(* built by the writers of GitOutput from git's output for the key, over   *)
(* every way the pipe splits it into writes.                               *)
(***************************************************************************)
EXTENDS Naturals, FiniteSets, GitOutput

CONSTANTS
    Keys,          \* url@commit keys
    Callers,       \* RPC handler goroutines serving Directory and Blob
    Concurrency,   \* config.Syncer.Concurrency, the weight of syncer.sema
    MaxFailures,   \* bound on gits calls that fail (busy, not found, timeout)
    RepoKeys,      \* the url@"" keys of syncRepository; the others are url@commit
    TreeOut,       \* stdout of `git ls-tree -r -t` for each commit key
    BlobOut,       \* [ok, out]: exit status and stdout of `git show` for its file
    RefsOut        \* stdout of `git show-ref --heads --tags` for each repo key

ASSUME Concurrency \in Nat \ {0} /\ MaxFailures \in Nat /\ RepoKeys \subseteq Keys

CommitKeys == Keys \ RepoKeys

VARIABLES
    tasks,          \* DOMAIN syncer.tasks
    cancelled,      \* keys whose task context has been cancelled
    held,           \* permits of syncer.sema currently acquired
    worker,         \* the doSync goroutine of each key
    caller,         \* program counter, arguments and last response of each handler
    dirRows,        \* InsertMany batches written for a key by SetDirectories
    tree,           \* the file entries of the last batch
    setDirectories, \* mongodbStore.setDirectories
    blob,           \* [synced, plain, content] of the key's file row
    failures,       \* gits calls that have failed so far
    repository,     \* repo keys whose repositories document exists
    commits         \* the named commits of each repositories document

vars == <<tasks, cancelled, held, worker, caller, dirRows, tree, setDirectories,
          blob, failures, repository, commits>>

Kinds == {"dir", "blob", "repo"}
Phases == {"idle", "fetch", "store", "finish", "delete"}
PCs == {"idle", "check", "acquire", "insert"}
Responses == {"none", "ok", "insync", "notfound", "internal", "exist", "absent"}

TypeOK ==
    /\ tasks \subseteq Keys
    /\ cancelled \subseteq Keys
    /\ held \in 0..Concurrency
    /\ worker \in [Keys -> [phase : Phases, kind : Kinds]]
    /\ caller \in [Callers -> [pc : PCs, key : Keys, kind : Kinds, resp : Responses]]
    /\ dirRows \in [Keys -> Nat]
    /\ setDirectories \subseteq Keys
    /\ tree \in [Keys -> Seq([file : Seq(STRING), dir : BOOLEAN])]
    /\ blob \in [Keys -> [synced : BOOLEAN, plain : BOOLEAN, content : Seq(STRING)]]
    /\ failures \in 0..MaxFailures
    /\ repository \subseteq RepoKeys
    /\ commits \in [Keys -> Seq([hash : Seq(STRING), name : Seq(STRING), branch : BOOLEAN])]

\* A handler between requests keeps only its last response.
Idle == [pc |-> "idle", key |-> CHOOSE k \in Keys : TRUE, kind |-> "dir",
         resp |-> "none"]

Init ==
    /\ tasks = {}
    /\ cancelled = {}
    /\ held = 0
    /\ worker = [k \in Keys |-> [phase |-> "idle", kind |-> "dir"]]
    /\ caller = [c \in Callers |-> Idle]
    /\ dirRows = [k \in Keys |-> 0]
    /\ setDirectories = {}
    /\ tree = [k \in Keys |-> <<>>]
    /\ blob = [k \in Keys |-> [synced |-> FALSE, plain |-> FALSE, content |-> <<>>]]
    /\ failures = 0
    /\ repository = {}
    /\ commits = [k \in Keys |-> <<>>]

\* The handler c returns response r and is free for the next request.
Return(c, r) == caller' = [caller EXCEPT ![c] = [Idle EXCEPT !.resp = r]]

\* The handler c enters prepareSync for key k on behalf of syncX of kind kd.
StartSync(c, k, kd) ==
    caller' = [caller EXCEPT ![c] = [pc |-> "check", key |-> k, kind |-> kd,
                                     resp |-> "none"]]

(***************************************************************************)
(* Store reads.  GetDirectoryEntries reports synced when the path has      *)
(* entries or the "/" sentinel row exists, which both hold exactly when a  *)
(* batch has been written.  GetBlob finds the file row, inserted by        *)
(* SetDirectories with synced unset, or reports ErrorBlobNotFound.         *)
(***************************************************************************)
GetDirectoryEntries(k) == dirRows[k] > 0

GetBlob(k) ==
    IF dirRows[k] = 0 THEN "notfound"
    ELSE IF blob[k].synced THEN "synced" ELSE "unsynced"

(***************************************************************************)
(* RPC handlers.  On a miss the handler ignores the error of syncX and     *)
(* returns IN_SYNC whatever prepareSync decides.                           *)
(***************************************************************************)
Directory(c, k) ==
    /\ caller[c].pc = "idle"
    /\ \/ GetDirectoryEntries(k) /\ Return(c, "ok")
       \/ ~GetDirectoryEntries(k) /\ StartSync(c, k, "dir")
    /\ UNCHANGED <<tasks, cancelled, held, worker, dirRows, tree, setDirectories,
                   blob, failures, repository, commits>>

\* Variant: a handler that treats a missing row like an unsynced one.
BlobWithoutRowCheck(c, k) ==
    /\ caller[c].pc = "idle"
    /\ \/ GetBlob(k) \in {"notfound", "unsynced"} /\ StartSync(c, k, "blob")
       \/ GetBlob(k) = "synced" /\ Return(c, "ok")
    /\ UNCHANGED <<tasks, cancelled, held, worker, dirRows, tree, setDirectories,
                   blob, failures, repository, commits>>

Blob(c, k) ==
    /\ caller[c].pc = "idle"
    /\ \/ GetBlob(k) = "notfound" /\ Return(c, "notfound")
       \/ GetBlob(k) = "unsynced" /\ StartSync(c, k, "blob")
       \/ GetBlob(k) = "synced" /\ Return(c, "ok")
    /\ UNCHANGED <<tasks, cancelled, held, worker, dirRows, tree, setDirectories,
                   blob, failures, repository, commits>>

\* GetRepository: the document of the url, or ErrorRepositoryNotFound.
GetRepository(k) == k \in repository

\* syncRepository: gits' GetCloneStatus, then prepareSync for Cloned only.
\* A failed call or an Unknown status returns the service's
\* errorRepoNotFound, and Cloning returns errorInSync; NamedCommits
\* compares them with the syncer's ErrRepositoryNotFound and ErrInSync,
\* which they never equal, so each becomes an internal error.
SyncRepository(c, k) ==
    \/ Return(c, "internal")
    \/ StartSync(c, k, "repo")

\* NamedCommits: the stored named commits, or syncRepository on a miss.
NamedCommits(c, k) ==
    /\ caller[c].pc = "idle"
    /\ IF GetRepository(k) THEN Return(c, "ok") ELSE SyncRepository(c, k)
    /\ UNCHANGED <<tasks, cancelled, held, worker, dirRows, tree, setDirectories,
                   blob, failures, repository, commits>>

\* RepositoryExist: a repositories document of the url lists a named
\* commit with hash h.
RepositoryExist(k, h) ==
    k \in repository /\ \E i \in DOMAIN commits[k] : commits[k][i].hash = h

\* IsRepositoryExist answers from the store alone: it does not normalize
\* the url and does not sync on a miss.
IsRepositoryExist(c, k, h) ==
    /\ caller[c].pc = "idle"
    /\ Return(c, IF RepositoryExist(k, h) THEN "exist" ELSE "absent")
    /\ UNCHANGED <<tasks, cancelled, held, worker, dirRows, tree, setDirectories,
                   blob, failures, repository, commits>>

\* The hashes a client may ask about: any word of the url's show-ref output.
RequestHashes(k) == {<<RefsOut[k][i]>> : i \in DOMAIN RefsOut[k]} \ {<<SP>>, <<NL>>}

\* The answer when TryAcquire fails: Directory and Blob hide the error
\* behind IN_SYNC; NamedCommits turns ErrSyncerBusy into an internal error.
BusyAnswer(kd) == IF kd = "repo" THEN "internal" ELSE "insync"

(***************************************************************************)
(* prepareSync, one action per critical section.                           *)
(***************************************************************************)
\* Under the read lock: a task for the key already runs.
PrepareCheck(c) ==
    /\ caller[c].pc = "check"
    /\ IF caller[c].key \in tasks
          THEN Return(c, "insync")
          ELSE caller' = [caller EXCEPT ![c].pc = "acquire"]
    /\ UNCHANGED <<tasks, cancelled, held, worker, dirRows, tree, setDirectories,
                   blob, failures, repository, commits>>

\* sema.TryAcquire(1); on failure ErrSyncerBusy, which the handler hides.
\* Variant: the free-permit test is off by one.
PrepareAcquireOffByOne(c) ==
    /\ caller[c].pc = "acquire"
    /\ IF held <= Concurrency
          THEN /\ held' = held + 1
               /\ caller' = [caller EXCEPT ![c].pc = "insert"]
          ELSE /\ Return(c, BusyAnswer(caller[c].kind))
               /\ UNCHANGED held
    /\ UNCHANGED <<tasks, cancelled, worker, dirRows, tree, setDirectories,
                   blob, failures, repository, commits>>

PrepareAcquire(c) ==
    /\ caller[c].pc = "acquire"
    /\ IF held < Concurrency
          THEN /\ held' = held + 1
               /\ caller' = [caller EXCEPT ![c].pc = "insert"]
          ELSE /\ Return(c, BusyAnswer(caller[c].kind))
               /\ UNCHANGED held
    /\ UNCHANGED <<tasks, cancelled, worker, dirRows, tree, setDirectories,
                   blob, failures, repository, commits>>

\* Variant: the permit is given back on the branch that starts the goroutine.
PrepareInsertReleasingOnSuccess(c) ==
    LET k == caller[c].key IN
    /\ caller[c].pc = "insert"
    /\ IF k \in tasks
          THEN UNCHANGED <<tasks, cancelled, worker, held>>
          ELSE /\ tasks' = tasks \cup {k}
               /\ cancelled' = cancelled \ {k}
               /\ worker' = [worker EXCEPT ![k] = [phase |-> "fetch",
                                                   kind |-> caller[c].kind]]
               /\ held' = held - 1
    /\ Return(c, "insync")
    /\ UNCHANGED <<dirRows, tree, setDirectories, blob, failures, repository, commits>>

\* Under the write lock: re-check, then bind a fresh context to the key and
\* start the goroutine.  The re-check's early return keeps the permit.
PrepareInsert(c) ==
    LET k == caller[c].key IN
    /\ caller[c].pc = "insert"
    /\ IF k \in tasks
          THEN UNCHANGED <<tasks, cancelled, worker>>
          ELSE /\ tasks' = tasks \cup {k}
               /\ cancelled' = cancelled \ {k}
               /\ worker' = [worker EXCEPT ![k] = [phase |-> "fetch",
                                                   kind |-> caller[c].kind]]
    /\ Return(c, "insync")
    /\ UNCHANGED <<held, dirRows, tree, setDirectories, blob, failures, repository, commits>>

(***************************************************************************)
(* The doSyncDirectories / doSyncBlob goroutine of key k.                  *)
(***************************************************************************)
\* The gits call (GetRepositoryFiles, GetRepositoryBlob or GetNamedCommits)
\* returns a result.
FetchOk(k) ==
    /\ worker[k].phase = "fetch"
    /\ k \notin cancelled
    /\ worker' = [worker EXCEPT ![k].phase = "store"]
    /\ UNCHANGED <<tasks, cancelled, held, caller, dirRows, tree, setDirectories,
                   blob, failures, repository, commits>>

\* The gits call fails: gits busy, repository not cloned, or the context is
\* done (timeout or shutdown).  The goroutine logs and runs finishSync.
FetchFail(k) ==
    /\ worker[k].phase = "fetch"
    /\ k \in cancelled \/ failures < MaxFailures
    /\ failures' = IF k \in cancelled THEN failures ELSE failures + 1
    /\ worker' = [worker EXCEPT ![k].phase = "finish"]
    /\ UNCHANGED <<tasks, cancelled, held, caller, dirRows, tree, setDirectories,
                   blob, repository, commits>>

(***************************************************************************)
(* What the gits handlers answer: the writers' result for every split of  *)
(* git's output.  A blob run that failed, or printed a directory banner,  *)
(* is an error; GetRepositoryBlob maps it to an internal error, which      *)
(* doSyncBlob only logs.  Being constants, TLC computes them once.          *)
(***************************************************************************)
TreeAnswers ==
    [k \in Keys |-> {RepositoryFiles(ch) : ch \in Chunkings(TreeOut[k], MaxWrites)}]

BlobAnswers ==
    [k \in Keys |-> {GitShow(BlobOut[k].ok, ch) : ch \in Chunkings(BlobOut[k].out, MaxWrites)}]

CommitAnswers ==
    [k \in Keys |-> {ShowRefCommits(ch) : ch \in Chunkings(RefsOut[k], MaxWrites)}]

\* SetDirectories: under the store mutex, unless the key is in
\* setDirectories, one InsertMany of the entries and the "/" sentinel.
SetDirectories(k, entries) ==
    IF k \notin setDirectories
       THEN /\ dirRows' = [dirRows EXCEPT ![k] = @ + 1]
            /\ tree' = [tree EXCEPT ![k] = entries]
       ELSE UNCHANGED <<dirRows, tree>>

\* SetBlob: an upsert of synced, plain and content into the file row.
SetBlob(k, r) ==
    blob' = [blob EXCEPT ![k] = [synced |-> TRUE, plain |-> r.plain, content |-> r.content]]

\* AddRepository: an upsert of the repository document by url.
AddRepository(k, cs) ==
    /\ repository' = repository \cup {k}
    /\ commits' = [commits EXCEPT ![k] = cs]

\* doSyncDirectories stores the entries gits listed.
StoreTree(k) ==
    /\ \E es \in TreeAnswers[k] : SetDirectories(k, es)
    /\ UNCHANGED <<blob, repository, commits>>

\* doSyncBlob stores content and plain unless gits answered an error.
StoreBlob(k) ==
    /\ \E r \in BlobAnswers[k] :
          IF r.err THEN UNCHANGED blob ELSE SetBlob(k, r)
    /\ UNCHANGED <<dirRows, tree, repository, commits>>

\* doSyncRepository copies the named commits into the repository document.
StoreCommits(k) ==
    /\ \E cs \in CommitAnswers[k] : AddRepository(k, cs)
    /\ UNCHANGED <<dirRows, tree, blob>>

\* The goroutine acts on a gits answer; a write under a cancelled context
\* fails.
Store(k) ==
    /\ worker[k].phase = "store"
    /\ CASE k \in cancelled         -> UNCHANGED <<dirRows, tree, blob, repository, commits>>
         [] worker[k].kind = "dir"  -> StoreTree(k)
         [] worker[k].kind = "blob" -> StoreBlob(k)
         [] OTHER                   -> StoreCommits(k)
    /\ worker' = [worker EXCEPT ![k].phase = "finish"]
    /\ UNCHANGED <<tasks, cancelled, held, caller, setDirectories, failures>>

\* finishSync: wg.Done, cancel and sema.Release(1) ...
FinishRelease(k) ==
    /\ worker[k].phase = "finish"
    /\ held' = held - 1
    /\ cancelled' = cancelled \cup {k}
    /\ worker' = [worker EXCEPT ![k].phase = "delete"]
    /\ UNCHANGED <<tasks, caller, dirRows, tree, setDirectories, blob, failures, repository, commits>>

\* Variant: the goroutine ends without removing its key from the map.
FinishDeleteKeepingTask(k) ==
    /\ worker[k].phase = "delete"
    /\ worker' = [worker EXCEPT ![k].phase = "idle"]
    /\ UNCHANGED <<tasks, cancelled, held, caller, dirRows, tree, setDirectories,
                   blob, failures, repository, commits>>

\* ... then, under the write lock, delete(s.tasks, key).
FinishDelete(k) ==
    /\ worker[k].phase = "delete"
    /\ tasks' = tasks \ {k}
    /\ worker' = [worker EXCEPT ![k].phase = "idle"]
    /\ UNCHANGED <<cancelled, held, caller, dirRows, tree, setDirectories,
                   blob, failures, repository, commits>>

\* shutdown, fired by the timer of wait: cancel every pending task.
Shutdown ==
    /\ tasks \ cancelled # {}
    /\ cancelled' = cancelled \cup tasks
    /\ UNCHANGED <<tasks, held, worker, caller, dirRows, tree, setDirectories,
                   blob, failures, repository, commits>>

Next ==
    \/ \E c \in Callers, k \in CommitKeys : Directory(c, k) \/ Blob(c, k)
    \/ \E c \in Callers, k \in RepoKeys : NamedCommits(c, k)
    \/ \E c \in Callers, k \in RepoKeys : \E h \in RequestHashes(k) : IsRepositoryExist(c, k, h)
    \/ \E c \in Callers : PrepareCheck(c) \/ PrepareAcquire(c) \/ PrepareInsert(c)
    \/ \E k \in Keys : \/ FetchOk(k) \/ FetchFail(k) \/ Store(k)
                       \/ FinishRelease(k) \/ FinishDelete(k)
    \/ Shutdown

(***************************************************************************)
(* Fairness: a handler that has entered prepareSync finishes it, and a    *)
(* sync goroutine runs to completion (every gits call and store write has *)
(* a deadline).  Clients issuing requests and the shutdown timer are not  *)
(* fair.                                                                   *)
(***************************************************************************)
Fairness ==
    /\ \A c \in Callers : WF_vars(PrepareCheck(c) \/ PrepareAcquire(c) \/ PrepareInsert(c))
    /\ \A k \in Keys : WF_vars(FetchOk(k) \/ FetchFail(k) \/ Store(k)
                               \/ FinishRelease(k) \/ FinishDelete(k))

Spec == Init /\ [][Next]_vars /\ Fairness

-----------------------------------------------------------------------------
\* Goroutines that hold a permit of syncer.sema.
Syncing == {k \in Keys : worker[k].phase \in {"fetch", "store", "finish"}}

\* Every running doSync goroutine is covered by a permit of syncer.sema:
\* prepareSync's acquire / re-check / insert order and finishSync's release
\* never let more goroutines run than permits are taken.
PermitsCoverWorkers == held >= Cardinality(Syncing)

\* A blob row is marked synced only for a commit whose tree was written: the
\* Blob handler schedules doSyncBlob only for a row GetBlob found, and
\* SetBlob (an upsert) would otherwise create the row without its tree.
BlobAfterTree == \A k \in Keys : blob[k].synced => dirRows[k] > 0


\* The syncer is never left with every permit taken forever: polling clients
\* get a sync admitted again (spec 4.3, "a caller that observes IN_SYNC and
\* polls will eventually observe the materialized state").
SyncerEventuallyAvailable == []<>(held < Concurrency)

\* SetDirectories writes the tree of a commit at most once (spec 4.3: "a
\* mutex ensures exactly one insertion per (url, hash) across concurrent
\* retries").
DirectoriesInsertedOnce == \A k \in Keys : dirRows[k] <= 1

\* A stored tree is the tree git listed: however the pipe splits the
\* `ls-tree` output into writes, the lineWriter inside fileEntryWriter
\* rebuilds each line and doSyncDirectories stores one entry per listed
\* path, a tree entry marked dir (spec 4.1).
TreeStoredAsListed ==
    \A k \in CommitKeys : dirRows[k] > 0 => tree[k] = ListedEntries(TreeOut[k])

\* A synced file row holds what spec 3 says of the file: binary (a zero
\* byte in its first 1024 bytes, or over plainFileMaxSize) is not plain
\* and empty, anything else plain with the whole content, whatever the
\* split of `git show`'s output into contentWriter writes.
BlobStoredAsShown ==
    \A k \in CommitKeys :
        blob[k].synced =>
            [plain |-> blob[k].plain, content |-> blob[k].content] = ShownBlob(BlobOut[k].out)

\* A repository document holds the branches and tags `git show-ref` listed,
\* for every split of its output into lineWriter writes.
CommitsStoredAsListed ==
    \A k \in RepoKeys : k \in repository => commits[k] = ListedRefs(RefsOut[k])
-----------------------------------------------------------------------------
(***************************************************************************)
(* Refinement of RepoCache.  An abstract item is pending while its key is *)
(* in syncer.tasks, whatever phase the goroutine is in, and is cached     *)
(* once the store holds its tree batch, its synced file row or its        *)
(* repository document.  The answer is the one spec 3 and 4.1 prescribe   *)
(* for git's output.                                                       *)
(***************************************************************************)
SyncItems == (CommitKeys \X {"dir", "blob"}) \cup (RepoKeys \X {"repo"})

Stored(v) == [stored |-> TRUE, value |-> v]
NotStored == [stored |-> FALSE]

CachedValue(i) ==
    LET k == i[1] IN
    CASE i[2] = "dir"  -> IF dirRows[k] > 0 THEN Stored(tree[k]) ELSE NotStored
      [] i[2] = "blob" -> IF blob[k].synced
                             THEN Stored([plain |-> blob[k].plain, content |-> blob[k].content])
                             ELSE NotStored
      [] OTHER         -> IF k \in repository THEN Stored(commits[k]) ELSE NotStored

GitAnswer(i) ==
    LET k == i[1] IN
    CASE i[2] = "dir"  -> Stored(ListedEntries(TreeOut[k]))
      [] i[2] = "blob" -> Stored(ShownBlob(BlobOut[k].out))
      [] OTHER         -> Stored(ListedRefs(RefsOut[k]))

Cache == INSTANCE RepoCache WITH
    Items   <- SyncItems,
    Answer  <- [i \in SyncItems |-> GitAnswer(i)],
    Missing <- NotStored,
    cache   <- [i \in SyncItems |-> CachedValue(i)],
    pending <- {<<k, worker[k].kind>> : k \in tasks}

\* The syncer implements the cache clients are promised: a sync is
\* admitted only when no task of the same url@commit is in syncer.tasks
\* (so a Directory and a Blob sync of one commit exclude each other), a
\* file only once its tree is stored, the store changes only under an
\* admitted task and only to what git listed, nothing stored is ever lost,
\* and every key admitted to syncer.tasks leaves it again, through gits
\* failures, timeouts and shutdown.
RefinesRepoCache == Cache!Spec
=============================================================================
