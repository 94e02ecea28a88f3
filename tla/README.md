# TLA+ models of rfschub-server

This directory has TLA+ specifications of the concurrent parts of rfschub-server. Each has MC modules and TLC configurations that check it. `PROJECT.json` lists every component, run, mutant, source mapping, finding and hazard. This README explains them.

## The system

Five Go services talk over go-micro RPC:

| Service | Source | Role |
|---|---|---|
| gits (GitWorker) | `src/gits/service` | Owns on-disk `git clone --mirror` copies; runs `git` under three weighted semaphores (clone, archive, other), all taken with non-blocking `TryAcquire`. |
| repository (RepoCache) | `src/repository/service`, `src/repository/store/mongodb` | Read-through cache of refs, trees and blobs in MongoDB; on a miss answers IN_SYNC and starts a background sync goroutine (the *syncer*) bounded by a semaphore. |
| index (Indexer) | `src/index/service`, `src/index/store/mongodb` | Admits index requests into an in-memory map `hash -> url` bounded by `Concurrency`, hands them to indexer goroutines over a buffered channel, collects results on another; each indexer streams an archive from gits through ctags. |
| project (ProjectSvc) | `src/project` | Projects and annotations; fires index requests; maintains the "latest annotation per ancestor directory" roll-up. |
| api (Gateway), account, syntect | `src/api`, `src/account`, `src/syntect` | Stateless HTTP façade, user registry, syntax highlighter. |

Interactions that matter for concurrency:
- The repository syncer calls gits (clone status, named commits, tree, blob).
- The indexer calls gits (archive).
- ProjectSvc calls the indexer.
- The gateway calls everything.

Inside each service, goroutines share maps guarded by `sync.RWMutex`, semaphores, channels and WaitGroups. That is where the hard behaviour lives.

## Modules

| Module | Models | MC module |
|---|---|---|
| `RepoSyncer` | `repository/service/sync.go` (prepareSync, finishSync, syncRepository and the doSync goroutines, shutdown), the NamedCommits, IsRepositoryExist, Directory and Blob handlers of `repository/service/service.go`, and AddRepository/GetRepository/RepositoryExist/SetDirectories/SetBlob/GetDirectoryEntries/GetBlob of the mongodb store | `MCRepoSyncer` |
| `GitOutput` | the io.Writers git's stdout is copied into (`lineWriter`, `fileEntryWriter`, `contentWriter`) the answers `getNamedCommits`, `getRepositoryFiles` and `getRepositoryBlob` build from them, and the clone's `progressWriter` (`gits/service/command.go`); pure operators, used by `RepoSyncer` | `MCRepoSyncer` (through `RepoSyncer`) |
| `GitClone` | `gitCommander.clone`, `prepareClone`, the clone goroutine and its deferred cleanup, `cloneStatus`, the queries `getNamedCommits`, `getRepositoryFiles`, `getRepositoryBlob` and `archive` (`gits/service/command.go`), their `GitService` handlers (`gits/service/service.go`), and the gateway's clone and status routes (`api/route/repository/handler.go`) | `MCGitClone` |
| `RepoUrl` | `url.NormalizeRepoUrl` (`common/url/url.go`) and `gitCommander.urlToLocal` (`gits/service/command.go`): pure operators on urls as token sequences, used by `GitClone` | `MCGitClone` (through `GitClone`) |
| `IndexService` | `IndexRepository`, `IndexStatus`, `checkResult` (`index/service/service.go`), the `indexer.start` loop (`index/service/indexer.go`), and NewIndexTask/SetTaskState/RepositoryIndexed of the index store | `MCIndexService` |
| `Liner` | `newLiner`, `advanceToLineNumber` and `getLine` (`index/service/line.go`) and the loop of `saveResponseEntries` (`index/service/indexer.go`) | `MCIndexFile` (through `IndexFile`) |
| `IndexFile` | `indexRepository` of one indexer goroutine (`index/service/indexer.go`): the tar loop, both reads into the reusable buffer, `gitsArchiveReader.Read`, `commander.indexFile` (`index/service/commander.go`), `saveResponseEntries` driving the `Liner`, and RepositoryFileIndexed/AddFileIndexEntries of the index store | `MCIndexFile` |
| `AccountService` | Register, the JWT login, AccountId, AccountInfoByName and AccountsBasicInfo (`account/service/service.go`), the mongodb store calls they make and its unique indexes (`account/store/mongodb/store.go`), and the gateway's parameter check and authenticator (`api/route/account/handler.go`, `api/middlewares/jwt.go`) | `MCAccountService` |
| `ProjectService` | NewProject, requestForIndexing, ProjectInfo, AddAnnotation and GetLatestAnnotations (`project/service/service.go`) and the mongodb store operations they call (`project/store/mongodb/store.go`) | `MCProjectService` |
| `RepoCache` | the promise of spec §4.3 that the repository service makes to its clients, with no locks, permits or goroutines: `Request`, `Fill`, `Finish` of a sync per item | `MCRepoSyncer` (through `RepoSyncer`, which refines it) |

### RepoSyncer

- **State.**
  - `tasks` and `cancelled` are the key set of `syncer.tasks` and the keys whose context is cancelled.
  - `held` is the permits of `syncer.sema` in use.
  - `worker[k]` is the phase of the doSync goroutine of key url@commit.
  - `caller[c]` is the program counter of a handler goroutine.
  - The store is `dirRows[k]` (InsertMany batches written) with `tree[k]` (the entries of the last batch), `blob[k]` (synced, plain and content of the one file row followed), `setDirectories` (the store's never-updated guard set), `repository` (the repo keys whose repositories document exists) and `commits[k]` (its named commits).
  - A key is url@commit. NamedCommits uses the key url@"", one of `RepoKeys`.
  - The constants `TreeOut`, `BlobOut` and `RefsOut` are git's output for each key. `TreeAnswers`, `BlobAnswers` and `CommitAnswers` are what the gits handlers answer for them: the GitOutput writers' result for every split of the output into writes. They are constant definitions, so TLC computes them once.
- **Actions.**
  - prepareSync is split at its lock boundaries: `PrepareCheck` (RLock check), `PrepareAcquire` (TryAcquire) and `PrepareInsert` (the re-check and insert under Lock).
  - The goroutine runs `FetchOk`/`FetchFail` (gits call, bounded failures), `Store` (skipped when cancelled; otherwise `StoreTree`, `StoreBlob` or `StoreCommits` picks one gits answer and writes it with SetDirectories, SetBlob or AddRepository; a blob answered with an error is not stored), then finishSync as `FinishRelease` (Release) and `FinishDelete` (delete under Lock). Those two are separate steps because the code unlocks between them.
  - `Shutdown` cancels every task.
  - `NamedCommits` is the handler: `GetRepository`, then on a miss `SyncRepository`. That operator is gits' clone status (a nondeterministic answer), then prepareSync for Cloned only. A busy refusal answers IN_SYNC in Directory and Blob but an internal error in NamedCommits (`BusyAnswer`). The named-commits goroutine stores with `AddRepository`.
  - `IsRepositoryExist` answers from the stored named commits alone (`RepositoryExist`): it neither normalizes the url nor syncs on a miss. A client may ask about any word of the url's show-ref output (`RequestHashes`).

- **Refinement.** `RepoSyncer` implements the abstract `RepoCache`, and `RefinesRepoCache` (`Cache!Spec`) checks it.
  - An abstract item is a `<<key, kind>>` pair: the tree or the file of a commit, or the named commits of a url (`SyncItems`).
  - An item is pending while its key is in `syncer.tasks`, with the kind of the goroutine's sync.
  - An item is cached (`CachedValue`) once the store has its tree batch, its synced file row or its repository document.
  - The answer an item may be filled with is what spec §3/§4.1 prescribe for git's output (`GitAnswer`).
  - Under this mapping:
    - `PrepareInsert` of a new key is `Request`;
    - an uncancelled `Store` with a correct answer is `Fill`;
    - `FinishDelete` is `Finish`;
    - every other step is a stutter.
  - The abstract spec allows one pending sync per key only. A Directory sync and a Blob sync of one commit therefore exclude each other, as the code's url@commit key makes them.
  - The abstract spec's fairness, `WF(Finish(i))`, is the liveness of the syncer: every admitted task leaves `syncer.tasks`.

### GitOutput

- Bytes are abstracted to cells. The separators and terminators the writers test (space, tab, `\r`, `\n`, NUL) are cells of their own, and a word (mode, type, hash, path, ref prefix) is one cell. A write boundary inside a word acts like one next to it, because the writers only look for separators.
- `Chunkings(s, m)` is every split of output `s` into at most `m` non-empty writes, which is what os/exec may hand the writer.
- `LineWriterWrite` is `lineWriter.Write`: `LineEnd` finds the first `\r`, else the first `\n`; `StripEnd` drops the terminator and a `\r` before it; `Drain` is the loop; the unterminated rest stays for the next write.
- `FileEntryWriterWrite` splits each line at single spaces and tabs (`SplitFields`), makes an entry of lines with at least four fields (`EntryOf`: `parts[3]` is the file, `parts[1] = "tree"` the dir flag) and resets the lines.
- `ShowRefCommits` keeps the lines of two `strings.Fields` words whose ref is under refs/heads/ or refs/tags/, trimming the prefix.
- `ContentWriterWrite` is `contentWriter.Write`: a NUL in the first `CheckLen` bytes of a write, tested until one write has passed, or a size past `MaxSize`, marks the output binary. `GitShow` is getRepositoryBlob's decision: binary, then error for a failed run or a directory banner, then plain.
- `ProgressWriterWrite` is `progressWriter.Write`. `ProgressCut` is its loop: every `\r` or `\n` ends a line (the `\r\n` test reads `p[j]` where `p[j+1]` is meant, so a `\r\n` ends two lines, the second empty), and the rest of a write after the last separator counts as a line too. Once the count reaches `ProgressEvery` (20) the last line cut is pushed and the count resets. `ProgressPushes` folds it over a chunking and collects what the updater writes into the status map.
- `ListedEntries`, `ListedRefs` and `ShownBlob` are the reference definitions; `SpecProgress` is spec §4.1.a's: every 20th line of the output, whole: the ls-tree and show-ref formats and spec §3's binary rule.

### GitClone

- **Urls.** A url is a token sequence (`RepoUrl`): the scheme, "/" and one token per path segment, among them ".", ".." and the escaped "%2e%2e". `Requests` are the urls clients give the gateway's clone and status routes, and `QueryRequests` the urls the repository service and the indexer query with. A url passes `NormalizeRepoUrl` twice: in the gateway (or the repository service), and again in every gits handler (`Gateway`, `Norm`). A request that fails either pass is `Reject`ed and changes nothing. `urlToLocal` (`Local`) gives the mirror directory, relative to DataDir, as a string; `Dir(u)` is that string, and `mirror`/`tmp` are keyed by it. TLC precomputes these tables from the constants. The model does not create `MkdirAll`'s parent directories: an `ASSUME` checks that no mirror directory of the instance is a parent of another.
- **State.**
  - `mirror[d]` says whether `<data>/<d>` exists; DataDir itself (`""`) exists from the start.
  - `tmp[d]` says whether `<path>_tmp` is absent, holds a partial clone, or holds a full one.
  - `status` is the key set of `g.status`, and `held` is the permits of `cloneSem`.
  - `job[j]` is a clone goroutine at one of its steps; a `Jobs` slot is a goroutine identity.
  - `caller[c]` is a handler, with the query it is running.
  - `qheld` is the permits of `otherSem` and `archiveSem`.
  - `reply[c]` is the answer handler `c` returns in the current step, and "none" in every other step. A handler's earlier answers are not program state, so keeping them would only multiply the states. A rejected request (`Reject`) records no answer either.
- **Actions.**
  - `CloneRepository` and `GetRepositoryStatus` are the gateway routes; `GitsClone`, `GetCloneStatus` and `GitsQuery` the gits handlers, each normalising again before calling the commander.
  - `CommanderClone` is urlToLocal and the os.Stat outside the lock. `PrepareClone` is the map check and insert. `CloneAcquire` is TryAcquire, which starts a goroutine or returns BUSY.
  - The goroutine runs `GitCloneStart` (git refuses a non-empty destination), `GitCloneDone` (success, git error, or a kill at the deadline that leaves a partial directory), `RenameMirror`, and the deferred `DeferRelease`, `DeferDelete` and `DeferRemove`. `os.Remove` only removes an empty directory.
  - `CloneStatus` and `CloneStatusLocked` are the two halves of cloneStatus.
  - `Query` is the start of every query: TryAcquire on its semaphore (`SemOf`), then isRepositoryCloned. A refused query answers Internal, because the handlers turn every error except errorRepositoryNotExist into an internal error. A missing mirror answers NotFound.
  - `QueryRun` is git running in the mirror, the answer, and the deferred Release. A blob's answer comes from `BlobAnswer`, which is the code's classification of how `git show` ended: failed or not, marked binary by the contentWriter or not, and whether the output is git's directory banner. What git writes is not modelled.

### IndexService

- **State.**
  - `tasks` is `service.tasks`.
  - `readers` is the read locks of `service.mu` that are held.
  - `reqChan` and `resChan` are the two buffered channels, each with capacity `Concurrency`.
  - `worker[w]` is an indexer goroutine.
  - `checker` is the checkResult goroutine.
  - `caller[c]` is an IndexRepository call.
  - `doc[(u,h)]` is the task document (absent, created or success).
- **Actions.**
  - IndexRepository is split into `IndexRepository` (the RepositoryIndexed read before the lock), `Admit` (the map check and insert under Lock), `NewIndexTask` (the upsert), `Send` (the channel send), or `Undo` (the delete on a NewIndexTask error).
  - `IndexStatus` is one step per outcome. On every path except "indexing for this url" it leaves a read lock held, as the code does.
  - The RWMutex is modelled as Go implements it. Lock waits for readers (`LockBlocked`, `CheckResultBlocked`), and a waiting writer blocks new RLock calls.
  - The indexer goroutines: `Receive`, `IndexDone` (indexRepository with a free outcome, then SetTaskState, which only writes success), and `Report`.
  - checkResult: `CheckResultRecv` and `CheckResultDelete`.

### Liner

- **State.**
  - `content` is the lines the liner's bufio.Scanner yields for the buffer, and `scanErr` says whether it then stops with an error (a line over the token limit) rather than EOF. IndexFile sets both from the buffer. Every Scan increments `lineNumber`, so Scan succeeds exactly while `lineNumber < Len(content)`.
  - `entries` is the tag line numbers in the extractor's order.
  - `liner` is the liner's `lineNumber`, its `lines` map and `done`.
  - `saved` is the context fields built so far, and `result` is "running" or "error".
- **Operators.**
  - `SkipTo` and `Fill` are the two loops of advanceToLineNumber. Each is stated by the line it stops at, because every Scan advances `lineNumber` by one. `SkipFails` is the first loop's error return, `Keep` scans and keeps lines, and `ReadAhead` is the scan of line n+1. `AdvanceToLineNumber` composes them, and `GetLine` is getLine.
  - `LineBefore` is the lineBefore concatenation.
- **Actions.** `SaveEntry` is one iteration of the loop. It makes the four getLine calls one tag makes (L, L+1, L-2 only when L+1 does not exist, then L-1), each on the liner the previous one left. An error of getLine(L) sets `result` to "error" at once.

### IndexFile

IndexFile extends Liner with the goroutine's state around one call of saveResponseEntries.

- **Cells.** Bytes are abstracted to cells: a newline, NUL, `t` (text the extractor reports a tag for) and `a` (other text). Sizes are in cells. `BufSize` stands for maxSize (256 KiB), `FirstRead` for the first 1024-byte read, and `TokenMax` for bufio's 64 KiB token limit.
- **Conversions.**
  - `Segments` (RECURSIVE) and `LinesOf` split cells into lines as bufio.ScanLines does.
  - `ScanOf` is what the liner's scanner yields for the whole buffer. It stops at the first line of `TokenMax` cells or more, because a line and its newline must fit the scanner's buffer.
  - `CtagsTags` is the extractor: it tags every line of the content it is sent that holds a `t`, in line order. It is the environment, not repository code.
- **State.**
  - `archive` is the commit's tar headers `[reg, size, data]`, chosen from `Archives`.
  - `buffer` is `indexer.buffer`. It starts as one of `StaleBuffers`: zeros, or bytes an earlier task left.
  - `fi` is the next header; `n` and `got` are the cells the first read and both reads returned.
  - `alive` is the extractor process, and `stored[i]` the tag lines in `file_indexes` for header i.
  - `attempt`, `pc` and `ret` are the task and indexRepository's return.
- **Actions.**
  - `ReadHeader` covers tarReader.Next (EOF returns nil, an error returns it), the type and size filters, and the first read into `buffer[:1024]`. It then does the NUL test on what that read returned, and the RepositoryFileIndexed check (`FileIndexed`; an error is logged and read as not indexed).
  - `ReadRest` is the second read into `buffer[n:]` (`RestStart`). `ReadCounts` lets each read return any number of cells up to what was asked: `gitsArchiveReader.Read` returns at most the rest of the current RPC message. ReadRest then calls indexFile on `buffer[:hdr.Size]` (`Extracted`: every entry; a prefix when the extractor dies mid-answer; none once it is dead, the error only logged), and starts saveResponseEntries on the whole buffer.
  - `SaveStep` is one `SaveEntry` of the Liner.
  - `SaveFile` ends saveResponseEntries. A getLine error, or an ordered InsertMany that stops part-way (`InsertCounts`), breaks indexRepository's loop, and it returns nil. An empty batch stores nothing.
  - `RunAgain` is a later task for the commit after a failed one (the `indexer.start` loop calling indexRepository again), on the same buffer, extractor and store.
- **Switches.** `StreamFails`, `StoreFails` and `CtagsCrashes` turn the failure branches on or off.

### ProjectService

- **State.**
  - `project` is the projects collection: an ObjectId of `Pids` maps to a document or `NoDoc`.
  - `annotation` is the annotations collection, which is insert-only.
  - `latest` is latest_annotations as a bag, so duplicate documents are counted.
  - `requested` and `indexed` abstract the index service: the commits it was asked for, and those whose task succeeded.
  - `caller[c]` is a handler with its arguments.
  - `failures` counts failed store writes.
  - `rolledUp` is an auxiliary record of the AddAnnotation calls whose roll-up loop ended at ".".
- **Reads.** `LatestAnnotationsAnswer` is the GetLatestAnnotations RPC: the roll-up documents of a directory, as the answer's entries. `RollupVisible` and `LatestChainComplete` are stated over what it answers.
- **Paths.** A file path is a sequence of names. `path.Dir` drops the last name (the empty sequence is "."), and `path.Base` is the last name. The gateway strips the leading "/" before the call (`api/route/project/handler.go:146`), so paths are relative.
- **Actions.**
  - No collection of this store has a unique index: only the account store creates any. So a mongodb upsert is a query, then either an update of one matching document or, when nothing matched, an insert that another upsert may precede. `NewProject`/`NewProjectInsert` and `Rollup`/`RollupInsert` are split exactly there.
  - `RawUrls` are the urls clients send and `RepoUrlOf` NormalizeRepoUrl's result for each. NewProject and ProjectInfo look projects up by the normalised url, and NewProject keeps the raw one for its index request.
  - `NewProjectIndex` and `ProjectInfoIndex` are the two calls of `requestForIndexing`. Its RPC either fails (the nil response is then dereferenced and the handler goes no further) or answers Indexed, and only then does `SetProjectIndexed` follow. NewProject passes the raw url as both uid and url, so that call matches no project and keys the index task by the raw url.
  - `Rollup` is one UpdateLatestAnnotation of the loop. An error ends the loop, and AddAnnotation still returns nil. `Ascend` is `currentFile = path.Dir(currentFile)` with the stop at ".".
  - `IndexSucceed` is the index service finishing a requested commit.
  - `StoreHasRoom` is a bound of the model, not of the code: a NewProject that will insert starts only while an ObjectId is free for it.

### AccountService

- **State.** `accounts` is the accounts collection, a set of documents with an ObjectId of `Ids`. `reply` is the answer of the step just taken: operation, inputs, code and ids.
- **Atomic handlers.** Every handler makes one store call, and mongodb runs each call atomically, so each handler is one action. `DuplicateKey` is the unique indexes setup() creates on name and email. A bcrypt hash is the password itself, and the regular expressions are the sets `ValidNames` and `ValidEmails`.
- **Actions.** `RegisterAccount` is the gateway's check and Register's switch: a bad parameter, a reserved name, else `CreateAccount`, whose duplicate-key error reaches the switch unmapped and answers internal. `Login` is the JWT authenticator over `LoginAccount`. `AccountId`, `AccountInfoByName` and `AccountsBasicInfo` are the reads.

## Runs

| Run | cfg | Expect | What it shows |
|---|---|---|---|
| syncer_safety | MCRepoSyncer.cfg | pass | With a commit key, a repository key (url@""), 2 handlers and one permit, every running sync goroutine holds a permit (`PermitsCoverWorkers`). A blob is never reported synced before its tree is stored (`BlobAfterTree`). The syncer refines the abstract `RepoCache` (`RefinesRepoCache`). It admits one sync per url@commit, and syncs a file only after its tree. The store changes only under an admitted task and only to what git listed, and nothing stored is lost. Every key admitted to `syncer.tasks` eventually leaves it, through failures and shutdown. However the pipe splits git's output into up to 3 writes, the stored tree (`TreeStoredAsListed`), file row (`BlobStoredAsShown`, for a file exactly at the size limit) and named commits (`CommitsStoredAsListed`) are what git listed and spec §3 prescribes. |
| syncer_wedged | MCRepoSyncerWedged.cfg | violation | prepareSync's re-check returns without releasing its permit. Even with one permit the race with finishSync's Release-then-delete window leaks it, and the syncer refuses all work from then on. |
| account_register_taken | MCAccountService.cfg | violation | Registering a taken name or email answers internal, not ErrorNameUsed or ErrorEmailRegistered as spec §8 and `service_test.go` say (`RegisterReportsTaken`): the mongodb store returns the duplicate-key error of its unique index unmapped, and only the mock store maps it. |
| gitclone_safety | MCGitClone.cfg | pass | No more clones run than the clone weight. Every running query holds exactly one permit of its class, and no more queries of a class run than its weight (`QueryPermitsBounded`). Every clone goroutine clones from github.com (`ClonesOnlyFromGithub`), even for a request like `github.com/../evil.com/o/r`: `NormalizeRepoUrl` checks the prefix before `path.Clean` and lets it through as `https://evil.com/o/r`, but the gits handler's second pass rejects it. Every started clone eventually removes its status entry (`ClonesEventuallySettle`). |
| gitclone_busy_leak | MCGitCloneBusyLeak.cfg | violation | A BUSY return leaves the status entry, and the url reports CLONING for ever. |
| index_safety | MCIndexService.cfg | pass | The "should not block" send on reqChan always finds room. No commit is indexed by two goroutines at once. |
| index_tasks_removed | MCIndexServiceLive.cfg | pass | Without IndexStatus calls, every admitted commit leaves `service.tasks`. |
| index_status_wedge | MCIndexServiceWedged.cfg | violation | One IndexStatus call for a commit that is not indexing leaks a read lock. checkResult blocks in Lock, and the admitted commit stays in `tasks` for ever, so the indexer is busy for good. |
| project_safety | MCProjectService.cfg | pass | Once a roll-up has run to ".", every ancestor directory lists the child on the way to the file, whatever other annotators did (`RollupVisible`). Every roll-up entry can be followed down to its file, even when an upsert failed part-way (`LatestChainComplete`). |
| index_file | MCIndexFile.cfg | pass | indexRepository runs over archives with a directory, an oversized file, a binary file, a newline-less file and a long-line file. It meets short reads, zero and stale buffers, stream, store and extractor failures, and a second task. Each tag reported in line order gets its own line and the next line of the buffer the liner scans, and, when the next line exists, the line before (`ContextExactInOrder`). This holds even though the liner forgets the lines it skips and reads one line ahead on every call. |
| index_early_success | MCIndexFileEarlyEnd.cfg | violation | No failure is injected, and the buffer holds zeros. The first file is one tagged line with no trailing newline, so the line runs into the zeros past the scanner's limit. getLine(1) fails, indexRepository breaks and returns nil, and the task counts as succeeded with the second file never indexed. Spec §4.2 marks a task failed on any step failure (`IndexCompleteOnSuccess`). |
| project_duplicate_latest | MCProjectServiceDup.cfg | violation | Two roll-ups reaching a new (pid, parent, sub) key together both insert it. Spec §3 makes that key unique, and GetLatestAnnotations then lists the child twice. |

Twelve more properties are stated and found violated, but have no run of their own:
- `ProjectService!CommitIndexedOnce` (`tlc -config MCProjectServiceRaw.cfg MCProjectService`): spec §3 and §4 key projects and index tasks by the normalised url, so no commit should be indexed twice. A client creates a project with `s1`, an unnormalised spelling of `r1`. NewProject requests indexing of (`s1`, h1) and, with the raw url as uid, never flags the project. The next ProjectInfo therefore requests (`r1`, h1), and the commit is indexed under both.
- `IndexFile!ContextFromFile` (`tlc -config MCIndexFileContext.cfg MCIndexFile`): spec §4.2 gives a tag L(line), L(line+1) and L(line-1) of the file. The liner reads the whole reused buffer, so after a short second read the zeros the read left inside the file's span stop the scanner, and the tag on line 1 of `t\na\nt\n` gets an empty lineAfter instead of `a`.
- `RepoSyncer!DirectoriesInsertedOnce` (`tlc -config MCRepoSyncerDup.cfg MCRepoSyncer`): SetDirectories's guard set is never written, so a stale handler starts a second tree sync and the tree is inserted twice.
- `MCRepoSyncer!ProgressAsSpecified` (`tlc -config MCRepoSyncerProgress.cfg MCRepoSyncer`): for 20 progress lines `1 % \r`..`20 % \r`, spec §4.1.a pushes line 20 whole. A pipe read ending inside line 20 makes progressWriter count the fragment `20` as the 20th line and push it.
- `GitClone!NormalizeIdempotent` (`tlc -config MCGitCloneIdempotent.cfg MCGitClone`): spec §6 says normalising twice gives the same url. `github.com/../evil.com/o/r` normalises to `https://evil.com/o/r`, which a second pass rejects.
- `AccountService!UnknownNameNotFound` (`tlc -config MCAccountServiceNotFound.cfg MCAccountService`): AccountInfoByName answers internal, not NotFound, for a name with no account, because the store returns FindOne's error before the branch that maps it to ErrNoAccount.
- `RepoSyncer!TreeStoredAsListed` and `RepoSyncer!BlobStoredAsShown` (`tlc -config MCRepoSyncerOutput.cfg MCRepoSyncer`, each on its own): a file named "a b.go" is stored as "a", because fileEntryWriter splits at every space. A file with a zero byte among its first 1024 bytes is stored plain when a pipe split puts the zero byte in the second write, because contentWriter scans only the first write.
- `GitClone!TmpOnlyWhileCloning` (`tlc -config MCGitCloneTmpJunk.cfg MCGitClone`): a clone killed at the deadline leaves `_tmp` content that `os.Remove` cannot delete, and every later clone of the url then fails.
- `GitClone!GitRunsInMirrors` (spec §4.1: mirrors live at `<data>/<host-path>`): with `MCGitCloneEscape.cfg`, a clone of `https://github.com/%2e%2e/o` starts in `<data>/../o`, because urlToLocal uses the unescaped path after both normalisations checked the escaped one. With `MCGitCloneArchiveEscape.cfg`, an Archive whose url fails the gits handler's normalisation still runs with url "", and git runs in DataDir itself.
- `GitClone!CloneOnlyUncloned`: prepareClone's stale os.Stat lets a second clone of a mirrored url start.
- `Liner!LineBeforeAsSpecified`: spec §4.2 wants line L-2, a newline and line L-1 as lineBefore for a tag on the last line. The first loop does not keep line L-2. Under MCIndexFile.cfg, TLC finds the tag on line 3 of "a\na\nt" given "a" for "a\na" (and, with the zeros after the file, the line "t0"). An empty line L-2 is also dropped by the `lineBefore != ""` test.
- `IndexService!NoTaskOverSucceeded`: NewIndexTask accepts a new task over a succeeded one, contrary to spec §3. It is reached through the RepositoryIndexed read taken before the lock.

`PROJECT.json` lists them as hazards. Every property of a passing run has a mutant in `PROJECT.json`: an operator defined next to the action it replaces, with a plausible bug (an off-by-one bound, a dropped check, a missing delete) that TLC shows breaks the property.

`MCIndexFile.cfg` and `MCIndexFileEarlyEnd.cfg` disable deadlock checking because a behaviour is the tasks of one commit, and it ends when indexRepository has returned. `MCIndexService.cfg` and `MCIndexServiceWedged.cfg` also disable it. Deadlock there is the real outcome of the leaked read lock: every caller, checkResult and, once the channels fill, every worker blocks for ever. The other runs check deadlock.

## Bounds

Each bound is the smallest that lets the interesting case happen:

- **Syncer.**
  - 2 handlers give two handlers racing on one key, which is the permit leak.
  - In the safety run, k1 is a commit key and k2 the NamedCommits key of a url. A tree or blob sync and a named-commits sync then compete for the one permit.
  - The duplicate-tree cfg uses two commit keys and no repository key.
  - One gits failure covers the error path.
  - The run checks liveness together with safety, so it uses one permit and no symmetry. One permit still makes the busy refusal reachable (a second key while one syncs), and the permit leak of the wedged run.
  - The wedged run uses one key and one permit.
  - Git's outputs are up to 3 writes (`MaxWrites`), enough to split a line and to end a write inside a line. The tree lists a directory and a file in it, and the refs a branch and a tag. The file is 4 cells, which is `MaxSize`, so the size test meets its boundary. `CheckLen` 2 lets the NUL scan cover part of an output.
- **Clone.**
  - Three requests: two github urls and `github.com/../evil.com/o/r`; queries use one github url, which meets both a missing and an existing mirror. The escape cfgs swap in `github.com/%2e%2e/o` for the clone routes, or the evil url for the queries.
  - 2 urls, 2 handlers and 2 goroutine slots with clone weight 1: BUSY needs a second url while one clone runs, and a slot must be free for the off-by-one mutant to show.
  - One failure covers both the git error and the kill at the deadline.
  - Queries use weight 1 for both semaphores, so two handlers saturate either class. The MC lets handlers make blob and archive queries, one per semaphore. Refs and tree queries take otherSem like a blob query and answer ok or Internal, which a blob query also covers.
- **Account.** The names `foo`, `bar`, the reserved `create`, the invalid `9foo` and none; a valid and an invalid email and none; a password of 6 characters and one of 5 (the `passwordMinLen` boundary); 2 ObjectIds, so two accounts can exist and a third register meets a taken name or email.
- **Project.**
  - 2 handlers and two files `a/f`, `a/g` give two roll-ups sharing the key (".", "a"), which is the duplicate insert and the level-by-level interleaving.
  - One owner, one url, one hash and one name (the raw-url cfg adds a second spelling `s1` of the url; the safety run keeps one spelling, because its properties do not look at urls), with 2 ObjectIds, let two NewProject calls race into duplicate projects.
  - One store failure covers both the failed insert and a roll-up broken at any level.
  - The run declares symmetry of handlers and ObjectIds. It checks invariants only.
- **IndexFile.** A 6-cell buffer with a 3-cell token limit keeps maxSize's ratio to the scanner limit small but above one. A line of up to 2 cells scans, so a short stale tail becomes a garbage line, while a longer one, like the zeros after a short file, stops the scanner. The first read takes 2 cells, so it can also return short. The archives hold every header kind the loop filters, and files with tags on lines 1, 2 and 3, as the first, a middle and the last line. They also hold two tagged lines that leave buffer cells to earlier content. Two tasks let a failed task's partial inserts meet the next task's indexed check.
- **Index.**
  - 3 commits with Concurrency 2 make "busy" reachable.
  - 4 indexer goroutines match the code: `Concurrency` indexers each start `Concurrency` goroutines. They are symmetric, and the safety run declares that symmetry.
  - 2 handlers, one url, and one leaked read lock (`MaxLeaked`). Further leaks change nothing, because a read lock is never returned.
  - The liveness runs use Concurrency 1 and one goroutine (again `Concurrency²`), without symmetry.

## Fairness

Weak fairness is on each step of a goroutine that is already running: a sync or clone goroutine, an indexer goroutine, checkResult, and a handler in the middle of a call. The Go scheduler runs every runnable goroutine eventually, and each of these steps stays enabled until taken: gits calls are bounded by context timeouts, and channel operations by the room the properties establish.

No fairness is assumed for new requests. Clients are free not to call.

GitClone assumes fairness only for the clone goroutines. Its liveness property is about them, and the liveness check over the full state space stays within the time budget without the handlers' fairness.

## Not modelled

Not modelled, and why:
- **Data races.** The unlocked map writes in `clone`'s progress updater and error path, and finishSync's unlocked read, are data races that abort a Go process. They are not values a model with atomic steps can show. They are listed as hazards.
- **The indexer's shared buffer and the extractor's pipe.** All goroutines of one indexer write `indexer.buffer`. That is a data race, and IndexFile runs one goroutine. A commander whose Scanner failed never drains the extractor's output again, and the resulting pipe deadlock is not modelled. Entries carry only their line number, so the `scope` inherited through the reused `entry` (commander.go:128) is a hazard without a property.
- **Directory rows in Blob.** SetDirectories inserts a row for directories and submodules too. Blob on such a path schedules doSyncBlob, gits answers errorFileNotFound, nothing is stored, and the client is told IN_SYNC for ever. The model follows one regular file row per commit; this is a hazard without a run.
- **Url details.** Query strings, fragments, user info and ports in urls; urls of one path segment, which urlToLocal accepts (their parents are `MkdirAll`'s, which the model does not track).
- **Out of TLC's reach or pure I/O.** syntect and configuration; gin-jwt's token signing and claims (the model keeps only the id a login yields); the account mock store used by the tests. The gateway handlers are single RPC forwards; only the path trimming of addAnnotation matters to the model.
- **ProjectSvc read queries.** ListProjects, GetAnnotations and GetAnnotationLines read the collections; GetLatestAnnotations is modelled. Their data (line numbers, texts, account names) is abstracted away.
- **Project name uniqueness.** Spec §3 keys projects by (ownerUid, url, name). The store's upsert is keyed by (uid, url, hash), so two hashes under one name are two projects even sequentially, and a rejected NewProject has already renamed the existing project (`$set` runs before `ErrProjectExist`).

Found while reading the code, and not checked because no run is needed to see them:
- NamedCommits compares the syncer's errors with `ErrRepositoryNotFound`/`ErrInSync` while syncRepository returns `errorRepoNotFound`/`errorInSync`. These reach the client as 500s.
- The gits query handlers (`gits/service/service.go` 66-74 and alike) turn errorGitBusy and errorFileNotFound into internal errors. Spec §4.1 has refs, tree, blob and archive answer BUSY and NOT_FOUND. `QueryRun` and `Query` give those answers as `internal`.
- NewProject calls `requestForIndexing(ctx, req.Url, req.Url, req.Hash)`, passing the raw url as the uid. The index task is then keyed by the raw url, so a later ProjectInfo, which sends the normalised url, is answered 'indexing' while that task runs, and the commit is indexed a second time once it ends. `CommitIndexedOnce` states this and is found violated (above).
- With mongo-driver versions whose `SingleResult.Err` reports `ErrNoDocuments`, `RepositoryIndexed` returns an error for every commit never indexed. The model follows the code's evident intent (absent means not indexed).

## Plan

1. **Indexer pipeline.** Two goroutines on one buffer, with the extractor as a process whose pipes fill, to show the hang after a failed Scanner. Entry fields (scope) to show the inherited scope.
2. **Clone progress.** The progress string in GitClone's status, composed with `ProgressWriterWrite`.
3. **ProjectSvc.** requestForIndexing composed with the IndexService admission, in place of the abstract `requested`/`indexed`.
4. **Composition.** The syncer composed with GitClone's status answers. (The abstract cache spec `RepoCache` and the syncer's refinement of it are done.)
