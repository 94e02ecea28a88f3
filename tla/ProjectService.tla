--------------------------- MODULE ProjectService ---------------------------
(***************************************************************************)
(* The project service (project/service/service.go) with its mongodb       *)
(* store (project/store/mongodb/store.go): projects, annotations and the   *)
(* "latest annotation per ancestor directory" roll-up, and the index       *)
(* requests it fires.                                                      *)
(*                                                                         *)
(* No collection of this store has a unique index, so an upsert is a       *)
(* query followed, when nothing matched, by an insert that another upsert  *)
(* may precede: NewProject and UpdateLatestAnnotation are split there.     *)
(* A file path is a sequence of names; path.Dir drops the last name (the   *)
(* empty sequence is ".") and path.Base is the last name.  The index       *)
(* service is abstracted to the commits it was asked for and the commits   *)
(* it has finished; IndexService models it in detail.                      *)
(***************************************************************************)
EXTENDS Naturals, Sequences, FiniteSets, Bags

CONSTANTS
    Users,        \* account ids
    Urls,         \* normalized repository urls
    RawUrls,      \* the urls clients send that NormalizeRepoUrl accepts
    RepoUrlOf,    \* NormalizeRepoUrl's result for each of them
    Hashes,       \* commit hashes
    Names,        \* project names
    Files,        \* annotated files, as sequences of path names
    Pids,         \* project ObjectIds, one per document the store can hold
    Callers,      \* RPC handler goroutines
    MaxFailures,  \* bound on store writes that fail
    NoDoc         \* an ObjectId with no document

ASSUME NoDoc \notin Pids /\ Users \cap RawUrls = {} /\ MaxFailures \in Nat
\* A client may also send the normalised form, which normalises to itself.
ASSUME RepoUrlOf \in [RawUrls -> Urls] /\ \A u \in Urls : u \in RawUrls /\ RepoUrlOf[u] = u

VARIABLES
    project,      \* projects collection: ObjectId -> document or NoDoc
    annotation,   \* annotations collection (insert only)
    latest,       \* latest_annotations collection, a bag: duplicates count
    requested,    \* (url, hash) pairs sent to IndexRepository
    indexed,      \* (url, hash) pairs whose index task has succeeded
    caller,       \* program counter and arguments of each handler
    rolledUp,     \* (pid, file) whose AddAnnotation ran the whole roll-up
    failures      \* store writes that have failed

vars == <<project, annotation, latest, requested, indexed, caller, rolledUp,
          failures>>

Projects == [uid : Users, url : Urls, hash : Hashes, name : Names, indexed : BOOLEAN]
Dirs == UNION {{SubSeq(f, 1, k) : k \in 0..Len(f) - 1} : f \in Files}
LatestDocs == [pid : Pids, parent : Dirs, sub : UNION {{f[i] : i \in DOMAIN f} : f \in Files},
               file : Files]
CallerPCs == {"idle", "npInsert", "npIndex", "piIndex", "rollup", "rollupInsert"}

\* The (parent, sub) keys AddAnnotation's loop writes for file f: level k is
\* the k-th name under the directory made of the names before it.
Parent(f, k) == SubSeq(f, 1, k - 1)

TypeOK ==
    /\ project \in [Pids -> Projects \cup {NoDoc}]
    /\ annotation \subseteq [pid : Pids, uid : Users, file : Files]
    /\ IsABag(latest) /\ BagToSet(latest) \subseteq LatestDocs
    /\ requested \subseteq RawUrls \X Hashes
    /\ indexed \subseteq requested
    /\ \A c \in Callers :
          /\ caller[c].pc \in CallerPCs
          /\ caller[c].pc \in {"rollup", "rollupInsert"} =>
                caller[c].level \in 1..Len(caller[c].file)
    /\ rolledUp \subseteq Pids \X Files
    /\ failures \in 0..MaxFailures

Idle == [pc |-> "idle"]

Init ==
    /\ project = [p \in Pids |-> NoDoc]
    /\ annotation = {}
    /\ latest = EmptyBag
    /\ requested = {}
    /\ indexed = {}
    /\ caller = [c \in Callers |-> Idle]
    /\ rolledUp = {}
    /\ failures = 0

Return(c) == caller' = [caller EXCEPT ![c] = Idle]

\* The documents a filter on (uid, url, hash) matches.
Matching(uid, u, h) ==
    {p \in Pids : project[p] # NoDoc /\ project[p].uid = uid
                  /\ project[p].url = u /\ project[p].hash = h}

\* store.GetProjectInfo: FindOne on (uid, url, name); with several matches
\* any of them may come back.
GetProjectInfo(uid, u, n) ==
    {p \in Pids : project[p] # NoDoc /\ project[p].uid = uid
                  /\ project[p].url = u /\ project[p].name = n}

\* store.ProjectExists: CountDocuments on the ObjectId.
ProjectExists(pid) == project[pid] # NoDoc

\* store.GetLatestAnnotations: a Find on (pid, parent), every roll-up
\* document of a directory, duplicates included.
GetLatestAnnotations(pid, parent) ==
    {d \in BagToSet(latest) : d.pid = pid /\ d.parent = parent}

\* projectService.GetLatestAnnotations: the store's documents copied into
\* the answer's (sub, file) entries; a store error fails the call.
LatestAnnotationsAnswer(pid, parent) ==
    {[sub |-> d.sub, file |-> d.file] : d \in GetLatestAnnotations(pid, parent)}

\* store.SetProjectIndexed: UpdateOne $set indexed on one document matching
\* (uid, url, hash); no document changes when none matches.
SetProjectIndexed(uid, u, h) ==
    IF Matching(uid, u, h) = {}
       THEN UNCHANGED project
       ELSE \E p \in Matching(uid, u, h) :
               project' = [project EXCEPT ![p].indexed = TRUE]

\* Bound of the model: a NewProject that will insert starts only while every
\* pending insert can still be given an ObjectId of Pids.
StoreHasRoom ==
    Cardinality({p \in Pids : project[p] = NoDoc})
        > Cardinality({c \in Callers : caller[c].pc = "npInsert"})

(***************************************************************************)
(* NewProject                                                              *)
(***************************************************************************)

\* NormalizeRepoUrl of the request's url, then store.NewProject's upsert on
\* (uid, url, hash): a match gets $set name and the call fails with
\* ErrProjectExist; otherwise the insert follows.  The handler keeps the
\* raw url it was sent.
NewProject(c, uid, r, h, n) ==
    LET u == RepoUrlOf[r] IN
    /\ caller[c].pc = "idle"
    /\ IF Matching(uid, u, h) # {}
          THEN /\ \E p \in Matching(uid, u, h) :
                     project' = [project EXCEPT ![p].name = n]
               /\ Return(c)
          ELSE /\ StoreHasRoom
               /\ caller' = [caller EXCEPT ![c] = [pc |-> "npInsert", uid |-> uid, raw |-> r,
                                                   url |-> u, hash |-> h, name |-> n]]
               /\ UNCHANGED project
    /\ UNCHANGED <<annotation, latest, requested, indexed, rolledUp, failures>>

\* The upsert's insert, with $setOnInsert indexed = false.
NewProjectInsert(c) ==
    LET a == caller[c] IN
    /\ a.pc = "npInsert"
    /\ \E p \in Pids :
          /\ project[p] = NoDoc
          /\ project' = [project EXCEPT ![p] = [uid |-> a.uid, url |-> a.url,
                                  hash |-> a.hash, name |-> a.name, indexed |-> FALSE]]
    /\ caller' = [caller EXCEPT ![c].pc = "npIndex"]
    /\ UNCHANGED <<annotation, latest, requested, indexed, rolledUp, failures>>

\* requestForIndexing(uid, url, hash): IndexRepository answers Indexed when
\* the commit's index task has succeeded, and only then is SetProjectIndexed
\* called.  An RPC error may or may not have reached the index service; the
\* log line then dereferences the nil response and the handler goes no
\* further.
RequestForIndexing(uid, u, h) ==
    \/ /\ requested' \in {requested, requested \cup {<<u, h>>}}
       /\ UNCHANGED project
    \/ /\ requested' = requested \cup {<<u, h>>}
       /\ IF <<u, h>> \in indexed THEN SetProjectIndexed(uid, u, h)
                                  ELSE UNCHANGED project

\* NewProject calls requestForIndexing(ctx, req.Url, req.Url, req.Hash): the
\* raw url is passed as the uid, so SetProjectIndexed matches no project,
\* and as the url, so the index task is keyed by the raw url.
NewProjectIndex(c) ==
    LET a == caller[c] IN
    /\ a.pc = "npIndex"
    /\ RequestForIndexing(a.raw, a.raw, a.hash)
    /\ Return(c)
    /\ UNCHANGED <<annotation, latest, indexed, rolledUp, failures>>

(***************************************************************************)
(* ProjectInfo                                                             *)
(***************************************************************************)

\* GetProjectInfo by (ownerUid, url, name); a project not yet indexed has
\* its commit requested for indexing before the answer.
ProjectInfo(c, owner, r, n) ==
    LET u == RepoUrlOf[r] IN
    /\ caller[c].pc = "idle"
    /\ \/ GetProjectInfo(owner, u, n) = {} /\ Return(c)
       \/ \E p \in GetProjectInfo(owner, u, n) :
             IF project[p].indexed
                THEN Return(c)
                ELSE caller' = [caller EXCEPT ![c] = [pc |-> "piIndex", uid |-> owner,
                                                     url |-> u, hash |-> project[p].hash]]
    /\ UNCHANGED <<project, annotation, latest, requested, indexed, rolledUp, failures>>

ProjectInfoIndex(c) ==
    LET a == caller[c] IN
    /\ a.pc = "piIndex"
    /\ RequestForIndexing(a.uid, a.url, a.hash)
    /\ Return(c)
    /\ UNCHANGED <<annotation, latest, indexed, rolledUp, failures>>

\* The index service finishes a requested commit (SetTaskState success).
IndexSucceed(u, h) ==
    /\ <<u, h>> \in requested \ indexed
    /\ indexed' = indexed \cup {<<u, h>>}
    /\ UNCHANGED <<project, annotation, latest, requested, caller, rolledUp, failures>>

(***************************************************************************)
(* AddAnnotation                                                           *)
(***************************************************************************)

\* The store's AddAnnotation: one InsertOne into annotations.
InsertAnnotation(pid, uid, f) ==
    annotation' = annotation \cup {[pid |-> pid, uid |-> uid, file |-> f]}

\* ProjectExists, then store.AddAnnotation's InsertOne (which may fail and
\* end the call), then the roll-up loop from currentFile = req.File.
AddAnnotation(c, pid, uid, f) ==
    /\ caller[c].pc = "idle"
    /\ \/ /\ ~ProjectExists(pid)
          /\ Return(c)
          /\ UNCHANGED <<annotation, failures>>
       \/ /\ ProjectExists(pid)
          /\ failures < MaxFailures
          /\ failures' = failures + 1
          /\ Return(c)
          /\ UNCHANGED annotation
       \/ /\ ProjectExists(pid)
          /\ InsertAnnotation(pid, uid, f)
          /\ caller' = [caller EXCEPT ![c] = [pc |-> "rollup", pid |-> pid,
                                              file |-> f, level |-> Len(f)]]
          /\ UNCHANGED failures
    /\ UNCHANGED <<project, latest, requested, indexed, rolledUp>>

\* The roll-up key of the caller's current level: (pid, path.Dir(current),
\* path.Base(current)).
SameKey(d, a) ==
    d.pid = a.pid /\ d.parent = Parent(a.file, a.level) /\ d.sub = a.file[a.level]

\* Mutant: the loop has no stop at "." and climbs past the root.
AscendWithoutRootStop(c) ==
    /\ caller' = [caller EXCEPT ![c].pc = "rollup", ![c].level = caller[c].level - 1]
    /\ UNCHANGED rolledUp

\* Mutant: the loop tests path.Dir(currentFile) != "." and skips the root.
AscendOneLevelEarly(c) ==
    LET a == caller[c] IN
    IF a.level <= 2
       THEN /\ rolledUp' = rolledUp \cup {<<a.pid, a.file>>}
            /\ Return(c)
       ELSE /\ caller' = [caller EXCEPT ![c].pc = "rollup", ![c].level = a.level - 1]
            /\ UNCHANGED rolledUp

\* currentFile = path.Dir(currentFile): the loop ends when it reaches ".".
Ascend(c) ==
    LET a == caller[c] IN
    IF a.level = 1
       THEN /\ rolledUp' = rolledUp \cup {<<a.pid, a.file>>}
            /\ Return(c)
       ELSE /\ caller' = [caller EXCEPT ![c].pc = "rollup", ![c].level = a.level - 1]
            /\ UNCHANGED rolledUp

\* Mutant: an upsert error is skipped (`continue`) instead of ending the loop.
RollupContinueOnError(c) ==
    LET a == caller[c] IN
    /\ a.pc = "rollup"
    /\ \/ /\ failures < MaxFailures
          /\ failures' = failures + 1
          /\ Ascend(c)
          /\ UNCHANGED latest
       \/ \E d \in BagToSet(latest) :
             /\ SameKey(d, a)
             /\ latest' = (latest (-) SetToBag({d})) (+) SetToBag({[d EXCEPT !.file = a.file]})
             /\ Ascend(c)
             /\ UNCHANGED failures
       \/ /\ ~\E d \in BagToSet(latest) : SameKey(d, a)
          /\ caller' = [caller EXCEPT ![c].pc = "rollupInsert"]
          /\ UNCHANGED <<latest, rolledUp, failures>>
    /\ UNCHANGED <<project, annotation, requested, indexed>>

\* UpdateLatestAnnotation's upsert on (pid, parent, sub): an error breaks
\* the loop (AddAnnotation still returns nil); a match gets $set file; no
\* match leads to the insert.
Rollup(c) ==
    LET a == caller[c] IN
    /\ a.pc = "rollup"
    /\ \/ /\ failures < MaxFailures
          /\ failures' = failures + 1
          /\ Return(c)
          /\ UNCHANGED <<latest, rolledUp>>
       \/ \E d \in BagToSet(latest) :
             /\ SameKey(d, a)
             /\ latest' = (latest (-) SetToBag({d})) (+) SetToBag({[d EXCEPT !.file = a.file]})
             /\ Ascend(c)
             /\ UNCHANGED failures
       \/ /\ ~\E d \in BagToSet(latest) : SameKey(d, a)
          /\ caller' = [caller EXCEPT ![c].pc = "rollupInsert"]
          /\ UNCHANGED <<latest, rolledUp, failures>>
    /\ UNCHANGED <<project, annotation, requested, indexed>>

\* The upsert's insert; an upsert of the same key may have inserted since.
RollupInsert(c) ==
    LET a == caller[c] IN
    /\ a.pc = "rollupInsert"
    /\ latest' = latest (+) SetToBag({[pid |-> a.pid, parent |-> Parent(a.file, a.level),
                                        sub |-> a.file[a.level], file |-> a.file]})
    /\ Ascend(c)
    /\ UNCHANGED <<project, annotation, requested, indexed, failures>>

CallerStep(c) ==
    \/ NewProjectInsert(c) \/ NewProjectIndex(c) \/ ProjectInfoIndex(c)
    \/ Rollup(c) \/ RollupInsert(c)

Next ==
    \/ \E c \in Callers :
          \/ \E uid \in Users, r \in RawUrls, h \in Hashes, n \in Names :
                NewProject(c, uid, r, h, n)
          \/ \E owner \in Users, r \in RawUrls, n \in Names : ProjectInfo(c, owner, r, n)
          \/ \E pid \in Pids, uid \in Users, f \in Files : AddAnnotation(c, pid, uid, f)
          \/ CallerStep(c)
    \/ \E u \in RawUrls, h \in Hashes : IndexSucceed(u, h)

\* A handler that has started runs to its end: each of its store and RPC
\* calls returns (the mongo driver and go-micro client time out).
Spec == Init /\ [][Next]_vars /\ \A c \in Callers : WF_vars(CallerStep(c))

-----------------------------------------------------------------------------

\* Once AddAnnotation has run its whole roll-up for file f, listing any
\* ancestor directory of f (GetLatestAnnotations) shows the child on the way
\* to f, whatever other annotators did meanwhile.
RollupVisible ==
    \A <<pid, f>> \in rolledUp :
        \A k \in 1..Len(f) :
            \E d \in LatestAnnotationsAnswer(pid, Parent(f, k)) : d.sub = f[k]

\* The roll-up climbs bottom-up and stops at the first failed upsert, so a
\* directory entry naming file f always has entries below it on the way to
\* f: the directory view can be followed down to the annotated file.
LatestChainComplete ==
    \A d \in BagToSet(latest) :
        \A j \in Len(d.parent) + 2..Len(d.file) :
            \E e \in LatestAnnotationsAnswer(d.pid, Parent(d.file, j)) : e.sub = d.file[j]

\* Spec section 3: (pid, parent, sub) is the uniqueness key of
\* latest_annotations.  Concurrent UpdateLatestAnnotation upserts on a new
\* key both insert, since the collection has no unique index.
UniqueLatest ==
    \A d \in BagToSet(latest) :
        /\ CopiesIn(d, latest) = 1
        /\ \A e \in BagToSet(latest) :
              e.pid = d.pid /\ e.parent = d.parent /\ e.sub = d.sub => e = d


\* Spec 3 and 4: projects and index tasks are keyed by the normalised url,
\* and ProjectInfo re-requests only a commit whose project is not flagged.
\* So no commit is indexed twice.  NewProject sends the raw url it was
\* given, and its uid mismatch leaves the project unflagged, so the next
\* ProjectInfo requests the same commit under the normalised url.
CommitIndexedOnce ==
    \A x, y \in indexed : x[2] = y[2] /\ RepoUrlOf[x[1]] = RepoUrlOf[y[1]] => x = y

====
