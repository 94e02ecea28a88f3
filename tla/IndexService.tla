---------------------------- MODULE IndexService ----------------------------
(***************************************************************************)
(* The index service's admission and result pipeline                      *)
(* (index/service/service.go, the worker loop of index/service/indexer.go) *)
(* with the task collection of index/store/mongodb/store.go.               *)
(*                                                                         *)
(* IndexRepository is split at its lock boundaries: the RepositoryIndexed  *)
(* read, the admission under mu.Lock, NewIndexTask, and the send on        *)
(* reqChan (or, on a NewIndexTask error, the delete under mu.Lock).  The   *)
(* indexing of one archive is a single worker step whose outcome is free;  *)
(* its file-level behaviour is out of this module's scope.                 *)
(*                                                                         *)
(* sync.RWMutex is modelled by the readers it holds and the writers        *)
(* blocked in Lock.  Every critical section except IndexStatus's is one    *)
(* step, so only read locks that are never released outlive a step.  As   *)
(* in Go, a pending Lock blocks new RLock calls.                           *)
(***************************************************************************)
EXTENDS Naturals, FiniteSets, Sequences

CONSTANTS
    Urls,         \* repository urls
    Hashes,       \* commit hashes
    Callers,      \* RPC handler goroutines serving IndexRepository
    Workers,      \* indexer.start goroutines (Concurrency per indexer)
    Concurrency,  \* config.Concurrency: map bound and channel capacities
    MaxLeaked,    \* bound on read locks IndexStatus leaves held
    NoUrl         \* the value of a hash absent from service.tasks

ASSUME Concurrency \in Nat \ {0} /\ MaxLeaked \in Nat /\ NoUrl \notin Urls

VARIABLES
    tasks,    \* service.tasks, hash -> url, NoUrl where absent
    readers,  \* read locks of service.mu that are held
    reqChan,  \* service.reqChan
    resChan,  \* service.resChan
    worker,   \* each indexer goroutine: idle, indexing or sending its result
    checker,  \* the checkResult goroutine
    caller,   \* program counter and arguments of each IndexRepository call
    doc       \* task collection: (url, hash) -> absent, created or success

vars == <<tasks, readers, reqChan, resChan, worker, checker, caller, doc>>

Requests == [url : Urls, hash : Hashes]
Results == [url : Urls, hash : Hashes, success : BOOLEAN]
DocStates == {"absent", "created", "success"}
CallerPCs == {"idle", "lock", "wait", "newtask", "send"}

TypeOK ==
    /\ tasks \in [Hashes -> Urls \cup {NoUrl}]
    /\ readers \in 0..MaxLeaked
    /\ reqChan \in Seq(Requests) /\ Len(reqChan) <= Concurrency
    /\ resChan \in Seq(Results) /\ Len(resChan) <= Concurrency
    /\ worker \in [Workers -> [pc : {"idle", "run", "report"},
                               url : Urls, hash : Hashes, success : BOOLEAN]]
    /\ checker \in [pc : {"recv", "lock", "wait"}, hash : Hashes, success : BOOLEAN]
    /\ caller \in [Callers -> [pc : CallerPCs, op : {"admit", "undo"},
                               url : Urls, hash : Hashes]]
    /\ doc \in [Urls \X Hashes -> DocStates]

AnyUrl == CHOOSE u \in Urls : TRUE
AnyHash == CHOOSE h \in Hashes : TRUE

IdleWorker == [pc |-> "idle", url |-> AnyUrl, hash |-> AnyHash, success |-> FALSE]
IdleCaller == [pc |-> "idle", op |-> "admit", url |-> AnyUrl, hash |-> AnyHash]

\* NewIndexService: empty map and channels, checkResult waiting on resChan.
Init ==
    /\ tasks = [h \in Hashes |-> NoUrl]
    /\ readers = 0
    /\ reqChan = <<>>
    /\ resChan = <<>>
    /\ worker = [w \in Workers |-> IdleWorker]
    /\ checker = [pc |-> "recv", hash |-> AnyHash, success |-> FALSE]
    /\ caller = [c \in Callers |-> IdleCaller]
    /\ doc = [r \in Urls \X Hashes |-> "absent"]

InFlight == {h \in Hashes : tasks[h] # NoUrl}

\* A goroutine blocked in mu.Lock; Go then blocks every new RLock.
WriterWaiting == checker.pc = "wait" \/ \E c \in Callers : caller[c].pc = "wait"

\* store.RepositoryIndexed: the success flag of the task document.
RepositoryIndexed(u, h) == doc[<<u, h>>] = "success"

\* The call returns; its answer (indexed, noop, busy, error, ok) is not kept.
Return(c, r) == caller' = [caller EXCEPT ![c] = IdleCaller]

(***************************************************************************)
(* IndexRepository                                                         *)
(***************************************************************************)

\* The RepositoryIndexed check before the lock.
IndexRepository(c, u, h) ==
    /\ caller[c].pc = "idle"
    /\ IF RepositoryIndexed(u, h)
          THEN Return(c, "indexed")
          ELSE caller' = [caller EXCEPT ![c] = [pc |-> "lock", op |-> "admit",
                                                url |-> u, hash |-> h]]
    /\ UNCHANGED <<tasks, readers, reqChan, resChan, worker, checker, doc>>

\* mu.Lock finds read locks held and blocks.
LockBlocked(c) ==
    /\ caller[c].pc = "lock"
    /\ readers > 0
    /\ caller' = [caller EXCEPT ![c].pc = "wait"]
    /\ UNCHANGED <<tasks, readers, reqChan, resChan, worker, checker, doc>>

\* Admission variants used as mutants: the bound tested with > instead of
\* >=, and the in-flight check dropped.
AdmitOffByOne(c) ==
    LET h == caller[c].hash IN
    /\ caller[c].pc \in {"lock", "wait"}
    /\ caller[c].op = "admit"
    /\ readers = 0
    /\ CASE tasks[h] # NoUrl ->
                Return(c, "noop") /\ UNCHANGED tasks
         [] Cardinality(InFlight) > Concurrency ->
                Return(c, "busy") /\ UNCHANGED tasks
         [] OTHER ->
                /\ tasks' = [tasks EXCEPT ![h] = caller[c].url]
                /\ caller' = [caller EXCEPT ![c].pc = "newtask"]
    /\ UNCHANGED <<readers, reqChan, resChan, worker, checker, doc>>

AdmitWithoutInflightCheck(c) ==
    LET h == caller[c].hash IN
    /\ caller[c].pc \in {"lock", "wait"}
    /\ caller[c].op = "admit"
    /\ readers = 0
    /\ IF Cardinality(InFlight) >= Concurrency
          THEN Return(c, "busy") /\ UNCHANGED tasks
          ELSE /\ tasks' = [tasks EXCEPT ![h] = caller[c].url]
               /\ caller' = [caller EXCEPT ![c].pc = "newtask"]
    /\ UNCHANGED <<readers, reqChan, resChan, worker, checker, doc>>

\* The admission under mu.Lock: noop when the hash is in flight, busy at
\* the bound, otherwise record hash -> url.
Admit(c) ==
    LET h == caller[c].hash IN
    /\ caller[c].pc \in {"lock", "wait"}
    /\ caller[c].op = "admit"
    /\ readers = 0
    /\ CASE tasks[h] # NoUrl ->
                Return(c, "noop") /\ UNCHANGED tasks
         [] Cardinality(InFlight) >= Concurrency ->
                Return(c, "busy") /\ UNCHANGED tasks
         [] OTHER ->
                /\ tasks' = [tasks EXCEPT ![h] = caller[c].url]
                /\ caller' = [caller EXCEPT ![c].pc = "newtask"]
    /\ UNCHANGED <<readers, reqChan, resChan, worker, checker, doc>>

\* store.NewIndexTask: an upsert setting createdAt to the current second.
\* A new document is inserted; an existing one is modified unless it was
\* written in the same second, which yields ErrIndexTaskExist.
NewIndexTask(c) ==
    LET r == <<caller[c].url, caller[c].hash>> IN
    /\ caller[c].pc = "newtask"
    /\ \/ /\ doc[r] = "absent"
          /\ doc' = [doc EXCEPT ![r] = "created"]
          /\ caller' = [caller EXCEPT ![c].pc = "send"]
       \/ /\ doc[r] # "absent"
          /\ caller' = [caller EXCEPT ![c].pc = "send"]
          /\ UNCHANGED doc
       \/ /\ doc[r] # "absent"
          /\ caller' = [caller EXCEPT ![c].pc = "lock", ![c].op = "undo"]
          /\ UNCHANGED doc
    /\ UNCHANGED <<tasks, readers, reqChan, resChan, worker, checker>>

\* On a NewIndexTask error: delete the hash under mu.Lock, return the error.
Undo(c) ==
    /\ caller[c].pc \in {"lock", "wait"}
    /\ caller[c].op = "undo"
    /\ readers = 0
    /\ tasks' = [tasks EXCEPT ![caller[c].hash] = NoUrl]
    /\ Return(c, "error")
    /\ UNCHANGED <<readers, reqChan, resChan, worker, checker, doc>>

\* service.reqChan <- request ("should not block here").
Send(c) ==
    /\ caller[c].pc = "send"
    /\ Len(reqChan) < Concurrency
    /\ reqChan' = Append(reqChan, [url |-> caller[c].url, hash |-> caller[c].hash])
    /\ Return(c, "ok")
    /\ UNCHANGED <<tasks, readers, resChan, worker, checker, doc>>

\* Variant: no RUnlock on any path.
IndexStatusWithoutRUnlock(u, h) ==
    /\ ~WriterWaiting
    /\ readers' = readers + 1
    /\ UNCHANGED <<tasks, reqChan, resChan, worker, checker, caller, doc>>

(***************************************************************************)
(* IndexStatus: RLock, then RUnlock only when the hash is indexing for     *)
(* this url; otherwise the store is read with the read lock still held     *)
(* and it is never released.  The call is one step per outcome.            *)
(***************************************************************************)
IndexStatus(u, h) ==
    /\ ~WriterWaiting
    /\ \/ /\ tasks[h] = u
          /\ UNCHANGED readers
       \/ /\ tasks[h] # u
          /\ readers < MaxLeaked
          /\ readers' = readers + 1
    /\ UNCHANGED <<tasks, reqChan, resChan, worker, checker, caller, doc>>

(***************************************************************************)
(* indexer.start                                                           *)
(***************************************************************************)

Receive(w) ==
    /\ worker[w].pc = "idle"
    /\ reqChan # <<>>
    /\ worker' = [worker EXCEPT ![w] = [pc |-> "run", url |-> Head(reqChan).url,
                                        hash |-> Head(reqChan).hash, success |-> FALSE]]
    /\ reqChan' = Tail(reqChan)
    /\ UNCHANGED <<tasks, readers, resChan, checker, caller, doc>>

\* indexRepository under its timeout, then SetTaskState, which writes
\* success = true and does nothing on failure.
IndexDone(w) ==
    LET r == <<worker[w].url, worker[w].hash>> IN
    /\ worker[w].pc = "run"
    /\ \E ok \in BOOLEAN :
          /\ worker' = [worker EXCEPT ![w].pc = "report", ![w].success = ok]
          /\ doc' = IF ok /\ doc[r] # "absent"
                       THEN [doc EXCEPT ![r] = "success"] ELSE doc
    /\ UNCHANGED <<tasks, readers, reqChan, resChan, checker, caller>>

Report(w) ==
    /\ worker[w].pc = "report"
    /\ Len(resChan) < Concurrency
    /\ resChan' = Append(resChan, [url |-> worker[w].url, hash |-> worker[w].hash,
                                   success |-> worker[w].success])
    /\ worker' = [worker EXCEPT ![w] = IdleWorker]
    /\ UNCHANGED <<tasks, readers, reqChan, checker, caller, doc>>

(***************************************************************************)
(* checkResult                                                             *)
(***************************************************************************)

CheckResultRecv ==
    /\ checker.pc = "recv"
    /\ resChan # <<>>
    /\ checker' = [pc |-> "lock", hash |-> Head(resChan).hash,
                   success |-> Head(resChan).success]
    /\ resChan' = Tail(resChan)
    /\ UNCHANGED <<tasks, readers, reqChan, worker, caller, doc>>

CheckResultBlocked ==
    /\ checker.pc = "lock"
    /\ readers > 0
    /\ checker' = [checker EXCEPT !.pc = "wait"]
    /\ UNCHANGED <<tasks, readers, reqChan, resChan, worker, caller, doc>>

\* Variant used as a mutant: the entry is only cleared for a success.
CheckResultDeleteOnSuccess ==
    /\ checker.pc \in {"lock", "wait"}
    /\ readers = 0
    /\ tasks' = IF checker.success THEN [tasks EXCEPT ![checker.hash] = NoUrl]
                ELSE tasks
    /\ checker' = [checker EXCEPT !.pc = "recv"]
    /\ UNCHANGED <<readers, reqChan, resChan, worker, caller, doc>>

CheckResultDelete ==
    /\ checker.pc \in {"lock", "wait"}
    /\ readers = 0
    /\ tasks' = [tasks EXCEPT ![checker.hash] = NoUrl]
    /\ checker' = [checker EXCEPT !.pc = "recv"]
    /\ UNCHANGED <<readers, reqChan, resChan, worker, caller, doc>>

CallerStep(c) ==
    LockBlocked(c) \/ Admit(c) \/ NewIndexTask(c) \/ Undo(c) \/ Send(c)

WorkerStep(w) == Receive(w) \/ IndexDone(w) \/ Report(w)

CheckerStep == CheckResultRecv \/ CheckResultBlocked \/ CheckResultDelete

\* Everything but IndexStatus.
RepositoryNext ==
    \/ \E c \in Callers, u \in Urls, h \in Hashes : IndexRepository(c, u, h)
    \/ \E c \in Callers : CallerStep(c)
    \/ \E w \in Workers : WorkerStep(w)
    \/ CheckerStep

Next ==
    \/ RepositoryNext
    \/ \E u \in Urls, h \in Hashes : IndexStatus(u, h)

\* A started call, a busy goroutine and checkResult keep running; new RPCs
\* are never forced.
Fairness ==
    /\ \A c \in Callers : WF_vars(CallerStep(c))
    /\ \A w \in Workers : WF_vars(WorkerStep(w))
    /\ WF_vars(CheckerStep)

Spec == Init /\ [][Next]_vars /\ Fairness

\* A deployment whose clients never call IndexStatus.
RepositorySpec == Init /\ [][RepositoryNext]_vars /\ Fairness

-----------------------------------------------------------------------------

\* The send on reqChan in IndexRepository "should not block here": the
\* admission bound on service.tasks, the entry kept until checkResult has
\* taken the result, and channels of capacity Concurrency leave room for
\* every admitted request, whatever the workers are doing.
ReqSendNeverBlocks ==
    \A c \in Callers : caller[c].pc = "send" => Len(reqChan) < Concurrency

\* No two indexer goroutines work on the same commit at once: the hash
\* stays in service.tasks from admission until checkResult has received
\* the result of its worker.
OneWorkerPerHash ==
    \A w1, w2 \in Workers :
        /\ w1 # w2
        /\ worker[w1].pc # "idle"
        /\ worker[w2].pc # "idle"
        => worker[w1].hash # worker[w2].hash

\* Every admitted hash eventually leaves service.tasks, so that the bound
\* does not turn into a permanent "indexer busy".
TasksEventuallyRemoved ==
    \A h \in Hashes : tasks[h] # NoUrl ~> tasks[h] = NoUrl

\* The task collection rejects a new task for (url, hash) while a
\* non-expired task exists, and a task that succeeded never expires
\* (spec 3, IndexTask; 4.2 Admission).  Checked on NewIndexTask's success.
NoTaskOverSucceeded ==
    [][\A c \in Callers :
         (caller[c].pc = "newtask" /\ caller'[c].pc = "send")
            => doc[<<caller[c].url, caller[c].hash>>] # "success"]_vars

====
