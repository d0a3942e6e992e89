---------------------------- MODULE Invalidation ----------------------------
(***************************************************************************)
(* The asynchronous invalidation pipeline of cf-local, from the HTTP       *)
(* handler to the removal of nginx cache files:                            *)
(*                                                                         *)
(*   internal/api/invalidation/aws_handler.go   Create / Get / List        *)
(*   internal/api/invalidation/bolt.go          write-through BoltStore    *)
(*   internal/invalidation/worker.go            bounded queue, one worker  *)
(*   internal/invalidation/cache.go             walk and os.Remove         *)
(*   cmd/cf-local/main.go                       startup, recovery, signals *)
(*                                                                         *)
(* A record is its status (on disk and in the in-memory index byID) and    *)
(* its batch, which is represented by the set of cache files whose stored  *)
(* key the batch's patterns match.  Every method of the store runs under   *)
(* one mutex and commits to disk before it touches byID, so each is one    *)
(* step; the handler, the worker, nginx and the operating system           *)
(* interleave between those steps.                                         *)
(***************************************************************************)
EXTENDS Integers, Sequences, FiniteSets

CONSTANTS
    Ids,         \* invalidation ids the store may mint
    NoId,        \* "no invalidation"
    Clients,     \* concurrent CreateInvalidation requests
    Files,       \* cache slots: one path per cache key
    Dirs,        \* leaf directories of proxy_cache_path
    DirOf,       \* the directory of each cache slot
    Batches,     \* the batches clients send, each as the slots it matches
    QueueSize,   \* capacity of the worker's channel
    MaxStops,    \* bound on crashes and signals, to keep behaviours finite
    Events       \* which environment events may happen

AllEvents == {"signal", "crash", "persist", "walk", "remove"}

ASSUME ConstantsAssumption ==
    /\ NoId \notin Ids
    /\ DirOf \in [Files -> Dirs]
    /\ Batches \subseteq SUBSET Files
    /\ QueueSize \in Nat \ {0}
    /\ MaxStops \in Nat
    /\ Events \subseteq AllEvents

VARIABLES
    proc,        \* "down", "recovering", "serving" or "stopping"
    stops,       \* crashes and signals so far
    disk,        \* durable status of each record (bbolt bucket)
    byID,        \* in-memory status of each record
    batch,       \* the slots matched by each record's batch
    hpc, hid,    \* per request: program counter and the id it created
    queue,       \* the worker's channel
    wpc, wjob,   \* the worker: program counter and current job
    dirs, files, \* entries the walk has listed and not yet visited
    outcome,     \* of the walk: "clean", "partial" (Purge passed over an
                 \* entry but returns nil) or "failed" (Purge returns an error)
    cache,       \* cache files present on disk
    residue,     \* history: files there since before the record's creation
    orphans,     \* history: records whose job is lost while the process runs
    seen         \* history: the newest status a client has read of a record

storeVars == <<disk, byID, batch>>
handlerVars == <<hpc, hid>>
walkVars == <<dirs, files, outcome>>
workerVars == <<wpc, wjob, walkVars>>
vars == <<proc, stops, storeVars, handlerVars, queue, workerVars,
          cache, residue, orphans, seen>>

Statuses == {"None", "InProgress", "Completed"}

TypeOK ==
    /\ proc \in {"down", "recovering", "serving", "stopping"}
    /\ stops \in 0 .. MaxStops
    /\ disk \in [Ids -> Statuses]
    /\ byID \in [Ids -> Statuses]
    /\ batch \in [Ids -> SUBSET Files]
    /\ hpc \in [Clients -> {"idle", "created", "enqueued"}]
    /\ hid \in [Clients -> Ids \cup {NoId}]
    /\ queue \in Seq(Ids)
    /\ Len(queue) <= QueueSize
    /\ wpc \in {"idle", "walk", "update", "stopped"}
    /\ wjob \in Ids \cup {NoId}
    /\ dirs \subseteq Dirs
    /\ files \subseteq Files
    /\ outcome \in {"clean", "partial", "failed"}
    /\ cache \subseteq Files
    /\ residue \in [Ids -> SUBSET Files]
    /\ orphans \subseteq Ids
    /\ seen \in [Ids -> Statuses]

Init ==
    /\ proc = "down"
    /\ stops = 0
    /\ disk = [i \in Ids |-> "None"]
    /\ byID = [i \in Ids |-> "None"]
    /\ batch = [i \in Ids |-> {}]
    /\ hpc = [c \in Clients |-> "idle"]
    /\ hid = [c \in Clients |-> NoId]
    /\ queue = <<>>
    /\ wpc = "idle"
    /\ wjob = NoId
    /\ dirs = {}
    /\ files = {}
    /\ outcome = "clean"
    /\ cache \in SUBSET Files
    /\ residue = [i \in Ids |-> {}]
    /\ orphans = {}
    /\ seen = [i \in Ids |-> "None"]

Running == proc \in {"serving", "stopping"}

-----------------------------------------------------------------------------
(* BoltStore: one step per method, disk first and byID only after it.       *)

\* Wrong: byID is updated whether or not the record could be persisted.
SetStatusMemoryFirst(i, s) ==
    /\ byID' = [byID EXCEPT ![i] = s]
    /\ \/ disk' = [disk EXCEPT ![i] = s]
       \/ "persist" \in Events /\ UNCHANGED disk

SetStatus(i, s) ==
    /\ disk' = [disk EXCEPT ![i] = s]
    /\ byID' = [byID EXCEPT ![i] = s]

\* BoltStore.put returned an error: neither disk nor byID has changed.
PersistFails ==
    /\ "persist" \in Events
    /\ UNCHANGED <<disk, byID>>

\* BoltStore.Create: a fresh id, InProgress from the start.
StoreCreate(i, b) ==
    /\ disk[i] = "None"
    /\ SetStatus(i, "InProgress")
    /\ batch' = [batch EXCEPT ![i] = b]

-----------------------------------------------------------------------------
(* AWSHandler: requests run concurrently with each other and the worker.    *)

\* AWSHandler.Create up to Store.Create.  An invalid batch, or one that cannot
\* be persisted, ends the request with an error and changes nothing.
Create(c) ==
    /\ Running
    /\ hpc[c] = "idle"
    /\ \E i \in Ids, b \in Batches :
        /\ StoreCreate(i, b)
        /\ residue' = [residue EXCEPT ![i] = b \cap cache]
        /\ hpc' = [hpc EXCEPT ![c] = "created"]
        /\ hid' = [hid EXCEPT ![c] = i]
    /\ UNCHANGED <<proc, stops, queue, workerVars, cache, orphans, seen>>

\* Wrong: a job that does not fit is lost without anyone accounting for it, as
\* when Enqueue overwrites the newest queued job.
EnqueueOverwrites(c) ==
    /\ Running
    /\ hpc[c] = "created"
    /\ queue' = IF Len(queue) < QueueSize
                  THEN Append(queue, hid[c])
                  ELSE [queue EXCEPT ![Len(queue)] = hid[c]]
    /\ hpc' = [hpc EXCEPT ![c] = "enqueued"]
    /\ UNCHANGED <<proc, stops, storeVars, hid, workerVars, cache, residue,
                   orphans, seen>>

\* Wrong: the job is appended without regard to the channel's capacity.
EnqueueUnbounded(c) ==
    /\ Running
    /\ hpc[c] = "created"
    /\ queue' = Append(queue, hid[c])
    /\ hpc' = [hpc EXCEPT ![c] = "enqueued"]
    /\ UNCHANGED <<proc, stops, storeVars, hid, workerVars, cache, residue,
                   orphans, seen>>

\* EnqueueFn, outside the store's mutex: a full queue drops the job, and the
\* caller ignores Worker.Enqueue's result.
Enqueue(c) ==
    /\ Running
    /\ hpc[c] = "created"
    /\ IF Len(queue) < QueueSize
         THEN queue' = Append(queue, hid[c]) /\ UNCHANGED orphans
         ELSE orphans' = orphans \cup {hid[c]} /\ UNCHANGED queue
    /\ hpc' = [hpc EXCEPT ![c] = "enqueued"]
    /\ UNCHANGED <<proc, stops, storeVars, hid, workerVars, cache, residue, seen>>

\* writeInvalidationResponse: 201 with the record as it was created, which may
\* be older than what a concurrent List has already returned.
Respond(c) ==
    /\ Running
    /\ hpc[c] = "enqueued"
    /\ seen' = [seen EXCEPT ![hid[c]] = IF @ = "None" THEN "InProgress" ELSE @]
    /\ hpc' = [hpc EXCEPT ![c] = "idle"]
    /\ hid' = [hid EXCEPT ![c] = NoId]
    /\ UNCHANGED <<proc, stops, storeVars, queue, workerVars, cache, residue, orphans>>

\* AWSHandler.Get and AWSHandler.List answer from byID.
Read(i) ==
    /\ Running
    /\ byID[i] # "None"
    /\ seen' = [seen EXCEPT ![i] = byID[i]]
    /\ UNCHANGED <<proc, stops, storeVars, handlerVars, queue, workerVars,
                   cache, residue, orphans>>

-----------------------------------------------------------------------------
(* Worker: one goroutine, one walk of the cache directory per job.          *)

\* The directories the root listing returns: every one that holds a file, and
\* possibly empty ones nginx has created earlier.
Occupied == {DirOf[f] : f \in cache}

\* Worker.Run takes a job and Purge reads the root.  Both branches of Run's
\* select may be ready after a signal; a job taken then fails its first
\* ctx.Err() check.  A missing root is an error too; one that cannot be read
\* is logged and nothing is visited.
TakeJob ==
    /\ Running
    /\ wpc = "idle"
    /\ queue # <<>>
    /\ wjob' = Head(queue)
    /\ queue' = Tail(queue)
    /\ files' = {}
    /\ \/ /\ proc = "serving"
          /\ \E D \in SUBSET Dirs : Occupied \subseteq D /\ dirs' = D
          /\ outcome' = "clean"
          /\ wpc' = "walk"
       \/ /\ \/ proc = "stopping" /\ outcome' = "failed"
             \/ "walk" \in Events /\ outcome' \in {"failed", "partial"}
          /\ dirs' = {}
          /\ wpc' = "update"
    /\ UNCHANGED <<proc, stops, storeVars, handlerVars, cache, residue, orphans, seen>>

\* WalkDir enters a directory and lists it: files that appear later are not
\* visited.  A directory that cannot be read is logged and passed over.
EnterDir(d) ==
    /\ proc = "serving"
    /\ wpc = "walk"
    /\ files = {}
    /\ d \in dirs
    /\ dirs' = dirs \ {d}
    /\ \/ /\ files' = {f \in cache : DirOf[f] = d}
          /\ UNCHANGED outcome
       \/ /\ "walk" \in Events
          /\ outcome' = "partial"
          /\ UNCHANGED files
    /\ UNCHANGED <<proc, stops, storeVars, handlerVars, queue, wpc, wjob,
                   cache, residue, orphans, seen>>

\* A file is gone: it is no longer the one any earlier record was created for.
Gone(f) == residue' = [i \in Ids |-> residue[i] \ {f}]

\* Wrong: shouldPurge is not consulted.
VisitFileUnconditionally(f) ==
    /\ proc = "serving"
    /\ wpc = "walk"
    /\ f \in files
    /\ files' = files \ {f}
    /\ cache' = cache \ {f}
    /\ Gone(f)
    /\ UNCHANGED <<proc, stops, storeVars, handlerVars, queue, wpc, wjob,
                   dirs, outcome, orphans, seen>>

\* The walk visits one listed file: it reads the key, and removes the file
\* when shouldPurge accepts it.  A file that has vanished is no error; one
\* whose key cannot be read or that cannot be removed is passed over.
VisitFile(f) ==
    /\ proc = "serving"
    /\ wpc = "walk"
    /\ f \in files
    /\ files' = files \ {f}
    /\ \/ /\ f \in batch[wjob]
          /\ cache' = cache \ {f}
          /\ Gone(f)
          /\ UNCHANGED outcome
       \/ /\ f \notin batch[wjob]
          /\ UNCHANGED <<cache, residue, outcome>>
       \/ /\ f \in batch[wjob]
          /\ "remove" \in Events
          /\ outcome' = "partial"
          /\ UNCHANGED <<cache, residue>>
    /\ UNCHANGED <<proc, stops, storeVars, handlerVars, queue, wpc, wjob,
                   dirs, orphans, seen>>

\* Wrong: a cancelled walk is reported as a complete one.
WalkReturnsSilently ==
    /\ Running
    /\ wpc = "walk"
    /\ proc = "stopping" \/ (dirs = {} /\ files = {})
    /\ wpc' = "update"
    /\ dirs' = {}
    /\ files' = {}
    /\ UNCHANGED <<proc, stops, storeVars, handlerVars, queue, wjob, outcome,
                   cache, residue, orphans, seen>>

\* Purge returns: either everything listed was visited, or the context was
\* cancelled before the next entry.
WalkReturns ==
    /\ Running
    /\ wpc = "walk"
    /\ \/ dirs = {} /\ files = {} /\ UNCHANGED outcome
       \/ proc = "stopping" /\ (dirs # {} \/ files # {}) /\ outcome' = "failed"
    /\ wpc' = "update"
    /\ dirs' = {}
    /\ files' = {}
    /\ UNCHANGED <<proc, stops, storeVars, handlerVars, queue, wjob, cache,
                   residue, orphans, seen>>

\* Wrong: process returns early when Purge failed.
UpdateStatusOnSuccess ==
    /\ Running
    /\ wpc = "update"
    /\ IF outcome = "failed" THEN UNCHANGED <<disk, byID>> ELSE SetStatus(wjob, "Completed")
    /\ wpc' = "idle"
    /\ wjob' = NoId
    /\ outcome' = "clean"
    /\ UNCHANGED <<proc, stops, batch, handlerVars, queue, dirs, files, cache,
                   residue, orphans, seen>>

\* process falls through to UpdateStatus(Completed) whatever Purge returned.
\* When that cannot be persisted the error is logged and the job forgotten.
UpdateStatus ==
    /\ Running
    /\ wpc = "update"
    /\ \/ SetStatus(wjob, "Completed") /\ UNCHANGED orphans
       \/ PersistFails /\ orphans' = orphans \cup {wjob}
    /\ wpc' = "idle"
    /\ wjob' = NoId
    /\ outcome' = "clean"
    /\ UNCHANGED <<proc, stops, batch, handlerVars, queue, dirs, files, cache,
                   residue, seen>>

\* Run returns on ctx.Done(), whatever is left in the queue.
WorkerReturns ==
    /\ proc = "stopping"
    /\ wpc = "idle"
    /\ wpc' = "stopped"
    /\ UNCHANGED <<proc, stops, storeVars, handlerVars, queue, wjob, walkVars,
                   cache, residue, orphans, seen>>

-----------------------------------------------------------------------------
(* The process: main.run, signals, crashes.                                 *)

\* Everything that is not on disk is lost.
LoseMemory ==
    /\ proc' = "down"
    /\ byID' = [i \in Ids |-> "None"]
    /\ hpc' = [c \in Clients |-> "idle"]
    /\ hid' = [c \in Clients |-> NoId]
    /\ queue' = <<>>
    /\ wpc' = "idle"
    /\ wjob' = NoId
    /\ dirs' = {}
    /\ files' = {}
    /\ outcome' = "clean"
    /\ orphans' = {}
    /\ UNCHANGED <<disk, batch, cache, residue, seen>>

\* NewBoltStore hydrates byID from the bucket.
Load ==
    /\ proc = "down"
    /\ proc' = "recovering"
    /\ byID' = disk
    /\ UNCHANGED <<stops, disk, batch, handlerVars, queue, workerVars, cache,
                   residue, orphans, seen>>

\* One iteration of RecoverInProgress, before the worker and the API start.
RecoverInProgress(i) ==
    /\ proc = "recovering"
    /\ byID[i] = "InProgress"
    /\ SetStatus(i, "Completed")
    /\ UNCHANGED <<proc, stops, batch, handlerVars, queue, workerVars, cache,
                   residue, orphans, seen>>

\* A recovery that cannot be persisted ends run with an error.
RecoveryFails ==
    /\ proc = "recovering"
    /\ "persist" \in Events
    /\ stops < MaxStops
    /\ \E i \in Ids : byID[i] = "InProgress"
    /\ stops' = stops + 1
    /\ LoseMemory

\* The worker goroutine and the API server are started.
Serve ==
    /\ proc = "recovering"
    /\ \A i \in Ids : byID[i] # "InProgress"
    /\ proc' = "serving"
    /\ UNCHANGED <<stops, storeVars, handlerVars, queue, workerVars, cache,
                   residue, orphans, seen>>

\* SIGTERM cancels ctx; requests in flight get a grace period.
Signal ==
    /\ "signal" \in Events
    /\ proc = "serving"
    /\ stops < MaxStops
    /\ stops' = stops + 1
    /\ proc' = "stopping"
    /\ UNCHANGED <<storeVars, handlerVars, queue, workerVars, cache, residue,
                   orphans, seen>>

\* srv.Shutdown returned or its grace period is over; run does not wait for
\* the worker.
Exit ==
    /\ proc = "stopping"
    /\ UNCHANGED stops
    /\ LoseMemory

Crash ==
    /\ "crash" \in Events
    /\ proc # "down"
    /\ stops < MaxStops
    /\ stops' = stops + 1
    /\ LoseMemory

-----------------------------------------------------------------------------
(* nginx (external): fills a slot by renaming a complete file into place,   *)
(* possibly over an older one, and evicts slots, at any time.               *)

NginxStores(f) ==
    /\ cache' = cache \cup {f}
    /\ Gone(f)
    /\ UNCHANGED <<proc, stops, storeVars, handlerVars, queue, workerVars,
                   orphans, seen>>

NginxEvicts(f) ==
    /\ f \in cache
    /\ cache' = cache \ {f}
    /\ Gone(f)
    /\ UNCHANGED <<proc, stops, storeVars, handlerVars, queue, workerVars,
                   orphans, seen>>

-----------------------------------------------------------------------------
HandlerStep(c) == Enqueue(c) \/ Respond(c)

WorkerStep ==
    \/ TakeJob
    \/ \E d \in Dirs : EnterDir(d)
    \/ \E f \in Files : VisitFile(f)
    \/ WalkReturns
    \/ UpdateStatus
    \/ WorkerReturns

StartupStep == Load \/ (\E i \in Ids : RecoverInProgress(i)) \/ Serve

Next ==
    \/ \E c \in Clients : Create(c) \/ HandlerStep(c)
    \/ \E i \in Ids : Read(i)
    \/ WorkerStep
    \/ StartupStep
    \/ RecoveryFails
    \/ Signal
    \/ Exit
    \/ Crash
    \/ \E f \in Files : NginxStores(f) \/ NginxEvicts(f)

Spec == Init /\ [][Next]_vars

\* The Go scheduler runs every goroutine that is ready; the grace period of a
\* shutdown ends; docker compose restarts the container.  Requests, signals,
\* crashes and nginx owe nothing.
Fairness ==
    /\ \A c \in Clients : WF_vars(HandlerStep(c))
    /\ WF_vars(WorkerStep)
    /\ WF_vars(StartupStep)
    /\ WF_vars(Exit)

FairSpec == Spec /\ Fairness
-----------------------------------------------------------------------------
(* Properties.                                                              *)

\* The in-memory index never differs from what a restart would load: whatever
\* a client reads of a running process survives its crash (bolt.go, "persist
\* first, update the in-memory index only on successful persist").
WriteThrough == proc # "down" => byID = disk

Rank(s) == CASE s = "None" -> 0 [] s = "InProgress" -> 1 [] s = "Completed" -> 2

\* A status any response has carried is on disk or has been overtaken there,
\* also while the process is down and after any crash.
ReadsAreDurable == \A i \in Ids : Rank(seen[i]) <= Rank(disk[i])

\* Polling GetInvalidation or ListInvalidations never shows a record go from
\* Completed back to InProgress, or disappear, whatever crashes in between.
ReadsNeverGoBack == [][\A i \in Ids : Rank(seen[i]) <= Rank(seen'[i])]_seen

Handed == {hid[c] : c \in {c \in Clients : hpc[c] = "created"}}
Jobs(q) == {q[k] : k \in DOMAIN q}
Queued == Jobs(queue)
Working == IF wpc \in {"walk", "update"} THEN {wjob} ELSE {}

\* No request forgets its record and no two workers share one: while cf-local
\* runs, the InProgress records are exactly those held by a handler about to
\* enqueue, by the queue, by the worker, or counted as orphans (dropped by a
\* full queue or left behind by a failed status update).
EveryRecordOwned ==
    Running => {i \in Ids : byID[i] = "InProgress"}
                  = Handed \cup Queued \cup Working \cup orphans

\* And each by one of them only: nothing is purged twice, and a record whose
\* job was dropped is not also in the queue.
OwnedOnce ==
    /\ Handed \cap (Queued \cup Working \cup orphans) = {}
    /\ Queued \cap (Working \cup orphans) = {}
    /\ Working \cap orphans = {}
    /\ \A j, k \in DOMAIN queue : queue[j] = queue[k] => j = k
    /\ \A c, d \in Clients :
          hpc[c] = "created" /\ hpc[d] = "created" /\ hid[c] = hid[d] => c = d

Ownership == EveryRecordOwned /\ OwnedOnce

\* When Purge returns nil and passed over nothing, no file of the batch that
\* was cached when the record was created is still there, although nginx has
\* been storing and evicting files all along.
CleanWalkPurges ==
    wpc = "update" /\ outcome = "clean" => residue[wjob] = {}

\* Whatever the worker removes belongs to the batch of a record that is still
\* InProgress on disk: no file is purged on behalf of a record that clients
\* may have read as Completed.
PurgesOnlyForInProgress ==
    [][wpc = "walk" /\ files' # files =>
          \A f \in cache \ cache' :
             f \in batch[wjob] /\ disk[wjob] = "InProgress"]_vars

\* Every record is Completed in the end, whatever crashes, signals and purge
\* errors happen, unless its job was orphaned.
Settles ==
    \A i \in Ids :
        disk[i] = "InProgress" ~> disk[i] = "Completed" \/ i \in orphans

\* docs/invalidation-api.md: "Status が "Completed" に遷移していればキャッシュは
\* 消えている" (once the status is Completed, the cached files are gone).
CompletedMeansGone == \A i \in Ids : disk[i] = "Completed" => residue[i] = {}

-----------------------------------------------------------------------------
(* What the properties above need to be inductive.                          *)

\* Until the API serves, and after a stop, nothing volatile is left over.
Quiescent ==
    /\ ~Running => /\ \A c \in Clients : hpc[c] = "idle"
                   /\ queue = <<>>
                   /\ wpc = "idle"
                   /\ orphans = {}
    /\ wpc = "stopped" => proc = "stopping"

\* A request in flight, and the worker, refer to persisted records.
HoldersHaveRecords ==
    /\ \A c \in Clients :
          hpc[c] # "idle" => hid[c] \in Ids /\ disk[hid[c]] # "None"
    /\ wpc \in {"walk", "update"} => wjob \in Ids

\* During a walk that passed over nothing, every file that was there before
\* the record was created is still ahead of the walk.
WalkCovers ==
    /\ \A i \in Ids : residue[i] \subseteq cache \cap batch[i]
    /\ wpc = "walk" /\ outcome = "clean" =>
          \A f \in residue[wjob] : f \in files \/ DirOf[f] \in dirs

IInv ==
    /\ TypeOK
    /\ Quiescent
    /\ WriteThrough
    /\ HoldersHaveRecords
    /\ ReadsAreDurable
    /\ Ownership
    /\ WalkCovers
    /\ CleanWalkPurges
=============================================================================
