------------------------- MODULE InvalidationProofs -------------------------
(***************************************************************************)
(* Proofs about Invalidation for every set of ids, requests and files,     *)
(* every queue capacity and every number of crashes, and about the path    *)
(* matcher for every path and request.                                     *)
(***************************************************************************)
EXTENDS PathInvalidation, InductionLemmas

-----------------------------------------------------------------------------
(* The queue as a set.                                                      *)

\* A job appended to the channel is in it, and nothing else is new.
LEMMA AppendElements ==
    ASSUME NEW q \in Seq(Ids), NEW x \in Ids
    PROVE  /\ Append(q, x) \in Seq(Ids)
           /\ Len(Append(q, x)) = Len(q) + 1
           /\ Jobs(Append(q, x)) = Jobs(q) \cup {x}
           /\ (/\ x \notin Jobs(q)
               /\ \A j, k \in DOMAIN q : q[j] = q[k] => j = k)
              => \A j, k \in DOMAIN Append(q, x) :
                    Append(q, x)[j] = Append(q, x)[k] => j = k
<1> USE DEF Jobs
<1> DEFINE a == Append(q, x)
<1>1. /\ a \in Seq(Ids) /\ Len(a) = Len(q) + 1 /\ Len(q) \in Nat
      /\ DOMAIN a = 1 .. Len(q) + 1 /\ DOMAIN q = 1 .. Len(q)
      /\ \A k \in 1 .. Len(q) : a[k] = q[k]
      /\ a[Len(q) + 1] = x
  OBVIOUS
<1> HIDE DEF a
<1>2. ASSUME NEW k \in DOMAIN a
      PROVE  a[k] \in Jobs(q) \cup {x}
  <2>1. CASE k \in 1 .. Len(q)
    BY <1>1, <2>1
  <2>2. CASE k = Len(q) + 1
    BY <1>1, <2>2
  <2> QED
    BY <1>1, <2>1, <2>2
<1>3. ASSUME NEW y \in Jobs(q) \cup {x}
      PROVE  \E k \in DOMAIN a : y = a[k]
  <2>1. CASE y = x
    BY <1>1, <2>1
  <2>2. CASE y \in Jobs(q)
    BY <1>1, <2>2
  <2> QED
    BY <2>1, <2>2
<1>4. Jobs(a) = Jobs(q) \cup {x}
  BY <1>2, <1>3
<1>5. ASSUME x \notin Jobs(q),
             \A j, k \in DOMAIN q : q[j] = q[k] => j = k,
             NEW j \in DOMAIN a, NEW k \in DOMAIN a, a[j] = a[k]
      PROVE  j = k
  <2>1. CASE j \in DOMAIN q /\ k \in DOMAIN q
    BY <1>1, <1>5, <2>1
  <2>2. CASE j \notin DOMAIN q
    BY <1>1, <1>5, <2>2
  <2>3. CASE k \notin DOMAIN q
    BY <1>1, <1>5, <2>3
  <2> QED
    BY <2>1, <2>2, <2>3
<1> QED
  BY <1>1, <1>4, <1>5 DEF a

\* Taking the head of a channel without duplicates removes exactly that job.
LEMMA TailElements ==
    ASSUME NEW q \in Seq(Ids), q # <<>>,
           \A j, k \in DOMAIN q : q[j] = q[k] => j = k
    PROVE  /\ Head(q) \in Ids
           /\ Tail(q) \in Seq(Ids)
           /\ Len(Tail(q)) = Len(q) - 1
           /\ Jobs(Tail(q)) = Jobs(q) \ {Head(q)}
           /\ Head(q) \in Jobs(q)
           /\ \A j, k \in DOMAIN Tail(q) : Tail(q)[j] = Tail(q)[k] => j = k
<1> USE DEF Jobs
<1> DEFINE t == Tail(q)
<1>1. /\ t \in Seq(Ids) /\ Len(q) \in Nat /\ Len(q) >= 1 /\ Len(t) = Len(q) - 1
      /\ DOMAIN t = 1 .. Len(q) - 1 /\ DOMAIN q = 1 .. Len(q)
      /\ \A k \in 1 .. Len(q) - 1 : t[k] = q[k + 1]
      /\ Head(q) = q[1] /\ Head(q) \in Ids
  OBVIOUS
<1> HIDE DEF t
<1>2. ASSUME NEW j \in DOMAIN t, NEW k \in DOMAIN t, t[j] = t[k]
      PROVE  j = k
  <2>1. /\ j \in Int /\ k \in Int /\ j + 1 \in DOMAIN q /\ k + 1 \in DOMAIN q
        /\ q[j + 1] = q[k + 1]
    BY <1>1, <1>2
  <2>2. j + 1 = k + 1
    BY <2>1
  <2> QED
    BY <2>1, <2>2
<1>3. ASSUME NEW k \in DOMAIN t
      PROVE  t[k] \in Jobs(q) \ {Head(q)}
  <2>1. /\ k \in Int /\ k >= 1 /\ k + 1 \in DOMAIN q /\ 1 \in DOMAIN q /\ t[k] = q[k + 1]
    BY <1>1
  <2>2. q[k + 1] # q[1]
    <3>1. k + 1 # 1
      BY <2>1
    <3> QED
      BY <2>1, <3>1
  <2> QED
    BY <1>1, <2>1, <2>2
<1>4. ASSUME NEW y \in Jobs(q) \ {Head(q)}
      PROVE  \E k \in DOMAIN t : y = t[k]
  <2>1. PICK j \in DOMAIN q : y = q[j]
    BY <1>4
  <2>2. j # 1
    BY <1>1, <1>4, <2>1
  <2>3. j - 1 \in DOMAIN t /\ t[j - 1] = q[j]
    BY <1>1, <2>1, <2>2
  <2> QED
    BY <2>1, <2>3
<1>5. Jobs(t) = Jobs(q) \ {Head(q)}
  BY <1>3, <1>4
<1>6. Head(q) \in Jobs(q)
  BY <1>1
<1> QED
  BY <1>1, <1>2, <1>5, <1>6 DEF t

-----------------------------------------------------------------------------
(* Types, durability and what the holders of a record know about it.        *)

Durable ==
    /\ TypeOK
    /\ Quiescent
    /\ WriteThrough
    /\ HoldersHaveRecords
    /\ ReadsAreDurable

\* An empty database, and no process, satisfy Durable.
LEMMA InitDurable == Init => Durable
  BY ConstantsAssumption
     DEF Init, Durable, TypeOK, Statuses, Quiescent, WriteThrough, Running,
         HoldersHaveRecords, ReadsAreDurable, Rank

\* The store's persist-then-index order and the loss of all volatile state at
\* a crash keep Durable, whatever the step.
LEMMA NextDurable ==
    ASSUME Durable, [Next]_vars
    PROVE  Durable'
<1> USE ConstantsAssumption
    DEF Durable, TypeOK, Statuses, Quiescent, WriteThrough, Running,
        HoldersHaveRecords, ReadsAreDurable, Rank
<1>1. ASSUME NEW c \in Clients, Create(c) PROVE Durable'
  <2>1. TypeOK'
    BY <1>1 DEF Create, StoreCreate, SetStatus, workerVars, walkVars
  <2>2. Quiescent'
    BY <1>1 DEF Create, StoreCreate, SetStatus, workerVars, walkVars
  <2>3. WriteThrough'
    BY <1>1 DEF Create, StoreCreate, SetStatus, workerVars, walkVars
  <2>4. HoldersHaveRecords'
    BY <1>1 DEF Create, StoreCreate, SetStatus, workerVars, walkVars
  <2>5. ReadsAreDurable'
    BY <1>1 DEF Create, StoreCreate, SetStatus, workerVars, walkVars
  <2> QED
    BY <2>1, <2>2, <2>3, <2>4, <2>5
<1>2. ASSUME NEW c \in Clients, Enqueue(c) PROVE Durable'
  <2>0. hid[c] \in Ids
    BY <1>2 DEF Enqueue
  <2>1. CASE Len(queue) < QueueSize
    <3>1. queue' = Append(queue, hid[c]) /\ queue \in Seq(Ids)
      BY <1>2, <2>1 DEF Enqueue
    <3>2. queue' \in Seq(Ids) /\ Len(queue') = Len(queue) + 1
      BY <2>0, <3>1, AppendElements
    <3> QED
      BY <1>2, <2>1, <3>1, <3>2 DEF Enqueue, storeVars, workerVars, walkVars
  <2>2. CASE ~(Len(queue) < QueueSize)
    BY <1>2, <2>0, <2>2 DEF Enqueue, storeVars, workerVars, walkVars
  <2> QED
    BY <2>1, <2>2
<1>3. ASSUME NEW c \in Clients, Respond(c) PROVE Durable'
  BY <1>3 DEF Respond, storeVars, handlerVars, workerVars, walkVars
<1>4. ASSUME NEW i \in Ids, Read(i) PROVE Durable'
  BY <1>4 DEF Read, storeVars, handlerVars, workerVars, walkVars
<1>5. CASE TakeJob
  <2>1. /\ wjob' \in Ids
        /\ queue' \in Seq(Ids)
        /\ Len(queue') <= Len(queue)
    BY <1>5 DEF TakeJob
  <2> QED
    BY <1>5, <2>1 DEF TakeJob, storeVars, handlerVars
<1>6. ASSUME NEW d \in Dirs, EnterDir(d) PROVE Durable'
  BY <1>6 DEF EnterDir, storeVars, handlerVars, workerVars, walkVars
<1>7. ASSUME NEW f \in Files, VisitFile(f) PROVE Durable'
  <2>1. TypeOK'
    BY <1>7 DEF VisitFile, storeVars, handlerVars, workerVars, walkVars, Gone
  <2>2. Quiescent'
    BY <1>7 DEF VisitFile, storeVars, handlerVars, workerVars, walkVars, Gone
  <2>3. WriteThrough'
    BY <1>7 DEF VisitFile, storeVars, handlerVars, workerVars, walkVars, Gone
  <2>4. HoldersHaveRecords'
    BY <1>7 DEF VisitFile, storeVars, handlerVars, workerVars, walkVars, Gone
  <2>5. ReadsAreDurable'
    BY <1>7 DEF VisitFile, storeVars, handlerVars, workerVars, walkVars, Gone
  <2> QED
    BY <2>1, <2>2, <2>3, <2>4, <2>5
<1>8. CASE WalkReturns
  BY <1>8 DEF WalkReturns, storeVars, handlerVars, workerVars, walkVars
<1>9. CASE UpdateStatus
  <2>1. TypeOK'
    BY <1>9 DEF UpdateStatus, SetStatus, PersistFails, handlerVars
  <2>2. Quiescent'
    BY <1>9 DEF UpdateStatus, SetStatus, PersistFails, handlerVars
  <2>3. WriteThrough'
    BY <1>9 DEF UpdateStatus, SetStatus, PersistFails, handlerVars
  <2>4. HoldersHaveRecords'
    BY <1>9 DEF UpdateStatus, SetStatus, PersistFails, handlerVars
  <2>5. ReadsAreDurable'
    BY <1>9 DEF UpdateStatus, SetStatus, PersistFails, handlerVars
  <2> QED
    BY <2>1, <2>2, <2>3, <2>4, <2>5
<1>10. CASE WorkerReturns
  BY <1>10 DEF WorkerReturns, storeVars, handlerVars, workerVars, walkVars
<1>11. CASE Load
  BY <1>11 DEF Load, storeVars, handlerVars, workerVars, walkVars
<1>12. ASSUME NEW i \in Ids, RecoverInProgress(i) PROVE Durable'
  BY <1>12 DEF RecoverInProgress, SetStatus, handlerVars, workerVars, walkVars
<1>13. CASE RecoveryFails
  <2>1. TypeOK'
    BY <1>13 DEF RecoveryFails, LoseMemory
  <2>2. Quiescent'
    BY <1>13 DEF RecoveryFails, LoseMemory
  <2>3. WriteThrough'
    BY <1>13 DEF RecoveryFails, LoseMemory
  <2>4. HoldersHaveRecords'
    BY <1>13 DEF RecoveryFails, LoseMemory
  <2>5. ReadsAreDurable'
    BY <1>13 DEF RecoveryFails, LoseMemory
  <2> QED
    BY <2>1, <2>2, <2>3, <2>4, <2>5
<1>14. CASE Serve
  BY <1>14 DEF Serve, storeVars, handlerVars, workerVars, walkVars
<1>15. CASE Signal
  BY <1>15 DEF Signal, storeVars, handlerVars, workerVars, walkVars
<1>16. CASE Exit
  <2>1. TypeOK'
    BY <1>16 DEF Exit, LoseMemory
  <2>2. Quiescent'
    BY <1>16 DEF Exit, LoseMemory
  <2>3. WriteThrough'
    BY <1>16 DEF Exit, LoseMemory
  <2>4. HoldersHaveRecords'
    BY <1>16 DEF Exit, LoseMemory
  <2>5. ReadsAreDurable'
    BY <1>16 DEF Exit, LoseMemory
  <2> QED
    BY <2>1, <2>2, <2>3, <2>4, <2>5
<1>17. CASE Crash
  <2>1. TypeOK'
    BY <1>17 DEF Crash, LoseMemory
  <2>2. Quiescent'
    BY <1>17 DEF Crash, LoseMemory
  <2>3. WriteThrough'
    BY <1>17 DEF Crash, LoseMemory
  <2>4. HoldersHaveRecords'
    BY <1>17 DEF Crash, LoseMemory
  <2>5. ReadsAreDurable'
    BY <1>17 DEF Crash, LoseMemory
  <2> QED
    BY <2>1, <2>2, <2>3, <2>4, <2>5
<1>18. ASSUME NEW f \in Files, NginxStores(f) PROVE Durable'
  BY <1>18 DEF NginxStores, storeVars, handlerVars, workerVars, walkVars, Gone
<1>19. ASSUME NEW f \in Files, NginxEvicts(f) PROVE Durable'
  BY <1>19 DEF NginxEvicts, storeVars, handlerVars, workerVars, walkVars, Gone
<1>20. CASE UNCHANGED vars
  BY <1>20 DEF vars, storeVars, handlerVars, workerVars, walkVars
<1> QED
  BY <1>1, <1>2, <1>3, <1>4, <1>5, <1>6, <1>7, <1>8, <1>9, <1>10, <1>11,
     <1>12, <1>13, <1>14, <1>15, <1>16, <1>17, <1>18, <1>19, <1>20
     DEF Next, HandlerStep, WorkerStep, StartupStep

-----------------------------------------------------------------------------
(* Ownership of InProgress records.                                         *)

\* Nothing runs at first, so nothing is owned.
LEMMA InitOwnership == Init => Ownership
  BY DEF Init, Ownership, EveryRecordOwned, OwnedOnce, Running, Handed, Queued,
         Working

\* A record changes hands from the handler to the queue to the worker, and is
\* InProgress for exactly as long as one of them holds it or it is orphaned.
LEMMA NextOwnership ==
    ASSUME Durable, Ownership, [Next]_vars
    PROVE  Ownership'
<1> USE ConstantsAssumption
    DEF Durable, TypeOK, Statuses, Quiescent, WriteThrough, Running,
        HoldersHaveRecords, Ownership, EveryRecordOwned, OwnedOnce
<1>1. ASSUME NEW c \in Clients, Create(c) PROVE Ownership'
  <2>1. PICK i \in Ids :
          /\ disk[i] = "None"
          /\ SetStatus(i, "InProgress")
          /\ hpc' = [hpc EXCEPT ![c] = "created"]
          /\ hid' = [hid EXCEPT ![c] = i]
    BY <1>1 DEF Create, StoreCreate
  <2>2. /\ Running /\ hpc[c] = "idle"
        /\ UNCHANGED <<proc, queue, wpc, wjob, orphans>>
    BY <1>1 DEF Create, StoreCreate, workerVars
  <2>3. Handed' = Handed \cup {i} /\ Queued' = Queued /\ Working' = Working
    BY <2>1, <2>2 DEF Handed, Queued, Working
  <2>4. i \notin Handed \cup Queued \cup Working \cup orphans
    BY <2>1, <2>2
  <2>5. EveryRecordOwned'
    BY <2>1, <2>2, <2>3 DEF SetStatus
  <2>6. ASSUME NEW d \in Clients, hpc[d] = "created" PROVE hid[d] # i
    BY <2>4, <2>6 DEF Handed
  <2>7. OwnedOnce'
    BY <2>1, <2>2, <2>3, <2>4, <2>6
  <2> QED
    BY <2>5, <2>7
<1>2. ASSUME NEW c \in Clients, Enqueue(c) PROVE Ownership'
  <2> DEFINE x == hid[c]
  <2>1. /\ Running /\ hpc[c] = "created" /\ x \in Ids
        /\ hpc' = [hpc EXCEPT ![c] = "enqueued"]
        /\ UNCHANGED <<proc, byID, hid, wpc, wjob>>
    BY <1>2 DEF Enqueue, storeVars, workerVars
  <2>2. x \in Handed
    BY <2>1 DEF Handed
  <2>3. Handed' = Handed \ {x} /\ Working' = Working
    BY <2>1 DEF Handed, Working
  <2>4. x \notin Queued \cup Working \cup orphans
    BY <2>2
  <2>5. CASE queue' = Append(queue, x) /\ orphans' = orphans
    <3>1. Queued' = Queued \cup {x}
      BY <2>1, <2>5, AppendElements DEF Queued
    <3>2. \A j, k \in DOMAIN queue' : queue'[j] = queue'[k] => j = k
      BY <2>1, <2>4, <2>5, AppendElements DEF Queued
    <3>3. EveryRecordOwned'
      BY <2>1, <2>2, <2>3, <2>5, <3>1
    <3>4. OwnedOnce'
      BY <2>1, <2>3, <2>4, <2>5, <3>1, <3>2
    <3> QED
      BY <3>3, <3>4
  <2>6. CASE queue' = queue /\ orphans' = orphans \cup {x}
    <3>1. Queued' = Queued
      BY <2>6 DEF Queued
    <3> QED
      BY <2>1, <2>2, <2>3, <2>4, <2>6, <3>1
  <2> QED
    BY <1>2, <2>5, <2>6 DEF Enqueue
<1>3. ASSUME NEW c \in Clients, Respond(c) PROVE Ownership'
  <2>1. Handed' = Handed /\ Queued' = Queued /\ Working' = Working
    BY <1>3 DEF Respond, storeVars, handlerVars, workerVars, walkVars, Handed,
                Queued, Working
  <2> QED
    BY <1>3, <2>1 DEF Respond, storeVars, handlerVars, workerVars, walkVars
<1>4. ASSUME NEW i \in Ids, Read(i) PROVE Ownership'
  <2>1. Handed' = Handed /\ Queued' = Queued /\ Working' = Working
    BY <1>4 DEF Read, storeVars, handlerVars, workerVars, walkVars, Handed,
                Queued, Working
  <2> QED
    BY <1>4, <2>1 DEF Read, storeVars, handlerVars, workerVars, walkVars
<1>5. CASE TakeJob
  <2> DEFINE h == Head(queue)
  <2>1. /\ Running /\ wpc = "idle" /\ queue # <<>>
        /\ wjob' = h /\ queue' = Tail(queue) /\ wpc' \in {"walk", "update"}
        /\ UNCHANGED <<proc, byID, hpc, hid, orphans>>
    BY <1>5 DEF TakeJob, storeVars, handlerVars
  <2>2. /\ h \in Queued /\ Queued' = Queued \ {h}
        /\ \A j, k \in DOMAIN queue' : queue'[j] = queue'[k] => j = k
    BY <2>1, TailElements DEF Queued
  <2>3. Working = {} /\ Working' = {h} /\ Handed' = Handed
    BY <2>1 DEF Working, Handed
  <2>4. EveryRecordOwned'
    BY <2>1, <2>2, <2>3
  <2>5. OwnedOnce'
    BY <2>1, <2>2, <2>3
  <2> QED
    BY <2>4, <2>5
<1>6. ASSUME NEW d \in Dirs, EnterDir(d) PROVE Ownership'
  <2>1. Handed' = Handed /\ Queued' = Queued /\ Working' = Working
    BY <1>6 DEF EnterDir, storeVars, handlerVars, workerVars, walkVars,
                Handed, Queued, Working
  <2> QED
    BY <1>6, <2>1 DEF EnterDir, storeVars, handlerVars, workerVars, walkVars
<1>7. ASSUME NEW f \in Files, VisitFile(f) PROVE Ownership'
  <2>1. Handed' = Handed /\ Queued' = Queued /\ Working' = Working
    BY <1>7 DEF VisitFile, storeVars, handlerVars, workerVars, walkVars, Gone,
                Handed, Queued, Working
  <2> QED
    BY <1>7, <2>1 DEF VisitFile, storeVars, handlerVars, workerVars, walkVars,
                      Gone
<1>8. CASE WalkReturns
  <2>1. Handed' = Handed /\ Queued' = Queued /\ Working' = Working
    BY <1>8 DEF WalkReturns, storeVars, handlerVars, workerVars, walkVars,
                Handed, Queued, Working
  <2> QED
    BY <1>8, <2>1 DEF WalkReturns, storeVars, handlerVars, workerVars, walkVars
<1>9. CASE UpdateStatus
  <2>1. /\ Running /\ wpc = "update" /\ wpc' = "idle"
        /\ UNCHANGED <<proc, queue, hpc, hid>>
    BY <1>9 DEF UpdateStatus, handlerVars
  <2>2. /\ Working = {wjob} /\ Working' = {}
        /\ Handed' = Handed /\ Queued' = Queued
    BY <2>1 DEF Working, Handed, Queued
  <2>3. CASE SetStatus(wjob, "Completed") /\ orphans' = orphans
    <3>1. EveryRecordOwned'
      BY <2>1, <2>2, <2>3 DEF SetStatus
    <3> QED
      BY <2>1, <2>2, <2>3, <3>1
  <2>4. CASE UNCHANGED byID /\ orphans' = orphans \cup {wjob}
    BY <2>1, <2>2, <2>4
  <2> QED
    BY <1>9, <2>3, <2>4 DEF UpdateStatus, PersistFails
<1>10. CASE WorkerReturns
  <2>1. Handed' = Handed /\ Queued' = Queued /\ Working' = Working
    BY <1>10 DEF WorkerReturns, storeVars, handlerVars, workerVars, walkVars,
                 Handed, Queued, Working
  <2> QED
    BY <1>10, <2>1 DEF WorkerReturns, storeVars, handlerVars, workerVars,
                       walkVars
<1>11. CASE Load
  BY <1>11 DEF Load, storeVars, handlerVars, workerVars, walkVars, Handed,
               Queued, Jobs, Working
<1>12. ASSUME NEW i \in Ids, RecoverInProgress(i) PROVE Ownership'
  BY <1>12 DEF RecoverInProgress, SetStatus, handlerVars, workerVars,
               walkVars, Handed, Queued, Jobs, Working
<1>13. CASE RecoveryFails
  BY <1>13 DEF RecoveryFails, LoseMemory, Handed, Queued, Jobs, Working
<1>14. CASE Serve
  BY <1>14 DEF Serve, storeVars, handlerVars, workerVars, walkVars, Handed,
               Queued, Jobs, Working
<1>15. CASE Signal
  <2>1. Handed' = Handed /\ Queued' = Queued /\ Working' = Working
    BY <1>15 DEF Signal, storeVars, handlerVars, workerVars, walkVars, Handed,
                 Queued, Working
  <2> QED
    BY <1>15, <2>1 DEF Signal, storeVars, handlerVars, workerVars, walkVars
<1>16. CASE Exit
  BY <1>16 DEF Exit, LoseMemory, Handed, Queued, Jobs, Working
<1>17. CASE Crash
  BY <1>17 DEF Crash, LoseMemory, Handed, Queued, Jobs, Working
<1>18. ASSUME NEW f \in Files, NginxStores(f) PROVE Ownership'
  <2>1. Handed' = Handed /\ Queued' = Queued /\ Working' = Working
    BY <1>18 DEF NginxStores, storeVars, handlerVars, workerVars, walkVars,
                 Gone, Handed, Queued, Working
  <2> QED
    BY <1>18, <2>1 DEF NginxStores, storeVars, handlerVars, workerVars,
                       walkVars, Gone
<1>19. ASSUME NEW f \in Files, NginxEvicts(f) PROVE Ownership'
  <2>1. Handed' = Handed /\ Queued' = Queued /\ Working' = Working
    BY <1>19 DEF NginxEvicts, storeVars, handlerVars, workerVars, walkVars,
                 Gone, Handed, Queued, Working
  <2> QED
    BY <1>19, <2>1 DEF NginxEvicts, storeVars, handlerVars, workerVars,
                       walkVars, Gone
<1>20. CASE UNCHANGED vars
  BY <1>20 DEF vars, storeVars, handlerVars, workerVars, walkVars, Handed,
               Queued,
             Working
<1> QED
  BY <1>1, <1>2, <1>3, <1>4, <1>5, <1>6, <1>7, <1>8, <1>9, <1>10, <1>11,
     <1>12, <1>13, <1>14, <1>15, <1>16, <1>17, <1>18, <1>19, <1>20
     DEF Next, HandlerStep, WorkerStep, StartupStep

-----------------------------------------------------------------------------
(* What a walk leaves behind.                                               *)

\* No walk is under way at first and no record has files to answer for.
LEMMA InitWalk == Init => WalkCovers /\ CleanWalkPurges
  BY DEF Init, WalkCovers, CleanWalkPurges

\* While nginx stores and evicts files, a walk that passes over nothing keeps
\* ahead of it every file that was there when its record was created.
LEMMA NextWalk ==
    ASSUME Durable, Ownership, WalkCovers, CleanWalkPurges, [Next]_vars
    PROVE  (WalkCovers /\ CleanWalkPurges)'
<1> USE ConstantsAssumption
    DEF Durable, TypeOK, WalkCovers, CleanWalkPurges, HoldersHaveRecords
<1>1. ASSUME NEW c \in Clients, Create(c) PROVE (WalkCovers /\ CleanWalkPurges)'
  <2>1. PICK i \in Ids, b \in Batches :
          /\ disk[i] = "None"
          /\ batch' = [batch EXCEPT ![i] = b]
          /\ residue' = [residue EXCEPT ![i] = b \cap cache]
    BY <1>1 DEF Create, StoreCreate
  <2>2. Running /\ UNCHANGED <<cache, wpc, wjob, dirs, files, outcome>>
    BY <1>1 DEF Create, StoreCreate, workerVars, walkVars
  <2>3. wpc \in {"walk", "update"} => wjob # i
    BY <2>1, <2>2
       DEF Ownership, EveryRecordOwned, Working, WriteThrough, Running
  <2>4. \A j \in Ids : residue'[j] \subseteq cache \cap batch'[j]
    BY <2>1, <2>2
  <2> QED
    BY <2>1, <2>2, <2>3, <2>4
<1>2. ASSUME NEW c \in Clients, Enqueue(c) PROVE (WalkCovers /\ CleanWalkPurges)'
  BY <1>2 DEF Enqueue, storeVars, handlerVars, workerVars, walkVars
<1>3. ASSUME NEW c \in Clients, Respond(c) PROVE (WalkCovers /\ CleanWalkPurges)'
  BY <1>3 DEF Respond, storeVars, handlerVars, workerVars, walkVars
<1>4. ASSUME NEW i \in Ids, Read(i) PROVE (WalkCovers /\ CleanWalkPurges)'
  BY <1>4 DEF Read, storeVars, handlerVars, workerVars, walkVars
<1>5. CASE TakeJob
  <2>1. /\ wjob' \in Ids /\ UNCHANGED <<cache, batch, residue>>
        /\ \/ wpc' = "walk" /\ Occupied \subseteq dirs'
           \/ wpc' = "update" /\ outcome' # "clean"
    BY <1>5 DEF TakeJob, storeVars
  <2> QED
    BY <2>1 DEF Occupied
<1>6. ASSUME NEW d \in Dirs, EnterDir(d) PROVE (WalkCovers /\ CleanWalkPurges)'
  BY <1>6 DEF EnterDir, storeVars, handlerVars, workerVars, walkVars
<1>7. ASSUME NEW f \in Files, VisitFile(f) PROVE (WalkCovers /\ CleanWalkPurges)'
  BY <1>7 DEF VisitFile, storeVars, handlerVars, workerVars, walkVars, Gone
<1>8. CASE WalkReturns
  BY <1>8 DEF WalkReturns, storeVars, handlerVars, workerVars, walkVars
<1>9. CASE UpdateStatus
  BY <1>9 DEF UpdateStatus, SetStatus, PersistFails, handlerVars
<1>10. CASE WorkerReturns
  BY <1>10 DEF WorkerReturns, storeVars, handlerVars, workerVars, walkVars
<1>11. CASE Load
  BY <1>11 DEF Load, storeVars, handlerVars, workerVars, walkVars
<1>12. ASSUME NEW i \in Ids, RecoverInProgress(i)
       PROVE  (WalkCovers /\ CleanWalkPurges)'
  BY <1>12 DEF RecoverInProgress, SetStatus, handlerVars, workerVars, walkVars
<1>13. CASE RecoveryFails
  BY <1>13 DEF RecoveryFails, LoseMemory
<1>14. CASE Serve
  BY <1>14 DEF Serve, storeVars, handlerVars, workerVars, walkVars
<1>15. CASE Signal
  BY <1>15 DEF Signal, storeVars, handlerVars, workerVars, walkVars
<1>16. CASE Exit
  BY <1>16 DEF Exit, LoseMemory
<1>17. CASE Crash
  BY <1>17 DEF Crash, LoseMemory
<1>18. ASSUME NEW f \in Files, NginxStores(f) PROVE (WalkCovers /\ CleanWalkPurges)'
  BY <1>18 DEF NginxStores, storeVars, handlerVars, workerVars, walkVars, Gone
<1>19. ASSUME NEW f \in Files, NginxEvicts(f) PROVE (WalkCovers /\ CleanWalkPurges)'
  BY <1>19 DEF NginxEvicts, storeVars, handlerVars, workerVars, walkVars, Gone
<1>20. CASE UNCHANGED vars
  BY <1>20 DEF vars, storeVars, handlerVars, workerVars, walkVars
<1> QED
  BY <1>1, <1>2, <1>3, <1>4, <1>5, <1>6, <1>7, <1>8, <1>9, <1>10, <1>11,
     <1>12, <1>13, <1>14, <1>15, <1>16, <1>17, <1>18, <1>19, <1>20
     DEF Next, HandlerStep, WorkerStep, StartupStep

-----------------------------------------------------------------------------
(* The theorems.                                                            *)

\* The conjunction of everything above is an invariant of the pipeline.
THEOREM Inductive == Spec => []IInv
<1>1. Init => IInv
  BY InitDurable, InitOwnership, InitWalk DEF IInv, Durable
<1>2. IInv /\ [Next]_vars => IInv'
  <2> SUFFICES ASSUME IInv, [Next]_vars PROVE IInv'
    OBVIOUS
  <2>1. Durable /\ Ownership /\ WalkCovers /\ CleanWalkPurges
    BY DEF IInv, Durable
  <2>2. Durable' /\ Ownership' /\ WalkCovers' /\ CleanWalkPurges'
    BY <2>1, NextDurable, NextOwnership, NextWalk
  <2> QED
    BY <2>2 DEF IInv, Durable
<1> QED
  BY <1>1, <1>2, PTL DEF Spec

\* Every variable keeps its type; the queue never exceeds its capacity.
THEOREM TypeCorrect == Spec => []TypeOK
  BY Inductive, PTL DEF IInv

\* The index BoltStore answers from always equals what a restart would load.
THEOREM IndexIsDurable == Spec => []WriteThrough
  BY Inductive, PTL DEF IInv

\* Whatever a response has said of a record is on disk, crash or no crash.
THEOREM ResponsesAreDurable == Spec => []ReadsAreDurable
  BY Inductive, PTL DEF IInv

\* While cf-local runs, the InProgress records are exactly those held by one
\* of the handler, the queue and the worker, and the orphans.
THEOREM RecordsAreOwned == Spec => []Ownership
  BY Inductive, PTL DEF IInv

\* A walk that reports no error and passed over nothing has removed every file
\* of the batch that was cached when the record was created.
THEOREM CleanWalksPurge == Spec => []CleanWalkPurges
  BY Inductive, PTL DEF IInv

\* No client sees a record's status go back, across any number of crashes.
THEOREM StatusNeverGoesBack == Spec => ReadsNeverGoBack
<1>1. IInv /\ [Next]_vars => [\A i \in Ids : Rank(seen[i]) <= Rank(seen'[i])]_seen
  <2> SUFFICES ASSUME IInv, [Next]_vars, NEW i \in Ids, seen' # seen
               PROVE  Rank(seen[i]) <= Rank(seen'[i])
    OBVIOUS
  <2> USE DEF IInv, TypeOK, Statuses, Rank
  <2>1. ASSUME NEW c \in Clients, Respond(c)
        PROVE  Rank(seen[i]) <= Rank(seen'[i])
    BY <2>1 DEF Respond, HoldersHaveRecords
  <2>2. ASSUME NEW j \in Ids, Read(j)
        PROVE  Rank(seen[i]) <= Rank(seen'[i])
    <3>1. byID = disk
      BY <2>2 DEF Read, Running, WriteThrough
    <3> QED
      BY <2>2, <3>1 DEF Read, ReadsAreDurable
  <2> QED
    BY <2>1, <2>2
       DEF Next, vars, HandlerStep, WorkerStep, StartupStep, Create, StoreCreate, Enqueue,
           TakeJob, EnterDir, VisitFile, WalkReturns, UpdateStatus,
           WorkerReturns, Load, RecoverInProgress, RecoveryFails, Serve,
           Signal, Exit, Crash, LoseMemory, NginxStores, NginxEvicts
<1> QED
  BY <1>1, Inductive, PTL DEF Spec, ReadsNeverGoBack

\* The worker removes only files matched by the record it is working on, and
\* only while that record is InProgress on disk.
THEOREM PurgesAreScoped == Spec => PurgesOnlyForInProgress
<1> DEFINE Scoped == wpc = "walk" /\ files' # files =>
                       \A f \in cache \ cache' :
                          f \in batch[wjob] /\ disk[wjob] = "InProgress"
<1>1. IInv /\ [Next]_vars => [Scoped]_vars
  <2> SUFFICES ASSUME IInv, Next, wpc = "walk", files' # files,
                      NEW f \in cache \ cache'
               PROVE  f \in batch[wjob] /\ disk[wjob] = "InProgress"
    OBVIOUS
  <2>1. disk[wjob] = "InProgress"
    BY DEF IInv, Quiescent, Running, WriteThrough, HoldersHaveRecords,
           Ownership, EveryRecordOwned, Working
  <2>2. PICK g \in Files : VisitFile(g)
    BY DEF Next, HandlerStep, WorkerStep, StartupStep, Create, StoreCreate, Enqueue,
           Respond, Read, TakeJob, EnterDir, WalkReturns, UpdateStatus,
           WorkerReturns, Load, RecoverInProgress, RecoveryFails, Serve,
           Signal, Exit, Crash, LoseMemory, NginxStores, NginxEvicts,
           workerVars, walkVars
  <2> QED
    BY <2>1, <2>2 DEF VisitFile
<1> QED
  BY <1>1, Inductive, PTL DEF Spec, PurgesOnlyForInProgress

-----------------------------------------------------------------------------
(* The path matcher.                                                        *)

Chars == STRING \cup {"digest", ":", "\n", "*"}

\* What the loop of Size goes through: s has f[n] bytes in its first n
\* characters.
Sizes(f, s) ==
    /\ f \in [0 .. Len(s) -> Nat]
    /\ f[0] = 0
    /\ \A n \in 1 .. Len(s) : f[n] = f[n - 1] + SizeOf(s[n])

\* Size is the last number of such a loop.
LEMMA SizeLoop ==
    ASSUME NEW s \in Seq(Chars)
    PROVE  \E f : Sizes(f, s) /\ Size(s) = f[Len(s)]
<1> DEFINE N == Len(s)
           round == [n \in 1 .. N |-> [m \in Nat |-> m + SizeOf(s[n])]]
           Loop(f) == f = [n \in 0 .. N |->
                              IF n = 0 THEN 0 ELSE f[n - 1] + SizeOf(s[n])]
           size == CHOOSE f : Loop(f)
<1>0. N \in Nat /\ \A c : SizeOf(c) \in Nat
  BY PathAssumption DEF SizeOf
<1>1. Size(s) = size[N]
  BY DEF Size
<1> HIDE DEF N
<1>2. round \in Rounds(N, Nat)
  BY <1>0 DEF Rounds
<1>3. PICK f : Runs(f, N, Nat, 0, round)
  <2> HIDE DEF round
  <2> QED
    BY <1>0, <1>2, BoundedRecursion
<1>4. /\ f \in [0 .. N -> Nat] /\ f[0] = 0
      /\ \A n \in 1 .. N : f[n] = round[n][f[n - 1]]
  BY <1>3 DEF Runs
<1>5. \A n \in 1 .. N : f[n] = f[n - 1] + SizeOf(s[n])
  <2> TAKE n \in 1 .. N
  <2>1. n - 1 \in 0 .. N
    BY <1>0
  <2>2. f[n - 1] \in Nat
    BY <1>4, <2>1
  <2> QED
    BY <1>4, <2>2
<1>6. Loop(f)
  BY <1>4, <1>5
<1>7. Loop(size)
  BY <1>6
<1> HIDE DEF size
<1>8. size[0] = 0 /\ \A n \in 1 .. N : size[n] = size[n - 1] + SizeOf(s[n])
  <2>1. \A n \in 0 .. N : size[n] = IF n = 0 THEN 0 ELSE size[n - 1] + SizeOf(s[n])
    BY <1>7, Zenon
  <2>2. 0 \in 0 .. N /\ \A n \in 1 .. N : n \in 0 .. N /\ n # 0
    BY <1>0
  <2> QED
    BY <2>1, <2>2
<1>9. size \in [0 .. N -> Nat]
  <2> DEFINE S == {n \in 0 .. N : size[n] \in Nat}
  <2>1. 0 \in S
    BY <1>0, <1>8
  <2>2. \A n \in 0 .. N : n < N /\ n \in S => n + 1 \in S
    <3> SUFFICES ASSUME NEW n \in 0 .. N, n < N, n \in S PROVE n + 1 \in S
      OBVIOUS
    <3>1. n + 1 \in 1 .. N /\ n + 1 \in 0 .. N /\ (n + 1) - 1 = n
      BY <1>0
    <3>2. size[n + 1] = size[n] + SizeOf(s[n + 1])
      BY <1>8, <3>1
    <3> QED
      BY <1>0, <3>1, <3>2
  <2>3. 0 .. N \subseteq S
    <3> HIDE DEF S
    <3> QED
      BY <1>0, <2>1, <2>2, BoundedInduction
  <2> QED
    BY <1>7, <2>3
<1> QED
  BY <1>1, <1>8, <1>9 DEF Sizes, N

\* t is s followed by u.
Joined(t, s, u) ==
    /\ Len(t) = Len(s) + Len(u)
    /\ \A i \in 1 .. Len(s) : t[i] = s[i]
    /\ \A i \in 1 .. Len(u) : t[Len(s) + i] = u[i]

\* Concatenation joins two sequences.
LEMMA Concat ==
    ASSUME NEW V, NEW s \in Seq(V), NEW u \in Seq(V)
    PROVE  s \o u \in Seq(V) /\ Joined(s \o u, s, u)
  BY DEF Joined

\* The KEY line of a cache file, with its line break.
KeyLine(raw) == Append(<<"digest", ":">> \o raw, "\n")

\* It is a path between the digest with its colon and the line break.
LEMMA KeyLineIs ==
    ASSUME NEW raw \in Seq(Chars)
    PROVE  /\ KeyLine(raw) \in Seq(Chars) /\ Len(KeyLine(raw)) = Len(raw) + 3
           /\ KeyLine(raw)[1] = "digest" /\ KeyLine(raw)[2] = ":"
           /\ \A i \in 1 .. Len(raw) : KeyLine(raw)[i + 2] = raw[i]
           /\ KeyLine(raw)[Len(raw) + 3] = "\n"
<1> DEFINE front == <<"digest", ":">>
           key == front \o raw
<1>1. front \in Seq(Chars) /\ Len(front) = 2 /\ front[1] = "digest" /\ front[2] = ":"
  BY DEF Chars
<1> HIDE DEF front
<1>2. /\ key \in Seq(Chars) /\ Len(key) = Len(raw) + 2
      /\ key[1] = "digest" /\ key[2] = ":"
      /\ \A i \in 1 .. Len(raw) : key[i + 2] = raw[i]
  <2>1. key \in Seq(Chars) /\ Joined(key, front, raw)
    BY <1>1, Concat
  <2>2. Len(raw) \in Nat
    OBVIOUS
  <2> HIDE DEF key
  <2> QED
    BY <1>1, <2>1, <2>2 DEF Joined
<1> HIDE DEF key
<1>3. "\n" \in Chars /\ Len(raw) \in Nat
  BY DEF Chars
<1>4. /\ Append(key, "\n") \in Seq(Chars) /\ Len(Append(key, "\n")) = Len(key) + 1
      /\ \A i \in 1 .. Len(key) : Append(key, "\n")[i] = key[i]
      /\ Append(key, "\n")[Len(key) + 1] = "\n"
  BY <1>2, <1>3
<1>5. KeyLine(raw) = Append(key, "\n")
  BY DEF KeyLine, key, front
<1> QED
  BY <1>2, <1>3, <1>4, <1>5

\* The line has the size of the path, and 66 bytes more.
LEMMA KeyLineSize ==
    ASSUME NEW raw \in Seq(Chars)
    PROVE  Size(KeyLine(raw)) = Size(raw) + 66 /\ Size(raw) \in Nat
<1> DEFINE N == Len(raw)
           line == KeyLine(raw)
<1>1. /\ line \in Seq(Chars) /\ Len(line) = N + 3
      /\ line[1] = "digest" /\ line[2] = ":" /\ line[N + 3] = "\n"
      /\ \A i \in 1 .. N : line[i + 2] = raw[i]
      /\ N \in Nat
  BY KeyLineIs
<1> HIDE DEF line
<1>2. PICK f : Sizes(f, line) /\ Size(line) = f[Len(line)]
  BY <1>1, SizeLoop
<1>3. PICK g : Sizes(g, raw) /\ Size(raw) = g[Len(raw)]
  BY SizeLoop
<1>4. /\ f[0] = 0 /\ Size(line) = f[N + 3]
      /\ \A n \in 1 .. N + 3 : f[n] = f[n - 1] + SizeOf(line[n])
  BY <1>1, <1>2 DEF Sizes
<1>5. /\ g \in [0 .. N -> Nat] /\ g[0] = 0 /\ Size(raw) = g[N]
      /\ \A n \in 1 .. N : g[n] = g[n - 1] + SizeOf(raw[n])
  BY <1>3 DEF Sizes
<1> HIDE DEF N
<1>6. f[2] = 65
  <2>1. f[1] = f[0] + SizeOf(line[1]) /\ f[2] = f[1] + SizeOf(line[2])
    BY <1>1, <1>4
  <2> QED
    BY <1>1, <1>4, <2>1, PathAssumption
<1> DEFINE S == {n \in 0 .. N : f[n + 2] = g[n] + 65}
<1>7. 0 \in S
  BY <1>1, <1>5, <1>6
<1>8. \A n \in 0 .. N : n < N /\ n \in S => n + 1 \in S
  <2> SUFFICES ASSUME NEW n \in 0 .. N, n < N, n \in S PROVE n + 1 \in S
    OBVIOUS
  <2>1. /\ n + 1 \in 1 .. N /\ n + 3 \in 1 .. N + 3
        /\ (n + 1) - 1 = n /\ (n + 3) - 1 = n + 2 /\ (n + 1) + 2 = n + 3
    BY <1>1
  <2>2. g[n + 1] = g[n] + SizeOf(raw[n + 1])
    BY <1>5, <2>1
  <2>3. f[n + 3] = f[n + 2] + SizeOf(line[n + 3])
    BY <1>4, <2>1
  <2>4. line[n + 3] = raw[n + 1]
    BY <1>1, <2>1
  <2>5. g[n] \in Nat /\ f[n + 2] = g[n] + 65 /\ SizeOf(raw[n + 1]) \in Nat
    BY <1>5, PathAssumption DEF SizeOf
  <2> QED
    BY <2>1, <2>2, <2>3, <2>4, <2>5
<1>9. N \in S
  <2> HIDE DEF S
  <2>1. N \in Nat
    BY <1>1
  <2>2. 0 .. N \subseteq S
    BY <1>7, <1>8, <2>1, BoundedInduction
  <2> QED
    BY <2>1, <2>2
<1>10. f[N + 3] = f[N + 2] + SizeOf(line[N + 3])
  <2>1. N + 3 \in 1 .. N + 3 /\ (N + 3) - 1 = N + 2
    BY <1>1
  <2> QED
    BY <1>4, <2>1
<1>11. Size(raw) \in Nat
  BY <1>1, <1>5
<1>12. SizeOf(line[N + 3]) = 1
  BY <1>1, PathAssumption
<1> QED
  BY <1>4, <1>5, <1>9, <1>10, <1>11, <1>12 DEF line

\* The least element of a set of numbers.
LEMMA MinIs ==
    ASSUME NEW I, I \subseteq Int, NEW p \in I, \A q \in I : p <= q
    PROVE  Min(I) = p
<1>1. \A x \in I : (\A y \in I : x <= y) => x = p
  OBVIOUS
<1> QED
  BY <1>1 DEF Min

\* Requests that nginx does not change, and short enough for their key to be read.
Readable(raw) == raw \in Requests /\ Plain(raw)

\* nginx writes such a request into the file as it was sent ...
LEMMA KeyIsWritten ==
    ASSUME NEW raw, Readable(raw)
    PROVE  CacheKey(raw) = <<"digest", ":">> \o raw
  BY DEF Readable, Plain, CacheKey, Normalized

\* ... and the worker reads all of it back.
LEMMA KeyIsRead ==
    ASSUME NEW raw, Readable(raw)
    PROVE  parseCacheKeyHead(CacheKey(raw)) = <<"digest", ":">> \o raw
<1> DEFINE key == <<"digest", ":">> \o raw
           line == Append(key, "\n")
           N == Len(raw)
           I == {i \in 1 .. Len(line) : line[i] = "\n"}
           end == IF I # {} THEN Min(I) ELSE 0
<1>1. raw \in Seq(STRING) /\ raw \in Seq(Chars) /\ N \in Nat
  BY PathAssumption DEF Readable, Chars
<1>3. CacheKey(raw) = key
  BY KeyIsWritten
<1>4. parseCacheKeyHead(key) =
        IF HeaderBytes + Size(SubSeq(line, 1, end)) > cacheFileHeadBytes THEN None
        ELSE SubSeq(line, 1, end - 1)
  BY DEF parseCacheKeyHead, SelectInSeq
<1>5. /\ line = KeyLine(raw) /\ line \in Seq(Chars) /\ Len(line) = N + 3
      /\ line[1] = "digest" /\ line[2] = ":" /\ line[N + 3] = "\n"
      /\ \A i \in 1 .. N : line[i + 2] = raw[i]
  BY <1>1, KeyLineIs DEF KeyLine
<1>6. key \in Seq(Chars) /\ Len(key) = N + 2 /\ \A i \in 1 .. N + 2 : line[i] = key[i]
  <2>1. <<"digest", ":">> \in Seq(Chars) /\ Len(<<"digest", ":">>) = 2 /\ "\n" \in Chars
    BY DEF Chars
  <2>2. key \in Seq(Chars) /\ Len(key) = 2 + N
    BY <1>1, <2>1
  <2> HIDE DEF key
  <2> QED
    BY <1>1, <2>1, <2>2
<1> HIDE DEF line, key, N
<1>7. end = N + 3
  <2>1. \A i \in 1 .. N : raw[i] # "\n"
    BY <1>1, PathAssumption DEF Readable, Range, N
  <2>2. \A i \in 1 .. N + 2 : line[i] # "\n"
    <3> TAKE i \in 1 .. N + 2
    <3>1. CASE i \in {1, 2}
      BY <1>5, <3>1
    <3>2. CASE i - 2 \in 1 .. N
      <4> DEFINE j == i - 2
      <4>1. j \in 1 .. N /\ i = j + 2
        BY <3>2
      <4> HIDE DEF j
      <4>2. line[j + 2] = raw[j] /\ raw[j] # "\n"
        BY <1>5, <2>1, <4>1
      <4> QED
        BY <4>1, <4>2
    <3> QED
      BY <1>1, <3>1, <3>2
  <2>3. I = {N + 3}
    BY <1>1, <1>5, <2>2
  <2>4. Min(I) = N + 3
    <3>1. N + 3 \in Int
      BY <1>1
    <3>2. I \subseteq Int /\ N + 3 \in I
      BY <2>3, <3>1, Zenon
    <3>3. \A q \in I : N + 3 <= q
      <4> HIDE DEF I
      <4> QED
        BY <2>3, <3>1
    <3> HIDE DEF I
    <3> QED
      BY <3>2, <3>3, MinIs, Zenon
  <2> QED
    BY <2>3, <2>4
<1> HIDE DEF end
<1>8. SubSeq(line, 1, end) = line
  BY <1>1, <1>5, <1>7
<1>9. HeaderBytes + Size(line) <= cacheFileHeadBytes
  <2>1. Size(raw) <= 3000
    BY DEF Readable, Plain
  <2>2. Size(line) = Size(raw) + 66 /\ Size(raw) \in Nat
    BY <1>1, <1>5, KeyLineSize
  <2> QED
    BY <2>1, <2>2 DEF HeaderBytes, cacheFileHeadBytes
<1>10. SubSeq(line, 1, end - 1) = key
  <2> DEFINE head == SubSeq(line, 1, N + 2)
  <2>1. head \in Seq(Chars) /\ Len(head) = N + 2 /\ \A i \in 1 .. N + 2 : head[i] = line[i]
    BY <1>1, <1>5
  <2>2. end - 1 = N + 2
    BY <1>1, <1>7
  <2> HIDE DEF head
  <2>3. head = key
    BY <1>1, <1>6, <2>1
  <2> QED
    BY <2>2, <2>3 DEF head
<1>11. Size(line) \in Nat /\ HeaderBytes \in Nat /\ cacheFileHeadBytes \in Nat
  BY <1>1, <1>5, KeyLineSize DEF HeaderBytes, cacheFileHeadBytes
<1>12. ~ (HeaderBytes + Size(SubSeq(line, 1, end)) > cacheFileHeadBytes)
  <2> DEFINE m == Size(line)
             c == cacheFileHeadBytes
             h == HeaderBytes
  <2>1. m \in Nat /\ h \in Nat /\ c \in Nat /\ h + m <= c
    BY <1>9, <1>11
  <2> HIDE DEF m, c, h
  <2>2. ~ (h + m > c)
    BY <2>1
  <2> QED
    BY <1>8, <2>2 DEF m, c, h
<1>13. parseCacheKeyHead(key) = key
  BY <1>4, <1>10, <1>12, Zenon
<1> QED
  BY <1>3, <1>13 DEF key

\* The path of a request follows the first colon of its key.
LEMMA PathIsFound ==
    ASSUME NEW raw \in Seq(Chars), NEW pattern
    PROVE  shouldPurge(<<"digest", ":">> \o raw, pattern) <=> Match(pattern, raw)
<1> DEFINE key == <<"digest", ":">> \o raw
           N == Len(raw)
           I == {i \in 1 .. Len(key) : key[i] = ":"}
           idx == IF I # {} THEN Min(I) ELSE 0
<1>1. shouldPurge(key, pattern) <=> idx # 0 /\ Match(pattern, SubSeq(key, idx + 1, Len(key)))
  BY DEF shouldPurge, SelectInSeq
<1>2. <<"digest", ":">> \in Seq(Chars) /\ Len(<<"digest", ":">>) = 2 /\ N \in Nat
  BY DEF Chars
<1>3. /\ key \in Seq(Chars) /\ Len(key) = N + 2
      /\ key[1] = "digest" /\ key[2] = ":" /\ \A i \in 1 .. N : key[i + 2] = raw[i]
  BY <1>2
<1> HIDE DEF key, N
<1>4. idx = 2
  <2>1. 2 \in I /\ 1 \notin I /\ I \subseteq Nat \ {0}
    BY <1>2, <1>3
  <2> HIDE DEF I
  <2>2. \A q \in I : 2 <= q
    BY <2>1
  <2>3. I \subseteq Int
    BY <2>1
  <2>4. Min(I) = 2
    BY <2>1, <2>2, <2>3, MinIs
  <2> QED
    BY <2>1, <2>4
<1>5. SubSeq(key, 3, Len(key)) = raw
  <2> DEFINE rest == SubSeq(key, 3, N + 2)
  <2>1. rest \in Seq(Chars) /\ Len(rest) = N /\ \A i \in 1 .. N : rest[i] = key[i + 2]
    BY <1>2, <1>3
  <2>2. Len(raw) = N
    BY DEF N
  <2> HIDE DEF rest
  <2>3. rest = raw
    BY <1>2, <1>3, <2>1, <2>2
  <2> QED
    BY <1>3, <2>3 DEF rest
<1> HIDE DEF idx
<1>6. idx + 1 = 3 /\ idx # 0
  BY <1>4
<1>7. SubSeq(key, idx + 1, Len(key)) = raw
  BY <1>5, <1>6, Zenon
<1> QED
  BY <1>1, <1>6, <1>7, Zenon DEF key

\* A path ends in a star when that is its last character.
LEMMA StarIsLast ==
    ASSUME NEW path \in Seq(Chars)
    PROVE  IsSuffix(<<"*">>, path) <=> path # <<>> /\ Last(path) = "*"
<1> DEFINE r == Reverse(path)
           star == <<"*">>
           N == Len(path)
<1>1. star \in Seq(Chars) /\ Len(star) = 1 /\ star[1] = "*" /\ N \in Nat
  BY DEF Chars
<1>2. Reverse(star) = star
  BY DEF Reverse
<1>3. r \in Seq(Chars) /\ Len(r) = N /\ (N > 0 => r[1] = path[N])
  BY DEF Reverse
<1>4. path = <<>> <=> N = 0
  OBVIOUS
<1> HIDE DEF r, star, N
<1>5. IsSuffix(star, path) <=> 1 <= N /\ SubSeq(star, 1, 1) = SubSeq(r, 1, 1)
  BY <1>1, <1>2, <1>3 DEF IsSuffix, IsPrefix, r
<1>6. SubSeq(star, 1, 1) = star
  BY <1>1
<1>7. ASSUME 1 <= N PROVE SubSeq(r, 1, 1) = star <=> r[1] = "*"
  <2> DEFINE h == SubSeq(r, 1, 1)
  <2>1. h \in Seq(Chars) /\ Len(h) = 1 /\ h[1] = r[1]
    BY <1>1, <1>3, <1>7
  <2> HIDE DEF h
  <2>2. h = star <=> h[1] = star[1]
    BY <1>1, <2>1
  <2> QED
    BY <1>1, <2>1, <2>2 DEF h
<1> QED
  BY <1>1, <1>3, <1>4, <1>5, <1>6, <1>7 DEF Last, N, star

\* The pattern of a path matches what the path covers.
LEMMA MatchesCovered ==
    ASSUME NEW path \in Seq(Chars), NEW raw \in Seq(Chars)
    PROVE  Match(ParsePattern(path), raw) <=> Covers(path, raw)
<1> DEFINE star == IsSuffix(<<"*">>, path)
           p == ParsePattern(path)
           front == SubSeq(path, 1, Len(path) - 1)
<1>1. star <=> path # <<>> /\ Last(path) = "*"
  BY StarIsLast
<1>2. p.isWildcard = star /\ p.prefix = IF star THEN front ELSE path
  BY DEF ParsePattern, Front
<1>3. Match(p, raw) <=> IF star THEN IsPrefix(front, raw) ELSE raw = path
  BY <1>2 DEF Match
<1>4. Covers(path, raw) <=> path = raw \/ (star /\ IsPrefix(front, raw))
  BY <1>1 DEF Covers
<1>5. ASSUME star, path = raw PROVE IsPrefix(front, raw)
  <2> DEFINE N == Len(path)
             M == N - 1
  <2>1. N \in Nat /\ N > 0
    BY <1>1, <1>5
  <2>2. front \in Seq(Chars) /\ Len(front) = M /\ M \in Nat
    <3>1. front = SubSeq(path, 1, M)
      OBVIOUS
    <3>2. 1 \in 1 .. N + 1 /\ M \in 0 .. N /\ M \in Nat
      BY <2>1
    <3> HIDE DEF M, front
    <3> QED
      BY <2>1, <3>1, <3>2
  <2>3. front = SubSeq(raw, 1, M)
    BY <1>5
  <2>4. SubSeq(front, 1, M) = front
    BY <2>1, <2>2
  <2>5. M <= Len(raw)
    BY <1>5, <2>1
  <2> HIDE DEF front, N, M
  <2> QED
    BY <2>2, <2>3, <2>4, <2>5 DEF IsPrefix
<1> HIDE DEF star, p, front
<1> QED
  BY <1>3, <1>4, <1>5 DEF p

\* For a plain request the worker's predicate decides what CloudFront's rule
\* says, whatever colons and stars the path and the request contain.
LEMMA PredicateIsExact ==
    ASSUME NEW path \in Accepted, NEW R, \A raw \in R : Readable(raw)
    PROVE  Purged(path, R) = Covered(path, R)
<1>1. path \in Seq(Chars)
  BY PathAssumption DEF Accepted, Chars
<1>2. ASSUME NEW raw \in R
      PROVE  (IF parseCacheKeyHead(CacheKey(raw)) = None THEN FALSE
              ELSE shouldPurge(parseCacheKeyHead(CacheKey(raw)), ParsePattern(path)))
             <=> Covers(path, raw)
  <2> DEFINE key == <<"digest", ":">> \o raw
  <2>1. Readable(raw) /\ raw \in Seq(Chars)
    BY <1>2, PathAssumption DEF Readable, Chars
  <2>2. parseCacheKeyHead(CacheKey(raw)) = key
    BY <2>1, KeyIsRead
  <2>3. key # None
    BY <2>1, KeyIsWritten, PathAssumption DEF Readable
  <2>4. shouldPurge(key, ParsePattern(path)) <=> Covers(path, raw)
    BY <1>1, <2>1, PathIsFound, MatchesCovered
  <2> HIDE DEF key
  <2> QED
    BY <2>2, <2>3, <2>4
<1> QED
  BY <1>2 DEF Purged, Covered

\* The matcher agrees with CloudFront's rule on every plain request.
LEMMA MatcherIsExact == MatcherExact
<1> DEFINE plain == {raw \in Requests : Plain(raw)}
<1>1. \A raw \in plain : Readable(raw)
  BY DEF Readable
<1> HIDE DEF plain
<1>2. \A path \in Accepted : Purged(path, plain) = Covered(path, plain)
  BY <1>1, PredicateIsExact
<1> QED
  BY <1>2 DEF MatcherExact, plain

\* Only Create gives a record its batch, and no status changes without one.
LEMMA NextBatches ==
    ASSUME IInv, BatchesAreSent, [Next]_vars
    PROVE  BatchesAreSent'
<1> USE DEF IInv, TypeOK, Statuses, BatchesAreSent
<1>1. ASSUME NEW c \in Clients, Create(c) PROVE BatchesAreSent'
  BY <1>1 DEF Create, StoreCreate, SetStatus
<1>2. CASE UpdateStatus
  <2>1. batch' = batch /\ (disk' = disk \/ disk' = [disk EXCEPT ![wjob] = "Completed"])
    BY <1>2 DEF UpdateStatus, SetStatus, PersistFails
  <2>2. wjob \in Ids /\ disk[wjob] # "None"
    BY <1>2 DEF UpdateStatus, Running, WriteThrough, HoldersHaveRecords,
                Ownership, EveryRecordOwned, Working
  <2> QED
    BY <2>1, <2>2
<1>3. ASSUME NEW i \in Ids, RecoverInProgress(i) PROVE BatchesAreSent'
  <2>1. disk[i] # "None"
    BY <1>3 DEF RecoverInProgress, WriteThrough
  <2> QED
    BY <1>3, <2>1 DEF RecoverInProgress, SetStatus
<1>4. ASSUME disk' = disk, batch' = batch PROVE BatchesAreSent'
  BY <1>4
<1> QED
  BY <1>1, <1>2, <1>3, <1>4
     DEF Next, vars, HandlerStep, WorkerStep, StartupStep, Enqueue, Respond, Read,
         TakeJob, EnterDir, VisitFile, WalkReturns, WorkerReturns, Load,
         RecoveryFails, Serve, Signal, Exit, Crash, LoseMemory, NginxStores,
         NginxEvicts, storeVars

\* Every record's batch is what its path covers, for all accepted paths and for
\* requests that nginx does not normalize (Plain): ParsePattern, Match, the KEY line and the worker's
\* predicate together neither miss a file nor take one too many.
THEOREM PathsAreExact == Spec => []PlainPathsExact
<1>1. Init => BatchesAreSent
  BY DEF Init, BatchesAreSent
<1>2. IInv /\ BatchesAreSent /\ [Next]_vars => BatchesAreSent'
  BY NextBatches
<1>3. BatchesAreSent => PlainPathsExact
  <2> SUFFICES ASSUME BatchesAreSent, NEW i \in Ids, disk[i] # "None"
               PROVE  \E path \in Accepted : batch[i] = Covered(path, Files)
    BY MatcherIsExact DEF PlainPathsExact
  <2>1. PICK path \in Accepted : batch[i] = Purged(path, Files)
    BY BatchAssumption DEF BatchesAreSent
  <2>2. \A raw \in Files : Readable(raw)
    BY BatchAssumption DEF Readable
  <2> QED
    BY <2>1, <2>2, PredicateIsExact
<1> QED
  BY <1>1, <1>2, <1>3, Inductive, PTL DEF Spec
=============================================================================
