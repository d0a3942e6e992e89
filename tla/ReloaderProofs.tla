--------------------------- MODULE ReloaderProofs ---------------------------
(***************************************************************************)
(* Proofs about Reloader, for any number of distributions, mutations and   *)
(* stops: the type invariant, that no mutation is lost, that published     *)
(* files never go back, and that the loop implements Publication.  The     *)
(* inductive invariant is IInv of that module.                             *)
(*                                                                         *)
(* And about ReloadPipeline: the control plane in it is still Reloader, no *)
(* rename goes unnoticed, and a pipeline at rest has carried every         *)
(* mutation to nginx.                                                      *)
(***************************************************************************)
EXTENDS ReloadPipeline, ReloaderPublishes, TLAPS

\* Every step of the stores, the reloader and the process is well typed.
LEMMA NextTyped == TypeOK /\ [Next]_vars => TypeOK'
<1> SUFFICES ASSUME TypeOK, [Next]_vars PROVE TypeOK'
    OBVIOUS
<1> USE ReloaderAssumption DEF TypeOK, Versions, storeVars, loopVars
<1>1. CASE MutateCachePolicy
    BY <1>1 DEF MutateCachePolicy, Mutate, Trigger
<1>2. CASE MutateResponseHeadersPolicy
    BY <1>2 DEF MutateResponseHeadersPolicy, Mutate, Trigger
<1>3. CASE MutateOriginRequestPolicy
    BY <1>3 DEF MutateOriginRequestPolicy, Mutate, Trigger
<1>4. ASSUME NEW d \in Dists, PutDistribution(d) PROVE TypeOK'
    BY <1>4 DEF PutDistribution, Mutate, Trigger
<1>5. ASSUME NEW d \in Dists, DeleteDistribution(d) PROVE TypeOK'
    BY <1>5 DEF DeleteDistribution, Mutate, Trigger
<1>6. CASE Debounce
    BY <1>6 DEF Debounce
<1>7. CASE FetchCachePolicies
    BY <1>7 DEF FetchCachePolicies
<1>8. CASE FetchResponseHeadersPolicies
    BY <1>8 DEF FetchResponseHeadersPolicies
<1>9. CASE FetchDistribution
    BY <1>9 DEF FetchDistribution, WithDistribution, Present
<1>10. CASE Render
    BY <1>10 DEF Render
<1>11. CASE WritePolicies
    BY <1>11 DEF WritePolicies, WriteAtomic
<1>12. CASE WriteConf
    BY <1>12 DEF WriteConf, WriteAtomic
<1>13. CASE ReloaderReturns
    BY <1>13 DEF ReloaderReturns
<1>14. CASE BootPolicies
    BY <1>14 DEF BootPolicies, FromFiles
<1>15. CASE BootConf
    BY <1>15 DEF BootConf, FileConf
<1>16. CASE Serve
    BY <1>16 DEF Serve
<1>17. CASE BootFails
    BY <1>17 DEF BootFails, LoseMemory, NoSnap
<1>18. CASE Signal
    BY <1>18 DEF Signal
<1>19. CASE Exit
    BY <1>19 DEF Exit, LoseMemory, NoSnap
<1>20. CASE Crash
    BY <1>20 DEF Crash, LoseMemory, NoSnap
<1>21. CASE UNCHANGED vars
    BY <1>21 DEF vars
<1> QED
    BY <1>1, <1>2, <1>3, <1>4, <1>5, <1>6, <1>7, <1>8, <1>9, <1>10,
       <1>11, <1>12, <1>13, <1>14, <1>15, <1>16, <1>17, <1>18, <1>19, <1>20,
       <1>21
    DEF Next, StoreStep, LoopStep, BootStep

\* Mutation numbers only grow, and what a render has read lies between what is
\* published and what the stores hold.
LEMMA NextOrdered ==
    ASSUME TypeOK, TypeOK', Ordered, SnapshotOrdered, Stopped, [Next]_vars
    PROVE  Ordered' /\ SnapshotOrdered'
<1> USE ReloaderAssumption DEF TypeOK, Versions, NoFile, FromFiles, storeVars,
        loopVars, Ordered, SnapshotOrdered, Present
<1>1. CASE MutateCachePolicy
    BY <1>1 DEF MutateCachePolicy, Mutate, Trigger
<1>2. CASE MutateResponseHeadersPolicy
    BY <1>2 DEF MutateResponseHeadersPolicy, Mutate, Trigger
<1>3. CASE MutateOriginRequestPolicy
    BY <1>3 DEF MutateOriginRequestPolicy, Mutate, Trigger
<1>4. ASSUME NEW d \in Dists, PutDistribution(d)
      PROVE  Ordered' /\ SnapshotOrdered'
    BY <1>4 DEF PutDistribution, Mutate, Trigger
<1>5. ASSUME NEW d \in Dists, DeleteDistribution(d)
      PROVE  Ordered' /\ SnapshotOrdered'
    BY <1>5 DEF DeleteDistribution, Mutate, Trigger
<1>6. CASE Debounce
    BY <1>6 DEF Debounce
<1>7. CASE FetchCachePolicies
    BY <1>7 DEF FetchCachePolicies
<1>8. CASE FetchResponseHeadersPolicies
    BY <1>8 DEF FetchResponseHeadersPolicies
<1>9. CASE FetchDistribution
    BY <1>9 DEF FetchDistribution, WithDistribution
<1>10. CASE Render
    BY <1>10 DEF Render
<1>11. CASE WritePolicies
    BY <1>11 DEF WritePolicies, WriteAtomic
<1>12. CASE WriteConf
    BY <1>12 DEF WriteConf, WriteAtomic
<1>13. CASE ReloaderReturns
    BY <1>13 DEF ReloaderReturns
<1>14. CASE BootPolicies
    BY <1>14 DEF BootPolicies, Stopped, Running
<1>15. CASE BootConf
    BY <1>15 DEF BootConf, FileConf, Stopped, Running
<1>16. CASE Serve
    BY <1>16 DEF Serve
<1>17. CASE BootFails
    BY <1>17 DEF BootFails, LoseMemory
<1>18. CASE Signal
    BY <1>18 DEF Signal
<1>19. CASE Exit
    BY <1>19 DEF Exit, LoseMemory
<1>20. CASE Crash
    BY <1>20 DEF Crash, LoseMemory
<1>21. CASE UNCHANGED vars
    BY <1>21 DEF vars
<1> QED
    BY <1>1, <1>2, <1>3, <1>4, <1>5, <1>6, <1>7, <1>8, <1>9, <1>10,
       <1>11, <1>12, <1>13, <1>14, <1>15, <1>16, <1>17, <1>18, <1>19, <1>20,
       <1>21
    DEF Next, StoreStep, LoopStep, BootStep

\* A store changes only together with a trigger, and a trigger leaves the
\* channel only to arm the timer, the timer only to start a render.
LEMMA NextMissesNothing ==
    ASSUME TypeOK, TypeOK', Ordered, SnapshotOrdered, NothingMissed, Stopped,
           NoLostUpdate, [Next]_vars
    PROVE  NothingMissed' /\ Stopped' /\ NoLostUpdate'
<1> USE ReloaderAssumption DEF TypeOK, Versions, storeVars, loopVars, Running,
        NothingMissed, DistCurrent, Present, Stopped, NoLostUpdate
<1>1. CASE MutateCachePolicy
    BY <1>1 DEF MutateCachePolicy, Mutate, Trigger, Current
<1>2. CASE MutateResponseHeadersPolicy
    BY <1>2 DEF MutateResponseHeadersPolicy, Mutate, Trigger, Current
<1>3. CASE MutateOriginRequestPolicy
    BY <1>3 DEF MutateOriginRequestPolicy, Mutate, Trigger, Current
<1>4. ASSUME NEW d \in Dists, PutDistribution(d)
      PROVE  NothingMissed' /\ Stopped' /\ NoLostUpdate'
    BY <1>4 DEF PutDistribution, Mutate, Trigger, Current
<1>5. ASSUME NEW d \in Dists, DeleteDistribution(d)
      PROVE  NothingMissed' /\ Stopped' /\ NoLostUpdate'
    BY <1>5 DEF DeleteDistribution, Mutate, Trigger, Current
<1>6. CASE Debounce
    BY <1>6 DEF Debounce, Current
<1>7. CASE FetchCachePolicies
    BY <1>7 DEF FetchCachePolicies, Current
<1>8. CASE FetchResponseHeadersPolicies
    BY <1>8 DEF FetchResponseHeadersPolicies, Current
<1>9. CASE FetchDistribution
    BY <1>9 DEF FetchDistribution, WithDistribution, Current
<1>10. CASE Render
    BY <1>10 DEF Render, Current
<1>11. CASE WritePolicies
    BY <1>11 DEF WritePolicies, WriteAtomic, Current
<1>12. CASE WriteConf
    BY <1>12 DEF WriteConf, WriteAtomic, Current
<1>13. CASE ReloaderReturns
    BY <1>13 DEF ReloaderReturns, Current
<1>14. CASE BootPolicies
    BY <1>14 DEF BootPolicies, Current
<1>15. CASE BootConf
    BY <1>15 DEF BootConf, Current
<1>16. CASE Serve
    BY <1>16 DEF Serve, Ordered
<1>17. CASE BootFails
    BY <1>17 DEF BootFails, LoseMemory, Current
<1>18. CASE Signal
    BY <1>18 DEF Signal, Current
<1>19. CASE Exit
    BY <1>19 DEF Exit, LoseMemory, Current
<1>20. CASE Crash
    BY <1>20 DEF Crash, LoseMemory, Current
<1>21. CASE UNCHANGED vars
    BY <1>21 DEF vars, Current
<1> QED
    BY <1>1, <1>2, <1>3, <1>4, <1>5, <1>6, <1>7, <1>8, <1>9, <1>10,
       <1>11, <1>12, <1>13, <1>14, <1>15, <1>16, <1>17, <1>18, <1>19, <1>20,
       <1>21
    DEF Next, StoreStep, LoopStep, BootStep

\* IInv is an inductive invariant of the reloader: no trigger, failure, crash or
\* restart leads out of it.
THEOREM Inductive == Spec => []IInv
<1>1. Init => IInv
    BY ReloaderAssumption
    DEF Init, IInv, TypeOK, Versions, NoSnap, NoConf, NoFile, FromFiles, Ordered,
        SnapshotOrdered, NothingMissed, Stopped, NoLostUpdate, Running, Present
<1>2. IInv /\ [Next]_vars => IInv'
    BY NextTyped, NextOrdered, NextMissesNothing DEF IInv
<1>3. QED
    BY <1>1, <1>2, PTL DEF Spec

\* The reloader's variables keep their types whatever happens.
THEOREM TypeCorrect == Spec => []TypeOK
    BY Inductive, PTL DEF IInv

\* However mutations interleave with the debounce window and with the render
\* that reads the stores, a reloader at rest has published all of them.
THEOREM NoUpdateIsLost == Spec => []NoLostUpdate
    BY Inductive, PTL DEF IInv

\* A running process never replaces a file by an older version of it.
THEOREM PublicationsNeverGoBack == Spec => NeverGoesBack
<1> DEFINE Forward ==
        proc # "down" /\ proc # "booting" =>
          /\ policies <= policies'
          /\ conf.rhp <= conf'.rhp
          /\ conf.dist = conf'.dist => conf.ver <= conf'.ver
<1>1. ASSUME IInv, [Next]_vars PROVE [Forward]_<<policies, conf>>
  <2> USE <1>1 DEF IInv
  <2>1. CASE WritePolicies
      BY <2>1 DEF WritePolicies, WriteAtomic, TypeOK, Versions, NoFile, FromFiles,
                  SnapshotOrdered
  <2>2. CASE WriteConf
    <3>1. /\ policies' = policies
          /\ conf' = conf \/ conf' = [dist |-> snap.dist, ver |-> snap.ver,
                                      rhp |-> snap.rhp]
        BY <2>2 DEF WriteConf, WriteAtomic
    <3>2. CASE conf' = conf
        BY <3>1, <3>2
    <3>3. CASE conf' = [dist |-> snap.dist, ver |-> snap.ver, rhp |-> snap.rhp]
      <4>1. conf.rhp <= snap.rhp /\ (conf.dist = snap.dist => conf.ver <= snap.ver)
          BY <2>2 DEF WriteConf, SnapshotOrdered
      <4>2. policies <= policies'
          BY <3>1 DEF TypeOK, Versions, NoFile, FromFiles
      <4>3. QED
          BY <3>3, <4>1, <4>2
    <3>4. QED
        BY <3>1, <3>2, <3>3
  <2>3. CASE BootPolicies \/ BootConf
      BY <2>3 DEF BootPolicies, BootConf
  <2>4. CASE UNCHANGED <<policies, conf>>
      BY <2>4
  <2>5. QED
      BY <1>1, <2>1, <2>2, <2>3, <2>4
      DEF Next, vars, StoreStep, MutateCachePolicy, MutateResponseHeadersPolicy,
          MutateOriginRequestPolicy, PutDistribution, DeleteDistribution, Mutate,
          LoopStep, Debounce, FetchCachePolicies, FetchResponseHeadersPolicies,
          FetchDistribution, Render, ReloaderReturns, BootStep, Serve, BootFails,
          Signal, Exit, Crash
<1>2. QED
    BY <1>1, Inductive, PTL DEF Spec, NeverGoesBack

-----------------------------------------------------------------------------
(* The refinement: every step of the reloader is one of Publication.        *)

\* A mutation changes one store and leaves a trigger in the channel.
LEMMA MutationIsChange ==
    ASSUME IInv, StoreStep
    PROVE  P!Change
<1> USE DEF P!Change, Mutate, Trigger, Owed, Running
<1>1. /\ Running /\ Owed' /\ clock' = clock + 1
      /\ UNCHANGED <<proc, policies, conf, lastErr>>
    BY DEF StoreStep, MutateCachePolicy, MutateResponseHeadersPolicy,
       MutateOriginRequestPolicy, PutDistribution, DeleteDistribution
<1> DEFINE s == [cp |-> cp, rhp |-> rhp, dist |-> dist]
<1>2. \/ s' = [s EXCEPT !.cp = clock + 1]
      \/ s' = [s EXCEPT !.rhp = clock + 1]
      \/ s' = s
      \/ \E d \in Dists : \E v \in {0, clock + 1} : s' = [s EXCEPT !.dist[d] = v]
  <2>1. CASE MutateCachePolicy
      BY <2>1 DEF MutateCachePolicy
  <2>2. CASE MutateResponseHeadersPolicy
      BY <2>2 DEF MutateResponseHeadersPolicy
  <2>3. CASE MutateOriginRequestPolicy
      BY <2>3 DEF MutateOriginRequestPolicy
  <2>4. ASSUME NEW d \in Dists, PutDistribution(d)
        PROVE  s' = [s EXCEPT !.dist[d] = clock + 1]
      BY <2>4 DEF PutDistribution
  <2>5. ASSUME NEW d \in Dists, DeleteDistribution(d)
        PROVE  s' = [s EXCEPT !.dist[d] = 0]
      BY <2>5 DEF DeleteDistribution
  <2>6. QED
      BY <2>1, <2>2, <2>3, <2>4, <2>5 DEF StoreStep
<1>3. QED
    BY <1>1, <1>2

\* What the loop does to the files happens while something is owed, and only a
\* render that has missed nothing ends with neither a debt nor an error.
LEMMA WriteIsFollow ==
    ASSUME IInv, WritePolicies \/ WriteConf
    PROVE  P!Follow
<1> USE ReloaderAssumption DEF IInv
<1>1. /\ Running /\ Owed
      /\ Running' /\ UNCHANGED <<proc, clock, cp, rhp, dist, trigger, timer, snap>>
    BY DEF WritePolicies, WriteConf, Owed, Running, storeVars
<1>2. CASE WritePolicies
  <2>1. /\ conf' = conf
        /\ policies' = policies \/ policies' = snap.cp
      BY <1>2 DEF WritePolicies, WriteAtomic
  <2>2. policies' = policies \/ (policies < policies' /\ policies' <= cp)
      BY <1>2, <2>1 DEF WritePolicies, SnapshotOrdered, TypeOK, Versions, NoFile, FromFiles
  <2>3. ASSUME ~Owed', lastErr' # "error" PROVE Current'
    <3>1. trigger = "empty" /\ timer = "off" /\ rpc' # "conf"
        BY <1>1, <2>3 DEF Owed, TypeOK
    <3>2. snap.dist = NoDist /\ policies' = snap.cp
        BY <1>2, <2>3, <3>1 DEF WritePolicies, WriteAtomic
    <3>3. snap.cp = cp /\ Present = {}
        BY <1>1, <1>2, <3>1, <3>2 DEF WritePolicies, NothingMissed, DistCurrent, Present
    <3>4. QED
        BY <1>1, <3>2, <3>3 DEF Current, Present
  <2>4. QED
      BY <1>1, <2>1, <2>2, <2>3
      DEF P!Follow, P!Current, P!Present, Current, Present, Running, Owed
<1>3. CASE WriteConf
  <2> DEFINE new == [dist |-> snap.dist, ver |-> snap.ver, rhp |-> snap.rhp]
  <2>1. /\ policies' = policies
        /\ conf' = conf \/ conf' = new
      BY <1>3 DEF WriteConf, WriteAtomic
  <2>2. /\ snap.dist \in Dists
        /\ snap.dist = conf.dist => conf.ver <= snap.ver
        /\ snap.ver <= clock
        /\ conf.rhp <= snap.rhp /\ snap.rhp <= rhp
      BY <1>3 DEF WriteConf, SnapshotOrdered
  <2>3. ASSUME ~Owed', lastErr' # "error" PROVE Current'
    <3>1. trigger = "empty" /\ timer = "off" /\ conf' = new
        BY <1>1, <1>3, <2>3 DEF WriteConf, WriteAtomic, Owed, TypeOK
    <3>2. policies = cp /\ snap.rhp = rhp /\ DistCurrent
        BY <1>1, <1>3, <3>1 DEF WriteConf, NothingMissed
    <3>3. QED
        BY <1>1, <2>1, <3>1, <3>2 DEF Current, Present, DistCurrent
  <2>4. QED
      BY <1>1, <2>1, <2>2, <2>3
      DEF P!Follow, P!Current, P!Present, Current, Present, Running, Owed
<1>4. QED
    BY <1>2, <1>3

\* The steps of the loop that write nothing keep the debt, except for a render
\* that is refused: it ends with an error.
LEMMA LoopFollowsOrStutters ==
    ASSUME IInv, LoopStep
    PROVE  P!Follow \/ UNCHANGED P!vars
<1> USE DEF IInv
<1>1. CASE WritePolicies \/ WriteConf
    BY <1>1, WriteIsFollow
<1>2. CASE Render
  <2>1. /\ Running /\ Owed /\ Running'
        /\ UNCHANGED <<proc, clock, cp, rhp, dist, policies, conf>>
        /\ Owed' \/ lastErr' = "error"
      BY <1>2 DEF Render, Owed, Running, storeVars
  <2>2. QED
      BY <2>1 DEF P!Follow, Running, Owed
<1>3. CASE ReloaderReturns
    BY <1>3 DEF ReloaderReturns, P!vars, Owed, Running, storeVars
<1>4. CASE Debounce \/ FetchCachePolicies \/ FetchResponseHeadersPolicies \/ FetchDistribution
  <2>1. /\ Running /\ Owed /\ Running' /\ Owed'
        /\ UNCHANGED <<proc, clock, cp, rhp, dist, policies, conf, lastErr>>
      BY <1>4 DEF Debounce, FetchCachePolicies, FetchResponseHeadersPolicies,
         FetchDistribution, Owed, Running, storeVars
  <2>2. QED
      BY <2>1 DEF P!vars, Running
<1>5. QED
    BY <1>1, <1>2, <1>3, <1>4 DEF LoopStep

\* A boot writes files while Publication is down; a process that stops, or that
\* never came up, owes nothing any more.
LEMMA ProcessStartsOrStops ==
    ASSUME IInv, BootStep \/ BootFails \/ Signal \/ Exit \/ Crash
    PROVE  P!Start \/ P!Stop
<1> USE DEF IInv, Running, Owed
<1>1. CASE BootStep
  <2>1. /\ ~Running /\ ~Owed /\ ~Owed' /\ proc' \in {"booting", "booted", "serving"}
        /\ UNCHANGED <<clock, cp, rhp, dist, lastErr>>
      BY <1>1 DEF BootStep, BootPolicies, BootConf, Serve, Stopped, storeVars, loopVars
  <2>2. /\ policies' \in {policies, FromFiles}
        /\ conf' \in {conf, FileConf}
      BY <1>1 DEF BootStep, BootPolicies, BootConf, Serve
  <2>3. QED
      BY <2>1, <2>2 DEF P!Start, P!FromFiles, FromFiles, FileConf
<1>2. CASE Signal
    BY <1>2 DEF Signal, P!Stop, storeVars, loopVars
<1>3. CASE BootFails \/ Exit \/ Crash
    BY <1>3 DEF BootFails, Exit, Crash, LoseMemory, P!Stop, storeVars
<1>4. QED
    BY <1>1, <1>2, <1>3

\* Reloader.Run, the stores and main implement Publication: the files follow
\* the stores, never run ahead of them or go back, and the loop comes to rest
\* only with current files or with an error to show for it.
THEOREM ReloaderImplementsPublication == Spec => Publishes
<1>1. Init => P!Init
    BY DEF Init, P!Init, Owed, Running, NoFile, P!NoFile, NoConf
<1>2. IInv /\ [Next]_vars => [P!Next]_P!vars
  <2> SUFFICES ASSUME IInv, [Next]_vars PROVE P!Next \/ UNCHANGED P!vars
      OBVIOUS
  <2>1. CASE StoreStep
      BY <2>1, MutationIsChange DEF P!Next
  <2>2. CASE LoopStep
      BY <2>2, LoopFollowsOrStutters DEF P!Next
  <2>3. CASE BootStep \/ BootFails \/ Signal \/ Exit \/ Crash
      BY <2>3, ProcessStartsOrStops DEF P!Next
  <2>4. CASE UNCHANGED vars
      BY <2>4 DEF vars, P!vars, storeVars, loopVars, Owed, Running
  <2>5. QED
      BY <2>1, <2>2, <2>3, <2>4 DEF Next
<1>3. QED
    BY <1>1, <1>2, Inductive, PTL DEF Spec, Publishes, P!Spec

-----------------------------------------------------------------------------
(* The pipeline. *)


\* A rename while nginx is there leaves an event or is known to be lost.
LEMMA ControlPlanePreserves ==
    ASSUME PipelineIInv, ControlPlane
    PROVE  PipelineIInv'
<1> USE DEF PipelineIInv, PipelineTypeOK, WatcherThere, Noticed
<1>1. CASE Notice
  <2>1. PipelineTypeOK' /\ WatcherThere'
      BY <1>1 DEF Notice, nginxVars
  <2>2. ASSUME nginx \in {"loaded", "up"} PROVE pipe' > 0 \/ lost'
    <3>1. CASE stream = "open"
        BY <1>1, <3>1 DEF Notice
    <3>2. CASE stream = "dead" \/ wpc = "starting"
        BY <1>1, <3>2 DEF Notice
    <3>3. QED
        BY <2>2, <3>1, <3>2
  <2>3. QED
      BY <1>1, <2>1, <2>2 DEF Notice, nginxVars
<1>2. CASE Files' = Files /\ UNCHANGED containerVars
    BY <1>2 DEF containerVars, watcherVars, nginxVars
<1>3. QED
    BY <1>1, <1>2 DEF ControlPlane

\* The watcher passes an event on until nginx gets a HUP or refuses it.
LEMMA WatcherPreserves ==
    ASSUME PipelineIInv, WatcherStep, UNCHANGED vars
    PROVE  PipelineIInv'
<1> USE DEF PipelineIInv, PipelineTypeOK, WatcherThere, Noticed, nginxVars
<1>0. Files' = Files
    BY DEF Files, vars
<1>1. CASE WatchDirectory
    BY <1>0, <1>1 DEF WatchDirectory
<1>2. CASE ReadEvent
    BY <1>0, <1>2 DEF ReadEvent
<1>3. CASE AbsorbEvent
    BY <1>0, <1>3 DEF AbsorbEvent
<1>4. CASE DebounceEnds
    BY <1>0, <1>4 DEF DebounceEnds
<1>5. CASE Reload
    BY <1>0, <1>5 DEF Reload, ReloadSent, ReloadFails
<1>6. CASE StreamEnds
    BY <1>0, <1>6 DEF StreamEnds
<1>7. CASE SleepEnds
    BY <1>0, <1>7 DEF SleepEnds
<1>8. QED
    BY <1>1, <1>2, <1>3, <1>4, <1>5, <1>6, <1>7 DEF WatcherStep

\* nginx reads both files at once, so whatever it reads is up to date.
LEMMA NginxPreserves ==
    ASSUME PipelineIInv, NginxStep \/ InotifyDies \/ ContainerDies, UNCHANGED vars
    PROVE  PipelineIInv'
<1> USE DEF PipelineIInv, PipelineTypeOK, WatcherThere, Noticed, watcherVars
<1>0. Files' = Files
    BY DEF Files, vars
<1>1. CASE StartContainer
    BY <1>0, <1>1 DEF StartContainer
<1>2. CASE NginxReads
    BY <1>0, <1>2 DEF NginxReads, ReadsFiles
<1>3. CASE NginxUp
    BY <1>0, <1>3 DEF NginxUp
<1>4. CASE MasterReloads
    BY <1>0, <1>4 DEF MasterReloads, ReadsFiles
<1>5. CASE InotifyDies
    BY <1>0, <1>5 DEF InotifyDies, Fault
<1>6. CASE ContainerDies
    BY <1>0, <1>6 DEF ContainerDies, Fault
<1>7. QED
    BY <1>1, <1>2, <1>3, <1>4, <1>5, <1>6 DEF NginxStep

\* The invariant of the watcher and nginx, whatever the control plane, the
\* kernel and the container runtime do.
THEOREM PipelineInductive == PipelineSpec => []PipelineIInv
<1>1. PipelineInit => PipelineIInv
  <2> SUFFICES ASSUME PipelineInit PROVE PipelineIInv
      OBVIOUS
  <2>1. pipe \in Nat
      BY DEF PipelineInit
  <2>2. QED
      BY <2>1 DEF PipelineInit, PipelineIInv, PipelineTypeOK, WatcherThere, Noticed
<1>2. PipelineIInv /\ [PipelineNext]_pipelineVars => PipelineIInv'
  <2> SUFFICES ASSUME PipelineIInv, [PipelineNext]_pipelineVars PROVE PipelineIInv'
      OBVIOUS
  <2>1. CASE ControlPlane
      BY <2>1, ControlPlanePreserves
  <2>2. CASE Container /\ UNCHANGED vars
      BY <2>2, WatcherPreserves, NginxPreserves DEF Container
  <2>3. CASE UNCHANGED pipelineVars
      BY <2>3 DEF pipelineVars, vars, containerVars, watcherVars, nginxVars, Files,
         PipelineIInv, PipelineTypeOK, WatcherThere, Noticed
  <2>4. QED
      BY <2>1, <2>2, <2>3 DEF PipelineNext
<1>3. QED
    BY <1>1, <1>2, PTL DEF PipelineSpec

\* No rename is swallowed between inotifywait, the two reads of
\* reload-watcher.sh, nginx -s reload and the master.
THEOREM NothingGoesUnnoticed == PipelineSpec => []NothingUnnoticed
<1>1. PipelineIInv => NothingUnnoticed
    BY DEF PipelineIInv, Noticed, NothingUnnoticed
<1>2. QED
    BY <1>1, PipelineInductive, PTL

\* The nginx container only reads what the control plane writes: the composed
\* system's control plane behaves as Reloader does alone.
THEOREM PipelineRunsReloader == PipelineSpec => Spec
<1>1. PipelineInit => Init
    BY DEF PipelineInit
<1>2. [PipelineNext]_pipelineVars => [Next]_vars
    BY DEF PipelineNext, ControlPlane, pipelineVars
<1>3. QED
    BY <1>1, <1>2, PTL DEF PipelineSpec, Spec

\* In the composed system, too, the files follow the stores.
THEOREM PipelinePublishes == PipelineSpec => Publishes
    BY PipelineRunsReloader, ReloaderImplementsPublication, PTL

\* From the API to nginx: once reloader, watcher and master have nothing left
\* to do, nginx runs what the stores hold, if no step failed.
THEOREM QuietPipelineIsReflected == PipelineSpec => []QuietIsReflected
<1>1. IInv /\ PipelineIInv => QuietIsReflected
  <2> SUFFICES ASSUME IInv, PipelineIInv, Quiet PROVE Reflected
      BY DEF QuietIsReflected
  <2>1. Current
      BY DEF IInv, NoLostUpdate, Quiet
  <2>2. running = Files
      BY DEF PipelineIInv, PipelineTypeOK, Noticed, Quiet
  <2>3. QED
      BY <2>1, <2>2 DEF Current, Files, Reflected
<1>2. QED
    BY <1>1, PipelineInductive, PipelineRunsReloader, Inductive, PTL
=============================================================================
