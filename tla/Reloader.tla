------------------------------ MODULE Reloader ------------------------------
(***************************************************************************)
(* How a mutation of the control plane's stores reaches the files nginx    *)
(* includes:                                                               *)
(*                                                                         *)
(*   internal/api/*/bolt.go          onChange after every commit           *)
(*   internal/nginx/reloader.go      Trigger, debounce loop, render        *)
(*   internal/nginx/renderer.go      what Render puts into the two files   *)
(*   internal/nginx/writer.go        WriteAtomic                           *)
(*   cmd/cf-local/main.go            startup render, snapshotLoadResult    *)
(*                                                                         *)
(* Contents are represented by the number of the mutation that wrote them: *)
(* mutations are numbered by clock, a store holds the number of its last   *)
(* one, and a published file holds the numbers of the contents it was      *)
(* rendered from.  Stores are durable (each commit precedes onChange under *)
(* the store's mutex), so a restart keeps them.                            *)
(***************************************************************************)
EXTENDS Integers, FiniteSets

CONSTANTS
    Dists,         \* distribution ids
    NoDist,        \* no distribution
    FileDist,      \* the distribution of the configuration directory
    MaxMutations,  \* bound on API mutations, to keep behaviours finite
    MaxStops,      \* bound on failed boots, crashes and signals
    Events         \* which environment events may happen

AllEvents == {"reject", "write", "boot", "signal", "crash"}

ASSUME ReloaderAssumption ==
    /\ NoDist \notin Dists
    /\ FileDist \notin Dists
    /\ FileDist # NoDist
    /\ MaxMutations \in Nat
    /\ MaxStops \in Nat
    /\ Events \subseteq AllEvents

VARIABLES
    proc,       \* "down", "booting", "booted", "serving" or "stopping"
    stops,      \* failed boots, crashes and signals so far
    clock,      \* mutations committed so far
    epoch,      \* history: the clock when this process began to serve
    cp, rhp,    \* contents of the cache and response headers policy stores
    dist,       \* contents of each distribution, 0 when there is none
    rejected,   \* distributions whose contents Render refuses
    trigger,    \* the reloader's channel of capacity 1
    timer,      \* its debounce timer
    rpc,        \* its program counter
    snap,       \* the LoadResult under construction
    lastErr,    \* "nil" or "error"
    policies,   \* contents of policies.json
    conf        \* contents of cf-local.conf

storeVars == <<clock, cp, rhp, dist, rejected>>
loopVars == <<trigger, timer, rpc, snap, lastErr>>
vars == <<proc, stops, epoch, storeVars, loopVars, policies, conf>>

NoFile == -2       \* policies.json has never been written
FromFiles == -1    \* rendered at startup from the configuration directory

NoConf == [dist |-> NoDist, ver |-> 0, rhp |-> 0]
FileConf == [dist |-> FileDist, ver |-> 0, rhp |-> 0]
NoSnap == [cp |-> 0, rhp |-> 0, dist |-> NoDist, ver |-> 0, verdict |-> "accepted"]

Versions == 0 .. MaxMutations

TypeOK ==
    /\ proc \in {"down", "booting", "booted", "serving", "stopping"}
    /\ stops \in 0 .. MaxStops
    /\ clock \in Versions
    /\ epoch \in Versions
    /\ cp \in Versions
    /\ rhp \in Versions
    /\ dist \in [Dists -> Versions]
    /\ rejected \subseteq Dists
    /\ trigger \in {"empty", "full"}
    /\ timer \in {"off", "armed"}
    /\ rpc \in {"wait", "rhp", "dist", "render", "policies", "conf", "returned"}
    /\ snap \in [cp : Versions, rhp : Versions, dist : Dists \cup {NoDist},
                 ver : Versions, verdict : {"accepted", "rejected"}]
    /\ lastErr \in {"nil", "error"}
    /\ policies \in {NoFile, FromFiles} \cup Versions
    /\ conf \in [dist : Dists \cup {NoDist, FileDist}, ver : Versions, rhp : Versions]

Init ==
    /\ proc = "down"
    /\ stops = 0
    /\ clock = 0
    /\ epoch = 0
    /\ cp = 0
    /\ rhp = 0
    /\ dist = [d \in Dists |-> 0]
    /\ rejected = {}
    /\ trigger = "empty"
    /\ timer = "off"
    /\ rpc = "wait"
    /\ snap = NoSnap
    /\ lastErr = "nil"
    /\ policies = NoFile
    /\ conf = NoConf

Running == proc \in {"serving", "stopping"}
Present == {d \in Dists : dist[d] # 0}

-----------------------------------------------------------------------------
(* The stores: commit, index and onChange are one step under the mutex.     *)

\* Reloader.Trigger: a non-blocking send into a channel of capacity 1.
Trigger == trigger' = "full"

\* The next mutation gets the next number and fires onChange.
Mutate ==
    /\ Running
    /\ clock < MaxMutations
    /\ clock' = clock + 1
    /\ Trigger
    /\ UNCHANGED <<proc, stops, epoch, timer, rpc, snap, lastErr, policies, conf>>

\* Create, Update and Delete of cachepolicy.BoltStore.
MutateCachePolicy ==
    /\ Mutate
    /\ cp' = clock + 1
    /\ UNCHANGED <<rhp, dist, rejected>>

\* ... of responseheaderspolicy.BoltStore.
MutateResponseHeadersPolicy ==
    /\ Mutate
    /\ rhp' = clock + 1
    /\ UNCHANGED <<cp, dist, rejected>>

\* ... of originrequestpolicy.BoltStore, which no render reads.
MutateOriginRequestPolicy ==
    /\ Mutate
    /\ UNCHANGED <<cp, rhp, dist, rejected>>

\* Create and Update of distribution.BoltStore.  The API stores whatever
\* parses; Render refuses some of it (such as an unsupported PathPattern).
PutDistribution(d) ==
    /\ Mutate
    /\ dist' = [dist EXCEPT ![d] = clock + 1]
    /\ \/ rejected' = rejected \ {d}
       \/ "reject" \in Events /\ rejected' = rejected \cup {d}
    /\ UNCHANGED <<cp, rhp>>

\* Delete of distribution.BoltStore.
DeleteDistribution(d) ==
    /\ d \in Present
    /\ Mutate
    /\ dist' = [dist EXCEPT ![d] = 0]
    /\ rejected' = rejected \ {d}
    /\ UNCHANGED <<cp, rhp>>

-----------------------------------------------------------------------------
(* Reloader.Run: one goroutine.                                             *)

\* A trigger (re)starts the debounce window.  After a signal both branches of
\* the select may be ready, so this may still happen then.
Debounce ==
    /\ Running
    /\ rpc = "wait"
    /\ trigger = "full"
    /\ trigger' = "empty"
    /\ timer' = "armed"
    /\ UNCHANGED <<proc, stops, epoch, storeVars, rpc, snap, lastErr, policies, conf>>

\* The window is over: render calls fetch, which begins with the cache
\* policies.  A trigger that is already waiting stays in the channel.
FetchCachePolicies ==
    /\ Running
    /\ rpc = "wait"
    /\ timer = "armed"
    /\ timer' = "off"
    /\ snap' = [snap EXCEPT !.cp = cp]
    /\ rpc' = "rhp"
    /\ UNCHANGED <<proc, stops, epoch, storeVars, trigger, lastErr, policies, conf>>

\* Wrong: the trigger that arrived before the window was over is taken for
\* served, although the stores are read later.
FetchResponseHeadersPoliciesAndDrain ==
    /\ Running
    /\ rpc = "rhp"
    /\ snap' = [snap EXCEPT !.rhp = rhp]
    /\ rpc' = "dist"
    /\ trigger' = "empty"
    /\ UNCHANGED <<proc, stops, epoch, storeVars, timer, lastErr, policies, conf>>

\* The stores are read one after the other, each under its own mutex.
FetchResponseHeadersPolicies ==
    /\ Running
    /\ rpc = "rhp"
    /\ snap' = [snap EXCEPT !.rhp = rhp]
    /\ rpc' = "dist"
    /\ UNCHANGED <<proc, stops, epoch, storeVars, trigger, timer, lastErr, policies, conf>>

\* The snapshot completed by distribution d with contents v.
WithDistribution(d, v, verdict) ==
    [cp |-> snap.cp, rhp |-> snap.rhp, dist |-> d, ver |-> v, verdict |-> verdict]

\* Wrong: without a distribution in the store, the configuration directory's
\* one is taken.
FetchDistributionOrFiles ==
    /\ Running
    /\ rpc = "dist"
    /\ \/ Present = {} /\ snap' = WithDistribution(FileDist, 0, "accepted")
       \/ \E d \in Present : snap' = WithDistribution(d, dist[d], "accepted")
    /\ rpc' = "render"
    /\ UNCHANGED <<proc, stops, epoch, storeVars, trigger, timer, lastErr, policies, conf>>

\* dists[0] of a map iteration: any distribution that is present.
FetchDistribution ==
    /\ Running
    /\ rpc = "dist"
    /\ \/ Present = {} /\ snap' = WithDistribution(NoDist, 0, "accepted")
       \/ \E d \in Present \ rejected : snap' = WithDistribution(d, dist[d], "accepted")
       \/ \E d \in Present \cap rejected : snap' = WithDistribution(d, dist[d], "rejected")
    /\ rpc' = "render"
    /\ UNCHANGED <<proc, stops, epoch, storeVars, trigger, timer, lastErr, policies, conf>>

\* Render fails as a whole, policies.json included, when the distribution
\* cannot be rendered.  The error is logged; nothing retries.
Render ==
    /\ Running
    /\ rpc = "render"
    /\ IF snap.verdict = "rejected"
         THEN rpc' = "wait" /\ lastErr' = "error"
         ELSE rpc' = "policies" /\ UNCHANGED lastErr
    /\ UNCHANGED <<proc, stops, epoch, storeVars, trigger, timer, snap, policies, conf>>

\* WriteAtomic: the rename replaces the whole file.  An error before it leaves
\* the old file, an error after it (the directory's fsync) the new one.
WriteAtomic(file, contents, after) ==
    \/ /\ file' = contents
       /\ after
    \/ /\ "write" \in Events
       /\ file' \in {file, contents}
       /\ rpc' = "wait"
       /\ lastErr' = "error"

\* Wrong: without a distribution, the startup version of policies.json is
\* restored.
WritePoliciesOrRestore ==
    /\ Running
    /\ rpc = "policies"
    /\ policies' = IF snap.dist = NoDist THEN FromFiles ELSE snap.cp
    /\ rpc' = IF snap.dist = NoDist THEN "wait" ELSE "conf"
    /\ UNCHANGED <<proc, stops, epoch, storeVars, trigger, timer, snap, lastErr, conf>>

\* Only what Render put into Conf is written: without a distribution Conf is
\* nil and cf-local.conf stays as it is.
WritePolicies ==
    /\ Running
    /\ rpc = "policies"
    /\ WriteAtomic(policies, snap.cp,
                   IF snap.dist = NoDist
                     THEN rpc' = "wait" /\ lastErr' = "nil"
                     ELSE rpc' = "conf" /\ UNCHANGED lastErr)
    /\ UNCHANGED <<proc, stops, epoch, storeVars, trigger, timer, snap, conf>>

\* Wrong: a failed write of cf-local.conf is logged and taken for a success.
WriteConfIgnoringErrors ==
    /\ Running
    /\ rpc = "conf"
    /\ conf' \in {conf, [dist |-> snap.dist, ver |-> snap.ver, rhp |-> snap.rhp]}
    /\ rpc' = "wait"
    /\ lastErr' = "nil"
    /\ UNCHANGED <<proc, stops, epoch, storeVars, trigger, timer, snap, policies>>

WriteConf ==
    /\ Running
    /\ rpc = "conf"
    /\ WriteAtomic(conf, [dist |-> snap.dist, ver |-> snap.ver, rhp |-> snap.rhp],
                   rpc' = "wait" /\ lastErr' = "nil")
    /\ UNCHANGED <<proc, stops, epoch, storeVars, trigger, timer, snap, policies>>

\* ctx.Done(): no final render is forced.
ReloaderReturns ==
    /\ proc = "stopping"
    /\ rpc = "wait"
    /\ rpc' = "returned"
    /\ UNCHANGED <<proc, stops, epoch, storeVars, trigger, timer, snap, lastErr,
                   policies, conf>>

-----------------------------------------------------------------------------
(* The process.                                                             *)

\* The channel, the timer and the goroutine go; stores and files stay.
LoseMemory ==
    /\ proc' = "down"
    /\ trigger' = "empty"
    /\ timer' = "off"
    /\ rpc' = "wait"
    /\ snap' = NoSnap
    /\ lastErr' = "nil"
    /\ UNCHANGED <<epoch, storeVars>>

\* run renders the configuration directory, not the stores: first ...
BootPolicies ==
    /\ proc = "down"
    /\ proc' = "booting"
    /\ policies' = FromFiles
    /\ UNCHANGED <<stops, epoch, storeVars, loopVars, conf>>

\* ... policies.json, then cf-local.conf if the directory has a distribution.
BootConf ==
    /\ proc = "booting"
    /\ proc' = "booted"
    /\ conf' \in {conf, FileConf}
    /\ UNCHANGED <<stops, epoch, storeVars, loopVars, policies>>

\* The stores are opened, onChange is wired, Run and the API server start.
Serve ==
    /\ proc = "booted"
    /\ proc' = "serving"
    /\ epoch' = clock
    /\ UNCHANGED <<stops, storeVars, loopVars, policies, conf>>

\* The directory does not load or render, a write fails, or the database
\* does not open: run returns an error.
BootFails ==
    /\ "boot" \in Events
    /\ proc \in {"booting", "booted"}
    /\ stops < MaxStops
    /\ stops' = stops + 1
    /\ LoseMemory
    /\ UNCHANGED <<policies, conf>>

Signal ==
    /\ "signal" \in Events
    /\ proc = "serving"
    /\ stops < MaxStops
    /\ stops' = stops + 1
    /\ proc' = "stopping"
    /\ UNCHANGED <<epoch, storeVars, loopVars, policies, conf>>

\* The server has shut down; run does not wait for the reloader, so a render
\* may end between its two files.
Exit ==
    /\ proc = "stopping"
    /\ LoseMemory
    /\ UNCHANGED <<stops, policies, conf>>

Crash ==
    /\ "crash" \in Events
    /\ proc # "down"
    /\ stops < MaxStops
    /\ stops' = stops + 1
    /\ LoseMemory
    /\ UNCHANGED <<policies, conf>>

-----------------------------------------------------------------------------
StoreStep ==
    \/ MutateCachePolicy
    \/ MutateResponseHeadersPolicy
    \/ MutateOriginRequestPolicy
    \/ \E d \in Dists : PutDistribution(d) \/ DeleteDistribution(d)

LoopStep ==
    \/ Debounce
    \/ FetchCachePolicies
    \/ FetchResponseHeadersPolicies
    \/ FetchDistribution
    \/ Render
    \/ WritePolicies
    \/ WriteConf
    \/ ReloaderReturns

BootStep == BootPolicies \/ BootConf \/ Serve

Next == StoreStep \/ LoopStep \/ BootStep \/ BootFails \/ Signal \/ Exit \/ Crash

Spec == Init /\ [][Next]_vars

\* The goroutine is scheduled and its timer fires; the grace period ends; the
\* container is restarted.  Clients and the environment owe nothing.
Fairness == WF_vars(LoopStep) /\ WF_vars(BootStep) /\ WF_vars(Exit)

FairSpec == Spec /\ Fairness
-----------------------------------------------------------------------------
(* Properties.                                                              *)

\* What the files ought to hold once everything has been rendered.  Without a
\* distribution cf-local.conf is not rewritten, so nothing is asked of it.
Current ==
    /\ policies = cp
    /\ Present # {} => /\ conf.dist \in Present
                       /\ conf.ver = dist[conf.dist]
                       /\ conf.rhp = rhp

\* No mutation is lost by the channel of capacity 1, by the debounce window or
\* by a store being changed while the render that reads it is under way: when
\* the reloader rests and its last render succeeded, the files hold the
\* current contents of every store.
NoLostUpdate ==
    Running /\ trigger = "empty" /\ timer = "off" /\ rpc = "wait"
        /\ clock > epoch /\ lastErr = "nil" => Current

\* While a process runs, no file is ever replaced by an older version of the
\* same contents, whatever renders fail half way.
NeverGoesBack ==
    [][proc # "down" /\ proc # "booting" =>
          /\ policies <= policies'
          /\ conf.rhp <= conf'.rhp
          /\ conf.dist = conf'.dist => conf.ver <= conf'.ver]_<<policies, conf>>

\* Every mutation is published in the end, unless the process stops or a
\* render fails.
Converges ==
    proc = "serving" /\ clock > epoch ~>
        Current \/ lastErr = "error" \/ proc # "serving"

\* reloader.go: "every successful Create / Update / Delete eventually surfaces
\* in cf-local.conf without restarting cf-local".
DeletesSurface ==
    \A d \in Dists : dist[d] = 0 ~> dist[d] # 0 \/ conf.dist # d

-----------------------------------------------------------------------------
(* What the properties above need to be inductive.                          *)

\* Numbers are handed out by clock, and what a render has read is no older
\* than what is published.
Ordered ==
    /\ epoch <= clock
    /\ cp <= clock
    /\ rhp <= clock
    /\ \A d \in Dists : dist[d] <= clock
    /\ policies <= cp
    /\ conf.rhp <= rhp
    /\ conf.ver <= clock
    /\ conf.dist \in Present => conf.ver <= dist[conf.dist]

SnapshotOrdered ==
    /\ rpc \in {"rhp", "dist", "render", "policies", "conf"} =>
          policies <= snap.cp /\ snap.cp <= cp
    /\ rpc \in {"dist", "render", "policies", "conf"} =>
          conf.rhp <= snap.rhp /\ snap.rhp <= rhp
    /\ rpc \in {"render", "policies", "conf"} =>
          /\ snap.ver <= clock
          /\ snap.dist \in Dists /\ conf.dist = snap.dist => conf.ver <= snap.ver
          /\ snap.dist \in Present => snap.ver <= dist[snap.dist]
    /\ rpc = "conf" => snap.dist \in Dists

\* The snapshot's distribution is the current one.
DistCurrent ==
    IF Present = {} THEN snap.dist = NoDist
                    ELSE snap.dist \in Present /\ snap.ver = dist[snap.dist]

\* Unless a trigger or the timer will cause another render, the one under way
\* has read nothing that has changed since.
NothingMissed ==
    Running /\ trigger = "empty" /\ timer = "off" =>
        /\ rpc \in {"rhp", "dist", "render", "policies", "conf"} => snap.cp = cp
        /\ rpc \in {"dist", "render", "policies", "conf"} => snap.rhp = rhp
        /\ rpc \in {"render", "policies", "conf"} => DistCurrent
        /\ rpc = "conf" => policies = cp

\* The reloader does nothing before the API serves, and starts from scratch.
Stopped ==
    ~Running => trigger = "empty" /\ timer = "off" /\ rpc = "wait" /\ lastErr = "nil"

IInv ==
    /\ TypeOK
    /\ Ordered
    /\ SnapshotOrdered
    /\ NothingMissed
    /\ Stopped
    /\ NoLostUpdate
=============================================================================
