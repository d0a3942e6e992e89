# TLA+ models of cf-local

cf-local runs a CloudFront-like stack on one machine. A Go process, the control
plane (`cmd/cf-local`), answers the AWS CloudFront API, keeps its resources in a
bbolt file and renders an nginx configuration from them; nginx with njs is the
data plane; an optional edge proxy runs Lambda@Edge functions. This directory
models these parts and what happens between them, checks the models with TLC and
proves with TLAPS what is independent of the small instances TLC can look at.

Every definition follows the source; `PROJECT.json` maps each one to its lines.

## 1. Inventory

### Components, their state and their operations

| Component | State | Operations | Module |
|---|---|---|---|
| Invalidation API and store (`internal/api/invalidation`) | bucket `invalidations`, index `byID` | Create, Get, List and its pages, UpdateStatus, load, RecoverInProgress | `Invalidation`, `ListPages` |
| Invalidation worker (`internal/invalidation/worker.go`, `cache.go`) | channel of 256 jobs, one goroutine | Enqueue, Run, process, Purge | `Invalidation` |
| Path matcher (`internal/invalidation/matcher.go`) | none | ParsePattern, Match, reading a stored key | `PathMatching` (with nginx's `RequestURI`) |
| Cache / origin request / response headers policy stores | bucket, `byID`, `byName`, managed policies (cache policies only) | load, SeedManaged, Create, Update, Delete, List | `PolicyStore` |
| Distribution store | bucket, `byID`, `byCaller` | load, Create, Update, Delete, List | `DistributionStore` |
| Reloader (`internal/nginx/reloader.go`, `writer.go`) | trigger channel of 1, debounce timer, last error; `policies.json`, `cf-local.conf` | Trigger, Run, render, WriteAtomic | `Reloader`, `Publication` |
| Renderer (`renderer.go`, `conf.go`, `response_headers.go`) | none | Render | `NginxConf`, `ResponseHeaders` |
| Configuration loader (`internal/config`) | none | Load, its validators, conversion | `ConfigLoader` |
| Request validation (`internal/api/validate`) and handlers | none | what is accepted, and stored | `PolicyValidation`, `Admission` |
| Process (`cmd/cf-local/main.go`, `internal/api/server.go`) | — | startup order, recovery, signals, grace period | `Invalidation`, `Reloader`, `Admission` |
| Reload watcher (`nginx/scripts`) | inotify stream, the configuration nginx runs | debounce, `nginx -s reload` | `ReloadPipeline` |
| Edge proxy (`cmd/edge-proxy`, `internal/edgefunc`), lookup endpoint (`internal/api/edgefunc`) | lookup cache with a TTL | resolveFunction, invoke, event conversions | `EdgeProxy`, `EdgeEvent` |
| njs (`cache_key.js`, `ttl.js`, `cache_control.js`, `edge.js`) | per request | cache key, TTL, edge phases | `CacheKey`, `EdgeRequest` |
| AWS XML, tagging, request log | none | stateless | not modelled |

### How they interact

* HTTP handlers call a store. Each store method holds that store's mutex, commits
  to bbolt and only then changes its index; a store that feeds the
  renderer then calls `onChange`, which is `Reloader.Trigger`.
* The invalidation handler hands the new record to the worker through a bounded
  channel **after** the store's mutex is released. The worker walks
  `/var/cache/nginx`, which nginx writes to at the same time, and calls
  `UpdateStatus`.
* The reloader reads three stores one after the other and replaces two files. The
  watcher in the nginx container sees the renames and reloads nginx.
* A signal cancels one context: the worker and the reloader return when they
  notice, the HTTP server gets five seconds, and `run` waits for neither goroutine.
* nginx takes a request through the locations the renderer wrote; njs computes
  its cache key and TTL and calls the edge proxy, which asks the control plane for the
  bindings of the distribution and then invokes a function.

### What is hard

Two-phase effects (persist, then enqueue; persist, then index; two files);
a drop-on-full queue; a walk over a directory that changes under it; a
capacity-1 trigger combined with a debounce timer and a snapshot that is read in
three steps, followed by a second debounce over an event stream that may have gaps;
errors that are only logged; recovery that completes records it does
not re-execute; hand-kept secondary indexes; a cache filled by concurrent lookups
that finish out of order; locations written per policy and chosen per behaviour;
three layers (loader, handlers, renderer) that each check part of a configuration.
`PROJECT.json` lists these as `hazards`, each at its line.

## 2. Modules

`Invalidation.tla` — one record per id, as its status on disk and in `byID`. A batch
is a set of cache files; in the runs it is what `PathMatching` makes of a path.
`Create` / `Enqueue` / `Respond` are the three stretches of `AWSHandler.Create`
between which other goroutines run (`hpc`, `hid`); `Read` is Get and List. The worker
is `TakeJob`, `EnterDir`, `VisitFile`, `WalkReturns`, `UpdateStatus`,
`WorkerReturns`; a directory is listed when it is entered, so later files are not
seen. `outcome` tells whether Purge returned an error ("failed"), passed over
something it only logged ("partial"), or did neither ("clean"). `Load`, `RecoverInProgress`
(one record per step), `RecoveryFails`, `Serve`, `Signal`, `Exit` and `Crash`
are the process. nginx is external: `NginxStores` and `NginxEvicts` may happen at any
time. Three history variables state properties and guard nothing: `residue` (files of
the batch that are there since before the record's creation), `orphans` (records
whose job is lost while the process runs), `seen` (what clients have read).

`RequestURI.tla` — what nginx makes of the path in a request line before anything here
sees it, external: escapes are decoded once, slashes that follow one another become one, "." and
".." segments are resolved, and a path that leads above the root is refused. A path without any of these is not `Complex`.

`PathMatching.tla` — operators: the validation and the meaning of a path in an
invalidation, the key a cached request has on disk (the one of its normalized path), how much of it is read back, and
the worker's predicate. A character may stand for several bytes, so that the two
length limits (4000 and 4096) matter. `PathInvalidation.tla` puts the two together: the
files of `Invalidation` are requests, and a batch is what the matcher makes of a path.

`ListPages.tla` — the list sorted by creation time, MaxItems with its default and
cap, the marker, and a client that pages while records are created, with any
marker to start from.

`Reloader.tla` — contents are the number of the mutation that wrote them, so that
"older", "newer" and "current" are comparisons. The steps of `render` are
`FetchCachePolicies`, `FetchResponseHeadersPolicies`, `FetchDistribution` (any
present distribution: `dists[0]` of a map iteration), `Render`, `WritePolicies`,
`WriteConf`. `WriteAtomic` may fail before its rename or after it (the directory's
fsync). `rejected` holds the distributions whose contents the API stores and Render
refuses. `BootPolicies`, `BootConf`, `Serve` are the start of `run`, which renders the
configuration directory (`FromFiles`, `FileDist`) and not the stores.

`Publication.tla` is what the reloader promises, without channel, timer, render or
process: every change leaves a debt, the files follow the stores and never go back, and the debt is
paid off only by files that are current, or with an error to show for it.
`ReloaderPublishes.tla` maps `Reloader` to it: the debt is a full channel, an armed
timer or a render under way.

`ReloadPipeline.tla` extends `Reloader`: every rename of the control plane is an
event for the inotify stream that exists at that moment. `ReadEvent`, `AbsorbEvent`,
`DebounceEnds`, `Reload`, `StreamEnds`, `SleepEnds` are the two loops of the script;
nginx reads the files at its start and, after the script has moved on, for a HUP.
inotifywait, nginx's configuration test and the container may fail. `Quiet` describes a
pipeline with nothing under way, and `QuietIsReflected` what nginx runs then.

`PolicyStore.tla` — a record is its name. Managed policies are in memory only and
are seeded after `load`. `Managed = {}` gives the two stores without managed policies.

`DistributionStore.tla` — a record is its CallerReference; `Update` leaves `byCaller`
alone. The history variable `moved` holds the references an update has moved a
distribution from or to.

`ConfigLoader.tla`, `PolicyValidation.tla`, `NginxConf.tla`, `ResponseHeaders.tla` —
operators for `config.Load`, the API's validators, `nginx.Render` and the header
directives. Names are short sequences of characters, because which characters are safe
and what `sanitizeID` maps to one name matter; a configuration is a record of upstreams, outer
locations (one for each behaviour, in order), the `@forward` locations as the set `named`, the inner
locations of every policy in use and header directives. The loops of the renderer are
written as functions of the position, with the first behaviour of a policy (`Maker`) found
by a least index, so that they can be reasoned about. `Admission.tla` composes
them: `Start` with any configuration directory, the Create handlers, `Reload`
(snapshot, render, write, nginx's own check) and `Stop`.

`CacheKey.tla` — operators for `cache_key.js`, `cache_control.js` and `ttl.js`. The text that is hashed is
put together as the code does it: parts joined by line breaks, values by commas, names and values by
"=", nothing escaped. SHA-256 is taken for injective, so a key is that text. The policies are those of `policies.json` with the ones of
`test-policies.json` where an id has none.
`EdgeRequest.tla` — one request at a time through the locations that `NginxConf` renders for
a distribution: `Enter`, the viewer-request hook and its redirect, `Lookup`, the
origin-response and origin-request hops of the inner server, `FetchOrigin`, `Store`,
while entries are evicted and purged. Every hop parses the request line it is given: the URI is
decoded and normalized again each time, and the origin is sent what nginx escapes. `site` is what nginx runs with and the functions that are bound,
`cache` maps keys to entries, `req` is the request with the place it is in.

`EdgeProxy.tla` — requests run concurrently through `Invoke`, `LookupAnswers`, `Store`,
`LookupFails`, `Dispatch`, `RIEAnswers`, `RIEFails`, in discrete time, while the
distribution changes. The answer to a lookup is computed by `collectFunctions`, a recursive
function over the behaviours, when the control plane answers, and stored later. `EdgeEvent.tla` has the conversions
as functions of an exchange; the answer of a function is what `translator` makes of
what it returns. Where Go iterates over a map, a conversion is the set of its
possible results: a loop over the names (a recursive function) for each of their orders.

A commit, its index update and `onChange` are one step because one mutex covers
them and nothing outside reads the bucket while the process runs; a crash between the commit
and the index update leaves the state of a crash right after both. The stores are modelled on their
own and again as one number each in `Reloader`; the shared interface is `trigger`.

Definitions that begin with a comment "Wrong:" are deliberate faults. No
specification uses them; each replaces one definition to show that a property fails
when the code has that fault.

## 3. Runs

| Run | Properties | Shows |
|---|---|---|
| `invalidation_safety` | TypeOK, WriteThrough, ReadsAreDurable, Ownership, CleanWalkPurges, PlainPathsExact, ReadsNeverGoBack, PurgesOnlyForInProgress | holds with every failure enabled; the matcher removes exactly what a path covers |
| `invalidation_liveness` | Settles | every record is Completed in the end or an orphan |
| `invalidation_completed` | CompletedMeansGone | **violated**: a failed walk still leads to Completed; `docs/invalidation-api.md` says the cache is gone then |
| `reloader` | TypeOK, NoLostUpdate, NeverGoesBack, Converges, Publishes | no mutation is lost, every one is published unless a render fails or the process stops, and the reloader implements `Publication` |
| `reloader_delete` | DeletesSurface | **violated**: the last distribution's deletion never reaches `cf-local.conf` |
| `reload_pipeline` | NothingUnnoticed, MutationsTakeEffect | from the API to the configuration nginx runs, through both debounce windows |
| `policy_store` | TypeOK, NamesUnique, RestartInvisible, IndexExact | holds |
| `distribution_store` | TypeOK, CallersExact, RestartInvisible | holds; the index is exact but for references an update moved |
| `list_pages` | EveryRecordOnce, ListingEnds | old records appear once although records are created between pages, and the walk ends |
| `edge_proxy` | BoundRecently, InvokedWasBound, Answered, EchoIsTransparent | staleness is bounded although lookups finish out of order; everybody is answered; the conversions of the four hooks lose nothing |
| `admission` | ServedFromOwnOrigin, LoadedRenders, FirstMatchServes, NoDanglingTarget, NoAcceptedHeaderDropped, NoHeaderLost | what the loader and the handlers accept is rendered and served as it was meant |
| `edge_request` | OriginHooksRun, FailOpenTransparent, ServedOwnVariant, OriginLifetimes, RewriteReachesOrigin | hooks run, failures of the bridge are invisible for literal paths, variants of legible requests and lifetimes follow the policy |

The violated properties state what a document or comment of the repository says;
`findings` in `PROJECT.json` quotes the lines. Where other documents and the code differ, the
passing properties follow the code; see "Where the documents say otherwise" below.

`PlainPathsExact` and `EchoIsTransparent` are about pure algorithms: TLC
evaluates them over all bounded inputs in each state that uses them (a persisted
record; an invocation under way). `PlainPathsExact` compares with `Covers`, CloudFront's rule,
which is written without keys or patterns, for the requests that nginx takes as they are; `EchoIsTransparent` counts
the occurrences of every header value. Both are also proved for inputs of any size (section 4).

### Bounds

* Invalidation: two records and a queue of one are enough for an overflow while the
  worker is busy or has not begun; two requests for concurrent handlers; two
  directories with one file each, and a narrow and a wide batch, for a walk
  interrupted between directories or files, and for files that must not be removed. Two stops let a
  crash happen during recovery from an earlier one. The real queue holds 256 jobs; the proofs cover
  every size. Paths have up to seven characters with colons, stars, escapes, slashes in a row and dot segments,
  and one word that is as long as a path may be.
* ListPages: four records and pages of one or two, so that a page is cut in the middle, at the end
  and after it; two creation times, so that records tie.
* Reloader: three mutations are one before, one during and one after a render;
  two distributions for the choice among several; two stops. ReloadPipeline: one
  mutation, with the renders of two starts, gives up to six renames of which any may be
  absorbed, missed or read half; two faults of the container side and one stop of the
  control plane. `MaxMutations`, `MaxStops` and `MaxFaults` only bound counters.
* PolicyStore: three custom and one managed policy and four names, so that a name
  can be freed, taken by another and asked for again. DistributionStore: three and three.
* EdgeProxy: two requests, because an overtaken lookup needs two; one change of the
  distribution; a TTL and a lookup of one unit within four. The exchanges have header maps with two casings of one name and repeated values.
* Admission: every configuration directory at each start is one of seventeen, chosen so
  that each check of the loader, the renderer and nginx refuses one of them; API bodies
  likewise; the distributions include two viewer-request behaviours with one policy and a pattern with a star in its middle, the
  header policies an empty value. EdgeRequest: one entry in the cache, redirects up to three (nginx: ten), four
  combinations of functions, two viewer-request behaviours with one policy, thirteen clients (with an escaped
  escape, slashes in a row, dot segments, and the parameters whose keys collide), policies with whole, contradictory,
  missing and negative bounds. No escape of the instance stands for "/" or ".", which the inner server would
  merge and resolve together with its own prefix.
* Ids are minted at random in the code; the models take any unused id and
  so assume no collision.
* Symmetry is used only in `invalidation_safety`, over ids and requests, which the
  specification treats alike.

Deadlock is not checked in `reloader`, `reloader_delete` and `reload_pipeline`: a control
plane that gets no request rests. All other runs check it.

### Fairness

Weak fairness is asked of: each request that has been accepted; the worker; the
reloader (its timer fires); startup; the end of the shutdown grace period; the watcher's shell and nginx; in the
edge proxy `Dispatch`, that njs gives up a
request (`HangUp`) some time, which nginx's `js_fetch_timeout` (60 s unless configured) guarantees, and that a
lookup or an invocation whose request has been given up ends (both carry the request's context). Neither the control plane nor Lambda is
assumed to answer or to fail by itself, so `Answered` rests on `HangUp` and on the context: with a lookup that does not notice the end of its
request (`LookupFailsDeaf`) it is violated. The Go
scheduler and `http.Server.Shutdown` with its timeout justify the rest but startup, for
which `docker-compose.yml` has `restart: unless-stopped`. A client that is paging
through a list asks for the next page. Nothing else is asked of clients, nothing of
signals, crashes or errors, nor of answers by the control plane or Lambda. The bounds on
mutations matter to `Converges` and `MutationsTakeEffect`: each trigger restarts the
debounce window, so clients that never pause for a second could postpone the render for ever.

### Limits the properties name

Where the code does not do what one might expect, the property says so in its
hypothesis. The more important of these cases, all of which the models represent:

* A job that finds the queue full is dropped; its record stays InProgress until a
  restart (`worker.go:86`). Settles and Ownership call it an orphan.
* The snapshot is read store by store, so a distribution can be published without a
  policy created before it; the mutation that was missed has filled the trigger
  again, and the next render repairs it (`main.go:248`).
* An update that changes a CallerReference does not move it in `byCaller`: until a restart
  a Create with the new reference succeeds and one with the old is refused (`distribution/bolt.go:176`).
* A rename that falls between nginx's first reading of its files and inotifywait's watch, or into the
  second between two inotifywaits, is never reloaded (`reload-watcher.sh:29`, `lost`); nor is a
  configuration nginx once refused (`refused`), until some later rename.
* A response that nginx was fetching during a purge is stored after it (`conf.go:414`).
* A path that nginx normalizes (escapes, `//`, dot segments) is cached under what it becomes and cannot be named by
  an invalidation as it was sent (`Plain`); a KEY line beyond the first 4096 bytes is not read, so the longest paths are
  never purged.
* A lookup that fails after another request filled the cache does not use that entry
  (`server.go:259`). An expired entry is used for as long as lookups fail.
* A function's return with neither status, method nor URI continues with the original
  request (`event.go:405`, although the comment at 347 says error).
* Behaviours that share a policy and not an origin load and cannot be rendered
  (`conf.go:189`); the pattern `*` renders a second `location /`, which nginx refuses; nginx takes the
  longest prefix and not the first behaviour (`FirstMatchServes` asks for the most specific first, and for
  the documented kinds of patterns); the API
  stores patterns that Render refuses, and TTLs it does not compare.
* A restart without `distribution.json` leaves the earlier `cf-local.conf` in place.
* After a rewrite by viewer-request into a behaviour without that hook the origin gets the client's
  URI (`conf.go:599`); a rewrite that is not idempotent is redirected until nginx answers 500.
* Origin hooks are merged per policy: a behaviour may run another's origin-request
  function inside the origin-response wrapper. Of two viewer-request behaviours with
  one policy the second uses the first one's forward location, with its hooks and header directives (`conf.go:562`): `OriginHooksRun`
  says so (`Server`), `NoAcceptedHeaderDropped` leaves the second out (`Shadowed`).
* Two policy ids that `sanitizeID` maps to one name share their locations. `DistributionsAssumption` asks
  for distinct names, which the UUIDs that the store assigns have; only hand written files reach the other case.
* The forward location passes the decoded `$uri` on (`conf.go:601`), origin-response and origin-request do likewise, and each
  hop decodes and normalizes again: `/%2541` reaches the origin as `/A` and `//a` as `/a` although no hook changed anything. `FailOpenTransparent` and
  `RewriteReachesOrigin` are about paths that decoding, normalizing and escaping leave alone (`Literal`).
* Nothing in the text of a cache key is escaped (`cache_key.js:162`): `?a=1&a=2` and `?a=1%2C2`, or `?a%3Db=c` and `?a=b%3Dc`,
  share an entry. `ServedOwnVariant` is about requests without a separator in the wrong place (`Legible`).
* A custom header with an empty value and Override hides the origin's header, and nginx adds none for an empty
  value: the header is lost (`response_headers.go:85`). `NoHeaderLost` leaves such names out.
* nginx drops a "?" with nothing after it: `FailOpenTransparent` is about request lines without one.
* A policy whose MinTTL is above its MaxTTL is not used as a bound, also when its MaxTTL is missing and
  MinTTL is above the year that `ttl.js` takes instead; the origin's age then counts, up to a year (`OriginLifetimes`).
* A 200 that origin-request generates passes through no `ttl.js` and is cached for the safety
  net's day (`edge.js:251`); `OriginLifetimes` is about responses of the origin. It also passes through the origin-response hook, which wraps the other.

### Where the documents say otherwise

Besides the two violated properties, the code departs from what is written about it in these places. The models follow
the code.

* A star before the end of an invalidation's path: `docs/invalidation-api.md:47` and `:183` and `docs/limitations.md:103` say it
  is refused with 400. `ParsePattern` accepts it as a character (`matcher.go:62`), which its comment (`matcher.go:45`) and
  `TestPatternMatch` ("literal star matches itself") intend; `Covers` and `PlainPathsExact` read it that way.
* Patterns of behaviours other than `*` and a prefix with `/*`: `docs/limitations.md:64-67` says loader or handler refuse them, the comment at
  `conf.go:314` that only these kinds are accepted. The handlers look at no pattern, and `pathPatternToLocation` only at the end
  (`conf.go:333`): `/a/*/b/*` is stored and rendered as the literal prefix `/a/*/b/`, so that paths CloudFront would serve from that
  behaviour go elsewhere. `FirstMatchServes` is about the documented kinds (`Documented`); its `Matches` is CloudFront's rule with both wildcards.
* Override of a response header: `response_headers.go:28-30` says the policy's value takes the place of the origin's. With an empty value there is none.
* The hooks of a behaviour: `docs/lambda-edge.md:134` and `:310` promise each behaviour's origin hooks on a miss. The second of
  two viewer-request behaviours with one policy does not get its own.
* A function's return without status, method and URI: the comment at `event.go:347` says error, the code goes on with the original request (`event.go:405`).

## 4. Proofs

The theorems hold for every value of the constants that satisfies the named assumptions of
their modules: any number of records, requests, files, directories, distributions, behaviours
and names, and any bound. Each proved module defines `IInv`; its `Proofs` module
shows Init => IInv and IInv /\ [Next]_vars => IInv', one lemma or step per action, and derives the properties.

* **InvalidationProofs.** `WriteThrough`, `Ownership` and `CleanWalkPurges` are not
  inductive alone. `Quiescent` says that a process that does not serve holds nothing
  volatile (so that recovery meets no owner); `HoldersHaveRecords` that requests and
  the worker refer to persisted records; `WalkCovers` that during a clean walk every
  remaining file of the batch is still listed or in a directory still to be entered, and that `residue`
  is within cache and batch. The proof has three layers: durability (with the types),
  ownership (with lemmas about the elements of `Append` and `Tail`), the walk. The action properties
  `ReadsNeverGoBack` and `PurgesOnlyForInProgress` follow from the same invariant:
  `seen` never exceeds `disk`, whose rank only grows, and what the worker holds is InProgress.
  `PlainPathsExact` follows from `BatchesAreSent` and `MatcherIsExact`, which goes through the code
  step by step: the key nginx writes for a request that normalization leaves alone, that its line fits the part of the file that
  is read (the size of the line, by induction over its characters), that the first line break and
  the first colon are the right ones, and what the pattern matches.
* **ReloaderProofs.** The heart is `NothingMissed`: unless the channel or the timer
  will cause another render, whatever the render under way has read is unchanged.
  `Ordered` and `SnapshotOrdered` order file <= snapshot <= store, which gives
  `NeverGoesBack`. `Stopped` says that a new process starts with an idle reloader.
  From the same invariant every step of `Reloader` is a step of `Publication` or leaves its
  variables alone (`ReloaderImplementsPublication`). For `ReloadPipeline`, `PipelineIInv` adds that
  the watcher has a stream while it reads one, and that every difference between the files and
  what nginx has read is accounted for by something still to come, a refusal or a lost event; it
  gives `NothingUnnoticed`. The pipeline's specification implies the reloader's, so it publishes too,
  and a quiet pipeline (after a render that succeeded, with nothing lost or refused) runs what the stores hold.
* **PolicyStoreProofs.** `LoadedExact` describes the state between `load` and
  `SeedManaged`. `NamesUnique` is what makes the scan order of `load` irrelevant.
* **DistributionStoreProofs.** Types, `RestartInvisible` and `CallersExact` are inductive together:
  the index is exact but for `moved`, which `load`, rebuilding the index, reduces to the references
  that several distributions share by then.
* **ListPagesProofs.** The list is sorted and complete (by counting how many records are newer),
  the marker is found where it is, and a page is a contiguous piece. The invariant says that the client has got its records in the
  order of the list, that the marker is the last of them, and that no old record before the marker is missing.
* **EdgeProxyProofs.** The invariant keeps, for the cache entry, for each entry a request has
  looked at and each answer on its way, a time at which the control plane would have sent it; `Timely` bounds how
  old an answer is when it is stored. That the first binding found in a lookup is the one of the first
  association in behaviour order is shown by induction over the loop of `collectFunctions`.
  `EchoIsTransparent` is about the conversions alone. By induction over the rounds of their loops, with any order of the
  names: `normaliseHeadersForEvent` moves the places of the header map one to one to places of the buckets,
  each to the bucket of its name (`InBuckets`; two casings of one name share a bucket, and each round appends); buckets have different
  canonical names, so that no round of `flattenHeaders` overwrites another (`Flat`). Sets paired by a
  bijection have the same size, so every value occurs as often as before (`ThereAndBack`).
* **ServingProofs**, about `Admission`. The invariant: what is published and what nginx runs is the outcome of `renderConf`
  for the distribution and header policies kept beside it, and those passed the checks of their way in. All six properties
  of the run then are statements about the renderer, for every distribution: each target
  has its location and upstream, behaviours keep their origin, what the loader accepts fails
  only for behaviours that share a policy and not an origin, header directives keep every
  accepted header (with a lemma on what `FlattenSeq` contains) and hide none without
  replacing it by a value that nginx adds, and the longest prefix is the first match where the more specific patterns come
  first (that `Matches` of a documented pattern is its prefix is shown along its characters).
* **ServingProofs**, about `EdgeRequest`. `RequestInv` ties the place of a request to the configuration. There is a behaviour
  that the current URI leads to, such that: the outer location is that behaviour's and the body that of its `Server`, the first behaviour with its
  forward location (`AtBehavior`); the inner location belongs to that one's
  policy, and a location that skips a hook of it is reached only after that hook (`HooksInOrder`; inner locations are merged per policy, so
  this rests on the renderer's lemmas about which location passes on to which); a literal URI is what the hops were given and hand on (`URIsKept`), which
  needs that normalizing, decoding and escaping leave a literal path alone and that splitting and joining the arguments are inverse; and the lifetime in an answer is what
  `ttl.js` computes with the behaviour's policy (`Timed`). An entry of the cache is under the key of the client it was fetched for, computed with the policy
  of the behaviour that the URI in the key leads to (`WellFiled`). `OriginHooksRun`,
  `FailOpenTransparent` and `RewriteReachesOrigin` are read off the invariant; `OriginLifetimes` also needs a case analysis of `computeAndInject`.
* **InductionLemmas.** Induction and bounded recursion over the numbers with a set in place of the
  predicate and a function in place of the step, derived from the well-foundedness of `<`. The prover
  cannot instantiate the library's versions, whose parameter is an operator; these it can, and the facts about
  loops above rest on them.

The assumptions are on types (Go's, for what the decoders produce), on sentinels that are no values of
those types, and on these facts: ids of different stores' records differ and managed policies have different
names (`PolicyStoreAssumption`); the queue holds at least one job (`ConstantsAssumption`); the page
limits are positive (`PageAssumption`); the ids of header policies are not empty and a request path begins with a slash
(`AdmissionAssumption`); a request line contains no line break, and a digest is 64 bytes long (`PathAssumption`); the
files in the cache are those of plain requests (`BatchAssumption`, the hypothesis of `PlainPathsExact`); distributions
under `EdgeRequest` are ones that render with different locations, and sanitizing does not make one of two policy ids
(`DistributionsAssumption`); request lines begin with a slash and a directive's value is a number or missing
(`RequestAssumption`); lines of a request head contain no line break, names of headers and cookies no "=" (`ClientsAssumption`); characters that nginx escapes have an
escape, and none stands for a slash or a dot (`EscapingAssumption`); header maps are finite and no header name is empty (`EventAssumption`).
TLC evaluates all of them on the instances.

Only model-checked is liveness, which needs fairness and ENABLED (`Settles`, `Converges`, `MutationsTakeEffect`,
`ListingEnds`, `Answered`), and `ServedOwnVariant`, whose proof would have to take the text of a key apart again. Every other property of a
passing run is stated by a theorem.

## 5. Not modelled

The conversion between wire XML and SDK types (`internal/api/xml`): field by field,
without state or decisions, a matter for round trip tests; handlers are modelled on
decoded configurations. The characters of the generated configuration, JSON decoding,
logging, routing, tagging and flag parsing. `MemoryStore` types are used by tests only. Request headers and bodies on the way to the
origin. Real time: the debounce windows and the grace period may last any finite time. A crash of the
machine that loses a bbolt commit which had returned; bbolt's durability is assumed.

## 6. Plan

All modules above are written, and the safety properties of all runs but `ServedOwnVariant` are proved. What would extend the project:

1. A proof of `ServedOwnVariant`: that joining is injective on legible parts, and that a collected list determines what the policy counts.
2. `EdgeRequest` with a reload between two requests, or between a response and its entry in the cache, by composing it with `Admission`:
   the cache outlives a configuration, and an entry keeps the lifetime of the policy it was stored under.
3. Concurrent requests in `EdgeRequest`: nginx's cache lock and two misses for one key.
4. The hazards without a property in `PROJECT.json`, most of which state what the code is not meant to prevent.
