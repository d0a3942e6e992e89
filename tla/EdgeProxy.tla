----------------------------- MODULE EdgeProxy ------------------------------
(***************************************************************************)
(* The edge proxy (cmd/edge-proxy, internal/edgefunc) and the control      *)
(* plane's lookup endpoint (internal/api/edgefunc), for one distribution.  *)
(*                                                                         *)
(* Every request runs in a goroutine of its own.  resolveFunction reads    *)
(* the lookup cache under the mutex, asks the control plane without it,    *)
(* and takes it again to store the answer; other requests, changes of the  *)
(* distribution and the clock may come between any two of these.           *)
(*                                                                         *)
(* A distribution is the sequence of its behaviours, the default one       *)
(* first, each the sequence of its Lambda associations.  What the events   *)
(* and the translated answers contain is the subject of EdgeEvent.         *)
(***************************************************************************)
EXTENDS EdgeEvent

CONSTANTS
    Requests,       \* concurrent /invoke requests
    Configs,        \* distributions the control plane may hold
    EnvEntries,     \* CF_LOCAL_LAMBDA_FUNCTIONS, entry by entry
    FunctionName,   \* the function name in each ARN, "" in a malformed one
    Hooks,          \* event types that are asked for
    TTL,            \* lifetime of a cache entry
    Patience,       \* the longest njs waits for /invoke before it hangs up
    MaxTime,        \* bound on the clock
    MaxChanges,     \* bound on changes of the distribution
    Events          \* which failures may happen

ASSUME EdgeProxyAssumption ==
    /\ Hooks \subseteq EventTypes
    /\ TTL \in Nat /\ Patience \in Nat
    /\ MaxTime \in Nat /\ MaxChanges \in Nat
    /\ Events \subseteq {"lookup", "rie", "hangup", "restart"}

VARIABLES
    dist,       \* the distribution in the control plane's store, or None
    changes,    \* how often it has changed
    past,       \* history: the distributions held at each time so far
    now,        \* the clock
    cache,      \* the lookup cache entry, or None
    pc,         \* where each request is
    type,       \* its event type
    snap,       \* the entry its first look at the cache found, or None
    answer,     \* the bindings the control plane sent it
    since,      \* when it looked at the cache
    fn,         \* the binding it resolved to, or None
    source,     \* where that came from: "hit", "lookup", "stale" or "none"
    outcome,    \* the Action it was answered with, or None
    hungup      \* njs has given up on it: its context is cancelled

vars == <<dist, changes, past, now, cache, pc, type, snap, answer,
          since, fn, source, outcome, hungup>>
world == <<dist, changes, past, now>>

-----------------------------------------------------------------------------
(* The lookup endpoint. *)

(* Entries without a name or a value are skipped; the last one for a name wins. *)
ParseFunctionEndpoints(raw) ==
    LET Usable(i) == raw[i].name # "" /\ raw[i].value # ""
        names == {raw[i].name : i \in {j \in DOMAIN raw : Usable(j)}}
    IN [n \in names |->
            raw[SelectLastInSeq(raw, LAMBDA e : e.name = n /\ e.value # "")].value]

resolveRIEEndpoint(arn) ==
    LET endpoints == ParseFunctionEndpoints(EnvEntries)
        name == FunctionName[arn]
    IN IF name \in DOMAIN endpoints THEN endpoints[name] ELSE ""

Binding(item) ==
    [event |-> item.event, arn |-> item.arn, endpoint |-> resolveRIEEndpoint(item.arn)]

appendFromAssociations(out, lfa) == out \o [i \in DOMAIN lfa |-> Binding(lfa[i])]

(* The loop over the behaviours, the default one first. *)
collectFunctions(d) ==
    LET out[n \in 0 .. Len(d)] ==
            IF n = 0 THEN <<>> ELSE appendFromAssociations(out[n - 1], d[n])
    IN out[Len(d)]

(* The bindings the endpoint sends for distribution d; a 404 is none. *)
Bindings(d) == IF d = None THEN <<>> ELSE collectFunctions(d)

findByEvent(functions, t) ==
    LET i == SelectInSeq(functions, LAMBDA f : f.event = t)
    IN IF i = 0 THEN None ELSE functions[i]

(* A distribution is a sequence of sequences of associations, and None is   *)
(* none of the values it is told apart from.                                *)
ASSUME ConfigAssumption ==
    /\ Configs \subseteq Seq(Seq([event : EventTypes, arn : DOMAIN FunctionName]))
    /\ None \notin Configs
    /\ \A d \in Configs : \A i \in DOMAIN d : \A j \in DOMAIN d[i] : Binding(d[i][j]) # None

-----------------------------------------------------------------------------
Idle == [r \in Requests |-> "idle"]
Nothing == [r \in Requests |-> None]

Init ==
    /\ dist \in Configs \cup {None}
    /\ changes = 0
    /\ past = [t \in 0 .. MaxTime |-> IF t = 0 THEN {dist} ELSE {}]
    /\ now = 0
    /\ cache = None
    /\ pc = Idle
    /\ type = Nothing
    /\ snap = Nothing
    /\ answer = Nothing
    /\ since = [r \in Requests |-> 0]
    /\ fn = Nothing
    /\ source = [r \in Requests |-> "none"]
    /\ outcome = Nothing
    /\ hungup = [r \in Requests |-> FALSE]

(* resolveFunction returns; what it read goes out of scope. *)
Resolve(r, functions, from) ==
    /\ snap' = [snap EXCEPT ![r] = None]
    /\ answer' = [answer EXCEPT ![r] = None]
    /\ fn' = [fn EXCEPT ![r] = findByEvent(functions, type'[r])]
    /\ source' = [source EXCEPT ![r] = from]
    /\ pc' = [pc EXCEPT ![r] = "resolved"]

(* The response is written and invoke's variables go out of scope. *)
Finish(r, action) ==
    /\ pc' = [pc EXCEPT ![r] = "done"]
    /\ outcome' = [outcome EXCEPT ![r] = action]
    /\ type' = [type EXCEPT ![r] = None]
    /\ since' = [since EXCEPT ![r] = 0]
    /\ fn' = [fn EXCEPT ![r] = None]
    /\ source' = [source EXCEPT ![r] = "none"]
    /\ hungup' = [hungup EXCEPT ![r] = FALSE]

(* handleInvoke refuses a body it cannot read, decode or find the ids in, *)
(* and invoke an event type without a handler.                            *)
RefuseInvoke(r) ==
    /\ pc[r] = "idle"
    /\ Finish(r, "error")
    /\ UNCHANGED <<world, cache, snap, answer>>

(* invoke, and the first locked section of resolveFunction. *)
Invoke(r, t) ==
    /\ pc[r] = "idle"
    /\ type' = [type EXCEPT ![r] = t]
    /\ since' = [since EXCEPT ![r] = now]
    /\ IF cache # None /\ now <= cache.expiresAt
       THEN Resolve(r, cache.functions, "hit")
       ELSE /\ snap' = [snap EXCEPT ![r] = cache]
            /\ pc' = [pc EXCEPT ![r] = "resolving"]
            /\ UNCHANGED <<answer, fn, source>>
    /\ UNCHANGED <<world, cache, outcome, hungup>>

(* The lookup endpoint reads the store; the answer is under way. *)
LookupAnswers(r) ==
    /\ pc[r] = "resolving" /\ ~hungup[r]
    /\ answer' = [answer EXCEPT ![r] = Bindings(dist)]
    /\ pc' = [pc EXCEPT ![r] = "answering"]
    /\ UNCHANGED <<world, cache, type, snap, since, fn, source, outcome, hungup>>

(* Wrong: a lookup does not notice that its request is gone. *)
LookupFailsDeaf(r) ==
    /\ pc[r] \in {"resolving", "answering"}
    /\ ~ hungup[r] /\ "lookup" \in Events
    /\ UNCHANGED type
    /\ IF snap[r] # None THEN Resolve(r, snap[r].functions, "stale")
                         ELSE Resolve(r, <<>>, "none")
    /\ UNCHANGED <<world, cache, since, outcome, hungup>>

(* No answer, an error status, or a cancelled context: whatever entry the *)
(* request saw at first is used, however old it is.                       *)
LookupFails(r) ==
    /\ pc[r] \in {"resolving", "answering"}
    /\ hungup[r] \/ "lookup" \in Events
    /\ UNCHANGED type
    /\ IF snap[r] # None THEN Resolve(r, snap[r].functions, "stale")
                         ELSE Resolve(r, <<>>, "none")
    /\ UNCHANGED <<world, cache, since, outcome, hungup>>

(* Wrong: an entry counts from its predecessor's expiry. *)
StoreExtending(r) ==
    /\ pc[r] = "answering"
    /\ cache' = [functions |-> answer[r],
                 expiresAt |-> (IF cache = None THEN now ELSE cache.expiresAt) + TTL]
    /\ UNCHANGED type
    /\ Resolve(r, answer[r], "lookup")
    /\ UNCHANGED <<world, since, outcome, hungup>>

(* The second locked section: the answer replaces whatever is there. *)
Store(r) ==
    /\ pc[r] = "answering"
    /\ cache' = [functions |-> answer[r], expiresAt |-> now + TTL]
    /\ UNCHANGED type
    /\ Resolve(r, answer[r], "lookup")
    /\ UNCHANGED <<world, since, outcome, hungup>>

(* Wrong: a binding without an endpoint is invoked all the same. *)
DispatchAnyway(r) ==
    /\ pc[r] = "resolved"
    /\ \/ fn[r] = None /\ Finish(r, "continue")
       \/ /\ fn[r] # None
          /\ pc' = [pc EXCEPT ![r] = "invoking"]
          /\ UNCHANGED <<outcome, type, since, fn, source, hungup>>
    /\ UNCHANGED <<world, cache, snap, answer>>

(* invoke after the binding is known: pass through, refuse a binding without *)
(* an endpoint or a snapshot no event can be built from, or call the RIE.    *)
Dispatch(r) ==
    /\ pc[r] = "resolved"
    /\ \/ fn[r] = None /\ Finish(r, "continue")
       \/ fn[r] # None /\ Finish(r, "error")
       \/ /\ fn[r] # None /\ fn[r].endpoint # ""
          /\ pc' = [pc EXCEPT ![r] = "invoking"]
          /\ UNCHANGED <<outcome, type, since, fn, source, hungup>>
    /\ UNCHANGED <<world, cache, snap, answer>>

(* The function returned; what follows is the translator's decision. *)
RIEAnswers(r) ==
    /\ pc[r] = "invoking" /\ ~hungup[r]
    /\ \E action \in Actions[type[r]] : Finish(r, action)
    /\ UNCHANGED <<world, cache, snap, answer>>

(* RIEClient.Invoke gives up after its timeout, or earlier on an error. *)
RIEFails(r) ==
    /\ pc[r] = "invoking"
    /\ hungup[r] \/ "rie" \in Events
    /\ Finish(r, "error")
    /\ UNCHANGED <<world, cache, snap, answer>>

(* A request is forgotten once njs has its answer, and another one comes. *)
Forget(r) ==
    /\ pc[r] = "done"
    /\ pc' = [pc EXCEPT ![r] = "idle"]
    /\ outcome' = [outcome EXCEPT ![r] = None]
    /\ UNCHANGED <<world, cache, type, snap, answer, since, fn, source, hungup>>

RequestStep(r) ==
    \/ \E t \in Hooks : Invoke(r, t)
    \/ RefuseInvoke(r)
    \/ LookupAnswers(r)
    \/ LookupFails(r)
    \/ Store(r)
    \/ Dispatch(r)
    \/ RIEAnswers(r)
    \/ RIEFails(r)
    \/ Forget(r)

-----------------------------------------------------------------------------
(* njs closes the connection, which cancels the request's context. *)
HangUp(r) ==
    /\ "hangup" \in Events
    /\ pc[r] \notin {"idle", "done"} /\ ~hungup[r]
    /\ hungup' = [hungup EXCEPT ![r] = TRUE]
    /\ UNCHANGED <<world, cache, pc, type, snap, answer, since, fn, source, outcome>>

(* The process starts again: the cache and every request in it are gone. *)
Restart ==
    /\ "restart" \in Events
    /\ cache' = None
    /\ pc' = [r \in Requests |-> "idle"]
    /\ type' = Nothing
    /\ snap' = Nothing
    /\ answer' = Nothing
    /\ since' = [r \in Requests |-> 0]
    /\ fn' = Nothing
    /\ source' = [r \in Requests |-> "none"]
    /\ outcome' = Nothing
    /\ hungup' = [r \in Requests |-> FALSE]
    /\ UNCHANGED <<dist, changes, past, now>>

(* A client creates, updates or deletes the distribution. *)
ChangeDistribution(d) ==
    /\ changes < MaxChanges
    /\ d # dist
    /\ dist' = d
    /\ changes' = changes + 1
    /\ past' = [past EXCEPT ![now] = @ \cup {d}]
    /\ UNCHANGED <<now, cache, pc, type, snap, answer, since, fn,
                   source, outcome, hungup>>

(* Time passes, but no lookup outlasts njs's patience. *)
Tick ==
    /\ now < MaxTime
    /\ \A r \in Requests :
        pc[r] \in {"resolving", "answering"} => now - since[r] < Patience
    /\ now' = now + 1
    /\ past' = [past EXCEPT ![now + 1] = {dist}]
    /\ UNCHANGED <<dist, changes, cache, pc, type, snap, answer, since,
                   fn, source, outcome, hungup>>

Next ==
    \/ \E r \in Requests : RequestStep(r) \/ HangUp(r)
    \/ Restart
    \/ \E d \in Configs \cup {None} : ChangeDistribution(d)
    \/ Tick

(* Goroutines run and njs's patience is finite.  Neither the control plane *)
(* nor the RIE is assumed to answer, or to fail: a lookup has no deadline   *)
(* of its own.  What is waited for ends when its context is cancelled.      *)
Fairness ==
    \A r \in Requests :
        /\ WF_vars(Dispatch(r))
        /\ WF_vars(HangUp(r))
        /\ WF_vars(hungup[r] /\ LookupFails(r))
        /\ WF_vars(hungup[r] /\ RIEFails(r))

Spec == Init /\ [][Next]_vars /\ Fairness

-----------------------------------------------------------------------------
(* The ARN that hook t of distribution d should run: the default behaviour's *)
(* first association, or else that of the first behaviour that has one       *)
(* (REV-2 in handler.go).                                                    *)
Expected(d, t) ==
    LET Has(i) == \E j \in DOMAIN d[i] : d[i][j].event = t
        First(i) == CHOOSE j \in DOMAIN d[i] :
                        /\ d[i][j].event = t
                        /\ \A k \in 1 .. j - 1 : d[i][k].event # t
    IN IF d = None THEN None
       ELSE IF \A i \in DOMAIN d : ~Has(i) THEN None
       ELSE LET i == CHOOSE i \in DOMAIN d : Has(i) /\ \A k \in 1 .. i - 1 : ~Has(k)
            IN d[i][First(i)].arn

(* However lookups and changes interleave, also when a slow answer replaces  *)
(* the entry a later one stored: a request that is served from an unexpired  *)
(* entry or from its own lookup runs the function (or passes through, when   *)
(* there is none) that was bound at most TTL plus the duration of a lookup   *)
(* before it came (resolveFunction, collectFunctions, findByEvent).          *)
BoundRecently ==
    \A r \in Requests :
        (pc[r] \in {"resolved", "invoking"} /\ source[r] \in {"hit", "lookup"}) =>
            \E t \in since[r] - TTL - Patience .. now :
                t >= 0 /\ \E d \in past[t] :
                    Expected(d, type[r]) = IF fn[r] = None THEN None ELSE fn[r].arn

(* A function is only ever invoked if it has been bound to that event at     *)
(* some time, also when expired entries are used because the control plane   *)
(* does not answer; and never without an endpoint (invoke).                  *)
InvokedWasBound ==
    \A r \in Requests :
        pc[r] = "invoking" =>
            /\ fn[r].endpoint # ""
            /\ \E t \in 0 .. now : \E d \in past[t] : Expected(d, type[r]) = fn[r].arn

(* Every request njs sends is answered, or given up with the process, though *)
(* neither the control plane nor the RIE may ever answer: the lookup and the *)
(* invocation both end with the request's context.                           *)
Answered ==
    \A r \in Requests : (pc[r] # "idle") ~> (pc[r] \in {"done", "idle"})

InvocationStarts == \E r \in Requests : pc[r] = "invoking"

(* Whatever is invoked, a function that returns what it was given changes     *)
(* nothing, for any of the four hooks: no header value is lost or doubled on  *)
(* the way through normaliseHeadersForEvent and flattenHeaders, whatever      *)
(* casings njs sent and in whatever order Go iterates over them.              *)
EchoIsTransparent == InvocationStarts => \A t \in EventTypes : Transparent[t]

-----------------------------------------------------------------------------
(* What BoundRecently and InvokedWasBound need to be inductive.             *)

(* The control plane held d at time t and would have sent these bindings.   *)
SentAt(functions, t) == \E d \in past[t] : functions = Bindings(d)

(* A binding was found in what had been sent at time t. *)
FoundAt(r, t) == \E d \in past[t] : fn[r] = findByEvent(Bindings(d), type[r])

Typed ==
    /\ now \in 0 .. MaxTime
    /\ dist \in Configs \cup {None}
    /\ past \in [0 .. MaxTime -> SUBSET (Configs \cup {None})]
    /\ pc \in [Requests -> {"idle", "resolving", "answering", "resolved", "invoking", "done"}]
    /\ since \in [Requests -> 0 .. MaxTime]
    /\ source \in [Requests -> {"none", "hit", "lookup", "stale"}]
    /\ Requests = DOMAIN type /\ Requests = DOMAIN snap
    /\ Requests = DOMAIN answer /\ Requests = DOMAIN fn

(* An entry was sent no longer before it was stored than a lookup may take. *)
CacheSent ==
    cache # None =>
        /\ cache.expiresAt \in Nat
        /\ \E t \in 0 .. now :
              cache.expiresAt - TTL - Patience <= t /\ SentAt(cache.functions, t)

Waits(r) == pc[r] \in {"resolving", "answering"}

(* No lookup outlasts njs's patience. *)
Timely(r) == Waits(r) => since[r] <= now /\ now - since[r] <= Patience

LookupSent(r) ==
    /\ Waits(r) /\ snap[r] # None => \E t \in 0 .. now : SentAt(snap[r].functions, t)
    /\ pc[r] = "answering" => \E t \in since[r] .. now : SentAt(answer[r], t)

ResolvedFrom(r) ==
    pc[r] \in {"resolved", "invoking"} =>
        \/ source[r] = "none" /\ fn[r] = None
        \/ source[r] = "stale" /\ \E t \in 0 .. now : FoundAt(r, t)
        \/ /\ source[r] \in {"hit", "lookup"}
           /\ \E t \in 0 .. now : since[r] - TTL - Patience <= t /\ FoundAt(r, t)

Callable(r) == pc[r] = "invoking" => fn[r] # None /\ fn[r].endpoint # ""

RequestInv(r) == Timely(r) /\ LookupSent(r) /\ ResolvedFrom(r) /\ Callable(r)

IInv ==
    /\ Typed
    /\ dist \in past[now]
    /\ CacheSent
    /\ \A r \in Requests : RequestInv(r)
=============================================================================
