----------------------------- MODULE EdgeRequest ----------------------------
(***************************************************************************)
(* The way of a request through a rendered configuration: the outer        *)
(* locations, the cache, the hops of the inner server, and the handlers of *)
(* edge.js that run in them.                                               *)
(*                                                                         *)
(* A URI is a sequence of characters in which one character may stand for  *)
(* a word, or is an escape.  "?" separates the arguments.  One argument is *)
(* one parameter.                                                          *)
(*                                                                         *)
(* Requests follow one another; what they share is the cache.  Eviction    *)
(* and invalidation happen at any time.  The configuration is fixed:       *)
(* Reloader and Admission model how it changes.                            *)
(***************************************************************************)
EXTENDS CacheKey, RequestURI

CONSTANTS
    EdgeDistributions, \* distributions with their hooks
    PolicySets,        \* the policies behind policies.json, or None without it
    EdgeID,            \* $cf_distribution_id
    Functions,         \* what the functions bound to the hooks do
    Clients,           \* requests
    Reserved,          \* characters that nginx escapes in the URI it proxies
    Parameters,        \* [argument -> its name and value, decoded]
    Replies,           \* the origin's answers: status and Cache-Control
    MaxRedirects,      \* nginx's limit on internal redirects
    MaxCached,         \* how many responses fit in the cache
    Events             \* what may happen to the cache

VARIABLES
    site,    \* what nginx runs with and the functions that are bound, chosen once
    cache,   \* key -> entry
    req      \* the request

requestVars == <<site, cache, req>>

EdgeHooks == {"viewer-request", "origin-request", "origin-response"}
FunctionKinds == {"echo", "prefix", "move", "status", "respond"}

(* The distributions are ones that nginx runs with: they were rendered, and *)
(* no two locations are the same.  Two ids of one distribution do not       *)
(* become one when they are sanitized, which is true of the ids that the    *)
(* store assigns.                                                           *)
ASSUME DistributionsAssumption ==
    \A d \in EdgeDistributions :
        /\ DistributionShape(d)
        /\ \E conf \in {renderConf(d, <<>>, EdgeID)} :
              /\ conf.ok
              /\ \A i, j \in DOMAIN conf.val.outer :
                    conf.val.outer[i].location = conf.val.outer[j].location => i = j
        /\ \A i, j \in DOMAIN AllBehaviors(d) :
              LET b == AllBehaviors(d)[i]
                  c == AllBehaviors(d)[j]
              IN sanitizeID(b.policy) = sanitizeID(c.policy) => b.policy = c.policy

(* A directive has a value only where it is a number.  A request line       *)
(* begins with a slash.                                                     *)
TTLsShape(ps) ==
    \A id \in DOMAIN ps :
        /\ ps[id].minTTL \in Int \cup {None} /\ ps[id].maxTTL \in Int \cup {None}
        /\ ps[id].defaultTTL \in Int \cup {None}

ASSUME RequestAssumption ==
    /\ None \notin Int
    /\ TTLsShape(TestPolicies)
    /\ \A ps \in PolicySets \ {None} : TTLsShape(ps)
    /\ Functions \subseteq [EdgeHooks -> FunctionKinds]
    /\ \A c \in Clients : c.raw \in Text /\ c.raw # <<>> /\ c.raw[1] = "/"
    /\ \A reply \in Replies :
          reply.control \in Seq([name : STRING, value : Nat \cup {None}])

(* A line of a request head contains no line break, and the name of a       *)
(* header or a cookie no "=" (parseCookieHeader).  An argument is a         *)
(* parameter without a value unless it is listed.                           *)
Without(s, c) == s \in Text /\ \A i \in DOMAIN s : s[i] # c

ASSUME ClientsAssumption ==
    /\ \A c \in Clients :
          /\ c.method \in STRING /\ c.method # "\n"
          /\ \A map \in {c.headers, c.cookies} :
                /\ IsFiniteSet(DOMAIN map) /\ map = [n \in DOMAIN map |-> map[n]]
                /\ \A n \in DOMAIN map :
                      Without(n, "=") /\ Without(n, "\n") /\ Without(map[n], "\n")
    /\ \A arg \in DOMAIN Parameters : Parameters[arg].name \in Text /\ Parameters[arg].value \in Text

(* Every character that is escaped has an escape.  No escape stands for a   *)
(* slash or a dot: the inner server would merge and resolve it together     *)
(* with its own prefix, which is left out.                                  *)
ASSUME EscapingAssumption ==
    /\ "?" \in Reserved
    /\ \A c \in Reserved : \E e \in DOMAIN Escapes : Escapes[e] = c
    /\ \A e \in DOMAIN Escapes : Escapes[e] \notin {"/", "."}

-----------------------------------------------------------------------------
(* nginx's handling of URIs, external. *)

Encode(s) ==
    [i \in DOMAIN s |-> IF s[i] \in Reserved THEN CHOOSE e \in DOMAIN Escapes : Escapes[e] = s[i]
                        ELSE s[i]]

WithArgs(path, args) == IF args = <<>> THEN path ELSE path \o <<"?">> \o args

SplitArgs(s) ==
    LET marks == {i \in DOMAIN s : s[i] = "?"}
    IN IF marks = {} THEN [path |-> s, args |-> <<>>]
       ELSE LET m == Min(marks)
            IN [path |-> SubSeq(s, 1, m - 1), args |-> SubSeq(s, m + 1, Len(s))]

(* A request line is split and its path normalized.                         *)
ParseRequest(s) == LET u == SplitArgs(s) IN [u EXCEPT !.path = Normalized(@)]

(* The target of internalRedirect is split and decoded; it is not           *)
(* normalized.                                                              *)
ParseTarget(s) == LET u == SplitArgs(s) IN [u EXCEPT !.path = Decode(@)]

-----------------------------------------------------------------------------
(* Responses.  expires and error are X-Accel-Expires and X-Cf-Ttl-Error,    *)
(* seen is the request line the origin got.                                 *)

Response(status, from) ==
    [status |-> status, from |-> from, expires |-> None, error |-> FALSE,
     seen |-> <<>>, age |-> <<>>]

Unanswered == Response(0, "none")

(* Headers of the origin are copied, those of the function added.           *)
returnOriginResponse(resp, status) == [resp EXCEPT !.status = status]

(* The functions.  "echo" is also a hook without a binding. *)
Invoked(kind, uri) ==
    CASE kind = "echo" -> [action |-> "continue", uri |-> uri, status |-> None]
      [] kind = "prefix" -> [action |-> "continue", status |-> None,
                             uri |-> [uri EXCEPT !.path = <<"/", "a">> \o @]]
      [] kind = "move" -> [action |-> "continue", status |-> None,
                           uri |-> [path |-> <<"/", "b">>, args |-> <<"t">>]]
      [] kind = "status" -> [action |-> "continue", uri |-> uri, status |-> 404]
      [] kind = "respond" -> [action |-> "short_circuit", status |-> 200]

FailOpen == [action |-> "error"]

(* runEdgeFunction: the edge proxy is called, unless there is no id.  No    *)
(* answer, a malformed one and an error are one to the caller.              *)
runEdgeFunction(event, uri) ==
    {FailOpen}
    \cup IF site.conf.distribution = <<>> THEN {} ELSE {Invoked(site.function[event], uri)}

Changes(res, uri) ==
    res.action = "short_circuit" \/ (res.action = "continue" /\ (res.uri # uri \/ res.status # None))

-----------------------------------------------------------------------------
(* The outer server. *)

(* Where a URI leads: to the cache or to the viewer-request hook. *)
Routed(r, uri) ==
    LET l == Location(site.conf, uri.path)
    IN [r EXCEPT !.uri = uri, !.at = l.location,
                 !.phase = IF l.content = "cache" THEN "lookup" ELSE "viewer",
                 !.body = IF l.content = "cache" THEN l.body ELSE None]

Finished(r, resp) == [r EXCEPT !.phase = "done", !.resp = resp]

Blank(client) ==
    [phase |-> "done", client |-> client, uri |-> [path |-> <<>>, args |-> <<>>], at |-> <<>>,
     body |-> None, hops |-> 0, inner |-> None, below |-> [path |-> <<>>, args |-> <<>>],
     wrapped |-> FALSE, ran |-> {},
     changed |-> FALSE, rewritten |-> FALSE, hit |-> FALSE,
     resp |-> Unanswered]

Sites ==
    {[dist |-> d, conf |-> renderConf(d, <<>>, EdgeID).val,
      policies |-> POLICIES(IF ps = None THEN None ELSE buildPoliciesJSON(ps)),
      function |-> f] : d \in EdgeDistributions, ps \in PolicySets, f \in Functions}

RequestInit ==
    /\ site \in Sites
    /\ cache = <<>>
    /\ req \in {Blank(c) : c \in Clients}

Arrive(client) ==
    /\ req.phase = "done"
    /\ LET uri == ParseRequest(client.raw)
       IN req' = IF uri.path = Above THEN Finished(Blank(client), Response(400, "nginx"))
                 ELSE Routed(Blank(client), uri)
    /\ UNCHANGED <<site, cache>>

Redirected(r, next) ==
    IF r.hops = MaxRedirects THEN Finished(r, Response(500, "nginx")) ELSE next

Named(r, name) == [r EXCEPT !.phase = "lookup", !.body = NamedLocation(site.conf, name).body]

(* Empty when nothing changed.                                              *)
computeOverrideTarget(uri, override) ==
    IF override = uri THEN <<>> ELSE WithArgs(override.path, override.args)

viewerRequest ==
    /\ req.phase = "viewer"
    /\ \E res \in runEdgeFunction("viewer-request", req.uri) :
          LET forward == Location(site.conf, req.uri.path).forward
              target == IF res.action = "continue" THEN computeOverrideTarget(req.uri, res.uri)
                        ELSE <<>>
              r == [req EXCEPT !.ran = @ \cup {"viewer-request"},
                               !.changed = @ \/ Changes(res, req.uri),
                               !.rewritten = @ \/ target # <<>>]
              q == [r EXCEPT !.hops = @ + 1]
          IN req' = CASE res.action = "short_circuit" ->
                           Finished(r, Response(res.status, "function"))
                      [] res.action # "short_circuit" /\ target # <<>> ->
                           Redirected(r, Routed(q, ParseTarget(target)))
                      [] OTHER -> Redirected(r, Named(q, forward))
    /\ UNCHANGED <<site, cache>>

Parameter(arg) ==
    IF arg \in DOMAIN Parameters THEN Parameters[arg] ELSE [name |-> <<arg>>, value |-> <<>>]

(* r.args: every name with its values, in their order.                      *)
Queries(args) ==
    [n \in {Parameter(args[i]).name : i \in DOMAIN args} |->
        FlattenSeq([i \in DOMAIN args |->
            IF Parameter(args[i]).name = n THEN <<Parameter(args[i]).value>> ELSE <<>>])]

Client == [method |-> req.client.method, headers |-> req.client.headers,
           cookies |-> req.client.cookies, accept |-> req.client.accept,
           queries |-> Queries(req.uri.args)]

Key == forNginx(site.policies, req.body.policy, req.uri.path, Client)

(* A location of the inner server, and the URI it sees below its prefix.    *)
Enter(r, target, uri) ==
    [r EXCEPT !.phase = "inner", !.below = uri,
              !.inner = CHOOSE l \in site.conf.inner : l.location = target]

(* The methods nginx caches unless a configuration says otherwise.          *)
CachedMethod == req.client.method \in {"GET", "HEAD"}

(* The cache of an outer location, and its proxy_pass. *)
Lookup ==
    /\ req.phase = "lookup"
    /\ req' = IF CachedMethod /\ Key \in DOMAIN cache
              THEN [Finished(req, cache[Key].resp) EXCEPT !.hit = TRUE]
              ELSE Enter(req, req.body.target,
                         ParseRequest(IF req.body.uri = "$uri"
                                      THEN WithArgs(req.uri.path, req.uri.args)
                                      ELSE req.client.raw))
    /\ UNCHANGED <<site, cache>>

-----------------------------------------------------------------------------
(* The inner server. *)

InLocation(content) == req.phase = "inner" /\ req.inner.content = content

(* runOriginResponse, up to the end of the fetch.  The tail is put together *)
(* from the decoded URI.                                                    *)
FetchOrigin ==
    /\ InLocation("edge.runOriginResponse")
    /\ \/ req' = [Enter(req, req.inner.next,
                        ParseRequest(WithArgs(req.below.path, req.below.args)))
                    EXCEPT !.wrapped = TRUE]
       \/ req' = [req EXCEPT !.phase = "back", !.resp = Response(502, "nginx")]
    /\ UNCHANGED <<site, cache>>

(* Wrong: the arguments are left behind. *)
originRequestRedirectTargetBare(tail, qs) == tail

originRequestRedirectTarget(tail, qs) == WithArgs(tail, qs)

runOriginRequest ==
    /\ InLocation("edge.runOriginRequest")
    /\ \E res \in runEdgeFunction("origin-request", req.below) :
          LET final == IF res.action = "continue" THEN res.uri ELSE req.below
              r == [req EXCEPT !.ran = @ \cup {"origin-request"},
                               !.changed = @ \/ Changes(res, req.below)]
          IN req' = IF res.action = "short_circuit"
                    THEN [r EXCEPT !.phase = "back", !.resp = Response(res.status, "function")]
                    ELSE Enter(r, req.inner.next,
                               ParseTarget(originRequestRedirectTarget(final.path, final.args)))
    /\ UNCHANGED <<site, cache>>

(* The origin, external, with the header filter on what it returns.  An     *)
(* origin that cannot be reached is a reply of 502.                         *)
Origin(reply) ==
    /\ InLocation("origin")
    /\ LET ttl == computeAndInject(site.policies, req.inner.policy, reply.control)
       IN req' = [req EXCEPT !.phase = "back",
                    !.resp = [status |-> reply.status, from |-> "origin",
                              expires |-> ttl.expires, error |-> ttl.error,
                              seen |-> WithArgs(Encode(req.below.path), req.below.args),
                              age |-> reply.control]]
    /\ UNCHANGED <<site, cache>>

(* runOriginResponse, from the end of the fetch.  The function answers with *)
(* a response or with an error, never with a short circuit.                 *)
runOriginResponse ==
    /\ req.phase = "back" /\ req.wrapped
    /\ \E res \in runEdgeFunction("origin-response", req.uri) :
          req' = [req EXCEPT !.wrapped = FALSE,
                    !.ran = @ \cup {"origin-response"},
                    !.changed = @ \/ Changes(res, req.uri),
                    !.resp = returnOriginResponse(req.resp,
                                IF res.action = "continue" /\ res.status # None
                                THEN res.status ELSE req.resp.status)]
    /\ UNCHANGED <<site, cache>>

-----------------------------------------------------------------------------
(* Back in the outer location. *)

SafetyNet == [status \in {200, 404} |-> IF status = 200 THEN 86400 ELSE 10]

(* How long nginx keeps a response, external: proxy_no_cache, then          *)
(* X-Accel-Expires, then proxy_cache_valid.  Zero is not at all.            *)
Lifetime(resp) ==
    CASE resp.error -> 0
      [] ~ resp.error /\ resp.expires # None -> resp.expires
      [] ~ resp.error /\ resp.expires = None /\ resp.status \in {200, 404} ->
            SafetyNet[resp.status]
      [] OTHER -> 0

(* Other entries make room when the cache is full. *)
Store ==
    /\ req.phase = "back" /\ ~ req.wrapped
    /\ \/ (Lifetime(req.resp) = 0 \/ ~ CachedMethod) /\ UNCHANGED cache
       \/ /\ Lifetime(req.resp) > 0 /\ CachedMethod
          /\ \E kept \in SUBSET (DOMAIN cache \ {Key}) :
                /\ Cardinality(kept) = Min({MaxCached - 1, Cardinality(DOMAIN cache \ {Key})})
                /\ cache' = [k \in kept \cup {Key} |->
                                IF k = Key
                                THEN [resp |-> req.resp, lifetime |-> Lifetime(req.resp),
                                      client |-> Client, policy |-> req.body.policy]
                                ELSE cache[k]]
    /\ req' = Finished(req, req.resp)
    /\ UNCHANGED site

Evict(key) ==
    /\ "evict" \in Events
    /\ cache' = [k \in DOMAIN cache \ {key} |-> cache[k]]
    /\ UNCHANGED <<site, req>>

(* A walk of the invalidation worker for every path.  A response that is on *)
(* its way is stored afterwards all the same.                               *)
Purge ==
    /\ "purge" \in Events
    /\ cache' = <<>>
    /\ UNCHANGED <<site, req>>

RequestNext ==
    \/ \E c \in Clients : Arrive(c)
    \/ viewerRequest
    \/ Lookup
    \/ FetchOrigin
    \/ runOriginRequest
    \/ \E reply \in Replies : Origin(reply)
    \/ runOriginResponse
    \/ Store
    \/ \E key \in DOMAIN cache : Evict(key)
    \/ Purge

RequestSpec == RequestInit /\ [][RequestNext]_requestVars

-----------------------------------------------------------------------------
(* Properties. *)

OriginHooks == {"origin-request", "origin-response"}

All == AllBehaviors(site.dist)

(* The behaviour a location was rendered from, and its hooks.               *)
Behind(location) == {i \in DOMAIN All : pathPatternToLocation(All[i].pattern).val = location}
HooksAt(location) == UNION {All[i].hooks : i \in Behind(location)}

Fetched(r) == r.phase = "done" /\ ~ r.hit /\ r.resp.from = "origin"

(* A path that is the same however often it is decoded, and is put back     *)
(* together as it was.                                                      *)
Literal(path) == ~ Complex(path) /\ \A i \in DOMAIN path : path[i] \notin Reserved

(* A "?" with nothing after it is not passed on. *)
Unmarked(s) == \A i \in DOMAIN s : s[i] # "?"
WithoutBareMark(s) == SplitArgs(s).args = <<>> => Unmarked(s)

OwnSan(i) == sanitizeID(All[i].policy)

(* The behaviour whose body serves the requests of behaviour i: i itself,   *)
(* or the first one with a forward location of that name.                   *)
Forwarding(i) == {j \in DOMAIN All : hasViewerRequestAssociation(All[j]) /\ OwnSan(j) = OwnSan(i)}
Server(i) == IF hasViewerRequestAssociation(All[i]) THEN Min(Forwarding(i)) ELSE i

(* docs/lambda-edge.md: on a miss the origin hooks of a behaviour run, each *)
(* of them, whatever the hooks before them did, and although the locations  *)
(* they run in are written per policy and chosen per behaviour.  Where a    *)
(* forward location is shared (conf.go, forwardLocationName) these are the  *)
(* hooks of the first behaviour it was written for, and the document is     *)
(* wrong about the others: they are served without their own.               *)
OriginHooksRun ==
    Fetched(req) =>
        \A i \in Behind(req.at) : All[Server(i)].hooks \cap OriginHooks \subseteq req.ran

(* Hooks that fail, or change nothing, are invisible to the origin: after   *)
(* up to three hops it sees the request line of the client, if the path in  *)
(* it has no escape, no two slashes in a row and no segment that begins     *)
(* with a dot.                                                              *)
FailOpenTransparent ==
    (/\ Fetched(req) /\ ~ req.changed
     /\ Literal(SplitArgs(req.client.raw).path) /\ WithoutBareMark(req.client.raw)) =>
        req.resp.seen = req.client.raw

(* Nothing in the query or the path can be taken for a separator of the     *)
(* text that is hashed (cache_key.js escapes nothing).                      *)
Legible(client, uri) ==
    /\ Without(uri, "\n")
    /\ \A n \in DOMAIN client.queries :
          /\ Without(n, "=") /\ Without(n, "\n")
          /\ \A v \in Range(client.queries[n]) : Without(v, ",") /\ Without(v, "\n")

SameVariant(a, b, policy) ==
    /\ a.method = b.method
    /\ \A n \in DOMAIN a.cookies \cup DOMAIN b.cookies :
          Counts(policy.cookies, n) =>
              n \in DOMAIN a.cookies /\ n \in DOMAIN b.cookies /\ a.cookies[n] = b.cookies[n]
    /\ \A n \in DOMAIN a.queries \cup DOMAIN b.queries :
          Counts(policy.queries, n) =>
              /\ n \in DOMAIN a.queries /\ n \in DOMAIN b.queries
              /\ \A v \in Range(a.queries[n]) \cup Range(b.queries[n]) :
                    Occurrences(a.queries[n], v) = Occurrences(b.queries[n], v)
    /\ policy.headers.behavior = "whitelist" =>
          \A n \in DOMAIN a.headers \cup DOMAIN b.headers :
              Counts(policy.headers, n) =>
                  n \in DOMAIN a.headers /\ n \in DOMAIN b.headers /\ a.headers[n] = b.headers[n]
    /\ normalizeAcceptEncoding(a.accept, policy.gzip, policy.brotli) =
          normalizeAcceptEncoding(b.accept, policy.gzip, policy.brotli)

(* A client about to be answered from the cache agrees with the one that    *)
(* filled it on everything the policy tells variants apart by: no cookie,   *)
(* header, parameter or method is lost in the text that is hashed, or taken *)
(* for another, as long as both requests are legible.                       *)
ServedOwnVariant ==
    (req.phase = "lookup" /\ CachedMethod /\ Key \in DOMAIN cache) =>
        LET policy == getPolicy(site.policies, req.body.policy)
        IN (/\ policy # None /\ Legible(Client, req.uri.path)
            /\ Legible(cache[Key].client, req.uri.path)) =>
              SameVariant(cache[Key].client, Client, policy)

(* What the origin answered never gets its lifetime from the safety net.    *)
(* An age it names is used as it is where the policy allows it, and the     *)
(* bounds of the policy are kept; without an age the default counts, and    *)
(* where storing is forbidden the lower bound.  Bounds that contradict each *)
(* other, also with the year that stands for a missing or negative one, are *)
(* not used.  With and without the origin-response hook in between.         *)
(* (ttl.js, docs/ttl.md, REV-10.)                                           *)
OriginLifetimes ==
    \A k \in DOMAIN cache :
        LET e == cache[k]
            p == getPolicy(site.policies, e.policy)
            cc == parse(e.resp.age)
            n == IF cc.sMaxage # None THEN cc.sMaxage ELSE cc.maxAge
            year == DEFAULT_TTL_CONFIG.max
            Usable(ttl) == ttl # None /\ ttl >= 0
            least == IF Usable(p.minTTL) THEN p.minTTL ELSE 0
            most == IF Usable(p.maxTTL) THEN p.maxTTL ELSE year
            low == IF least > most THEN 0 ELSE least
            high == IF least > most THEN year ELSE most
            forbidden == cc.noStore \/ cc.noCache \/ cc.private
        IN e.resp.from = "origin" =>
              /\ p # None /\ e.resp.expires # None
              /\ forbidden => e.lifetime = low
              /\ (~ forbidden /\ n # None) =>
                    /\ low <= e.lifetime /\ e.lifetime <= high
                    /\ (low <= n /\ n <= high) => e.lifetime = n
              /\ (~ forbidden /\ n = None /\ Usable(p.defaultTTL)) => e.lifetime = p.defaultTTL

(* docs/lambda-edge.md: a change of the URI by viewer-request goes on to    *)
(* the cache and the origin.  It reaches the origin wherever the rewritten  *)
(* URI leads to a behaviour that has a viewer-request hook too, over the    *)
(* named location and up to three hops of the inner server, if the path     *)
(* that was rewritten has no escape left in it.                             *)
RewriteReachesOrigin ==
    (/\ Fetched(req) /\ req.rewritten /\ Literal(req.uri.path)
     /\ "origin-request" \notin req.ran
     /\ "viewer-request" \in HooksAt(req.at)) =>
        req.resp.seen = WithArgs(req.uri.path, req.uri.args)
-----------------------------------------------------------------------------
(* The inductive invariant.  A request that is under way, or was answered   *)
(* by the origin, is at the behaviour its URI leads to.                     *)

(* Strings, with the words that the functions and nginx put in. *)
Letters == STRING \cup {"/", "?", "a", "b", "t"}
URIType == [path : Seq(Letters), args : Seq(Letters)]

OwnBody(i) ==
    writeOuterLocationBody(
        behaviorView(All[i], pathPatternToLocation(All[i].pattern).val, <<>>),
        hasViewerRequestAssociation(All[i]))

UnderWay(r) == r.phase \in {"viewer", "lookup", "inner", "back"} \/ Fetched(r)
Answered(r) == (r.phase = "back" \/ Fetched(r)) /\ r.resp.from = "origin"

AtBehavior(r, i) ==
    /\ Location(site.conf, r.uri.path) = site.conf.outer[i]
    /\ r.at = site.conf.outer[i].location
    /\ r.phase = "viewer" => hasViewerRequestAssociation(All[i])
    /\ r.phase # "viewer" => r.body = OwnBody(Server(i))

(* The inner location is one of the policy of the behaviour that serves the *)
(* request, and no hook of that behaviour has been passed by.               *)
HooksInOrder(r, i) ==
    /\ r.phase = "inner" =>
          /\ r.inner \in site.conf.inner /\ r.inner.location[2] = OwnSan(i)
          /\ (hasOriginResponseAssociation(All[i]) /\ r.inner.content # "edge.runOriginResponse")
                => r.wrapped
          /\ (hasOriginRequestAssociation(All[i]) /\ r.inner.content = "origin")
                => "origin-request" \in r.ran
    /\ Answered(r) =>
          /\ hasOriginRequestAssociation(All[i]) => "origin-request" \in r.ran
          /\ hasOriginResponseAssociation(All[i]) =>
                \/ "origin-response" \in r.ran
                \/ r.phase = "back" /\ r.wrapped

(* The URI that the hops of the inner server hand on, as long as            *)
(* origin-request has left it alone.                                        *)
Asked(r, i) == IF hasViewerRequestAssociation(All[i]) THEN r.uri ELSE SplitArgs(r.client.raw)

URIsKept(r, i) ==
    /\ (Literal(SplitArgs(r.client.raw).path) /\ ~ r.changed) => r.uri = SplitArgs(r.client.raw)
    /\ (Literal(Asked(r, i).path) /\ ("origin-request" \notin r.ran \/ ~ r.changed)) =>
          /\ r.phase = "inner" => r.below = Asked(r, i)
          /\ Answered(r) => r.resp.seen = WithArgs(Asked(r, i).path, Asked(r, i).args)

(* The lifetime of what the origin sent was computed with a given policy. *)
Timed(resp, id) ==
    LET ttl == computeAndInject(site.policies, id, resp.age)
    IN /\ resp.expires = ttl.expires /\ resp.error = ttl.error
       /\ \E reply \in Replies : resp.age = reply.control

(* An entry is under the key of the client that it was fetched for, with    *)
(* the policy of the behaviour that the URI in the key leads to.            *)
FiledRight(k, e) ==
    LET policy == getPolicy(site.policies, e.policy)
    IN IF policy = None THEN k = NoPolicyKey
       ELSE /\ k = compute(k.uri, e.client, policy)
            /\ \E i \in DOMAIN All : /\ Location(site.conf, k.uri) = site.conf.outer[i]
                                     /\ e.policy = All[i].policy

(* The request and the cache, each by itself. *)
OnItsWay(r) ==
    /\ DOMAIN r = DOMAIN Blank(None) /\ DOMAIN r.resp = DOMAIN Unanswered
    /\ r.client \in Clients
    /\ UnderWay(r) =>
          /\ r.uri \in URIType /\ r.uri.path # <<>> /\ r.uri.path[1] = "/"
          /\ \E i \in DOMAIN All :
                /\ AtBehavior(r, i) /\ HooksInOrder(r, Server(i))
                /\ URIsKept(r, i)
                /\ Answered(r) => Timed(r.resp, All[i].policy)

WellFiled(k, e) ==
    /\ e.lifetime = Lifetime(e.resp) /\ e.lifetime > 0
    /\ DOMAIN e.resp = DOMAIN Unanswered
    /\ FiledRight(k, e)
    /\ e.resp.from = "origin" => Timed(e.resp, e.policy)

RequestInv ==
    /\ site \in Sites
    /\ OnItsWay(req)
    /\ \A k \in DOMAIN cache : WellFiled(k, cache[k])
=============================================================================
