----------------------------- MODULE Admission ------------------------------
(***************************************************************************)
(* What gets from a configuration to nginx.  There are two ways in: the    *)
(* configuration directory, which config.Load reads at startup, and the    *)
(* AWS API, whose handlers check each resource by itself and store it.     *)
(* Both end in nginx.Render.  nginx loads what was written, or keeps what  *)
(* it has when the new configuration is not one it accepts.                *)
(*                                                                         *)
(* Reloader and ReloadPipeline model when the files are written and read;  *)
(* this module models what is in them, so a render, its two writes and     *)
(* nginx's reload are one step here.                                       *)
(***************************************************************************)
EXTENDS PolicyValidation

CONSTANTS
    Directories,    \* contents of the configuration directory
    CachePolicies,  \* bodies of CreateCachePolicy
    OriginRequestPolicies, HeadersPolicies, Distributions,  \* and of the others
    PolicyIDs, HeadersPolicyIDs,     \* the ids the stores assign
    URIs,           \* paths a client may ask for
    DistributionID  \* the id the distribution store assigns

SchemaType == [pattern : Text, origin : Text, policy : Text, protocol : BOOLEAN]
CustomType == [name : Text, value : Text, override : BOOLEAN]

(* What the decoders make of JSON files and XML bodies has Go's types; the  *)
(* store's ids are not empty, and a path begins with a slash.               *)
ASSUME AdmissionAssumption ==
    /\ \A d \in Distributions : DistributionShape(d)
    /\ \A p \in HeadersPolicies : p.custom \in Seq(CustomType)
    /\ \A dir \in Directories :
          /\ dir.policies \in Seq(Range(dir.policies)) /\ dir.dists \in Seq(Range(dir.dists))
          /\ \A f \in Range(dir.dists) :
                f.decodes => /\ f.schema.behaviors \in Seq(SchemaType)
                             /\ f.schema.default \in SchemaType
                             /\ f.schema.origins \in Seq(Range(f.schema.origins))
                             /\ \A o \in Range(f.schema.origins) : o.id \in Text
          /\ \A f \in Range(dir.policies) : f.decodes => f.schema.name \in Text
    /\ <<>> \notin HeadersPolicyIDs
    /\ None \notin BehaviorType
    /\ \A uri \in URIs : uri \in Text /\ uri # <<>> /\ Head(uri) = "/"

VARIABLES
    up,         \* the control plane is running
    cps,        \* the cache policy store
    rhps,       \* the response headers policy store
    dist,       \* the first record of the distribution store, or None
    dirty,      \* a reload is pending
    failed,     \* the distribution that the last render refused, or None
    published,  \* the two files in the output directory
    serving     \* what nginx runs with

stores == <<cps, rhps, dist>>
vars == <<up, stores, dirty, failed, published, serving>>

(* The resources a conf was rendered from are kept beside it. *)
Nothing == [conf |-> None, dist |-> None, rhp |-> <<>>, policies |-> <<>>]

Init ==
    /\ up = FALSE
    /\ cps = <<>> /\ rhps = <<>> /\ dist = None
    /\ dirty = FALSE /\ failed = None
    /\ published = Nothing
    /\ serving = Nothing

-----------------------------------------------------------------------------
(* nginx, external: it refuses a configuration with two upstreams of one    *)
(* name, two locations of one prefix in a server, a proxy_pass to a host    *)
(* that is neither an upstream nor known to the resolver, or a value with a *)
(* variable it does not know, which is what "$" stands for.                 *)

Distinct(s, Key(_)) == \A i, j \in DOMAIN s : Key(s[i]) = Key(s[j]) => i = j

Origins(conf) == {l \in conf.inner : l.content = "origin"}

(* The places where something is served from the cache. *)
Bodies(conf) ==
    {l.body : l \in {l \in Range(conf.outer) : l.content = "cache"} \cup Range(conf.named)}

Accepts(conf) ==
    (conf # None /\ conf # Disabled) =>
        /\ Distinct(conf.upstreams, LAMBDA u : u.upstream)
        /\ Distinct(conf.outer, LAMBDA l : l.location)
        /\ \A l \in Origins(conf) :
              \E i \in DOMAIN conf.upstreams : conf.upstreams[i].upstream = l.upstream
        /\ \A body \in Bodies(conf) : \A x \in Range(body.headers) :
              x.op = "add" => \A i \in DOMAIN x.value : x.value[i] # "$"

NginxReload == serving' = IF Accepts(published'.conf) THEN published' ELSE serving

-----------------------------------------------------------------------------
(* Render and write.  policies.json is always written, cf-local.conf only   *)
(* when there is a distribution.                                            *)
Write(res) ==
    \E out \in {Render(res)} :
       IF ~ out.ok
       THEN failed' = res.dist /\ UNCHANGED <<published, serving>>
       ELSE /\ failed' = None
            /\ published' =
                  IF out.val.conf = None
                  THEN [published EXCEPT !.policies = out.val.policies]
                  ELSE [conf |-> out.val.conf, dist |-> res.dist, rhp |-> res.rhp,
                        policies |-> out.val.policies]
            /\ NginxReload

(* run: the directory, as it is by then, is loaded and rendered before      *)
(* anything is served.  An error ends the process.                          *)
Start(dir) ==
    /\ ~ up
    /\ \E res \in {Load(dir)} :
          IF res.ok
          THEN Write(res.val) /\ up' = (failed' = None)
          ELSE failed' = None /\ UNCHANGED <<up, published, serving>>
    /\ UNCHANGED <<stores, dirty>>

(* The directory is not looked at again before the next start. *)
Stop ==
    /\ up
    /\ up' = FALSE /\ dirty' = FALSE /\ failed' = None
    /\ UNCHANGED <<stores, published, serving>>

-----------------------------------------------------------------------------
(* The API.  A body that is refused leaves everything as it was. *)

CreateCachePolicy(cfg) ==
    /\ up
    /\ CachePolicyConfig(cfg)
    /\ \A id \in DOMAIN cps : cps[id].name # cfg.name
    /\ \E id \in PolicyIDs \ DOMAIN cps :
          cps' = [i \in DOMAIN cps \cup {id} |-> IF i = id THEN cfg ELSE cps[i]]
    /\ dirty' = TRUE
    /\ UNCHANGED <<up, rhps, dist, failed, published, serving>>

(* No render reads these policies; their store is an instance of PolicyStore. *)
CreateOriginRequestPolicy(cfg) ==
    /\ up
    /\ OriginRequestPolicyConfig(cfg)
    /\ dirty' = TRUE
    /\ UNCHANGED <<up, stores, failed, published, serving>>

CreateResponseHeadersPolicy(cfg) ==
    /\ up
    /\ ResponseHeadersPolicyConfig(cfg)
    /\ \A id \in DOMAIN rhps : rhps[id].name # cfg.name
    /\ \E id \in HeadersPolicyIDs \ DOMAIN rhps :
          rhps' = [i \in DOMAIN rhps \cup {id} |-> IF i = id THEN cfg ELSE rhps[i]]
    /\ dirty' = TRUE
    /\ UNCHANGED <<up, cps, dist, failed, published, serving>>

(* decodeConfig of the distribution handler. *)
decodeConfig(cfg) == cfg.caller /\ cfg.origins # <<>> /\ cfg.default # None

(* Create, and Update of the distribution there is. *)
PutDistribution(cfg) ==
    /\ up
    /\ decodeConfig(cfg)
    /\ dist' = cfg
    /\ dirty' = TRUE
    /\ UNCHANGED <<up, cps, rhps, failed, published, serving>>

(* snapshotLoadResult: the policies under their ids. *)
snapshotLoadResult ==
    [policies |-> cps, rhp |-> rhps, dist |-> dist,
     id |-> IF dist = None THEN <<>> ELSE DistributionID]

Reload ==
    /\ up /\ dirty
    /\ dirty' = FALSE
    /\ Write(snapshotLoadResult)
    /\ UNCHANGED <<up, stores>>

Next ==
    \/ \E dir \in Directories : Start(dir)
    \/ Stop \/ Reload
    \/ \E cfg \in CachePolicies : CreateCachePolicy(cfg)
    \/ \E cfg \in OriginRequestPolicies : CreateOriginRequestPolicy(cfg)
    \/ \E cfg \in HeadersPolicies : CreateResponseHeadersPolicy(cfg)
    \/ \E cfg \in Distributions : PutDistribution(cfg)

Spec == Init /\ [][Next]_vars

-----------------------------------------------------------------------------
(* Properties. *)

Serves(s) == s.conf # None /\ s.conf # Disabled

Behaviors(d) == Range(AllBehaviors(d))

(* The origin behind a location of the inner server, whatever hooks are in  *)
(* front of it.                                                             *)
OriginOf(conf, san) == CHOOSE l \in Origins(conf) : l.location = Inner(san)

(* Every proxy_pass of a configuration that nginx runs leads to a location  *)
(* of the inner server, and every hook of that server on to another one,    *)
(* although outer locations are written from behaviours and inner ones from *)
(* policies.                                                                *)
NoDanglingTarget ==
    Serves(serving) =>
        LET inner == {l.location : l \in serving.conf.inner}
        IN /\ \A body \in Bodies(serving.conf) : body.target \in inner
           /\ \A l \in Range(serving.conf.outer) :
                 l.content # "cache" => \E k \in Range(serving.conf.named) : k.location = l.forward
           /\ \A l \in serving.conf.inner : l.content # "origin" => l.next \in inner

(* A behaviour whose TargetOriginId names an origin is served from that     *)
(* origin's server, although upstreams and inner locations are named after  *)
(* sanitized ids and are shared.  (conf.go: REV-2, no silent shadowing.)    *)
ServedFromOwnOrigin ==
    Serves(serving) =>
        \A b \in Behaviors(serving.dist) : \A i \in DOMAIN serving.dist.origins :
            serving.dist.origins[i].id = b.origin =>
                LET l == OriginOf(serving.conf, sanitizeID(b.policy))
                IN \E k \in DOMAIN serving.conf.upstreams :
                      /\ serving.conf.upstreams[k].upstream = l.upstream
                      /\ serving.conf.upstreams[k].server = OriginServer(serving.dist.origins[i])

(* A custom header the API accepted is in the location that serves a        *)
(* behaviour with its policy, the named one behind a viewer-request hook    *)
(* included, unless its value is one nginx cannot quote: names are not      *)
(* dropped silently at render time.  (validate/policy.go, REV-2.)  Left out *)
(* are behaviours whose named location is that of another (Shadowed).       *)
NoAcceptedHeaderDropped ==
    Serves(serving) =>
        \A i \in DOMAIN AllBehaviors(serving.dist) :
            LET b == AllBehaviors(serving.dist)[i]
                policy == serving.rhp[b.rhp]
            IN (b.rhp \in DOMAIN serving.rhp /\ ~ Shadowed(AllBehaviors(serving.dist), i)) =>
                \A k \in DOMAIN policy.custom :
                    isValidHeaderValue(policy.custom[k].value) =>
                        \E x \in Range(ServingBody(serving.conf, i).headers) :
                            /\ x.op = "add"
                            /\ x.name = policy.custom[k].name /\ x.value = policy.custom[k].value

(* What the viewer gets of a header that the origin sends. *)
Got(body, name) ==
    {h \in Delivered(body.headers, {[name |-> name, value |-> None]}) : h.name = name}

(* A header of the origin that a policy overrides is replaced, never lost:  *)
(* where it is hidden the policy's own value is delivered, also when an     *)
(* entry is skipped for its value, several entries have one name, or the    *)
(* CORS headers repeat a custom one.  Left out are names to which the       *)
(* policy gives an empty value: they do lose the header, since nginx hides  *)
(* the origin's and adds none.  (response_headers.go, Override.)            *)
NoHeaderLost ==
    Serves(serving) =>
        \A body \in Bodies(serving.conf) : \A x \in Range(body.headers) :
            \/ Got(body, x.name) # {}
            \/ \E y \in Range(body.headers) :
                  y.op = "add" /\ y.name = x.name /\ y.value = <<>>

(* What loads can be rendered: the loader's checks are enough for Render,   *)
(* unless behaviours that share a policy have different origins.            *)
LoadedRenders ==
    (failed # None /\ ~ up) =>
        \E b, c \in Behaviors(failed) :
            sanitizeID(b.policy) = sanitizeID(c.policy) /\ sanitizeID(b.origin) # sanitizeID(c.origin)

(* CloudFront's patterns: "*" stands for any characters, "?" for one.  How  *)
(* much of a path the first i characters of a pattern may cover.            *)
Matches(pattern, uri) ==
    LET covers[i \in 0 .. Len(pattern)] ==
            IF i = 0 THEN {0}
            ELSE LET before == covers[i - 1]
                 IN {j \in 0 .. Len(uri) :
                       IF pattern[i] = "*" THEN \E k \in before : k <= j
                       ELSE j - 1 \in before /\ pattern[i] \in {"?", uri[j]}}
    IN Len(uri) \in covers[Len(pattern)]

(* docs/limitations.md: the patterns that are implemented.  It says that    *)
(* all others are refused; pathPatternToLocation looks at the end only, so  *)
(* that one with a star in the middle is rendered as a literal prefix.      *)
Documented(pattern) ==
    \/ pattern = <<"*">>
    \/ /\ IsPrefix(<<"/">>, pattern) /\ IsSuffix(<<"/", "*">>, pattern)
       /\ \A i \in 1 .. Len(pattern) - 1 : pattern[i] \notin {"*", "?"}

(* No pattern is hidden by an earlier one. *)
MostSpecificFirst(behaviors) ==
    \A i, j \in DOMAIN behaviors :
        i < j => ~ IsPrefix(Front(behaviors[i].pattern), behaviors[j].pattern)

(* nginx takes the longest location, CloudFront the first behaviour that    *)
(* matches: where the patterns are of the documented kind and the more      *)
(* specific ones come first, every path is served by the first behaviour    *)
(* whose pattern it matches, or else by the default behaviour, and nowhere  *)
(* below a pattern that it does not match.                                  *)
FirstMatchServes ==
    (/\ Serves(serving) /\ MostSpecificFirst(serving.dist.behaviors)
     /\ \A b \in Range(serving.dist.behaviors) : Documented(b.pattern)) =>
        \A uri \in URIs :
            LET behaviors == serving.dist.behaviors
                first == SelectInSeq(behaviors, LAMBDA b : Matches(b.pattern, uri))
                taken == Location(serving.conf, uri).location
            IN taken = IF first = 0 THEN <<"/">> ELSE Front(behaviors[first].pattern)

-----------------------------------------------------------------------------
(* The inductive invariant: what is published, and what nginx runs with, is *)
(* what Render makes of the resources kept beside it, and these passed the  *)
(* checks of the way they came in.                                          *)
HeadersChecked(policies) ==
    \A id \in DOMAIN policies :
        /\ id # <<>> /\ policies[id].custom \in Seq(CustomType)
        /\ ResponseHeadersPolicyConfig(policies[id])

RenderedFromItsOwn(s) ==
    /\ DOMAIN s = DOMAIN Nothing
    /\ Serves(s) =>
        /\ DistributionShape(s.dist) /\ HeadersChecked(s.rhp)
        /\ \E id \in {<<>>, DistributionID} : renderConf(s.dist, s.rhp, id) = Ok(s.conf)

IInv ==
    /\ dist # None => DistributionShape(dist)
    /\ HeadersChecked(rhps)
    /\ RenderedFromItsOwn(published)
    /\ RenderedFromItsOwn(serving) /\ Accepts(serving.conf)
    /\ LoadedRenders
=============================================================================
