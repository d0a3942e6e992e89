----------------------------- MODULE NginxConf ------------------------------
(***************************************************************************)
(* The renderer of internal/nginx: what nginx.Render makes of a            *)
(* LoadResult, as operators.  The generated text is represented by its     *)
(* structure (upstreams, locations, and the directives that decide where a *)
(* request goes and under which policy); indentation, comments and the     *)
(* fixed proxy_cache directives are left out.                              *)
(*                                                                         *)
(* An identifier or a path is a sequence of characters, where one          *)
(* character may stand for a whole word: <<"/", "a", "/", "*">> is a path  *)
(* pattern.  A missing string is the empty sequence, as derefString has    *)
(* it.                                                                     *)
(***************************************************************************)
EXTENDS ResponseHeaders

(* Identifiers, patterns and paths are strings; a distribution has Go's     *)
(* types.                                                                   *)
Text == Seq(STRING)
BehaviorType == [pattern : Text, origin : Text, policy : Text, rhp : Text, hooks : SUBSET STRING]
DistributionShape(d) ==
    d.behaviors \in Seq(BehaviorType) /\ (d.default = None \/ d.default \in BehaviorType)

Fail == [ok |-> FALSE]
Ok(v) == [ok |-> TRUE, val |-> v]

sanitizeID(s) == [i \in DOMAIN s |-> IF s[i] \in WordChars THEN s[i] ELSE "_"]

-----------------------------------------------------------------------------
(* Views: the intermediate records of conf.go. *)

OriginServer(o) == <<o.domain, IF o.port = None THEN 80 ELSE o.port>>

buildOriginViews(origins) ==
    IF origins = <<>> \/ \E i \in DOMAIN origins : sanitizeID(origins[i].id) = <<>>
    THEN Fail
    ELSE Ok([i \in DOMAIN origins |->
                [upstream |-> sanitizeID(origins[i].id), server |-> OriginServer(origins[i])]])

originUpstreamName(originID) ==
    IF sanitizeID(originID) = <<>> THEN Fail ELSE Ok(sanitizeID(originID))

(* Wrong: the slash before the star is cut off with it. *)
pathPatternToLocationBare(p) ==
    CASE p = <<"*">> -> Ok(<<"/">>)
      [] p # <<"*">> /\ IsSuffix(<<"/", "*">>, p) -> Ok(Front(Front(p)))
      [] OTHER -> Fail

pathPatternToLocation(p) ==
    CASE p = <<"*">> -> Ok(<<"/">>)
      [] p # <<"*">> /\ IsSuffix(<<"/", "*">>, p) -> Ok(Front(p))
      [] OTHER -> Fail

(* Which of the rendered hooks a behaviour is associated with. *)
hasViewerRequestAssociation(b) == "viewer-request" \in b.hooks
hasOriginRequestAssociation(b) == "origin-request" \in b.hooks
hasOriginResponseAssociation(b) == "origin-response" \in b.hooks

(* CacheBehaviors in their order, then DefaultCacheBehavior, at "*". *)
AllBehaviors(d) == Append(d.behaviors, [d.default EXCEPT !.pattern = <<"*">>])

(* The behaviours that share the inner location of a sanitized policy, and  *)
(* the first of them, which the location is made for.                       *)
Sharing(all, san) == {i \in DOMAIN all : sanitizeID(all[i].policy) = san}
Maker(all, san) == all[Min(Sharing(all, san))]

(* Wrong: a policy that is used again is bound to the first origin. *)
addInnerShadowing(all, san) ==
    Ok([policy |-> Maker(all, san).policy, upstream |-> sanitizeID(Maker(all, san).origin),
        originRequest |-> \E i \in Sharing(all, san) : hasOriginRequestAssociation(all[i]),
        originResponse |-> \E i \in Sharing(all, san) : hasOriginResponseAssociation(all[i])])

(* Wrong: the hooks of a second behaviour are not added. *)
addInnerFirstHooks(all, san) ==
    IF \E i \in Sharing(all, san) :
          \/ ~ originUpstreamName(all[i].origin).ok
          \/ sanitizeID(all[i].origin) # sanitizeID(Maker(all, san).origin)
    THEN Fail
    ELSE Ok([policy |-> Maker(all, san).policy, upstream |-> sanitizeID(Maker(all, san).origin),
             originRequest |-> hasOriginRequestAssociation(Maker(all, san)),
             originResponse |-> hasOriginResponseAssociation(Maker(all, san))])

(* One inner location per sanitized policy.  Every behaviour that shares it *)
(* adds its hooks; none may have another upstream.                          *)
addInner(all, san) ==
    IF \E i \in Sharing(all, san) :
          \/ ~ originUpstreamName(all[i].origin).ok
          \/ originUpstreamName(all[i].origin) # originUpstreamName(Maker(all, san).origin)
    THEN Fail
    ELSE Ok([policy |-> Maker(all, san).policy,
             upstream |-> originUpstreamName(Maker(all, san).origin).val,
             originRequest |-> \E i \in Sharing(all, san) : hasOriginRequestAssociation(all[i]),
             originResponse |-> \E i \in Sharing(all, san) : hasOriginResponseAssociation(all[i])])

(* The view of one behaviour at a location. *)
behaviorView(b, loc, rhp) ==
    [location |-> loc, policy |-> b.policy, san |-> sanitizeID(b.policy),
     headers |-> lookupResponseHeaders(rhp, b.rhp),
     viewerRequest |-> hasViewerRequestAssociation(b),
     originRequest |-> hasOriginRequestAssociation(b),
     originResponse |-> hasOriginResponseAssociation(b)]

(* One error in any of the behaviours is an error. *)
buildBehaviorViews(d, rhp) ==
    LET all == AllBehaviors(d)
        sans == {sanitizeID(all[i].policy) : i \in DOMAIN all}
    IN IF d.default = None THEN Fail
       ELSE IF \/ \E i \in DOMAIN all : ~ pathPatternToLocation(all[i].pattern).ok
               \/ \E san \in sans : san = <<>> \/ ~ addInner(all, san).ok
       THEN Fail
       ELSE Ok([behaviors |-> [i \in DOMAIN all |->
                    behaviorView(all[i], pathPatternToLocation(all[i].pattern).val, rhp)],
                inners |-> [san \in sans |-> addInner(all, san).val]])

-----------------------------------------------------------------------------
(* Writers.  A location of the inner server is named by its prefix and the  *)
(* sanitized policy: /_cf_inner_<san>/, /_cf_or_<san>/, /_cf_oresp_<san>/.  *)

Inner(san) == <<"inner", san>>
originRequestPrefix(san) == <<"or", san>>
originResponsePrefix(san) == <<"oresp", san>>
forwardLocationName(san) == <<"@forward", san>>

(* The cache and the proxy_pass of an outer location or of its @forward.    *)
writeOuterLocationBody(beh, useUpdatedURI) ==
    [policy |-> beh.policy,
     headers |-> beh.headers,
     uri |-> IF useUpdatedURI THEN "$uri" ELSE "$request_uri",
     target |-> CASE beh.originResponse -> originResponsePrefix(beh.san)
                  [] ~ beh.originResponse /\ beh.originRequest -> originRequestPrefix(beh.san)
                  [] OTHER -> Inner(beh.san)]

writeOuterLocation(beh) ==
    [location |-> beh.location, content |-> "cache",
     body |-> writeOuterLocationBody(beh, FALSE)]

writeLambdaEdgeOuter(beh) ==
    [location |-> beh.location, content |-> "edge.viewerRequest",
     forward |-> forwardLocationName(beh.san)]

(* Wrong: what viewer-request changed is passed over. *)
writeForwardLocationVerbatim(beh) ==
    [location |-> forwardLocationName(beh.san), content |-> "cache",
     body |-> writeOuterLocationBody(beh, FALSE)]

writeForwardLocation(beh) ==
    [location |-> forwardLocationName(beh.san), content |-> "cache",
     body |-> writeOuterLocationBody(beh, TRUE)]

writeOriginRequestLocation(san) ==
    [location |-> originRequestPrefix(san), content |-> "edge.runOriginRequest",
     next |-> Inner(san)]

(* Wrong: the origin is fetched past the origin-request hook. *)
writeOriginResponseLocationDirect(san, inner) ==
    [location |-> originResponsePrefix(san), content |-> "edge.runOriginResponse",
     next |-> Inner(san)]

writeOriginResponseLocation(san, inner) ==
    [location |-> originResponsePrefix(san), content |-> "edge.runOriginResponse",
     next |-> IF inner.originRequest THEN originRequestPrefix(san) ELSE Inner(san)]

writeInnerLocation(san, inner) ==
    [location |-> Inner(san), content |-> "origin", policy |-> inner.policy,
     upstream |-> inner.upstream]

(* Named locations are not matched with paths, and are apart from the rest, *)
(* each under the position of its behaviour.                                *)
writeServerBlock(behaviors, inners) ==
    [outer |-> [i \in DOMAIN behaviors |->
                  IF behaviors[i].viewerRequest
                  THEN writeLambdaEdgeOuter(behaviors[i]) ELSE writeOuterLocation(behaviors[i])],
     named |-> [i \in {j \in DOMAIN behaviors : behaviors[j].viewerRequest} |->
                  writeForwardLocation(behaviors[i])],
     inner |-> UNION {
        {writeInnerLocation(san, inners[san])}
        \cup (IF inners[san].originRequest THEN {writeOriginRequestLocation(san)} ELSE {})
        \cup (IF inners[san].originResponse
              THEN {writeOriginResponseLocation(san, inners[san])} ELSE {})
        : san \in DOMAIN inners}]

(* Every location with a hook gets the distribution's id from a directive. *)
renderConf(d, rhp, distributionID) ==
    LET origins == buildOriginViews(d.origins)
        views == buildBehaviorViews(d, rhp)
        block == writeServerBlock(views.val.behaviors, views.val.inners)
        edge == \E i \in DOMAIN views.val.behaviors :
                    \/ views.val.behaviors[i].viewerRequest
                    \/ views.val.behaviors[i].originRequest
                    \/ views.val.behaviors[i].originResponse
    IN IF ~ origins.ok \/ ~ views.ok THEN Fail
       ELSE Ok([edgeJS |-> edge, distribution |-> distributionID, upstreams |-> origins.val,
                outer |-> block.outer, named |-> block.named, inner |-> block.inner])

-----------------------------------------------------------------------------
(* policies.json, and Render. *)

(* A list that is empty is left out of policies.json.  *)
convertListConfig(c) ==
    IF c = None THEN [behavior |-> None, items |-> <<>>]
    ELSE [behavior |-> c.behavior, items |-> IF c.items = None THEN <<>> ELSE c.items]

convertCachePolicy(cp) ==
    [name |-> cp.name, minTTL |-> IF cp.minTTL = None THEN 0 ELSE cp.minTTL,
     maxTTL |-> cp.maxTTL, defaultTTL |-> cp.defaultTTL, gzip |-> cp.gzip, brotli |-> cp.brotli,
     headers |-> convertListConfig(cp.headers), cookies |-> convertListConfig(cp.cookies),
     queries |-> convertListConfig(cp.queries)]

buildPoliciesJSON(policies) == [id \in DOMAIN policies |-> convertCachePolicy(policies[id])]

Disabled == [disabled |-> TRUE]

Render(res) ==
    LET conf == CASE res.dist = None -> Ok(None)
                  [] res.dist # None /\ ~ res.dist.enabled -> Ok(Disabled)
                  [] OTHER -> renderConf(res.dist, res.rhp, res.id)
    IN IF ~ conf.ok THEN Fail
       ELSE Ok([conf |-> conf.val, policies |-> buildPoliciesJSON(res.policies)])

-----------------------------------------------------------------------------
(* nginx, external: a path is served by the location of the longest prefix. *)
Location(conf, path) ==
    LET hits == {l \in Range(conf.outer) : IsPrefix(l.location, path)}
    IN CHOOSE l \in hits : \A k \in hits : Len(k.location) <= Len(l.location)

(* Two named locations may have one name; the first is found.               *)
NamedLocation(conf, name) ==
    conf.named[Min({i \in DOMAIN conf.named : conf.named[i].location = name})]

(* What serves the requests of a behaviour: its own location, or the named  *)
(* location that viewer-request goes on to.                                 *)
ServingBody(conf, i) ==
    IF conf.outer[i].content = "cache" THEN conf.outer[i].body
    ELSE NamedLocation(conf, conf.outer[i].forward).body

(* A behaviour whose forward location is not found, because an earlier one  *)
(* with a viewer-request hook has its policy.                               *)
Shadowed(all, i) ==
    /\ hasViewerRequestAssociation(all[i])
    /\ \E j \in DOMAIN all : /\ j < i /\ hasViewerRequestAssociation(all[j])
                            /\ sanitizeID(all[j].policy) = sanitizeID(all[i].policy)
=============================================================================
