--------------------------- MODULE ServingProofs ----------------------------
(***************************************************************************)
(* Proofs about Admission and EdgeRequest, for any directories, policies,  *)
(* distributions, functions and requests: what Render writes, what nginx   *)
(* therefore serves, and the way of a request through what it serves.      *)
(***************************************************************************)
EXTENDS Admission, EdgeRequest, InductionLemmas

-----------------------------------------------------------------------------
(* What renderConf writes. *)

Sans(d) == {sanitizeID(AllBehaviors(d)[i].policy) : i \in DOMAIN AllBehaviors(d)}
View(d, rhp, i) ==
    behaviorView(AllBehaviors(d)[i], pathPatternToLocation(AllBehaviors(d)[i].pattern).val, rhp)
InnerOf(d, san) == addInner(AllBehaviors(d), san).val

\* The behaviours, the default one last.
DefaultBehavior(d) == [d.default EXCEPT !.pattern = <<"*">>]

\* AllBehaviors is the list of the cache behaviours and the default one after
\* them, so its positions are those of the list and one more.
LEMMA Behaviours ==
    ASSUME NEW d, d.behaviors \in Seq(BehaviorType)
    PROVE  /\ Len(d.behaviors) \in Nat
           /\ DOMAIN d.behaviors = 1 .. Len(d.behaviors)
           /\ DOMAIN AllBehaviors(d) = 1 .. Len(d.behaviors) + 1
           /\ \A i \in 1 .. Len(d.behaviors) :
                 AllBehaviors(d)[i] = d.behaviors[i] /\ d.behaviors[i] \in BehaviorType
           /\ AllBehaviors(d)[Len(d.behaviors) + 1] = DefaultBehavior(d)
           /\ AllBehaviors(d) \in Seq(BehaviorType \cup {DefaultBehavior(d)})
<1>1. AllBehaviors(d) = Append(d.behaviors, DefaultBehavior(d))
    BY DEF AllBehaviors, DefaultBehavior
<1> DEFINE T == BehaviorType \cup {DefaultBehavior(d)}
<1>2. d.behaviors \in Seq(T) /\ DefaultBehavior(d) \in T
    OBVIOUS
<1> HIDE DEF T
<1>3. QED
    BY <1>1, <1>2 DEF T

\* A configuration is rendered only if every behaviour can be, and then it has
\* an outer location for each, a named one for each with a viewer-request hook,
\* one or more inner ones for each sanitized policy, and an upstream for each
\* origin.
InnerServer(d, san) ==
    {writeInnerLocation(san, InnerOf(d, san))}
    \cup (IF InnerOf(d, san).originRequest THEN {writeOriginRequestLocation(san)} ELSE {})
    \cup (IF InnerOf(d, san).originResponse
          THEN {writeOriginResponseLocation(san, InnerOf(d, san))} ELSE {})

Renderable(d) ==
    /\ d.default # None
    /\ \A i \in DOMAIN AllBehaviors(d) : pathPatternToLocation(AllBehaviors(d)[i].pattern).ok
    /\ \A san \in Sans(d) : addInner(AllBehaviors(d), san).ok
OuterRendered(d, rhp, conf) ==
    /\ DOMAIN conf.outer = DOMAIN AllBehaviors(d)
    /\ \A i \in DOMAIN AllBehaviors(d) :
          conf.outer[i] = IF View(d, rhp, i).viewerRequest
                          THEN writeLambdaEdgeOuter(View(d, rhp, i))
                          ELSE writeOuterLocation(View(d, rhp, i))
NamedRendered(d, rhp, conf) ==
    /\ DOMAIN conf.named = {i \in DOMAIN AllBehaviors(d) : View(d, rhp, i).viewerRequest}
    /\ \A i \in DOMAIN conf.named : conf.named[i] = writeForwardLocation(View(d, rhp, i))
InnerRendered(d, conf) == conf.inner = UNION {InnerServer(d, san) : san \in Sans(d)}
UpstreamsRendered(d, conf) ==
    conf.upstreams = [i \in DOMAIN d.origins |->
        [upstream |-> sanitizeID(d.origins[i].id), server |-> OriginServer(d.origins[i])]]

\* What a render that succeeds has put into each part of the configuration.
LEMMA Rendered ==
    ASSUME NEW d, NEW rhp, NEW id, NEW conf, renderConf(d, rhp, id) = Ok(conf)
    PROVE  /\ Renderable(d) /\ OuterRendered(d, rhp, conf) /\ NamedRendered(d, rhp, conf)
           /\ InnerRendered(d, conf) /\ UpstreamsRendered(d, conf)
<1> DEFINE origins == buildOriginViews(d.origins)
           views == buildBehaviorViews(d, rhp)
           all == AllBehaviors(d)
           behaviors == [i \in DOMAIN all |-> View(d, rhp, i)]
           inners == [san \in Sans(d) |-> InnerOf(d, san)]
           block == writeServerBlock(views.val.behaviors, views.val.inners)
<1>1. Fail # Ok(conf)
    BY DEF Fail, Ok
<1>2. origins.ok /\ views.ok
    BY <1>1 DEF renderConf
<1>3. /\ conf.upstreams = origins.val /\ conf.outer = block.outer
      /\ conf.named = block.named /\ conf.inner = block.inner
  <2> HIDE DEF origins, views, block
  <2>1. \E edge : renderConf(d, rhp, id) =
            Ok([edgeJS |-> edge, distribution |-> id, upstreams |-> origins.val,
                outer |-> block.outer, named |-> block.named, inner |-> block.inner])
      BY <1>2 DEF renderConf, origins, views, block
  <2>2. QED
      BY <2>1 DEF Ok
<1>4. origins.val = [i \in DOMAIN d.origins |->
          [upstream |-> sanitizeID(d.origins[i].id), server |-> OriginServer(d.origins[i])]]
    BY <1>2 DEF buildOriginViews, Fail, Ok
<1>5. /\ d.default # None
      /\ \A i \in DOMAIN all : pathPatternToLocation(all[i].pattern).ok
      /\ \A san \in Sans(d) : addInner(all, san).ok
      /\ views.val.behaviors = behaviors /\ views.val.inners = inners
    BY <1>2 DEF buildBehaviorViews, Sans, View, InnerOf, Fail, Ok
<1>6. /\ block.outer = [i \in DOMAIN behaviors |->
             IF behaviors[i].viewerRequest
             THEN writeLambdaEdgeOuter(behaviors[i]) ELSE writeOuterLocation(behaviors[i])]
      /\ block.named = [i \in {j \in DOMAIN behaviors : behaviors[j].viewerRequest} |->
             writeForwardLocation(behaviors[i])]
      /\ block.inner = UNION {
             {writeInnerLocation(san, inners[san])}
             \cup (IF inners[san].originRequest THEN {writeOriginRequestLocation(san)} ELSE {})
             \cup (IF inners[san].originResponse
                   THEN {writeOriginResponseLocation(san, inners[san])} ELSE {})
             : san \in DOMAIN inners}
  <2> HIDE DEF behaviors, inners, views
  <2>1. QED
      BY <1>5 DEF writeServerBlock
<1>7. /\ DOMAIN behaviors = DOMAIN all /\ \A i \in DOMAIN all : behaviors[i] = View(d, rhp, i)
      /\ DOMAIN inners = Sans(d) /\ \A san \in Sans(d) : inners[san] = InnerOf(d, san)
    OBVIOUS
<1> HIDE DEF origins, views, all, behaviors, inners, block
<1>8. QED
    BY <1>3, <1>4, <1>5, <1>6, <1>7
       DEF all, Renderable, OuterRendered, NamedRendered, InnerRendered, InnerServer,
           UpstreamsRendered

\* The inner location of a sanitized policy: it exists for every behaviour, has
\* the hooks of all that share it, and the upstream of each of them.
LEMMA InnerServes ==
    ASSUME NEW d, d.behaviors \in Seq(BehaviorType), d.default \in BehaviorType,
           NEW i \in DOMAIN AllBehaviors(d), addInner(AllBehaviors(d), sanitizeID(AllBehaviors(d)[i].policy)).ok
    PROVE  LET b == AllBehaviors(d)[i]
               inner == InnerOf(d, sanitizeID(b.policy))
           IN /\ sanitizeID(b.policy) \in Sans(d)
              /\ inner.upstream = sanitizeID(b.origin)
              /\ hasOriginRequestAssociation(b) => inner.originRequest
              /\ hasOriginResponseAssociation(b) => inner.originResponse
              /\ inner.originRequest \in BOOLEAN /\ inner.originResponse \in BOOLEAN
<1> DEFINE all == AllBehaviors(d)
           b == all[i]
           san == sanitizeID(b.policy)
           inner == InnerOf(d, san)
<1>1. san \in Sans(d) /\ i \in Sharing(all, san)
    BY DEF Sans, Sharing
<1>2. addInner(all, san) # Fail
    BY DEF Fail
<1>3. /\ \A k \in Sharing(all, san) :
            /\ originUpstreamName(all[k].origin).ok
            /\ originUpstreamName(all[k].origin) = originUpstreamName(Maker(all, san).origin)
      /\ inner = [policy |-> Maker(all, san).policy,
                  upstream |-> originUpstreamName(Maker(all, san).origin).val,
                  originRequest |-> \E k \in Sharing(all, san) : hasOriginRequestAssociation(all[k]),
                  originResponse |-> \E k \in Sharing(all, san) : hasOriginResponseAssociation(all[k])]
  <2> HIDE DEF all, b, san
  <2>1. inner = addInner(all, san).val
      BY DEF InnerOf, all
  <2>2. QED
      BY <1>2, <2>1 DEF addInner, Ok
<1>4. inner.upstream = sanitizeID(b.origin)
  <2> HIDE DEF all, san
  <2>1. originUpstreamName(b.origin).ok /\ inner.upstream = originUpstreamName(b.origin).val
      BY <1>1, <1>3
  <2>2. QED
      BY <2>1 DEF originUpstreamName, Ok, Fail
<1>5. QED
  <2> HIDE DEF all, b, san, inner
  <2>1. /\ hasOriginRequestAssociation(b) => inner.originRequest
        /\ hasOriginResponseAssociation(b) => inner.originResponse
        /\ inner.originRequest \in BOOLEAN /\ inner.originResponse \in BOOLEAN
      BY <1>1, <1>3 DEF b
  <2>2. QED
      BY <1>1, <1>4, <2>1 DEF all, b, san, inner

\* The locations of the inner server: every behaviour has its own, with the
\* hooks and the upstream it needs, and there are no others.
InnersServe(d) ==
    \A i \in DOMAIN AllBehaviors(d) :
        LET b == AllBehaviors(d)[i]
            san == sanitizeID(b.policy)
        IN /\ san \in Sans(d)
           /\ InnerOf(d, san).upstream = sanitizeID(b.origin)
           /\ hasOriginRequestAssociation(b) => InnerOf(d, san).originRequest
           /\ hasOriginResponseAssociation(b) => InnerOf(d, san).originResponse
InnersThere(d, conf) ==
    \A san \in Sans(d) :
        /\ writeInnerLocation(san, InnerOf(d, san)) \in conf.inner
        /\ InnerOf(d, san).originRequest => writeOriginRequestLocation(san) \in conf.inner
        /\ InnerOf(d, san).originResponse =>
              writeOriginResponseLocation(san, InnerOf(d, san)) \in conf.inner
NoOtherInner(d, conf) ==
    \A l \in conf.inner : \E san \in Sans(d) :
        \/ l = writeInnerLocation(san, InnerOf(d, san))
        \/ InnerOf(d, san).originRequest /\ l = writeOriginRequestLocation(san)
        \/ InnerOf(d, san).originResponse
           /\ l = writeOriginResponseLocation(san, InnerOf(d, san))

\* The inner server has, for every policy in use, the locations its behaviours
\* need, and no others.
LEMMA InnerLocations ==
    ASSUME NEW d, d.behaviors \in Seq(BehaviorType), DistributionShape(d),
           NEW rhp, NEW id, NEW conf, renderConf(d, rhp, id) = Ok(conf)
    PROVE  InnersServe(d) /\ InnersThere(d, conf) /\ NoOtherInner(d, conf)
<1>1. /\ Renderable(d) /\ InnerRendered(d, conf)
      /\ d.default \in BehaviorType
  <2>1. Renderable(d) /\ InnerRendered(d, conf)
      BY Rendered, Zenon
  <2>2. QED
      BY <2>1 DEF DistributionShape, Renderable
<1>2. \A i \in DOMAIN AllBehaviors(d) : sanitizeID(AllBehaviors(d)[i].policy) \in Sans(d)
    BY DEF Sans
<1>3. ASSUME NEW i \in DOMAIN AllBehaviors(d)
      PROVE  LET san == sanitizeID(AllBehaviors(d)[i].policy)
             IN /\ san \in Sans(d)
                /\ InnerOf(d, san).upstream = sanitizeID(AllBehaviors(d)[i].origin)
                /\ hasOriginRequestAssociation(AllBehaviors(d)[i]) => InnerOf(d, san).originRequest
                /\ hasOriginResponseAssociation(AllBehaviors(d)[i]) => InnerOf(d, san).originResponse
    BY <1>1, <1>2, InnerServes DEF Renderable
<1>4. /\ \A san \in Sans(d) : InnerServer(d, san) \subseteq conf.inner
      /\ \A l \in conf.inner : \E san \in Sans(d) : l \in InnerServer(d, san)
    BY <1>1 DEF InnerRendered
<1>5. QED
    BY <1>3, <1>4 DEF InnerServer, InnersServe, InnersThere, NoOtherInner

\* Where the proxy_pass of a behaviour leads.
LEMMA Target ==
    ASSUME NEW d, NEW rhp, NEW i, NEW updated
    PROVE  LET b == AllBehaviors(d)[i]
               san == sanitizeID(b.policy)
               target == writeOuterLocationBody(View(d, rhp, i), updated).target
           IN \/ hasOriginResponseAssociation(b) /\ target = originResponsePrefix(san)
              \/ hasOriginRequestAssociation(b) /\ target = originRequestPrefix(san)
              \/ target = Inner(san)
<1> DEFINE b == AllBehaviors(d)[i]
<1>1. /\ View(d, rhp, i).san = sanitizeID(b.policy)
      /\ View(d, rhp, i).originRequest = hasOriginRequestAssociation(b)
      /\ View(d, rhp, i).originResponse = hasOriginResponseAssociation(b)
    BY DEF View, behaviorView
<1> HIDE DEF b
<1>2. QED
    BY <1>1 DEF writeOuterLocationBody, b

\* The places where something is served from the cache are the outer locations
\* of behaviours without a viewer-request hook and the named ones of the others.
BodiesViewed(d, rhp, conf) ==
    \A body \in Bodies(conf) : \E i \in DOMAIN AllBehaviors(d) :
        \E updated \in BOOLEAN : body = writeOuterLocationBody(View(d, rhp, i), updated)

\* Every place that passes a request on belongs to a behaviour.
LEMMA BodiesOfViews ==
    ASSUME NEW d, NEW rhp, NEW id, NEW conf, renderConf(d, rhp, id) = Ok(conf)
    PROVE  BodiesViewed(d, rhp, conf)
<1> SUFFICES ASSUME NEW body \in Bodies(conf)
             PROVE  \E i \in DOMAIN AllBehaviors(d) : \E updated \in BOOLEAN :
                       body = writeOuterLocationBody(View(d, rhp, i), updated)
    BY DEF BodiesViewed
<1>0. OuterRendered(d, rhp, conf) /\ NamedRendered(d, rhp, conf)
    BY Rendered, Zenon
<1>1. PICK l \in {l \in Range(conf.outer) : l.content = "cache"} \cup Range(conf.named) : body = l.body
    BY DEF Bodies
<1>2. CASE l \in Range(conf.named)
  <2>1. PICK i \in DOMAIN AllBehaviors(d) : l = writeForwardLocation(View(d, rhp, i))
      BY <1>0, <1>2 DEF NamedRendered, Range
  <2>2. l.body = writeOuterLocationBody(View(d, rhp, i), TRUE)
      BY <2>1 DEF writeForwardLocation
  <2>3. QED
      BY <1>1, <2>2
<1>3. CASE l \in Range(conf.outer) /\ l.content = "cache"
  <2>1. PICK i \in DOMAIN conf.outer : l = conf.outer[i]
      BY <1>3 DEF Range
  <2>2. i \in DOMAIN AllBehaviors(d)
        /\ (l = writeLambdaEdgeOuter(View(d, rhp, i)) \/ l = writeOuterLocation(View(d, rhp, i)))
      BY <1>0, <2>1 DEF OuterRendered
  <2>3. l = writeOuterLocation(View(d, rhp, i))
      BY <1>3, <2>2 DEF writeLambdaEdgeOuter
  <2>4. QED
      BY <1>1, <2>2, <2>3 DEF writeOuterLocation
<1>4. QED
    BY <1>1, <1>2, <1>3

\* An outer location is where its behaviour's pattern says.
LocationsOf(d, conf) ==
    \A i \in DOMAIN AllBehaviors(d) :
        /\ i \in DOMAIN conf.outer
        /\ conf.outer[i].location = pathPatternToLocation(AllBehaviors(d)[i].pattern).val

\* The outer location of a behaviour is the one its pattern asks for.
LEMMA OuterLocations ==
    ASSUME NEW d, NEW rhp, NEW conf, OuterRendered(d, rhp, conf) PROVE LocationsOf(d, conf)
<1> DEFINE all == AllBehaviors(d)
<1>1. \A i \in DOMAIN all : View(d, rhp, i).location = pathPatternToLocation(all[i].pattern).val
    BY DEF View, behaviorView
<1>2. \A v : /\ writeLambdaEdgeOuter(v).location = v.location
             /\ writeOuterLocation(v).location = v.location
    BY DEF writeLambdaEdgeOuter, writeOuterLocation
<1>3. QED
    BY <1>1, <1>2 DEF OuterRendered, LocationsOf

\* Whether a named location belongs to a viewer-request hook that comes first.
FirstNamed(d, rhp, conf, i) ==
    NamedLocation(conf, forwardLocationName(sanitizeID(AllBehaviors(d)[i].policy)))
        = writeForwardLocation(View(d, rhp, i))

\* A behaviour with a viewer-request hook that no earlier one shadows finds its
\* own forward location.
LEMMA FirstIsFound ==
    ASSUME NEW d, d.behaviors \in Seq(BehaviorType), NEW rhp, NEW conf,
           NamedRendered(d, rhp, conf), NEW i \in DOMAIN AllBehaviors(d),
           hasViewerRequestAssociation(AllBehaviors(d)[i]), ~ Shadowed(AllBehaviors(d), i)
    PROVE  FirstNamed(d, rhp, conf, i)
<1> DEFINE all == AllBehaviors(d)
           San(j) == sanitizeID(all[j].policy)
           name == forwardLocationName(San(i))
           hits == {j \in DOMAIN conf.named : conf.named[j].location = name}
<1>1. DOMAIN all \subseteq Nat
    BY Behaviours
<1>2. \A j \in DOMAIN all :
          /\ View(d, rhp, j).viewerRequest = hasViewerRequestAssociation(all[j])
          /\ writeForwardLocation(View(d, rhp, j)).location = forwardLocationName(San(j))
    BY DEF View, behaviorView, writeForwardLocation
<1> HIDE DEF all
<1>3. hits = {j \in DOMAIN all : hasViewerRequestAssociation(all[j])
                                /\ forwardLocationName(San(j)) = name}
    BY <1>2 DEF NamedRendered, all
<1>4. \A j \in DOMAIN all : forwardLocationName(San(j)) = name => San(j) = San(i)
    BY DEF forwardLocationName
<1>5. i \in hits /\ hits \subseteq Nat
    BY <1>1, <1>3 DEF all
<1>6. \A j \in hits : ~ (j < i)
  <2> HIDE DEF San, hits
  <2>1. QED
      BY <1>3, <1>4 DEF Shadowed, all, San
<1> HIDE DEF hits, name
<1>7. Min(hits) = i
  <2>1. \A j \in hits : i <= j
      BY <1>5, <1>6
  <2>2. Min(hits) \in hits /\ \A j \in hits : Min(hits) <= j
      BY <1>5, <2>1 DEF Min
  <2>3. Min(hits) \in Nat /\ i \in Nat /\ Min(hits) <= i /\ i <= Min(hits)
      BY <1>5, <2>1, <2>2
  <2>4. QED
      BY <2>3
<1>8. NamedLocation(conf, name) = conf.named[i]
    BY <1>7 DEF NamedLocation, hits
<1>9. QED
    BY <1>5, <1>8 DEF FirstNamed, NamedRendered, hits, name, all

\* What serves a behaviour that is not shadowed is written from its own view.
LEMMA ServedFromOwnView ==
    ASSUME NEW d, d.behaviors \in Seq(BehaviorType), NEW rhp, NEW conf,
           OuterRendered(d, rhp, conf), NamedRendered(d, rhp, conf),
           NEW i \in DOMAIN AllBehaviors(d), ~ Shadowed(AllBehaviors(d), i)
    PROVE  \E updated \in BOOLEAN :
               ServingBody(conf, i) = writeOuterLocationBody(View(d, rhp, i), updated)
<1> DEFINE v == View(d, rhp, i)
<1>1. /\ v.viewerRequest = hasViewerRequestAssociation(AllBehaviors(d)[i])
      /\ v.san = sanitizeID(AllBehaviors(d)[i].policy)
    BY DEF View, behaviorView
<1>2. conf.outer[i] = IF v.viewerRequest THEN writeLambdaEdgeOuter(v) ELSE writeOuterLocation(v)
    BY DEF OuterRendered
<1>3. CASE ~ v.viewerRequest
  <2>1. conf.outer[i] = writeOuterLocation(v)
      BY <1>2, <1>3
  <2> HIDE DEF v
  <2>2. ServingBody(conf, i) = writeOuterLocationBody(v, FALSE)
      BY <2>1 DEF ServingBody, writeOuterLocation
  <2>3. QED
      BY <2>2 DEF v
<1>4. CASE v.viewerRequest
  <2>1. FirstNamed(d, rhp, conf, i)
      BY <1>1, <1>4, FirstIsFound
  <2>2. conf.outer[i] = writeLambdaEdgeOuter(v)
      BY <1>2, <1>4
  <2>3. NamedLocation(conf, forwardLocationName(v.san)) = writeForwardLocation(v)
      BY <1>1, <2>1 DEF FirstNamed
  <2> HIDE DEF v
  <2>4. /\ writeLambdaEdgeOuter(v).content # "cache"
        /\ writeLambdaEdgeOuter(v).forward = forwardLocationName(v.san)
        /\ writeForwardLocation(v).body = writeOuterLocationBody(v, TRUE)
      BY DEF writeLambdaEdgeOuter, writeForwardLocation
  <2>5. ServingBody(conf, i) = NamedLocation(conf, forwardLocationName(v.san)).body
      BY <2>2, <2>4 DEF ServingBody
  <2>6. ServingBody(conf, i) = writeOuterLocationBody(v, TRUE)
      BY <2>3, <2>4, <2>5
  <2>7. QED
      BY <2>6 DEF v
<1>5. QED
    BY <1>3, <1>4 DEF View, behaviorView, hasViewerRequestAssociation

-----------------------------------------------------------------------------
(* What nginx serves. *)

\* What nginx runs with was rendered from the distribution kept beside it.
LEMMA ServingIsRendered ==
    ASSUME IInv, Serves(serving)
    PROVE  /\ serving.dist.behaviors \in Seq(BehaviorType)
           /\ DistributionShape(serving.dist) /\ HeadersChecked(serving.rhp)
           /\ \E id : renderConf(serving.dist, serving.rhp, id) = Ok(serving.conf)
           /\ Distinct(serving.conf.upstreams, LAMBDA u : u.upstream)
           /\ Distinct(serving.conf.outer, LAMBDA l : l.location)
BY DEF IInv, RenderedFromItsOwn, DistributionShape, Accepts, Serves

\* No location leads to one that is not there: see NoDanglingTarget.
LEMMA TargetsExist ==
    ASSUME IInv PROVE NoDanglingTarget
<1> DEFINE d == serving.dist
           rhp == serving.rhp
           conf == serving.conf
           all == AllBehaviors(d)
           inner == {l.location : l \in conf.inner}
<1> SUFFICES ASSUME Serves(serving)
             PROVE  /\ \A body \in Bodies(conf) : body.target \in inner
                    /\ \A l \in Range(conf.outer) :
                          l.content # "cache" => \E k \in Range(conf.named) : k.location = l.forward
                    /\ \A l \in conf.inner : l.content # "origin" => l.next \in inner
    BY DEF NoDanglingTarget
<1>1. PICK id : renderConf(d, rhp, id) = Ok(conf)
    BY ServingIsRendered, Zenon
<1>2. d.behaviors \in Seq(BehaviorType) /\ DistributionShape(d)
    BY ServingIsRendered, Zenon
<1>3. InnersServe(d) /\ InnersThere(d, conf) /\ NoOtherInner(d, conf)
    BY <1>1, <1>2, InnerLocations, Zenon
<1>4. OuterRendered(d, rhp, conf) /\ NamedRendered(d, rhp, conf)
    BY <1>1, Rendered, Zenon
<1>5. BodiesViewed(d, rhp, conf)
    BY <1>1, BodiesOfViews, Zenon
<1> HIDE DEF d, rhp, conf, all
<1>6. \A san \in Sans(d) :
          /\ Inner(san) \in inner
          /\ InnerOf(d, san).originRequest => originRequestPrefix(san) \in inner
          /\ InnerOf(d, san).originResponse => originResponsePrefix(san) \in inner
  <2>1. \A l \in conf.inner : l.location \in inner
      OBVIOUS
  <2>2. \A san, view :
          /\ writeInnerLocation(san, view).location = Inner(san)
          /\ writeOriginRequestLocation(san).location = originRequestPrefix(san)
          /\ writeOriginResponseLocation(san, view).location = originResponsePrefix(san)
      BY DEF writeInnerLocation, writeOriginRequestLocation, writeOriginResponseLocation
  <2> HIDE DEF inner
  <2>3. QED
      BY <1>3, <2>1, <2>2 DEF InnersThere
<1> HIDE DEF inner
<1>7. ASSUME NEW body \in Bodies(conf) PROVE body.target \in inner
  <2>1. PICK i \in DOMAIN all, updated \in BOOLEAN :
            body = writeOuterLocationBody(View(d, rhp, i), updated)
      BY <1>5 DEF BodiesViewed, all
  <2> DEFINE b == all[i]
             san == sanitizeID(b.policy)
  <2>2. \/ hasOriginResponseAssociation(b) /\ body.target = originResponsePrefix(san)
        \/ hasOriginRequestAssociation(b) /\ body.target = originRequestPrefix(san)
        \/ body.target = Inner(san)
      BY <2>1, Target DEF all
  <2>3. san \in Sans(d)
        /\ (hasOriginRequestAssociation(b) => InnerOf(d, san).originRequest)
        /\ (hasOriginResponseAssociation(b) => InnerOf(d, san).originResponse)
      BY <1>3 DEF InnersServe, all
  <2>4. QED
      BY <1>6, <2>2, <2>3
<1>8. ASSUME NEW l \in Range(conf.outer), l.content # "cache"
       PROVE  \E k \in Range(conf.named) : k.location = l.forward
  <2>1. PICK i \in DOMAIN conf.outer : l = conf.outer[i]
      BY DEF Range
  <2>2. i \in DOMAIN all /\ conf.outer[i] = IF View(d, rhp, i).viewerRequest
                                           THEN writeLambdaEdgeOuter(View(d, rhp, i))
                                           ELSE writeOuterLocation(View(d, rhp, i))
      BY <1>4, <2>1 DEF OuterRendered, all
  <2>3. View(d, rhp, i).viewerRequest /\ l = writeLambdaEdgeOuter(View(d, rhp, i))
    <3>1. writeOuterLocation(View(d, rhp, i)).content = "cache"
        BY DEF writeOuterLocation
    <3>2. l # writeOuterLocation(View(d, rhp, i))
        BY <1>8, <3>1
    <3>3. QED
        BY <2>1, <2>2, <3>2, Zenon
  <2>4. writeForwardLocation(View(d, rhp, i)) \in Range(conf.named)
      BY <1>4, <2>2, <2>3 DEF NamedRendered, all, Range
  <2>5. writeForwardLocation(View(d, rhp, i)).location = l.forward
      BY <2>3 DEF writeForwardLocation, writeLambdaEdgeOuter
  <2>6. QED
      BY <2>4, <2>5
<1>9. ASSUME NEW l \in conf.inner, l.content # "origin" PROVE l.next \in inner
  <2>1. PICK san \in Sans(d) :
          \/ l = writeInnerLocation(san, InnerOf(d, san))
          \/ InnerOf(d, san).originRequest /\ l = writeOriginRequestLocation(san)
          \/ InnerOf(d, san).originResponse
             /\ l = writeOriginResponseLocation(san, InnerOf(d, san))
      BY <1>3 DEF NoOtherInner
  <2>2. \/ l.next = Inner(san)
        \/ InnerOf(d, san).originRequest /\ l.next = originRequestPrefix(san)
      BY <1>9, <2>1
         DEF writeInnerLocation, writeOriginRequestLocation, writeOriginResponseLocation
  <2>3. QED
      BY <1>6, <2>2
<1>10. QED
    BY <1>7, <1>8, <1>9

\* A behaviour is served from the origin it names: see ServedFromOwnOrigin.
LEMMA OwnOrigin ==
    ASSUME IInv PROVE ServedFromOwnOrigin
<1> DEFINE d == serving.dist
           conf == serving.conf
           all == AllBehaviors(d)
<1> SUFFICES ASSUME Serves(serving), NEW b \in Behaviors(d), NEW i \in DOMAIN d.origins,
                    d.origins[i].id = b.origin
             PROVE  LET l == OriginOf(conf, sanitizeID(b.policy))
                    IN \E k \in DOMAIN conf.upstreams :
                          /\ conf.upstreams[k].upstream = l.upstream
                          /\ conf.upstreams[k].server = OriginServer(d.origins[i])
    BY DEF ServedFromOwnOrigin
<1> DEFINE san == sanitizeID(b.policy)
           mine == writeInnerLocation(san, InnerOf(d, san))
<1>1. PICK id : renderConf(d, serving.rhp, id) = Ok(conf)
    BY ServingIsRendered, Zenon
<1>2. d.behaviors \in Seq(BehaviorType) /\ DistributionShape(d)
    BY ServingIsRendered, Zenon
<1>3. PICK n \in DOMAIN all : b = all[n]
    BY DEF Behaviors, Range
<1>4. InnersServe(d) /\ InnersThere(d, conf) /\ NoOtherInner(d, conf)
    BY <1>1, <1>2, InnerLocations, Zenon
<1>5. san \in Sans(d) /\ InnerOf(d, san).upstream = sanitizeID(b.origin)
    BY <1>3, <1>4 DEF InnersServe
<1>6. mine \in conf.inner
    BY <1>4, <1>5 DEF InnersThere
<1>7. UpstreamsRendered(d, conf)
    BY <1>1, Rendered, Zenon
<1> HIDE DEF d, conf, all, san
<1>8. mine \in Origins(conf) /\ mine.location = Inner(san)
    BY <1>6 DEF writeInnerLocation, Origins
<1>9. \A l \in Origins(conf) : l.location = Inner(san) => l = mine
  <2> SUFFICES ASSUME NEW l \in conf.inner, l.content = "origin", l.location = Inner(san)
               PROVE  l = mine
      BY DEF Origins
  <2>1. PICK s \in Sans(d) : l = writeInnerLocation(s, InnerOf(d, s))
      BY <1>4 DEF NoOtherInner, writeOriginRequestLocation, writeOriginResponseLocation
  <2>2. Inner(s) = Inner(san)
      BY <2>1 DEF writeInnerLocation
  <2>3. s = san
      BY <2>2 DEF Inner
  <2>4. QED
      BY <2>1, <2>3, Zenon
<1>10. OriginOf(conf, san) = mine
    BY <1>8, <1>9 DEF OriginOf
<1>11. mine.upstream = sanitizeID(d.origins[i].id)
    BY <1>5 DEF writeInnerLocation
<1>12. /\ i \in DOMAIN conf.upstreams
       /\ conf.upstreams[i].upstream = sanitizeID(d.origins[i].id)
       /\ conf.upstreams[i].server = OriginServer(d.origins[i])
    BY <1>7 DEF UpstreamsRendered
<1>13. QED
    BY <1>10, <1>11, <1>12 DEF san

-----------------------------------------------------------------------------
(* What the loader lets through. *)

\* The sanitized form of a string is as long as the string.
LEMMA SanitizedIsThere ==
    ASSUME NEW s \in Text, s # <<>> PROVE sanitizeID(s) # <<>>
<1>1. DOMAIN s # {}
  <2>1. Len(s) \in Nat /\ Len(s) # 0 /\ DOMAIN s = 1 .. Len(s)
      BY DEF Text
  <2>2. QED
      BY <2>1
<1>2. DOMAIN sanitizeID(s) = DOMAIN s
    BY DEF sanitizeID
<1>3. QED
    BY <1>1, <1>2

\* The behaviour an inner location is made for is one of those that share it.
LEMMA MakerShares ==
    ASSUME NEW n \in Nat, NEW all, DOMAIN all = 1 .. n, NEW san, Sharing(all, san) # {}
    PROVE  \E k \in Sharing(all, san) : Maker(all, san) = all[k]
<1>1. Sharing(all, san) \subseteq Nat
    BY DEF Sharing
<1>2. \E m \in Sharing(all, san) : \A k \in Sharing(all, san) : m <= k
    BY <1>1, NatMin
<1>3. Min(Sharing(all, san)) \in Sharing(all, san)
    BY <1>2 DEF Min
<1>4. QED
    BY <1>3 DEF Maker

\* A distribution that the loader made of a file.
FromFile(d, policies) ==
    \E dir \in Directories : \E f \in Range(dir.dists) :
        /\ f.decodes /\ validateDistribution(f.schema)
        /\ d = distributionToAWS(f.schema)
        /\ policies = loadCachePolicies(dir.policies).val
        /\ loadCachePolicies(dir.policies).ok
        /\ validateCrossReferences(d, policies)

\* What Load returns comes from one file and was cross-checked with the
\* policies beside it.
LEMMA Loaded ==
    ASSUME NEW dir \in Directories, NEW res, Load(dir) = Ok(res)
    PROVE  /\ res.rhp = <<>> /\ res.id = <<>>
           /\ res.dist = None \/ FromFile(res.dist, res.policies)
<1> DEFINE policies == loadCachePolicies(dir.policies)
           loaded == loadDistribution(dir.dists)
<1>1. /\ policies.ok /\ loaded.ok /\ validateCrossReferences(loaded.val, policies.val)
      /\ Ok(res) = Ok([policies |-> policies.val, rhp |-> <<>>, dist |-> loaded.val, id |-> <<>>])
  <2>1. Fail # Ok(res)
      BY DEF Fail, Ok
  <2>2. QED
      BY <2>1, Zenon DEF Load
<1>2. res = [policies |-> policies.val, rhp |-> <<>>, dist |-> loaded.val, id |-> <<>>]
    BY <1>1 DEF Ok
<1>3. loaded.val = None
      \/ \E f \in Range(dir.dists) : /\ f.decodes /\ validateDistribution(f.schema)
                                     /\ loaded.val = distributionToAWS(f.schema)
  <2>1. dir.dists \in Seq(Range(dir.dists))
      BY AdmissionAssumption
  <2> HIDE DEF policies
  <2>2. CASE Len(dir.dists) > 1
      BY <1>1, <2>2 DEF loadDistribution, Fail
  <2>3. CASE Len(dir.dists) = 0
      BY <2>3 DEF loadDistribution, Ok
  <2>4. CASE Len(dir.dists) = 1
    <3>1. dir.dists[1] \in Range(dir.dists)
        BY <2>1, <2>4
    <3>2. loaded = IF dir.dists[1].decodes /\ validateDistribution(dir.dists[1].schema)
                   THEN Ok(distributionToAWS(dir.dists[1].schema)) ELSE Fail
        BY <2>4 DEF loadDistribution
    <3> HIDE DEF loaded
    <3>3. dir.dists[1].decodes /\ validateDistribution(dir.dists[1].schema)
        BY <1>1, <3>2 DEF Fail
    <3>4. loaded.val = distributionToAWS(dir.dists[1].schema)
        BY <3>2, <3>3 DEF Ok
    <3>5. QED
        BY <3>1, <3>3, <3>4
  <2> HIDE DEF loaded
  <2>5. Len(dir.dists) \in Nat
      BY <2>1
  <2>6. Len(dir.dists) = 0 \/ Len(dir.dists) = 1 \/ Len(dir.dists) > 1
    <3> DEFINE n == Len(dir.dists)
    <3>1. n \in Nat
        BY <2>5
    <3> HIDE DEF n
    <3>2. n = 0 \/ n = 1 \/ n > 1
        BY <3>1
    <3>3. QED
        BY <3>2 DEF n
  <2>7. QED
      BY <2>2, <2>3, <2>4, <2>6
<1>4. QED
  <2> HIDE DEF loaded
  <2>1. QED
      BY <1>1, <1>2, <1>3 DEF FromFile

\* What the checks of the loader say of such a distribution.
FileChecked(d) ==
    /\ d.origins # <<>>
    /\ \A i \in DOMAIN d.origins : d.origins[i].id \in Text /\ d.origins[i].id # <<>>
    /\ \A i \in DOMAIN d.behaviors : validatePathPattern(d.behaviors[i].pattern)
    /\ \A b \in Range(d.behaviors) \cup {d.default} :
          /\ b.origin \in Text /\ b.origin # <<>>
          /\ b.policy \in Text /\ b.policy # <<>>

\* cacheBehaviorToAWS keeps pattern, origin and policy.
LEMMA BehaviorFromFile ==
    ASSUME NEW b \in SchemaType
    PROVE  /\ cacheBehaviorToAWS(b) \in BehaviorType
           /\ cacheBehaviorToAWS(b).pattern = b.pattern
           /\ cacheBehaviorToAWS(b).origin = b.origin /\ cacheBehaviorToAWS(b).policy = b.policy
<1> DEFINE none == <<>>
<1>1. none \in Text
    BY DEF Text
<1> HIDE DEF none
<1>2. b.pattern \in Text /\ b.origin \in Text /\ b.policy \in Text
    BY DEF SchemaType
<1>3. cacheBehaviorToAWS(b) = [pattern |-> b.pattern, origin |-> b.origin, policy |-> b.policy,
                               rhp |-> none, hooks |-> {}]
    BY DEF cacheBehaviorToAWS, none
<1>4. QED
    BY <1>1, <1>2, <1>3 DEF BehaviorType

\* distributionToAWS keeps the order of origins and behaviours.
LEMMA FileShape ==
    ASSUME NEW s, s.behaviors \in Seq(SchemaType), s.default \in SchemaType
    PROVE  LET d == distributionToAWS(s)
           IN /\ d.enabled = s.enabled
              /\ DOMAIN d.origins = DOMAIN s.origins
              /\ \A i \in DOMAIN s.origins : d.origins[i].id = s.origins[i].id
              /\ DOMAIN d.behaviors = DOMAIN s.behaviors
              /\ \A i \in DOMAIN s.behaviors : /\ d.behaviors[i] = cacheBehaviorToAWS(s.behaviors[i])
                                               /\ s.behaviors[i] \in SchemaType
              /\ d.default = cacheBehaviorToAWS(s.default)
              /\ d.behaviors \in Seq(BehaviorType) /\ d.default \in BehaviorType
<1> DEFINE d == distributionToAWS(s)
           origins == [i \in DOMAIN s.origins |-> originToAWS(s.origins[i])]
           behaviors == [i \in DOMAIN s.behaviors |-> cacheBehaviorToAWS(s.behaviors[i])]
<1>1. /\ d.enabled = s.enabled /\ d.origins = origins
      /\ d.behaviors = behaviors /\ d.default = cacheBehaviorToAWS(s.default)
    BY DEF distributionToAWS
<1>2. \A i \in DOMAIN s.behaviors : s.behaviors[i] \in SchemaType
    OBVIOUS
<1>3. behaviors \in Seq(BehaviorType)
  <2>1. Len(s.behaviors) \in Nat /\ DOMAIN s.behaviors = 1 .. Len(s.behaviors)
      OBVIOUS
  <2>2. \A i \in 1 .. Len(s.behaviors) : cacheBehaviorToAWS(s.behaviors[i]) \in BehaviorType
      BY <1>2, <2>1, BehaviorFromFile
  <2>3. QED
      BY <2>1, <2>2
<1>4. d.default \in BehaviorType
    BY <1>1, BehaviorFromFile
<1>5. \A i \in DOMAIN s.origins : originToAWS(s.origins[i]).id = s.origins[i].id
    BY DEF originToAWS
<1> HIDE DEF d
<1>6. QED
    BY <1>1, <1>2, <1>3, <1>4, <1>5 DEF d

\* A policy that a file names by reference is one with a name.
LEMMA PolicyNamed ==
    ASSUME NEW dir \in Directories, loadCachePolicies(dir.policies).ok,
           NEW name \in DOMAIN loadCachePolicies(dir.policies).val
    PROVE  name \in Text /\ name # <<>>
<1> DEFINE files == dir.policies
           names == {files[i].schema.name : i \in DOMAIN files}
<1>1. /\ \A i \in DOMAIN files : files[i].decodes /\ validateCachePolicy(files[i].schema)
      /\ DOMAIN loadCachePolicies(files).val = names
  <2> HIDE DEF files
  <2>1. Fail.ok = FALSE
      BY DEF Fail
  <2>2. QED
      BY <2>1 DEF loadCachePolicies, Ok, files
<1>2. PICK i \in DOMAIN files : name = files[i].schema.name
    BY <1>1
<1>3. files[i] \in Range(files)
    BY DEF Range
<1>4. QED
    BY <1>1, <1>2, <1>3, AdmissionAssumption DEF validateCachePolicy, validateSafeName

\* An enabled distribution from a file has passed every check of the loader.
LEMMA FileIsChecked ==
    ASSUME NEW d, NEW policies, FromFile(d, policies), d # None
    PROVE  /\ DistributionShape(d) /\ d.default \in BehaviorType
           /\ d.enabled => FileChecked(d)
<1>0. PICK dir \in Directories : \E f \in Range(dir.dists) :
          /\ f.decodes /\ validateDistribution(f.schema)
          /\ d = distributionToAWS(f.schema)
          /\ policies = loadCachePolicies(dir.policies).val
          /\ loadCachePolicies(dir.policies).ok
          /\ validateCrossReferences(d, policies)
    BY Zenon DEF FromFile
<1>1. PICK f \in Range(dir.dists) :
          /\ f.decodes /\ validateDistribution(f.schema)
          /\ d = distributionToAWS(f.schema)
          /\ policies = loadCachePolicies(dir.policies).val
          /\ loadCachePolicies(dir.policies).ok
          /\ validateCrossReferences(d, policies)
    BY <1>0
<1> DEFINE s == f.schema
<1>2. /\ s.behaviors \in Seq(SchemaType) /\ s.default \in SchemaType
      /\ s.origins \in Seq(Range(s.origins))
      /\ \A o \in Range(s.origins) : o.id \in Text
    BY <1>1, AdmissionAssumption
<1> HIDE DEF s
<1>3. /\ d.enabled = s.enabled
      /\ DOMAIN d.origins = DOMAIN s.origins
      /\ \A i \in DOMAIN s.origins : d.origins[i].id = s.origins[i].id
      /\ DOMAIN d.behaviors = DOMAIN s.behaviors
      /\ \A i \in DOMAIN s.behaviors : /\ d.behaviors[i] = cacheBehaviorToAWS(s.behaviors[i])
                                       /\ s.behaviors[i] \in SchemaType
      /\ d.default = cacheBehaviorToAWS(s.default)
      /\ d.behaviors \in Seq(BehaviorType) /\ d.default \in BehaviorType
    BY <1>1, <1>2, FileShape DEF s
<1>4. ASSUME d.enabled PROVE FileChecked(d)
  <2>1. /\ s.origins # <<>>
        /\ \A i \in DOMAIN s.origins : validateSafeName(s.origins[i].id)
        /\ validateCacheBehavior(s.default, FALSE)
        /\ \A i \in DOMAIN s.behaviors : validateCacheBehavior(s.behaviors[i], TRUE)
      BY <1>1, <1>3, <1>4 DEF validateDistribution, s
  <2>2. d.origins # <<>>
    <3>1. DOMAIN s.origins # {}
      <4> DEFINE n == Len(s.origins)
      <4>1. n \in Nat /\ n # 0 /\ DOMAIN s.origins = 1 .. n
          BY <1>2, <2>1
      <4> HIDE DEF n
      <4>2. 1 \in 1 .. n
          BY <4>1
      <4>3. QED
          BY <4>1, <4>2
    <3>2. QED
        BY <1>3, <3>1
  <2>3. ASSUME NEW i \in DOMAIN d.origins
        PROVE  d.origins[i].id \in Text /\ d.origins[i].id # <<>>
    <3>1. s.origins[i] \in Range(s.origins) /\ d.origins[i].id = s.origins[i].id
        BY <1>3 DEF Range
    <3>2. QED
        BY <1>2, <1>3, <2>1, <3>1 DEF validateSafeName
  <2>4. ASSUME NEW i \in DOMAIN d.behaviors PROVE validatePathPattern(d.behaviors[i].pattern)
    <3>1. d.behaviors[i].pattern = s.behaviors[i].pattern
        BY <1>3, BehaviorFromFile
    <3>2. validateCacheBehavior(s.behaviors[i], TRUE)
        BY <1>3, <2>1
    <3>3. QED
        BY <3>1, <3>2 DEF validateCacheBehavior
  <2>5. ASSUME NEW b \in Range(d.behaviors) \cup {d.default}
        PROVE  /\ b.origin \in Text /\ b.origin # <<>>
               /\ b.policy \in Text /\ b.policy # <<>>
    <3>1. b.policy \in DOMAIN policies
        BY <1>1, <1>4 DEF validateCrossReferences, Range
    <3>2. b.policy \in Text /\ b.policy # <<>>
        BY <1>1, <3>1, PolicyNamed
    <3>3. \E a \in SchemaType, need \in BOOLEAN :
              b = cacheBehaviorToAWS(a) /\ validateCacheBehavior(a, need)
      <4>1. CASE b = d.default
          BY <1>2, <1>3, <2>1, <4>1
      <4>2. CASE b \in Range(d.behaviors)
        <5>1. PICK i \in DOMAIN d.behaviors : b = d.behaviors[i]
            BY <4>2 DEF Range
        <5>2. /\ s.behaviors[i] \in SchemaType /\ b = cacheBehaviorToAWS(s.behaviors[i])
              /\ validateCacheBehavior(s.behaviors[i], TRUE)
            BY <1>3, <2>1, <5>1
        <5>3. QED
            BY <5>2
      <4>3. QED
          BY <4>1, <4>2
    <3>4. b.origin # <<>>
      <4>1. PICK a \in SchemaType, need \in BOOLEAN :
                b = cacheBehaviorToAWS(a) /\ validateCacheBehavior(a, need)
          BY <3>3
      <4>2. b.origin = a.origin
          BY <4>1, BehaviorFromFile
      <4>3. QED
          BY <4>1, <4>2 DEF validateCacheBehavior
    <3>5. b \in BehaviorType
        BY <1>3 DEF Range
    <3>6. b.origin \in Text
        BY <3>5 DEF BehaviorType
    <3>7. QED
        BY <3>2, <3>4, <3>6
  <2>6. QED
      BY <2>2, <2>3, <2>4, <2>5 DEF FileChecked
<1>5. QED
    BY <1>3, <1>4 DEF DistributionShape

\* Of a distribution from a file, only an inner location that would need two
\* upstreams keeps Render from rendering it.
OriginConflict(d) ==
    \E b, c \in Behaviors(d) :
        sanitizeID(b.policy) = sanitizeID(c.policy) /\ sanitizeID(b.origin) # sanitizeID(c.origin)

\* After those checks the renderer can only refuse behaviours that share a
\* policy and not an origin.
LEMMA OnlyConflictsFail ==
    ASSUME NEW d, DistributionShape(d), d.default \in BehaviorType, FileChecked(d),
           NEW rhp, NEW id, ~ renderConf(d, rhp, id).ok
    PROVE  OriginConflict(d)
<1> DEFINE all == AllBehaviors(d)
           n == Len(d.behaviors)
<1>1. /\ n \in Nat /\ DOMAIN d.behaviors = 1 .. n /\ DOMAIN all = 1 .. n + 1
      /\ \A i \in 1 .. n : all[i] = d.behaviors[i]
      /\ all[n + 1] = DefaultBehavior(d)
    BY Behaviours DEF DistributionShape
<1> HIDE DEF n
<1>2. \A i \in DOMAIN all :
          /\ all[i].origin \in Text /\ all[i].origin # <<>>
          /\ all[i].policy \in Text /\ all[i].policy # <<>>
          /\ all[i].pattern = <<"*">> \/ validatePathPattern(all[i].pattern)
  <2>1. /\ DefaultBehavior(d).origin = d.default.origin
        /\ DefaultBehavior(d).policy = d.default.policy
        /\ DefaultBehavior(d).pattern = <<"*">>
    <3> DEFINE star == <<"*">>
    <3> HIDE DEF star
    <3>1. DefaultBehavior(d) = [d.default EXCEPT !.pattern = star]
        BY DEF DefaultBehavior, star
    <3>2. QED
        BY <3>1 DEF BehaviorType, star
  <2> SUFFICES ASSUME NEW i \in 1 .. n + 1
               PROVE  /\ all[i].origin \in Text /\ all[i].origin # <<>>
                      /\ all[i].policy \in Text /\ all[i].policy # <<>>
                      /\ all[i].pattern = <<"*">> \/ validatePathPattern(all[i].pattern)
      BY <1>1
  <2> HIDE DEF all
  <2>2. CASE i = n + 1
      BY <1>1, <2>1, <2>2 DEF FileChecked
  <2>3. CASE i \in 1 .. n
    <3>1. all[i] = d.behaviors[i] /\ d.behaviors[i] \in Range(d.behaviors) /\ i \in DOMAIN d.behaviors
        BY <1>1, <2>3 DEF Range
    <3>2. QED
        BY <3>1 DEF FileChecked
  <2>4. i = n + 1 \/ i \in 1 .. n
      BY <1>1
  <2>5. QED
      BY <2>2, <2>3, <2>4
<1>3. buildOriginViews(d.origins).ok
  <2>1. \A i \in DOMAIN d.origins : sanitizeID(d.origins[i].id) # <<>>
      BY SanitizedIsThere DEF FileChecked
  <2>2. QED
      BY <2>1 DEF buildOriginViews, FileChecked, Ok
<1>4. ~ buildBehaviorViews(d, rhp).ok
    BY <1>3 DEF renderConf, Ok
<1>5. d.default # None
    BY AdmissionAssumption
<1> HIDE DEF all
<1>6. \A i \in DOMAIN all : pathPatternToLocation(all[i].pattern).ok
  <2>1. \A p : p = <<"*">> \/ validatePathPattern(p) => pathPatternToLocation(p).ok
      BY DEF validatePathPattern, pathPatternToLocation, Ok
  <2>2. QED
      BY <1>2, <2>1
<1>7. \A i \in DOMAIN all : sanitizeID(all[i].policy) # <<>>
    BY <1>2, SanitizedIsThere
<1>8. PICK san \in Sans(d) : ~ addInner(all, san).ok
  <2>1. \A san \in Sans(d) : san # <<>>
      BY <1>7 DEF Sans, all
  <2>2. QED
      BY <1>4, <1>5, <1>6, <2>1 DEF buildBehaviorViews, Sans, all, Ok
<1>9. PICK i \in Sharing(all, san) :
          \/ ~ originUpstreamName(all[i].origin).ok
          \/ originUpstreamName(all[i].origin) # originUpstreamName(Maker(all, san).origin)
    BY <1>8 DEF addInner, Ok
<1>10. \A k \in DOMAIN all : originUpstreamName(all[k].origin) = Ok(sanitizeID(all[k].origin))
    BY <1>2, SanitizedIsThere DEF originUpstreamName
<1>11. PICK k \in Sharing(all, san) : Maker(all, san) = all[k]
  <2>1. n + 1 \in Nat
      BY <1>1
  <2>2. QED
      BY <1>1, <1>9, <2>1, MakerShares
<1>12. /\ i \in DOMAIN all /\ k \in DOMAIN all
       /\ sanitizeID(all[i].policy) = san /\ sanitizeID(all[k].policy) = san
    BY DEF Sharing
<1>13. sanitizeID(all[i].origin) # sanitizeID(all[k].origin)
  <2>1. /\ originUpstreamName(all[i].origin) = Ok(sanitizeID(all[i].origin))
        /\ originUpstreamName(Maker(all, san).origin) = Ok(sanitizeID(all[k].origin))
      BY <1>10, <1>11, <1>12
  <2>2. Ok(sanitizeID(all[i].origin)).ok
      BY DEF Ok
  <2>3. QED
      BY <1>9, <2>1, <2>2, Zenon
<1>14. all[i] \in Behaviors(d) /\ all[k] \in Behaviors(d)
    BY <1>12 DEF Behaviors, Range, all
<1>15. QED
    BY <1>12, <1>13, <1>14 DEF OriginConflict

-----------------------------------------------------------------------------
(* The inductive invariant. *)

\* What Render makes of a LoadResult.
LEMMA RenderOutcome ==
    ASSUME NEW res
    PROVE  /\ ~ Render(res).ok =>
                 /\ res.dist # None /\ res.dist.enabled
                 /\ ~ renderConf(res.dist, res.rhp, res.id).ok
           /\ (Render(res).ok /\ Render(res).val.conf # None /\ Render(res).val.conf # Disabled) =>
                 /\ res.dist # None
                 /\ renderConf(res.dist, res.rhp, res.id) = Ok(Render(res).val.conf)
<1> DEFINE rendered == renderConf(res.dist, res.rhp, res.id)
           conf == CASE res.dist = None -> Ok(None)
                     [] res.dist # None /\ ~ res.dist.enabled -> Ok(Disabled)
                     [] OTHER -> rendered
<1>1. rendered.ok => rendered = Ok(rendered.val)
    BY DEF renderConf, Ok, Fail
<1>2. Render(res) = IF ~ conf.ok THEN Fail
                    ELSE Ok([conf |-> conf.val, policies |-> buildPoliciesJSON(res.policies)])
    BY DEF Render
<1>3. /\ Ok(None).ok /\ Ok(Disabled).ok /\ Ok(None).val = None /\ Ok(Disabled).val = Disabled
      /\ ~ Fail.ok
    BY DEF Ok, Fail
<1> HIDE DEF rendered
<1>4. \/ res.dist = None /\ conf = Ok(None)
      \/ res.dist # None /\ ~ res.dist.enabled /\ conf = Ok(Disabled)
      \/ res.dist # None /\ res.dist.enabled /\ conf = rendered
    OBVIOUS
<1> HIDE DEF conf
<1>5. Render(res).ok => Render(res).val.conf = conf.val
    BY <1>2, <1>3 DEF Ok
<1>6. Render(res).ok <=> conf.ok
    BY <1>2, <1>3 DEF Ok
<1>7. ASSUME ~ Render(res).ok
      PROVE  res.dist # None /\ res.dist.enabled /\ ~ rendered.ok
  <2>1. conf # Ok(None) /\ conf # Ok(Disabled)
      BY <1>3, <1>6, <1>7, Zenon
  <2>2. QED
      BY <1>4, <1>6, <1>7, <2>1, Zenon
<1>8. ASSUME Render(res).ok, Render(res).val.conf # None, Render(res).val.conf # Disabled
      PROVE  res.dist # None /\ rendered = Ok(Render(res).val.conf)
  <2>1. conf # Ok(None) /\ conf # Ok(Disabled)
      BY <1>3, <1>5, <1>8, Zenon
  <2>2. QED
      BY <1>1, <1>4, <1>5, <1>6, <1>8, <2>1, Zenon
<1>9. QED
    BY <1>7, <1>8 DEF rendered

\* The two files are written from resources that were checked, and nginx keeps
\* what it has or takes what it accepts.
LEMMA WritePreserves ==
    ASSUME RenderedFromItsOwn(published), RenderedFromItsOwn(serving), Accepts(serving.conf),
           NEW res, res.dist = None \/ DistributionShape(res.dist), HeadersChecked(res.rhp),
           res.id \in {<<>>, DistributionID}, Write(res)
    PROVE  /\ RenderedFromItsOwn(published') /\ RenderedFromItsOwn(serving')
           /\ Accepts(serving.conf)'
           /\ Render(res).ok => failed' = None
           /\ ~ Render(res).ok => failed' = res.dist
<1> DEFINE out == Render(res)
<1>1. CASE ~ out.ok
    BY <1>1, Zenon DEF Write
<1>2. CASE out.ok
  <2>1. /\ failed' = None
        /\ published' = IF out.val.conf = None
                        THEN [published EXCEPT !.policies = out.val.policies]
                        ELSE [conf |-> out.val.conf, dist |-> res.dist, rhp |-> res.rhp,
                              policies |-> out.val.policies]
        /\ serving' = IF Accepts(published'.conf) THEN published' ELSE serving
      BY <1>2 DEF Write, NginxReload
  <2>2. (out.val.conf # None /\ out.val.conf # Disabled) =>
            res.dist # None /\ renderConf(res.dist, res.rhp, res.id) = Ok(out.val.conf)
      BY <1>2, RenderOutcome, Zenon
  <2> HIDE DEF out
  <2>3. RenderedFromItsOwn(published')
    <3>1. CASE out.val.conf = None
      <4>1. published' = [published EXCEPT !.policies = out.val.policies]
          BY <2>1, <3>1
      <4>2. DOMAIN published = {"conf", "dist", "rhp", "policies"}
          BY DEF RenderedFromItsOwn, Nothing
      <4>3. /\ DOMAIN published' = DOMAIN published
            /\ published'.conf = published.conf /\ published'.dist = published.dist
            /\ published'.rhp = published.rhp
          BY <4>1, <4>2
      <4>4. QED
          BY <4>3 DEF RenderedFromItsOwn, Serves
    <3>2. CASE out.val.conf # None
      <4>1. published' = [conf |-> out.val.conf, dist |-> res.dist, rhp |-> res.rhp,
                          policies |-> out.val.policies]
          BY <2>1, <3>2
      <4>2. /\ DOMAIN published' = DOMAIN Nothing /\ published'.conf = out.val.conf
            /\ published'.dist = res.dist /\ published'.rhp = res.rhp
          BY <4>1 DEF Nothing
      <4>3. QED
          BY <2>2, <3>2, <4>2 DEF RenderedFromItsOwn, Serves
    <3>3. QED
        BY <3>1, <3>2
  <2>4. RenderedFromItsOwn(serving') /\ Accepts(serving'.conf)
      BY <2>1, <2>3
  <2>5. QED
      BY <1>2, <2>1, <2>3, <2>4 DEF out
<1>3. QED
    BY <1>1, <1>2

\* A control plane that has never been started.
LEMMA InitIsInv == Init => IInv
<1> SUFFICES ASSUME Init PROVE IInv
    OBVIOUS
<1>1. ~ Serves(Nothing) /\ Accepts(Nothing.conf) /\ DOMAIN Nothing = DOMAIN Nothing
    BY DEF Serves, Nothing, Accepts
<1>2. RenderedFromItsOwn(published) /\ RenderedFromItsOwn(serving) /\ Accepts(serving.conf)
    BY <1>1 DEF RenderedFromItsOwn, Init
<1>3. HeadersChecked(rhps)
    BY DEF HeadersChecked, Init
<1>4. dist = None /\ LoadedRenders
    BY DEF LoadedRenders, Init
<1>5. QED
    BY <1>2, <1>3, <1>4 DEF IInv

\* Startup renders what the directory holds, or leaves everything as it was.
LEMMA StartPreserves ==
    ASSUME IInv, NEW dir \in Directories, Start(dir) PROVE IInv'
<1>1. /\ stores' = stores
      /\ \E res \in {Load(dir)} :
            IF res.ok
            THEN Write(res.val) /\ up' = (failed' = None)
            ELSE failed' = None /\ UNCHANGED <<up, published, serving>>
    BY Zenon DEF Start
<1>2. UNCHANGED <<cps, rhps, dist>>
    BY <1>1 DEF stores
<1>3. (dist # None => DistributionShape(dist))' /\ HeadersChecked(rhps)'
    BY <1>2 DEF IInv, HeadersChecked
<1>4. CASE ~ Load(dir).ok
  <2>1. failed' = None /\ UNCHANGED <<up, published, serving>>
      BY <1>1, <1>4
  <2>2. LoadedRenders'
      BY <2>1 DEF LoadedRenders
  <2>3. QED
      BY <1>3, <2>1, <2>2 DEF IInv
<1>5. CASE Load(dir).ok
  <2> DEFINE res == Load(dir).val
  <2>1. Load(dir) = Ok(res)
      BY <1>5 DEF Load, Ok, Fail
  <2>2. Write(res) /\ up' = (failed' = None)
      BY <1>1, <1>5
  <2> HIDE DEF res
  <2>3. /\ res.rhp = <<>> /\ res.id = <<>>
        /\ res.dist = None \/ FromFile(res.dist, res.policies)
      BY <2>1, Loaded
  <2>4. res.dist # None => /\ DistributionShape(res.dist) /\ res.dist.default \in BehaviorType
                           /\ res.dist.enabled => FileChecked(res.dist)
      BY <2>3, FileIsChecked
  <2>5. HeadersChecked(res.rhp)
      BY <2>3 DEF HeadersChecked
  <2>6. /\ RenderedFromItsOwn(published') /\ RenderedFromItsOwn(serving')
        /\ Accepts(serving.conf)'
        /\ Render(res).ok => failed' = None
        /\ ~ Render(res).ok => failed' = res.dist
      BY <2>2, <2>3, <2>4, <2>5, WritePreserves DEF IInv
  <2>7. LoadedRenders'
    <3> SUFFICES ASSUME failed' # None, ~ up' PROVE OriginConflict(failed')
        BY DEF LoadedRenders, OriginConflict
    <3>1. ~ Render(res).ok /\ failed' = res.dist
        BY <2>6
    <3>2. res.dist # None /\ res.dist.enabled /\ ~ renderConf(res.dist, res.rhp, res.id).ok
        BY <3>1, RenderOutcome
    <3>3. OriginConflict(res.dist)
        BY <2>4, <3>2, OnlyConflictsFail
    <3>4. QED
        BY <3>1, <3>3
  <2>8. QED
      BY <1>3, <2>6, <2>7 DEF IInv
<1>6. QED
    BY <1>4, <1>5

\* A reload renders the stores.
LEMMA ReloadPreserves ==
    ASSUME IInv, Reload PROVE IInv'
<1> DEFINE res == snapshotLoadResult
<1>1. up /\ up' = up /\ Write(res) /\ UNCHANGED <<cps, rhps, dist>>
    BY DEF Reload, stores
<1>2. /\ res.dist = dist /\ res.rhp = rhps
      /\ res.id = IF dist = None THEN <<>> ELSE DistributionID
    BY DEF snapshotLoadResult
<1> HIDE DEF res
<1>3. /\ RenderedFromItsOwn(published') /\ RenderedFromItsOwn(serving')
      /\ Accepts(serving.conf)'
    BY <1>1, <1>2, WritePreserves DEF IInv
<1>4. (dist # None => DistributionShape(dist))' /\ HeadersChecked(rhps)'
    BY <1>1 DEF IInv, HeadersChecked
<1>5. LoadedRenders'
    BY <1>1 DEF LoadedRenders
<1>6. QED
    BY <1>3, <1>4, <1>5 DEF IInv

\* A step that leaves the files and nginx alone.
LEMMA QuietPreserves ==
    ASSUME IInv, UNCHANGED <<published, serving>>, up' \/ failed' = None,
           dist' = dist \/ DistributionShape(dist'), rhps' = rhps \/ HeadersChecked(rhps')
    PROVE  IInv'
<1>1. RenderedFromItsOwn(published') /\ RenderedFromItsOwn(serving') /\ Accepts(serving'.conf)
    BY DEF IInv
<1>2. LoadedRenders'
    BY DEF LoadedRenders
<1>3. HeadersChecked(rhps')
    BY Zenon DEF IInv
<1>4. dist' # None => DistributionShape(dist')
    BY Zenon DEF IInv
<1>5. QED
    BY <1>1, <1>2, <1>3, <1>4 DEF IInv

\* No step renders anything but checked resources.
LEMMA NextPreserves == IInv /\ [Next]_vars => IInv'
<1> SUFFICES ASSUME IInv, [Next]_vars PROVE IInv'
    OBVIOUS
<1>1. CASE \E dir \in Directories : Start(dir)
    BY <1>1, StartPreserves
<1>2. CASE Stop
    BY <1>2, QuietPreserves DEF Stop, stores
<1>3. CASE Reload
    BY <1>3, ReloadPreserves
<1>4. CASE \E cfg \in CachePolicies : CreateCachePolicy(cfg)
    BY <1>4, QuietPreserves DEF CreateCachePolicy
<1>5. CASE \E cfg \in OriginRequestPolicies : CreateOriginRequestPolicy(cfg)
    BY <1>5, QuietPreserves DEF CreateOriginRequestPolicy, stores
<1>6. CASE \E cfg \in HeadersPolicies : CreateResponseHeadersPolicy(cfg)
  <2>1. PICK cfg \in HeadersPolicies : CreateResponseHeadersPolicy(cfg)
      BY <1>6
  <2>2. PICK id \in HeadersPolicyIDs \ DOMAIN rhps :
            rhps' = [i \in DOMAIN rhps \cup {id} |-> IF i = id THEN cfg ELSE rhps[i]]
      BY <2>1 DEF CreateResponseHeadersPolicy
  <2>3. /\ id # <<>> /\ cfg.custom \in Seq(CustomType) /\ ResponseHeadersPolicyConfig(cfg)
      BY <2>1, AdmissionAssumption DEF CreateResponseHeadersPolicy
  <2>4. HeadersChecked(rhps')
      BY <2>2, <2>3 DEF IInv, HeadersChecked
  <2>5. QED
      BY <2>1, <2>4, QuietPreserves DEF CreateResponseHeadersPolicy
<1>7. CASE \E cfg \in Distributions : PutDistribution(cfg)
    BY <1>7, QuietPreserves, AdmissionAssumption DEF PutDistribution
<1>8. CASE UNCHANGED vars
  <2>1. UNCHANGED <<up, cps, rhps, dist, failed, published, serving>>
      BY <1>8 DEF vars, stores
  <2>2. LoadedRenders'
      BY <2>1 DEF IInv, LoadedRenders
  <2>3. QED
      BY <2>1, <2>2 DEF IInv, HeadersChecked
<1>9. QED
    BY <1>1, <1>2, <1>3, <1>4, <1>5, <1>6, <1>7, <1>8 DEF Next

\* IInv is an invariant: what is published and served was rendered from
\* resources that passed the checks of the way they came in.
THEOREM Inductive == Spec => []IInv
BY InitIsInv, NextPreserves, PTL DEF Spec

-----------------------------------------------------------------------------
(* Headers. *)

\* What two sequences hold, their concatenation holds.
LEMMA RangeConcat ==
    ASSUME NEW T, NEW s \in Seq(T), NEW t \in Seq(T)
    PROVE  s \o t \in Seq(T) /\ Range(s \o t) = Range(s) \cup Range(t)
<1> DEFINE m == Len(s)
           n == Len(t)
           u == s \o t
<1>1. /\ m \in Nat /\ n \in Nat /\ u \in Seq(T)
      /\ DOMAIN s = 1 .. m /\ DOMAIN t = 1 .. n /\ DOMAIN u = 1 .. m + n
      /\ \A i \in 1 .. m : u[i] = s[i]
      /\ \A i \in m + 1 .. m + n : u[i] = t[i - m]
    OBVIOUS
<1> HIDE DEF m, n, u
<1>2. ASSUME NEW i \in 1 .. m + n PROVE u[i] \in Range(s) \cup Range(t)
  <2>1. i \in 1 .. m \/ (i \in m + 1 .. m + n /\ i - m \in 1 .. n)
      BY <1>1
  <2>2. QED
      BY <1>1, <2>1 DEF Range
<1>3. ASSUME NEW i \in 1 .. m PROVE s[i] \in Range(u)
  <2>1. i \in 1 .. m + n
      BY <1>1
  <2>2. QED
      BY <1>1, <2>1 DEF Range
<1>4. ASSUME NEW i \in 1 .. n PROVE t[i] \in Range(u)
  <2>1. m + i \in m + 1 .. m + n /\ m + i \in 1 .. m + n /\ (m + i) - m = i
      BY <1>1
  <2>2. u[m + i] = t[i]
      BY <1>1, <2>1
  <2>3. QED
      BY <1>1, <2>1, <2>2 DEF Range
<1>5. /\ Range(s) = {s[i] : i \in 1 .. m} /\ Range(t) = {t[i] : i \in 1 .. n}
      /\ Range(u) = {u[i] : i \in 1 .. m + n}
    BY <1>1, Zenon DEF Range
<1>6. Range(u) = Range(s) \cup Range(t)
    BY <1>2, <1>3, <1>4, <1>5, Zenon
<1>7. QED
    BY <1>1, <1>6 DEF u

\* What FlattenSeq holds is what its parts hold.
LEMMA FlattenRange ==
    ASSUME NEW T, NEW parts \in Seq(Seq(T))
    PROVE  /\ FlattenSeq(parts) \in Seq(T)
           /\ Range(FlattenSeq(parts)) = UNION {Range(parts[i]) : i \in DOMAIN parts}
<1> DEFINE n == Len(parts)
           none == <<>>
<1>1. /\ n \in Nat /\ DOMAIN parts = 1 .. n /\ none \in Seq(T) /\ Range(none) = {}
      /\ \A i \in 1 .. n : parts[i] \in Seq(T)
      /\ \A s \in Seq(T) : none \o s = s
      /\ n = 0 => parts = none
    BY DEF Range
<1>2. CASE n = 0
  <2>1. FlattenSeq(parts) = none
      BY <1>1, <1>2 DEF FlattenSeq
  <2> HIDE DEF none
  <2>2. DOMAIN parts = {}
      BY <1>1, <1>2
  <2>3. QED
      BY <1>1, <2>1, <2>2
<1>3. CASE n # 0
  <2> DEFINE round == [k \in 1 .. n |-> [s \in Seq(T) |-> s \o parts[k]]]
             Loop(f) == f = [i \in 1 .. n |-> IF i = 1 THEN parts[i] ELSE f[i - 1] \o parts[i]]
             flatten == CHOOSE f : Loop(f)
  <2>1. FlattenSeq(parts) = flatten[n]
      BY <1>3 DEF FlattenSeq
  <2> HIDE DEF n, none
  <2>2. round \in Rounds(n, Seq(T))
      BY <1>1 DEF Rounds
  <2>3. PICK g : /\ g \in [0 .. n -> Seq(T)] /\ g[0] = none
                 /\ \A k \in 1 .. n : g[k] = round[k][g[k - 1]]
    <3> HIDE DEF round
    <3>1. \E g : Runs(g, n, Seq(T), none, round)
        BY <1>1, <2>2, BoundedRecursion
    <3>2. QED
        BY <3>1 DEF Runs
  <2>4. \A k \in 1 .. n : g[k] = IF k = 1 THEN parts[k] ELSE g[k - 1] \o parts[k]
    <3> TAKE k \in 1 .. n
    <3>1. k - 1 \in 0 .. n /\ (k = 1 => k - 1 = 0)
        BY <1>1
    <3>2. g[k - 1] \in Seq(T)
        BY <2>3, <3>1
    <3>3. g[k] = g[k - 1] \o parts[k]
        BY <2>3, <3>2
    <3>4. QED
        BY <1>1, <2>3, <3>1, <3>3
  <2>5. Loop([i \in 1 .. n |-> g[i]])
    <3> DEFINE h == [i \in 1 .. n |-> g[i]]
    <3>1. \A i \in 1 .. n : h[i] = IF i = 1 THEN parts[i] ELSE h[i - 1] \o parts[i]
      <4> TAKE i \in 1 .. n
      <4>1. i # 1 => i - 1 \in 1 .. n
          BY <1>1
      <4>2. QED
          BY <2>4, <4>1
    <3>2. h = [i \in 1 .. n |-> h[i]]
        OBVIOUS
    <3> HIDE DEF h
    <3>3. Loop(h)
        BY <3>1, <3>2
    <3>4. QED
        BY <3>3 DEF h
  <2>6. Loop(flatten)
      BY <2>5
  <2> HIDE DEF flatten
  <2>7. \A i \in 1 .. n : flatten[i] = IF i = 1 THEN parts[i] ELSE flatten[i - 1] \o parts[i]
      BY <2>6, Zenon
  <2> DEFINE Held(k) == UNION {Range(parts[i]) : i \in 1 .. k}
             S == {k \in 0 .. n : k # 0 => flatten[k] \in Seq(T) /\ Range(flatten[k]) = Held(k)}
  <2>8. 0 \in S
      BY <1>1
  <2>9. ASSUME NEW k \in 0 .. n, k < n /\ k \in S PROVE k + 1 \in S
    <3>1. k + 1 \in 1 .. n /\ k + 1 \in 0 .. n /\ (k + 1) - 1 = k
        BY <1>1, <2>9
    <3>2. CASE k = 0
      <4>1. flatten[1] = parts[1] /\ 1 .. 1 = {1} /\ k + 1 = 1
          BY <2>7, <3>1, <3>2
      <4>2. Held(1) = Range(parts[1])
          BY <4>1
      <4>3. 1 \in 1 .. n /\ parts[1] \in Seq(T)
          BY <1>1, <3>1, <4>1
      <4>4. flatten[1] \in Seq(T) /\ Range(flatten[1]) = Held(1)
          BY <4>1, <4>2, <4>3, Zenon
      <4> HIDE DEF Held
      <4>5. QED
          BY <3>1, <4>1, <4>4
    <3>3. CASE k # 0
      <4>1. flatten[k] \in Seq(T) /\ Range(flatten[k]) = Held(k)
          BY <2>9, <3>3
      <4>2. flatten[k + 1] = flatten[k] \o parts[k + 1]
        <5>1. k + 1 # 1
            BY <3>3
        <5>2. flatten[k + 1] = flatten[(k + 1) - 1] \o parts[k + 1]
            BY <2>7, <3>1, <5>1, Zenon
        <5>3. QED
            BY <3>1, <5>2, Zenon
      <4>3. parts[k + 1] \in Seq(T)
          BY <1>1, <3>1
      <4>4. /\ flatten[k + 1] \in Seq(T)
            /\ Range(flatten[k + 1]) = Held(k) \cup Range(parts[k + 1])
          BY <4>1, <4>2, <4>3, RangeConcat
      <4>5. 1 .. k + 1 = (1 .. k) \cup {k + 1}
          BY <3>3
      <4>6. Held(k + 1) = Held(k) \cup Range(parts[k + 1])
          BY <4>5
      <4>7. QED
          BY <3>1, <4>4, <4>6
    <3>4. QED
        BY <3>2, <3>3
  <2>10. 0 .. n \subseteq S
    <3> HIDE DEF S
    <3>1. \A k \in 0 .. n : k < n /\ k \in S => k + 1 \in S
        BY <2>9
    <3>2. QED
        BY <1>1, <2>8, <3>1, BoundedInduction
  <2>11. n \in 0 .. n
      BY <1>1
  <2>12. flatten[n] \in Seq(T) /\ Range(flatten[n]) = Held(n)
      BY <1>3, <2>10, <2>11
  <2>13. QED
      BY <1>1, <2>1, <2>12
<1>4. QED
    BY <1>2, <1>3

\* The directives for some names and values, and those of one header.
Directives(names, values) == [op : {"hide", "add"}, name : names, value : values]
Hide(n) == [op |-> "hide", name |-> n, value |-> None]
Add(n, v) == [op |-> "add", name |-> n, value |-> v]

\* Whatever is hidden is added.
Paired(s) == \A x \in Range(s) : \E y \in Range(s) : y.op = "add" /\ y.name = x.name

\* One header: hidden first when it overrides, and then added.
LEMMA OneHeader ==
    ASSUME NEW names, NEW values, None \in values, NEW n \in names, NEW v \in values, NEW override
    PROVE  LET s == appendCorsDirective(override, n, v)
           IN s \in Seq(Directives(names, values)) /\ Add(n, v) \in Range(s) /\ Paired(s)
<1> DEFINE h == Hide(n)
           a == Add(n, v)
           T == Directives(names, values)
           s == appendCorsDirective(override, n, v)
<1>1. h \in T /\ a \in T /\ h.name = n /\ a.name = n /\ a.op = "add"
    BY DEF Hide, Add, Directives
<1>2. s = (IF override THEN <<h>> ELSE <<>>) \o <<a>>
    BY DEF appendCorsDirective, Hide, Add
<1> HIDE DEF h, a, T, s
<1>3. \A x \in T : <<x>> \in Seq(T) /\ Range(<<x>>) = {x}
  <2> TAKE x \in T
  <2> DEFINE one == <<x>>
  <2>1. one \in Seq(T) /\ DOMAIN one = {1} /\ one[1] = x
      OBVIOUS
  <2> HIDE DEF one
  <2>2. Range(one) = {x}
      BY <2>1 DEF Range
  <2>3. QED
      BY <2>1, <2>2 DEF one
<1>4. s \in Seq(T) /\ a \in Range(s) /\ Range(s) \subseteq {h, a}
  <2> DEFINE first == IF override THEN <<h>> ELSE <<>>
  <2>1. first \in Seq(T) /\ Range(first) \subseteq {h}
    <3>1. CASE override
        BY <1>1, <1>3, <3>1
    <3>2. CASE ~ override
        BY <3>2 DEF Range
    <3>3. QED
        BY <3>1, <3>2
  <2> DEFINE last == <<a>>
  <2>2. last \in Seq(T) /\ Range(last) = {a} /\ s = first \o last
      BY <1>1, <1>2, <1>3
  <2> HIDE DEF first, last
  <2>3. s \in Seq(T) /\ Range(s) = Range(first) \cup Range(last)
      BY <2>1, <2>2, RangeConcat
  <2>4. QED
      BY <2>1, <2>2, <2>3
<1>5. Paired(s)
    BY <1>1, <1>4 DEF Paired
<1>6. QED
    BY <1>4, <1>5 DEF s, a, T

\* Joining the directives of several headers keeps them all.
LEMMA FlattenPaired ==
    ASSUME NEW T, NEW parts \in Seq(Seq(T)), \A i \in DOMAIN parts : Paired(parts[i])
    PROVE  /\ FlattenSeq(parts) \in Seq(T) /\ Paired(FlattenSeq(parts))
           /\ \A i \in DOMAIN parts : Range(parts[i]) \subseteq Range(FlattenSeq(parts))
<1> DEFINE f == FlattenSeq(parts)
<1>1. f \in Seq(T) /\ Range(f) = UNION {Range(parts[i]) : i \in DOMAIN parts}
    BY FlattenRange
<1> HIDE DEF f
<1>2. \A i \in DOMAIN parts : Range(parts[i]) \subseteq Range(f)
    BY <1>1
<1>3. ASSUME NEW x \in Range(f) PROVE \E y \in Range(f) : y.op = "add" /\ y.name = x.name
  <2>1. PICK i \in DOMAIN parts : x \in Range(parts[i])
      BY <1>1
  <2>2. QED
      BY <1>2, <2>1 DEF Paired
<1>4. QED
    BY <1>1, <1>2, <1>3 DEF Paired, f

\* The entries of a policy, by what its header is and whether it is skipped.
HeaderOr(skip, override, n, v) == IF skip THEN <<>> ELSE appendCorsDirective(override, n, v)

\* A header that is skipped hides nothing.
LEMMA HeaderOrPaired ==
    ASSUME NEW names, NEW values, None \in values,
           NEW skip, NEW override, NEW n, NEW v, ~ skip => n \in names /\ v \in values
    PROVE  LET s == HeaderOr(skip, override, n, v)
           IN s \in Seq(Directives(names, values)) /\ Paired(s)
<1>1. CASE skip
  <2> DEFINE none == <<>>
  <2>1. none \in Seq(Directives(names, values)) /\ Range(none) = {}
      BY DEF Range
  <2>2. HeaderOr(skip, override, n, v) = none
      BY <1>1 DEF HeaderOr
  <2> HIDE DEF none
  <2>3. QED
      BY <2>1, <2>2 DEF Paired
<1>2. CASE ~ skip
    BY <1>2, OneHeader DEF HeaderOr
<1>3. QED
    BY <1>1, <1>2

\* Every valid custom header is added.
LEMMA CustomHeaders ==
    ASSUME NEW custom \in Seq(CustomType)
    PROVE  LET s == appendCustomHeaderDirectives(custom)
           IN /\ \E T : s \in Seq(T)
              /\ Paired(s)
              /\ \A k \in DOMAIN custom :
                    (isValidHeaderName(custom[k].name) /\ isValidHeaderValue(custom[k].value)) =>
                        Add(custom[k].name, custom[k].value) \in Range(s)
<1> DEFINE names == {custom[i].name : i \in DOMAIN custom}
           values == {custom[i].value : i \in DOMAIN custom} \cup {None}
           Skip(h) == ~ isValidHeaderName(h.name) \/ ~ isValidHeaderValue(h.value)
           Part(h) == HeaderOr(Skip(h), h.override, h.name, h.value)
           parts == [i \in DOMAIN custom |-> Part(custom[i])]
           T == Directives(names, values)
           s == FlattenSeq(parts)
<1>1. appendCustomHeaderDirectives(custom) = s
    BY DEF appendCustomHeaderDirectives, HeaderOr
<1>2. \A i \in DOMAIN custom : custom[i].name \in names /\ custom[i].value \in values
    OBVIOUS
<1>3. None \in values
    OBVIOUS
<1> HIDE DEF names, values
<1>4. \A i \in DOMAIN custom : Part(custom[i]) \in Seq(T) /\ Paired(Part(custom[i]))
  <2> HIDE DEF Skip
  <2>1. QED
      BY <1>2, <1>3, HeaderOrPaired
<1>5. DOMAIN parts = DOMAIN custom /\ \A i \in DOMAIN custom : parts[i] = Part(custom[i])
    OBVIOUS
<1>6. parts \in Seq(Seq(T))
  <2>1. Len(custom) \in Nat /\ DOMAIN custom = 1 .. Len(custom)
      OBVIOUS
  <2> HIDE DEF T, Part
  <2>2. QED
      BY <1>4, <2>1
<1> HIDE DEF parts, T
<1>7. /\ s \in Seq(T) /\ Paired(s)
      /\ \A i \in DOMAIN parts : Range(parts[i]) \subseteq Range(s)
  <2> HIDE DEF Part
  <2>1. QED
      BY <1>4, <1>5, <1>6, FlattenPaired
<1>8. ASSUME NEW k \in DOMAIN custom, isValidHeaderName(custom[k].name),
             isValidHeaderValue(custom[k].value)
      PROVE  Add(custom[k].name, custom[k].value) \in Range(s)
  <2>1. parts[k] = appendCorsDirective(custom[k].override, custom[k].name, custom[k].value)
      BY <1>5, <1>8 DEF HeaderOr
  <2>2. Add(custom[k].name, custom[k].value) \in Range(parts[k])
      BY <1>2, <1>3, <2>1, OneHeader
  <2>3. QED
      BY <1>5, <1>7, <2>2
<1>9. QED
    BY <1>1, <1>7, <1>8

\* The CORS headers hide nothing that they do not add.
LEMMA CorsHeaders ==
    ASSUME NEW cors
    PROVE  LET s == appendCorsDirectives(cors) IN (\E T : s \in Seq(T)) /\ Paired(s)
<1> DEFINE fields == CorsFields(cors)
           names == {fields[i].name : i \in DOMAIN fields}
           values == {fields[i].value : i \in DOMAIN fields} \cup {None}
           Skip(f) == f.value = None \/ ~ isValidHeaderValue(f.value)
           Part(f) == HeaderOr(Skip(f), cors.override, f.name, f.value)
           parts == [i \in DOMAIN fields |-> Part(fields[i])]
           T == Directives(names, values)
           none == <<>>
<1>1. CASE cors = None
  <2>1. appendCorsDirectives(cors) = none /\ none \in Seq({}) /\ Range(none) = {}
      BY <1>1 DEF appendCorsDirectives, Range
  <2> HIDE DEF none
  <2>2. QED
      BY <2>1 DEF Paired
<1>2. CASE cors # None
  <2>1. appendCorsDirectives(cors) = FlattenSeq(parts)
      BY <1>2 DEF appendCorsDirectives, HeaderOr
  <2>2. DOMAIN fields = 1 .. 6
      BY DEF CorsFields
  <2> HIDE DEF fields
  <2>3. /\ \A i \in DOMAIN fields : fields[i].name \in names /\ fields[i].value \in values
        /\ None \in values
      OBVIOUS
  <2> HIDE DEF names, values
  <2>4. \A i \in DOMAIN fields : Part(fields[i]) \in Seq(T) /\ Paired(Part(fields[i]))
    <3> HIDE DEF Skip
    <3>1. QED
        BY <2>3, HeaderOrPaired
  <2>5. /\ DOMAIN parts = DOMAIN fields
        /\ \A i \in DOMAIN fields : parts[i] = Part(fields[i])
      OBVIOUS
  <2>6. parts \in Seq(Seq(T))
    <3> HIDE DEF T, Part
    <3>1. 6 \in Nat
        OBVIOUS
    <3>2. QED
        BY <2>2, <2>4, <3>1
  <2> HIDE DEF parts, T, Part
  <2>7. FlattenSeq(parts) \in Seq(T) /\ Paired(FlattenSeq(parts))
      BY <2>4, <2>5, <2>6, FlattenPaired
  <2>8. QED
      BY <2>1, <2>7
<1>3. QED
    BY <1>1, <1>2

\* The directives of a policy: what is hidden is added, and every custom header
\* that is accepted is.
LEMMA PolicyHeaders ==
    ASSUME NEW policy, policy.custom \in Seq(CustomType)
    PROVE  LET s == responseHeadersToDirectives(policy)
           IN /\ Paired(s)
              /\ \A k \in DOMAIN policy.custom :
                    (/\ isValidHeaderName(policy.custom[k].name)
                     /\ isValidHeaderValue(policy.custom[k].value)) =>
                        Add(policy.custom[k].name, policy.custom[k].value) \in Range(s)
<1> DEFINE c == appendCustomHeaderDirectives(policy.custom)
           d == appendCorsDirectives(policy.cors)
           s == responseHeadersToDirectives(policy)
<1>1. PICK T : c \in Seq(T)
    BY CustomHeaders
<1>2. PICK U : d \in Seq(U)
    BY CorsHeaders
<1>3. Paired(c) /\ Paired(d)
    BY CustomHeaders, CorsHeaders
<1>4. \A k \in DOMAIN policy.custom :
          (/\ isValidHeaderName(policy.custom[k].name)
           /\ isValidHeaderValue(policy.custom[k].value)) =>
              Add(policy.custom[k].name, policy.custom[k].value) \in Range(c)
    BY CustomHeaders
<1>5. s = c \o d
    BY DEF responseHeadersToDirectives
<1> HIDE DEF c, d, s
<1>6. Range(s) = Range(c) \cup Range(d)
  <2> DEFINE V == T \cup U
  <2>1. c \in Seq(V) /\ d \in Seq(V)
      BY <1>1, <1>2
  <2> HIDE DEF V
  <2>2. QED
      BY <1>5, <2>1, RangeConcat
<1>7. Paired(s)
    BY <1>3, <1>6 DEF Paired
<1>8. QED
    BY <1>4, <1>6, <1>7 DEF s

\* What lookupResponseHeaders finds for a behaviour hides nothing it does not add.
LEMMA LookupPaired ==
    ASSUME NEW rhp, HeadersChecked(rhp), NEW id PROVE Paired(lookupResponseHeaders(rhp, id))
<1>1. CASE id = <<>> \/ id \notin DOMAIN rhp
  <2> DEFINE none == <<>>
  <2>1. lookupResponseHeaders(rhp, id) = none /\ Range(none) = {}
      BY <1>1 DEF lookupResponseHeaders, Range
  <2> HIDE DEF none
  <2>2. QED
      BY <2>1 DEF Paired
<1>2. CASE id # <<>> /\ id \in DOMAIN rhp
  <2>1. lookupResponseHeaders(rhp, id) = responseHeadersToDirectives(rhp[id])
      BY <1>2 DEF lookupResponseHeaders
  <2>2. rhp[id].custom \in Seq(CustomType)
      BY <1>2 DEF HeadersChecked
  <2>3. QED
      BY <2>1, <2>2, PolicyHeaders
<1>3. QED
    BY <1>1, <1>2

\* A header that is overridden is replaced: see NoHeaderLost.
LEMMA HeadersReplaced ==
    ASSUME IInv PROVE NoHeaderLost
<1> DEFINE d == serving.dist
           rhp == serving.rhp
           conf == serving.conf
<1> SUFFICES ASSUME Serves(serving), NEW body \in Bodies(conf), NEW x \in Range(body.headers)
             PROVE  \/ Got(body, x.name) # {}
                    \/ \E y \in Range(body.headers) :
                          y.op = "add" /\ y.name = x.name /\ y.value = <<>>
    BY DEF NoHeaderLost
<1>1. PICK id : renderConf(d, rhp, id) = Ok(conf)
    BY ServingIsRendered, Zenon
<1>2. HeadersChecked(rhp)
    BY ServingIsRendered, Zenon
<1>3. BodiesViewed(d, rhp, conf)
    BY <1>1, BodiesOfViews, Zenon
<1> HIDE DEF d, rhp, conf
<1>4. PICK i \in DOMAIN AllBehaviors(d), updated \in BOOLEAN :
          body = writeOuterLocationBody(View(d, rhp, i), updated)
    BY <1>3 DEF BodiesViewed
<1>5. body.headers = lookupResponseHeaders(rhp, AllBehaviors(d)[i].rhp)
    BY <1>4 DEF writeOuterLocationBody, View, behaviorView
<1>6. Paired(body.headers)
    BY <1>2, <1>5, LookupPaired
<1>7. PICK y \in Range(body.headers) : y.op = "add" /\ y.name = x.name
    BY <1>6 DEF Paired
<1>8. y.value # <<>> =>
          [name |-> y.name, value |-> y.value]
              \in Delivered(body.headers, {[name |-> x.name, value |-> None]})
    BY <1>7 DEF Delivered
<1>9. [name |-> y.name, value |-> y.value].name = x.name
    BY <1>7
<1>10. y.value # <<>> => Got(body, x.name) # {}
    BY <1>8, <1>9, Zenon DEF Got
<1>11. QED
    BY <1>7, <1>10

\* A custom header that the API accepted is rendered: see NoAcceptedHeaderDropped.
LEMMA HeadersRendered ==
    ASSUME IInv PROVE NoAcceptedHeaderDropped
<1> DEFINE d == serving.dist
           rhp == serving.rhp
           conf == serving.conf
           all == AllBehaviors(d)
<1> SUFFICES ASSUME Serves(serving), NEW i \in DOMAIN all, all[i].rhp \in DOMAIN rhp,
                    ~ Shadowed(all, i), NEW k \in DOMAIN rhp[all[i].rhp].custom,
                    isValidHeaderValue(rhp[all[i].rhp].custom[k].value)
             PROVE  \E x \in Range(ServingBody(conf, i).headers) :
                        /\ x.op = "add" /\ x.name = rhp[all[i].rhp].custom[k].name
                        /\ x.value = rhp[all[i].rhp].custom[k].value
    BY DEF NoAcceptedHeaderDropped
<1>1. PICK id : renderConf(d, rhp, id) = Ok(conf)
    BY ServingIsRendered, Zenon
<1>2. HeadersChecked(rhp) /\ d.behaviors \in Seq(BehaviorType)
    BY ServingIsRendered, Zenon
<1>3. OuterRendered(d, rhp, conf) /\ NamedRendered(d, rhp, conf)
    BY <1>1, Rendered, Zenon
<1> DEFINE b == all[i]
           policy == rhp[b.rhp]
<1> HIDE DEF d, rhp, conf
<1>4. \E updated \in BOOLEAN : ServingBody(conf, i) = writeOuterLocationBody(View(d, rhp, i), updated)
    BY <1>2, <1>3, ServedFromOwnView
<1>5. ServingBody(conf, i).headers = lookupResponseHeaders(rhp, b.rhp)
    BY <1>4 DEF writeOuterLocationBody, View, behaviorView
<1>6. /\ b.rhp # <<>> /\ policy.custom \in Seq(CustomType)
      /\ ResponseHeadersPolicyConfig(policy)
    BY <1>2 DEF HeadersChecked
<1>7. ServingBody(conf, i).headers = responseHeadersToDirectives(policy)
    BY <1>5, <1>6 DEF lookupResponseHeaders
<1>8. isValidHeaderName(policy.custom[k].name)
    BY <1>6 DEF ResponseHeadersPolicyConfig, isHTTPTokenName, isValidHeaderName
<1> HIDE DEF policy
<1>9. Add(policy.custom[k].name, policy.custom[k].value) \in Range(ServingBody(conf, i).headers)
    BY <1>6, <1>7, <1>8, PolicyHeaders DEF policy
<1>10. QED
    BY <1>9 DEF Add, policy

-----------------------------------------------------------------------------
(* Paths. *)

\* A prefix is the same as far as it goes.
LEMMA PrefixIs ==
    ASSUME NEW V, NEW s \in Seq(V), NEW u \in Seq(V)
    PROVE  IsPrefix(s, u) <=> Len(s) <= Len(u) /\ \A i \in 1 .. Len(s) : s[i] = u[i]
<1> DEFINE m == Len(s)
           n == Len(u)
           a == SubSeq(s, 1, m)
           b == SubSeq(u, 1, m)
<1>1. m \in Nat /\ n \in Nat
    OBVIOUS
<1>2. IsPrefix(s, u) <=> m <= n /\ a = b
    BY DEF IsPrefix
<1>3. ASSUME m <= n
      PROVE  /\ DOMAIN a = 1 .. m /\ \A i \in 1 .. m : a[i] = s[i]
             /\ DOMAIN b = 1 .. m /\ \A i \in 1 .. m : b[i] = u[i]
             /\ a \in Seq(V) /\ b \in Seq(V)
    BY <1>1, <1>3
<1>4. ASSUME m <= n PROVE a = b <=> \A i \in 1 .. m : s[i] = u[i]
  <2>1. /\ DOMAIN a = 1 .. m /\ \A i \in 1 .. m : a[i] = s[i]
        /\ DOMAIN b = 1 .. m /\ \A i \in 1 .. m : b[i] = u[i]
        /\ a = [i \in DOMAIN a |-> a[i]] /\ b = [i \in DOMAIN b |-> b[i]]
      BY <1>3, <1>4
  <2> HIDE DEF m, n, a, b
  <2>2. QED
      BY <2>1
<1>5. QED
    BY <1>2, <1>4

\* A pattern without its last character.
LEMMA FrontIs ==
    ASSUME NEW V, NEW p \in Seq(V), Len(p) > 0
    PROVE  /\ Front(p) \in Seq(V) /\ Len(Front(p)) = Len(p) - 1
           /\ \A i \in 1 .. Len(p) - 1 : Front(p)[i] = p[i]
<1> DEFINE n == Len(p)
           k == n - 1
<1>1. n \in Nat /\ k \in Nat /\ k <= n /\ n = Len(p)
    OBVIOUS
<1>2. Front(p) = SubSeq(p, 1, k)
    BY DEF Front
<1> HIDE DEF n, k
<1>3. /\ SubSeq(p, 1, k) \in Seq(V) /\ Len(SubSeq(p, 1, k)) = k
      /\ \A i \in 1 .. k : SubSeq(p, 1, k)[i] = p[i]
    BY <1>1
<1>4. QED
    BY <1>2, <1>3 DEF n, k

\* A pattern that ends with a slash and a star is no shorter than they are.
LEMMA SuffixLength ==
    ASSUME NEW V, NEW p \in Seq(V), IsSuffix(<<"/", "*">>, p)
    PROVE  Len(p) >= 2
<1> DEFINE end == <<"/", "*">>
           m == Len(p)
<1>1. Len(Reverse(end)) = 2
    BY DEF Reverse
<1>2. m \in Nat /\ Len(Reverse(p)) = m
    BY DEF Reverse
<1>3. Len(Reverse(end)) <= Len(Reverse(p))
    BY DEF IsSuffix, IsPrefix
<1> HIDE DEF m, end
<1>4. QED
    BY <1>1, <1>2, <1>3 DEF m

\* Where nginx has the behaviours of a configuration it accepts: those with a
\* pattern at what comes before its star, the default one at the root.
Chars == STRING \cup {"/"}
Root == <<"/">>
PrefixesOf(behaviors, conf) ==
    /\ DOMAIN conf.outer = 1 .. Len(behaviors) + 1
    /\ conf.outer[Len(behaviors) + 1].location = Root
    /\ \A i \in 1 .. Len(behaviors) :
          LET p == behaviors[i].pattern
          IN /\ p \in Seq(Chars) /\ Len(p) \in Nat /\ Len(p) >= 2 /\ p # <<>>
             /\ conf.outer[i].location = Front(p)

\* In a configuration whose locations all differ, the one of a behaviour is its
\* pattern without the star.
LEMMA OuterPrefixes ==
    ASSUME NEW d, d.behaviors \in Seq(BehaviorType), DistributionShape(d),
           NEW rhp, NEW id, NEW conf, renderConf(d, rhp, id) = Ok(conf),
           \A i, j \in DOMAIN conf.outer : conf.outer[i].location = conf.outer[j].location => i = j
    PROVE  PrefixesOf(d.behaviors, conf)
<1> DEFINE all == AllBehaviors(d)
           n == Len(d.behaviors)
           star == <<"*">>
<1>1. Renderable(d) /\ OuterRendered(d, rhp, conf)
    BY Rendered, Zenon
<1>2. LocationsOf(d, conf)
    BY <1>1, OuterLocations
<1>3. /\ n \in Nat /\ DOMAIN all = 1 .. n + 1
      /\ \A i \in 1 .. n : all[i] = d.behaviors[i] /\ d.behaviors[i] \in BehaviorType
      /\ all[n + 1] = DefaultBehavior(d)
    BY Behaviours
<1>4. pathPatternToLocation(star) = Ok(Root)
    BY DEF pathPatternToLocation, Root
<1> HIDE DEF star
<1>5. DefaultBehavior(d).pattern = star
  <2>1. d.default \in BehaviorType
      BY <1>1 DEF Renderable, DistributionShape
  <2>2. DefaultBehavior(d) = [d.default EXCEPT !.pattern = star]
      BY DEF DefaultBehavior, star
  <2>3. QED
      BY <2>1, <2>2 DEF BehaviorType
<1> HIDE DEF all, n
<1>6. n + 1 \in DOMAIN all /\ \A i \in 1 .. n : i \in DOMAIN all /\ i # n + 1
    BY <1>3
<1>7. conf.outer[n + 1].location = Root
  <2>1. conf.outer[n + 1].location = pathPatternToLocation(star).val
      BY <1>2, <1>3, <1>5, <1>6 DEF LocationsOf, all
  <2>2. QED
      BY <1>4, <2>1 DEF Ok
<1>8. DOMAIN conf.outer = 1 .. n + 1
    BY <1>1, <1>3 DEF OuterRendered, all
<1>9. ASSUME NEW i \in 1 .. n
      PROVE  LET p == d.behaviors[i].pattern
             IN /\ p \in Seq(Chars) /\ Len(p) \in Nat /\ Len(p) >= 2 /\ p # <<>>
                /\ conf.outer[i].location = Front(p)
  <2> DEFINE p == d.behaviors[i].pattern
  <2>1. /\ pathPatternToLocation(p).ok
        /\ conf.outer[i].location = pathPatternToLocation(p).val
      BY <1>1, <1>2, <1>3, <1>6 DEF Renderable, LocationsOf, all
  <2>2. p \in Seq(Chars)
    <3>1. p \in Text
        BY <1>3 DEF BehaviorType
    <3>2. QED
        BY <3>1 DEF Text, Chars
  <2> HIDE DEF p
  <2>3. p # star
    <3>1. CASE p = star
      <4>1. conf.outer[i].location = conf.outer[n + 1].location
          BY <1>4, <1>7, <2>1, <3>1 DEF Ok
      <4>2. i = n + 1
        <5>1. i \in DOMAIN conf.outer /\ n + 1 \in DOMAIN conf.outer
            BY <1>3, <1>8
        <5>2. QED
            BY <4>1, <5>1, Zenon
      <4>3. QED
          BY <1>6, <4>2
    <3>2. QED
        BY <3>1
  <2>4. IsSuffix(<<"/", "*">>, p) /\ conf.outer[i].location = Front(p)
    <3>1. pathPatternToLocation(p) = IF IsSuffix(<<"/", "*">>, p) THEN Ok(Front(p)) ELSE Fail
        BY <2>3 DEF pathPatternToLocation, star
    <3>2. QED
        BY <2>1, <3>1 DEF Ok, Fail
  <2>5. Len(p) >= 2
      BY <2>2, <2>4, SuffixLength
  <2>6. Len(p) \in Nat /\ Len(<<>>) = 0
      BY <2>2
  <2>7. p # <<>>
      BY <2>5, <2>6
  <2>8. QED
      BY <2>2, <2>4, <2>5, <2>6, <2>7 DEF p
<1>10. QED
    BY <1>7, <1>8, <1>9 DEF PrefixesOf, n

\* Of two prefixes of a path the shorter one is a prefix of the longer one, and
\* so two of one length are the same.
LEMMA PrefixesNest ==
    ASSUME NEW V, NEW s \in Seq(V), NEW t \in Seq(V), NEW u \in Seq(V),
           IsPrefix(s, u), IsPrefix(t, u), Len(s) <= Len(t)
    PROVE  /\ \A i \in 1 .. Len(s) : s[i] = t[i]
           /\ Len(s) = Len(t) => s = t
<1> DEFINE m == Len(s)
           n == Len(t)
<1>1. m \in Nat /\ n \in Nat /\ DOMAIN s = 1 .. m /\ DOMAIN t = 1 .. n
      /\ s = [i \in DOMAIN s |-> s[i]] /\ t = [i \in DOMAIN t |-> t[i]]
    OBVIOUS
<1>2. (\A i \in 1 .. m : s[i] = u[i]) /\ (\A i \in 1 .. n : t[i] = u[i])
    BY PrefixIs
<1>3. m <= n
    OBVIOUS
<1> HIDE DEF m, n
<1>4. \A i \in 1 .. m : i \in 1 .. n
    BY <1>1, <1>3
<1>5. \A i \in 1 .. m : s[i] = t[i]
    BY <1>2, <1>4
<1>6. m = n => s = t
    BY <1>1, <1>5
<1>7. QED
    BY <1>5, <1>6 DEF m, n

\* nginx takes the location of the longest prefix.
LEMMA LongestTaken ==
    ASSUME NEW conf, NEW uri \in Seq(Chars),
           \A i \in DOMAIN conf.outer : conf.outer[i].location \in Seq(Chars),
           NEW f \in DOMAIN conf.outer, IsPrefix(conf.outer[f].location, uri),
           \A j \in DOMAIN conf.outer : IsPrefix(conf.outer[j].location, uri) =>
               Len(conf.outer[j].location) <= Len(conf.outer[f].location)
    PROVE  Location(conf, uri).location = conf.outer[f].location
<1> DEFINE hits == {l \in Range(conf.outer) : IsPrefix(l.location, uri)}
           Longest(l) == \A k \in hits : Len(k.location) <= Len(l.location)
           taken == CHOOSE l \in hits : Longest(l)
<1>1. \A l \in hits : \E j \in DOMAIN conf.outer : l = conf.outer[j]
    BY DEF Range
<1>2. conf.outer[f] \in hits
    BY DEF Range
<1>3. Longest(conf.outer[f])
    BY <1>1
<1>4. taken \in hits /\ Longest(taken)
  <2> HIDE DEF hits, Longest
  <2>1. QED
      BY <1>2, <1>3
<1>5. Location(conf, uri) = taken
    BY Zenon DEF Location
<1> HIDE DEF taken
<1>6. taken.location \in Seq(Chars) /\ IsPrefix(taken.location, uri)
    BY <1>1, <1>4
<1>7. /\ Len(taken.location) \in Nat /\ Len(conf.outer[f].location) \in Nat
      /\ Len(taken.location) <= Len(conf.outer[f].location)
      /\ Len(conf.outer[f].location) <= Len(taken.location)
    BY <1>2, <1>3, <1>4, <1>6
<1>8. Len(taken.location) = Len(conf.outer[f].location)
  <2> DEFINE m == Len(taken.location)
             n == Len(conf.outer[f].location)
  <2>1. m \in Nat /\ n \in Nat /\ m <= n /\ n <= m
      BY <1>7
  <2> HIDE DEF m, n
  <2>2. m = n
      BY <2>1
  <2>3. QED
      BY <2>2 DEF m, n
<1>9. taken.location = conf.outer[f].location
    BY <1>6, <1>7, <1>8, PrefixesNest
<1>10. QED
    BY <1>5, <1>9

\* A pattern that ends with a slash and a star has the star at its end.
LEMMA SuffixStar ==
    ASSUME NEW V, NEW p \in Seq(V), IsSuffix(<<"/", "*">>, p)
    PROVE  p[Len(p)] = "*"
<1> DEFINE end == <<"/", "*">>
           back == Reverse(end)
           m == Len(p)
<1>1. m \in Nat /\ m >= 2
    BY SuffixLength
<1>2. /\ back \in Seq({"/", "*"}) /\ Len(back) = 2 /\ back[1] = "*"
    BY DEF Reverse
<1>3. /\ Reverse(p) \in Seq(V) /\ Reverse(p)[1] = p[m]
    BY <1>1 DEF Reverse
<1>4. IsPrefix(back, Reverse(p))
    BY DEF IsSuffix
<1> DEFINE W == V \cup {"/", "*"}
<1>5. back \in Seq(W) /\ Reverse(p) \in Seq(W)
    BY <1>2, <1>3
<1> HIDE DEF back, W, m
<1>6. \A i \in 1 .. Len(back) : back[i] = Reverse(p)[i]
    BY <1>4, <1>5, PrefixIs
<1>7. 1 \in 1 .. Len(back)
    BY <1>2
<1>8. QED
    BY <1>2, <1>3, <1>6, <1>7 DEF m

\* How far a character of a pattern, or a star, takes what was covered before.
Covered(c, u, before) ==
    {j \in 0 .. Len(u) :
        IF c = "*" THEN \E k \in before : k <= j
        ELSE j - 1 \in before /\ c \in {"?", u[j]}}

\* A pattern of the documented kind matches the paths below what stands before
\* its star: up to there it covers as many characters as it has itself, or none.
LEMMA MatchIsPrefix ==
    ASSUME NEW p \in Seq(Chars), NEW u \in Seq(Chars), Documented(p), Len(p) >= 2
    PROVE  Matches(p, u) <=> IsPrefix(Front(p), u)
<1> DEFINE m == Len(p)
           n == Len(u)
           Covers(f) == f = [i \in 0 .. m |-> IF i = 0 THEN {0} ELSE Covered(p[i], u, f[i - 1])]
           covers == CHOOSE f : Covers(f)
           Agrees(i) == i <= n /\ \A k \in 1 .. i : p[k] = u[k]
           Reached(i) == IF i = m THEN {j \in 0 .. n : Agrees(m - 1) /\ m - 1 <= j}
                         ELSE {j \in {i} : Agrees(j)}
           g == [i \in 0 .. m |-> Reached(i)]
<1>1. Matches(p, u) <=> n \in covers[m]
    BY Zenon DEF Matches, Covered
<1>2. m \in Nat /\ n \in Nat /\ m >= 2 /\ n = Len(u)
    OBVIOUS
<1>3. p[m] = "*" /\ \A i \in 1 .. m - 1 : p[i] \notin {"*", "?"}
  <2> DEFINE star == <<"*">>
  <2>1. p # star
    <3>1. Len(star) = 1
        OBVIOUS
    <3> HIDE DEF star
    <3>2. p = star => m = 1
        BY <3>1
    <3> HIDE DEF m
    <3>3. QED
        BY <1>2, <3>2
  <2>2. IsSuffix(<<"/", "*">>, p) /\ \A i \in 1 .. m - 1 : p[i] \notin {"*", "?"}
      BY <2>1 DEF Documented
  <2> HIDE DEF star
  <2>3. QED
      BY <2>2, SuffixStar
<1>4. Front(p) \in Seq(Chars) /\ Len(Front(p)) = m - 1 /\ \A i \in 1 .. m - 1 : Front(p)[i] = p[i]
  <2>1. m > 0
      BY <1>2
  <2>2. QED
      BY <2>1, FrontIs
<1>5. IsPrefix(Front(p), u) <=> Agrees(m - 1)
  <2>1. IsPrefix(Front(p), u) <=>
            Len(Front(p)) <= Len(u) /\ \A i \in 1 .. Len(Front(p)) : Front(p)[i] = u[i]
      BY <1>4, PrefixIs
  <2> HIDE DEF m, n
  <2>2. QED
      BY <1>2, <1>4, <2>1
<1> HIDE DEF m, n, covers
<1>6. ASSUME NEW i \in 1 .. m PROVE Covered(p[i], u, Reached(i - 1)) = Reached(i)
  <2>1. i - 1 \in 0 .. m /\ i - 1 # m /\ i - 1 \in Nat
      BY <1>2
  <2>2. Reached(i - 1) = {j \in {i - 1} : Agrees(j)}
      BY <2>1
  <2>3. CASE i = m
    <3>1. Covered(p[i], u, Reached(i - 1)) = {j \in 0 .. n : \E k \in Reached(i - 1) : k <= j}
        BY <1>2, <1>3, <2>3 DEF Covered
    <3>2. \A j \in 0 .. n : (\E k \in Reached(i - 1) : k <= j) <=> (Agrees(m - 1) /\ m - 1 <= j)
        BY <2>2, <2>3
    <3>3. QED
        BY <2>3, <3>1, <3>2
  <2>4. CASE i # m
    <3>1. i \in 1 .. m - 1 /\ p[i] \notin {"*", "?"}
        BY <1>2, <1>3, <2>4
    <3>2. Covered(p[i], u, Reached(i - 1)) = {j \in 0 .. n : j - 1 \in Reached(i - 1) /\ p[i] = u[j]}
        BY <1>2, <3>1 DEF Covered
    <3>3. \A j \in 0 .. n : j - 1 \in Reached(i - 1) <=> (j = i /\ Agrees(i - 1))
        BY <1>2, <2>2
    <3>4. Agrees(i) <=> (i \in 0 .. n /\ Agrees(i - 1) /\ p[i] = u[i])
      <4>1. \A k \in 1 .. i : k \in 1 .. i - 1 \/ k = i
          BY <1>2
      <4>2. \A k \in 1 .. i - 1 : k \in 1 .. i
          BY <1>2
      <4>3. i <= n => i - 1 <= n
          BY <1>2
      <4>4. i \in 1 .. i /\ (i \in 0 .. n <=> i <= n)
          BY <1>2
      <4>5. QED
          BY <4>1, <4>2, <4>3, <4>4
    <3>5. Reached(i) = {j \in {i} : Agrees(j)}
        BY <2>4
    <3> HIDE DEF Agrees, Reached
    <3>6. QED
        BY <3>2, <3>3, <3>4, <3>5
  <2>5. QED
      BY <2>3, <2>4
<1>7. Reached(0) = {0}
    BY <1>2
<1>8. Covers(g)
  <2> HIDE DEF Reached
  <2>1. DOMAIN g = 0 .. m /\ \A i \in 0 .. m : g[i] = Reached(i)
      OBVIOUS
  <2>2. \A i \in 0 .. m : g[i] = IF i = 0 THEN {0} ELSE Covered(p[i], u, g[i - 1])
    <3> TAKE i \in 0 .. m
    <3>1. CASE i = 0
        BY <1>7, <2>1, <3>1
    <3>2. CASE i # 0
      <4>1. i \in 1 .. m /\ i - 1 \in 0 .. m
          BY <1>2, <3>2
      <4>2. QED
          BY <1>6, <2>1, <3>2, <4>1
    <3>3. QED
        BY <3>1, <3>2
  <2>3. g = [i \in 0 .. m |-> g[i]]
      OBVIOUS
  <2> HIDE DEF g
  <2>4. QED
      BY <2>2, <2>3
<1>9. Covers(covers)
    BY <1>8 DEF covers
<1> HIDE DEF g
<1>10. \A i \in 0 .. m : covers[i] = IF i = 0 THEN {0} ELSE Covered(p[i], u, covers[i - 1])
    BY <1>9, Zenon
<1> DEFINE S == {i \in 0 .. m : covers[i] = Reached(i)}
<1>11. 0 \in S
  <2>1. 0 \in 0 .. m
      BY <1>2
  <2> HIDE DEF Reached
  <2>2. covers[0] = Reached(0)
      BY <1>7, <1>10, <2>1
  <2>3. QED
      BY <2>1, <2>2
<1>12. ASSUME NEW i \in 0 .. m, i < m /\ i \in S PROVE i + 1 \in S
  <2>1. i + 1 \in 1 .. m /\ i + 1 \in 0 .. m /\ (i + 1) - 1 = i /\ i + 1 # 0
      BY <1>2, <1>12
  <2>2. covers[i] = Reached(i)
      BY <1>12
  <2> HIDE DEF Reached
  <2>3. covers[i + 1] = Covered(p[i + 1], u, covers[i])
      BY <1>10, <2>1
  <2>4. Covered(p[i + 1], u, Reached(i)) = Reached(i + 1)
      BY <1>6, <2>1
  <2>5. QED
      BY <2>1, <2>2, <2>3, <2>4
<1>13. 0 .. m \subseteq S
  <2> HIDE DEF S
  <2>1. QED
      BY <1>2, <1>11, <1>12, BoundedInduction
<1>14. covers[m] = Reached(m)
  <2>1. m \in 0 .. m
      BY <1>2
  <2> HIDE DEF Reached
  <2>2. QED
      BY <1>13, <2>1
<1>15. n \in Reached(m) <=> Agrees(m - 1)
    BY <1>2
<1>16. QED
    BY <1>1, <1>5, <1>14, <1>15

\* The first behaviour that matches serves: see FirstMatchServes.
LEMMA FirstServes ==
    ASSUME IInv PROVE FirstMatchServes
<1> DEFINE behaviors == serving.dist.behaviors
           conf == serving.conf
           n == Len(behaviors)
           Loc(i) == conf.outer[i].location
<1> SUFFICES ASSUME Serves(serving), MostSpecificFirst(behaviors),
                    \A b \in Range(behaviors) : Documented(b.pattern), NEW uri \in URIs
             PROVE  LET first == SelectInSeq(behaviors, LAMBDA b : Matches(b.pattern, uri))
                    IN Location(conf, uri).location =
                          IF first = 0 THEN Root ELSE Front(behaviors[first].pattern)
    BY DEF FirstMatchServes, Root
<1>1. PrefixesOf(behaviors, conf)
  <2>1. PICK id : renderConf(serving.dist, serving.rhp, id) = Ok(conf)
      BY ServingIsRendered, Zenon
  <2>2. behaviors \in Seq(BehaviorType) /\ DistributionShape(serving.dist)
      BY ServingIsRendered, Zenon
  <2>3. \A i, j \in DOMAIN conf.outer : conf.outer[i].location = conf.outer[j].location => i = j
      BY ServingIsRendered DEF Distinct
  <2>4. QED
      BY <2>1, <2>2, <2>3, OuterPrefixes
<1>2. n \in Nat /\ DOMAIN behaviors = 1 .. n
    BY ServingIsRendered
<1>3. uri \in Seq(Chars) /\ Len(uri) \in Nat /\ Len(uri) >= 1 /\ uri[1] = "/"
  <2>1. uri \in Text /\ uri # <<>> /\ Head(uri) = "/"
      BY AdmissionAssumption
  <2>2. uri \in Seq(Chars) /\ Len(uri) \in Nat /\ Len(uri) # 0
      BY <2>1 DEF Text, Chars
  <2>3. uri[1] = "/"
      BY <2>1, <2>2
  <2> DEFINE m == Len(uri)
  <2>4. m >= 1
    <3>1. m \in Nat /\ m # 0
        BY <2>2
    <3> HIDE DEF m
    <3>2. QED
        BY <3>1
  <2>5. QED
      BY <2>2, <2>3, <2>4
<1>4. Root \in Seq(Chars) /\ Len(Root) = 1 /\ Root[1] = "/"
    BY DEF Root, Chars
<1>5. IsPrefix(Root, uri)
  <2>1. \A i \in 1 .. Len(Root) : Root[i] = uri[i]
      BY <1>3, <1>4
  <2>2. Len(Root) <= Len(uri)
      BY <1>3, <1>4
  <2>3. QED
      BY <1>3, <1>4, <2>1, <2>2, PrefixIs
<1> HIDE DEF n, behaviors, conf
<1>6. /\ DOMAIN conf.outer = 1 .. n + 1 /\ Loc(n + 1) = Root
      /\ \A i \in 1 .. n : /\ Loc(i) = Front(behaviors[i].pattern)
                           /\ behaviors[i].pattern \in Seq(Chars) /\ behaviors[i].pattern # <<>>
                           /\ Len(behaviors[i].pattern) \in Nat /\ Len(behaviors[i].pattern) >= 2
    BY <1>1 DEF PrefixesOf, n
<1>7. \A i \in 1 .. n :
          /\ Loc(i) \in Seq(Chars) /\ Len(Loc(i)) \in Nat /\ Len(Loc(i)) >= 1
          /\ Len(Loc(i)) <= Len(behaviors[i].pattern)
          /\ \A k \in 1 .. Len(Loc(i)) : Loc(i)[k] = behaviors[i].pattern[k]
  <2> SUFFICES ASSUME NEW i \in 1 .. n
               PROVE  /\ Loc(i) \in Seq(Chars) /\ Len(Loc(i)) \in Nat /\ Len(Loc(i)) >= 1
                      /\ Len(Loc(i)) <= Len(behaviors[i].pattern)
                      /\ \A k \in 1 .. Len(Loc(i)) : Loc(i)[k] = behaviors[i].pattern[k]
      OBVIOUS
  <2> DEFINE p == behaviors[i].pattern
             m == Len(p)
             q == Loc(i)
             r == Len(q)
  <2>1. p \in Seq(Chars) /\ m \in Nat /\ m >= 2 /\ q = Front(p)
      BY <1>6
  <2>2. q \in Seq(Chars) /\ r = m - 1 /\ \A k \in 1 .. m - 1 : q[k] = p[k]
    <3> HIDE DEF p, q
    <3>1. m > 0
      <4> HIDE DEF m
      <4>1. QED
          BY <2>1
    <3>2. QED
        BY <2>1, <3>1, FrontIs
  <2> HIDE DEF p, m, q, r
  <2>3. r \in Nat /\ r >= 1 /\ r <= m /\ 1 .. r = 1 .. m - 1
      BY <2>1, <2>2
  <2>4. QED
      BY <2>2, <2>3 DEF p, m, q, r
<1>8. \A i \in DOMAIN conf.outer : Loc(i) \in Seq(Chars)
  <2>1. \A i \in 1 .. n + 1 : i = n + 1 \/ i \in 1 .. n
      BY <1>2
  <2>2. QED
      BY <1>4, <1>6, <1>7, <2>1
<1> DEFINE I == {i \in 1 .. n : Matches(behaviors[i].pattern, uri)}
           first == SelectInSeq(behaviors, LAMBDA b : Matches(b.pattern, uri))
<1>9. first = IF I # {} THEN Min(I) ELSE 0
    BY DEF SelectInSeq, n
<1>10. \A i \in 1 .. n : i \in I <=> IsPrefix(Loc(i), uri)
  <2>1. \A i \in 1 .. n : Documented(behaviors[i].pattern)
      BY <1>2 DEF Range
  <2>2. \A i \in 1 .. n : Matches(behaviors[i].pattern, uri)
                            <=> IsPrefix(Front(behaviors[i].pattern), uri)
      BY <1>3, <1>6, <2>1, MatchIsPrefix
  <2>3. QED
      BY <1>6, <2>2
<1>11. I \subseteq 1 .. n
    OBVIOUS
<1> HIDE DEF I, first
<1>12. CASE I = {}
  <2>1. first = 0
      BY <1>9, <1>12
  <2>2. n + 1 \in DOMAIN conf.outer /\ IsPrefix(Loc(n + 1), uri)
      BY <1>2, <1>5, <1>6
  <2>3. ASSUME NEW j \in DOMAIN conf.outer, IsPrefix(Loc(j), uri)
        PROVE  Len(Loc(j)) <= Len(Loc(n + 1))
    <3>1. j \notin 1 .. n
        BY <1>10, <1>12, <2>3
    <3>2. j = n + 1
        BY <1>2, <1>6, <3>1
    <3>3. QED
        BY <1>4, <1>6, <3>2
  <2>4. Location(conf, uri).location = Loc(n + 1)
      BY <1>3, <1>8, <2>2, <2>3, LongestTaken
  <2>5. QED
      BY <1>6, <2>1, <2>4 DEF first
<1>13. CASE I # {}
  <2>1. first \in I /\ \A i \in I : first <= i
    <3>1. I \subseteq Nat
        BY <1>2, <1>11
    <3>2. \E i \in I : \A j \in I : i <= j
        BY <1>13, <3>1, NatMin
    <3>3. Min(I) \in I /\ \A j \in I : Min(I) <= j
        BY <3>2 DEF Min
    <3>4. QED
        BY <1>9, <1>13, <3>3
  <2>2. first \in 1 .. n /\ first # 0 /\ IsPrefix(Loc(first), uri)
      BY <1>2, <1>10, <1>11, <2>1
  <2>3. first \in DOMAIN conf.outer
      BY <1>2, <1>6, <2>2
  <2>4. ASSUME NEW j \in DOMAIN conf.outer, IsPrefix(Loc(j), uri)
        PROVE  Len(Loc(j)) <= Len(Loc(first))
    <3>1. CASE j = n + 1
        BY <1>4, <1>6, <1>7, <2>2, <3>1
    <3>2. CASE j = first
        BY <1>7, <2>2, <3>2
    <3>3. CASE j \in 1 .. n /\ j # first
      <4>1. first < j
          BY <1>2, <1>10, <2>1, <2>2, <2>4, <3>3
      <4>2. ~ IsPrefix(Loc(first), behaviors[j].pattern)
          BY <1>2, <1>6, <2>2, <3>3, <4>1 DEF MostSpecificFirst
      <4> DEFINE p == behaviors[j].pattern
                 a == Len(Loc(first))
                 b == Len(Loc(j))
                 m == Len(p)
      <4>3. /\ a \in Nat /\ b \in Nat /\ m \in Nat /\ b <= m
            /\ Loc(first) \in Seq(Chars) /\ Loc(j) \in Seq(Chars) /\ p \in Seq(Chars)
            /\ \A k \in 1 .. b : Loc(j)[k] = p[k]
          BY <1>6, <1>7, <2>2, <3>3
      <4>4. ASSUME a <= b PROVE FALSE
        <5>1. \A k \in 1 .. a : Loc(first)[k] = Loc(j)[k]
            BY <1>3, <2>2, <2>4, <4>3, <4>4, PrefixesNest
        <5>2. a <= m /\ \A k \in 1 .. a : k \in 1 .. b
          <6> HIDE DEF a, b, m
          <6>1. QED
              BY <4>3, <4>4
        <5>3. \A k \in 1 .. a : Loc(first)[k] = p[k]
            BY <4>3, <5>1, <5>2, Zenon
        <5>4. IsPrefix(Loc(first), p)
            BY <4>3, <5>2, <5>3, PrefixIs
        <5>5. QED
            BY <4>2, <5>4
      <4>5. b <= a
        <5> HIDE DEF a, b
        <5>1. QED
            BY <4>3, <4>4
      <4>6. QED
          BY <4>5
    <3>4. j = n + 1 \/ j = first \/ (j \in 1 .. n /\ j # first)
        BY <1>2, <1>6
    <3>5. QED
        BY <3>1, <3>2, <3>3, <3>4
  <2>5. Location(conf, uri).location = Loc(first)
      BY <1>3, <1>8, <2>2, <2>3, <2>4, LongestTaken
  <2>6. QED
      BY <1>6, <2>2, <2>5 DEF first
<1>14. QED
    BY <1>12, <1>13

-----------------------------------------------------------------------------
(* The theorems. *)

\* No proxy_pass and no hook of a configuration that nginx runs leads to a
\* location that was not rendered (writeServerBlock).
THEOREM EveryTargetExists == Spec => []NoDanglingTarget
BY Inductive, TargetsExist, PTL

\* A behaviour is served from the origin it names, whatever shares its
\* sanitized names (addInner, buildOriginViews).
THEOREM BehavioursKeepTheirOrigin == Spec => []ServedFromOwnOrigin
BY Inductive, OwnOrigin, PTL

\* A start that fails to render what it loaded fails for an origin conflict
\* only: the loader's checks cover every other error of Render.
THEOREM LoaderCoversRenderer == Spec => []LoadedRenders
<1>1. IInv => LoadedRenders
    BY DEF IInv
<1>2. QED
    BY <1>1, Inductive, PTL

\* A custom header with a value that nginx can quote is in the place that serves
\* a behaviour with its policy, unless an earlier behaviour's forward location
\* serves that one (validate.ResponseHeadersPolicyConfig and isValidHeaderName
\* agree).
THEOREM AcceptedHeadersAreRendered == Spec => []NoAcceptedHeaderDropped
BY Inductive, HeadersRendered, PTL

\* A header of the origin is hidden only where the viewer gets the policy's own,
\* unless the policy gives it an empty value (appendCustomHeaderDirectives,
\* appendCorsDirectives).
THEOREM OverriddenHeadersAreReplaced == Spec => []NoHeaderLost
BY Inductive, HeadersReplaced, PTL

\* Where the patterns are of the documented kind and the more specific ones come
\* first, nginx's longest prefix is CloudFront's first match
\* (pathPatternToLocation).
THEOREM FirstMatchIsLongestPrefix == Spec => []FirstMatchServes
BY Inductive, FirstServes, PTL

-----------------------------------------------------------------------------
(* Request lines. *)

\* Two sequences that agree everywhere are the same.
LEMMA SameSeq ==
    ASSUME NEW V, NEW s \in Seq(V), NEW u \in Seq(V), Len(s) = Len(u),
           \A i \in 1 .. Len(s) : s[i] = u[i]
    PROVE  s = u
<1> DEFINE n == Len(s)
<1>1. /\ DOMAIN s = 1 .. n /\ DOMAIN u = 1 .. n
      /\ s = [i \in DOMAIN s |-> s[i]] /\ u = [i \in DOMAIN u |-> u[i]]
    OBVIOUS
<1>2. \A i \in 1 .. n : s[i] = u[i]
    OBVIOUS
<1> HIDE DEF n
<1>3. QED
    BY <1>1, <1>2

\* A path as nginx has it: a sequence that begins with a slash.
Rooted(p) == p \in Seq(Letters) /\ Len(p) \in Nat /\ Len(p) > 0 /\ p[1] = "/"

\* What is not empty and begins with a slash is such a path.
LEMMA RootedIs ==
    ASSUME NEW p \in Seq(Letters), p # <<>>, p[1] = "/"
    PROVE  Rooted(p)
<1>1. Len(p) \in Nat /\ Len(p) # 0
    OBVIOUS
<1>2. QED
    BY <1>1 DEF Rooted

\* Where a request line is split: at its first "?", or not at all.
Halved(s, m, u) ==
    /\ m \in 1 .. Len(s) /\ s[m] = "?" /\ \A i \in 1 .. m - 1 : s[i] # "?"
    /\ u.path \in Seq(Letters) /\ Len(u.path) = m - 1
    /\ \A i \in 1 .. m - 1 : u.path[i] = s[i]
    /\ u.args \in Seq(Letters) /\ Len(u.args) = Len(s) - m
    /\ \A i \in 1 .. Len(s) - m : u.args[i] = s[m + i]
IsURI(u) == u = [path |-> u.path, args |-> u.args]

\* SplitArgs finds the first mark.
LEMMA SplitIs ==
    ASSUME NEW s \in Seq(Letters)
    PROVE  /\ IsURI(SplitArgs(s))
           /\ IF Unmarked(s) THEN SplitArgs(s) = [path |-> s, args |-> <<>>]
              ELSE \E m \in 1 .. Len(s) : Halved(s, m, SplitArgs(s))
<1> DEFINE n == Len(s)
           marks == {i \in DOMAIN s : s[i] = "?"}
           none == <<>>
<1>0. n \in Nat /\ DOMAIN s = 1 .. n
    OBVIOUS
<1>1. CASE Unmarked(s)
  <2>1. marks = {}
      BY <1>1 DEF Unmarked
  <2> HIDE DEF none
  <2>2. SplitArgs(s) = [path |-> s, args |-> none]
      BY <2>1, Zenon DEF SplitArgs, none
  <2>3. QED
      BY <1>1, <2>2 DEF IsURI, none
<1>2. CASE ~ Unmarked(s)
  <2>1. marks # {} /\ marks \subseteq Nat
      BY <1>0, <1>2 DEF Unmarked
  <2> DEFINE m == Min(marks)
  <2>2. m \in marks /\ \A i \in marks : m <= i
    <3>1. \E k \in marks : \A i \in marks : k <= i
        BY <2>1, NatMin
    <3> HIDE DEF marks
    <3>2. QED
        BY <3>1 DEF Min
  <2> DEFINE front == SubSeq(s, 1, m - 1)
             back == SubSeq(s, m + 1, n)
  <2>3. SplitArgs(s) = [path |-> front, args |-> back]
      BY <2>1, Zenon DEF SplitArgs
  <2> HIDE DEF m, front, back
  <2>4. m \in 1 .. n /\ s[m] = "?" /\ \A i \in 1 .. m - 1 : s[i] # "?"
    <3>1. m \in 1 .. n /\ s[m] = "?"
        BY <1>0, <2>2
    <3>2. ASSUME NEW i \in 1 .. m - 1, s[i] = "?" PROVE FALSE
      <4>1. i \in marks
          BY <1>0, <3>1, <3>2
      <4>2. m <= i
          BY <2>2, <4>1
      <4>3. QED
          BY <1>0, <3>1, <4>2
    <3>3. QED
        BY <3>1, <3>2
  <2> HIDE DEF marks
  <2> DEFINE u == SplitArgs(s)
  <2>5. u.path = front /\ u.args = back /\ IsURI(u)
      BY <2>3 DEF IsURI
  <2> HIDE DEF u
  <2>6. /\ u.path \in Seq(Letters) /\ Len(u.path) = m - 1
        /\ \A i \in 1 .. m - 1 : u.path[i] = s[i]
    <3> DEFINE k == m - 1
    <3>1. k \in Nat /\ k <= n
        BY <1>0, <2>4
    <3>2. u.path = SubSeq(s, 1, k)
        BY <2>5 DEF front
    <3> HIDE DEF k
    <3>3. /\ u.path \in Seq(Letters) /\ Len(u.path) = k
          /\ \A i \in 1 .. k : u.path[i] = s[i]
        BY <3>1, <3>2
    <3>4. QED
        BY <3>3 DEF k
  <2>7. /\ u.args \in Seq(Letters) /\ Len(u.args) = n - m
        /\ \A i \in 1 .. n - m : u.args[i] = s[m + i]
    <3> DEFINE a == m + 1
               k == n - m
    <3>1. n = Len(s) /\ n \in Nat /\ a \in 1 .. n + 1 /\ k = n - a + 1 /\ k \in Nat
        BY <1>0, <2>4 DEF n
    <3>2. u.args = SubSeq(s, a, n)
        BY <2>5 DEF back, n
    <3> HIDE DEF n, a, k
    <3>3. SubSeq(s, a, n) \in Seq(Letters) /\ Len(SubSeq(s, a, n)) = k
        BY <3>1
    <3>4. \A i \in 1 .. k : SubSeq(s, a, n)[i] = s[a + i - 1]
        BY <3>1
    <3>5. \A i \in 1 .. k : a + i - 1 = m + i
        BY <2>4, <3>1 DEF a
    <3>6. u.args \in Seq(Letters) /\ Len(u.args) = k /\ \A i \in 1 .. k : u.args[i] = s[m + i]
        BY <3>2, <3>3, <3>4, <3>5
    <3>7. QED
        BY <3>6 DEF k
  <2>8. Halved(s, m, u)
      BY <2>4, <2>6, <2>7 DEF Halved
  <2>9. QED
      BY <1>2, <2>4, <2>5, <2>8 DEF u
<1>3. QED
    BY <1>1, <1>2

\* A sequence made of two others, one after the other.
Joined(t, s, u) ==
    /\ Len(t) = Len(s) + Len(u)
    /\ \A i \in 1 .. Len(s) : t[i] = s[i]
    /\ \A i \in 1 .. Len(u) : t[Len(s) + i] = u[i]

\* Concatenation makes one.
LEMMA Concat ==
    ASSUME NEW V, NEW s \in Seq(V), NEW u \in Seq(V)
    PROVE  s \o u \in Seq(V) /\ Joined(s \o u, s, u)
BY DEF Joined

\* A path, a mark and arguments after it.
Marked(s, p, a) ==
    /\ s \in Seq(Letters) /\ Len(s) = Len(p) + 1 + Len(a)
    /\ \A i \in 1 .. Len(p) : s[i] = p[i]
    /\ s[Len(p) + 1] = "?"
    /\ \A i \in 1 .. Len(a) : s[Len(p) + 1 + i] = a[i]

\* WithArgs puts the mark between them, unless there are no arguments.
LEMMA WithArgsIs ==
    ASSUME NEW p \in Seq(Letters), NEW a \in Seq(Letters)
    PROVE  IF a = <<>> THEN WithArgs(p, a) = p ELSE Marked(WithArgs(p, a), p, a)
<1> DEFINE mark == <<"?">>
           front == p \o mark
           s == front \o a
           m == Len(p)
           n == Len(a)
<1>1. mark \in Seq(Letters) /\ Len(mark) = 1 /\ mark[1] = "?"
    BY DEF Letters
<1>2. WithArgs(p, a) = IF a = <<>> THEN p ELSE s
    BY DEF WithArgs
<1> HIDE DEF mark
<1>3. front \in Seq(Letters) /\ Joined(front, p, mark)
    BY <1>1, Concat
<1>4. m \in Nat /\ n \in Nat
    OBVIOUS
<1> HIDE DEF front
<1>5. s \in Seq(Letters) /\ Joined(s, front, a)
    BY <1>3, Concat
<1> HIDE DEF s
<1>6. /\ Len(front) = m + 1 /\ \A i \in 1 .. m : front[i] = p[i]
      /\ front[m + 1] = "?"
    BY <1>1, <1>3, <1>4 DEF Joined
<1>7. /\ Len(s) = m + 1 + n /\ \A i \in 1 .. m + 1 : s[i] = front[i]
      /\ \A i \in 1 .. n : s[m + 1 + i] = a[i]
    BY <1>4, <1>5, <1>6 DEF Joined
<1> HIDE DEF m, n
<1>8. (\A i \in 1 .. m : s[i] = p[i]) /\ s[m + 1] = "?"
    BY <1>4, <1>6, <1>7
<1>9. Marked(s, p, a)
    BY <1>5, <1>7, <1>8 DEF Marked, m, n
<1>10. QED
    BY <1>2, <1>9

\* What WithArgs puts together, SplitArgs takes apart again.
LEMMA SplitBack ==
    ASSUME NEW p \in Seq(Letters), NEW a \in Seq(Letters), Unmarked(p)
    PROVE  SplitArgs(WithArgs(p, a)) = [path |-> p, args |-> a]
<1> DEFINE s == WithArgs(p, a)
           u == SplitArgs(s)
           m == Len(p)
           n == Len(a)
<1>0. m \in Nat /\ n \in Nat /\ DOMAIN p = 1 .. m
    OBVIOUS
<1>1. CASE a = <<>>
  <2>1. s = p
      BY <1>1, WithArgsIs
  <2>2. SplitArgs(p) = [path |-> p, args |-> <<>>]
      BY SplitIs
  <2>3. QED
      BY <1>1, <2>1, <2>2, Zenon
<1>2. CASE a # <<>>
  <2>1. Marked(s, p, a)
      BY <1>2, WithArgsIs
  <2> HIDE DEF s
  <2>2. /\ s \in Seq(Letters) /\ Len(s) = m + 1 + n /\ s[m + 1] = "?"
        /\ \A i \in 1 .. m : s[i] = p[i]
        /\ \A i \in 1 .. n : s[m + 1 + i] = a[i]
      BY <2>1 DEF Marked
  <2>3. ~ Unmarked(s)
    <3>1. m + 1 \in DOMAIN s
        BY <1>0, <2>2
    <3>2. QED
        BY <2>2, <3>1 DEF Unmarked
  <2>4. IsURI(u) /\ \E k \in 1 .. Len(s) : Halved(s, k, u)
      BY <2>2, <2>3, SplitIs
  <2>5. PICK k \in 1 .. Len(s) : Halved(s, k, u)
      BY <2>4
  <2> HIDE DEF u
  <2>6. /\ s[k] = "?" /\ (\A i \in 1 .. k - 1 : s[i] # "?")
        /\ u.path \in Seq(Letters) /\ Len(u.path) = k - 1
        /\ (\A i \in 1 .. k - 1 : u.path[i] = s[i])
        /\ u.args \in Seq(Letters) /\ Len(u.args) = Len(s) - k
        /\ (\A i \in 1 .. Len(s) - k : u.args[i] = s[k + i])
      BY <2>5 DEF Halved
  <2> HIDE DEF m, n
  <2>7. k \in 1 .. m + 1 + n
      BY <2>2
  <2>8. k = m + 1
    <3>1. CASE k < m + 1
      <4>1. k \in 1 .. m
          BY <1>0, <2>7, <3>1
      <4>2. p[k] = "?" /\ k \in DOMAIN p
          BY <1>0, <2>2, <2>6, <4>1
      <4>3. QED
          BY <4>2 DEF Unmarked
    <3>2. CASE k > m + 1
      <4>1. m + 1 \in 1 .. k - 1
          BY <1>0, <2>7, <3>2
      <4>2. QED
          BY <2>2, <2>6, <4>1
    <3>3. QED
        BY <1>0, <2>7, <3>1, <3>2
  <2>9. u.path = p
    <3>1. Len(u.path) = m /\ \A i \in 1 .. m : u.path[i] = p[i]
        BY <1>0, <2>2, <2>6, <2>8
    <3>2. QED
        BY <2>6, <3>1, SameSeq DEF m
  <2>10. u.args = a
    <3>1. Len(s) - k = n
        BY <1>0, <2>2, <2>8
    <3>2. Len(u.args) = n /\ \A i \in 1 .. n : u.args[i] = a[i]
        BY <2>2, <2>6, <2>8, <3>1
    <3>3. QED
        BY <2>6, <3>2, SameSeq DEF n
  <2>11. QED
      BY <2>4, <2>9, <2>10 DEF IsURI, u, s
<1>3. QED
    BY <1>1, <1>2

\* A request line that does not end where its arguments would begin is put
\* together again as it was.
LEMMA Restored ==
    ASSUME NEW s \in Seq(Letters), SplitArgs(s).args = <<>> => Unmarked(s)
    PROVE  WithArgs(SplitArgs(s).path, SplitArgs(s).args) = s
<1> DEFINE u == SplitArgs(s)
           N == Len(s)
<1>1. CASE Unmarked(s)
  <2> DEFINE none == <<>>
  <2>0. none \in Seq(Letters)
      OBVIOUS
  <2>1. u = [path |-> s, args |-> none]
      BY <1>1, SplitIs
  <2>2. WithArgs(s, none) = s
      BY <2>0, WithArgsIs
  <2> HIDE DEF none, u
  <2>3. u.path = s /\ u.args = none
      BY <2>1
  <2>4. QED
      BY <2>2, <2>3 DEF u
<1>2. CASE ~ Unmarked(s)
  <2>1. PICK k \in 1 .. Len(s) : Halved(s, k, u)
      BY <1>2, SplitIs
  <2>2. u.args # <<>>
      BY <1>2
  <2> HIDE DEF u
  <2>3. /\ N \in Nat /\ k \in 1 .. N /\ s[k] = "?"
        /\ u.path \in Seq(Letters) /\ Len(u.path) = k - 1
        /\ (\A i \in 1 .. k - 1 : u.path[i] = s[i])
        /\ u.args \in Seq(Letters) /\ Len(u.args) = N - k
        /\ (\A i \in 1 .. N - k : u.args[i] = s[k + i])
      BY <2>1 DEF Halved
  <2> DEFINE t == WithArgs(u.path, u.args)
  <2>4. Marked(t, u.path, u.args)
      BY <2>2, <2>3, WithArgsIs
  <2> HIDE DEF t
  <2>5. /\ t \in Seq(Letters) /\ Len(t) = (k - 1) + 1 + (N - k)
        /\ (\A i \in 1 .. k - 1 : t[i] = u.path[i])
        /\ t[(k - 1) + 1] = "?"
        /\ (\A i \in 1 .. N - k : t[(k - 1) + 1 + i] = u.args[i])
      BY <2>3, <2>4 DEF Marked
  <2> HIDE DEF N
  <2>6. ASSUME NEW i \in 1 .. N PROVE t[i] = s[i]
    <3>1. CASE i \in 1 .. k - 1
        BY <2>3, <2>5, <3>1
    <3>2. CASE i = k
        BY <2>3, <2>5, <3>2
    <3>3. CASE i > k
      <4> DEFINE j == i - k
      <4>1. N \in Nat /\ k \in 1 .. N
          BY <2>3
      <4>2. j \in 1 .. N - k /\ k + j = i /\ (k - 1) + 1 + j = i
          BY <3>3, <4>1
      <4> HIDE DEF j
      <4>3. u.args[j] = s[k + j]
          BY <2>3, <4>2, Zenon
      <4>4. t[(k - 1) + 1 + j] = u.args[j]
          BY <2>5, <4>2, Zenon
      <4>5. QED
          BY <4>2, <4>3, <4>4, Zenon
    <3>4. QED
        BY <2>3, <3>1, <3>2, <3>3
  <2>7. Len(t) = N
      BY <2>3, <2>5
  <2>8. QED
    <3>1. t = s
        BY <2>5, <2>6, <2>7, SameSeq DEF N
    <3>2. QED
        BY <3>1 DEF t, u
<1>3. QED
    BY <1>1, <1>2

\* The parts of a request line.
Parts(u) ==
    /\ IsURI(u) /\ Rooted(u.path) /\ u.args \in Seq(Letters) /\ Unmarked(u.path)

\* The path of a request line begins with its slash.
LEMMA SplitRooted ==
    ASSUME NEW s, Rooted(s)
    PROVE  Parts(SplitArgs(s))
<1> DEFINE u == SplitArgs(s)
           n == Len(s)
<1>1. s \in Seq(Letters) /\ n \in Nat /\ n > 0 /\ s[1] = "/" /\ DOMAIN s = 1 .. n
    BY DEF Rooted
<1>2. IsURI(u)
    BY <1>1, SplitIs
<1>3. CASE Unmarked(s)
  <2> DEFINE none == <<>>
  <2>1. none \in Seq(Letters)
      OBVIOUS
  <2>2. u = [path |-> s, args |-> none]
      BY <1>1, <1>3, SplitIs
  <2> HIDE DEF none, u
  <2>3. u.path = s /\ u.args = none
      BY <2>2
  <2>4. QED
      BY <1>2, <1>3, <2>1, <2>3 DEF Parts, u
<1>4. CASE ~ Unmarked(s)
  <2>1. PICK m \in 1 .. Len(s) : Halved(s, m, u)
      BY <1>1, <1>4, SplitIs
  <2> HIDE DEF u
  <2>2. /\ m \in 1 .. n /\ s[m] = "?" /\ (\A i \in 1 .. m - 1 : s[i] # "?")
        /\ u.path \in Seq(Letters) /\ Len(u.path) = m - 1
        /\ (\A i \in 1 .. m - 1 : u.path[i] = s[i])
        /\ u.args \in Seq(Letters)
      BY <2>1 DEF Halved
  <2> HIDE DEF n
  <2>3. m # 1
      BY <1>1, <2>2
  <2>4. 1 \in 1 .. m - 1 /\ m - 1 \in Nat /\ m - 1 > 0
      BY <1>1, <2>2, <2>3
  <2>5. Rooted(u.path)
      BY <1>1, <2>2, <2>4 DEF Rooted
  <2>6. DOMAIN u.path = 1 .. m - 1 /\ \A i \in 1 .. m - 1 : i \in DOMAIN s
      BY <1>1, <2>2
  <2>7. Unmarked(u.path)
      BY <2>2, <2>6 DEF Unmarked
  <2>8. QED
      BY <1>2, <2>2, <2>5, <2>7 DEF Parts, u
<1>5. QED
    BY <1>3, <1>4

\* Decoding leaves the slash in front; a literal path is neither decoded nor
\* encoded, and has no mark.
LEMMA Coded ==
    ASSUME NEW p, Rooted(p)
    PROVE  /\ Rooted(Decode(p))
           /\ Literal(p) => /\ Decode(p) = p /\ Encode(p) = p
                            /\ Normalized(p) = p /\ Unmarked(p)
<1> DEFINE n == Len(p)
           q == Decode(p)
<1>1. p \in Seq(Letters) /\ n \in Nat /\ n > 0 /\ p[1] = "/" /\ DOMAIN p = 1 .. n
      /\ p = [i \in DOMAIN p |-> p[i]]
    BY DEF Rooted
<1>2. \A i \in 1 .. n : p[i] \in Letters
    BY <1>1
<1> HIDE DEF n
<1>3. q = [i \in 1 .. n |-> IF p[i] \in DOMAIN Escapes THEN Escapes[p[i]] ELSE p[i]]
    BY <1>1 DEF Decode
<1>4. ASSUME Literal(p)
      PROVE  Decode(p) = p /\ Encode(p) = p /\ Normalized(p) = p /\ Unmarked(p)
  <2>1. /\ \A i \in DOMAIN p : p[i] \notin DOMAIN Escapes /\ p[i] \notin Reserved
        /\ ~ Complex(p)
      BY <1>4 DEF Literal, Complex
  <2>2. Decode(p) = p /\ Encode(p) = p
      BY <1>1, <2>1 DEF Decode, Encode
  <2>3. Normalized(p) = p
      BY <2>1 DEF Normalized
  <2>4. Unmarked(p)
      BY <2>1, EscapingAssumption DEF Unmarked
  <2>5. QED
      BY <2>2, <2>3, <2>4
<1> HIDE DEF q
<1>5. \A i \in 1 .. n : q[i] \in Letters
  <2>1. \A e \in DOMAIN Escapes : Escapes[e] \in Letters
      BY EscapesAssumption DEF Letters
  <2>2. QED
      BY <1>2, <1>3, <2>1
<1>6. q \in Seq(Letters) /\ Len(q) = n
    BY <1>1, <1>3, <1>5
<1>7. q[1] = "/"
  <2>1. p[1] \notin DOMAIN Escapes /\ 1 \in 1 .. n
      BY <1>1, EscapesAssumption
  <2>2. QED
      BY <1>1, <1>3, <2>1
<1>8. QED
    BY <1>1, <1>4, <1>6, <1>7 DEF Rooted, q

\* What is resolved so far: a path, or it has led above the root.
Led(p) == p = Above \/ Rooted(p)

\* A path up to its last slash is one.
LEMMA FolderRooted ==
    ASSUME NEW s, Rooted(s) PROVE Rooted(Folder(s))
<1> DEFINE n == Len(s)
           Final(i) == s[i] = "/" /\ \A j \in DOMAIN s : s[j] = "/" => j <= i
           rest == {n - i : i \in {j \in DOMAIN s : s[j] = "/"}}
<1>1. s \in Seq(Letters) /\ n \in Nat /\ n > 0 /\ s[1] = "/" /\ DOMAIN s = 1 .. n
    BY DEF Rooted
<1> HIDE DEF n
<1>2. rest \subseteq Nat /\ rest # {}
  <2>1. \A i \in 1 .. n : n - i \in Nat
      BY <1>1
  <2>2. 1 \in 1 .. n
      BY <1>1
  <2>3. QED
      BY <1>1, <2>1, <2>2
<1>3. PICK r \in rest : \A q \in rest : r <= q
    BY <1>2, NatMin
<1>4. PICK k \in {j \in DOMAIN s : s[j] = "/"} : r = n - k
    BY <1>3
<1>5. Final(k) /\ k \in DOMAIN s
  <2> SUFFICES ASSUME NEW j \in DOMAIN s, s[j] = "/" PROVE j <= k
      BY <1>4
  <2>1. n - k <= n - j
      BY <1>3, <1>4
  <2>2. QED
      BY <1>1, <1>4, <2>1
<1> DEFINE m == CHOOSE i \in DOMAIN s : Final(i)
<1>6. m \in DOMAIN s
  <2> HIDE DEF Final
  <2>1. QED
      BY <1>5
<1>7. Folder(s) = SubSeq(s, 1, m)
    BY DEF Folder
<1> HIDE DEF m
<1>8. /\ SubSeq(s, 1, m) \in Seq(Letters) /\ Len(SubSeq(s, 1, m)) = m
      /\ SubSeq(s, 1, m)[1] = s[1] /\ m \in Nat /\ m > 0
    BY <1>1, <1>6 DEF n
<1>9. QED
    BY <1>1, <1>7, <1>8 DEF Rooted

\* So is a path whose last segment is complete, unless that leads above the root.
LEMMA ClosedLed ==
    ASSUME NEW s, Rooted(s) PROVE Led(Closed(s))
<1> DEFINE dir == Folder(s)
           parent == Folder(Front(dir))
           root == <<"/">>
<1>1. Rooted(dir)
    BY FolderRooted
<1>2. Closed(s) \in {dir, Above, parent, s}
      /\ (Closed(s) = parent => Closed(s) \in {dir, Above, s} \/ dir # root)
    BY DEF Closed
<1>3. CASE dir = root
    BY <1>1, <1>2, <1>3 DEF Led
<1>4. CASE dir # root
  <2> HIDE DEF dir
  <2> DEFINE n == Len(dir)
             front == Front(dir)
  <2>1. dir \in Seq(Letters) /\ n \in Nat /\ n > 0 /\ dir[1] = "/"
      BY <1>1 DEF Rooted
  <2>2. n # 1
    <3>1. root \in Seq(Letters) /\ Len(root) = 1 /\ root[1] = "/"
        BY DEF Letters
    <3> HIDE DEF root
    <3>2. ASSUME n = 1 PROVE FALSE
      <4>1. \A i \in 1 .. Len(dir) : dir[i] = root[i]
          BY <2>1, <3>1, <3>2
      <4>2. dir = root
          BY <2>1, <3>1, <3>2, <4>1, SameSeq
      <4>3. QED
          BY <1>4, <4>2
    <3>3. QED
        BY <3>2
  <2>3. /\ front \in Seq(Letters) /\ Len(front) = n - 1
        /\ \A i \in 1 .. n - 1 : front[i] = dir[i]
      BY <2>1, FrontIs
  <2> HIDE DEF n, front
  <2>4. n - 1 \in Nat /\ n - 1 > 0 /\ 1 \in 1 .. n - 1
      BY <2>1, <2>2
  <2>5. Rooted(front)
      BY <2>1, <2>3, <2>4 DEF Rooted
  <2>6. Rooted(Folder(front))
      BY <2>5, FolderRooted
  <2>7. QED
      BY <1>1, <1>2, <2>6 DEF Led, front
<1>5. QED
    BY <1>3, <1>4

\* A path with one character more is a path.
LEMMA AppendRooted ==
    ASSUME NEW s, Rooted(s), NEW c \in Letters PROVE Rooted(Append(s, c))
<1> DEFINE n == Len(s)
           t == Append(s, c)
<1>1. s \in Seq(Letters) /\ n \in Nat /\ n > 0 /\ s[1] = "/"
    BY DEF Rooted
<1>2. t \in Seq(Letters) /\ Len(t) = n + 1 /\ \A i \in 1 .. n : t[i] = s[i]
    BY <1>1
<1> HIDE DEF n, t
<1>3. n + 1 \in Nat /\ n + 1 > 0 /\ 1 \in 1 .. n
    BY <1>1
<1>4. QED
    BY <1>1, <1>2, <1>3 DEF Rooted, t

\* Every further character keeps it that way.
LEMMA ExtendedLed ==
    ASSUME NEW s, Led(s), NEW c \in Letters PROVE Led(Extended(s, c))
<1>1. CASE s = Above
    BY <1>1 DEF Extended, Led
<1>2. CASE s # Above /\ c # "/"
  <2>1. Extended(s, c) = Append(s, c) /\ Rooted(s)
      BY <1>2 DEF Extended, Led
  <2>2. QED
      BY <2>1, AppendRooted DEF Led
<1>3. CASE s # Above /\ c = "/"
  <2> DEFINE t == Closed(s)
  <2>1. Led(t)
      BY <1>3, ClosedLed DEF Led
  <2>2. Extended(s, c) = IF t = Above THEN Above ELSE IF Last(t) = "/" THEN t ELSE Append(t, c)
      BY <1>3 DEF Extended
  <2> HIDE DEF t
  <2>3. Extended(s, c) \in {Above, t} \/ (t # Above /\ Extended(s, c) = Append(t, c))
      BY <2>2
  <2>4. QED
      BY <2>1, <2>3, AppendRooted DEF Led
<1>4. QED
    BY <1>1, <1>2, <1>3

\* What nginx resolves is a path, unless it led above the root.
LEMMA ResolvedLed ==
    ASSUME NEW s, Rooted(s) PROVE Led(Resolved(s))
<1> DEFINE N == Len(s)
           root == <<"/">>
           T == {t \in Seq(Letters) : Led(t)}
           round == [n \in 1 .. N |-> [t \in T |-> Extended(t, s[n])]]
           Loop(f) == f = [n \in 0 .. N |-> IF n = 0 THEN root ELSE Extended(f[n - 1], s[n])]
           path == CHOOSE f : Loop(f)
<1>1. N \in Nat /\ \A n \in 1 .. N : s[n] \in Letters
    BY DEF Rooted
<1>2. \A t : Led(t) => t \in T
  <2>1. <<>> \in Seq(Letters)
      OBVIOUS
  <2>2. QED
      BY <2>1 DEF Led, Above, Rooted
<1>3. Rooted(root)
    BY DEF Rooted, Letters
<1>4. root \in T
    BY <1>2, <1>3 DEF Led
<1>5. Resolved(s) = IF path[N] = Above THEN Above ELSE Closed(path[N])
    BY DEF Resolved
<1> HIDE DEF N, root
<1>6. ASSUME NEW t \in T, NEW n \in 1 .. N PROVE Extended(t, s[n]) \in T
    BY <1>1, <1>2, ExtendedLed
<1>7. round \in Rounds(N, T)
  <2> HIDE DEF T
  <2>1. QED
      BY <1>6 DEF Rounds
<1> HIDE DEF T
<1>8. PICK f : /\ f \in [0 .. N -> T] /\ f[0] = root
               /\ \A n \in 1 .. N : f[n] = round[n][f[n - 1]]
  <2> HIDE DEF round
  <2>1. \E f : Runs(f, N, T, root, round)
      BY <1>1, <1>4, <1>7, BoundedRecursion
  <2>2. QED
      BY <2>1 DEF Runs
<1>9. \A n \in 1 .. N : f[n] = Extended(f[n - 1], s[n])
  <2> TAKE n \in 1 .. N
  <2>1. n - 1 \in 0 .. N
      BY <1>1
  <2>2. f[n - 1] \in T
      BY <1>8, <2>1
  <2>3. QED
      BY <1>8, <2>2
<1>10. Loop(f)
    BY <1>8, <1>9
<1>11. Loop(path)
    BY <1>10
<1> HIDE DEF path
<1>12. path[0] = root /\ \A n \in 1 .. N : path[n] = Extended(path[n - 1], s[n])
  <2>1. \A n \in 0 .. N : path[n] = IF n = 0 THEN root ELSE Extended(path[n - 1], s[n])
      BY <1>11, Zenon
  <2>2. 0 \in 0 .. N /\ \A n \in 1 .. N : n \in 0 .. N /\ n # 0
      BY <1>1
  <2>3. QED
      BY <2>1, <2>2
<1> DEFINE S == {n \in 0 .. N : path[n] \in T}
<1>13. 0 \in S
    BY <1>1, <1>4, <1>12
<1>14. ASSUME NEW n \in 0 .. N, n < N /\ n \in S PROVE n + 1 \in S
  <2>1. n + 1 \in 1 .. N /\ n + 1 \in 0 .. N /\ (n + 1) - 1 = n
      BY <1>1, <1>14
  <2>2. path[n + 1] = Extended(path[n], s[n + 1])
      BY <1>12, <2>1
  <2>3. QED
      BY <1>6, <1>14, <2>1, <2>2
<1>15. 0 .. N \subseteq S
  <2> HIDE DEF S
  <2>1. \A n \in 0 .. N : n < N /\ n \in S => n + 1 \in S
      BY <1>14
  <2>2. QED
      BY <1>1, <1>13, <2>1, BoundedInduction
<1>16. path[N] \in T
  <2>1. N \in 0 .. N
      BY <1>1
  <2>2. QED
      BY <1>15, <2>1
<1>17. Led(path[N])
    BY <1>16 DEF T
<1>18. QED
    BY <1>5, <1>17, ClosedLed DEF Led

\* So nginx has a path, or answers with 400.
LEMMA NormalizedLed ==
    ASSUME NEW p, Rooted(p) PROVE Led(Normalized(p))
<1>1. Rooted(Decode(p))
    BY Coded
<1>2. Led(Resolved(Decode(p)))
    BY <1>1, ResolvedLed
<1>3. QED
    BY <1>2 DEF Normalized, Led

\* A URI that a request may have.
GoodURI(u) == IsURI(u) /\ Rooted(u.path) /\ u.args \in Seq(Letters)

\* The request that nginx makes of a request line, and that the target of an
\* internal redirect leads to.
LEMMA Parsed ==
    ASSUME NEW s, Rooted(s)
    PROVE  /\ ParseRequest(s).path = Above \/ GoodURI(ParseRequest(s))
           /\ GoodURI(ParseTarget(s))
           /\ Literal(SplitArgs(s).path) => /\ ParseRequest(s) = SplitArgs(s)
                                            /\ ParseTarget(s) = SplitArgs(s)
<1> DEFINE u == SplitArgs(s)
           v == ParseRequest(s)
           w == ParseTarget(s)
<1>1. IsURI(u) /\ Rooted(u.path) /\ u.args \in Seq(Letters)
    BY SplitRooted DEF Parts
<1>2. v = [u EXCEPT !.path = Normalized(u.path)] /\ w = [u EXCEPT !.path = Decode(u.path)]
    BY DEF ParseRequest, ParseTarget
<1>3. /\ Led(Normalized(u.path)) /\ Rooted(Decode(u.path))
      /\ Literal(u.path) => Normalized(u.path) = u.path /\ Decode(u.path) = u.path
    BY <1>1, Coded, NormalizedLed
<1> HIDE DEF u, v, w
<1>4. /\ v = [path |-> Normalized(u.path), args |-> u.args]
      /\ w = [path |-> Decode(u.path), args |-> u.args]
    BY <1>1, <1>2 DEF IsURI
<1>5. /\ v.path = Normalized(u.path) /\ v.args = u.args /\ IsURI(v)
      /\ w.path = Decode(u.path) /\ w.args = u.args /\ IsURI(w)
    BY <1>4 DEF IsURI
<1>6. Literal(u.path) => v = u /\ w = u
    BY <1>1, <1>3, <1>4 DEF IsURI
<1>7. QED
    BY <1>1, <1>3, <1>5, <1>6 DEF GoodURI, Led, u, v, w

\* A path and its arguments are a request line again.
LEMMA WithArgsRooted ==
    ASSUME NEW p, Rooted(p), NEW a \in Seq(Letters)
    PROVE  Rooted(WithArgs(p, a))
<1> DEFINE s == WithArgs(p, a)
           m == Len(p)
           n == Len(a)
<1>1. p \in Seq(Letters) /\ m \in Nat /\ m > 0 /\ p[1] = "/" /\ n \in Nat
    BY DEF Rooted
<1>2. CASE a = <<>>
    BY <1>1, <1>2, WithArgsIs
<1>3. CASE a # <<>>
  <2>1. Marked(s, p, a)
      BY <1>1, <1>3, WithArgsIs
  <2> HIDE DEF s
  <2>2. s \in Seq(Letters) /\ Len(s) = m + 1 + n /\ \A i \in 1 .. m : s[i] = p[i]
      BY <2>1 DEF Marked
  <2> HIDE DEF m, n
  <2>3. m + 1 + n \in Nat /\ m + 1 + n > 0 /\ 1 \in 1 .. m
      BY <1>1
  <2>4. Rooted(s)
      BY <1>1, <2>2, <2>3 DEF Rooted
  <2>5. QED
      BY <2>4 DEF s
<1>4. QED
    BY <1>2, <1>3

\* A literal URI comes through a hop as it was.
LEMMA HopKeeps ==
    ASSUME NEW u, GoodURI(u), Literal(u.path)
    PROVE  /\ SplitArgs(WithArgs(u.path, u.args)) = u
           /\ ParseRequest(WithArgs(u.path, u.args)) = u
           /\ ParseTarget(WithArgs(u.path, u.args)) = u
           /\ Encode(u.path) = u.path
<1> DEFINE s == WithArgs(u.path, u.args)
<1>1. /\ IsURI(u) /\ Rooted(u.path) /\ u.args \in Seq(Letters)
      /\ Unmarked(u.path) /\ Encode(u.path) = u.path /\ u.path \in Seq(Letters)
    BY Coded DEF GoodURI, Rooted
<1>2. SplitArgs(s) = [path |-> u.path, args |-> u.args]
    BY <1>1, SplitBack
<1>3. SplitArgs(s) = u
    BY <1>1, <1>2, Zenon DEF IsURI
<1>4. Rooted(s)
    BY <1>1, WithArgsRooted
<1>5. Literal(SplitArgs(s).path)
    BY <1>3
<1>6. ParseRequest(s) = u /\ ParseTarget(s) = u
    BY <1>3, <1>4, <1>5, Parsed
<1>7. QED
    BY <1>1, <1>3, <1>6
-----------------------------------------------------------------------------
(* The site that requests go to. *)

\* What nginx runs with was rendered from a distribution, and its locations
\* differ.
SiteRendered ==
    /\ site.dist.behaviors \in Seq(BehaviorType) /\ site.dist.default \in BehaviorType
    /\ Renderable(site.dist)
    /\ OuterRendered(site.dist, <<>>, site.conf) /\ NamedRendered(site.dist, <<>>, site.conf)
    /\ InnersServe(site.dist) /\ InnersThere(site.dist, site.conf)
    /\ NoOtherInner(site.dist, site.conf)
    /\ LocationsOf(site.dist, site.conf) /\ PrefixesOf(site.dist.behaviors, site.conf)
PlacesDiffer ==
    \A i, j \in DOMAIN site.conf.outer :
        site.conf.outer[i].location = site.conf.outer[j].location => i = j
PoliciesDiffer ==
    \A i, j \in DOMAIN All :
        OwnSan(i) = OwnSan(j) => All[i].policy = All[j].policy

\* Every site is rendered.
LEMMA SiteIs ==
    ASSUME site \in Sites PROVE SiteRendered /\ PlacesDiffer /\ PoliciesDiffer
<1>1. PICK d \in EdgeDistributions, ps \in PolicySets, f \in Functions :
          site = [dist |-> d, conf |-> renderConf(d, <<>>, EdgeID).val,
                  policies |-> POLICIES(IF ps = None THEN None ELSE buildPoliciesJSON(ps)),
                  function |-> f]
    BY DEF Sites
<1> DEFINE rendered == renderConf(d, <<>>, EdgeID)
           conf == rendered.val
<1>2. site.dist = d /\ site.conf = conf
    BY <1>1
<1>3. /\ DistributionShape(d) /\ rendered.ok
      /\ \A i, j \in DOMAIN conf.outer : conf.outer[i].location = conf.outer[j].location => i = j
      /\ \A i, j \in DOMAIN AllBehaviors(d) :
            LET b == AllBehaviors(d)[i]
                c == AllBehaviors(d)[j]
            IN sanitizeID(b.policy) = sanitizeID(c.policy) => b.policy = c.policy
    BY DistributionsAssumption, Zenon
<1>4. rendered = Ok(conf)
    BY <1>3 DEF renderConf, Ok, Fail
<1>5. d.behaviors \in Seq(BehaviorType)
    BY <1>3 DEF DistributionShape
<1> HIDE DEF rendered, conf
<1>6. renderConf(d, <<>>, EdgeID) = Ok(conf)
    BY <1>4 DEF rendered
<1>7. Renderable(d) /\ OuterRendered(d, <<>>, conf) /\ NamedRendered(d, <<>>, conf)
    BY <1>6, Rendered, Zenon
<1>8. InnersServe(d) /\ InnersThere(d, conf) /\ NoOtherInner(d, conf)
    BY <1>3, <1>5, <1>6, InnerLocations, Zenon
<1>9. LocationsOf(d, conf)
    BY <1>7, OuterLocations, Zenon
<1>10. PrefixesOf(d.behaviors, conf)
    BY <1>3, <1>5, <1>6, OuterPrefixes, Zenon
<1>11. d.default \in BehaviorType
    BY <1>3, <1>7 DEF DistributionShape, Renderable
<1>12. SiteRendered
    BY <1>2, <1>5, <1>7, <1>8, <1>9, <1>10, <1>11, Zenon DEF SiteRendered
<1>13. PlacesDiffer
    BY <1>2, <1>3 DEF PlacesDiffer
<1>14. PoliciesDiffer
    BY <1>2, <1>3, Zenon DEF PoliciesDiffer, All, OwnSan
<1>15. QED
    BY <1>12, <1>13, <1>14

\* A path begins with the location of some behaviour, and nginx takes one.
LEMMA Routes ==
    ASSUME SiteRendered, NEW path, Rooted(path)
    PROVE  \E i \in DOMAIN All : Location(site.conf, path) = site.conf.outer[i]
<1> DEFINE conf == site.conf
           n == Len(site.dist.behaviors)
           Loc(i) == conf.outer[i].location
           hits == {l \in Range(conf.outer) : IsPrefix(l.location, path)}
           Longest(l) == \A k \in hits : Len(k.location) <= Len(l.location)
           size == Len(path)
<1>1. PrefixesOf(site.dist.behaviors, conf) /\ OuterRendered(site.dist, <<>>, conf)
      /\ n \in Nat
    BY DEF SiteRendered
<1>2. DOMAIN conf.outer = DOMAIN All
    BY <1>1 DEF OuterRendered, All
<1>3. \A i \in DOMAIN conf.outer : Len(Loc(i)) \in Nat
  <2>1. Len(Root) = 1
      BY DEF Root
  <2> SUFFICES ASSUME NEW i \in 1 .. n + 1 PROVE Len(Loc(i)) \in Nat
      BY <1>1 DEF PrefixesOf
  <2>2. CASE i = n + 1
    <3>1. conf.outer[n + 1].location = Root
        BY <1>1 DEF PrefixesOf
    <3>2. QED
        BY <2>1, <2>2, <3>1
  <2>3. CASE i \in 1 .. n
    <3> DEFINE p == site.dist.behaviors[i].pattern
    <3>1. p \in Seq(Chars) /\ Len(p) >= 2 /\ Len(p) \in Nat /\ Loc(i) = Front(p)
        BY <1>1, <2>3 DEF PrefixesOf
    <3>2. Front(p) \in Seq(Chars)
      <4> HIDE DEF p
      <4>1. Len(p) > 0
        <5> DEFINE m == Len(p)
        <5>1. m >= 2 /\ m \in Nat
            BY <3>1
        <5> HIDE DEF m
        <5>2. m > 0
            BY <5>1
        <5>3. QED
            BY <5>2 DEF m
      <4>2. QED
          BY <3>1, <4>1, FrontIs
    <3>3. QED
        BY <3>1, <3>2
  <2> HIDE DEF n
  <2>4. i = n + 1 \/ i \in 1 .. n
      BY <1>1
  <2>5. QED
      BY <2>2, <2>3, <2>4
<1>4. conf.outer[n + 1] \in hits
  <2> DEFINE V == Letters \cup Chars
  <2>1. path \in Seq(V) /\ Root \in Seq(V) /\ Len(Root) = 1 /\ Root[1] = "/"
      BY DEF Rooted, Root, Chars, Letters
  <2>2. size \in Nat /\ size > 0 /\ path[1] = "/"
      BY DEF Rooted
  <2> HIDE DEF V, size
  <2>3. 1 <= size
      BY <2>2
  <2>4. IsPrefix(Root, path)
    <3>1. Len(Root) <= Len(path) /\ \A i \in 1 .. Len(Root) : Root[i] = path[i]
        BY <2>1, <2>2, <2>3 DEF size
    <3>2. QED
        BY <2>1, <3>1, PrefixIs
  <2>5. n + 1 \in DOMAIN conf.outer /\ Loc(n + 1) = Root
      BY <1>1 DEF PrefixesOf
  <2>6. QED
      BY <2>4, <2>5 DEF Range
<1>5. \E l \in hits : Longest(l)
  <2> DEFINE T == {size - Len(l.location) : l \in hits}
  <2>1. size \in Nat
      BY DEF Rooted
  <2>2. \A l \in hits : Len(l.location) \in Nat /\ Len(l.location) <= size
    <3>1. \A l \in hits : \E i \in DOMAIN conf.outer : l = conf.outer[i]
        BY DEF Range
    <3>2. \A l \in hits : Len(l.location) <= size
        BY DEF IsPrefix
    <3>3. QED
        BY <1>3, <3>1, <3>2
  <2> HIDE DEF size, hits
  <2>3. T \subseteq Nat /\ T # {}
    <3>1. ASSUME NEW l \in hits PROVE size - Len(l.location) \in Nat
      <4> DEFINE a == Len(l.location)
      <4>1. a \in Nat /\ a <= size
          BY <2>2
      <4> HIDE DEF a
      <4>2. size - a \in Nat
          BY <2>1, <4>1
      <4>3. QED
          BY <4>2 DEF a
    <3>2. QED
        BY <1>4, <3>1
  <2>4. PICK m \in T : \A t \in T : m <= t
      BY <2>3, NatMin
  <2>5. PICK l \in hits : m = size - Len(l.location)
      BY <2>4
  <2>6. ASSUME NEW k \in hits PROVE Len(k.location) <= Len(l.location)
    <3>1. size - Len(l.location) <= size - Len(k.location)
        BY <2>4, <2>5
    <3>2. Len(k.location) \in Nat /\ Len(l.location) \in Nat
        BY <2>2
    <3> DEFINE a == Len(k.location)
               b == Len(l.location)
    <3> HIDE DEF a, b
    <3>3. size - b <= size - a /\ a \in Nat /\ b \in Nat
        BY <3>1, <3>2 DEF a, b
    <3>4. a <= b
        BY <2>1, <3>3
    <3>5. QED
        BY <3>4 DEF a, b
  <2>7. QED
      BY <2>6
<1>6. Location(conf, path) = CHOOSE l \in hits : Longest(l)
    BY Zenon DEF Location
<1>7. Location(conf, path) \in hits
  <2> HIDE DEF hits, Longest
  <2>1. QED
      BY <1>5, <1>6
<1>8. QED
    BY <1>2, <1>7 DEF Range

\* The view that the locations of a behaviour were written from.
OwnView(i) == View(site.dist, <<>>, i)

\* It has the behaviour's policy and hooks.
LEMMA OwnViewIs ==
    ASSUME NEW i
    PROVE  /\ OwnView(i).policy = All[i].policy /\ OwnView(i).san = OwnSan(i)
           /\ OwnView(i).viewerRequest = hasViewerRequestAssociation(All[i])
           /\ OwnView(i).originRequest = hasOriginRequestAssociation(All[i])
           /\ OwnView(i).originResponse = hasOriginResponseAssociation(All[i])
           /\ OwnBody(i) = writeOuterLocationBody(OwnView(i), hasViewerRequestAssociation(All[i]))
BY DEF OwnView, View, behaviorView, All, OwnSan, OwnBody

\* The outer location of a behaviour calls its viewer-request hook or goes to
\* the cache.
OuterOf(i) ==
    LET l == site.conf.outer[i]
    IN IF hasViewerRequestAssociation(All[i])
       THEN l.content # "cache" /\ l.forward = forwardLocationName(OwnSan(i))
       ELSE l.content = "cache" /\ l.body = OwnBody(i)

\* Every outer location is written that way.
LEMMA OuterIs ==
    ASSUME SiteRendered, NEW i \in DOMAIN All
    PROVE  OuterOf(i)
<1> DEFINE v == OwnView(i)
           l == site.conf.outer[i]
<1>1. l = IF v.viewerRequest THEN writeLambdaEdgeOuter(v) ELSE writeOuterLocation(v)
    BY Zenon DEF SiteRendered, OuterRendered, All, OwnView
<1>2. /\ v.san = OwnSan(i) /\ v.viewerRequest = hasViewerRequestAssociation(All[i])
      /\ OwnBody(i) = writeOuterLocationBody(v, hasViewerRequestAssociation(All[i]))
    BY OwnViewIs
<1> HIDE DEF v, l
<1>3. CASE hasViewerRequestAssociation(All[i])
  <2>1. l = writeLambdaEdgeOuter(v)
      BY <1>1, <1>2, <1>3
  <2>2. l.content # "cache" /\ l.forward = forwardLocationName(OwnSan(i))
      BY <1>2, <2>1 DEF writeLambdaEdgeOuter
  <2>3. QED
      BY <1>3, <2>2 DEF OuterOf, l
<1>4. CASE ~ hasViewerRequestAssociation(All[i])
  <2> DEFINE has == hasViewerRequestAssociation(All[i])
  <2>0. has = FALSE
      BY <1>4 DEF hasViewerRequestAssociation
  <2> HIDE DEF has
  <2>1. l = writeOuterLocation(v)
      BY <1>1, <1>2, <1>4
  <2>2. OwnBody(i) = writeOuterLocationBody(v, FALSE)
    <3>1. OwnBody(i) = writeOuterLocationBody(v, has)
        BY <1>2 DEF has
    <3>2. QED
        BY <2>0, <3>1
  <2>3. l.content = "cache" /\ l.body = OwnBody(i)
      BY <2>1, <2>2 DEF writeOuterLocation
  <2>4. QED
      BY <1>4, <2>3 DEF OuterOf, l
<1>5. QED
    BY <1>3, <1>4

\* A behaviour that another one serves has its policy and its hook.
Serving(i, j) ==
    /\ j \in DOMAIN All /\ OwnSan(j) = OwnSan(i) /\ All[j].policy = All[i].policy
    /\ hasViewerRequestAssociation(All[j]) <=> hasViewerRequestAssociation(All[i])

\* A behaviour is served by itself or by the first one with its forward location.
LEMMA ServerIs ==
    ASSUME SiteRendered, PoliciesDiffer, NEW i \in DOMAIN All
    PROVE  Serving(i, Server(i)) /\ (~ Shadowed(All, i) => Server(i) = i)
<1>1. CASE ~ hasViewerRequestAssociation(All[i])
  <2>1. Server(i) = i
      BY <1>1, Zenon DEF Server
  <2>2. Serving(i, i)
      BY DEF Serving
  <2>3. QED
      BY <2>1, <2>2
<1>2. CASE hasViewerRequestAssociation(All[i])
  <2> DEFINE T == Forwarding(i)
  <2>1. DOMAIN All \subseteq Nat
    <3> DEFINE n == Len(site.dist.behaviors)
    <3>1. n \in Nat /\ DOMAIN All = 1 .. n + 1
        BY Behaviours, Zenon DEF SiteRendered, All
    <3> HIDE DEF n
    <3>2. QED
        BY <3>1
  <2>2. T = {j \in DOMAIN All : hasViewerRequestAssociation(All[j]) /\ OwnSan(j) = OwnSan(i)}
      BY DEF Forwarding
  <2>3. T \subseteq Nat /\ i \in T
      BY <1>2, <2>1, <2>2
  <2>4. Server(i) = Min(T)
      BY <1>2 DEF Server
  <2>5. Min(T) \in T /\ \A j \in T : Min(T) <= j
    <3> HIDE DEF T
    <3>1. \E m \in T : \A j \in T : m <= j
        BY <2>3, NatMin
    <3>2. QED
        BY <3>1 DEF Min
  <2>6. Serving(i, Server(i))
    <3> DEFINE m == Server(i)
    <3>1. m \in DOMAIN All /\ hasViewerRequestAssociation(All[m]) /\ OwnSan(m) = OwnSan(i)
        BY <2>2, <2>4, <2>5
    <3> HIDE DEF m
    <3>2. All[m].policy = All[i].policy
        BY <3>1, Zenon DEF PoliciesDiffer
    <3>3. QED
        BY <1>2, <3>1, <3>2 DEF Serving, m
  <2>7. ASSUME ~ Shadowed(All, i) PROVE Server(i) = i
    <3> DEFINE m == Min(T)
    <3>1. m \in T /\ m <= i /\ m \in Nat /\ i \in Nat
        BY <2>3, <2>5
    <3>2. ~ (m < i)
      <4> HIDE DEF m, T
      <4>1. m \in DOMAIN All /\ hasViewerRequestAssociation(All[m]) /\ OwnSan(m) = OwnSan(i)
          BY <2>2, <3>1
      <4>2. QED
          BY <1>2, <2>7, <4>1 DEF Shadowed, OwnSan
    <3> HIDE DEF m
    <3>3. m = i
        BY <3>1, <3>2
    <3>4. QED
        BY <2>4, <3>3 DEF m
  <2>8. QED
      BY <2>6, <2>7
<1>3. QED
    BY <1>1, <1>2

\* The named location that a behaviour goes on to is that of the behaviour that
\* serves it.
LEMMA ForwardIs ==
    ASSUME SiteRendered, PoliciesDiffer, NEW i \in DOMAIN All,
           hasViewerRequestAssociation(All[i])
    PROVE  NamedLocation(site.conf, forwardLocationName(OwnSan(i))).body = OwnBody(Server(i))
<1> DEFINE named == site.conf.named
           name == forwardLocationName(OwnSan(i))
           hits == {k \in DOMAIN named : named[k].location = name}
           m == Server(i)
<1>1. /\ DOMAIN named = {k \in DOMAIN All : OwnView(k).viewerRequest}
      /\ \A k \in DOMAIN named : named[k] = writeForwardLocation(OwnView(k))
    BY Zenon DEF SiteRendered, NamedRendered, All, OwnView
<1>2. \A k \in DOMAIN All :
          /\ OwnView(k).san = OwnSan(k)
          /\ OwnView(k).viewerRequest = hasViewerRequestAssociation(All[k])
    BY OwnViewIs
<1>3. \A k : /\ writeForwardLocation(OwnView(k)).location = forwardLocationName(OwnView(k).san)
             /\ writeForwardLocation(OwnView(k)).body = writeOuterLocationBody(OwnView(k), TRUE)
    BY DEF writeForwardLocation
<1>4. \A k : forwardLocationName(OwnSan(k)) = name <=> OwnSan(k) = OwnSan(i)
    BY DEF forwardLocationName
<1> HIDE DEF named, name
<1>5. hits = Forwarding(i)
  <2>1. \A k \in DOMAIN named : named[k].location = forwardLocationName(OwnSan(k))
      BY <1>1, <1>2, <1>3
  <2>2. QED
      BY <1>1, <1>2, <1>4, <2>1 DEF Forwarding
<1>6. m = Min(hits)
    BY <1>5 DEF Server
<1>7. m \in DOMAIN All /\ hasViewerRequestAssociation(All[m])
    BY ServerIs DEF Serving
<1> HIDE DEF m
<1>8. named[m].body = writeOuterLocationBody(OwnView(m), TRUE)
    BY <1>1, <1>2, <1>3, <1>7
<1>9. OwnBody(m) = writeOuterLocationBody(OwnView(m), TRUE)
  <2>1. OwnBody(m) = writeOuterLocationBody(OwnView(m), hasViewerRequestAssociation(All[m]))
      BY OwnViewIs
  <2>2. hasViewerRequestAssociation(All[m]) = TRUE
      BY <1>7 DEF hasViewerRequestAssociation
  <2>3. QED
      BY <2>1, <2>2
<1>10. NamedLocation(site.conf, name) = named[m]
    BY <1>6 DEF NamedLocation, named
<1>11. QED
    BY <1>8, <1>9, <1>10 DEF name, m

\* The location of the inner server that a hop leads to.
InnerAt(target) == CHOOSE l \in site.conf.inner : l.location = target

\* What a location of the inner server is, by its name.
InnerWritten(san) ==
    LET inner == InnerOf(site.dist, san)
    IN /\ InnerAt(Inner(san)) = writeInnerLocation(san, inner)
       /\ InnerAt(Inner(san)) \in site.conf.inner
       /\ inner.originRequest =>
             /\ InnerAt(originRequestPrefix(san)) = writeOriginRequestLocation(san)
             /\ InnerAt(originRequestPrefix(san)) \in site.conf.inner
       /\ inner.originResponse =>
             /\ InnerAt(originResponsePrefix(san)) = writeOriginResponseLocation(san, inner)
             /\ InnerAt(originResponsePrefix(san)) \in site.conf.inner

\* Names of inner locations differ in their kind or in their policy.
LEMMA InnerNames ==
    /\ \A san, inner : /\ writeInnerLocation(san, inner).location = Inner(san)
                       /\ writeOriginRequestLocation(san).location = originRequestPrefix(san)
                       /\ writeOriginResponseLocation(san, inner).location
                             = originResponsePrefix(san)
    /\ \A s, t : /\ Inner(s) # originRequestPrefix(t) /\ Inner(s) # originResponsePrefix(t)
                 /\ originRequestPrefix(s) # originResponsePrefix(t)
                 /\ Inner(s) = Inner(t) => s = t
                 /\ originRequestPrefix(s) = originRequestPrefix(t) => s = t
                 /\ originResponsePrefix(s) = originResponsePrefix(t) => s = t
    /\ \A s : Inner(s)[2] = s /\ originRequestPrefix(s)[2] = s /\ originResponsePrefix(s)[2] = s
<1>1. \A san, inner : /\ writeInnerLocation(san, inner).location = Inner(san)
                      /\ writeOriginRequestLocation(san).location = originRequestPrefix(san)
                      /\ writeOriginResponseLocation(san, inner).location
                            = originResponsePrefix(san)
    BY DEF writeInnerLocation, writeOriginRequestLocation, writeOriginResponseLocation
<1>2. QED
    BY <1>1 DEF Inner, originRequestPrefix, originResponsePrefix

\* So a hop leads to the one location of its name.
LEMMA InnerIs ==
    ASSUME SiteRendered, NEW san \in Sans(site.dist) PROVE InnerWritten(san)
<1> DEFINE d == site.dist
           inner == InnerOf(d, san)
           Only(l) == \A k \in site.conf.inner : k.location = l.location => k = l
<1>1. \A l \in site.conf.inner : \E s \in Sans(d) :
          \/ l = writeInnerLocation(s, InnerOf(d, s))
          \/ l = writeOriginRequestLocation(s)
          \/ l = writeOriginResponseLocation(s, InnerOf(d, s))
    BY DEF SiteRendered, NoOtherInner
<1>2. \A l \in site.conf.inner : Only(l)
  <2> SUFFICES ASSUME NEW l \in site.conf.inner, NEW k \in site.conf.inner,
                      k.location = l.location
               PROVE  k = l
      OBVIOUS
  <2>1. PICK s \in Sans(d) : \/ l = writeInnerLocation(s, InnerOf(d, s))
                             \/ l = writeOriginRequestLocation(s)
                             \/ l = writeOriginResponseLocation(s, InnerOf(d, s))
      BY <1>1
  <2>2. PICK t \in Sans(d) : \/ k = writeInnerLocation(t, InnerOf(d, t))
                             \/ k = writeOriginRequestLocation(t)
                             \/ k = writeOriginResponseLocation(t, InnerOf(d, t))
      BY <1>1
  <2>3. s = t
      BY <2>1, <2>2, InnerNames
  <2>4. QED
      BY <2>1, <2>2, <2>3, InnerNames
<1>3. \A l \in site.conf.inner : InnerAt(l.location) = l
  <2> HIDE DEF Only
  <2>1. ASSUME NEW l \in site.conf.inner PROVE InnerAt(l.location) = l
    <3>1. \A k \in site.conf.inner : k.location = l.location => k = l
        BY <1>2 DEF Only
    <3>2. QED
        BY <3>1 DEF InnerAt
  <2>2. QED
      BY <2>1
<1>4. /\ writeInnerLocation(san, inner) \in site.conf.inner
      /\ inner.originRequest => writeOriginRequestLocation(san) \in site.conf.inner
      /\ inner.originResponse => writeOriginResponseLocation(san, inner) \in site.conf.inner
    BY DEF SiteRendered, InnersThere
<1> HIDE DEF d, inner
<1>5. QED
    BY <1>3, <1>4, InnerNames DEF InnerWritten, d, inner

\* The body of an outer or a named location has the behaviour's policy, and
\* passes on the changed URI where there is a hook that may change it.
LEMMA BodyIs ==
    ASSUME NEW i
    PROVE  /\ OwnBody(i).policy = All[i].policy
           /\ OwnBody(i).uri = "$uri" <=> hasViewerRequestAssociation(All[i])
           /\ \/ /\ hasOriginResponseAssociation(All[i])
                 /\ OwnBody(i).target = originResponsePrefix(OwnSan(i))
              \/ /\ ~ hasOriginResponseAssociation(All[i]) /\ hasOriginRequestAssociation(All[i])
                 /\ OwnBody(i).target = originRequestPrefix(OwnSan(i))
              \/ /\ ~ hasOriginResponseAssociation(All[i]) /\ ~ hasOriginRequestAssociation(All[i])
                 /\ OwnBody(i).target = Inner(OwnSan(i))
<1> DEFINE v == OwnView(i)
           has == hasViewerRequestAssociation(All[i])
<1>1. /\ v.policy = All[i].policy /\ v.san = OwnSan(i)
      /\ v.originRequest = hasOriginRequestAssociation(All[i])
      /\ v.originResponse = hasOriginResponseAssociation(All[i])
      /\ OwnBody(i) = writeOuterLocationBody(v, has)
    BY OwnViewIs
<1>2. has \in BOOLEAN
    BY DEF hasViewerRequestAssociation
<1> HIDE DEF v, has
<1>3. /\ OwnBody(i).policy = v.policy /\ (OwnBody(i).uri = "$uri" <=> has)
      /\ OwnBody(i).target = CASE v.originResponse -> originResponsePrefix(v.san)
                  [] ~ v.originResponse /\ v.originRequest -> originRequestPrefix(v.san)
                  [] OTHER -> Inner(v.san)
    BY <1>1, <1>2 DEF writeOuterLocationBody
<1>4. QED
    BY <1>1, <1>3 DEF has

\* Where the proxy_pass of a behaviour leads: to the first hook it has on the
\* inner server, or to the origin.
Entered(i, l) ==
    /\ l \in site.conf.inner /\ l.location[2] = OwnSan(i)
    /\ hasOriginResponseAssociation(All[i]) => l.content = "edge.runOriginResponse"
    /\ l.content = "origin" => ~ hasOriginRequestAssociation(All[i])

\* A proxy_pass passes no hook by.
LEMMA EntryIs ==
    ASSUME SiteRendered, NEW i \in DOMAIN All
    PROVE  Entered(i, InnerAt(OwnBody(i).target))
<1> DEFINE san == OwnSan(i)
           d == site.dist
           inner == InnerOf(d, san)
           l == InnerAt(OwnBody(i).target)
<1>1. /\ san \in Sans(d)
      /\ hasOriginRequestAssociation(All[i]) => inner.originRequest
      /\ hasOriginResponseAssociation(All[i]) => inner.originResponse
    BY DEF SiteRendered, InnersServe, All, OwnSan
<1>2. InnerWritten(san)
    BY <1>1, InnerIs
<1>3. \/ /\ hasOriginResponseAssociation(All[i])
         /\ OwnBody(i).target = originResponsePrefix(san)
      \/ /\ ~ hasOriginResponseAssociation(All[i]) /\ hasOriginRequestAssociation(All[i])
         /\ OwnBody(i).target = originRequestPrefix(san)
      \/ /\ ~ hasOriginResponseAssociation(All[i]) /\ ~ hasOriginRequestAssociation(All[i])
         /\ OwnBody(i).target = Inner(san)
    BY BodyIs
<1> HIDE DEF san, d
<1>4. CASE hasOriginResponseAssociation(All[i]) /\ OwnBody(i).target = originResponsePrefix(san)
  <2>1. l = writeOriginResponseLocation(san, inner) /\ l \in site.conf.inner
      BY <1>1, <1>2, <1>4 DEF InnerWritten, d
  <2>2. l.location[2] = san /\ l.content = "edge.runOriginResponse"
      BY <2>1, InnerNames DEF writeOriginResponseLocation
  <2>3. QED
      BY <2>1, <2>2 DEF Entered, san
<1>5. CASE /\ ~ hasOriginResponseAssociation(All[i]) /\ hasOriginRequestAssociation(All[i])
           /\ OwnBody(i).target = originRequestPrefix(san)
  <2>1. l = writeOriginRequestLocation(san) /\ l \in site.conf.inner
      BY <1>1, <1>2, <1>5 DEF InnerWritten, d
  <2>2. l.location[2] = san /\ l.content = "edge.runOriginRequest"
      BY <2>1, InnerNames DEF writeOriginRequestLocation
  <2>3. QED
      BY <1>5, <2>1, <2>2 DEF Entered, san
<1>6. CASE /\ ~ hasOriginResponseAssociation(All[i]) /\ ~ hasOriginRequestAssociation(All[i])
           /\ OwnBody(i).target = Inner(san)
  <2>1. l = writeInnerLocation(san, inner) /\ l \in site.conf.inner
      BY <1>2, <1>6 DEF InnerWritten, d
  <2>2. l.location[2] = san
      BY <2>1, InnerNames
  <2>3. QED
      BY <1>6, <2>1, <2>2 DEF Entered, san
<1>7. QED
    BY <1>3, <1>4, <1>5, <1>6

\* Where the hooks of the inner server lead on to, and with which policy the
\* origin's answer is timed.
LedOn(i, l) ==
    /\ l.content = "edge.runOriginResponse" =>
          LET n == InnerAt(l.next)
          IN /\ n \in site.conf.inner /\ n.location[2] = OwnSan(i)
             /\ n.content # "edge.runOriginResponse"
             /\ n.content = "origin" => ~ hasOriginRequestAssociation(All[i])
    /\ l.content = "edge.runOriginRequest" =>
          LET n == InnerAt(l.next)
          IN /\ n \in site.conf.inner /\ n.location[2] = OwnSan(i)
             /\ n.content = "origin"
    /\ l.content = "origin" => l.policy = All[i].policy

\* The hooks lead on in their order, each to the origin of the same policy.
LEMMA NextIs ==
    ASSUME SiteRendered, PoliciesDiffer, NEW i \in DOMAIN All,
           NEW l \in site.conf.inner, l.location[2] = OwnSan(i)
    PROVE  LedOn(i, l)
<1> DEFINE san == OwnSan(i)
           d == site.dist
           inner == InnerOf(d, san)
<1>1. /\ san \in Sans(d)
      /\ hasOriginRequestAssociation(All[i]) => inner.originRequest
    BY DEF SiteRendered, InnersServe, All, OwnSan
<1>2. InnerWritten(san)
    BY <1>1, InnerIs
<1>3. \/ l = writeInnerLocation(san, inner)
      \/ inner.originRequest /\ l = writeOriginRequestLocation(san)
      \/ l = writeOriginResponseLocation(san, inner)
  <2>1. PICK s \in Sans(d) :
          \/ l = writeInnerLocation(s, InnerOf(d, s))
          \/ InnerOf(d, s).originRequest /\ l = writeOriginRequestLocation(s)
          \/ InnerOf(d, s).originResponse /\ l = writeOriginResponseLocation(s, InnerOf(d, s))
      BY DEF SiteRendered, NoOtherInner
  <2>2. s = san
      BY <2>1, InnerNames
  <2>3. QED
      BY <2>1, <2>2
<1>4. inner.policy = All[i].policy
  <2> DEFINE n == Len(site.dist.behaviors)
  <2>1. n + 1 \in Nat /\ DOMAIN All = 1 .. n + 1
    <3>1. n \in Nat /\ DOMAIN All = 1 .. n + 1
        BY Behaviours DEF SiteRendered, All
    <3> HIDE DEF n
    <3>2. QED
        BY <3>1
  <2> HIDE DEF n
  <2>2. i \in Sharing(All, san)
      BY DEF Sharing, OwnSan
  <2>3. PICK k \in Sharing(All, san) : Maker(All, san) = All[k]
      BY <2>1, <2>2, MakerShares
  <2>4. All[k].policy = All[i].policy
      BY <2>3 DEF PoliciesDiffer, Sharing, OwnSan
  <2>5. inner.policy = Maker(All, san).policy
    <3>1. addInner(All, san).ok
        BY <1>1 DEF SiteRendered, Renderable, All
    <3>2. addInner(All, san) # Fail
        BY <3>1 DEF Fail
    <3>3. QED
        BY <3>2 DEF addInner, Ok, InnerOf, All
  <2>6. QED
      BY <2>3, <2>4, <2>5
<1> HIDE DEF san, d, inner
<1>5. CASE l = writeInnerLocation(san, inner)
  <2>1. l.content = "origin" /\ l.policy = inner.policy
      BY <1>5 DEF writeInnerLocation
  <2>2. QED
      BY <1>4, <2>1 DEF LedOn
<1>6. /\ InnerAt(Inner(san)) \in site.conf.inner /\ InnerAt(Inner(san)).location[2] = san
      /\ InnerAt(Inner(san)).content = "origin"
  <2>1. InnerAt(Inner(san)) \in site.conf.inner /\ InnerAt(Inner(san)) = writeInnerLocation(san, inner)
      BY <1>2 DEF InnerWritten, d, inner
  <2>2. QED
      BY <2>1, InnerNames DEF writeInnerLocation
<1>7. CASE l = writeOriginRequestLocation(san)
  <2>1. l.content = "edge.runOriginRequest" /\ l.next = Inner(san)
      BY <1>7 DEF writeOriginRequestLocation
  <2>2. QED
      BY <1>6, <2>1 DEF LedOn, san
<1>8. CASE l = writeOriginResponseLocation(san, inner)
  <2>1. /\ l.content = "edge.runOriginResponse"
        /\ l.next = IF inner.originRequest THEN originRequestPrefix(san) ELSE Inner(san)
      BY <1>8 DEF writeOriginResponseLocation
  <2>2. CASE inner.originRequest
    <3>1. /\ InnerAt(originRequestPrefix(san)) \in site.conf.inner
          /\ InnerAt(originRequestPrefix(san)) = writeOriginRequestLocation(san)
        BY <1>2, <2>2 DEF InnerWritten, d, inner
    <3>2. /\ InnerAt(l.next) \in site.conf.inner /\ InnerAt(l.next).location[2] = san
          /\ InnerAt(l.next).content = "edge.runOriginRequest"
        BY <2>1, <2>2, <3>1, InnerNames DEF writeOriginRequestLocation
    <3>3. QED
        BY <2>1, <3>2 DEF LedOn, san
  <2>3. CASE ~ inner.originRequest
    <3>1. l.next = Inner(san) /\ ~ hasOriginRequestAssociation(All[i])
        BY <1>1, <2>1, <2>3
    <3>2. QED
        BY <1>6, <2>1, <3>1 DEF LedOn, san
  <2>4. QED
      BY <2>2, <2>3
<1>9. QED
    BY <1>3, <1>5, <1>7, <1>8

\* The locations of two behaviours are not the same.
LEMMA OuterDiffer ==
    ASSUME SiteRendered, PlacesDiffer, NEW i \in DOMAIN All, NEW j \in DOMAIN All,
           site.conf.outer[i].location = site.conf.outer[j].location
    PROVE  i = j
<1>1. DOMAIN site.conf.outer = DOMAIN All
    BY DEF SiteRendered, OuterRendered, All
<1>2. QED
    BY <1>1, Zenon DEF PlacesDiffer

\* The hooks at a location are those of its behaviour.
LEMMA HooksAtIs ==
    ASSUME SiteRendered, PlacesDiffer, NEW i \in DOMAIN All
    PROVE  /\ Behind(site.conf.outer[i].location) = {i}
           /\ HooksAt(site.conf.outer[i].location) = All[i].hooks
<1> DEFINE loc == site.conf.outer[i].location
           one == All[i].hooks
<1>1. \A j \in DOMAIN All : site.conf.outer[j].location = pathPatternToLocation(All[j].pattern).val
    BY DEF SiteRendered, LocationsOf, All
<1>2. \A j \in DOMAIN All : site.conf.outer[j].location = loc => j = i
    BY OuterDiffer
<1>3. Behind(loc) = {i}
    BY <1>1, <1>2 DEF Behind
<1>4. {All[j].hooks : j \in Behind(loc)} = {one}
    BY <1>3
<1>5. HooksAt(loc) = UNION {All[j].hooks : j \in Behind(loc)}
    BY DEF HooksAt
<1> HIDE DEF loc, one
<1>6. HooksAt(loc) = one
  <2>1. UNION {one} = one
      OBVIOUS
  <2>2. QED
      BY <1>4, <1>5, <2>1
<1>7. QED
    BY <1>3, <1>6 DEF loc, one
-----------------------------------------------------------------------------
(* Lifetimes. *)

TTLs == Nat \cup {None}

\* An age that Cache-Control names is a number.
Aged(cc) == cc.maxAge \in TTLs /\ cc.sMaxage \in TTLs

\* The parser finds numbers only.
LEMMA AgesParsed ==
    ASSUME NEW control \in Seq([name : STRING, value : TTLs]) PROVE Aged(parse(control))
<1> DEFINE n == Len(control)
           Age(name) ==
              LET ages == {i \in DOMAIN control :
                              control[i].name = name /\ control[i].value # None}
              IN IF ages = {} THEN None ELSE control[Max(ages)].value
<1>1. n \in Nat /\ DOMAIN control = 1 .. n
    OBVIOUS
<1>2. \A i \in 1 .. n : control[i].value \in TTLs
  <2> DEFINE D == [name : STRING, value : TTLs]
  <2>1. \A x \in D : x.value \in TTLs
      OBVIOUS
  <2>2. control \in Seq(D)
      OBVIOUS
  <2> HIDE DEF D
  <2>3. \A i \in 1 .. n : control[i] \in D
      BY <1>1, <2>2
  <2>4. QED
      BY <2>1, <2>3
<1> HIDE DEF n
<1>3. ASSUME NEW name PROVE Age(name) \in TTLs
  <2> DEFINE ages == {i \in DOMAIN control : control[i].name = name /\ control[i].value # None}
  <2>1. CASE ages = {}
      BY <2>1 DEF TTLs
  <2>2. CASE ages # {}
    <3> DEFINE rest == {n - i : i \in ages}
    <3>0. ages \subseteq 1 .. n
        BY <1>1
    <3> HIDE DEF ages
    <3>1. rest \subseteq Nat /\ rest # {}
      <4>1. \A i \in 1 .. n : n - i \in Nat
          BY <1>1
      <4>2. QED
          BY <2>2, <3>0, <4>1
    <3>2. PICK r \in rest : \A q \in rest : r <= q
        BY <3>1, NatMin
    <3>3. PICK m \in ages : r = n - m
        BY <3>2
    <3>4. ASSUME NEW i \in ages PROVE m >= i
      <4>1. n - m <= n - i
          BY <3>2, <3>3
      <4>2. i \in 1 .. n /\ m \in 1 .. n
          BY <3>0
      <4>3. QED
          BY <1>1, <4>1, <4>2
    <3>5. Max(ages) \in ages
        BY <3>4 DEF Max
    <3>6. Age(name) = control[Max(ages)].value
        BY <2>2 DEF ages
    <3>7. QED
        BY <1>2, <3>0, <3>5, <3>6
  <2>3. QED
      BY <2>1, <2>2
<1>4. /\ parse(control).maxAge = Age("max-age") /\ parse(control).sMaxage = Age("s-maxage")
    BY DEF parse
<1> HIDE DEF Age
<1>5. QED
    BY <1>3, <1>4 DEF Aged

\* The times of a policy are numbers, or missing.
Times == Int \cup {None}
PolicyTimed(p) == p.minTTL \in Times /\ p.maxTTL \in Times /\ p.defaultTTL \in Times

\* What is in policies.json, what the image brings along, and the default
\* without either, has such times.
LEMMA PoliciesTimed ==
    ASSUME site \in Sites, NEW id, getPolicy(site.policies, id) # None
    PROVE  PolicyTimed(getPolicy(site.policies, id))
<1> DEFINE policies == site.policies
           p == getPolicy(policies, id)
<1>1. PICK k \in DOMAIN policies : p = policies[k]
    BY DEF getPolicy
<1>2. PICK d \in EdgeDistributions, ps \in PolicySets, f \in Functions :
          site = [dist |-> d, conf |-> renderConf(d, <<>>, EdgeID).val,
                  policies |-> POLICIES(IF ps = None THEN None ELSE buildPoliciesJSON(ps)),
                  function |-> f]
    BY DEF Sites
<1> DEFINE safe == [i \in {DefaultID} |-> SAFE_DEFAULT]
           json == IF ps = None THEN None ELSE buildPoliciesJSON(ps)
           prod == IF json = None THEN safe ELSE json
<1>3. policies = POLICIES(json)
    BY <1>2
<1> HIDE DEF p, policies
<1>4. \/ k \in DOMAIN prod /\ p = prod[k]
      \/ k \in DOMAIN TestPolicies /\ p = TestPolicies[k]
  <2> HIDE DEF json
  <2>1. policies = [i \in DOMAIN TestPolicies \cup DOMAIN prod |->
                       IF i \in DOMAIN prod THEN prod[i] ELSE TestPolicies[i]]
      BY <1>3 DEF POLICIES
  <2> HIDE DEF prod
  <2>2. QED
      BY <1>1, <2>1
<1>5. CASE k \in DOMAIN TestPolicies /\ p = TestPolicies[k]
  <2>1. PolicyTimed(p)
      BY <1>5, RequestAssumption DEF TTLsShape, PolicyTimed, Times
  <2>2. QED
      BY <2>1 DEF p, policies
<1>6. CASE k \in DOMAIN safe /\ p = safe[k]
  <2>1. p = SAFE_DEFAULT
      BY <1>6
  <2>2. PolicyTimed(SAFE_DEFAULT)
      BY DEF SAFE_DEFAULT, PolicyTimed, Times
  <2>3. QED
      BY <2>1, <2>2 DEF p, policies
<1>7. CASE ps # None /\ k \in DOMAIN buildPoliciesJSON(ps) /\ p = buildPoliciesJSON(ps)[k]
  <2>1. k \in DOMAIN ps /\ p = convertCachePolicy(ps[k])
      BY <1>7 DEF buildPoliciesJSON
  <2>2. /\ ps[k].minTTL \in Times /\ ps[k].maxTTL \in Times /\ ps[k].defaultTTL \in Times
      BY <1>7, <2>1, RequestAssumption DEF TTLsShape, Times
  <2>3. PolicyTimed(p)
    <3>1. /\ p.minTTL = IF ps[k].minTTL = None THEN 0 ELSE ps[k].minTTL
          /\ p.maxTTL = ps[k].maxTTL /\ p.defaultTTL = ps[k].defaultTTL
        BY <2>1 DEF convertCachePolicy
    <3>2. QED
        BY <2>2, <3>1 DEF PolicyTimed, Times
  <2>4. QED
      BY <2>3 DEF p, policies
<1>8. QED
    BY <1>4, <1>5, <1>6, <1>7

\* The lifetime ttl.js computes from what Cache-Control says and the bounds of
\* a policy.
Year == 31536000
Usable(ttl) == ttl # None /\ ttl >= 0
Least(p) == IF Usable(p.minTTL) THEN p.minTTL ELSE 0
Most(p) == IF Usable(p.maxTTL) THEN p.maxTTL ELSE Year
Low(p) == IF Least(p) > Most(p) THEN 0 ELSE Least(p)
High(p) == IF Least(p) > Most(p) THEN Year ELSE Most(p)
Forbidden(cc) == cc.noStore \/ cc.noCache \/ cc.private
AgeNamed(cc) == IF cc.sMaxage # None THEN cc.sMaxage ELSE cc.maxAge

Kept(p, cc, t) ==
    /\ Forbidden(cc) => t = Low(p)
    /\ (~ Forbidden(cc) /\ AgeNamed(cc) # None) =>
          /\ Low(p) <= t /\ t <= High(p)
          /\ (Low(p) <= AgeNamed(cc) /\ AgeNamed(cc) <= High(p)) => t = AgeNamed(cc)
    /\ (~ Forbidden(cc) /\ AgeNamed(cc) = None /\ Usable(p.defaultTTL)) => t = p.defaultTTL

\* computeTTL keeps them.
LEMMA TTLComputed ==
    ASSUME NEW p, PolicyTimed(p), NEW cc, Aged(cc)
    PROVE  /\ computeTTL(cc, getPolicyTtl(p)) \in Nat
           /\ Kept(p, cc, computeTTL(cc, getPolicyTtl(p)))
<1> DEFINE ttl == getPolicyTtl(p)
           n == AgeNamed(cc)
           least == Least(p)
           most == Most(p)
           low == Low(p)
           high == High(p)
           default == IF Usable(p.defaultTTL) THEN p.defaultTTL ELSE 86400
           forbidden == Forbidden(cc)
           t == computeTTL(cc, ttl)
<1>1. /\ None \notin Int /\ least \in Nat /\ most \in Nat /\ default \in Nat /\ n \in TTLs
    BY RequestAssumption
       DEF PolicyTimed, Times, Aged, TTLs, Year, Least, Most, Usable, AgeNamed
<1>2. /\ sanitizeTtl(p.minTTL, 0) = least /\ sanitizeTtl(p.maxTTL, Year) = most
      /\ sanitizeTtl(p.defaultTTL, 86400) = default
    BY RequestAssumption DEF sanitizeTtl, PolicyTimed, Times, Least, Most, Usable
<1>3. ttl = IF least > most THEN [min |-> 0, max |-> Year, default |-> default]
            ELSE [min |-> least, max |-> most, default |-> default]
    BY <1>2 DEF getPolicyTtl, DEFAULT_TTL_CONFIG, Year
<1>4. low = (IF least > most THEN 0 ELSE least) /\ high = IF least > most THEN Year ELSE most
    BY DEF Low, High
<1> HIDE DEF ttl, least, most, low, high, default, n, forbidden
<1>5. ttl.min = low /\ ttl.max = high /\ ttl.default = default
    BY <1>3, <1>4
<1>6. low \in Nat /\ high \in Nat /\ low <= high
    BY <1>1, <1>4 DEF Year
<1> DEFINE raised == IF n < low THEN low ELSE n
<1>7. t = IF forbidden THEN low
          ELSE IF n # None THEN IF raised > high THEN high ELSE raised
          ELSE default
    BY <1>5 DEF computeTTL, forbidden, n, Forbidden, AgeNamed
<1> HIDE DEF t
<1>8. t \in Nat
    BY <1>1, <1>6, <1>7 DEF TTLs
<1>9. forbidden => t = low
    BY <1>7
<1>10. (~ forbidden /\ n # None) => /\ low <= t /\ t <= high
                                    /\ (low <= n /\ n <= high) => t = n
    BY <1>1, <1>6, <1>7 DEF TTLs
<1>11. (~ forbidden /\ n = None /\ Usable(p.defaultTTL)) => t = p.defaultTTL
    BY <1>7 DEF default
<1>12. Kept(p, cc, t)
    BY <1>9, <1>10, <1>11 DEF Kept, n, low, high, forbidden
<1>13. QED
    BY <1>8, <1>12 DEF t, ttl
-----------------------------------------------------------------------------
(* The steps of a request. *)

\* A record of a request, and the fields that two of them share.
Shaped(r) == DOMAIN r = DOMAIN Blank(None)
SameWay(r, q) == r.client = q.client /\ r.ran = q.ran /\ r.changed = q.changed
SameRoute(r, q) == r.uri = q.uri /\ r.at = q.at /\ r.body = q.body

\* The names of the fields.
LEMMA BlankIs ==
    ASSUME NEW c
    PROVE  /\ DOMAIN Blank(c) = {"phase", "client", "uri", "at", "body", "hops", "inner", "below",
                                 "wrapped", "ran", "changed", "rewritten", "hit", "resp"}
           /\ Blank(c).client = c /\ Blank(c).ran = {} /\ Blank(c).changed = FALSE
           /\ Blank(c).resp = Unanswered
BY DEF Blank

\* A request is sent to a location.
SentTo(r, l) ==
    /\ r.at = l.location
    /\ IF l.content = "cache" THEN r.phase = "lookup" /\ r.body = l.body ELSE r.phase = "viewer"

\* What the router sets.
LEMMA RoutedIs ==
    ASSUME NEW q, Shaped(q), NEW uri
    PROVE  /\ Shaped(Routed(q, uri)) /\ SameWay(Routed(q, uri), q)
           /\ Routed(q, uri).resp = q.resp /\ Routed(q, uri).uri = uri
           /\ SentTo(Routed(q, uri), Location(site.conf, uri.path))
<1> DEFINE l == Location(site.conf, uri.path)
<1> HIDE DEF l
<1>1. Routed(q, uri) =
        [q EXCEPT !.uri = uri, !.at = l.location,
                  !.phase = IF l.content = "cache" THEN "lookup" ELSE "viewer",
                  !.body = IF l.content = "cache" THEN l.body ELSE None]
    BY DEF Routed, l
<1>2. QED
    BY <1>1, BlankIs DEF Shaped, SameWay, SentTo, l

\* What the end of a request sets.
LEMMA FinishedIs ==
    ASSUME NEW q, Shaped(q), NEW resp
    PROVE  /\ Shaped(Finished(q, resp)) /\ SameWay(Finished(q, resp), q)
           /\ SameRoute(Finished(q, resp), q)
           /\ Finished(q, resp).phase = "done" /\ Finished(q, resp).resp = resp
           /\ Finished(q, resp).hit = q.hit
BY BlankIs DEF Finished, Shaped, SameWay, SameRoute

\* What a location of the inner server sets.
LEMMA EnterIs ==
    ASSUME NEW q, Shaped(q), NEW target, NEW uri
    PROVE  /\ Shaped(Enter(q, target, uri)) /\ SameWay(Enter(q, target, uri), q)
           /\ SameRoute(Enter(q, target, uri), q) /\ Enter(q, target, uri).resp = q.resp
           /\ Enter(q, target, uri).phase = "inner" /\ Enter(q, target, uri).below = uri
           /\ Enter(q, target, uri).inner = InnerAt(target)
           /\ Enter(q, target, uri).wrapped = q.wrapped
BY BlankIs DEF Enter, InnerAt, Shaped, SameWay, SameRoute

\* A response that nginx or a function made.
LEMMA ResponseIs ==
    ASSUME NEW status, NEW from
    PROVE  DOMAIN Response(status, from) = DOMAIN Unanswered /\ Response(status, from).from = from
BY DEF Response, Unanswered

\* The two ways to say that a URI is well formed.
LEMMA GoodURIs ==
    ASSUME NEW u
    PROVE  GoodURI(u) <=> (u \in URIType /\ u.path # <<>> /\ u.path[1] = "/")
<1>1. ASSUME GoodURI(u) PROVE u \in URIType /\ u.path # <<>> /\ u.path[1] = "/"
  <2>1. u.path # <<>> /\ u.path[1] = "/" /\ u.path \in Seq(Letters)
      BY <1>1 DEF GoodURI, Rooted
  <2>2. u = [path |-> u.path, args |-> u.args] /\ u.args \in Seq(Letters)
      BY <1>1 DEF GoodURI, IsURI
  <2> DEFINE S == Seq(Letters)
             a == u.path
             b == u.args
  <2> HIDE DEF S, a, b
  <2>3. a \in S /\ b \in S
      BY <2>1, <2>2 DEF S, a, b
  <2>4. [path |-> a, args |-> b] \in [path : S, args : S]
      BY <2>3
  <2>5. u \in URIType
      BY <2>2, <2>4 DEF URIType, S, a, b
  <2>6. QED
      BY <2>1, <2>5
<1>2. ASSUME u \in URIType, u.path # <<>>, u.path[1] = "/" PROVE GoodURI(u)
  <2> DEFINE S == Seq(Letters)
  <2> HIDE DEF S
  <2>1. u \in [path : S, args : S]
      BY <1>2 DEF URIType, S
  <2>2. u.path \in S /\ u.args \in S /\ u = [path |-> u.path, args |-> u.args]
      BY <2>1
  <2>3. Rooted(u.path)
      BY <1>2, <2>2, RootedIs DEF S
  <2>4. QED
      BY <2>2, <2>3 DEF GoodURI, IsURI, S
<1>3. QED
    BY <1>1, <1>2

\* The request line of a client begins with a slash.
LEMMA RawIs ==
    ASSUME NEW c \in Clients
    PROVE  Rooted(c.raw)
<1>1. c.raw \in Seq(STRING) /\ c.raw # <<>> /\ c.raw[1] = "/"
    BY RequestAssumption DEF Text
<1> DEFINE s == c.raw
           B == STRING
           C == {"/", "?", "a", "b", "t"}
<1> HIDE DEF s, B, C
<1>2. s \in Seq(B \cup C)
    BY <1>1 DEF s, B
<1>3. QED
    BY <1>1, <1>2, RootedIs DEF s, B, C, Letters

\* What the invariant says of a request under way at a behaviour.
At(r, i) ==
    /\ GoodURI(r.uri)
    /\ AtBehavior(r, i) /\ HooksInOrder(r, Server(i))
    /\ URIsKept(r, i)
    /\ Answered(r) => Timed(r.resp, All[i].policy)

\* A request is on its way when it is at some behaviour, or done.
LEMMA WayIs ==
    ASSUME NEW r
    PROVE  OnItsWay(r) <=>
              /\ Shaped(r) /\ DOMAIN r.resp = DOMAIN Unanswered /\ r.client \in Clients
              /\ UnderWay(r) => \E i \in DOMAIN All : At(r, i)
<1>1. GoodURI(r.uri) <=> (r.uri \in URIType /\ r.uri.path # <<>> /\ r.uri.path[1] = "/")
    BY GoodURIs
<1>2. QED
    BY <1>1, Zenon DEF OnItsWay, At, Shaped

\* Before the inner server nothing has been answered.
LEMMA Early ==
    ASSUME NEW r, r.phase \in {"viewer", "lookup"}
    PROVE  ~ Answered(r) /\ r.phase # "inner" /\ UnderWay(r)
BY DEF Answered, Fetched, UnderWay

\* A URI leads to a behaviour, and to its hook or its cache.
LEMMA RoutedAt ==
    ASSUME SiteRendered, NEW q, Shaped(q), NEW uri, GoodURI(uri)
    PROVE  \E i \in DOMAIN All : /\ AtBehavior(Routed(q, uri), i)
                                 /\ Routed(q, uri).phase \in {"viewer", "lookup"}
<1>1. PICK i \in DOMAIN All : Location(site.conf, uri.path) = site.conf.outer[i]
    BY Routes DEF GoodURI
<1>2. OuterOf(i)
    BY OuterIs
<1> DEFINE r == Routed(q, uri)
           l == site.conf.outer[i]
<1>3. /\ r.uri = uri /\ r.at = l.location
      /\ IF l.content = "cache" THEN r.phase = "lookup" /\ r.body = l.body
         ELSE r.phase = "viewer"
  <2>1. r.uri = uri /\ SentTo(r, Location(site.conf, uri.path))
      BY RoutedIs, Zenon
  <2>2. SentTo(r, l)
      BY <1>1, <2>1, Zenon
  <2> HIDE DEF r, l
  <2>3. QED
      BY <2>1, <2>2 DEF SentTo
<1> HIDE DEF r, l
<1>4. IF hasViewerRequestAssociation(All[i]) THEN l.content # "cache"
      ELSE l.content = "cache" /\ l.body = OwnBody(Server(i))
  <2>1. CASE hasViewerRequestAssociation(All[i])
      BY <1>2, <2>1 DEF OuterOf, l
  <2>2. CASE ~ hasViewerRequestAssociation(All[i])
    <3>1. Server(i) = i
        BY <2>2, Zenon DEF Server
    <3>2. l.content = "cache" /\ l.body = OwnBody(i)
        BY <1>2, <2>2 DEF OuterOf, l
    <3>3. QED
        BY <2>2, <3>1, <3>2
  <2>3. QED
      BY <2>1, <2>2
<1>5. AtBehavior(r, i) /\ r.phase \in {"viewer", "lookup"}
    BY <1>1, <1>3, <1>4 DEF AtBehavior, l
<1>6. QED
    BY <1>5 DEF r

\* The request line of a client, as it is and as nginx has it.
LEMMA RawParsed ==
    ASSUME NEW c \in Clients
    PROVE  /\ GoodURI(SplitArgs(c.raw))
           /\ ParseRequest(c.raw).path = Above \/ GoodURI(ParseRequest(c.raw))
           /\ Literal(SplitArgs(c.raw).path) => ParseRequest(c.raw) = SplitArgs(c.raw)
<1>1. Rooted(c.raw)
    BY RawIs
<1>2. Parts(SplitArgs(c.raw))
    BY <1>1, SplitRooted, Zenon
<1>3. /\ ParseRequest(c.raw).path = Above \/ GoodURI(ParseRequest(c.raw))
      /\ Literal(SplitArgs(c.raw).path) => ParseRequest(c.raw) = SplitArgs(c.raw)
    BY <1>1, Parsed, Zenon
<1>4. QED
    BY <1>2, <1>3, Zenon DEF Parts, GoodURI

\* A request that arrives.
LEMMA ArriveKeeps ==
    ASSUME SiteRendered, NEW c \in Clients, GoodURI(ParseRequest(c.raw))
    PROVE  OnItsWay(Routed(Blank(c), ParseRequest(c.raw)))
<1> DEFINE q == Blank(c)
           u == ParseRequest(c.raw)
           r == Routed(q, u)
<1>1. Shaped(q) /\ q.client = c /\ q.ran = {} /\ q.changed = FALSE /\ q.resp = Unanswered
    BY BlankIs DEF Shaped
<1>2. /\ GoodURI(u)
      /\ Literal(SplitArgs(c.raw).path) => u = SplitArgs(c.raw)
    BY RawParsed
<1> HIDE DEF q, u
<1>3. /\ Shaped(r) /\ SameWay(r, q) /\ r.resp = q.resp /\ r.uri = u
    BY <1>1, RoutedIs
<1>4. PICK i \in DOMAIN All : AtBehavior(r, i) /\ r.phase \in {"viewer", "lookup"}
    BY <1>1, <1>2, RoutedAt
<1> HIDE DEF r
<1>5. ~ Answered(r) /\ r.phase # "inner" /\ UnderWay(r)
    BY <1>4, Early
<1>6. r.client = c
    BY <1>1, <1>3 DEF SameWay
<1>7. HooksInOrder(r, Server(i))
    BY <1>5 DEF HooksInOrder
<1>8. URIsKept(r, i)
    BY <1>2, <1>3, <1>5, <1>6 DEF URIsKept
<1>9. At(r, i)
    BY <1>2, <1>3, <1>4, <1>5, <1>7, <1>8, Zenon DEF At
<1>10. OnItsWay(r)
    BY <1>1, <1>3, <1>6, <1>9, WayIs
<1>11. QED
    BY <1>10 DEF r, q, u

\* A function hands on a URI.
LEMMA InvokedIs ==
    ASSUME NEW kind \in FunctionKinds, NEW u, GoodURI(u), Invoked(kind, u).action = "continue"
    PROVE  GoodURI(Invoked(kind, u).uri)
<1>1. CASE kind \in {"echo", "status"}
  <2>1. Invoked(kind, u).uri = u
      BY <1>1 DEF Invoked
  <2>2. QED
      BY <2>1
<1>2. CASE kind = "prefix"
  <2> DEFINE p == u.path
             a == u.args
             front == <<"/", "a">>
             t == front \o p
  <2>1. u = [path |-> p, args |-> a] /\ Rooted(p) /\ a \in Seq(Letters)
      BY DEF GoodURI, IsURI
  <2>2. Invoked(kind, u).uri = [u EXCEPT !.path = t]
      BY <1>2 DEF Invoked
  <2> HIDE DEF p, a
  <2>3. [u EXCEPT !.path = t] = [path |-> t, args |-> a]
    <3> HIDE DEF t
    <3>1. QED
        BY <2>1
  <2>4. p \in Seq(Letters) /\ front \in Seq(Letters)
      BY <2>1 DEF Rooted, Letters
  <2>5. Len(front) = 2 /\ front[1] = "/" /\ front[2] = "a"
      OBVIOUS
  <2> HIDE DEF front
  <2>6. t \in Seq(Letters) /\ Joined(t, front, p)
      BY <2>4, Concat
  <2> HIDE DEF t
  <2> DEFINE n == Len(p)
  <2>7. n \in Nat /\ DOMAIN p = 1 .. n
      BY <2>4
  <2>8. Len(t) = 2 + n /\ DOMAIN t = 1 .. Len(t)
      BY <2>5, <2>6 DEF Joined
  <2>9. /\ t[1] = "/" /\ t[2] = "a" /\ \A i \in 1 .. n : t[2 + i] = p[i]
      BY <2>5, <2>6 DEF Joined
  <2> HIDE DEF n
  <2>10. Rooted(t)
      BY <2>6, <2>7, <2>8, <2>9 DEF Rooted
  <2> DEFINE v == [path |-> t, args |-> a]
  <2>12. v.path = t /\ v.args = a /\ IsURI(v)
      BY DEF IsURI
  <2>13. Invoked(kind, u).uri = v
      BY <2>2, <2>3
  <2> HIDE DEF v
  <2>14. QED
      BY <2>1, <2>10, <2>12, <2>13 DEF GoodURI
<1>3. CASE kind = "move"
  <2> DEFINE t == <<"/", "b">>
             a == <<"t">>
             v == [path |-> t, args |-> a]
  <2>1. Invoked(kind, u).uri = v
      BY <1>3 DEF Invoked
  <2>2. t \in Seq(Letters) /\ a \in Seq(Letters)
      BY DEF Letters
  <2>3. t[1] = "/" /\ Len(t) = 2 /\ DOMAIN t = 1 .. 2 /\ t[2] = "b"
      OBVIOUS
  <2> HIDE DEF t, a
  <2>4. v.path = t /\ v.args = a /\ IsURI(v)
      BY DEF IsURI
  <2> HIDE DEF v
  <2>5. Rooted(t)
      BY <2>2, <2>3 DEF Rooted
  <2>6. QED
      BY <2>1, <2>2, <2>4, <2>5 DEF GoodURI
<1>4. CASE kind = "respond"
  <2>1. Invoked(kind, u).action = "short_circuit"
      BY <1>4 DEF Invoked
  <2>2. QED
      BY <2>1
<1>5. QED
    BY <1>1, <1>2, <1>3, <1>4 DEF FunctionKinds

\* The answer to a hook: an error, a short circuit, or a URI to go on with.
LEMMA HookIs ==
    ASSUME site \in Sites, NEW event \in EdgeHooks, NEW u, GoodURI(u),
           NEW res \in runEdgeFunction(event, u), res.action = "continue"
    PROVE  GoodURI(res.uri)
<1>1. PICK d \in EdgeDistributions, ps \in PolicySets, f \in Functions :
          site = [dist |-> d, conf |-> renderConf(d, <<>>, EdgeID).val,
                  policies |-> POLICIES(IF ps = None THEN None ELSE buildPoliciesJSON(ps)),
                  function |-> f]
    BY DEF Sites
<1>2. site.function = f
    BY <1>1
<1>3. f \in [EdgeHooks -> FunctionKinds]
    BY RequestAssumption
<1>4. site.function[event] \in FunctionKinds
    BY <1>2, <1>3
<1>5. res = Invoked(site.function[event], u)
    BY DEF runEdgeFunction, FailOpen
<1>6. QED
    BY <1>4, <1>5, InvokedIs, Zenon

\* A request that is over without the origin is no longer at any behaviour.
LEMMA Ended ==
    ASSUME NEW r, Shaped(r), r.client \in Clients, NEW resp,
           DOMAIN resp = DOMAIN Unanswered, resp.from # "origin"
    PROVE  OnItsWay(Finished(r, resp))
<1> DEFINE q == Finished(r, resp)
<1>1. Shaped(q) /\ SameWay(q, r) /\ q.phase = "done" /\ q.resp = resp
    BY FinishedIs
<1> HIDE DEF q
<1>2. ~ UnderWay(q)
    BY <1>1 DEF UnderWay, Fetched
<1>3. OnItsWay(q)
    BY <1>1, <1>2, WayIs DEF SameWay
<1>4. QED
    BY <1>3 DEF q

\* viewerRequest.
LEMMA ViewerKeeps ==
    ASSUME site \in Sites, OnItsWay(req), viewerRequest
    PROVE  OnItsWay(req')
<1>0. SiteRendered /\ PlacesDiffer /\ PoliciesDiffer
    BY SiteIs
<1>1. PICK res \in runEdgeFunction("viewer-request", req.uri) :
          LET forward == Location(site.conf, req.uri.path).forward
              target == IF res.action = "continue" THEN computeOverrideTarget(req.uri, res.uri)
                        ELSE <<>>
              r == [req EXCEPT !.ran = @ \cup {"viewer-request"},
                               !.changed = @ \/ Changes(res, req.uri),
                               !.rewritten = @ \/ target # <<>>]
              q == [r EXCEPT !.hops = @ + 1]
          IN req' = CASE res.action = "short_circuit" ->
                           Finished(r, Response(res.status, "function"))
                      [] res.action # "short_circuit" /\ target # <<>> ->
                           Redirected(r, Routed(q, ParseTarget(target)))
                      [] OTHER -> Redirected(r, Named(q, forward))
    BY DEF viewerRequest
<1> DEFINE forward == Location(site.conf, req.uri.path).forward
           target == IF res.action = "continue" THEN computeOverrideTarget(req.uri, res.uri)
                     ELSE <<>>
           r == [req EXCEPT !.ran = @ \cup {"viewer-request"},
                            !.changed = @ \/ Changes(res, req.uri),
                            !.rewritten = @ \/ target # <<>>]
           q == [r EXCEPT !.hops = @ + 1]
<1>2. Shaped(req) /\ req.client \in Clients /\ req.phase = "viewer"
    BY WayIs DEF viewerRequest
<1>3. UnderWay(req)
    BY <1>2 DEF UnderWay
<1>4. PICK i \in DOMAIN All : At(req, i)
    BY <1>3, WayIs
<1>5. \/ req' = Finished(r, Response(res.status, "function"))
      \/ req' = Finished(r, Response(500, "nginx"))
      \/ target # <<>> /\ req' = Routed(q, ParseTarget(target))
      \/ req' = Named(q, forward)
  <2> HIDE DEF forward, target, r, q
  <2>1. req' = CASE res.action = "short_circuit" -> Finished(r, Response(res.status, "function"))
                 [] res.action # "short_circuit" /\ target # <<>> ->
                      Redirected(r, Routed(q, ParseTarget(target)))
                 [] OTHER -> Redirected(r, Named(q, forward))
      BY <1>1 DEF q, r, target, forward
  <2>2. \/ req' = Finished(r, Response(res.status, "function"))
        \/ target # <<>> /\ req' = Redirected(r, Routed(q, ParseTarget(target)))
        \/ req' = Redirected(r, Named(q, forward))
      BY <2>1
  <2>3. QED
      BY <2>2 DEF Redirected
<1>6. /\ Shaped(r) /\ r.client = req.client /\ SameRoute(r, req)
      /\ r.ran = req.ran \cup {"viewer-request"} /\ (r.changed <=> req.changed \/ Changes(res, req.uri))
      /\ r.phase = "viewer" /\ r.resp = req.resp
  <2> DEFINE ran == req.ran \cup {"viewer-request"}
             changed == req.changed \/ Changes(res, req.uri)
             rewritten == req.rewritten \/ target # <<>>
  <2>1. r = [req EXCEPT !.ran = ran, !.changed = changed, !.rewritten = rewritten]
      BY Zenon
  <2> HIDE DEF target, r, ran, changed, rewritten
  <2>2. /\ Shaped(r) /\ r.client = req.client /\ SameRoute(r, req)
        /\ r.ran = ran /\ r.changed = changed
        /\ r.phase = "viewer" /\ r.resp = req.resp
      BY <1>2, <2>1, BlankIs DEF Shaped, SameRoute
  <2>3. QED
      BY <2>2 DEF ran, changed
<1> HIDE DEF r
<1>7. Shaped(q) /\ SameWay(q, r) /\ SameRoute(q, r) /\ q.resp = req.resp
    BY <1>6, BlankIs DEF Shaped, SameWay, SameRoute
<1> HIDE DEF q
<1>8. CASE \/ req' = Finished(r, Response(res.status, "function"))
           \/ req' = Finished(r, Response(500, "nginx"))
    BY <1>2, <1>6, <1>8, Ended, ResponseIs
<1>9. CASE target # <<>> /\ req' = Routed(q, ParseTarget(target))
  <2> DEFINE v == res.uri
             u == ParseTarget(target)
  <2>1. res.action = "continue" /\ v # req.uri /\ target = WithArgs(v.path, v.args)
      BY <1>9 DEF computeOverrideTarget
  <2>2. GoodURI(req.uri)
      BY <1>4 DEF At
  <2>3. GoodURI(v)
    <3>1. "viewer-request" \in EdgeHooks
        BY DEF EdgeHooks
    <3>2. QED
        BY <2>1, <2>2, <3>1, HookIs, Zenon
  <2> HIDE DEF target, v
  <2>4. GoodURI(u)
    <3>1. Rooted(target)
        BY <2>1, <2>3, WithArgsRooted DEF GoodURI
    <3>2. QED
        BY <3>1, Parsed, Zenon
  <2> HIDE DEF u
  <2>6. Shaped(req') /\ SameWay(req', q) /\ req'.resp = q.resp /\ req'.uri = u
      BY <1>7, <1>9, RoutedIs DEF u
  <2>7. PICK j \in DOMAIN All : AtBehavior(req', j) /\ req'.phase \in {"viewer", "lookup"}
      BY <1>0, <1>7, <1>9, <2>4, RoutedAt DEF u
  <2>8. ~ Answered(req') /\ req'.phase # "inner" /\ UnderWay(req')
      BY <2>7, Early
  <2>9. req'.client = req.client /\ req'.changed
      BY <1>6, <1>7, <2>1, <2>6 DEF SameWay, Changes, v
  <2>10. HooksInOrder(req', Server(j))
      BY <2>8 DEF HooksInOrder
  <2>11. URIsKept(req', j)
      BY <2>8, <2>9 DEF URIsKept
  <2>12. At(req', j)
      BY <2>4, <2>6, <2>7, <2>8, <2>10, <2>11, Zenon DEF At
  <2>13. DOMAIN req'.resp = DOMAIN Unanswered
      BY <1>7, <2>6, WayIs
  <2>14. QED
      BY <1>2, <2>6, <2>9, <2>12, <2>13, WayIs
<1>10. CASE req' = Named(q, forward)
  <2> DEFINE body == NamedLocation(site.conf, forward).body
  <2>1. req' = [q EXCEPT !.phase = "lookup", !.body = body]
      BY <1>10 DEF Named
  <2>2. /\ Location(site.conf, req.uri.path) = site.conf.outer[i]
        /\ req.at = site.conf.outer[i].location
        /\ hasViewerRequestAssociation(All[i])
      BY <1>2, <1>4 DEF At, AtBehavior
  <2>3. forward = forwardLocationName(OwnSan(i))
    <3>1. OuterOf(i)
        BY <1>0, OuterIs
    <3>2. QED
        BY <2>2, <3>1 DEF OuterOf
  <2>4. body = OwnBody(Server(i))
    <3> HIDE DEF forward
    <3>1. QED
        BY <1>0, <2>2, <2>3, ForwardIs
  <2> HIDE DEF body
  <2>5. /\ Shaped(req') /\ req'.client = req.client /\ req'.uri = req.uri /\ req'.at = req.at
        /\ req'.phase = "lookup" /\ req'.body = body /\ req'.resp = req.resp
        /\ req'.ran = q.ran /\ req'.changed = q.changed
      BY <1>6, <1>7, <2>1, BlankIs DEF Shaped, SameWay, SameRoute
  <2>6. ~ Answered(req') /\ req'.phase # "inner" /\ UnderWay(req')
      BY <2>5, Early
  <2>7. AtBehavior(req', i)
      BY <2>2, <2>4, <2>5 DEF AtBehavior
  <2>8. HooksInOrder(req', Server(i))
      BY <2>6 DEF HooksInOrder
  <2>9. ~ req'.changed => ~ req.changed
      BY <1>6, <1>7, <2>5 DEF SameWay
  <2>10. URIsKept(req', i)
      BY <1>4, <2>5, <2>6, <2>9 DEF At, URIsKept
  <2>11. At(req', i)
      BY <1>4, <2>5, <2>6, <2>7, <2>8, <2>10, Zenon DEF At
  <2>12. QED
      BY <1>2, <2>5, <2>11, WayIs
<1>11. QED
    BY <1>5, <1>8, <1>9, <1>10

\* The URI that a behaviour asks for, and what the hops make of it.
LEMMA AskedIs ==
    ASSUME NEW r, r.client \in Clients, NEW i, At(r, i), Literal(Asked(r, i).path)
    PROVE  LET u == Asked(r, i)
           IN /\ ParseRequest(WithArgs(u.path, u.args)) = u /\ ParseTarget(WithArgs(u.path, u.args)) = u
              /\ Encode(u.path) = u.path
<1> DEFINE u == Asked(r, i)
<1>1. GoodURI(r.uri) /\ GoodURI(SplitArgs(r.client.raw))
    BY RawParsed DEF At
<1>2. u = r.uri \/ u = SplitArgs(r.client.raw)
    BY DEF Asked
<1> HIDE DEF u
<1>3. GoodURI(u) /\ Literal(u.path)
    BY <1>1, <1>2 DEF u
<1>4. /\ ParseRequest(WithArgs(u.path, u.args)) = u /\ ParseTarget(WithArgs(u.path, u.args)) = u
      /\ Encode(u.path) = u.path
    BY <1>3, HopKeeps, Zenon
<1>5. QED
    BY <1>4 DEF u

\* What does not depend on the hop.
LEMMA SameAsked ==
    ASSUME NEW r, NEW q, q.client = r.client, SameRoute(q, r), NEW i, At(r, i),
           r.phase # "viewer", q.phase # "viewer"
    PROVE  GoodURI(q.uri) /\ AtBehavior(q, i) /\ Asked(q, i) = Asked(r, i)
BY DEF SameRoute, At, AtBehavior, Asked

\* The cache, and the entry of the inner server.
LEMMA LookupKeeps ==
    ASSUME site \in Sites, OnItsWay(req), \A k \in DOMAIN cache : WellFiled(k, cache[k]), Lookup
    PROVE  OnItsWay(req')
<1>0. SiteRendered /\ PlacesDiffer /\ PoliciesDiffer
    BY SiteIs
<1>1. Shaped(req) /\ req.client \in Clients /\ req.phase = "lookup"
    BY WayIs DEF Lookup
<1>2. PICK i \in DOMAIN All : At(req, i)
    BY <1>1, WayIs DEF UnderWay
<1>3. CASE CachedMethod /\ Key \in DOMAIN cache
  <2> DEFINE resp == cache[Key].resp
             q == Finished(req, resp)
  <2>1. req' = [q EXCEPT !.hit = TRUE]
      BY <1>3 DEF Lookup
  <2>2. DOMAIN resp = DOMAIN Unanswered
      BY <1>3 DEF WellFiled
  <2>3. Shaped(q) /\ SameWay(q, req) /\ q.phase = "done" /\ q.resp = resp
      BY <1>1, FinishedIs
  <2> HIDE DEF resp, q
  <2>4. Shaped(req') /\ req'.client = req.client /\ req'.phase = "done" /\ req'.hit = TRUE
        /\ req'.resp = resp
      BY <2>1, <2>3, BlankIs DEF Shaped, SameWay
  <2>5. ~ UnderWay(req')
      BY <2>4 DEF UnderWay, Fetched
  <2>6. QED
      BY <1>1, <2>2, <2>4, <2>5, WayIs
<1>4. CASE ~ (CachedMethod /\ Key \in DOMAIN cache)
  <2> DEFINE target == req.body.target
             u == ParseRequest(IF req.body.uri = "$uri" THEN WithArgs(req.uri.path, req.uri.args)
                               ELSE req.client.raw)
  <2>1. req' = Enter(req, target, u)
      BY <1>4 DEF Lookup
  <2> DEFINE s == Server(i)
  <2>0. s \in DOMAIN All /\ (hasViewerRequestAssociation(All[s]) <=> hasViewerRequestAssociation(All[i]))
      BY <1>0, ServerIs DEF Serving
  <2>2. req.body = OwnBody(s)
      BY <1>1, <1>2 DEF At, AtBehavior
  <2> HIDE DEF s
  <2>3. Entered(s, InnerAt(target))
      BY <1>0, <2>0, <2>2, EntryIs
  <2>4. ASSUME Literal(Asked(req, i).path) PROVE u = Asked(req, i)
    <3>1. req.body.uri = "$uri" <=> hasViewerRequestAssociation(All[i])
        BY <2>0, <2>2, BodyIs
    <3>2. CASE hasViewerRequestAssociation(All[i])
      <4>1. Asked(req, i) = req.uri
          BY <3>2 DEF Asked
      <4>2. ParseRequest(WithArgs(req.uri.path, req.uri.args)) = req.uri
          BY <1>1, <1>2, <2>4, <4>1, AskedIs
      <4>3. u = ParseRequest(WithArgs(req.uri.path, req.uri.args))
          BY <3>1, <3>2
      <4>4. QED
          BY <4>1, <4>2, <4>3
    <3>3. CASE ~ hasViewerRequestAssociation(All[i])
      <4>1. Asked(req, i) = SplitArgs(req.client.raw)
          BY <3>3 DEF Asked
      <4>2. ParseRequest(req.client.raw) = SplitArgs(req.client.raw)
          BY <1>1, <2>4, <4>1, RawParsed
      <4>3. u = ParseRequest(req.client.raw)
          BY <3>1, <3>3
      <4>4. QED
          BY <4>1, <4>2, <4>3
    <3>4. QED
        BY <3>2, <3>3
  <2> HIDE DEF u, target
  <2>5. /\ Shaped(req') /\ SameWay(req', req) /\ SameRoute(req', req) /\ req'.resp = req.resp
        /\ req'.phase = "inner" /\ req'.below = u /\ req'.inner = InnerAt(target)
      BY <1>1, <2>1, EnterIs
  <2>6. req'.client = req.client /\ req'.ran = req.ran /\ req'.changed = req.changed
        /\ req'.uri = req.uri
      BY <2>5 DEF SameWay, SameRoute
  <2>7. GoodURI(req'.uri) /\ AtBehavior(req', i) /\ Asked(req', i) = Asked(req, i)
      BY <1>1, <1>2, <2>5, <2>6, SameAsked
  <2>8. ~ Answered(req')
      BY <2>5 DEF Answered, Fetched
  <2>9. HooksInOrder(req', Server(i))
      BY <2>3, <2>5, <2>8 DEF HooksInOrder, Entered, s
  <2>10. URIsKept(req', i)
      BY <1>2, <2>4, <2>5, <2>6, <2>7, <2>8 DEF At, URIsKept
  <2>11. At(req', i)
      BY <2>7, <2>8, <2>9, <2>10, Zenon DEF At
  <2>12. DOMAIN req'.resp = DOMAIN Unanswered
      BY <2>5, WayIs
  <2>13. QED
      BY <1>1, <2>5, <2>6, <2>11, <2>12, WayIs
<1>5. QED
    BY <1>3, <1>4

\* A request in a location of the inner server.
LEMMA InnerHere ==
    ASSUME site \in Sites, OnItsWay(req), req.phase = "inner"
    PROVE  /\ Shaped(req) /\ req.client \in Clients /\ DOMAIN req.resp = DOMAIN Unanswered
           /\ \E i \in DOMAIN All : At(req, i) /\ LedOn(Server(i), req.inner)
<1>0. SiteRendered /\ PlacesDiffer /\ PoliciesDiffer
    BY SiteIs
<1>1. /\ Shaped(req) /\ req.client \in Clients /\ DOMAIN req.resp = DOMAIN Unanswered
    BY WayIs
<1>2. PICK i \in DOMAIN All : At(req, i)
    BY WayIs DEF UnderWay
<1> DEFINE s == Server(i)
<1>3. s \in DOMAIN All /\ req.inner \in site.conf.inner /\ req.inner.location[2] = OwnSan(s)
    BY <1>0, <1>2, ServerIs DEF At, HooksInOrder, Serving
<1> HIDE DEF s
<1>4. LedOn(Server(i), req.inner)
    BY <1>0, <1>3, NextIs DEF s
<1>5. QED
    BY <1>1, <1>2, <1>4

\* The fetch of runOriginResponse.
LEMMA FetchKeeps ==
    ASSUME site \in Sites, OnItsWay(req), FetchOrigin
    PROVE  OnItsWay(req')
<1>1. req.phase = "inner" /\ req.inner.content = "edge.runOriginResponse"
    BY DEF FetchOrigin, InLocation
<1>2. Shaped(req) /\ req.client \in Clients /\ DOMAIN req.resp = DOMAIN Unanswered
    BY <1>1, InnerHere
<1>3. PICK i \in DOMAIN All : At(req, i) /\ LedOn(Server(i), req.inner)
    BY <1>1, InnerHere
<1> DEFINE u == ParseRequest(WithArgs(req.below.path, req.below.args))
           q == Enter(req, req.inner.next, u)
<1>4. CASE req' = [q EXCEPT !.wrapped = TRUE]
  <2>1. /\ Shaped(q) /\ SameWay(q, req) /\ SameRoute(q, req) /\ q.resp = req.resp
        /\ q.phase = "inner" /\ q.below = u /\ q.inner = InnerAt(req.inner.next)
      BY <1>2, EnterIs
  <2>2. (Literal(Asked(req, i).path) /\ req.below = Asked(req, i)) => u = Asked(req, i)
      BY <1>2, <1>3, AskedIs
  <2> HIDE DEF q, u
  <2>3. /\ Shaped(req') /\ req'.client = req.client /\ SameRoute(req', req)
        /\ req'.resp = req.resp /\ req'.ran = req.ran /\ req'.changed = req.changed
        /\ req'.phase = "inner" /\ req'.below = u /\ req'.inner = InnerAt(req.inner.next)
        /\ req'.wrapped = TRUE
      BY <1>4, <2>1, BlankIs DEF Shaped, SameWay, SameRoute
  <2>4. GoodURI(req'.uri) /\ AtBehavior(req', i) /\ Asked(req', i) = Asked(req, i)
      BY <1>1, <1>3, <2>3, SameAsked
  <2>5. ~ Answered(req')
      BY <2>3 DEF Answered, Fetched
  <2>6. HooksInOrder(req', Server(i))
      BY <1>1, <1>3, <2>3, <2>5 DEF HooksInOrder, LedOn
  <2>7. req'.uri = req.uri
      BY <2>3 DEF SameRoute
  <2>8. URIsKept(req', i)
      BY <1>1, <1>3, <2>2, <2>3, <2>4, <2>5, <2>7 DEF At, URIsKept
  <2>9. At(req', i)
      BY <2>4, <2>5, <2>6, <2>8, Zenon DEF At
  <2>10. QED
      BY <1>2, <2>3, <2>9, WayIs
<1>5. CASE req' = [req EXCEPT !.phase = "back", !.resp = Response(502, "nginx")]
  <2> DEFINE resp == Response(502, "nginx")
  <2>1. DOMAIN resp = DOMAIN Unanswered /\ resp.from = "nginx"
      BY ResponseIs
  <2> HIDE DEF resp
  <2>2. /\ Shaped(req') /\ req'.client = req.client /\ SameRoute(req', req)
        /\ req'.resp = resp /\ req'.ran = req.ran /\ req'.changed = req.changed
        /\ req'.phase = "back"
      BY <1>2, <1>5, BlankIs DEF Shaped, SameRoute, resp
  <2>3. GoodURI(req'.uri) /\ AtBehavior(req', i) /\ Asked(req', i) = Asked(req, i)
      BY <1>1, <1>3, <2>2, SameAsked
  <2>4. ~ Answered(req')
      BY <2>1, <2>2 DEF Answered
  <2>5. HooksInOrder(req', Server(i))
      BY <2>2, <2>4 DEF HooksInOrder
  <2>6. req'.uri = req.uri
      BY <2>2 DEF SameRoute
  <2>7. URIsKept(req', i)
      BY <1>3, <2>2, <2>3, <2>4, <2>6 DEF At, URIsKept
  <2>8. At(req', i)
      BY <2>3, <2>4, <2>5, <2>7, Zenon DEF At
  <2>9. QED
      BY <1>2, <2>1, <2>2, <2>8, WayIs
<1>6. QED
    BY <1>4, <1>5 DEF FetchOrigin

\* runOriginRequest.
LEMMA OriginRequestKeeps ==
    ASSUME site \in Sites, OnItsWay(req), runOriginRequest
    PROVE  OnItsWay(req')
<1>1. req.phase = "inner" /\ req.inner.content = "edge.runOriginRequest"
    BY DEF runOriginRequest, InLocation
<1>2. Shaped(req) /\ req.client \in Clients /\ DOMAIN req.resp = DOMAIN Unanswered
    BY <1>1, InnerHere
<1>3. PICK i \in DOMAIN All : At(req, i) /\ LedOn(Server(i), req.inner)
    BY <1>1, InnerHere
<1>4. PICK res \in runEdgeFunction("origin-request", req.below) :
          LET final == IF res.action = "continue" THEN res.uri ELSE req.below
              r == [req EXCEPT !.ran = @ \cup {"origin-request"},
                               !.changed = @ \/ Changes(res, req.below)]
          IN req' = IF res.action = "short_circuit"
                    THEN [r EXCEPT !.phase = "back", !.resp = Response(res.status, "function")]
                    ELSE Enter(r, req.inner.next,
                               ParseTarget(originRequestRedirectTarget(final.path, final.args)))
    BY DEF runOriginRequest
<1> DEFINE final == IF res.action = "continue" THEN res.uri ELSE req.below
           r == [req EXCEPT !.ran = @ \cup {"origin-request"},
                            !.changed = @ \/ Changes(res, req.below)]
           u == ParseTarget(WithArgs(final.path, final.args))
<1>5. req' = IF res.action = "short_circuit"
             THEN [r EXCEPT !.phase = "back", !.resp = Response(res.status, "function")]
             ELSE Enter(r, req.inner.next, u)
    BY <1>4, Zenon DEF originRequestRedirectTarget
<1>6. /\ Shaped(r) /\ r.client = req.client /\ SameRoute(r, req)
      /\ r.ran = req.ran \cup {"origin-request"}
      /\ (r.changed <=> req.changed \/ Changes(res, req.below))
      /\ r.wrapped = req.wrapped /\ r.resp = req.resp
  <2> DEFINE ran == req.ran \cup {"origin-request"}
             changed == req.changed \/ Changes(res, req.below)
  <2>1. r = [req EXCEPT !.ran = ran, !.changed = changed]
      BY Zenon
  <2> HIDE DEF r, ran, changed
  <2>2. /\ Shaped(r) /\ r.client = req.client /\ SameRoute(r, req)
        /\ r.ran = ran /\ r.changed = changed
        /\ r.wrapped = req.wrapped /\ r.resp = req.resp
      BY <1>2, <2>1, BlankIs DEF Shaped, SameRoute
  <2>3. QED
      BY <2>2 DEF ran, changed
<1>7. ASSUME ~ r.changed, res.action # "short_circuit" PROVE final = req.below
    BY <1>6, <1>7 DEF Changes
<1> HIDE DEF r, final
<1>8. CASE res.action = "short_circuit"
  <2> DEFINE resp == Response(res.status, "function")
  <2>1. DOMAIN resp = DOMAIN Unanswered /\ resp.from = "function"
      BY ResponseIs
  <2>2. req' = [r EXCEPT !.phase = "back", !.resp = resp]
      BY <1>5, <1>8
  <2> HIDE DEF resp
  <2>3. /\ Shaped(req') /\ req'.client = req.client /\ SameRoute(req', req)
        /\ req'.resp = resp /\ req'.ran = r.ran /\ req'.changed = r.changed
        /\ req'.phase = "back"
      BY <1>6, <2>2, BlankIs DEF Shaped, SameRoute
  <2>4. GoodURI(req'.uri) /\ AtBehavior(req', i)
      BY <1>1, <1>3, <2>3, SameAsked
  <2>5. ~ Answered(req')
      BY <2>1, <2>3 DEF Answered
  <2>6. HooksInOrder(req', Server(i))
      BY <2>3, <2>5 DEF HooksInOrder
  <2>7. req'.uri = req.uri /\ (~ req'.changed => ~ req.changed)
      BY <1>6, <2>3 DEF SameRoute
  <2>8. URIsKept(req', i)
      BY <1>3, <2>3, <2>5, <2>7 DEF At, URIsKept
  <2>9. At(req', i)
      BY <2>4, <2>5, <2>6, <2>8, Zenon DEF At
  <2>10. QED
      BY <1>2, <2>1, <2>3, <2>9, WayIs
<1>9. CASE res.action # "short_circuit"
  <2>1. req' = Enter(r, req.inner.next, u)
      BY <1>5, <1>9
  <2>2. (Literal(Asked(req, i).path) /\ final = Asked(req, i)) => u = Asked(req, i)
      BY <1>2, <1>3, AskedIs
  <2> HIDE DEF u
  <2>3. /\ Shaped(req') /\ SameWay(req', r) /\ SameRoute(req', r) /\ req'.resp = req.resp
        /\ req'.phase = "inner" /\ req'.below = u /\ req'.inner = InnerAt(req.inner.next)
        /\ req'.wrapped = req.wrapped
      BY <1>6, <2>1, EnterIs
  <2>4. /\ req'.client = req.client /\ SameRoute(req', req) /\ req'.uri = req.uri
        /\ req'.ran = req.ran \cup {"origin-request"} /\ req'.changed = r.changed
        /\ (~ req'.changed => ~ req.changed)
      BY <1>6, <2>3 DEF SameWay, SameRoute
  <2>5. GoodURI(req'.uri) /\ AtBehavior(req', i) /\ Asked(req', i) = Asked(req, i)
      BY <1>1, <1>3, <2>3, <2>4, SameAsked
  <2>6. ~ Answered(req')
      BY <2>3 DEF Answered, Fetched
  <2>7. HooksInOrder(req', Server(i))
    <3>1. hasOriginResponseAssociation(All[Server(i)]) => req.wrapped
        BY <1>1, <1>3 DEF At, HooksInOrder
    <3>2. QED
        BY <1>1, <1>3, <2>3, <2>4, <2>6, <3>1 DEF HooksInOrder, LedOn
  <2>8. URIsKept(req', i)
    <3>1. URIsKept(req, i)
        BY <1>3 DEF At
    <3>2. ASSUME ~ req'.changed, Literal(Asked(req, i).path) PROVE req'.below = Asked(req', i)
      <4>1. req.below = Asked(req, i)
          BY <1>1, <2>4, <3>1, <3>2 DEF URIsKept
      <4>2. final = req.below
          BY <1>7, <1>9, <2>4, <3>2
      <4>3. QED
          BY <2>2, <2>3, <2>5, <3>2, <4>1, <4>2
    <3>3. QED
        BY <2>4, <2>5, <2>6, <3>1, <3>2 DEF URIsKept
  <2>9. At(req', i)
      BY <2>5, <2>6, <2>7, <2>8, Zenon DEF At
  <2>10. QED
      BY <1>2, <2>3, <2>4, <2>9, WayIs
<1>10. QED
    BY <1>8, <1>9

\* The origin answers, and ttl.js adds its header.
LEMMA OriginKeeps ==
    ASSUME site \in Sites, OnItsWay(req), NEW reply \in Replies, Origin(reply)
    PROVE  OnItsWay(req')
<1>1. req.phase = "inner" /\ req.inner.content = "origin"
    BY DEF Origin, InLocation
<1>2. Shaped(req) /\ req.client \in Clients
    BY <1>1, InnerHere
<1>3. PICK i \in DOMAIN All : At(req, i) /\ LedOn(Server(i), req.inner)
    BY <1>1, InnerHere
<1> DEFINE ttl == computeAndInject(site.policies, req.inner.policy, reply.control)
           seen == WithArgs(Encode(req.below.path), req.below.args)
           resp == [status |-> reply.status, from |-> "origin",
                    expires |-> ttl.expires, error |-> ttl.error,
                    seen |-> seen, age |-> reply.control]
<1>4. req' = [req EXCEPT !.phase = "back", !.resp = resp]
    BY DEF Origin
<1>5. req.inner.policy = All[i].policy
  <2>1. req.inner.policy = All[Server(i)].policy
      BY <1>1, <1>3 DEF LedOn
  <2>2. SiteRendered /\ PoliciesDiffer
      BY SiteIs
  <2>3. QED
      BY <2>1, <2>2, ServerIs DEF Serving
<1>6. (Literal(Asked(req, i).path) /\ req.below = Asked(req, i)) =>
          seen = WithArgs(Asked(req, i).path, Asked(req, i).args)
  <2>1. HAVE Literal(Asked(req, i).path) /\ req.below = Asked(req, i)
  <2>2. Encode(Asked(req, i).path) = Asked(req, i).path
      BY <1>2, <1>3, <2>1, AskedIs
  <2>3. QED
      BY <2>1, <2>2
<1> HIDE DEF seen, ttl
<1>7. /\ resp.from = "origin" /\ resp.expires = ttl.expires /\ resp.error = ttl.error
      /\ resp.seen = seen /\ resp.age = reply.control
      /\ DOMAIN resp = DOMAIN Unanswered
    BY DEF Unanswered, Response
<1> HIDE DEF resp
<1>8. Timed(resp, All[i].policy)
    BY <1>5, <1>7, Zenon DEF Timed, ttl
<1>9. /\ Shaped(req') /\ req'.client = req.client /\ SameRoute(req', req)
      /\ req'.resp = resp /\ req'.ran = req.ran /\ req'.changed = req.changed
      /\ req'.wrapped = req.wrapped /\ req'.phase = "back"
    BY <1>2, <1>4, BlankIs DEF Shaped, SameRoute
<1>10. GoodURI(req'.uri) /\ AtBehavior(req', i) /\ Asked(req', i) = Asked(req, i)
    BY <1>1, <1>3, <1>9, SameAsked
<1>11. HooksInOrder(req', Server(i))
  <2>1. /\ hasOriginResponseAssociation(All[Server(i)]) => req.wrapped
        /\ hasOriginRequestAssociation(All[Server(i)]) => "origin-request" \in req.ran
      BY <1>1, <1>3 DEF At, HooksInOrder
  <2>2. QED
      BY <1>9, <2>1 DEF HooksInOrder
<1>12. req'.uri = req.uri
    BY <1>9 DEF SameRoute
<1>13. URIsKept(req', i)
    BY <1>1, <1>3, <1>6, <1>7, <1>9, <1>10, <1>12 DEF At, URIsKept
<1>14. At(req', i)
    BY <1>8, <1>9, <1>10, <1>11, <1>13, Zenon DEF At
<1>15. QED
    BY <1>2, <1>7, <1>9, <1>14, WayIs

\* runOriginResponse.
LEMMA OriginResponseKeeps ==
    ASSUME site \in Sites, OnItsWay(req), runOriginResponse
    PROVE  OnItsWay(req')
<1>1. req.phase = "back" /\ req.wrapped
    BY DEF runOriginResponse
<1>2. Shaped(req) /\ req.client \in Clients /\ DOMAIN req.resp = DOMAIN Unanswered
    BY WayIs
<1>3. PICK i \in DOMAIN All : At(req, i)
    BY <1>1, WayIs DEF UnderWay
<1>4. PICK res \in runEdgeFunction("origin-response", req.uri) :
          req' = [req EXCEPT !.wrapped = FALSE,
                    !.ran = @ \cup {"origin-response"},
                    !.changed = @ \/ Changes(res, req.uri),
                    !.resp = returnOriginResponse(req.resp,
                                IF res.action = "continue" /\ res.status # None
                                THEN res.status ELSE req.resp.status)]
    BY DEF runOriginResponse
<1> DEFINE ran == req.ran \cup {"origin-response"}
           changed == req.changed \/ Changes(res, req.uri)
           status == IF res.action = "continue" /\ res.status # None
                     THEN res.status ELSE req.resp.status
           resp == returnOriginResponse(req.resp, status)
<1>5. req' = [req EXCEPT !.wrapped = FALSE, !.ran = ran, !.changed = changed, !.resp = resp]
    BY <1>4, Zenon
<1>6. /\ resp.from = req.resp.from /\ resp.expires = req.resp.expires
      /\ resp.error = req.resp.error /\ resp.seen = req.resp.seen /\ resp.age = req.resp.age
      /\ DOMAIN resp = DOMAIN Unanswered
  <2> HIDE DEF status
  <2>1. QED
      BY <1>2 DEF returnOriginResponse, Unanswered, Response
<1> HIDE DEF ran, changed, resp
<1>7. /\ Shaped(req') /\ req'.client = req.client /\ SameRoute(req', req)
      /\ req'.resp = resp /\ req'.ran = ran /\ req'.changed = changed
      /\ req'.phase = "back"
    BY <1>1, <1>2, <1>5, BlankIs DEF Shaped, SameRoute
<1>8. /\ "origin-response" \in req'.ran
      /\ "origin-request" \in req'.ran <=> "origin-request" \in req.ran
      /\ ~ req'.changed => ~ req.changed
    BY <1>7 DEF ran, changed
<1>9. GoodURI(req'.uri) /\ AtBehavior(req', i) /\ Asked(req', i) = Asked(req, i)
    BY <1>1, <1>3, <1>7, SameAsked
<1>10. Answered(req') => Answered(req)
    BY <1>1, <1>6, <1>7 DEF Answered
<1>11. HooksInOrder(req', Server(i))
    BY <1>3, <1>7, <1>8, <1>10 DEF At, HooksInOrder
<1>12. req'.uri = req.uri
    BY <1>7 DEF SameRoute
<1>13. URIsKept(req', i)
    BY <1>3, <1>6, <1>7, <1>8, <1>9, <1>10, <1>12 DEF At, URIsKept
<1>14. Answered(req') => Timed(req'.resp, All[i].policy)
    BY <1>3, <1>6, <1>7, <1>10 DEF At, Timed
<1>15. At(req', i)
    BY <1>9, <1>11, <1>13, <1>14, Zenon DEF At
<1>16. QED
    BY <1>2, <1>6, <1>7, <1>15, WayIs

\* The end of a request that was not answered from the cache.
LEMMA StoreEnds ==
    ASSUME site \in Sites, OnItsWay(req), Store
    PROVE  OnItsWay(req')
<1>1. req.phase = "back" /\ ~ req.wrapped /\ req' = Finished(req, req.resp)
    BY DEF Store
<1>2. Shaped(req) /\ req.client \in Clients /\ DOMAIN req.resp = DOMAIN Unanswered
    BY WayIs
<1>3. PICK i \in DOMAIN All : At(req, i)
    BY <1>1, WayIs DEF UnderWay
<1>4. /\ Shaped(req') /\ SameWay(req', req) /\ SameRoute(req', req)
      /\ req'.phase = "done" /\ req'.resp = req.resp
    BY <1>1, <1>2, FinishedIs
<1>5. /\ req'.client = req.client /\ req'.ran = req.ran /\ req'.changed = req.changed
      /\ req'.uri = req.uri
    BY <1>4 DEF SameWay, SameRoute
<1>6. GoodURI(req'.uri) /\ AtBehavior(req', i) /\ Asked(req', i) = Asked(req, i)
    BY <1>1, <1>3, <1>4, <1>5, SameAsked
<1>7. Answered(req') => Answered(req)
    BY <1>1, <1>4 DEF Answered
<1>8. HooksInOrder(req', Server(i))
    BY <1>1, <1>3, <1>4, <1>5, <1>7 DEF At, HooksInOrder
<1>9. URIsKept(req', i)
    BY <1>3, <1>4, <1>5, <1>6, <1>7 DEF At, URIsKept
<1>10. At(req', i)
    BY <1>3, <1>4, <1>6, <1>7, <1>8, <1>9, Zenon DEF At
<1>11. QED
    BY <1>2, <1>4, <1>5, <1>10, WayIs

\* A response that is stored is filed under the key of its request.
LEMMA StoreFiles ==
    ASSUME site \in Sites, OnItsWay(req), \A k \in DOMAIN cache : WellFiled(k, cache[k]), Store
    PROVE  \A k \in DOMAIN cache' : WellFiled(k, cache'[k])
<1>1. req.phase = "back"
    BY DEF Store
<1>2. DOMAIN req.resp = DOMAIN Unanswered
    BY WayIs
<1>3. PICK i \in DOMAIN All : At(req, i)
    BY <1>1, WayIs DEF UnderWay
<1>4. CASE UNCHANGED cache
    BY <1>4
<1> DEFINE key == Key
           e == [resp |-> req.resp, lifetime |-> Lifetime(req.resp),
                 client |-> Client, policy |-> req.body.policy]
<1>5. ASSUME Lifetime(req.resp) > 0, NEW kept \in SUBSET (DOMAIN cache \ {key}),
             cache' = [k \in kept \cup {key} |-> IF k = key THEN e ELSE cache[k]]
      PROVE  \A k \in DOMAIN cache' : WellFiled(k, cache'[k])
  <2>1. /\ e.resp = req.resp /\ e.lifetime = Lifetime(req.resp)
        /\ e.client = Client /\ e.policy = req.body.policy
      OBVIOUS
  <2> HIDE DEF e
  <2>2. req.body = OwnBody(Server(i)) /\ Location(site.conf, req.uri.path) = site.conf.outer[i]
      BY <1>1, <1>3 DEF At, AtBehavior
  <2>3. e.policy = All[i].policy
    <3>1. e.policy = All[Server(i)].policy
        BY <2>1, <2>2, BodyIs
    <3>2. SiteRendered /\ PoliciesDiffer
        BY SiteIs
    <3>3. QED
        BY <3>1, <3>2, ServerIs DEF Serving
  <2>4. FiledRight(key, e)
    <3> DEFINE policy == getPolicy(site.policies, e.policy)
    <3>1. key = IF policy = None THEN NoPolicyKey ELSE compute(req.uri.path, e.client, policy)
        BY <2>1 DEF Key, forNginx
    <3>2. policy # None => key.uri = req.uri.path
        BY <3>1 DEF compute
    <3> HIDE DEF key
    <3>3. QED
        BY <2>2, <2>3, <3>1, <3>2 DEF FiledRight
  <2>5. e.resp.from = "origin" => Timed(e.resp, e.policy)
    <3>1. req.resp.from = "origin" => Answered(req)
        BY <1>1 DEF Answered
    <3>2. QED
        BY <1>3, <2>1, <2>3, <3>1 DEF At
  <2>6. WellFiled(key, e)
      BY <1>2, <1>5, <2>1, <2>4, <2>5 DEF WellFiled
  <2> HIDE DEF key
  <2>7. \A k \in kept : WellFiled(k, cache[k])
      OBVIOUS
  <2>8. QED
      BY <1>5, <2>6, <2>7
<1>6. QED
    BY <1>4, <1>5 DEF Store
-----------------------------------------------------------------------------
(* The invariant of the request path. *)

\* Initially no request is under way and nothing is cached.
LEMMA RequestInits ==
    ASSUME RequestInit PROVE RequestInv
<1>1. site \in Sites
    BY DEF RequestInit
<1>2. PICK c \in Clients : req = Blank(c)
    BY DEF RequestInit
<1>3. DOMAIN cache = {}
  <2>1. cache = <<>>
      BY DEF RequestInit
  <2>2. QED
      BY <2>1
<1>4. /\ Shaped(req) /\ req.client = c /\ req.resp = Unanswered
    BY <1>2, BlankIs DEF Shaped
<1>5. ~ UnderWay(req)
  <2>1. req.phase = "done"
      BY <1>2 DEF Blank
  <2>2. req.resp.from = "none"
      BY <1>4, ResponseIs DEF Unanswered
  <2>3. QED
      BY <2>1, <2>2 DEF UnderWay, Fetched
<1>6. OnItsWay(req)
    BY <1>4, <1>5, WayIs
<1>7. QED
    BY <1>1, <1>3, <1>6 DEF RequestInv

\* The site does not change, and what is said of a request or an entry rests on it.
LEMMA SameSite ==
    ASSUME site' = site, site \in Sites, OnItsWay(req'),
           \A k \in DOMAIN cache' : WellFiled(k, cache'[k])
    PROVE  RequestInv'
<1>1. All' = All
    BY DEF All
<1>2. \A i : OwnSan(i)' = OwnSan(i) /\ OwnBody(i)' = OwnBody(i)
    BY <1>1 DEF OwnSan, OwnBody
<1>3. \A i : Server(i)' = Server(i)
    BY <1>1, <1>2 DEF Server, Forwarding
<1>4. \A i : AtBehavior(req, i)' <=> AtBehavior(req', i)
    BY <1>1, <1>2, <1>3 DEF AtBehavior
<1>5. \A i : HooksInOrder(req, i)' <=> HooksInOrder(req', i)
    BY <1>1, <1>2 DEF HooksInOrder, Answered, Fetched
<1>6. \A i : URIsKept(req, i)' <=> URIsKept(req', i)
    BY <1>1 DEF URIsKept, Asked, Answered, Fetched
<1>7. \A i : Timed(req.resp, All[i].policy)' <=> Timed(req'.resp, All[i].policy)
    BY <1>1 DEF Timed
<1>8. OnItsWay(req)'
    BY <1>1, <1>3, <1>4, <1>5, <1>6, <1>7 DEF OnItsWay, UnderWay, Answered, Fetched
<1>9. \A k : WellFiled(k, cache[k])' <=> WellFiled(k, cache'[k])
    BY <1>1 DEF WellFiled, FiledRight, Timed
<1>10. QED
    BY <1>8, <1>9 DEF RequestInv

\* No step of nginx, of edge.js or of the origin disturbs the invariant.
LEMMA RequestNextPreserves ==
    ASSUME RequestInv, [RequestNext]_requestVars
    PROVE  RequestInv'
<1>1. site \in Sites /\ OnItsWay(req) /\ \A k \in DOMAIN cache : WellFiled(k, cache[k])
    BY DEF RequestInv
<1>2. ASSUME NEW c \in Clients, Arrive(c) PROVE RequestInv'
  <2> DEFINE u == ParseRequest(c.raw)
             r == Response(400, "nginx")
  <2>1. /\ site' = site /\ cache' = cache
        /\ req' = IF u.path = Above THEN Finished(Blank(c), r) ELSE Routed(Blank(c), u)
      BY <1>2, Zenon DEF Arrive
  <2>2. SiteRendered
      BY <1>1, SiteIs
  <2>3. OnItsWay(req')
    <3>1. CASE u.path = Above
      <4>1. Shaped(Blank(c)) /\ Blank(c).client \in Clients
          BY BlankIs DEF Shaped
      <4>2. DOMAIN r = DOMAIN Unanswered /\ r.from # "origin"
          BY ResponseIs
      <4> HIDE DEF u, r
      <4>3. QED
          BY <2>1, <3>1, <4>1, <4>2, Ended
    <3>2. CASE u.path # Above
      <4>1. GoodURI(u)
          BY <3>2, RawParsed
      <4>2. req' = Routed(Blank(c), u)
          BY <2>1, <3>2
      <4>3. QED
          BY <2>2, <4>1, <4>2, ArriveKeeps
    <3>3. QED
        BY <3>1, <3>2
  <2>4. QED
      BY <1>1, <2>1, <2>3, SameSite
<1>3. CASE viewerRequest
  <2>1. site' = site /\ cache' = cache
      BY <1>3 DEF viewerRequest
  <2>2. QED
      BY <1>1, <1>3, <2>1, ViewerKeeps, SameSite
<1>4. CASE Lookup
  <2>1. site' = site /\ cache' = cache
      BY <1>4 DEF Lookup
  <2>2. QED
      BY <1>1, <1>4, <2>1, LookupKeeps, SameSite
<1>5. CASE FetchOrigin
  <2>1. site' = site /\ cache' = cache
      BY <1>5 DEF FetchOrigin
  <2>2. QED
      BY <1>1, <1>5, <2>1, FetchKeeps, SameSite
<1>6. CASE runOriginRequest
  <2>1. site' = site /\ cache' = cache
      BY <1>6 DEF runOriginRequest
  <2>2. QED
      BY <1>1, <1>6, <2>1, OriginRequestKeeps, SameSite
<1>7. ASSUME NEW reply \in Replies, Origin(reply) PROVE RequestInv'
  <2>1. site' = site /\ cache' = cache
      BY <1>7 DEF Origin
  <2>2. OnItsWay(req')
      BY <1>1, <1>7, OriginKeeps
  <2>3. QED
      BY <1>1, <2>1, <2>2, SameSite
<1>8. CASE runOriginResponse
  <2>1. site' = site /\ cache' = cache
      BY <1>8 DEF runOriginResponse
  <2>2. QED
      BY <1>1, <1>8, <2>1, OriginResponseKeeps, SameSite
<1>9. CASE Store
  <2>1. site' = site
      BY <1>9 DEF Store
  <2>2. QED
      BY <1>1, <1>9, <2>1, StoreEnds, StoreFiles, SameSite
<1>10. ASSUME NEW key \in DOMAIN cache, Evict(key) PROVE RequestInv'
  <2>1. /\ site' = site /\ req' = req
        /\ cache' = [k \in DOMAIN cache \ {key} |-> cache[k]]
      BY <1>10 DEF Evict
  <2>2. \A k \in DOMAIN cache' : WellFiled(k, cache'[k])
      BY <1>1, <2>1
  <2>3. QED
      BY <1>1, <2>1, <2>2, SameSite
<1>11. CASE Purge
  <2>1. site' = site /\ req' = req /\ cache' = <<>>
      BY <1>11 DEF Purge
  <2>2. DOMAIN cache' = {}
      BY <2>1
  <2>3. QED
      BY <1>1, <2>1, <2>2, SameSite
<1>12. CASE UNCHANGED requestVars
  <2>1. site' = site /\ req' = req /\ cache' = cache
      BY <1>12 DEF requestVars
  <2>2. QED
      BY <1>1, <2>1, SameSite
<1>13. QED
    BY <1>2, <1>3, <1>4, <1>5, <1>6, <1>7, <1>8, <1>9, <1>10, <1>11, <1>12 DEF RequestNext

\* A request that is under way is at the behaviour that its URI leads to, in an inner
\* location of that behaviour's policy, with the hooks it has passed and the URI that the
\* hops hand on; every cached response is under the key of its client.
THEOREM RequestInductive == RequestSpec => []RequestInv
<1>1. RequestInit => RequestInv
    BY RequestInits
<1>2. RequestInv /\ [RequestNext]_requestVars => RequestInv'
    BY RequestNextPreserves
<1>3. QED
    BY <1>1, <1>2, PTL DEF RequestSpec

\* A response of the origin has come back to its behaviour.
LEMMA FetchedAt ==
    ASSUME RequestInv, Fetched(req)
    PROVE  \E i \in DOMAIN All : /\ At(req, i) /\ Answered(req)
                                 /\ Behind(req.at) = {i} /\ HooksAt(req.at) = All[i].hooks
<1>1. SiteRendered /\ PlacesDiffer
    BY SiteIs DEF RequestInv
<1>2. UnderWay(req) /\ Answered(req)
    BY DEF UnderWay, Answered, Fetched
<1>3. PICK i \in DOMAIN All : At(req, i)
    BY <1>2, WayIs DEF RequestInv
<1>4. Behind(req.at) = {i} /\ HooksAt(req.at) = All[i].hooks
    BY <1>1, <1>3, HooksAtIs DEF At, AtBehavior
<1>5. QED
    BY <1>2, <1>3, <1>4

\* For every distribution that renders, with different locations: on a miss each of the
\* origin hooks of the behaviour runs, or of the first behaviour that has the same policy
\* if both have a viewer-request hook.
THEOREM RequestHooksRun == RequestSpec => []OriginHooksRun
<1>1. ASSUME RequestInv PROVE OriginHooksRun
  <2>1. SUFFICES ASSUME Fetched(req), NEW j \in Behind(req.at)
                 PROVE  All[Server(j)].hooks \cap OriginHooks \subseteq req.ran
      BY DEF OriginHooksRun
  <2>2. PICK i \in DOMAIN All : At(req, i) /\ Answered(req) /\ Behind(req.at) = {i}
      BY <1>1, <2>1, FetchedAt
  <2>3. j = i /\ HooksInOrder(req, Server(i))
      BY <2>1, <2>2 DEF At
  <2>4. /\ hasOriginRequestAssociation(All[Server(i)]) => "origin-request" \in req.ran
        /\ hasOriginResponseAssociation(All[Server(i)]) => "origin-response" \in req.ran
      BY <2>1, <2>2, <2>3 DEF HooksInOrder, Fetched
  <2>5. QED
      BY <2>3, <2>4 DEF OriginHooks, hasOriginRequestAssociation, hasOriginResponseAssociation
<1>2. QED
    BY <1>1, RequestInductive, PTL

\* For every distribution and every request line with a literal path and no bare "?": as
\* long as no hook has changed anything, the origin sees the line that the client sent.
THEOREM RequestFailOpen == RequestSpec => []FailOpenTransparent
<1>1. ASSUME RequestInv PROVE FailOpenTransparent
  <2> DEFINE raw == req.client.raw
             u == SplitArgs(raw)
  <2>1. SUFFICES ASSUME Fetched(req), ~ req.changed, Literal(u.path), WithoutBareMark(raw)
                 PROVE  req.resp.seen = raw
      BY DEF FailOpenTransparent
  <2>2. PICK i \in DOMAIN All : At(req, i) /\ Answered(req)
      BY <1>1, <2>1, FetchedAt
  <2>3. req.uri = u
      BY <2>1, <2>2 DEF At, URIsKept
  <2>4. Asked(req, i) = u
      BY <2>3 DEF Asked
  <2>5. req.resp.seen = WithArgs(u.path, u.args)
      BY <2>1, <2>2, <2>4 DEF At, URIsKept
  <2>6. raw \in Seq(Letters)
      BY <1>1, WayIs, RawIs DEF RequestInv, Rooted
  <2>7. u.args = <<>> => Unmarked(raw)
      BY <2>1 DEF WithoutBareMark
  <2>8. WithArgs(u.path, u.args) = raw
      BY <2>6, <2>7, Restored, Zenon
  <2> HIDE DEF u, raw
  <2>9. req.resp.seen = raw
      BY <2>5, <2>8
  <2>10. QED
      BY <2>9 DEF raw
<1>2. QED
    BY <1>1, RequestInductive, PTL

\* A rewrite by viewer-request to a literal path reaches the origin, whatever the two
\* behaviours are.
THEOREM RequestRewrites == RequestSpec => []RewriteReachesOrigin
<1>1. ASSUME RequestInv PROVE RewriteReachesOrigin
  <2>1. SUFFICES ASSUME Fetched(req), Literal(req.uri.path),
                        "origin-request" \notin req.ran, "viewer-request" \in HooksAt(req.at)
                 PROVE  req.resp.seen = WithArgs(req.uri.path, req.uri.args)
      BY DEF RewriteReachesOrigin
  <2>2. PICK i \in DOMAIN All : /\ At(req, i) /\ Answered(req)
                                /\ Behind(req.at) = {i} /\ HooksAt(req.at) = All[i].hooks
      BY <1>1, <2>1, FetchedAt
  <2>3. Asked(req, i) = req.uri
      BY <2>1, <2>2 DEF Asked, hasViewerRequestAssociation
  <2>4. req.resp.seen = WithArgs(Asked(req, i).path, Asked(req, i).args)
      BY <2>1, <2>2, <2>3 DEF At, URIsKept
  <2>5. QED
      BY <2>3, <2>4
<1>2. QED
    BY <1>1, RequestInductive, PTL

\* What OriginLifetimes says of an entry, its policy, what Cache-Control says and a year.
Lasts(e, p, cc, year) ==
    LET n == IF cc.sMaxage # None THEN cc.sMaxage ELSE cc.maxAge
        Finite(ttl) == ttl # None /\ ttl >= 0
        least == IF Finite(p.minTTL) THEN p.minTTL ELSE 0
        most == IF Finite(p.maxTTL) THEN p.maxTTL ELSE year
        low == IF least > most THEN 0 ELSE least
        high == IF least > most THEN year ELSE most
        forbidden == cc.noStore \/ cc.noCache \/ cc.private
    IN /\ p # None /\ e.resp.expires # None
       /\ forbidden => e.lifetime = low
       /\ (~ forbidden /\ n # None) =>
             /\ low <= e.lifetime /\ e.lifetime <= high
             /\ (low <= n /\ n <= high) => e.lifetime = n
       /\ (~ forbidden /\ n = None /\ Finite(p.defaultTTL)) => e.lifetime = p.defaultTTL

\* For every policy, every Cache-Control and with or without the origin-response hook:
\* what the origin answered is kept for as long as ttl.js says, within the policy's bounds.
THEOREM RequestLifetimes == RequestSpec => []OriginLifetimes
<1>1. ASSUME RequestInv PROVE OriginLifetimes
  <2>1. ASSUME NEW k \in DOMAIN cache, cache[k].resp.from = "origin"
        PROVE  LET p == getPolicy(site.policies, cache[k].policy)
               IN /\ p # None /\ cache[k].resp.expires # None
                  /\ Kept(p, parse(cache[k].resp.age), cache[k].lifetime)
    <3> DEFINE e == cache[k]
               p == getPolicy(site.policies, e.policy)
               cc == parse(e.resp.age)
               t == computeTTL(cc, getPolicyTtl(p))
               ttl == computeAndInject(site.policies, e.policy, e.resp.age)
    <3>1. /\ e.lifetime = Lifetime(e.resp) /\ e.lifetime > 0
          /\ e.resp.expires = ttl.expires /\ e.resp.error = ttl.error
          /\ \E reply \in Replies : e.resp.age = reply.control
        BY <1>1, <2>1 DEF RequestInv, WellFiled, Timed
    <3>2. /\ p = None => ttl.error = TRUE
          /\ p # None => ttl.expires = t /\ ttl.error = FALSE
        BY DEF computeAndInject
    <3> HIDE DEF ttl
    <3>3. p # None
      <4>1. e.resp.error = TRUE => e.lifetime = 0
          BY <3>1 DEF Lifetime
      <4>2. QED
          BY <3>1, <3>2, <4>1
    <3>4. e.resp.age \in Seq([name : STRING, value : TTLs])
        BY <3>1, RequestAssumption DEF TTLs
    <3>5. Aged(cc)
        BY <3>4, AgesParsed
    <3>6. PolicyTimed(p)
        BY <1>1, <3>3, PoliciesTimed DEF RequestInv
    <3>7. t \in Nat /\ Kept(p, cc, t)
        BY <3>5, <3>6, TTLComputed
    <3> HIDE DEF t, cc, p, e
    <3>8. e.resp.expires = t /\ t # None /\ e.lifetime = t
        BY <3>1, <3>2, <3>3, <3>7, RequestAssumption DEF Lifetime
    <3>9. QED
        BY <3>3, <3>7, <3>8 DEF e, p, cc
  <2>2. DEFAULT_TTL_CONFIG.max = Year
      BY DEF DEFAULT_TTL_CONFIG, Year
  <2>3. ASSUME NEW k \in DOMAIN cache, cache[k].resp.from = "origin"
        PROVE  Lasts(cache[k], getPolicy(site.policies, cache[k].policy),
                     parse(cache[k].resp.age), DEFAULT_TTL_CONFIG.max)
    <3> DEFINE e == cache[k]
               p == getPolicy(site.policies, e.policy)
               cc == parse(e.resp.age)
    <3>1. p # None /\ e.resp.expires # None /\ Kept(p, cc, e.lifetime)
        BY <2>1, <2>3
    <3> HIDE DEF e, p, cc
    <3> DEFINE year == DEFAULT_TTL_CONFIG.max
    <3>2. year = Year
        BY <2>2
    <3> HIDE DEF year
    <3>3. Lasts(e, p, cc, year)
        BY <3>1, <3>2 DEF Lasts, Kept, Forbidden, AgeNamed, Low, High, Least, Most, Usable
    <3>4. QED
        BY <3>3 DEF e, p, cc, year
  <2>4. QED
      BY <2>3, Zenon DEF OriginLifetimes, Lasts
<1>2. QED
    BY <1>1, RequestInductive, PTL
=============================================================================
