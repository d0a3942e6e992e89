---------------------------- MODULE ConfigLoader ----------------------------
(***************************************************************************)
(* internal/config: what Load makes of the configuration directory, as     *)
(* operators.  The directory is the sequence of its *.json files in the    *)
(* order of their names; a file is malformed or decodes to the schema      *)
(* record, whose missing fields have Go's zero values.                     *)
(***************************************************************************)
EXTENDS NginxConf, FiniteSets

isSafeNameRune(c) == c \in WordChars \cup {".", "-"}
isSafePathRune(c) == isSafeNameRune(c) \/ c = "/"

validateSafeName(s) == s # <<>> /\ \A i \in DOMAIN s : isSafeNameRune(s[i])
validateHostname(s) == s # <<>> /\ \A i \in DOMAIN s : isSafeNameRune(s[i])
validateOriginPath(s) ==
    s = <<>> \/ (Head(s) = "/" /\ \A i \in DOMAIN s : isSafePathRune(s[i]))

(* A behaviour with a list needs names, a behaviour without one has none. *)
ListFits(c, bare, listed) ==
    \/ c.behavior \in bare /\ c.items = <<>>
    \/ c.behavior \in listed /\ c.items # <<>>

validateHeadersConfig(c) == ListFits(c, {"none"}, {"whitelist"})
validateCookiesConfig(c) == ListFits(c, {"none", "all"}, {"whitelist", "allExcept"})
validateQueryStringsConfig(c) == ListFits(c, {"none", "all"}, {"whitelist", "allExcept"})

validateCachePolicy(s) ==
    /\ validateSafeName(s.name)
    /\ s.minTTL >= 0
    /\ s.defaultTTL = None \/ s.defaultTTL >= 0
    /\ s.maxTTL = None \/ (s.maxTTL >= 0 /\ s.minTTL <= s.maxTTL)
    /\ validateHeadersConfig(s.headers)
    /\ validateCookiesConfig(s.cookies)
    /\ validateQueryStringsConfig(s.queries)

(* Wrong: a path without a star passes. *)
validatePathPatternLoose(p) == p = <<"*">> \/ IsPrefix(<<"/">>, p)

validatePathPattern(p) ==
    \/ p = <<"*">>
    \/ /\ IsPrefix(<<"/">>, p) /\ IsSuffix(<<"/", "*">>, p)
       /\ LET inner == SubSeq(p, 1, Len(p) - 2)
          IN \A i \in DOMAIN inner : inner[i] # "*" /\ isSafePathRune(inner[i])

validateCacheBehavior(b, requirePathPattern) ==
    /\ requirePathPattern => b.pattern # <<>>
    /\ b.pattern # <<>> => validatePathPattern(b.pattern)
    /\ b.origin # <<>>
    /\ b.protocol

(* A disabled distribution is not looked at any further. *)
validateDistribution(s) ==
    LET ids == {s.origins[i].id : i \in DOMAIN s.origins}
        Known(b, requirePathPattern) ==
            validateCacheBehavior(b, requirePathPattern) /\ b.origin \in ids
    IN /\ s.caller /\ s.comment
       /\ s.enabled =>
            /\ s.origins # <<>>
            /\ Cardinality(ids) = Len(s.origins)
            /\ \A i \in DOMAIN s.origins :
                  /\ validateSafeName(s.origins[i].id)
                  /\ validateHostname(s.origins[i].domain)
                  /\ validateOriginPath(s.origins[i].path)
            /\ Known(s.default, FALSE)
            /\ \A i \in DOMAIN s.behaviors : Known(s.behaviors[i], TRUE)

-----------------------------------------------------------------------------
(* convert.go: from the schema to the SDK's types. *)

listConfigToAWS(c) == [c EXCEPT !.items = IF c.items = <<>> THEN None ELSE c.items]

cachePolicyToAWS(s) ==
    [s EXCEPT !.headers = listConfigToAWS(s.headers), !.cookies = listConfigToAWS(s.cookies),
              !.queries = listConfigToAWS(s.queries)]

(* The port is looked at only below CustomOriginConfig. *)
originToAWS(o) ==
    [id |-> o.id, domain |-> o.domain, path |-> o.path,
     port |-> CASE o.custom = None -> None
                [] o.custom # None /\ o.custom.port = None -> 80
                [] OTHER -> o.custom.port]

(* Neither a response headers policy nor a Lambda function can be named in  *)
(* a file.                                                                  *)
cacheBehaviorToAWS(b) ==
    [pattern |-> b.pattern, origin |-> b.origin, policy |-> b.policy,
     rhp |-> <<>>, hooks |-> {}]

distributionToAWS(s) ==
    [enabled |-> s.enabled,
     origins |-> [i \in DOMAIN s.origins |-> originToAWS(s.origins[i])],
     default |-> cacheBehaviorToAWS(s.default),
     behaviors |-> [i \in DOMAIN s.behaviors |-> cacheBehaviorToAWS(s.behaviors[i])]]

-----------------------------------------------------------------------------
(* Load. *)

(* The policies under their names, unless a file does not decode, is not    *)
(* valid, or has the name of an earlier one.                                *)
loadCachePolicies(files) ==
    IF \/ \E i \in DOMAIN files : ~ files[i].decodes \/ ~ validateCachePolicy(files[i].schema)
       \/ \E i, j \in DOMAIN files : i # j /\ files[i].schema.name = files[j].schema.name
    THEN Fail
    ELSE Ok([name \in {files[i].schema.name : i \in DOMAIN files} |->
                cachePolicyToAWS((CHOOSE f \in Range(files) : f.schema.name = name).schema)])

loadDistribution(files) ==
    CASE Len(files) > 1 -> Fail
      [] Len(files) = 0 -> Ok(None)
      [] OTHER -> IF files[1].decodes /\ validateDistribution(files[1].schema)
                  THEN Ok(distributionToAWS(files[1].schema)) ELSE Fail

validateCrossReferences(dist, policies) ==
    (dist # None /\ dist.enabled) =>
        /\ dist.default.policy \in DOMAIN policies
        /\ \A i \in DOMAIN dist.behaviors : dist.behaviors[i].policy \in DOMAIN policies

(* A missing directory is an empty one. *)
Load(dir) ==
    LET policies == loadCachePolicies(dir.policies)
        dist == loadDistribution(dir.dists)
    IN IF policies.ok /\ dist.ok /\ validateCrossReferences(dist.val, policies.val)
       THEN Ok([policies |-> policies.val, rhp |-> <<>>, dist |-> dist.val, id |-> <<>>])
       ELSE Fail
=============================================================================
