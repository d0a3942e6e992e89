------------------------------ MODULE CacheKey ------------------------------
(***************************************************************************)
(* The njs functions behind $cf_cache_key and X-Accel-Expires:             *)
(* cache_key.js, cache_control.js and ttl.js, as operators over the        *)
(* policies that the renderer wrote.                                       *)
(*                                                                         *)
(* A client's headers and cookies map names to values, the names of        *)
(* headers in lower case; its query parameters map each name to the values *)
(* in the order in which they came.  Names and values are texts.           *)
(***************************************************************************)
EXTENDS NginxConf, FiniteSets

CONSTANT TestPolicies  \* what the image brings along in test-policies.json

DefaultID == <<"default">>

DEFAULT_TTL_CONFIG == [min |-> 0, max |-> 31536000, default |-> 86400]

SAFE_DEFAULT ==
    LET none == [behavior |-> "none", items |-> <<>>]
    IN [name |-> <<"__safe_default">>, minTTL |-> 0, maxTTL |-> 31536000, defaultTTL |-> 86400,
        gzip |-> TRUE, brotli |-> TRUE, headers |-> none, cookies |-> none, queries |-> none]

(* What a worker knows when it starts; json is None when policies.json is   *)
(* missing or broken.  The policies of the tests are replaced by those in   *)
(* service.                                                                 *)
POLICIES(json) ==
    LET prod == IF json = None THEN [id \in {DefaultID} |-> SAFE_DEFAULT] ELSE json
    IN [id \in DOMAIN TestPolicies \cup DOMAIN prod |->
           IF id \in DOMAIN prod THEN prod[id] ELSE TestPolicies[id]]

getPolicy(policies, id) ==
    CASE id \in DOMAIN policies -> policies[id]
      [] id \notin DOMAIN policies /\ DefaultID \in DOMAIN policies -> policies[DefaultID]
      [] OTHER -> None

-----------------------------------------------------------------------------
(* The key. *)

(* sort(): an arrangement that depends on nothing but what is sorted.  Of   *)
(* names, which differ, and of values, which may be repeated.               *)
Occurrences(values, v) == Cardinality({i \in DOMAIN values : values[i] = v})

sortedNames(names) == CHOOSE s \in [1 .. Cardinality(names) -> names] : Range(s) = names

sortedValues(values) ==
    CHOOSE s \in [DOMAIN values -> Range(values)] :
        \A v \in Range(values) : Occurrences(s, v) = Occurrences(values, v)

(* join(): nothing in the parts is escaped. *)
join(parts, sep) ==
    LET joined[n \in 1 .. Len(parts)] ==
            IF n = 1 THEN parts[1] ELSE joined[n - 1] \o <<sep>> \o parts[n]
    IN joined[Len(parts)]

(* Wrong: a list is a whitelist, whatever the behaviour. *)
collectByBehaviorListed(map, config) ==
    [name \in {n \in DOMAIN map : config.behavior = "all" \/ n \in Range(config.items)} |-> map[name]]

Counts(config, name) ==
    \/ config.behavior = "all"
    \/ config.behavior = "whitelist" /\ name \in Range(config.items)
    \/ config.behavior = "allExcept" /\ name \notin Range(config.items)

collectByBehavior(map, config) ==
    [name \in {n \in DOMAIN map : Counts(config, n)} |-> map[name]]

(* accept is the set of encodings the client named, each with a q of zero   *)
(* or not.                                                                  *)
normalizeAcceptEncoding(accept, enableGzip, enableBrotli) ==
    LET Has(name) == \E t \in accept : t.name = name /\ t.q > 0
    IN CASE ~ enableGzip /\ ~ enableBrotli -> <<>>
         [] enableBrotli /\ Has("br") -> <<"br">>
         [] enableGzip /\ Has("gzip") /\ ~ (enableBrotli /\ Has("br")) -> <<"gzip">>
         [] OTHER -> <<"identity">>

Entry(name, value) == name \o <<"=">> \o value
Entries(map) ==
    LET names == sortedNames(DOMAIN map)
    IN [i \in DOMAIN names |-> Entry(names[i], map[names[i]])]

(* What is hashed, line by line. *)
Collected(client, policy) ==
    [headers |-> IF policy.headers.behavior = "whitelist"
                 THEN collectByBehavior(client.headers, policy.headers) ELSE <<>>,
     cookies |-> collectByBehavior(client.cookies, policy.cookies),
     queries |-> collectByBehavior([n \in DOMAIN client.queries |->
                                       join(sortedValues(client.queries[n]), ",")], policy.queries)]

Lines(uri, client, policy) ==
    LET c == Collected(client, policy)
    IN <<<<"v3">>, <<client.method>>, uri, <<"h">>>> \o Entries(c.headers)
       \o <<<<"c">>>> \o Entries(c.cookies) \o <<<<"q">>>> \o Entries(c.queries)
       \o <<<<"a">>, normalizeAcceptEncoding(client.accept, policy.gzip, policy.brotli)>>

(* The digest of the lines, taken to be injective, and the URI in clear.    *)
compute(uri, client, policy) ==
    [digest |-> join(Lines(uri, client, policy), "\n"), uri |-> uri]

NoPolicyKey == [digest |-> <<"cache-key-no-policy">>, uri |-> None]

forNginx(policies, id, uri, client) ==
    LET policy == getPolicy(policies, id)
    IN IF policy = None THEN NoPolicyKey ELSE compute(uri, client, policy)

-----------------------------------------------------------------------------
(* The lifetime. *)

(* Cache-Control as the sequence of its directives; the value of one that   *)
(* has none, or none of digits, is None.  The last one of a name counts.    *)
parse(directives) ==
    LET Has(name) == \E i \in DOMAIN directives : directives[i].name = name
        Age(name) ==
            LET ages == {i \in DOMAIN directives :
                            directives[i].name = name /\ directives[i].value # None}
            IN IF ages = {} THEN None ELSE directives[Max(ages)].value
    IN [noStore |-> Has("no-store"), noCache |-> Has("no-cache"), private |-> Has("private"),
        maxAge |-> Age("max-age"), sMaxage |-> Age("s-maxage")]

sanitizeTtl(v, fallback) == IF v = None THEN fallback ELSE IF v < 0 THEN fallback ELSE v

(* Wrong: bounds that are the wrong way round are used as they are. *)
getPolicyTtlRaw(policy) ==
    [min |-> sanitizeTtl(policy.minTTL, 0), max |-> sanitizeTtl(policy.maxTTL, 31536000),
     default |-> sanitizeTtl(policy.defaultTTL, 86400)]

getPolicyTtl(policy) ==
    LET min == sanitizeTtl(policy.minTTL, DEFAULT_TTL_CONFIG.min)
        max == sanitizeTtl(policy.maxTTL, DEFAULT_TTL_CONFIG.max)
        default == sanitizeTtl(policy.defaultTTL, DEFAULT_TTL_CONFIG.default)
    IN IF min > max THEN [DEFAULT_TTL_CONFIG EXCEPT !.default = default]
       ELSE [min |-> min, max |-> max, default |-> default]

computeTTL(cc, ttl) ==
    LET explicit == IF cc.sMaxage # None THEN cc.sMaxage ELSE cc.maxAge
        raised == IF explicit < ttl.min THEN ttl.min ELSE explicit
    IN CASE cc.noStore \/ cc.noCache \/ cc.private -> ttl.min
         [] ~ (cc.noStore \/ cc.noCache \/ cc.private) /\ explicit # None ->
              IF raised > ttl.max THEN ttl.max ELSE raised
         [] OTHER -> ttl.default

(* X-Accel-Expires, or the sentinel X-Cf-Ttl-Error. *)
computeAndInject(policies, id, directives) ==
    LET policy == getPolicy(policies, id)
    IN IF policy = None THEN [expires |-> None, error |-> TRUE]
       ELSE [expires |-> computeTTL(parse(directives), getPolicyTtl(policy)), error |-> FALSE]
=============================================================================
