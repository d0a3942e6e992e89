---------------------------- MODULE MCAdmission -----------------------------
(***************************************************************************)
(* Model-checking instances of Admission.                                  *)
(***************************************************************************)
EXTENDS Admission

Chars == {"a", "b", "c", "_"}

(* Lists of names, policies and origins. *)
Listed(behavior, items) == [behavior |-> behavior, items |-> items]
NoList == Listed("none", <<>>)

Policy(name, min, max, cookies) ==
    [name |-> name, minTTL |-> min, maxTTL |-> max, defaultTTL |-> None, gzip |-> TRUE, brotli |-> FALSE,
     headers |-> NoList, cookies |-> cookies, queries |-> Listed("all", <<>>)]

File(schema) == [decodes |-> TRUE, schema |-> schema]
Malformed == [decodes |-> FALSE]
PolicyFile(name) == File(Policy(name, 0, None, NoList))

OriginSchema(id, domain, custom) ==
    [id |-> id, domain |-> domain, path |-> <<>>, custom |-> custom]

BehaviorSchema(pattern, origin, policy) ==
    [pattern |-> pattern, origin |-> origin, policy |-> policy, protocol |-> TRUE]

DistFile(enabled, origins, default, behaviors) ==
    File([caller |-> TRUE, comment |-> TRUE, enabled |-> enabled, origins |-> origins,
          default |-> default, behaviors |-> behaviors])

A == <<"a">>
B == <<"b">>
Dot == <<".">>
Under == <<"_">>
PrefixA == <<"/", "a", "/", "*">>
PrefixAB == <<"/", "a", "/", "b", "/", "*">>

TwoOrigins == <<OriginSchema(A, <<"a", ".", "c">>, None),
                OriginSchema(B, <<"b">>, [port |-> None])>>
DottedOrigins == <<OriginSchema(Dot, <<"a">>, None), OriginSchema(Under, <<"b">>, [port |-> 81])>>

(* A second policy that is a duplicate, has its TTLs the wrong way round,   *)
(* lacks its list, or does not decode; and a good one.                      *)
PolicyDirs ==
    {<<PolicyFile(A), PolicyFile(A)>>,
     <<PolicyFile(A), File(Policy(B, 5, 2, NoList))>>,
     <<PolicyFile(A), File(Policy(B, 1, 2, Listed("whitelist", <<>>)))>>,
     <<PolicyFile(A), Malformed>>,
     <<File(Policy(A, 1, 2, Listed("allExcept", <<"a">>))), PolicyFile(B)>>}

D(default, behaviors) == DistFile(TRUE, TwoOrigins, default, behaviors)
Default == BehaviorSchema(<<>>, A, A)

(* None, disabled, two files, then behaviours: good ones in both orders, a   *)
(* shared policy, an unknown origin or policy, patterns that nginx or the    *)
(* loader refuses, and ids that are sanitized to one.                        *)
DistDirs ==
    {<<>>,
     <<DistFile(FALSE, <<>>, Default, <<>>)>>,
     <<D(Default, <<>>), Malformed>>,
     <<D(Default, <<BehaviorSchema(PrefixA, A, A), BehaviorSchema(PrefixAB, B, B)>>)>>,
     <<D(Default, <<BehaviorSchema(PrefixAB, B, B), BehaviorSchema(PrefixA, A, A)>>)>>,
     <<D(Default, <<BehaviorSchema(PrefixA, B, A)>>)>>,
     <<D(Default, <<BehaviorSchema(PrefixA, Dot, B)>>)>>,
     <<D(Default, <<BehaviorSchema(PrefixA, B, Dot)>>)>>,
     <<D(Default, <<BehaviorSchema(<<"*">>, A, A)>>)>>,
     <<D(Default, <<BehaviorSchema(<<"/", "a">>, A, A)>>)>>,
     <<DistFile(TRUE, DottedOrigins, BehaviorSchema(<<>>, Dot, A),
                <<BehaviorSchema(PrefixA, Under, B)>>)>>}

SomeDirectories ==
    {[policies |-> <<PolicyFile(A), PolicyFile(B)>>, dists |-> ds] : ds \in DistDirs}
    \cup {[policies |-> <<PolicyFile(Dot), PolicyFile(Under)>>,
           dists |-> <<D(BehaviorSchema(<<>>, A, Dot), <<BehaviorSchema(PrefixA, B, Under)>>)>>]}
    \cup {[policies |-> ps, dists |-> <<D(BehaviorSchema(<<>>, A, B), <<>>)>>] : ps \in PolicyDirs}

-----------------------------------------------------------------------------
(* Bodies of API requests. *)

SomeCachePolicies ==
    {Policy(A, None, None, NoList), Policy(B, 5, 2, Listed("whitelist", None)),
     Policy(B, 5, 2, Listed("allExcept", <<A>>)), Policy(<<"%">>, 0, None, NoList),
     Policy(B, 0, 1, None)}

SomeORPs ==
    {[name |-> A, headers |-> Listed("allViewer", None), cookies |-> NoList, queries |-> NoList],
     [name |-> B, headers |-> NoList, cookies |-> NoList, queries |-> Listed("allExcept", None)]}

Custom(name, value, override) == [name |-> name, value |-> value, override |-> override]

HeadersPolicy(custom, cors) == [name |-> A, custom |-> custom, remove |-> <<>>, cors |-> cors]

SomeHeadersPolicies ==
    {HeadersPolicy(<<Custom(<<"a", "-", "b">>, <<"b">>, TRUE), Custom(A, <<"quote">>, TRUE),
                     Custom(B, <<>>, TRUE), Custom(<<"c">>, <<"b">>, TRUE), Custom(<<"c">>, <<>>, FALSE)>>,
                   [override |-> TRUE, origins |-> <<A, B>>, headers |-> <<A, B>>,
                    methods |-> <<>>, expose |-> <<>>, credentials |-> None, maxAge |-> None]),
     HeadersPolicy(<<Custom(<<"a", "_", "b">>, <<"b">>, FALSE)>>, None),
     HeadersPolicy(<<Custom(A, <<"$">>, FALSE)>>, None)}

C1 == <<"c", "-", "a">>
C2 == <<"c", "-", "b">>
R1 == <<"b", "-", "a">>
SomePolicyIDs == {C1, C2}
SomeHeadersPolicyIDs == {R1}
SomeDistributionID == A

Origin(id, domain) == [id |-> id, domain |-> domain, path |-> <<>>, port |-> None]
Behavior(pattern, origin, policy, rhp, hooks) ==
    [pattern |-> pattern, origin |-> origin, policy |-> policy, rhp |-> rhp, hooks |-> hooks]
Dist(origins, default, behaviors) ==
    [enabled |-> TRUE, caller |-> TRUE, origins |-> origins, default |-> default,
     behaviors |-> behaviors]
AB == <<Origin(A, A), Origin(B, B)>>

(* One policy with different hooks, viewer-request twice with one policy,   *)
(* a star in the middle of a pattern, an origin and a pattern that do not   *)
(* exist, no origin.                                                        *)
SomeDistributions ==
    {Dist(AB, Behavior(<<>>, A, C1, R1, {}), <<Behavior(PrefixAB, B, C2, R1, {"viewer-request"}),
                                                   Behavior(PrefixA, B, C2, <<>>, {"viewer-request"})>>),
     Dist(AB, Behavior(<<>>, A, C1, R1, {"origin-request"}),
          <<Behavior(PrefixA, A, C1, <<>>, {"origin-response"}),
            Behavior(PrefixAB, B, C2, B, {"viewer-request", "origin-response"}),
            Behavior(<<"/", "a", "/", "*", "/", "b", "/", "*">>, A, C1, R1, {})>>),
     Dist(AB, Behavior(<<>>, Dot, C1, R1, {}), <<>>),
     Dist(AB, Behavior(<<>>, A, C1, <<>>, {}), <<Behavior(<<"/", "a">>, A, C2, R1, {})>>),
     Dist(<<>>, Behavior(<<>>, A, C1, <<>>, {}), <<>>)}

SomeURIs == {<<"/", "a", "/", "b", "/", "c">>, <<"/", "a", "/", "c">>, <<"/", "a", "c">>, <<"/", "b">>}
=============================================================================
