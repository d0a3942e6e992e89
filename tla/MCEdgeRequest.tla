---------------------------- MODULE MCEdgeRequest ---------------------------
(***************************************************************************)
(* Model-checking instances of EdgeRequest.                                *)
(***************************************************************************)
EXTENDS EdgeRequest

Chars == {"a", "p", "q", "_"}

A == <<"a">>
P == <<"p">>
Q == <<"q">>
SomeID == A

Listed(behavior, items) == [behavior |-> behavior, items |-> items]
Nothing == Listed("none", None)
Policy(min, max, default, compressed, headers, cookies, queries) ==
    [name |-> P, minTTL |-> min, maxTTL |-> max, defaultTTL |-> default, gzip |-> compressed,
     brotli |-> FALSE, headers |-> headers, cookies |-> cookies, queries |-> queries]

(* Whole bounds and contradictory ones, two ways to choose what counts; one *)
(* of the policies missing; no policies.json at all.                        *)
SomePolicySets ==
    {(P :> Policy(2, 4, 7, FALSE, Nothing, Listed("allExcept", <<<<"c">>>>), Listed("all", None)))
        @@ (Q :> Policy(5, 1, None, TRUE, Listed("whitelist", <<<<"h">>>>),
                        Listed("whitelist", <<<<"c">>>>), Listed("none", <<<<"t">>>>))),
     Q :> Policy(0, None, 7, FALSE, Nothing, Nothing, Listed("all", None)),
     None}

(* A policy of the tests that replaces none in service, unless that one is  *)
(* missing; its times are not checked by anyone.                            *)
NoList == Listed("none", <<>>)
SomeTestPolicies == P :> Policy(-1, 3, -2, FALSE, NoList, NoList, NoList)

Behavior(pattern, policy, hooks) ==
    [pattern |-> pattern, origin |-> A, policy |-> policy, rhp |-> <<>>, hooks |-> hooks]

Dist(default, behaviors) ==
    [enabled |-> TRUE, caller |-> TRUE, default |-> default, behaviors |-> behaviors,
     origins |-> <<[id |-> A, domain |-> A, path |-> <<>>, port |-> None]>>]

PrefixA == <<"/", "a", "/", "*">>
VR == "viewer-request"
OReq == "origin-request"
OResp == "origin-response"

(* Two behaviours with a viewer-request hook, one policy and one forward    *)
(* location.                                                                *)
SharedForward == Dist(Behavior(<<>>, P, {VR, OReq, OResp}), <<Behavior(PrefixA, P, {VR})>>)

(* One policy each, with hooks of every kind; one policy for two behaviours *)
(* with different hooks.                                                    *)
SomeDistributions ==
    {Dist(Behavior(<<>>, P, hooks), <<Behavior(PrefixA, Q, {VR, OReq, OResp} \ hooks)>>) :
        hooks \in {{}, {OReq, OResp}}}
    \cup {Dist(Behavior(<<>>, P, {OReq}), <<Behavior(PrefixA, P, {VR, OResp})>>), SharedForward}

F(viewer, request, response) == (VR :> viewer) @@ (OReq :> request) @@ (OResp :> response)
SomeFunctions ==
    {F("echo", "echo", "echo"), F("move", "prefix", "status"), F("prefix", "respond", "echo"),
     F("respond", "move", "status")}

(* "%2541" is "%41" once decoded and "A" if it is decoded again.            *)
SomeEscapes == ("%3F" :> "?") @@ ("%41" :> "A") @@ ("%2541" :> "%41")
SomeReserved == {"?", "%41"}

(* Two values of one parameter and one value with a comma; a name with a    *)
(* "=" and a value with one.                                                *)
Is(name, value) == [name |-> name, value |-> value]
SomeParameters ==
    ("t=1" :> Is(<<"t">>, <<"1">>)) @@ ("t=2" :> Is(<<"t">>, <<"2">>))
        @@ ("t=1%2C2" :> Is(<<"t">>, <<"1", ",", "2">>))
        @@ ("t%3Db=c" :> Is(<<"t", "=", "b">>, <<"c">>)) @@ ("t=b%3Dc" :> Is(<<"t">>, <<"b", "=", "c">>))

Client1(method, raw, cookies, headers, accept) ==
    [method |-> method, raw |-> raw, cookies |-> cookies, headers |-> headers, accept |-> accept]
Get(raw) == Client1("GET", raw, <<>>, <<>>, {})
X == <<"/", "a", "/", "x">>
C(value) == <<"c">> :> <<value>>
SomeClients ==
    {Client1("GET", X, C("1"), <<>>, {[name |-> "gzip", q |-> 1]}),
     Client1("GET", X, C("2") @@ (<<"d">> :> <<"1">>), <<>>, {}),
     Client1("HEAD", X, C("2"), <<"h">> :> <<"1">>, {[name |-> "gzip", q |-> 0]}),
     Client1("POST", X, C("2"), <<>>, {}),
     Get(<<"/", "b", "?", "t=1", "t=2">>), Get(<<"/", "b", "?", "t=1%2C2">>),
     Get(<<"/", "b", "?", "t%3Db=c">>), Get(<<"/", "b", "?", "t=b%3Dc">>), Get(X \o <<"?">>),
     Client1("GET", <<"/", "b", "%3F", "?", "q">>, <<"d">> :> <<"1">>, <<>>, {}),
     Get(<<"/", "%2541">>), Get(<<"/", "/", "a", "/", "b", "/", ".", ".", "/", "x">>),
     Get(<<"/", "a", "/", ".", ".", "/", ".", ".", "/", "x">>)}

Directive(name, value) == [name |-> name, value |-> value]
SomeReplies ==
    {[status |-> 200, control |-> <<>>], [status |-> 502, control |-> <<>>],
     [status |-> 200, control |-> <<Directive("max-age", 3), Directive("s-maxage", 9)>>],
     [status |-> 404, control |-> <<Directive("no-store", None), Directive("max-age", None)>>]}
=============================================================================
