---------------------------- MODULE MCEdgeProxy -----------------------------
(***************************************************************************)
(* A model-checking instance of EdgeProxy: distributions with a binding in *)
(* the default behaviour, in a path behaviour, and in both; and for the    *)
(* conversions of EdgeEvent.                                               *)
(***************************************************************************)
EXTENDS EdgeProxy, TLC

CONSTANTS r1, r2

Assoc(e, a) == [event |-> e, arn |-> a]
Vreq == "viewer-request"

(* A path behaviour only; the default one and a path behaviour.  The path *)
(* behaviour's function has no endpoint.                                  *)
SomeConfigs ==
    {<<<<>>, <<Assoc(Vreq, "path")>>>>,
     <<<<Assoc("origin-response", "other"), Assoc(Vreq, "main")>>, <<Assoc(Vreq, "path")>>>>}

SomeNames == "main" :> "m" @@ "path" :> "p" @@ "other" :> ""

SomeEntries ==
    <<[name |-> "m", value |-> "old"], [name |-> "", value |-> "x"],
      [name |-> "m", value |-> "http://m"], [name |-> "p", value |-> ""]>>

-----------------------------------------------------------------------------
(* Two headers, one of them written in two casings, complete and incomplete *)
(* snapshots, and every class of body a function can return.                *)

Name(base, casing) == [base |-> base, casing |-> casing]

SomeHeaders ==
    {<<>>,
     Name("a", "lower") :> <<"1">>,
     Name("a", "canonical") :> <<"1", "2">> @@ Name("b", "lower") :> <<>>,
     Name("a", "lower") :> <<"1">> @@ Name("a", "upper") :> <<"2">>,
     Name("a", "lower") :> <<"1">> @@ Name("a", "upper") :> <<"1">>
        @@ Name("b", "canonical") :> <<"2">>}

SomeRequestSnapshots ==
    [method : {"", "GET"}, uri : {"/a"}, querystring : {"", "q"},
     clientIp : {"c"}, headers : SomeHeaders]

SomeResponseSnapshots == [status : {404}, desc : {"d"}, headers : SomeHeaders]

Entry(k, v) == [key |-> k, value |-> v]

ReturnedHeaders ==
    {<<>>,
     Name("a", "lower") :> <<Entry(None, "3")>>,
     Name("a", "lower") :> <<Entry(Name("a", "upper"), "3"), Entry(None, "1")>>
        @@ Name("b", "lower") :> <<>>}

Object(status, method, uri, qs, headers) ==
    [kind |-> "object", status |-> status, method |-> method, uri |-> uri,
     querystring |-> qs, clientIp |-> "", headers |-> headers, desc |-> "e", body |-> "x"]

SomeReturns ==
    {[kind |-> k] : k \in {"empty", "garbage", "envelope"}}
    \cup {Object(s, m, u, q, h) :
            s \in {NoStatus, EmptyStatus, TextStatus, NumberStatus, Itoa(302)},
            m \in {"", "PUT"}, u \in {"", "/b"}, q \in {"", "r"}, h \in ReturnedHeaders}
=============================================================================
