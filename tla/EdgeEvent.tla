----------------------------- MODULE EdgeEvent ------------------------------
(***************************************************************************)
(* The conversions of internal/edgefunc/event.go: the snapshot njs sends   *)
(* becomes a CloudFront event, and what the Lambda function returns        *)
(* becomes an InvokeResponse.  EdgeProxy models when they happen; here     *)
(* they are functions of an exchange.                                      *)
(*                                                                         *)
(* A header name is its spelling in lower case together with the casing it *)
(* was written in; a header map is a function from names to sequences of   *)
(* values.  Go iterates over a map in any order, so a conversion of a      *)
(* header map is the set of its possible results.                          *)
(***************************************************************************)
EXTENDS Integers, SequencesExt

CONSTANTS
    RequestSnapshots,   \* requests njs may send
    ResponseSnapshots,  \* responses njs may send with the response hooks
    Returns,            \* bodies a function may return, besides an echo
    None                \* a missing value

RequestHooks == {"viewer-request", "origin-request"}
ResponseHooks == {"origin-response", "viewer-response"}
EventTypes == RequestHooks \cup ResponseHooks

(* What njs may send: response hooks come with a response, or should. *)
Exchanges ==
    [type : RequestHooks, request : RequestSnapshots, response : {None}]
    \cup [type : ResponseHooks, request : RequestSnapshots,
          response : ResponseSnapshots \cup {None}]

Lower(name) == [name EXCEPT !.casing = "lower"]
CanonicalHeaderKey(name) == [name EXCEPT !.casing = "canonical"]
NoHeaders == <<>>

(* A header map is finite, and None is not a name. *)
HeaderMap(h) ==
    /\ IsFiniteSet(DOMAIN h)
    /\ \A n \in DOMAIN h : /\ n = [base |-> n.base, casing |-> n.casing]
                          /\ CanonicalHeaderKey(n) # None
                          /\ h[n] \in Seq(STRING)

ASSUME EventAssumption ==
    /\ \A q \in RequestSnapshots :
          /\ q = [method |-> q.method, uri |-> q.uri, querystring |-> q.querystring,
                  clientIp |-> q.clientIp, headers |-> q.headers]
          /\ HeaderMap(q.headers)
    /\ \A p \in ResponseSnapshots : HeaderMap(p.headers)

(* A decimal string, and what strconv.Atoi makes of a string. *)
Itoa(n) == [form |-> "digits", of |-> n]
ParsesAsInt(status) == status.form = "digits"
NoStatus == [form |-> "absent"]
EmptyStatus == [form |-> "empty"]
TextStatus == [form |-> "text"]
NumberStatus == [form |-> "number"]     \* a JSON number, not a string

Failed == [action |-> "error", request |-> None, response |-> None]
Continue(request, response) ==
    [action |-> "continue", request |-> request, response |-> response]

-----------------------------------------------------------------------------
(* Header maps. *)

(* The orders in which Go may iterate over a map. *)
Orders(S) == Bijection(1 .. Cardinality(S), S)

Bucket(out, lower) == IF lower \in DOMAIN out THEN out[lower] ELSE <<>>
Entries(in, name) ==
    [i \in DOMAIN in[name] |-> [key |-> CanonicalHeaderKey(name), value |-> in[name][i]]]

(* Wrong: a second casing of a name replaces the values of the first. *)
ReplaceBucket(out, in, name) ==
    [l \in DOMAIN out \cup {Lower(name)} |->
        IF l = Lower(name) THEN Entries(in, name) ELSE out[l]]

(* The body of the loop over the names. *)
AddToBucket(out, in, name) ==
    [l \in DOMAIN out \cup {Lower(name)} |->
        IF l = Lower(name) THEN Bucket(out, l) \o Entries(in, name) ELSE out[l]]

Normalised(in, order) ==
    LET out[n \in 0 .. Cardinality(DOMAIN in)] ==
            IF n = 0 THEN NoHeaders ELSE AddToBucket(out[n - 1], in, order[n])
    IN out[Cardinality(DOMAIN in)]

normaliseHeadersForEvent(in) == {Normalised(in, order) : order \in Orders(DOMAIN in)}

(* The name is the first entry's Key where there is one. *)
canonical(in, name) ==
    IF in[name] # <<>> /\ in[name][1].key # None THEN in[name][1].key ELSE name

SetHeader(out, in, name) ==
    [n \in DOMAIN out \cup {canonical(in, name)} |->
        IF n = canonical(in, name) THEN [i \in DOMAIN in[name] |-> in[name][i].value]
        ELSE out[n]]

Flattened(in, order) ==
    LET out[n \in 0 .. Cardinality(DOMAIN in)] ==
            IF n = 0 THEN NoHeaders ELSE SetHeader(out[n - 1], in, order[n])
    IN out[Cardinality(DOMAIN in)]

flattenHeaders(in) == {Flattened(in, order) : order \in Orders(DOMAIN in)}

-----------------------------------------------------------------------------
(* From the snapshot to the event. *)

RequestBlocks(request) ==
    {[request EXCEPT !.headers = h] : h \in normaliseHeadersForEvent(request.headers)}

(* The origin's body is not shown to the function. *)
eventResponseFromSnapshot(response) ==
    {[status |-> Itoa(response.status), desc |-> response.desc, headers |-> h]
        : h \in normaliseHeadersForEvent(response.headers)}

(* The events a request hook may build: none is an error. *)
RequestEvents(hook, r) ==
    {[eventType |-> hook, request |-> q, response |-> None]
        : q \in {q \in RequestBlocks(r.request) :
                    r.type = hook /\ q.method # "" /\ q.uri # ""}}

ResponseEvents(hook, r) ==
    IF r.response = None THEN {}
    ELSE {[eventType |-> hook, request |-> pair[1], response |-> pair[2]]
            : pair \in {q \in RequestBlocks(r.request) :
                            r.type = hook /\ q.method # "" /\ q.uri # ""}
                        \X eventResponseFromSnapshot(r.response)}

BuildViewerRequestEvent(r) == RequestEvents("viewer-request", r)
BuildOriginRequestEvent(r) == RequestEvents("origin-request", r)
BuildOriginResponseEvent(r) == ResponseEvents("origin-response", r)
BuildViewerResponseEvent(r) == ResponseEvents("viewer-response", r)

builder(r) ==
    CASE r.type = "viewer-request" -> BuildViewerRequestEvent(r)
      [] r.type = "origin-request" -> BuildOriginRequestEvent(r)
      [] r.type = "origin-response" -> BuildOriginResponseEvent(r)
      [] r.type = "viewer-response" -> BuildViewerResponseEvent(r)

-----------------------------------------------------------------------------
(* From the function's return to the response.  A body is empty, not JSON, *)
(* an error envelope, or an object whose missing members are "" or None.   *)

lambdaErrorResponse(b) == b.kind = "envelope"

flattenResponse(b) ==
    {[status |-> b.status.of, desc |-> b.desc, headers |-> h, body |-> b.body]
        : h \in flattenHeaders(b.headers)}

(* A member that is missing, or empty, keeps its original value. *)
Inherit(original, modified) == IF modified = "" THEN original ELSE modified

mergeRequest(original, b) ==
    {[method |-> Inherit(original.method, b.method),
      uri |-> Inherit(original.uri, b.uri),
      querystring |-> Inherit(original.querystring, b.querystring),
      clientIp |-> Inherit(original.clientIp, b.clientIp),
      headers |-> h]
        : h \in IF b.headers = NoHeaders THEN {original.headers}
                ELSE flattenHeaders(b.headers)}

ShortCircuits(b) == b.status.form \notin {"absent", "empty", "number"}

translateRequestHook(b, original) ==
    IF b.kind \in {"empty", "garbage"} \/ lambdaErrorResponse(b) THEN {Failed}
    ELSE IF ShortCircuits(b)
    THEN IF ParsesAsInt(b.status)
         THEN {[action |-> "short_circuit", request |-> None, response |-> r]
                : r \in flattenResponse(b)}
         ELSE {Failed}
    ELSE {Continue(q, None) : q \in mergeRequest(original.request, b)}

TranslateOriginResponseResponse(b, original) ==
    IF b.kind \in {"empty", "garbage"} \/ lambdaErrorResponse(b)
        \/ ~ParsesAsInt(b.status)
    THEN {Failed}
    ELSE {Continue(None, r) : r \in flattenResponse(b)}

(* The status is the original one and there is no body, whatever was returned; *)
(* a status that is a JSON number does not decode.                             *)
TranslateViewerResponseResponse(b, original) ==
    IF b.kind \in {"empty", "garbage"} \/ lambdaErrorResponse(b)
        \/ original.response = None \/ b.status = NumberStatus
    THEN {Failed}
    ELSE {Continue(None, [status |-> original.response.status,
                          desc |-> original.response.desc,
                          headers |-> h, body |-> ""]) : h \in flattenHeaders(b.headers)}

translator(b, r) ==
    CASE r.type \in RequestHooks -> translateRequestHook(b, r)
      [] r.type = "origin-response" -> TranslateOriginResponseResponse(b, r)
      [] r.type = "viewer-response" -> TranslateViewerResponseResponse(b, r)

-----------------------------------------------------------------------------
(* A function that returns what it was given. *)

RequestObject(q) ==
    [kind |-> "object", status |-> NoStatus, method |-> q.method, uri |-> q.uri,
     querystring |-> q.querystring, clientIp |-> q.clientIp, headers |-> q.headers,
     desc |-> "", body |-> ""]
ResponseObject(r) ==
    [kind |-> "object", status |-> r.status, method |-> "", uri |-> "",
     querystring |-> "", clientIp |-> "", headers |-> r.headers,
     desc |-> r.desc, body |-> ""]

Echo(e) ==
    IF e.eventType \in RequestHooks THEN RequestObject(e.request) ELSE ResponseObject(e.response)

(* The actions njs may be told to take for a hook when its function answers. *)
Actions ==
    [t \in EventTypes |->
        {a.action : a \in UNION {translator(b, r) :
            b \in Returns, r \in {r \in Exchanges : r.type = t /\ builder(r) # {}}}}]

-----------------------------------------------------------------------------
(* The places of a header map where a value is. *)
Places(headers) == UNION {{n} \X DOMAIN headers[n] : n \in DOMAIN headers}
Occurrences(headers, base, v) ==
    Cardinality({p \in Places(headers) : p[1].base = base /\ headers[p[1]][p[2]] = v})

SameHeaders(a, b) ==
    \A n \in DOMAIN a \cup DOMAIN b :
        \A v \in UNION ({Range(a[m]) : m \in DOMAIN a} \cup {Range(b[m]) : m \in DOMAIN b}) :
            Occurrences(a, n.base, v) = Occurrences(b, n.base, v)

(* A function that returns the request or response of its event unchanged has *)
(* no effect: njs is told to continue with what it sent, each header with all *)
(* of its values, whatever casings they came in.                              *)
Transparent ==
    [t \in EventTypes |->
        \A r \in Exchanges : \A e \in builder(r) : \A a \in translator(Echo(e), r) :
            r.type = t =>
                /\ a.action = "continue"
                /\ t \in RequestHooks =>
                    /\ [a.request EXCEPT !.headers = <<>>] = [r.request EXCEPT !.headers = <<>>]
                    /\ SameHeaders(a.request.headers, r.request.headers)
                /\ t \in ResponseHooks =>
                    /\ a.response.status = r.response.status
                    /\ a.response.desc = r.response.desc
                    /\ SameHeaders(a.response.headers, r.response.headers)]

=============================================================================
