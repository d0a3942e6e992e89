-------------------------- MODULE ResponseHeaders ---------------------------
(***************************************************************************)
(* internal/nginx/response_headers.go: from a ResponseHeadersPolicyConfig  *)
(* to the nginx directives of an outer location.  A directive hides a      *)
(* header of the origin or adds one.  Names and values are sequences of    *)
(* characters, where one character may stand for a whole word.             *)
(***************************************************************************)
EXTENDS Integers, SequencesExt

CONSTANTS
    WordChars,  \* the characters [a-zA-Z0-9_]
    None        \* a missing value

ASSUME UnderscoreAssumption == "_" \in WordChars

isValidHeaderName(s) ==
    s # <<>> /\ \A i \in DOMAIN s : s[i] \in (WordChars \ {"_"}) \cup {"-"}
isValidHeaderValue(s) ==
    \A i \in DOMAIN s : s[i] \notin {"LF", "CR", "NUL", "quote", "backslash"}

joinList(items) == FoldLeft(LAMBDA v, item : v \o <<", ">> \o item, Head(items), Tail(items))

appendCorsDirective(override, name, value) ==
    (IF override THEN <<[op |-> "hide", name |-> name, value |-> None]>> ELSE <<>>)
    \o <<[op |-> "add", name |-> name, value |-> value]>>

(* Wrong: the origin's header is hidden before the entry is checked. *)
appendCustomHeaderDirectivesHiding(custom) ==
    FlattenSeq([i \in DOMAIN custom |->
        LET h == custom[i]
            ok == isValidHeaderName(h.name) /\ isValidHeaderValue(h.value)
        IN (IF h.override THEN <<[op |-> "hide", name |-> h.name, value |-> None]>> ELSE <<>>)
           \o (IF ok THEN <<[op |-> "add", name |-> h.name, value |-> h.value]>> ELSE <<>>)])

(* An entry with a name or a value that is not accepted is skipped. *)
appendCustomHeaderDirectives(custom) ==
    FlattenSeq([i \in DOMAIN custom |->
        LET h == custom[i]
        IN IF ~ isValidHeaderName(h.name) \/ ~ isValidHeaderValue(h.value) THEN <<>>
           ELSE appendCorsDirective(h.override, h.name, h.value)])

(* The fields in their fixed order, each with the value it is given: of the *)
(* allowed origins only the first is used, a list that is empty, a FALSE or *)
(* an absent value gives none.                                              *)
CorsFields(cors) ==
    LET Listed(items) == IF items = <<>> THEN None ELSE joinList(items)
    IN <<[name |-> <<"Allow-Origin">>,
          value |-> IF cors.origins = <<>> THEN None ELSE Head(cors.origins)],
         [name |-> <<"Allow-Headers">>, value |-> Listed(cors.headers)],
         [name |-> <<"Allow-Methods">>, value |-> Listed(cors.methods)],
         [name |-> <<"Expose-Headers">>, value |-> Listed(cors.expose)],
         [name |-> <<"Allow-Credentials">>,
          value |-> IF cors.credentials = TRUE THEN <<"true">> ELSE None],
         [name |-> <<"Max-Age">>, value |-> cors.maxAge]>>

appendCorsDirectives(cors) ==
    IF cors = None THEN <<>>
    ELSE FlattenSeq([i \in DOMAIN CorsFields(cors) |->
            LET f == CorsFields(cors)[i]
            IN IF f.value = None \/ ~ isValidHeaderValue(f.value) THEN <<>>
               ELSE appendCorsDirective(cors.override, f.name, f.value)])

responseHeadersToDirectives(policy) ==
    appendCustomHeaderDirectives(policy.custom) \o appendCorsDirectives(policy.cors)

(* A policy that is not registered adds nothing. *)
lookupResponseHeaders(rhp, id) ==
    IF id = <<>> \/ id \notin DOMAIN rhp THEN <<>> ELSE responseHeadersToDirectives(rhp[id])

(* External: what nginx makes of the directives.  proxy_hide_header removes *)
(* a header of the upstream's response wherever it stands, add_header adds  *)
(* one unless its value is empty.                                           *)
Delivered(directives, origin) ==
    LET hidden == {d.name : d \in {x \in Range(directives) : x.op = "hide"}}
        added == {d \in Range(directives) : d.op = "add" /\ d.value # <<>>}
    IN {h \in origin : h.name \notin hidden}
       \cup {[name |-> d.name, value |-> d.value] : d \in added}
=============================================================================
