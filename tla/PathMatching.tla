---------------------------- MODULE PathMatching ----------------------------
(***************************************************************************)
(* Which cache files an invalidation removes: the path matcher             *)
(* (internal/invalidation/matcher.go), the key that cache_key.js gives a   *)
(* file, the way it is read back from the head of the file (cache.go) and  *)
(* the predicate of the worker.  Invalidation models when the walk         *)
(* happens; these operators say which of the files it visits are removed.  *)
(*                                                                         *)
(* A path is a sequence of characters.  One character may stand for        *)
(* several bytes: an escape such as "%20", or a long word.                 *)
(***************************************************************************)
EXTENDS RequestURI

CONSTANTS
    Malformed,   \* a "%" that no two hex digits follow
    NonASCII, Unsafe,   \* classes of characters
    Bytes,       \* [longer characters -> their size], the others have one
    Requests,    \* paths that clients ask for, as they are sent
    Paths,       \* paths in invalidations
    None         \* no key

SizeOf(c) == IF c \in DOMAIN Bytes THEN Bytes[c] ELSE 1

Size(s) ==
    LET size[n \in 0 .. Len(s)] == IF n = 0 THEN 0 ELSE size[n - 1] + SizeOf(s[n])
    IN size[Len(s)]

-----------------------------------------------------------------------------
(* matcher.go *)

MaxPathLen == 4000

isRFC1738Unsafe(c) == c \in Unsafe

validateChars(path) ==
    \A i \in DOMAIN path :
        /\ path[i] \notin NonASCII \cup Malformed \cup {"~"}
        /\ ~ isRFC1738Unsafe(path[i])
        /\ path[i] \in DOMAIN Escapes => Escapes[path[i]] # "~"

ParsePattern(path) ==
    LET isWildcard == IsSuffix(<<"*">>, path)
    IN [ok |-> /\ path # <<>> /\ Size(path) <= MaxPathLen
               /\ IsPrefix(<<"/">>, path) /\ validateChars(path),
        prefix |-> IF isWildcard THEN Front(path) ELSE path,
        isWildcard |-> isWildcard]

Match(p, urlpath) == IF p.isWildcard THEN IsPrefix(p.prefix, urlpath) ELSE urlpath = p.prefix

-----------------------------------------------------------------------------
(* The key in a cache file, and reading it. *)

cacheFileHeadBytes == 4096

(* The binary header, with the marker of the KEY line. *)
HeaderBytes == 126

(* $uri is normalized; the digest has 64 bytes and no colon.                *)
CacheKey(raw) == <<"digest", ":">> \o Normalized(raw)

(* The path of a request line has neither a line break nor arguments, and   *)
(* one that leads above the root is answered with 400; the digest is a      *)
(* SHA-256 in hex.                                                          *)
ASSUME PathAssumption ==
    /\ Requests \subseteq Seq(STRING) /\ Paths \subseteq Seq(STRING)
    /\ \A raw \in Requests :
          /\ {"\n", "?", "#"} \cap Range(raw) = {}
          /\ Normalized(raw) # Above /\ None # CacheKey(raw)
    /\ Bytes \in [DOMAIN Bytes -> Nat]
    /\ SizeOf("digest") = 64 /\ SizeOf(":") = 1 /\ SizeOf("\n") = 1

(* The line up to its end, if that is in the part of the file that is read. *)
parseCacheKeyHead(key) ==
    LET line == Append(key, "\n")
        end == SelectInSeq(line, LAMBDA c : c = "\n")
    IN IF HeaderBytes + Size(SubSeq(line, 1, end)) > cacheFileHeadBytes THEN None
       ELSE SubSeq(line, 1, end - 1)

(* Wrong: the URI starts after the last colon. *)
shouldPurgeLastColon(storedKey, pattern) ==
    LET idx == CHOOSE i \in DOMAIN storedKey :
                  storedKey[i] = ":" /\ \A j \in (i + 1)..Len(storedKey) : storedKey[j] # ":"
    IN Match(pattern, SubSeq(storedKey, idx + 1, Len(storedKey)))

shouldPurge(storedKey, pattern) ==
    LET idx == SelectInSeq(storedKey, LAMBDA c : c = ":")
    IN idx # 0 /\ Match(pattern, SubSeq(storedKey, idx + 1, Len(storedKey)))

-----------------------------------------------------------------------------
(* The requests whose cache files the worker removes for a path.            *)
Purged(path, requests) ==
    {raw \in requests :
        LET key == parseCacheKeyHead(CacheKey(raw))
        IN IF key = None THEN FALSE ELSE shouldPurge(key, ParsePattern(path))}

Accepted == {path \in Paths : ParsePattern(path).ok}

-----------------------------------------------------------------------------
(* The rule on paths as they are sent: a path stands for itself, and for    *)
(* everything below it when it ends in a star.  A star elsewhere is a       *)
(* character (matcher.go, the comment on ParsePattern).                     *)
Covers(path, raw) ==
    \/ path = raw
    \/ path # <<>> /\ Last(path) = "*" /\ IsPrefix(SubSeq(path, 1, Len(path) - 1), raw)

(* Requests that nginx takes as they are (without escapes, slashes that     *)
(* follow one another and segments that begin with a dot) and whose KEY     *)
(* line fits the part that is read.                                         *)
Plain(raw) == ~ Complex(raw) /\ Size(raw) <= 3000

Covered(path, requests) == {raw \in requests : Covers(path, raw)}

(* The matcher agrees with the rule on every plain request.                 *)
MatcherExact ==
    LET plain == {raw \in Requests : Plain(raw)}
    IN \A path \in Accepted : Purged(path, plain) = Covered(path, plain)
=============================================================================
