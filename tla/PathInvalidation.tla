-------------------------- MODULE PathInvalidation --------------------------
(***************************************************************************)
(* Invalidation with the matcher of PathMatching: the cache slots are the  *)
(* requests that filled them, and a batch is what the matcher makes of the *)
(* path in an invalidation.                                                *)
(***************************************************************************)
EXTENDS Invalidation, PathMatching

(* The slots are plain requests; paths that nginx changes, and keys too long *)
(* to be read, are the exceptions that Plain names.                          *)
ASSUME BatchAssumption ==
    /\ Files \subseteq {raw \in Requests : Plain(raw)}
    /\ Batches \subseteq {Purged(path, Files) : path \in Accepted}

(* The batch of every record is what its path covers, and on all bounded     *)
(* paths and plain requests the matcher, through the digest in front of the  *)
(* path in the stored key and colons in the path, selects exactly what is    *)
(* covered (ParsePattern, Match, parseCacheKeyHead and shouldPurge).  A path *)
(* with a star before its end is accepted and the star a character, as       *)
(* matcher.go:45 and TestPatternMatch have it; docs/invalidation-api.md:47   *)
(* and :183 speak of a 400, which the code never answers.                    *)
PlainPathsExact ==
    \A i \in Ids :
        disk[i] # "None" =>
            /\ \E path \in Accepted : batch[i] = Covered(path, Files)
            /\ MatcherExact

(* A record's batch is one of those that clients send.                       *)
BatchesAreSent == \A i \in Ids : disk[i] # "None" => batch[i] \in Batches
=============================================================================
