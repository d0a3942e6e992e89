--------------------------- MODULE MCInvalidation ---------------------------
(***************************************************************************)
(* Small instances of Invalidation, with the paths of PathMatching.        *)
(***************************************************************************)
EXTENDS PathInvalidation, TLC

CONSTANTS i1, i2, c1, c2, d1, d2

SomeEscapes == ("%20" :> " ") @@ ("%7E" :> "~") @@ ("%0A" :> "\n")
SomeBytes == ("%20" :> 3) @@ ("%7E" :> 3) @@ ("%0A" :> 3) @@ ("word" :> 3995) @@ ("digest" :> 64)

a == <<"/", "a">>
ab == <<"/", "a", ":", "b">>

(* Paths with colons, stars and escapes, paths that nginx normalizes, and   *)
(* one as long as a path may be.                                            *)
SomeRequests ==
    {<<"/">>, a, ab, <<"/", "a", "*">>, <<"/", "a", "*", "b">>, <<"/", "a", "%20">>,
     <<"/", "a", "%0A", "b">>, <<"/", "word">>, <<"/", "/", "a">>, <<"/", ".", "/", "a">>,
     <<"/", "b", "/", ".", ".", "/", "a", "*">>}

SomePaths ==
    (SomeRequests \ {<<"/">>})
    \cup {<<"/", "*">>, <<"b">>, <<>>, <<"/", "%7E">>, <<"/", "a", " ">>,
          <<"/", "a", ":", "*">>, <<"/", "word", "a", "a", "a", "a", "a">>}

(* Two leaf directories, so that a walk can be interrupted between them, and *)
(* a batch for one file and one for both.                                    *)
TwoFiles == {a, ab}
TwoDirs == (a :> d1 @@ ab :> d2)
NarrowAndWide == {Purged(ab, TwoFiles), Purged(<<"/", "a", "*">>, TwoFiles)}

OneFile == {a}
OneDir == (a :> d1)
OneBatch == {Purged(a, OneFile)}

(* Ids and requests are interchangeable. *)
Symmetry == Permutations(Ids) \cup Permutations(Clients)
=============================================================================
