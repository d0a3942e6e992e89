----------------------------- MODULE RequestURI -----------------------------
(***************************************************************************)
(* External: what nginx makes of the path in a request line before $uri    *)
(* has it.  Escapes are decoded once, slashes that follow one another are  *)
(* merged (merge_slashes is on unless a configuration says otherwise), and *)
(* the segments "." and ".." are resolved.                                 *)
(*                                                                         *)
(* A path is a sequence of characters.  An escape such as "%41" is one     *)
(* character, and so is "%2541", which is decoded to the former.           *)
(***************************************************************************)
EXTENDS Integers, SequencesExt

CONSTANT Escapes   \* [escape -> the character it is decoded to]

ASSUME EscapesAssumption ==
    /\ Escapes \in [DOMAIN Escapes -> STRING]
    /\ {"/", "."} \cap DOMAIN Escapes = {}

Decode(s) == [i \in DOMAIN s |-> IF s[i] \in DOMAIN Escapes THEN Escapes[s[i]] ELSE s[i]]

(* A path that nginx does not take as it is.                                *)
Complex(s) ==
    \/ \E i \in DOMAIN s : s[i] \in DOMAIN Escapes
    \/ \E i \in 1 .. Len(s) - 1 : s[i] = "/" /\ s[i + 1] \in {"/", "."}

(* What is left of a path that leads above the root: the answer is 400.     *)
Above == <<>>

(* Up to the last slash.                                                    *)
Folder(s) ==
    SubSeq(s, 1, CHOOSE i \in DOMAIN s :
                    s[i] = "/" /\ \A j \in DOMAIN s : s[j] = "/" => j <= i)

(* The last segment of a path is complete.                                  *)
Closed(s) ==
    LET dir == Folder(s)
    IN CASE s = dir \o <<".">> -> dir
         [] s = dir \o <<".", ".">> -> IF dir = <<"/">> THEN Above ELSE Folder(Front(dir))
         [] OTHER -> s

(* One more character.                                                      *)
Extended(s, c) ==
    CASE s = Above -> Above
      [] s # Above /\ c # "/" -> Append(s, c)
      [] OTHER -> LET t == Closed(s)
                  IN IF t = Above THEN Above
                     ELSE IF Last(t) = "/" THEN t ELSE Append(t, "/")

Resolved(s) ==
    LET path[n \in 0 .. Len(s)] == IF n = 0 THEN <<"/">> ELSE Extended(path[n - 1], s[n])
    IN IF path[Len(s)] = Above THEN Above ELSE Closed(path[Len(s)])

Normalized(s) == IF Complex(s) THEN Resolved(Decode(s)) ELSE s
=============================================================================
