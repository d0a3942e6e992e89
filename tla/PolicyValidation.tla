-------------------------- MODULE PolicyValidation --------------------------
(***************************************************************************)
(* internal/api/validate: the checks of the AWS REST handlers on decoded   *)
(* policies, as operators.  A sub-configuration that the body left out is  *)
(* None, and so is a list of names.                                        *)
(***************************************************************************)
EXTENDS ConfigLoader

isSafeName(s) == s # <<>> /\ \A i \in DOMAIN s : isSafeNameRune(s[i])
isSafeItemName(s) == s # <<>> /\ \A i \in DOMAIN s : isSafeNameRune(s[i])

(* Wrong: the underscore, a character of names elsewhere, is let through. *)
isHTTPTokenNameRelaxed(s) == s # <<>> /\ \A i \in DOMAIN s : s[i] \in WordChars \cup {"-"}

isHTTPTokenName(s) ==
    s # <<>> /\ \A i \in DOMAIN s : s[i] \in (WordChars \ {"_"}) \cup {"-"}

SafeListFits(c, bare, listed) ==
    LET items == IF c.items = None THEN <<>> ELSE c.items
    IN /\ c # None
       /\ \/ c.behavior \in bare /\ items = <<>>
          \/ /\ c.behavior \in listed /\ items # <<>>
             /\ \A i \in DOMAIN items : isSafeItemName(items[i])

validateCachePolicyHeaders(c) == SafeListFits(c, {"none"}, {"whitelist"})

validateCachePolicyCookies(c) == SafeListFits(c, {"none", "all"}, {"whitelist", "allExcept"})
validateCachePolicyQueryStrings(c) ==
    SafeListFits(c, {"none", "all"}, {"whitelist", "allExcept"})

(* No TTL is looked at. *)
CachePolicyConfig(cfg) ==
    /\ isSafeName(cfg.name)
    /\ validateCachePolicyHeaders(cfg.headers)
    /\ validateCachePolicyCookies(cfg.cookies)
    /\ validateCachePolicyQueryStrings(cfg.queries)

validateORPHeaders(c) ==
    SafeListFits(c, {"none", "allViewer"},
                 {"whitelist", "allExcept", "allViewerAndWhitelistCloudFront"})
validateORPCookies(c) == SafeListFits(c, {"none", "all"}, {"whitelist", "allExcept"})
validateORPQueryStrings(c) == SafeListFits(c, {"none", "all"}, {"whitelist", "allExcept"})

OriginRequestPolicyConfig(cfg) ==
    /\ isSafeName(cfg.name)
    /\ validateORPHeaders(cfg.headers)
    /\ validateORPCookies(cfg.cookies)
    /\ validateORPQueryStrings(cfg.queries)

(* Names only: a value may still be one the renderer skips. *)
ResponseHeadersPolicyConfig(cfg) ==
    /\ isSafeName(cfg.name)
    /\ \A i \in DOMAIN cfg.custom : isHTTPTokenName(cfg.custom[i].name)
    /\ \A i \in DOMAIN cfg.remove : isHTTPTokenName(cfg.remove[i])
=============================================================================
