----------------------------- MODULE MCReloader -----------------------------
(***************************************************************************)
(* Model-checking instances of Reloader.                                   *)
(***************************************************************************)
EXTENDS ReloaderPublishes

CONSTANTS e1, e2

=============================================================================
