-------------------------- MODULE MCReloadPipeline --------------------------
(***************************************************************************)
(* Model-checking instances of ReloadPipeline.                             *)
(***************************************************************************)
EXTENDS ReloadPipeline

CONSTANTS e1
=============================================================================
