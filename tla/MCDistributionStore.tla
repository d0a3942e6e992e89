------------------------ MODULE MCDistributionStore -------------------------
(***************************************************************************)
(* Model-checking instances of DistributionStore.                          *)
(***************************************************************************)
EXTENDS DistributionStore, TLC

CONSTANTS e1, e2, e3, r1, r2, r3

=============================================================================
