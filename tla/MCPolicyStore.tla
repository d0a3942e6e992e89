---------------------------- MODULE MCPolicyStore ---------------------------
(***************************************************************************)
(* A model-checking instance of PolicyStore: three custom policies and one *)
(* managed policy compete for four names, one of them the managed one's.   *)
(***************************************************************************)
EXTENDS PolicyStore, TLC

CONSTANTS p1, p2, p3, m1, n1, n2, n3, nm

OneManaged == m1 :> nm
=============================================================================
