------------------------- MODULE ReloaderPublishes --------------------------
(***************************************************************************)
(* Reloader implements Publication.  The debt is whatever will make the    *)
(* loop render, or render to the end.                                      *)
(***************************************************************************)
EXTENDS Reloader

Owed ==
    Running /\ (trigger = "full" \/ timer = "armed" \/ rpc \notin {"wait", "returned"})

P == INSTANCE Publication WITH
        phase <- IF Running THEN proc ELSE "down",
        stored <- [cp |-> cp, rhp |-> rhp, dist |-> dist],
        debt <- Owed,
        failed <- lastErr = "error"

(* Whatever the channel, the debounce window, the order of the reads, the   *)
(* two writes and the process do, the files follow the stores as            *)
(* Publication says.                                                        *)
Publishes == P!Spec
=============================================================================
