---------------------------- MODULE Publication -----------------------------
(***************************************************************************)
(* What the auto-reload pipeline promises, without channel, timer, render  *)
(* or process: while the control plane serves, every change of the stores  *)
(* leaves a debt; the files follow the stores, never run ahead of them and *)
(* never go back; and the debt is paid off only by files that hold what    *)
(* the stores hold, or with an error to show for it.                       *)
(*                                                                         *)
(* Contents are numbered by the change that made them.                     *)
(***************************************************************************)
EXTENDS Integers

CONSTANTS Dists, NoDist, FileDist

VARIABLES
    phase,      \* "down", "serving" or "stopping"
    clock,      \* the number of the last change
    stored,     \* the stores: [cp, rhp, dist]
    policies,   \* policies.json
    conf,       \* cf-local.conf: [dist, ver, rhp]
    debt,       \* a change may not have reached the files
    failed      \* the last attempt ended with an error

vars == <<phase, clock, stored, policies, conf, debt, failed>>

NoFile == -2
FromFiles == -1

Present == {d \in Dists : stored.dist[d] # 0}

Init ==
    /\ phase = "down"
    /\ clock = 0
    /\ stored = [cp |-> 0, rhp |-> 0, dist |-> [d \in Dists |-> 0]]
    /\ policies = NoFile
    /\ conf = [dist |-> NoDist, ver |-> 0, rhp |-> 0]
    /\ debt = FALSE
    /\ failed = FALSE

(* At startup the files are those of the configuration directory.           *)
Start ==
    /\ phase = "down"
    /\ phase' \in {"down", "serving"}
    /\ policies' \in {policies, FromFiles}
    /\ conf' \in {conf, [dist |-> FileDist, ver |-> 0, rhp |-> 0]}
    /\ UNCHANGED <<clock, stored, debt, failed>>

(* One store changes. *)
Change ==
    /\ phase # "down"
    /\ clock' = clock + 1
    /\ \/ stored' = [stored EXCEPT !.cp = clock + 1]
       \/ stored' = [stored EXCEPT !.rhp = clock + 1]
       \/ stored' = stored
       \/ \E d \in Dists : \E v \in {0, clock + 1} : stored' = [stored EXCEPT !.dist[d] = v]
    /\ debt' = TRUE
    /\ UNCHANGED <<phase, policies, conf, failed>>

Current ==
    /\ policies = stored.cp
    /\ Present # {} => /\ conf.dist \in Present
                       /\ conf.ver = stored.dist[conf.dist]
                       /\ conf.rhp = stored.rhp

(* Part of an attempt, or all of it. *)
Follow ==
    /\ phase # "down"
    /\ debt
    /\ policies' = policies \/ (policies < policies' /\ policies' <= stored.cp)
    /\ \/ conf' = conf
       \/ /\ conf'.dist \in Dists
          /\ conf'.dist = conf.dist => conf.ver <= conf'.ver
          /\ conf'.ver <= clock
          /\ conf.rhp <= conf'.rhp /\ conf'.rhp <= stored.rhp
    /\ debt' \in BOOLEAN
    /\ failed' \in BOOLEAN
    /\ (~ debt' /\ ~ failed') => Current'
    /\ UNCHANGED <<phase, clock, stored>>

Stop ==
    /\ phase' \in {"stopping", "down"}
    /\ IF phase' = "down" THEN debt' = FALSE /\ failed' = FALSE
       ELSE phase = "serving" /\ UNCHANGED <<debt, failed>>
    /\ UNCHANGED <<clock, stored, policies, conf>>

Next == Start \/ Change \/ Follow \/ Stop

Spec == Init /\ [][Next]_vars
=============================================================================
