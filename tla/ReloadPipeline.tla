--------------------------- MODULE ReloadPipeline ---------------------------
(***************************************************************************)
(* From a mutation to the configuration nginx runs: Reloader, which writes *)
(* the two files in a shared volume, composed with the nginx container:    *)
(*                                                                         *)
(*   nginx/scripts/reload-entrypoint.sh   starts the watcher, then nginx   *)
(*   nginx/scripts/reload-watcher.sh      inotifywait | read, debounce,    *)
(*                                        nginx -s reload                  *)
(*   nginx/nginx.conf                     includes whatever files there are*)
(*                                                                         *)
(* Every rename in the watched directory is one event if a watch exists    *)
(* and is unnoticed if none does.  nginx reads the files once when it      *)
(* starts and once for every HUP its master gets.                          *)
(***************************************************************************)
EXTENDS Reloader

CONSTANTS
    Faults,      \* which faults the nginx container may have
    MaxFaults    \* how many of them

AllFaults == {"inotify", "reload", "container"}

ASSUME PipelineAssumption == Faults \subseteq AllFaults /\ MaxFaults \in Nat

VARIABLES
    wpc,        \* the watcher's program counter
    stream,     \* inotifywait: "none" (no watch yet), "open" or "dead"
    pipe,       \* events it has written and the shell has not read
    nginx,      \* "down", "starting", "loaded" (no pid file yet) or "up"
    hup,        \* the master has a HUP to handle
    running,    \* the files as nginx last read them
    faults,
    lost,       \* history: an event went unnoticed since nginx last read
    refused     \* history: the last reload failed

watcherVars == <<wpc, stream, pipe>>
nginxVars == <<nginx, hup, running>>
containerVars == <<watcherVars, nginxVars, faults, lost, refused>>
pipelineVars == <<vars, containerVars>>

Files == [policies |-> policies, conf |-> conf]
NoFiles == [policies |-> NoFile, conf |-> NoConf]

PipelineInit ==
    /\ Init
    /\ wpc = "down"
    /\ stream = "none"
    /\ pipe = 0
    /\ nginx = "down"
    /\ hup = FALSE
    /\ running = NoFiles
    /\ faults = 0
    /\ lost = FALSE
    /\ refused = FALSE

-----------------------------------------------------------------------------
(* The control plane, seen through the shared volume.                       *)

(* A rename is an event for the watch that exists at that moment.           *)
Notice ==
    /\ pipe' = IF stream = "open" THEN pipe + 1 ELSE pipe
    /\ lost' = (lost \/ stream = "dead" \/ wpc \in {"starting", "sleeping"})
    /\ UNCHANGED <<wpc, stream, nginxVars, faults, refused>>

(* A write that puts the same contents there again is a rename too.         *)
Rewrites ==
    \/ rpc \in {"policies", "conf"} /\ rpc' # rpc
    \/ proc \in {"down", "booting"} /\ proc' # proc

ControlPlane ==
    /\ Next
    /\ \/ (Files' # Files \/ Rewrites) /\ Notice
       \/ Files' = Files /\ UNCHANGED containerVars

-----------------------------------------------------------------------------
(* reload-watcher.sh.                                                       *)

\* inotifywait -m has set up its watch.
WatchDirectory ==
    /\ wpc = "starting"
    /\ wpc' = "reading"
    /\ stream' = "open"
    /\ UNCHANGED <<pipe, nginxVars, faults, lost, refused>>

\* Wrong: inotifywait without -m, started again after the reload.
ReadEventOnce ==
    /\ wpc = "reading"
    /\ pipe > 0
    /\ pipe' = pipe - 1
    /\ wpc' = "debouncing"
    /\ stream' = "none"
    /\ UNCHANGED <<nginxVars, faults, lost, refused>>

\* The outer read.
ReadEvent ==
    /\ wpc = "reading"
    /\ pipe > 0
    /\ pipe' = pipe - 1
    /\ wpc' = "debouncing"
    /\ UNCHANGED <<stream, nginxVars, faults, lost, refused>>

\* The inner read takes what arrives within a second of the event before it ...
AbsorbEvent ==
    /\ wpc = "debouncing"
    /\ pipe > 0
    /\ pipe' = pipe - 1
    /\ UNCHANGED <<wpc, stream, nginxVars, faults, lost, refused>>

\* Wrong: the read that times out ends the shell, as set -e would have it.
DebounceKillsLoop ==
    /\ wpc = "debouncing"
    /\ pipe = 0
    /\ wpc' = "sleeping"
    /\ stream' = "none"
    /\ UNCHANGED <<pipe, nginxVars, faults, lost, refused>>

\* ... and ends with a second of silence, or with the stream.
DebounceEnds ==
    /\ wpc = "debouncing"
    /\ pipe = 0
    /\ wpc' = "reloading"
    /\ UNCHANGED <<stream, pipe, nginxVars, faults, lost, refused>>

\* nginx -s reload tests the configuration and sends HUP; without a pid file,
\* or with a configuration nginx refuses (an origin whose name does not
\* resolve), it fails.  The script logs that and reads on.
ReloadSent ==
    /\ nginx = "up"
    /\ hup' = TRUE
    /\ refused' = FALSE
    /\ UNCHANGED faults
ReloadFails ==
    /\ \/ nginx # "up" /\ UNCHANGED faults
       \/ "reload" \in Faults /\ faults < MaxFaults /\ faults' = faults + 1
    /\ refused' = TRUE
    /\ UNCHANGED hup

Reload ==
    /\ wpc = "reloading"
    /\ ReloadSent \/ ReloadFails
    /\ wpc' = "reading"
    /\ UNCHANGED <<stream, pipe, nginx, running, lost>>

\* The pipe is empty and has no writer: the loop starts over after a second.
StreamEnds ==
    /\ wpc = "reading"
    /\ stream = "dead"
    /\ pipe = 0
    /\ wpc' = "sleeping"
    /\ UNCHANGED <<stream, pipe, nginxVars, faults, lost, refused>>
SleepEnds ==
    /\ wpc = "sleeping"
    /\ wpc' = "starting"
    /\ stream' = "none"
    /\ UNCHANGED <<pipe, nginxVars, faults, lost, refused>>

WatcherStep ==
    WatchDirectory \/ ReadEvent \/ AbsorbEvent \/ DebounceEnds \/ Reload
        \/ StreamEnds \/ SleepEnds

-----------------------------------------------------------------------------
(* The container and nginx.                                                 *)

\* reload-entrypoint.sh: the watcher goes to the background, nginx follows.
StartContainer ==
    /\ nginx = "down"
    /\ nginx' = "starting"
    /\ wpc' = "starting"
    /\ UNCHANGED <<stream, pipe, hup, running, faults, lost, refused>>

ReadsFiles ==
    /\ running' = Files
    /\ lost' = FALSE

\* nginx starts with whatever files there are ...
NginxReads ==
    /\ nginx = "starting"
    /\ nginx' = "loaded"
    /\ ReadsFiles
    /\ UNCHANGED <<watcherVars, hup, faults, refused>>

\* ... and writes its pid file.
NginxUp ==
    /\ nginx = "loaded"
    /\ nginx' = "up"
    /\ UNCHANGED <<watcherVars, hup, running, faults, lost, refused>>

MasterReloads ==
    /\ hup
    /\ hup' = FALSE
    /\ ReadsFiles
    /\ UNCHANGED <<watcherVars, nginx, faults, refused>>

NginxStep == StartContainer \/ NginxReads \/ NginxUp \/ MasterReloads

Fault ==
    /\ faults < MaxFaults
    /\ faults' = faults + 1
    /\ UNCHANGED running

\* inotifywait is killed; what it has written is still in the pipe.
InotifyDies ==
    /\ "inotify" \in Faults
    /\ Fault
    /\ stream = "open"
    /\ stream' = "dead"
    /\ UNCHANGED <<wpc, pipe, nginx, hup, lost, refused>>

ContainerDies ==
    /\ "container" \in Faults
    /\ Fault
    /\ nginx # "down"
    /\ nginx' = "down"
    /\ wpc' = "down"
    /\ stream' = "none"
    /\ pipe' = 0
    /\ hup' = FALSE
    /\ lost' = FALSE
    /\ refused' = FALSE

Container == WatcherStep \/ NginxStep \/ InotifyDies \/ ContainerDies

-----------------------------------------------------------------------------
PipelineNext == ControlPlane \/ (Container /\ UNCHANGED vars)

\* The shell and nginx are scheduled, a second of silence comes to an end, and
\* the container's restart policy is "unless-stopped".
PipelineFairness ==
    /\ Fairness
    /\ WF_pipelineVars(WatcherStep /\ UNCHANGED vars)
    /\ WF_pipelineVars(NginxStep /\ UNCHANGED vars)

PipelineSpec == PipelineInit /\ [][PipelineNext]_pipelineVars /\ PipelineFairness
-----------------------------------------------------------------------------
(* Properties.                                                              *)

\* Renames are never swallowed by the debounce window, by the reload that is
\* under way or by nginx reading the files between two renames: whenever nginx
\* runs something other than what is there, an event, a reload or a HUP is on
\* its way -- unless a reload failed or there was no watch.
NothingUnnoticed ==
    nginx = "up" /\ running # Files =>
        \/ pipe > 0
        \/ wpc \in {"debouncing", "reloading"}
        \/ hup
        \/ refused
        \/ lost

\* nginx runs what the stores hold.
Reflected ==
    /\ running.policies = cp
    /\ Present # {} => /\ running.conf.dist \in Present
                       /\ running.conf.ver = dist[running.conf.dist]
                       /\ running.conf.rhp = rhp

\* From the API to nginx: every mutation is in force in the end, whatever the
\* store by store snapshot, the two renames, both debounce windows and the
\* asynchronous HUP do between them, unless a render or a reload fails, the
\* process stops, or a rename went unnoticed.
MutationsTakeEffect ==
    proc = "serving" /\ clock > epoch ~>
        Reflected \/ lastErr = "error" \/ proc # "serving" \/ refused \/ lost

\* Nothing is under way anywhere: the reloader rests after a render that
\* succeeded, the watcher waits for an event, nginx has no HUP to handle.
Quiet ==
    /\ Running /\ trigger = "empty" /\ timer = "off" /\ rpc = "wait"
    /\ clock > epoch /\ lastErr = "nil"
    /\ nginx = "up" /\ wpc = "reading" /\ pipe = 0
    /\ ~hup /\ ~refused /\ ~lost

\* A quiet pipeline has carried every mutation from the stores to nginx.
QuietIsReflected == Quiet => Reflected

-----------------------------------------------------------------------------
(* What the properties above need to be inductive.                          *)

PipelineTypeOK ==
    /\ wpc \in {"down", "starting", "reading", "debouncing", "reloading", "sleeping"}
    /\ stream \in {"none", "open", "dead"}
    /\ pipe \in Nat
    /\ nginx \in {"down", "starting", "loaded", "up"}
    /\ hup \in BOOLEAN
    /\ lost \in BOOLEAN
    /\ refused \in BOOLEAN

\* There is no watcher only where there is no nginx, and then its pipe is gone
\* with it; the shell reads from a stream that exists, dead or alive.
WatcherThere ==
    /\ nginx = "down" <=> wpc = "down"
    /\ nginx = "down" => stream = "none" /\ pipe = 0
    /\ stream = "none" => wpc \in {"down", "starting"}

\* NothingUnnoticed from the moment nginx has read the files.
Noticed ==
    nginx \in {"loaded", "up"} /\ running # Files =>
        \/ pipe > 0
        \/ wpc \in {"debouncing", "reloading"}
        \/ hup
        \/ refused
        \/ lost

PipelineIInv == PipelineTypeOK /\ WatcherThere /\ Noticed
=============================================================================
