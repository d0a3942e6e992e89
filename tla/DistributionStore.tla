------------------------- MODULE DistributionStore --------------------------
(***************************************************************************)
(* distribution.BoltStore.  A record is represented by its CallerReference,*)
(* the one field of its configuration the store itself looks at: byCaller  *)
(* decides which Create is refused.  Unlike the policy stores, Update      *)
(* leaves this index alone.                                                *)
(***************************************************************************)
EXTENDS Integers

CONSTANTS
    Ids,       \* distribution ids
    Callers,   \* CallerReferences clients use
    None,      \* neither an id nor a reference
    MaxStops,  \* bound on crashes
    Events     \* which failures may happen

ASSUME DistributionStoreAssumption ==
    /\ None \notin Ids \cup Callers
    /\ MaxStops \in Nat
    /\ Events \subseteq {"crash", "persist"}

VARIABLES
    proc,      \* "down" or "serving"
    stops,     \* crashes so far
    disk,      \* the bucket: the reference of each persisted distribution
    byID,      \* the reference of each distribution in memory
    byCaller,  \* the id each reference is taken by
    trigger,   \* the reloader's channel, "empty" or "full"
    moved      \* history: references that byCaller may be wrong about, since
               \* an Update moved a distribution from or to them

vars == <<proc, stops, disk, byID, byCaller, trigger, moved>>

TypeOK ==
    /\ proc \in {"down", "serving"}
    /\ stops \in 0 .. MaxStops
    /\ disk \in [Ids -> Callers \cup {None}]
    /\ byID \in [Ids -> Callers \cup {None}]
    /\ byCaller \in [Callers -> Ids \cup {None}]
    /\ trigger \in {"empty", "full"}
    /\ moved \subseteq Callers

Empty(S) == [x \in S |-> None]

Init ==
    /\ proc = "down"
    /\ stops = 0
    /\ disk = Empty(Ids)
    /\ byID = Empty(Ids)
    /\ byCaller = Empty(Callers)
    /\ trigger = "empty"
    /\ moved = {}

\* NewBoltStore: load fills both indexes; of several distributions with one
\* reference the last one scanned stays in byCaller.
Load ==
    /\ proc = "down"
    /\ proc' = "serving"
    /\ byID' = disk
    /\ byCaller' \in {f \in [Callers -> Ids \cup {None}] :
                        \A c \in Callers :
                            IF \E i \in Ids : disk[i] = c
                              THEN f[c] \in Ids /\ disk[f[c]] = c
                              ELSE f[c] = None}
    /\ moved' = {c \in Callers :
                    \E i, j \in Ids : i # j /\ disk[i] = c /\ disk[j] = c}
    /\ UNCHANGED <<stops, disk, trigger>>

Crash ==
    /\ "crash" \in Events
    /\ proc = "serving"
    /\ stops < MaxStops
    /\ stops' = stops + 1
    /\ proc' = "down"
    /\ byID' = Empty(Ids)
    /\ byCaller' = Empty(Callers)
    /\ trigger' = "empty"
    /\ UNCHANGED <<disk, moved>>

\* A request that is refused, or that cannot be persisted, changes nothing.
Refused == UNCHANGED vars
PersistFails == "persist" \in Events /\ Refused

\* onChange is called under the mutex, after the commit.
Accepted ==
    /\ trigger' = "full"
    /\ UNCHANGED <<proc, stops>>

Create(c) ==
    /\ proc = "serving"
    /\ IF byCaller[c] # None
         THEN Refused
         ELSE \/ \E i \in Ids :
                    /\ disk[i] = None
                    /\ disk' = [disk EXCEPT ![i] = c]
                    /\ byID' = [byID EXCEPT ![i] = c]
                    /\ byCaller' = [byCaller EXCEPT ![c] = i]
                    /\ Accepted
                    /\ UNCHANGED moved
              \/ PersistFails

\* The configuration with reference c replaces that of distribution i.
Moves(i, c) == moved' = moved \cup (IF byID[i] = c THEN {} ELSE {byID[i], c})

\* Wrong: memory first, and an error does not undo it.
UpdateMemoryFirst(i, c) ==
    /\ proc = "serving"
    /\ byID[i] # None
    /\ byID' = [byID EXCEPT ![i] = c]
    /\ \/ disk' = [disk EXCEPT ![i] = c]
       \/ "persist" \in Events /\ UNCHANGED disk
    /\ UNCHANGED byCaller
    /\ Accepted
    /\ Moves(i, c)

\* Update: the configuration is replaced as a whole, its CallerReference
\* included, and byCaller is not looked at.
Update(i, c) ==
    /\ proc = "serving"
    /\ IF byID[i] = None
         THEN Refused
         ELSE \/ /\ disk' = [disk EXCEPT ![i] = c]
                 /\ byID' = [byID EXCEPT ![i] = c]
                 /\ UNCHANGED byCaller
                 /\ Accepted
                 /\ Moves(i, c)
              \/ PersistFails

\* Wrong: the record is overwritten with a tombstone, not removed.
DeleteLeavingTombstone(i) ==
    /\ proc = "serving"
    /\ byID[i] # None
    /\ disk' = [disk EXCEPT ![i] = "tombstone"]
    /\ byID' = [byID EXCEPT ![i] = None]
    /\ byCaller' = [byCaller EXCEPT ![byID[i]] = None]
    /\ Accepted
    /\ UNCHANGED moved

\* Wrong: byCaller keeps the reference of a deleted distribution.
DeleteKeepingCaller(i) ==
    /\ proc = "serving"
    /\ byID[i] # None
    /\ disk' = [disk EXCEPT ![i] = None]
    /\ byID' = [byID EXCEPT ![i] = None]
    /\ UNCHANGED <<byCaller, moved>>
    /\ Accepted

\* Delete: the reference the record has now is freed.
Delete(i) ==
    /\ proc = "serving"
    /\ IF byID[i] = None
         THEN Refused
         ELSE \/ /\ disk' = [disk EXCEPT ![i] = None]
                 /\ byID' = [byID EXCEPT ![i] = None]
                 /\ byCaller' = [byCaller EXCEPT ![byID[i]] = None]
                 /\ Accepted
                 /\ UNCHANGED moved
              \/ PersistFails

\* Reloader.Run takes the trigger; what it does then is module Reloader.
ReloaderReceives ==
    /\ proc = "serving"
    /\ trigger = "full"
    /\ trigger' = "empty"
    /\ UNCHANGED <<proc, stops, disk, byID, byCaller, moved>>

Next ==
    \/ Load
    \/ Crash
    \/ ReloaderReceives
    \/ \E c \in Callers : Create(c)
    \/ \E i \in Ids, c \in Callers : Update(i, c)
    \/ \E i \in Ids : Delete(i)

Spec == Init /\ [][Next]_vars
-----------------------------------------------------------------------------
(* Properties.                                                              *)

\* A restart changes no distribution a client can see, although an Update may
\* have changed any part of its configuration and a persist may have failed.
RestartInvisible == proc = "serving" => byID = disk

\* A reference is taken if and only if a distribution has it, so Create refuses
\* exactly the duplicates, except for references that an Update has moved a
\* distribution from or to; and of those a restart leaves only the ones that
\* two distributions have by then.
CallersExact ==
    proc = "serving" =>
        \A c \in Callers \ moved, i \in Ids : byCaller[c] = i <=> byID[i] = c

\* Together they are inductive: the proofs rest on this conjunction.
IInv == TypeOK /\ RestartInvisible /\ CallersExact
=============================================================================
