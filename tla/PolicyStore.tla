---------------------------- MODULE PolicyStore -----------------------------
(***************************************************************************)
(* A named-policy store: cachepolicy.BoltStore, and with Managed = {} also *)
(* originrequestpolicy.BoltStore and responseheaderspolicy.BoltStore,      *)
(* which differ from it only in having no managed policies.                *)
(*                                                                         *)
(* A record is represented by its policy name, the one field the store     *)
(* itself looks at.  Two indexes are kept by hand: byID, which follows the *)
(* bucket, and byName, which decides which Create and Update is refused.   *)
(* Every method holds the mutex, so each is one step.                      *)
(***************************************************************************)
EXTENDS Integers

CONSTANTS
    Ids,        \* ids of custom policies
    Managed,    \* ids of managed policies, seeded at every start
    Names,      \* policy names clients use
    ManagedName,\* the published name of each managed policy
    None,       \* neither an id nor a name
    MaxStops,   \* bound on crashes
    Events      \* which failures may happen

ASSUME PolicyStoreAssumption ==
    /\ Ids \cap Managed = {}
    /\ None \notin Ids \cup Managed \cup Names
    /\ ManagedName \in [Managed -> Names]
    /\ \A m, n \in Managed : ManagedName[m] = ManagedName[n] => m = n
    /\ MaxStops \in Nat
    /\ Events \subseteq {"crash", "persist"}

VARIABLES
    proc,       \* "down", "loaded" or "serving"
    stops,      \* crashes so far
    disk,       \* the bucket: the name of each persisted custom policy
    byID,       \* the name of each policy in memory
    byName,     \* the id each name is taken by
    trigger     \* the reloader's channel, "empty" or "full"

vars == <<proc, stops, disk, byID, byName, trigger>>

All == Ids \cup Managed

TypeOK ==
    /\ proc \in {"down", "loaded", "serving"}
    /\ stops \in 0 .. MaxStops
    /\ disk \in [Ids -> Names \cup {None}]
    /\ byID \in [All -> Names \cup {None}]
    /\ byName \in [Names -> All \cup {None}]
    /\ trigger \in {"empty", "full"}

Empty(S) == [x \in S |-> None]

Init ==
    /\ proc = "down"
    /\ stops = 0
    /\ disk = Empty(Ids)
    /\ byID = Empty(All)
    /\ byName = Empty(Names)
    /\ trigger = "empty"

-----------------------------------------------------------------------------
(* Startup.                                                                 *)

\* The id a scan of the bucket leaves in byName: the last one it meets.
Indexes(names) ==
    {f \in [Names -> All \cup {None}] :
        \A n \in Names :
            IF \E i \in Ids : names[i] = n
              THEN f[n] \in Ids /\ names[f[n]] = n
              ELSE f[n] = None}

\* NewBoltStore: load fills both indexes from the bucket.
Load ==
    /\ proc = "down"
    /\ proc' = "loaded"
    /\ byID' = [i \in All |-> IF i \in Ids THEN disk[i] ELSE None]
    /\ byName' \in Indexes(disk)
    /\ UNCHANGED <<stops, disk, trigger>>

\* SeedManaged: memory only, and it overwrites what load has found.  Only then
\* is the API started.
SeedManaged ==
    /\ proc = "loaded"
    /\ proc' = "serving"
    /\ byID' = [i \in All |-> IF i \in Managed THEN ManagedName[i] ELSE byID[i]]
    /\ byName' = [n \in Names |->
                    IF \E m \in Managed : ManagedName[m] = n
                      THEN CHOOSE m \in Managed : ManagedName[m] = n
                      ELSE byName[n]]
    /\ UNCHANGED <<stops, disk, trigger>>

Crash ==
    /\ "crash" \in Events
    /\ proc # "down"
    /\ stops < MaxStops
    /\ stops' = stops + 1
    /\ proc' = "down"
    /\ byID' = Empty(All)
    /\ byName' = Empty(Names)
    /\ trigger' = "empty"
    /\ UNCHANGED disk

-----------------------------------------------------------------------------
(* Requests.  A request that is refused, or whose record cannot be          *)
(* persisted, changes nothing and fires nothing.                            *)

Refused == UNCHANGED vars

PersistFails == "persist" \in Events /\ Refused

\* onChange is called under the mutex, after the commit.
Accepted ==
    /\ trigger' = "full"
    /\ UNCHANGED <<proc, stops>>

\* Wrong: Create does not look at byName.
CreateUnchecked(n) ==
    /\ proc = "serving"
    /\ \E i \in Ids :
          /\ disk[i] = None
          /\ disk' = [disk EXCEPT ![i] = n]
          /\ byID' = [byID EXCEPT ![i] = n]
          /\ byName' = [byName EXCEPT ![n] = i]
          /\ Accepted

\* Create: refused when the name is taken, also by a managed policy.
Create(n) ==
    /\ proc = "serving"
    /\ IF byName[n] # None
         THEN Refused
         ELSE \/ \E i \in Ids :
                    /\ disk[i] = None
                    /\ disk' = [disk EXCEPT ![i] = n]
                    /\ byID' = [byID EXCEPT ![i] = n]
                    /\ byName' = [byName EXCEPT ![n] = i]
                    /\ Accepted
              \/ PersistFails

\* What Update leaves in byName when policy i changes its name to n.
Renamed(i, n) ==
    [m \in Names |-> CASE m = n -> i
                       [] m # n /\ m = byID[i] -> None
                       [] OTHER -> byName[m]]

\* Wrong: a managed policy can be updated too, and ends up in the bucket.
UpdateManaged(i, n) ==
    /\ proc = "serving"
    /\ byID[i] # None
    /\ byName[n] \in {None, i}
    /\ byID' = [byID EXCEPT ![i] = n]
    /\ disk' = [j \in Ids \cup {i} |-> IF j = i THEN n ELSE disk[j]]
    /\ byName' = Renamed(i, n)
    /\ Accepted

\* Wrong: the old name stays in byName.
UpdateKeepingOldName(i, n) ==
    /\ proc = "serving"
    /\ byID[i] # None
    /\ i \in Ids
    /\ byName[n] \in {None, i}
    /\ disk' = [disk EXCEPT ![i] = n]
    /\ byID' = [byID EXCEPT ![i] = n]
    /\ byName' = [byName EXCEPT ![n] = i]
    /\ Accepted

\* Update: unknown ids, managed policies and names taken by another policy are
\* refused.  If-Match is read and ignored.
Update(i, n) ==
    /\ proc = "serving"
    /\ IF byID[i] = None \/ i \in Managed \/ byName[n] \notin {None, i}
         THEN Refused
         ELSE \/ /\ disk' = [disk EXCEPT ![i] = n]
                 /\ byName' = Renamed(i, n)
                 /\ byID' = [byID EXCEPT ![i] = n]
                 /\ Accepted
              \/ PersistFails

\* Wrong: the record is dropped from memory and the bucket still has it.
DeleteInMemory(i) ==
    /\ proc = "serving"
    /\ byID[i] # None
    /\ i \in Ids
    /\ byID' = [byID EXCEPT ![i] = None]
    /\ byName' = [byName EXCEPT ![byID[i]] = None]
    /\ UNCHANGED disk
    /\ Accepted

\* Delete: from the bucket first, then from both indexes.
Delete(i) ==
    /\ proc = "serving"
    /\ IF byID[i] = None \/ i \in Managed
         THEN Refused
         ELSE \/ /\ disk' = [disk EXCEPT ![i] = None]
                 /\ byID' = [byID EXCEPT ![i] = None]
                 /\ byName' = [byName EXCEPT ![byID[i]] = None]
                 /\ Accepted
              \/ PersistFails

\* Reloader.Run takes the trigger; what it does then is module Reloader.
ReloaderReceives ==
    /\ proc = "serving"
    /\ trigger = "full"
    /\ trigger' = "empty"
    /\ UNCHANGED <<proc, stops, disk, byID, byName>>

Next ==
    \/ Load
    \/ SeedManaged
    \/ Crash
    \/ ReloaderReceives
    \/ \E n \in Names : Create(n)
    \/ \E i \in All, n \in Names : Update(i, n)
    \/ \E i \in All : Delete(i)

Spec == Init /\ [][Next]_vars
-----------------------------------------------------------------------------
(* Properties.                                                              *)

\* The hand-kept name index is exact: a name is taken if and only if some
\* policy has it, and it names that policy, after any sequence of creations,
\* renames, deletions, persist errors and restarts.
IndexExact ==
    proc = "serving" =>
        \A n \in Names, i \in All : byName[n] = i <=> byID[i] = n

\* A restart changes nothing a client can see: memory is the bucket and the
\* managed policies.
RestartInvisible ==
    proc = "serving" =>
        /\ \A i \in Ids : byID[i] = disk[i]
        /\ \A m \in Managed : byID[m] = ManagedName[m]

\* No two persisted policies share a name, and none has a managed one: the
\* order in which load scans the bucket does not matter.
NamesUnique ==
    /\ \A i, j \in Ids : disk[i] = disk[j] /\ disk[i] # None => i = j
    /\ \A i \in Ids, m \in Managed : disk[i] # ManagedName[m]

-----------------------------------------------------------------------------
(* What the properties above need to be inductive.                          *)

\* Between load and SeedManaged both indexes describe the bucket alone.
LoadedExact ==
    proc = "loaded" =>
        /\ \A i \in Ids : byID[i] = disk[i]
        /\ \A n \in Names, i \in Ids : byName[n] = i <=> disk[i] = n
        /\ \A n \in Names : byName[n] \notin Managed

IInv == TypeOK /\ NamesUnique /\ LoadedExact /\ RestartInvisible /\ IndexExact
=============================================================================
