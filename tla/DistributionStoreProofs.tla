----------------------- MODULE DistributionStoreProofs ----------------------
(***************************************************************************)
(* Proofs about DistributionStore, for any sets of ids and references and  *)
(* any number of crashes: a restart is invisible, and byCaller is exact    *)
(* except where an Update has moved a reference.                           *)
(***************************************************************************)
EXTENDS DistributionStore, TLAPS

\* The scan of the bucket indexes exactly, but for references that two records
\* have: of those either record may be the one indexed.
LEMMA LoadIndexes ==
    ASSUME TypeOK, Load
    PROVE  IInv'
<1> USE DistributionStoreAssumption
<1>1. byCaller' \in [Callers -> Ids \cup {None}]
    BY DEF Load
<1>2. TypeOK'
    BY <1>1 DEF Load, TypeOK
<1>3. RestartInvisible'
    BY DEF Load, RestartInvisible
<1>4. ASSUME NEW c \in Callers \ moved', NEW i \in Ids
      PROVE  byCaller'[c] = i <=> byID'[i] = c
  <2>1. byID' = disk /\ ~ \E k, l \in Ids : k # l /\ disk[k] = c /\ disk[l] = c
      BY DEF Load
  <2>2. CASE \E k \in Ids : disk[k] = c
    <3>1. byCaller'[c] \in Ids /\ disk[byCaller'[c]] = c
        BY <2>2 DEF Load
    <3>2. QED
        BY <2>1, <3>1
  <2>3. CASE ~ \E k \in Ids : disk[k] = c
    <3>1. byCaller'[c] = None
        BY <2>3 DEF Load
    <3>2. QED
        BY <2>1, <2>3, <3>1
  <2>4. QED
      BY <2>2, <2>3
<1>5. QED
    BY <1>2, <1>3, <1>4 DEF IInv, CallersExact

\* A refused reference is one some distribution has, an accepted one is free:
\* the new record is the only one with its reference, unless it was moved.
LEMMA CreatePreserves ==
    ASSUME IInv, NEW c \in Callers, Create(c)
    PROVE  IInv'
<1> USE DistributionStoreAssumption DEF IInv, TypeOK, RestartInvisible, CallersExact
<1>1. CASE Refused
    BY <1>1 DEF Refused, vars
<1>2. ASSUME NEW i \in Ids,
             byCaller[c] = None,
             disk[i] = None,
             disk' = [disk EXCEPT ![i] = c],
             byID' = [byID EXCEPT ![i] = c],
             byCaller' = [byCaller EXCEPT ![c] = i],
             Accepted, UNCHANGED moved
      PROVE  IInv'
    BY <1>2 DEF Create, Accepted
<1>3. QED
    BY <1>1, <1>2 DEF Create, PersistFails

\* Update touches byCaller nowhere, so the references it takes from and gives
\* to the record are the only ones that can become wrong.
LEMMA UpdatePreserves ==
    ASSUME IInv, NEW i \in Ids, NEW c \in Callers, Update(i, c)
    PROVE  IInv'
<1> USE DistributionStoreAssumption DEF IInv, TypeOK, RestartInvisible, CallersExact
<1>1. CASE Refused
    BY <1>1 DEF Refused, vars
<1>2. CASE /\ byID[i] # None
           /\ disk' = [disk EXCEPT ![i] = c]
           /\ byID' = [byID EXCEPT ![i] = c]
           /\ UNCHANGED byCaller
           /\ Accepted
           /\ Moves(i, c)
    BY <1>2 DEF Update, Accepted, Moves
<1>3. QED
    BY <1>1, <1>2 DEF Update, PersistFails

\* Delete frees the reference the record has now; the record that byCaller
\* had it for is the same one, unless the reference was moved.
LEMMA DeletePreserves ==
    ASSUME IInv, NEW i \in Ids, Delete(i)
    PROVE  IInv'
<1> USE DistributionStoreAssumption DEF IInv, TypeOK, RestartInvisible, CallersExact
<1>1. CASE Refused
    BY <1>1 DEF Refused, vars
<1>2. CASE /\ byID[i] # None
           /\ disk' = [disk EXCEPT ![i] = None]
           /\ byID' = [byID EXCEPT ![i] = None]
           /\ byCaller' = [byCaller EXCEPT ![byID[i]] = None]
           /\ Accepted
           /\ UNCHANGED moved
    BY <1>2 DEF Delete, Accepted
<1>3. QED
    BY <1>1, <1>2 DEF Delete, PersistFails

\* No request, persist error, crash or restart leads out of the invariant.
LEMMA NextPreserves == IInv /\ [Next]_vars => IInv'
<1> SUFFICES ASSUME IInv, [Next]_vars PROVE IInv'
    OBVIOUS
<1> USE DistributionStoreAssumption
<1>1. CASE Load
    BY <1>1, LoadIndexes DEF IInv
<1>2. CASE Crash
    BY <1>2 DEF Crash, Empty, IInv, TypeOK, RestartInvisible, CallersExact
<1>3. CASE ReloaderReceives
    BY <1>3 DEF ReloaderReceives, IInv, TypeOK, RestartInvisible, CallersExact
<1>4. ASSUME NEW c \in Callers, Create(c) PROVE IInv'
    BY <1>4, CreatePreserves
<1>5. ASSUME NEW i \in Ids, NEW c \in Callers, Update(i, c) PROVE IInv'
    BY <1>5, UpdatePreserves
<1>6. ASSUME NEW i \in Ids, Delete(i) PROVE IInv'
    BY <1>6, DeletePreserves
<1>7. CASE UNCHANGED vars
    BY <1>7 DEF vars, IInv, TypeOK, RestartInvisible, CallersExact
<1>8. QED
    BY <1>1, <1>2, <1>3, <1>4, <1>5, <1>6, <1>7 DEF Next

\* The store's invariant, for every number of distributions and every history
\* of BoltStore's Create, Update, Delete, crashes and loads.
THEOREM Inductive == Spec => []IInv
<1>1. Init => IInv
    BY DistributionStoreAssumption
       DEF Init, IInv, TypeOK, Empty, RestartInvisible, CallersExact
<1>2. QED
    BY <1>1, NextPreserves, PTL DEF Spec

\* Variables keep their types.
THEOREM TypeCorrect == Spec => []TypeOK
    BY Inductive, PTL DEF IInv

\* What NewBoltStore would load is what clients are being served.
THEOREM RestartsAreInvisible == Spec => []RestartInvisible
    BY Inductive, PTL DEF IInv

\* Create refuses exactly the references in use, except for those an Update
\* moved a distribution from or to.
THEOREM CallerIndexIsExact == Spec => []CallersExact
    BY Inductive, PTL DEF IInv
=============================================================================
