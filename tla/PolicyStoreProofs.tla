-------------------------- MODULE PolicyStoreProofs -------------------------
(***************************************************************************)
(* Proofs about PolicyStore, for any sets of ids, names and managed        *)
(* policies: the name index is exact and a restart is invisible.           *)
(***************************************************************************)
EXTENDS PolicyStore, TLAPS

\* The scan of a bucket without duplicate names has one possible outcome, the
\* inverse of the bucket.
LEMMA LoadIndexes ==
    ASSUME TypeOK, NamesUnique, Load
    PROVE  TypeOK' /\ LoadedExact'
<1> USE PolicyStoreAssumption DEF All
<1>1. byName' \in [Names -> All \cup {None}]
    BY DEF Load, Indexes
<1>2. TypeOK'
    BY <1>1 DEF Load, TypeOK
<1>3. \A i \in Ids : byID'[i] = disk'[i]
    BY DEF Load, TypeOK
<1>4. ASSUME NEW n \in Names
      PROVE  /\ \A i \in Ids : byName'[n] = i <=> disk'[i] = n
             /\ byName'[n] \notin Managed
  <2>1. CASE \E i \in Ids : disk[i] = n
    <3>1. byName'[n] \in Ids /\ disk[byName'[n]] = n
        BY <2>1 DEF Load, Indexes
    <3>2. QED
        BY <3>1 DEF Load, NamesUnique, TypeOK
  <2>2. CASE ~ \E i \in Ids : disk[i] = n
    <3>1. byName'[n] = None
        BY <2>2 DEF Load, Indexes
    <3>2. QED
        BY <2>2, <3>1 DEF Load
  <2>3. QED
      BY <2>1, <2>2
<1>5. QED
    BY <1>2, <1>3, <1>4 DEF LoadedExact

\* Seeding overwrites no custom policy's name, because none has a managed name.
LEMMA SeedingIsExact ==
    ASSUME IInv, SeedManaged
    PROVE  IInv'
<1> USE PolicyStoreAssumption DEF All, IInv
<1> DEFINE Seeded(n) == \E m \in Managed : ManagedName[m] = n
<1>1. /\ proc = "loaded" /\ proc' = "serving" /\ disk' = disk /\ stops' = stops
      /\ trigger' = trigger
      /\ byID' = [i \in All |-> IF i \in Managed THEN ManagedName[i] ELSE byID[i]]
    BY DEF SeedManaged
<1>2. ASSUME NEW n \in Names, Seeded(n)
      PROVE  byName'[n] \in Managed /\ ManagedName[byName'[n]] = n
    BY <1>2 DEF SeedManaged
<1>3. ASSUME NEW n \in Names, ~Seeded(n)
      PROVE  byName'[n] = byName[n]
    BY <1>3 DEF SeedManaged
<1>4. TypeOK'
  <2>1. byID' \in [All -> Names \cup {None}]
      BY <1>1 DEF TypeOK
  <2>2. byName' = [n \in Names |-> byName'[n]]
      BY DEF SeedManaged
  <2>3. \A n \in Names : byName'[n] \in All \cup {None}
      BY <1>2, <1>3 DEF TypeOK
  <2>4. QED
      BY <1>1, <2>1, <2>2, <2>3 DEF TypeOK
<1>5. NamesUnique'
    BY <1>1 DEF NamesUnique
<1>6. RestartInvisible'
    BY <1>1 DEF RestartInvisible, LoadedExact
<1>7. ASSUME NEW n \in Names, NEW i \in All
      PROVE  byName'[n] = i <=> byID'[i] = n
  <2>1. CASE Seeded(n)
      BY <1>1, <1>2, <2>1 DEF NamesUnique, LoadedExact, TypeOK
  <2>2. CASE ~Seeded(n)
      BY <1>1, <1>3, <2>2 DEF LoadedExact, TypeOK
  <2>3. QED
      BY <2>1, <2>2
<1>8. QED
    BY <1>1, <1>4, <1>5, <1>6, <1>7 DEF LoadedExact, IndexExact

\* No request, persist error or crash leads out of the invariant.
LEMMA NextPreserves == IInv /\ [Next]_vars => IInv'
<1> SUFFICES ASSUME IInv, [Next]_vars PROVE IInv'
    OBVIOUS
<1> USE PolicyStoreAssumption DEF All, IInv, TypeOK, NamesUnique, LoadedExact,
        RestartInvisible, IndexExact
<1>1. CASE Load
    BY <1>1, LoadIndexes DEF Load
<1>2. CASE SeedManaged
    BY <1>2, SeedingIsExact
<1>3. CASE Crash
    BY <1>3 DEF Crash, Empty
<1>4. ASSUME NEW n \in Names, Create(n) PROVE IInv'
    BY <1>4 DEF Create, Refused, PersistFails, Accepted, vars
<1>5. ASSUME NEW i \in All, NEW n \in Names, Update(i, n) PROVE IInv'
    BY <1>5 DEF Update, Renamed, Refused, PersistFails, Accepted, vars
<1>6. ASSUME NEW i \in All, Delete(i) PROVE IInv'
    BY <1>6 DEF Delete, Refused, PersistFails, Accepted, vars
<1>7. CASE ReloaderReceives
    BY <1>7 DEF ReloaderReceives
<1>8. CASE UNCHANGED vars
    BY <1>8 DEF vars
<1>9. QED
    BY <1>1, <1>2, <1>3, <1>4, <1>5, <1>6, <1>7, <1>8 DEF Next

\* The store's invariant, for every number of policies and every history.
THEOREM Inductive == Spec => []IInv
<1>1. Init => IInv
    BY PolicyStoreAssumption DEF Init, IInv, TypeOK, All, Empty, NamesUnique,
       LoadedExact, RestartInvisible, IndexExact
<1>2. QED
    BY <1>1, NextPreserves, PTL DEF Spec

\* Variables keep their types.
THEOREM TypeCorrect == Spec => []TypeOK
    BY Inductive, PTL DEF IInv

\* byName never refuses a free name nor accepts a taken one.
THEOREM NameIndexIsExact == Spec => []IndexExact
    BY Inductive, PTL DEF IInv

\* No two persisted policies ever share a name.
THEOREM PersistedNamesAreUnique == Spec => []NamesUnique
    BY Inductive, PTL DEF IInv

\* What clients see is what a restart would show them.
THEOREM RestartsAreInvisible == Spec => []RestartInvisible
    BY Inductive, PTL DEF IInv
=============================================================================
