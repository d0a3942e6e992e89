-------------------------- MODULE ListPagesProofs ---------------------------
(***************************************************************************)
(* Proofs about ListPages, for any sets of ids, times and page sizes and   *)
(* any number of records: a listing has every record once.                 *)
(***************************************************************************)
EXTENDS ListPages, InductionLemmas, FiniteSetTheorems

Before(id) == {k \in DOMAIN byID : Newer(k, id)}

\* Records are in one order: by time, and by id where the times are equal.
LEMMA NewerOrders ==
    ASSUME TypeOK, NEW a \in DOMAIN byID, NEW b \in DOMAIN byID, NEW c \in DOMAIN byID
    PROVE  /\ ~ Newer(a, a)
           /\ Newer(a, b) /\ Newer(b, c) => Newer(a, c)
           /\ a = b \/ Newer(a, b) \/ Newer(b, a)
<1>1. /\ a \in Int /\ b \in Int /\ c \in Int
      /\ byID[a] \in Int /\ byID[b] \in Int /\ byID[c] \in Int
    BY PageAssumption DEF TypeOK
<1>2. QED
    BY <1>1 DEF Newer

\* A record's rank is a position in the list, and a later record's is greater.
LEMMA RankGrows ==
    ASSUME TypeOK, NEW a \in DOMAIN byID
    PROVE  /\ Cardinality(Before(a)) \in 0 .. Cardinality(DOMAIN byID) - 1
           /\ \A b \in DOMAIN byID : Newer(a, b) => Cardinality(Before(a)) < Cardinality(Before(b))
<1>1. IsFiniteSet(DOMAIN byID) /\ Cardinality(DOMAIN byID) \in Nat
    BY FS_CardinalityType DEF TypeOK
<1>2. ASSUME NEW S \in SUBSET DOMAIN byID, a \in S, Before(a) \subseteq S
      PROVE  Cardinality(Before(a)) \in Nat /\ Cardinality(Before(a)) < Cardinality(S)
  <2>1. IsFiniteSet(S) /\ IsFiniteSet(Before(a))
      BY <1>1, <1>2, FS_Subset
  <2>2. a \notin Before(a)
      BY NewerOrders DEF Before
  <2>3. Cardinality(Before(a) \cup {a}) = Cardinality(Before(a)) + 1
      BY <2>1, <2>2, FS_AddElement
  <2>4. Cardinality(Before(a) \cup {a}) <= Cardinality(S)
      BY <1>2, <2>1, FS_Subset
  <2>5. Cardinality(Before(a)) \in Nat /\ Cardinality(S) \in Nat
      BY <2>1, FS_CardinalityType
  <2>6. QED
      BY <2>3, <2>4, <2>5
<1>3. Cardinality(Before(a)) \in Nat /\ Cardinality(Before(a)) < Cardinality(DOMAIN byID)
    BY <1>2 DEF Before
<1>4. ASSUME NEW b \in DOMAIN byID, Newer(a, b)
      PROVE  Cardinality(Before(a)) < Cardinality(Before(b))
  <2>1. a \in Before(b) /\ Before(b) \in SUBSET DOMAIN byID /\ Before(a) \subseteq Before(b)
      BY <1>4, NewerOrders DEF Before
  <2>2. QED
      BY <1>2, <2>1
<1>5. QED
    BY <1>1, <1>3, <1>4

\* BoltStore.List has every record, each at one place, in the order of Newer.
LEMMA ListSorts ==
    ASSUME TypeOK
    PROVE  /\ List \in Seq(DOMAIN byID)
           /\ \A id \in DOMAIN byID : \E i \in 1 .. Len(List) : List[i] = id
           /\ \A i, j \in 1 .. Len(List) : i < j => Newer(List[i], List[j])
<1> DEFINE n == Cardinality(DOMAIN byID)
           rank == [id \in DOMAIN byID |-> Cardinality(Before(id)) + 1]
<1>1. IsFiniteSet(DOMAIN byID) /\ n \in Nat
    BY FS_CardinalityType DEF TypeOK
<1>2. \A id \in DOMAIN byID : rank[id] \in 1 .. n /\ rank[id] = Cardinality(Before(id)) + 1
    BY <1>1, RankGrows
<1>3. \A a, b \in DOMAIN byID : Newer(a, b) => rank[a] < rank[b]
  <2>1. \A a \in DOMAIN byID : Cardinality(Before(a)) \in Int
      BY <1>1, RankGrows
  <2>2. QED
      BY <2>1, RankGrows
<1>4. \A i \in 1 .. n : \E id \in DOMAIN byID : rank[id] = i
  <2>1. rank \in Injection(DOMAIN byID, 1 .. n)
    <3>1. rank \in [DOMAIN byID -> 1 .. n]
        BY <1>2
    <3>2. \A a, b \in DOMAIN byID : rank[a] = rank[b] => a = b
      <4> HIDE DEF rank, n
      <4>1. SUFFICES ASSUME NEW a \in DOMAIN byID, NEW b \in DOMAIN byID, rank[a] = rank[b], a # b
                     PROVE  FALSE
          OBVIOUS
      <4>2. rank[a] \in Int /\ rank[b] \in Int
          BY <1>2
      <4>3. rank[a] < rank[b] \/ rank[b] < rank[a]
          BY <1>3, <4>1, NewerOrders
      <4>4. QED
          BY <4>1, <4>2, <4>3
    <3>3. QED
        BY <3>1, <3>2 DEF Injection, IsInjective
  <2>2. IsFiniteSet(1 .. n) /\ Cardinality(1 .. n) = n
      BY <1>1, FS_Interval
  <2>3. rank \in Surjection(DOMAIN byID, 1 .. n)
      BY <2>1, <2>2, FS_Injection
  <2>4. QED
      BY <2>3 DEF Surjection
<1>5. /\ DOMAIN List = 1 .. n
      /\ \A i \in 1 .. n : List[i] = CHOOSE id \in DOMAIN byID : Cardinality(Before(id)) = i - 1
    BY DEF List, Before
<1>6. \A i \in 1 .. n : List[i] \in DOMAIN byID /\ rank[List[i]] = i
  <2>1. SUFFICES ASSUME NEW i \in 1 .. n
                 PROVE  List[i] \in DOMAIN byID /\ rank[List[i]] = i
      OBVIOUS
  <2>2. PICK id \in DOMAIN byID : rank[id] = i
      BY <1>4
  <2>3. Cardinality(Before(id)) \in Nat /\ rank[id] = Cardinality(Before(id)) + 1
      BY <1>1, RankGrows
  <2>4. Cardinality(Before(id)) = i - 1
      BY <2>2, <2>3
  <2>5. List[i] \in DOMAIN byID /\ Cardinality(Before(List[i])) = i - 1
      BY <1>5, <2>4
  <2>6. QED
      BY <1>2, <2>5
<1> HIDE DEF rank, n
<1>7. List \in [1 .. n -> DOMAIN byID]
    BY <1>5, <1>6 DEF List
<1>8. List \in Seq(DOMAIN byID) /\ Len(List) = n
    BY <1>1, <1>5, <1>7
<1>9. ASSUME NEW id \in DOMAIN byID PROVE List[rank[id]] = id
  <2>1. rank[id] \in 1 .. n
      BY <1>2
  <2>2. List[rank[id]] \in DOMAIN byID /\ rank[List[rank[id]]] = rank[id]
      BY <1>6, <2>1
  <2>3. rank[id] \in Int
      BY <1>1, <2>1
  <2>4. QED
      BY <1>3, <2>2, <2>3, NewerOrders
<1>10. \A id \in DOMAIN byID : \E i \in 1 .. Len(List) : List[i] = id
    BY <1>2, <1>8, <1>9
<1>11. ASSUME NEW i \in 1 .. n, NEW j \in 1 .. n, i < j PROVE Newer(List[i], List[j])
  <2>1. /\ List[i] \in DOMAIN byID /\ List[j] \in DOMAIN byID
        /\ rank[List[i]] = i /\ rank[List[j]] = j
      BY <1>6
  <2>2. List[i] # List[j] /\ ~ Newer(List[j], List[i])
      BY <1>1, <1>3, <1>11, <2>1
  <2>3. QED
      BY <2>1, <2>2, NewerOrders
<1>12. QED
    BY <1>8, <1>10, <1>11

-----------------------------------------------------------------------------
\* The marker of a listing is found where it is listed, and nowhere else.
LEMMA PositionFinds ==
    ASSUME TypeOK, NEW marker, marker # NoMarker
    PROVE  \/ Position(List, marker) = 0 /\ marker \notin DOMAIN byID
           \/ /\ Position(List, marker) \in 1 .. Len(List)
              /\ List[Position(List, marker)] = marker
<1> DEFINE I == {i \in 1 .. Len(List) : List[i] = marker}
<1>1. Position(List, marker) = IF I # {} THEN Min(I) ELSE 0
    BY DEF Position, SelectInSeq
<1>2. CASE I = {}
    BY <1>1, <1>2, ListSorts
<1>3. CASE I # {}
  <2>1. I \subseteq Nat /\ Len(List) \in Nat
      BY ListSorts
  <2>2. \E m \in I : \A i \in I : m <= i
      BY <1>3, <2>1, NatMin
  <2>3. Min(I) \in I
      BY <2>2 DEF Min
  <2>4. QED
      BY <1>1, <1>3, <2>3
<1>4. QED
    BY <1>2, <1>3

\* A piece of a sequence: what follows its first a elements, up to the b-th.
PieceOf(q, a, b) == SubSeq(q, a + 1, b)
SeqOver(q, T) == q \in Seq(T)

\* The elements of a page that is cut out of the list.
LEMMA Piece ==
    ASSUME NEW T, NEW q, SeqOver(q, T), NEW a \in Nat, NEW b \in Nat, a < b, b <= Len(q)
    PROVE  /\ SeqOver(PieceOf(q, a, b), T)
           /\ Len(PieceOf(q, a, b)) = b - a
           /\ \A i \in 1 .. b - a : PieceOf(q, a, b)[i] = q[a + i]
           /\ PieceOf(q, a, b) # <<>>
           /\ Last(PieceOf(q, a, b)) = q[b]
<1> DEFINE p == PieceOf(q, a, b)
<1>1. p \in Seq(T) /\ Len(p) = b - a /\ \A i \in 1 .. b - a : p[i] = q[a + i]
    BY DEF PieceOf, SeqOver
<1> HIDE DEF p
<1>2. Len(p) # 0
    BY <1>1
<1>3. p # <<>>
    BY <1>2
<1>4. b - a \in 1 .. b - a /\ a + (b - a) = b
    OBVIOUS
<1>5. Last(p) = q[b]
    BY <1>1, <1>4 DEF Last
<1>6. QED
    BY <1>1, <1>3, <1>5 DEF p, SeqOver

\* A page that paginateRecords cuts: where it begins and where it ends.
PageFrom(s, e, result, marker, m) ==
    /\ s \in 0 .. Len(List) - 1
    /\ \/ marker = NoMarker /\ s = 0
       \/ s >= 1 /\ marker = List[s]
    /\ e = IF s + m < Len(List) THEN s + m ELSE Len(List)
    /\ result.page = PieceOf(List, s, e)
    /\ result.truncated = (e < Len(List))
    /\ result.next = IF e < Len(List) THEN List[e] ELSE NoMarker

\* paginateRecords answers with the page after the marker; it has none to cut
\* when the marker is unknown or the last record.
LEMMA PageCut ==
    ASSUME TypeOK, NEW marker, NEW m \in Nat \ {0}
    PROVE  \/ /\ paginateRecords(List, marker, m) = NoPage
              /\ \/ marker = NoMarker /\ DOMAIN byID = {}
                 \/ marker # NoMarker /\ marker \notin DOMAIN byID
                 \/ Len(List) >= 1 /\ marker = List[Len(List)]
           \/ \E s, e \in 0 .. Len(List) : PageFrom(s, e, paginateRecords(List, marker, m), marker, m)
<1> DEFINE start == Position(List, marker)
<1>1. /\ Len(List) \in Nat /\ List \in Seq(DOMAIN byID)
      /\ \A id \in DOMAIN byID : \E i \in 1 .. Len(List) : List[i] = id
    BY ListSorts
<1>2. \/ marker = NoMarker /\ start = 0
      \/ marker # NoMarker /\ start = 0 /\ marker \notin DOMAIN byID
      \/ marker # NoMarker /\ start \in 1 .. Len(List) /\ List[start] = marker
  <2>1. CASE marker = NoMarker
      BY <2>1 DEF Position
  <2>2. CASE marker # NoMarker
      BY <2>2, PositionFinds
  <2>3. QED
      BY <2>1, <2>2
<1>3. paginateRecords(List, marker, m) =
          IF (marker # NoMarker /\ start = 0) \/ start >= Len(List) THEN NoPage
          ELSE Cut(List, start, m)
    BY DEF paginateRecords
<1> HIDE DEF start
<1>4. CASE (marker # NoMarker /\ start = 0) \/ start >= Len(List)
  <2>1. paginateRecords(List, marker, m) = NoPage
      BY <1>3, <1>4
  <2>2. CASE marker = NoMarker /\ start = 0
    <3>1. Len(List) = 0 /\ 1 .. 0 = {}
        BY <1>1, <1>4, <2>2
    <3>2. QED
        BY <1>1, <2>1, <2>2, <3>1
  <2>3. CASE marker # NoMarker /\ start = 0 /\ marker \notin DOMAIN byID
      BY <2>1, <2>3
  <2>4. CASE marker # NoMarker /\ start \in 1 .. Len(List) /\ List[start] = marker
    <3>1. start = Len(List) /\ Len(List) >= 1
        BY <1>1, <1>4, <2>4
    <3>2. QED
        BY <2>1, <2>4, <3>1
  <2>5. QED
      BY <1>2, <2>2, <2>3, <2>4
<1>5. CASE ~ ((marker # NoMarker /\ start = 0) \/ start >= Len(List))
  <2> DEFINE e == IF start + m < Len(List) THEN start + m ELSE Len(List)
             page == PieceOf(List, start, e)
  <2>1. start \in 0 .. Len(List) - 1 /\ e \in 1 .. Len(List) /\ start < e
    <3>1. start \in Int /\ 0 <= start
        BY <1>1, <1>2
    <3>2. start < Len(List)
        BY <1>1, <1>5, <3>1
    <3>3. QED
        BY <1>1, <3>1, <3>2
  <2>2. (start + m < Len(List)) = (e < Len(List))
      BY <1>1, <2>1
  <2>3. Cut(List, start, m) =
            [page |-> page, truncated |-> e < Len(List),
             next |-> IF e < Len(List) /\ page # <<>> THEN Last(page) ELSE NoMarker]
      BY <2>2 DEF Cut, PieceOf
  <2>4. page # <<>> /\ Last(page) = List[e]
    <3>1. start \in Nat /\ e \in Nat /\ start < e /\ e <= Len(List)
        BY <1>1, <2>1
    <3> HIDE DEF e
    <3>2. SeqOver(List, DOMAIN byID)
        BY <1>1 DEF SeqOver
    <3>3. QED
        BY <3>1, <3>2, Piece
  <2>5. PageFrom(start, e, paginateRecords(List, marker, m), marker, m)
    <3> HIDE DEF page
    <3>1. /\ Cut(List, start, m).page = page
          /\ Cut(List, start, m).truncated = (e < Len(List))
          /\ Cut(List, start, m).next = IF e < Len(List) THEN List[e] ELSE NoMarker
        BY <2>3, <2>4
    <3>2. paginateRecords(List, marker, m) = Cut(List, start, m)
        BY <1>3, <1>5
    <3>3. QED
        BY <1>2, <1>5, <2>1, <3>1, <3>2 DEF PageFrom, page
  <2>6. start \in 0 .. Len(List) /\ e \in 0 .. Len(List)
      BY <1>1, <2>1
  <2>7. QED
      BY <2>5, <2>6
<1>6. QED
    BY <1>4, <1>5

-----------------------------------------------------------------------------
\* An empty store that nobody has listed.
LEMMA InitIsInv ==
    ASSUME Init
    PROVE  IInv
<1>1. DOMAIN byID = {}
    BY DEF Init
<1>2. /\ client.active = FALSE /\ client.marker = NoMarker
      /\ client.got = <<>> /\ client.before = {} /\ told = "none"
      /\ client \in [active : BOOLEAN, marker : Markers \cup IDs \cup {NoMarker},
                     got : Seq(IDs), before : SUBSET IDs]
    BY DEF Init, Idle
<1>3. TypeOK
    BY <1>1, <1>2, FS_EmptySet DEF TypeOK
<1>4. GotInOrder /\ MarkerIsLast /\ NothingSkipped
    BY <1>1, <1>2 DEF GotInOrder, MarkerIsLast, NothingSkipped
<1>5. QED
    BY <1>3, <1>4 DEF IInv

\* A new record, wherever it is listed, leaves the order of the others alone.
LEMMA CreatePreserves ==
    ASSUME IInv, NEW id \in IDs, NEW time \in Times, Create(id, time)
    PROVE  IInv'
<1>1. /\ client' = client /\ told' = told
      /\ DOMAIN byID' = DOMAIN byID \cup {id} /\ id \notin DOMAIN byID
      /\ byID'[id] = time /\ \A i \in DOMAIN byID : byID'[i] = byID[i]
    BY DEF Create
<1>2. \A a, b \in DOMAIN byID : Newer(a, b)' <=> Newer(a, b)
    BY <1>1 DEF Newer
<1>3. TypeOK'
    BY <1>1, FS_AddElement DEF IInv, TypeOK
<1>4. GotInOrder'
    BY <1>1, <1>2 DEF IInv, GotInOrder
<1>5. MarkerIsLast'
    BY <1>1 DEF IInv, MarkerIsLast
<1>6. NothingSkipped'
    BY <1>1, <1>2 DEF IInv, NothingSkipped, Has
<1>7. QED
    BY <1>3, <1>4, <1>5, <1>6 DEF IInv

\* A listing that begins, at the beginning or after a marker of the client's
\* own, owes the client nothing up to there.
LEMMA BeginPreserves ==
    ASSUME IInv, StartListing \/ \E marker \in Markers : ResumeListing(marker)
    PROVE  IInv'
<1>1. byID' = byID /\ told' = "none"
    BY DEF StartListing, ResumeListing
<1>2. /\ client'.got = <<>> /\ client'.before \subseteq DOMAIN byID
      /\ client'.marker # NoMarker => client'.before = {}
      /\ client' \in [active : BOOLEAN, marker : Markers \cup IDs \cup {NoMarker},
                      got : Seq(IDs), before : SUBSET IDs]
  <2>1. DOMAIN byID \subseteq IDs
      BY DEF IInv, TypeOK
  <2>2. CASE StartListing
    <3>1. client' = [active |-> TRUE, marker |-> NoMarker, got |-> <<>>, before |-> DOMAIN byID]
        BY <2>2 DEF StartListing, Idle
    <3>2. QED
        BY <2>1, <3>1
  <2>3. CASE \E marker \in Markers : ResumeListing(marker)
    <3>1. PICK marker \in Markers :
              client' = [active |-> TRUE, marker |-> marker, got |-> <<>>, before |-> {}]
        BY <2>3 DEF ResumeListing, Idle
    <3>2. QED
        BY <3>1
  <2>4. QED
      BY <2>2, <2>3
<1>3. TypeOK'
    BY <1>1, <1>2 DEF IInv, TypeOK
<1>4. GotInOrder' /\ MarkerIsLast'
    BY <1>2 DEF GotInOrder, MarkerIsLast
<1>5. NothingSkipped'
    BY <1>1, <1>2 DEF NothingSkipped
<1>6. QED
    BY <1>3, <1>4, <1>5 DEF IInv

\* A page size that parseListMaxItems accepts is positive.
LEMMA PagesAreNotEmpty ==
    ASSUME NEW raw \in MaxItems, parseListMaxItems(raw).ok
    PROVE  parseListMaxItems(raw).n \in Nat \ {0}
<1>1. raw.kind \in {"missing", "text", "number"} /\ raw.n \in Int
    BY PageAssumption
<1>2. CASE raw.kind = "missing"
    BY <1>2, PageAssumption DEF parseListMaxItems
<1>3. CASE raw.kind = "text" \/ (raw.kind = "number" /\ raw.n <= 0)
  <2>1. raw.kind # "missing"
      BY <1>3
  <2>2. parseListMaxItems(raw) = [ok |-> FALSE]
      BY <1>3, <2>1 DEF parseListMaxItems
  <2>3. QED
      BY <2>2
<1>4. CASE raw.kind = "number" /\ ~ (raw.n <= 0)
  <2>1. parseListMaxItems(raw) =
            [ok |-> TRUE, n |-> IF raw.n > listMaxItemsCap THEN listMaxItemsCap ELSE raw.n]
      BY <1>4 DEF parseListMaxItems
  <2>2. QED
      BY <1>1, <1>4, <2>1, PageAssumption
<1>5. QED
    BY <1>1, <1>2, <1>3, <1>4

\* The next page continues where the listing stopped: whatever was created
\* meanwhile, it has nothing the client has got, and leaves nothing out.
LEMMA GetPagePreserves ==
    ASSUME IInv, NEW raw \in MaxItems, GetPage(raw)
    PROVE  IInv'
<1> DEFINE m == parseListMaxItems(raw).n
           result == paginateRecords(List, client.marker, m)
           got == client.got
<1> USE DEF IInv
<1>1. client.active /\ byID' = byID
    BY DEF GetPage
<1>2. CASE ~ parseListMaxItems(raw).ok
  <2>1. client' = client /\ told' = "InvalidArgument"
      BY <1>2 DEF GetPage
  <2>2. QED
      BY <1>1, <2>1 DEF TypeOK, GotInOrder, MarkerIsLast, NothingSkipped, Newer, Has
<1>3. CASE parseListMaxItems(raw).ok
  <2>1. m \in Nat \ {0}
      BY <1>3, PagesAreNotEmpty
  <2>2. /\ told' = (IF result.truncated THEN "truncated" ELSE "complete")
        /\ client' = [client EXCEPT !.got = @ \o result.page, !.marker = result.next,
                                    !.active = result.truncated]
      BY <1>3 DEF GetPage
  <2> HIDE DEF m, result
  <2>3. /\ got \in Seq(IDs) /\ client.before \subseteq DOMAIN byID /\ DOMAIN byID \subseteq IDs
        /\ \A i \in 1 .. Len(got) : got[i] \in DOMAIN byID
        /\ \A i, j \in 1 .. Len(got) : i < j => Newer(got[i], got[j])
      BY DEF TypeOK, GotInOrder, NothingSkipped
  <2>4. /\ client'.got = got \o result.page /\ client'.marker = result.next
        /\ client'.active = result.truncated /\ client'.before = client.before
      BY <2>2 DEF TypeOK
  <2>5. /\ SeqOver(List, DOMAIN byID) /\ Len(List) \in Nat
        /\ \A i \in 1 .. Len(List) : List[i] \in DOMAIN byID
        /\ \A id \in DOMAIN byID : \E i \in 1 .. Len(List) : List[i] = id
        /\ \A i, j \in 1 .. Len(List) : i < j => Newer(List[i], List[j])
      BY ListSorts DEF SeqOver
  <2>6. NoMarker \notin DOMAIN byID
      BY <2>3, PageAssumption
  <2>7. ASSUME NEW s \in 1 .. Len(List), client.marker = List[s], NEW k \in 1 .. s,
               List[k] \in client.before
        PROVE  Has(List[k])
    <3>1. client.marker # NoMarker /\ (List[k] = client.marker \/ Newer(List[k], client.marker))
        BY <2>5, <2>6, <2>7
    <3>2. QED
        BY <1>1, <2>7, <3>1 DEF NothingSkipped
  <2>8. CASE /\ result = NoPage
             /\ \/ client.marker = NoMarker /\ DOMAIN byID = {}
                \/ client.marker # NoMarker /\ client.marker \notin DOMAIN byID
                \/ Len(List) >= 1 /\ client.marker = List[Len(List)]
    <3>1. result.page = <<>> /\ result.next = NoMarker /\ result.truncated = FALSE
        BY <2>8 DEF NoPage
    <3>2. client'.got = got /\ client'.active = FALSE /\ told' = "complete"
        BY <2>2, <2>3, <2>4, <3>1
    <3>3. \A id \in client.before : Has(id)
      <4>1. CASE client.marker = NoMarker /\ DOMAIN byID = {}
          BY <2>3, <4>1
      <4>2. CASE client.marker # NoMarker /\ client.marker \notin DOMAIN byID
          BY <1>1, <4>2 DEF NothingSkipped
      <4>3. CASE Len(List) >= 1 /\ client.marker = List[Len(List)]
        <5>1. Len(List) \in 1 .. Len(List)
            BY <2>5, <4>3
        <5>2. QED
            BY <2>3, <2>5, <2>7, <4>3, <5>1
      <4>4. QED
          BY <2>8, <4>1, <4>2, <4>3
    <3>4. TypeOK'
        BY <1>1, <2>2, <2>3, <3>1, <3>2 DEF TypeOK
    <3>5. GotInOrder' /\ MarkerIsLast'
        BY <1>1, <3>2 DEF GotInOrder, MarkerIsLast, Newer
    <3>6. NothingSkipped'
        BY <1>1, <2>3, <2>4, <3>2, <3>3 DEF NothingSkipped, Has
    <3>7. QED
        BY <3>4, <3>5, <3>6
  <2>9. ASSUME NEW s \in 0 .. Len(List), NEW e \in 0 .. Len(List),
               PageFrom(s, e, result, client.marker, m)
        PROVE  IInv'
    <3> DEFINE page == PieceOf(List, s, e)
    <3>1. /\ s \in Nat /\ e \in Nat /\ s < e /\ e <= Len(List)
          /\ \/ client.marker = NoMarker /\ s = 0
             \/ s >= 1 /\ client.marker = List[s]
      <4>1. s \in 0 .. Len(List) - 1 /\ e = IF s + m < Len(List) THEN s + m ELSE Len(List)
          BY <2>9 DEF PageFrom
      <4>2. s \in Nat /\ e \in Nat /\ s < e /\ e <= Len(List)
          BY <2>1, <2>5, <4>1
      <4>3. QED
          BY <2>9, <4>2 DEF PageFrom
    <3>2. /\ result.page = page /\ result.truncated = (e < Len(List))
          /\ result.next = IF e < Len(List) THEN List[e] ELSE NoMarker
        BY <2>9 DEF PageFrom
    <3>3. /\ SeqOver(page, DOMAIN byID) /\ Len(page) = e - s /\ page # <<>>
          /\ \A i \in 1 .. e - s : page[i] = List[s + i]
        BY <2>5, <3>1, Piece
    <3> HIDE DEF page
    <3>4. page \in Seq(IDs)
        BY <2>3, <3>3 DEF SeqOver
    <3>5. /\ client'.got \in Seq(IDs) /\ Len(client'.got) = Len(got) + (e - s)
          /\ \A i \in 1 .. Len(got) : client'.got[i] = got[i]
          /\ \A i \in 1 .. e - s : client'.got[Len(got) + i] = List[s + i]
      <4> HIDE DEF got
      <4>1. client'.got = got \o page
          BY <2>4, <3>2
      <4>2. got \o page \in Seq(IDs) /\ Len(got \o page) = Len(got) + Len(page)
          BY <2>3, <3>4
      <4>3. /\ \A i \in 1 .. Len(got) : (got \o page)[i] = got[i]
            /\ \A i \in 1 .. Len(page) : (got \o page)[Len(got) + i] = page[i]
          BY <2>3, <3>4
      <4>4. QED
          BY <3>3, <4>1, <4>2, <4>3
    <3>6. ASSUME NEW i \in 1 .. Len(got), NEW k \in s + 1 .. Len(List)
          PROVE  Newer(got[i], List[k])
      <4>1. got # <<>> /\ Len(got) \in 1 .. Len(got) /\ Len(got) \in Nat
          BY <2>3
      <4>2. client.marker = got[Len(got)] /\ client.marker # NoMarker
          BY <1>1, <4>1 DEF MarkerIsLast, Last
      <4>3. s >= 1 /\ client.marker = List[s] /\ k \in 1 .. Len(List)
          BY <3>1, <4>2
      <4>4. Newer(client.marker, List[k])
          BY <2>5, <3>1, <4>3
      <4>5. got[i] = client.marker \/ Newer(got[i], client.marker)
          BY <2>3, <4>1, <4>2
      <4>6. got[i] \in DOMAIN byID /\ client.marker \in DOMAIN byID /\ List[k] \in DOMAIN byID
          BY <2>3, <2>5, <4>1, <4>2, <4>3
      <4>7. QED
          BY <4>4, <4>5, <4>6, NewerOrders
    <3>7. GotInOrder'
      <4> DEFINE g == Len(got)
                 n == Len(client'.got)
                 N == Len(List)
      <4>1. /\ g \in Nat /\ n = g + (e - s) /\ N \in Nat
            /\ s \in Nat /\ e \in Nat /\ s < e /\ e <= N
            /\ \A i \in 1 .. g : client'.got[i] = got[i]
            /\ \A i \in 1 .. e - s : client'.got[g + i] = List[s + i]
            /\ \A i \in 1 .. g : got[i] \in DOMAIN byID
            /\ \A i, j \in 1 .. g : i < j => Newer(got[i], got[j])
            /\ \A k \in 1 .. N : List[k] \in DOMAIN byID
            /\ \A k, l \in 1 .. N : k < l => Newer(List[k], List[l])
            /\ \A i \in 1 .. g, k \in s + 1 .. N : Newer(got[i], List[k])
        <5>1. g \in Nat /\ n = g + (e - s)
            BY <2>3, <3>5
        <5>2. QED
            BY <2>3, <2>5, <3>1, <3>5, <3>6, <5>1
      <4> HIDE DEF g, n, N
      <4>2. \A i \in 1 .. n : i > g => /\ s + (i - g) \in s + 1 .. N /\ s + (i - g) \in 1 .. N
                                       /\ client'.got[i] = List[s + (i - g)]
        <5>1. SUFFICES ASSUME NEW i \in 1 .. n, i > g
                       PROVE  /\ s + (i - g) \in s + 1 .. N /\ s + (i - g) \in 1 .. N
                              /\ client'.got[i] = List[s + (i - g)]
            OBVIOUS
        <5>2. i - g \in 1 .. e - s /\ g + (i - g) = i
            BY <4>1, <5>1
        <5>3. client'.got[g + (i - g)] = List[s + (i - g)]
            BY <4>1, <5>2
        <5>4. QED
            BY <4>1, <5>2, <5>3
      <4>3. \A i \in 1 .. n : i <= g => i \in 1 .. g /\ client'.got[i] = got[i]
          BY <4>1
      <4>4. \A i \in 1 .. n : client'.got[i] \in DOMAIN byID
          BY <4>1, <4>2, <4>3
      <4>5. ASSUME NEW i \in 1 .. n, NEW j \in 1 .. n, i < j
            PROVE  Newer(client'.got[i], client'.got[j])
        <5>1. CASE j <= g
          <6>1. i <= g
              BY <4>1, <4>5, <5>1
          <6>2. QED
              BY <4>1, <4>3, <4>5, <5>1, <6>1
        <5>2. CASE i <= g /\ j > g
            BY <4>1, <4>2, <4>3, <5>2
        <5>3. CASE i > g
          <6>1. j > g /\ s + (i - g) < s + (j - g)
              BY <4>1, <4>5, <5>3
          <6>2. QED
              BY <4>1, <4>2, <5>3, <6>1
        <5>4. QED
            BY <4>1, <5>1, <5>2, <5>3
      <4>6. QED
          BY <1>1, <4>4, <4>5 DEF GotInOrder, Newer, n
    <3>8. ASSUME NEW id \in client.before, NEW k \in 1 .. e, List[k] = id
          PROVE  Has(id)'
      <4>1. CASE k <= s
        <5>1. s \in 1 .. Len(List) /\ client.marker = List[s] /\ k \in 1 .. s
            BY <2>5, <3>1, <4>1
        <5>2. PICK i \in 1 .. Len(got) : got[i] = id
            BY <2>7, <3>8, <5>1 DEF Has
        <5>3. i \in 1 .. Len(client'.got) /\ client'.got[i] = id
            BY <2>3, <3>1, <3>5, <5>2
        <5>4. QED
            BY <5>3 DEF Has
      <4>2. CASE k > s
        <5>1. k - s \in 1 .. e - s /\ s + (k - s) = k
            BY <3>1, <4>2
        <5>2. client'.got[Len(got) + (k - s)] = id
            BY <3>5, <3>8, <5>1
        <5>3. Len(got) + (k - s) \in 1 .. Len(client'.got)
            BY <2>3, <3>1, <3>5, <5>1
        <5>4. QED
            BY <5>2, <5>3 DEF Has
      <4>3. QED
          BY <3>1, <4>1, <4>2
    <3>9. TypeOK'
      <4>1. result.truncated \in BOOLEAN /\ result.next \in IDs \cup {NoMarker}
          BY <2>3, <2>5, <3>1, <3>2
      <4>2. got \o result.page \in Seq(IDs)
          BY <2>4, <3>5
      <4>3. QED
          BY <1>1, <2>2, <4>1, <4>2 DEF TypeOK
    <3>10. CASE e < Len(List)
      <4>1. /\ client'.active = TRUE /\ client'.marker = List[e] /\ told' = "truncated"
            /\ e \in 1 .. Len(List) /\ List[e] \in DOMAIN byID
        <5>1. e \in 1 .. Len(List)
            BY <2>5, <3>1
        <5>2. result.truncated = TRUE /\ result.next = List[e]
            BY <3>2, <3>10
        <5>3. QED
            BY <2>2, <2>4, <2>5, <5>1, <5>2
      <4>2. MarkerIsLast'
        <5>1. client'.marker # NoMarker
            BY <2>6, <4>1
        <5>2. e - s \in 1 .. e - s /\ s + (e - s) = e
            BY <3>1
        <5>3. Last(client'.got) = List[e]
            BY <3>5, <5>2 DEF Last
        <5>4. QED
            BY <4>1, <5>1, <5>3 DEF MarkerIsLast
      <4>3. ASSUME NEW id \in client.before, id = List[e] \/ Newer(id, List[e])
            PROVE  Has(id)'
        <5>1. PICK k \in 1 .. Len(List) : List[k] = id
            BY <2>3, <2>5
        <5>2. k <= e
          <6>1. SUFFICES ASSUME e < k PROVE FALSE
              BY <3>1
          <6>2. Newer(List[e], id) /\ id \in DOMAIN byID
              BY <2>3, <2>5, <4>1, <5>1, <6>1
          <6>3. QED
              BY <4>1, <4>3, <6>2, NewerOrders
        <5>3. QED
            BY <3>1, <3>8, <5>1, <5>2
      <4>4. NothingSkipped'
          BY <1>1, <2>3, <2>4, <4>1, <4>3 DEF NothingSkipped, Newer
      <4>5. QED
          BY <3>7, <3>9, <4>2, <4>4
    <3>11. CASE e = Len(List)
      <4>1. client'.active = FALSE /\ \A id \in client.before : Has(id)'
        <5>1. ~ (e < Len(List))
            BY <2>5, <3>11
        <5>2. client'.active = FALSE
          <6>1. (e < Len(List)) = FALSE
              BY <5>1
          <6>2. result.truncated = FALSE
              BY <3>2, <6>1, Zenon
          <6>3. QED
              BY <2>4, <6>2
        <5>3. QED
          <6>1. ASSUME NEW id \in client.before PROVE Has(id)'
            <7>1. PICK k \in 1 .. Len(List) : List[k] = id
                BY <2>3, <2>5
            <7>2. k \in 1 .. e
                BY <3>11
            <7>3. QED
                BY <3>8, <7>1, <7>2
          <6>2. QED
              BY <5>2, <6>1
      <4>2. MarkerIsLast' /\ NothingSkipped'
          BY <1>1, <2>3, <2>4, <4>1 DEF MarkerIsLast, NothingSkipped
      <4>3. QED
          BY <3>7, <3>9, <4>2
    <3>12. QED
        BY <3>1, <3>10, <3>11
  <2>10. QED
      BY <2>1, <2>8, <2>9, PageCut DEF result
<1>4. QED
    BY <1>2, <1>3

-----------------------------------------------------------------------------
\* The invariant holds of every reachable state.
THEOREM Inductive == Spec => []IInv
<1>1. Init => IInv
    BY InitIsInv
<1>2. IInv /\ [Next]_vars => IInv'
  <2>1. SUFFICES ASSUME IInv, [Next]_vars PROVE IInv'
      OBVIOUS
  <2>2. CASE Next
      BY <2>1, <2>2, CreatePreserves, BeginPreserves, GetPagePreserves DEF Next
  <2>3. CASE UNCHANGED vars
    <3>1. byID' = byID /\ client' = client /\ told' = told
        BY <2>3 DEF vars
    <3>2. QED
        BY <2>1, <3>1 DEF IInv, TypeOK, GotInOrder, MarkerIsLast, NothingSkipped, Newer, Has
  <2>4. QED
      BY <2>1, <2>2, <2>3
<1>3. QED
    BY <1>1, <1>2, PTL DEF Spec

\* Listing page by page with paginateRecords, while records are created with
\* equal and with earlier times: no record is on two pages, and a listing that
\* came to its end has every record there was when it began.
THEOREM ListsEveryRecordOnce == Spec => []EveryRecordOnce
<1>1. IInv => EveryRecordOnce
  <2>1. SUFFICES ASSUME IInv PROVE EveryRecordOnce
      OBVIOUS
  <2>2. /\ client.got \in Seq(IDs)
        /\ \A i \in 1 .. Len(client.got) : client.got[i] \in DOMAIN byID
        /\ \A i, j \in 1 .. Len(client.got) : i < j => Newer(client.got[i], client.got[j])
      BY <2>1 DEF IInv, TypeOK, GotInOrder
  <2>3. DOMAIN client.got = 1 .. Len(client.got) /\ Len(client.got) \in Nat
      BY <2>2
  <2>4. ASSUME NEW i \in 1 .. Len(client.got), NEW j \in 1 .. Len(client.got),
               client.got[i] = client.got[j], i # j
        PROVE  FALSE
    <3>1. i < j \/ j < i
        BY <2>4
    <3>2. Newer(client.got[i], client.got[i])
        BY <2>2, <2>4, <3>1
    <3>3. QED
        BY <2>1, <2>2, <3>2, NewerOrders DEF IInv
  <2>5. IsInjective(client.got)
      BY <2>3, <2>4 DEF IsInjective
  <2>6. told = "complete" => client.before \subseteq Range(client.got)
      BY <2>1, <2>3 DEF IInv, NothingSkipped, Has, Range
  <2>7. QED
      BY <2>5, <2>6 DEF EveryRecordOnce
<1>2. QED
    BY <1>1, Inductive, PTL
=============================================================================
