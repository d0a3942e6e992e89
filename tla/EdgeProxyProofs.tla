-------------------------- MODULE EdgeProxyProofs ---------------------------
(***************************************************************************)
(* Proofs about EdgeProxy, for any number of requests and behaviours, any  *)
(* lifetime of a cache entry and any patience of njs: which function a     *)
(* request may run.  And about EdgeEvent, for any headers and any order in *)
(* which Go iterates over them: what an echoing function changes.          *)
(***************************************************************************)
EXTENDS EdgeProxy, InductionLemmas, FiniteSetTheorems

Associations == [event : EventTypes, arn : DOMAIN FunctionName]
Functions == {Binding(item) : item \in Associations}

\* Whether a behaviour has an association for hook t.
Attached(lfa, t) == \E j \in DOMAIN lfa : lfa[j].event = t

-----------------------------------------------------------------------------
(* The lookup endpoint.                                                     *)

\* One round of the loop appends the bindings of one behaviour.
LEMMA AppendTyped ==
    ASSUME NEW out \in Seq(Functions), NEW lfa \in Seq(Associations)
    PROVE  /\ appendFromAssociations(out, lfa) \in Seq(Functions)
           /\ Len(appendFromAssociations(out, lfa)) = Len(out) + Len(lfa)
           /\ \A p \in 1 .. Len(out) : appendFromAssociations(out, lfa)[p] = out[p]
           /\ \A j \in 1 .. Len(lfa) :
                 appendFromAssociations(out, lfa)[Len(out) + j] = Binding(lfa[j])
<1> DEFINE new == [i \in DOMAIN lfa |-> Binding(lfa[i])]
<1>1. \A i \in 1 .. Len(lfa) : Binding(lfa[i]) \in Functions
    BY DEF Functions
<1>2. new \in Seq(Functions) /\ Len(new) = Len(lfa) /\ DOMAIN lfa = 1 .. Len(lfa)
    BY <1>1
<1>3. \A i \in 1 .. Len(lfa) : new[i] = Binding(lfa[i])
    BY <1>2
<1> HIDE DEF new
<1>4. appendFromAssociations(out, lfa) = out \o new
    BY DEF appendFromAssociations, new
<1>5. out \o new \in Seq(Functions) /\ Len(out \o new) = Len(out) + Len(new)
    BY <1>2
<1>6. \A p \in 1 .. Len(out) : (out \o new)[p] = out[p]
    BY <1>2
<1>7. \A j \in 1 .. Len(new) : (out \o new)[Len(out) + j] = new[j]
    BY <1>2
<1>8. QED
    BY <1>2, <1>3, <1>4, <1>5, <1>6, <1>7

\* collectFunctions is the last of the sequences its loop goes through.
LEMMA CollectLoop ==
    ASSUME NEW d \in Seq(Seq(Associations))
    PROVE  \E out \in [0 .. Len(d) -> Seq(Functions)] :
              /\ out[0] = <<>>
              /\ \A n \in 1 .. Len(d) : out[n] = appendFromAssociations(out[n - 1], d[n])
              /\ collectFunctions(d) = out[Len(d)]
<1> DEFINE round == [n \in 1 .. Len(d) |->
                        [s \in Seq(Functions) |-> appendFromAssociations(s, d[n])]]
           empty == <<>>
           Loop(f) == f = [n \in 0 .. Len(d) |->
                              IF n = 0 THEN empty ELSE appendFromAssociations(f[n - 1], d[n])]
           out == CHOOSE f : Loop(f)
<1>0. /\ Len(d) \in Nat /\ empty \in Seq(Functions)
      /\ \A n \in 1 .. Len(d) : d[n] \in Seq(Associations)
    OBVIOUS
<1> HIDE DEF empty
<1>1. round \in Rounds(Len(d), Seq(Functions))
    BY <1>0, AppendTyped DEF Rounds
<1>2. PICK f : /\ f \in [0 .. Len(d) -> Seq(Functions)]
               /\ f[0] = empty
               /\ \A n \in 1 .. Len(d) : f[n] = round[n][f[n - 1]]
  <2> HIDE DEF round
  <2>1. \E f : Runs(f, Len(d), Seq(Functions), empty, round)
      BY <1>0, <1>1, BoundedRecursion
  <2>2. QED
      BY <2>1 DEF Runs
<1>3. \A n \in 1 .. Len(d) : f[n] = appendFromAssociations(f[n - 1], d[n])
  <2> TAKE n \in 1 .. Len(d)
  <2>1. n - 1 \in 0 .. Len(d)
      OBVIOUS
  <2>2. f[n - 1] \in Seq(Functions)
      BY <1>2, <2>1
  <2>3. QED
      BY <1>2, <2>2
<1>4. Loop(f)
    BY <1>2, <1>3
<1>5. Loop(out)
    BY <1>4
<1>6. collectFunctions(d) = out[Len(d)]
    BY DEF collectFunctions, empty
<1> HIDE DEF out
<1>7. out[0] = empty /\ \A n \in 1 .. Len(d) : out[n] = appendFromAssociations(out[n - 1], d[n])
  <2>1. \A n \in 0 .. Len(d) :
            out[n] = IF n = 0 THEN empty ELSE appendFromAssociations(out[n - 1], d[n])
      BY <1>5, Zenon
  <2>2. 0 \in 0 .. Len(d) /\ \A n \in 1 .. Len(d) : n \in 0 .. Len(d) /\ n # 0
      BY <1>0
  <2>3. QED
      BY <2>1, <2>2
<1>8. out \in [0 .. Len(d) -> Seq(Functions)]
  <2> DEFINE S == {n \in 0 .. Len(d) : out[n] \in Seq(Functions)}
  <2>1. 0 \in S
      BY <1>0, <1>7
  <2>2. ASSUME NEW n \in 0 .. Len(d), n < Len(d) /\ n \in S PROVE n + 1 \in S
    <3>1. n + 1 \in 1 .. Len(d) /\ n + 1 \in 0 .. Len(d) /\ d[n + 1] \in Seq(Associations)
        BY <2>2
    <3>2. out[n + 1] = appendFromAssociations(out[n], d[n + 1])
        BY <1>7, <3>1
    <3>3. QED
        BY <2>2, <3>1, <3>2, AppendTyped
  <2>3. 0 .. Len(d) \subseteq S
    <3> HIDE DEF S
    <3>1. \A n \in 0 .. Len(d) : n < Len(d) /\ n \in S => n + 1 \in S
        BY <2>2
    <3>2. QED
        BY <1>0, <2>1, <3>1, BoundedInduction
  <2>4. QED
      BY <1>5, <2>3
<1>9. QED
    BY <1>6, <1>7, <1>8 DEF empty

\* F holds a binding for hook t, and the first of them is the one of the first
\* association of the first of d's first n behaviours that has one.
FirstOf(F, d, n, t) ==
    \E i \in 1 .. n : \E j \in 1 .. Len(d[i]) : \E p \in 1 .. Len(F) :
        /\ d[i][j].event = t
        /\ \A k \in 1 .. j - 1 : d[i][k].event # t
        /\ \A k \in 1 .. i - 1 : ~Attached(d[k], t)
        /\ F[p] = Binding(d[i][j])
        /\ \A q \in 1 .. p - 1 : F[q].event # t

NoneOf(F, d, n, t) ==
    /\ \A i \in 1 .. n : ~Attached(d[i], t)
    /\ \A p \in 1 .. Len(F) : F[p].event # t

\* Another round keeps the first binding there is ...
LEMMA RoundKeepsFirst ==
    ASSUME NEW F \in Seq(Functions), NEW d \in Seq(Seq(Associations)), NEW t,
           NEW n \in 0 .. Len(d) - 1, FirstOf(F, d, n, t)
    PROVE  FirstOf(appendFromAssociations(F, d[n + 1]), d, n + 1, t)
<1> DEFINE G == appendFromAssociations(F, d[n + 1])
<1>1. n + 1 \in 1 .. Len(d) /\ d[n + 1] \in Seq(Associations)
    OBVIOUS
<1>2. /\ Len(G) = Len(F) + Len(d[n + 1])
      /\ \A p \in 1 .. Len(F) : G[p] = F[p]
    BY <1>1, AppendTyped
<1> HIDE DEF G
<1> DEFINE First(i, j, p) ==
                /\ d[i][j].event = t
                /\ \A k \in 1 .. j - 1 : d[i][k].event # t
                /\ \A k \in 1 .. i - 1 : ~Attached(d[k], t)
                /\ F[p] = Binding(d[i][j])
                /\ \A q \in 1 .. p - 1 : F[q].event # t
<1>3. PICK i \in 1 .. n : \E j \in 1 .. Len(d[i]) : \E p \in 1 .. Len(F) : First(i, j, p)
    BY DEF FirstOf
<1>4. PICK j \in 1 .. Len(d[i]) : \E p \in 1 .. Len(F) : First(i, j, p)
    BY <1>3
<1>5. PICK p \in 1 .. Len(F) : First(i, j, p)
    BY <1>4
<1>6. i \in 1 .. n + 1 /\ p \in 1 .. Len(G) /\ G[p] = F[p]
  <2>1. i \in 1 .. n + 1
      OBVIOUS
  <2>2. Len(F) \in Nat /\ Len(d[n + 1]) \in Nat
      BY <1>1
  <2>3. p \in 1 .. Len(G)
      BY <1>2, <2>2
  <2>4. QED
      BY <1>2, <2>1, <2>3
<1>7. \A q \in 1 .. p - 1 : G[q].event # t
  <2> TAKE q \in 1 .. p - 1
  <2>1. q \in 1 .. Len(F)
      OBVIOUS
  <2>2. QED
      BY <1>2, <1>5, <2>1
<1>8. FirstOf(G, d, n + 1, t)
    BY <1>5, <1>6, <1>7 DEF FirstOf
<1>9. QED
    BY <1>8 DEF G

\* ... and where there is none, finds the first of its behaviour's, if any.
LEMMA RoundFindsFirst ==
    ASSUME NEW F \in Seq(Functions), NEW d \in Seq(Seq(Associations)), NEW t,
           NEW n \in 0 .. Len(d) - 1, NoneOf(F, d, n, t)
    PROVE  LET G == appendFromAssociations(F, d[n + 1])
           IN FirstOf(G, d, n + 1, t) \/ NoneOf(G, d, n + 1, t)
<1> DEFINE lfa == d[n + 1]
           G == appendFromAssociations(F, lfa)
<1>1. n + 1 \in 1 .. Len(d) /\ lfa \in Seq(Associations)
    OBVIOUS
<1>2. /\ Len(G) = Len(F) + Len(lfa)
      /\ \A p \in 1 .. Len(F) : G[p] = F[p]
      /\ \A j \in 1 .. Len(lfa) : G[Len(F) + j] = Binding(lfa[j])
    BY <1>1, AppendTyped
<1> HIDE DEF lfa, G
<1>3. \A p \in 1 .. Len(F) : G[p].event # t
    BY <1>2 DEF NoneOf
<1>4. \A j \in 1 .. Len(lfa) : G[Len(F) + j].event = lfa[j].event
  <2>1. \A item : Binding(item).event = item.event
      BY DEF Binding
  <2>2. QED
      BY <1>2, <2>1
<1>5. CASE Attached(lfa, t)
  <2> DEFINE J == {j \in 1 .. Len(lfa) : lfa[j].event = t}
  <2>1. DOMAIN lfa = 1 .. Len(lfa) /\ Len(lfa) \in Nat
      BY <1>1
  <2>2. J # {} /\ J \subseteq Nat
      BY <1>5, <2>1 DEF Attached
  <2>3. PICK j \in J : \A k \in J : j <= k
    <3> HIDE DEF J
    <3> QED
        BY <2>2, NatMin
  <2>4. \A k \in 1 .. j - 1 : lfa[k].event # t
    <3> TAKE k \in 1 .. j - 1
    <3>1. k \in 1 .. Len(lfa) /\ k < j
        BY <2>1
    <3>2. QED
        BY <2>3, <3>1
  <2> DEFINE m == n + 1
             p == Len(F) + j
  <2>5. m = n + 1 /\ m \in 1 .. m /\ p = Len(F) + j
      OBVIOUS
  <2> HIDE DEF J, m, p
  <2>6. p \in 1 .. Len(G) /\ G[p] = Binding(lfa[j])
      BY <1>2, <2>1, <2>3, <2>5 DEF J
  <2>7. \A q \in 1 .. p - 1 : G[q].event # t
    <3> TAKE q \in 1 .. p - 1
    <3>1. CASE q <= Len(F)
        BY <1>3, <3>1
    <3>2. CASE q > Len(F)
      <4> DEFINE k == q - Len(F)
      <4>1. k \in 1 .. j - 1 /\ k \in 1 .. Len(lfa) /\ q = Len(F) + k
          BY <2>1, <2>3, <2>5, <3>2 DEF J
      <4>2. QED
          BY <1>4, <2>4, <4>1
    <3>3. QED
        BY <2>5, <3>1, <3>2 DEF J
  <2>8. \A k \in 1 .. m - 1 : ~Attached(d[k], t)
    <3> TAKE k \in 1 .. m - 1
    <3>1. k \in 1 .. n
        BY <2>5
    <3>2. QED
        BY <3>1 DEF NoneOf
  <2>9. lfa = d[m] /\ j \in 1 .. Len(lfa) /\ lfa[j].event = t
      BY DEF lfa, m, J
  <2>10. /\ j \in 1 .. Len(d[m]) /\ d[m][j].event = t /\ G[p] = Binding(d[m][j])
         /\ \A k \in 1 .. j - 1 : d[m][k].event # t
      BY <2>4, <2>6, <2>9
  <2> DEFINE First(x, y, z) ==
                /\ d[x][y].event = t
                /\ \A k \in 1 .. y - 1 : d[x][k].event # t
                /\ \A k \in 1 .. x - 1 : ~Attached(d[k], t)
                /\ G[z] = Binding(d[x][y])
                /\ \A q \in 1 .. z - 1 : G[q].event # t
  <2>11. First(m, j, p)
      BY <2>7, <2>8, <2>10, Zenon
  <2>12. FirstOf(G, d, m, t) = \E x \in 1 .. m : \E y \in 1 .. Len(d[x]) :
                                  \E z \in 1 .. Len(G) : First(x, y, z)
      BY Zenon DEF FirstOf
  <2> HIDE DEF First
  <2>13. FirstOf(G, d, m, t)
      BY <2>5, <2>6, <2>10, <2>11, <2>12, Zenon
  <2>14. QED
      BY <2>13 DEF G, lfa, m
<1>6. CASE ~Attached(lfa, t)
  <2>1. \A p \in 1 .. Len(G) : G[p].event # t
    <3> TAKE p \in 1 .. Len(G)
    <3>1. CASE p <= Len(F)
        BY <1>3, <3>1
    <3>2. CASE p > Len(F)
      <4> DEFINE k == p - Len(F)
      <4>1. k \in 1 .. Len(lfa) /\ p = Len(F) + k /\ DOMAIN lfa = 1 .. Len(lfa)
          BY <1>1, <1>2, <3>2
      <4>2. QED
          BY <1>4, <1>6, <4>1 DEF Attached
    <3>3. QED
        BY <1>1, <1>2, <3>1, <3>2
  <2>2. \A i \in 1 .. n + 1 : ~Attached(d[i], t)
    <3> TAKE i \in 1 .. n + 1
    <3>1. i \in 1 .. n \/ i = n + 1
        OBVIOUS
    <3>2. QED
        BY <1>6, <3>1 DEF NoneOf, lfa
  <2>3. QED
      BY <2>1, <2>2 DEF NoneOf, G, lfa
<1>7. QED
    BY <1>5, <1>6

\* So the whole loop collects, first of all bindings for a hook, the one REV-2
\* says takes precedence.
LEMMA CollectsFirst ==
    ASSUME NEW d \in Seq(Seq(Associations)), NEW t
    PROVE  /\ collectFunctions(d) \in Seq(Functions)
           /\ \/ FirstOf(collectFunctions(d), d, Len(d), t)
              \/ NoneOf(collectFunctions(d), d, Len(d), t)
<1>1. PICK out \in [0 .. Len(d) -> Seq(Functions)] :
            /\ out[0] = <<>>
            /\ \A n \in 1 .. Len(d) : out[n] = appendFromAssociations(out[n - 1], d[n])
            /\ collectFunctions(d) = out[Len(d)]
    BY CollectLoop
<1> DEFINE S == {n \in 0 .. Len(d) : FirstOf(out[n], d, n, t) \/ NoneOf(out[n], d, n, t)}
<1>2. Len(d) \in Nat /\ 0 \in 0 .. Len(d) /\ Len(d) \in 0 .. Len(d)
    OBVIOUS
<1>3. 0 \in S
  <2>1. Len(out[0]) = 0 /\ 1 .. 0 = {}
      BY <1>1
  <2>2. NoneOf(out[0], d, 0, t)
      BY <2>1 DEF NoneOf
  <2>3. QED
      BY <1>2, <2>2
<1>4. ASSUME NEW n \in 0 .. Len(d), n < Len(d), n \in S PROVE n + 1 \in S
  <2>1. n \in 0 .. Len(d) - 1 /\ n + 1 \in 1 .. Len(d) /\ n + 1 \in 0 .. Len(d)
      BY <1>2, <1>4
  <2>2. out[n] \in Seq(Functions) /\ out[n + 1] = appendFromAssociations(out[n], d[n + 1])
    <3>1. (n + 1) - 1 = n
        OBVIOUS
    <3>2. out[n + 1] = appendFromAssociations(out[(n + 1) - 1], d[n + 1])
        BY <1>1, <2>1, Zenon
    <3>3. QED
        BY <1>1, <3>1, <3>2
  <2>3. FirstOf(out[n + 1], d, n + 1, t) \/ NoneOf(out[n + 1], d, n + 1, t)
      BY <1>4, <2>1, <2>2, RoundKeepsFirst, RoundFindsFirst
  <2>4. QED
      BY <2>1, <2>3
<1>5. 0 .. Len(d) \subseteq S
  <2> HIDE DEF S
  <2>1. \A n \in 0 .. Len(d) : n < Len(d) /\ n \in S => n + 1 \in S
      BY <1>4
  <2>2. QED
      BY <1>2, <1>3, <2>1, BoundedInduction
<1>6. QED
    BY <1>1, <1>2, <1>5

\* What findByEvent finds in a list: its first binding for the hook.
LEMMA FindsFirst ==
    ASSUME NEW F \in Seq(Functions), NEW t
    PROVE  /\ (\A p \in 1 .. Len(F) : F[p].event # t) => findByEvent(F, t) = None
           /\ \A p \in 1 .. Len(F) :
                F[p].event = t /\ (\A q \in 1 .. p - 1 : F[q].event # t)
                    => findByEvent(F, t) = F[p]
<1> DEFINE I == {p \in 1 .. Len(F) : F[p].event = t}
           least == IF I # {} THEN Min(I) ELSE 0
<1>1. findByEvent(F, t) = IF least = 0 THEN None ELSE F[least]
    BY DEF findByEvent, SelectInSeq
<1>2. ASSUME \A p \in 1 .. Len(F) : F[p].event # t PROVE findByEvent(F, t) = None
  <2>1. I = {}
      BY <1>2
  <2>2. QED
      BY <1>1, <2>1
<1>3. ASSUME NEW p \in 1 .. Len(F), F[p].event = t, \A q \in 1 .. p - 1 : F[q].event # t
      PROVE  findByEvent(F, t) = F[p]
  <2>1. p \in I /\ \A q \in I : p <= q
      BY <1>3
  <2>2. I \subseteq Int
      OBVIOUS
  <2>3. Min(I) = p
    <3> HIDE DEF I
    <3>1. \A x \in I : (\A y \in I : x <= y) => x = p
        BY <2>1, <2>2
    <3>2. QED
        BY <2>1, <3>1 DEF Min
  <2>4. least = p /\ p # 0
      BY <2>1, <2>3
  <2>5. QED
      BY <1>1, <2>4
<1>4. QED
    BY <1>2, <1>3

\* resolveFunction finds, in what the endpoint sends for a distribution, the
\* function that hook is expected to run.
LEMMA FindsExpected ==
    ASSUME NEW d \in Configs \cup {None}, NEW t
    PROVE  LET f == findByEvent(Bindings(d), t)
           IN Expected(d, t) = IF f = None THEN None ELSE f.arn
<1> DEFINE f == findByEvent(Bindings(d), t)
<1> SUFFICES Expected(d, t) = IF f = None THEN None ELSE f.arn
    OBVIOUS
<1>1. CASE d = None
  <2> DEFINE e == <<>>
  <2>1. e \in Seq(Functions) /\ 1 .. Len(e) = {}
      OBVIOUS
  <2>2. findByEvent(e, t) = None
    <3> HIDE DEF e
    <3> QED
        BY <2>1, FindsFirst
  <2>3. f = None
      BY <1>1, <2>2 DEF Bindings
  <2>4. QED
      BY <1>1, <2>3 DEF Expected
<1>2. CASE d # None
  <2> DEFINE F == collectFunctions(d)
  <2>1. d \in Configs /\ d \in Seq(Seq(Associations)) /\ f = findByEvent(F, t)
      BY <1>2, ConfigAssumption DEF Bindings, Associations
  <2>2. /\ DOMAIN d = 1 .. Len(d)
        /\ \A i \in 1 .. Len(d) : d[i] \in Seq(Associations) /\ DOMAIN d[i] = 1 .. Len(d[i])
      BY <2>1
  <2> DEFINE Has(i) == \E j \in DOMAIN d[i] : d[i][j].event = t
             First(i) == CHOOSE j \in DOMAIN d[i] :
                            d[i][j].event = t /\ \A k \in 1 .. j - 1 : d[i][k].event # t
             least == CHOOSE i \in DOMAIN d : Has(i) /\ \A k \in 1 .. i - 1 : ~Has(k)
  <2>3. Expected(d, t) = IF \A i \in DOMAIN d : ~Has(i) THEN None ELSE d[least][First(least)].arn
      BY <1>2 DEF Expected
  <2>4. F \in Seq(Functions) /\ (FirstOf(F, d, Len(d), t) \/ NoneOf(F, d, Len(d), t))
      BY <2>1, CollectsFirst
  <2>5. CASE NoneOf(F, d, Len(d), t)
    <3>1. f = None
        BY <2>1, <2>4, <2>5, FindsFirst DEF NoneOf
    <3>2. \A i \in DOMAIN d : ~Has(i)
        BY <2>2, <2>5 DEF NoneOf, Attached
    <3>3. QED
        BY <2>3, <3>1, <3>2
  <2>6. CASE FirstOf(F, d, Len(d), t)
    <3> DEFINE At(i, j, p) ==
                    /\ d[i][j].event = t
                    /\ \A k \in 1 .. j - 1 : d[i][k].event # t
                    /\ \A k \in 1 .. i - 1 : ~Attached(d[k], t)
                    /\ F[p] = Binding(d[i][j])
                    /\ \A q \in 1 .. p - 1 : F[q].event # t
    <3>1. PICK i \in 1 .. Len(d) : \E j \in 1 .. Len(d[i]) : \E p \in 1 .. Len(F) : At(i, j, p)
        BY <2>6 DEF FirstOf
    <3>2. PICK j \in 1 .. Len(d[i]) : \E p \in 1 .. Len(F) : At(i, j, p)
        BY <3>1
    <3>3. PICK p \in 1 .. Len(F) : At(i, j, p)
        BY <3>2
    <3>4. F[p].event = t /\ F[p].arn = d[i][j].arn
        BY <3>3 DEF Binding
    <3>5. f = F[p]
        BY <2>1, <2>4, <3>3, <3>4, FindsFirst
    <3>6. f # None
        BY <2>1, <2>2, <3>3, <3>5, ConfigAssumption
    <3>7. least = i
      <4>1. Has(i) /\ \A k \in 1 .. i - 1 : ~Has(k)
          BY <2>2, <3>3 DEF Attached
      <4>2. \A l \in DOMAIN d : Has(l) /\ (\A k \in 1 .. l - 1 : ~Has(k)) => l = i
        <5> TAKE l \in DOMAIN d
        <5>1. l \in 1 .. Len(d) /\ (l < i => l \in 1 .. i - 1) /\ (i < l => i \in 1 .. l - 1)
            BY <2>2
        <5> HIDE DEF Has
        <5>2. QED
            BY <4>1, <5>1
      <4> HIDE DEF Has
      <4>3. QED
          BY <2>2, <4>1, <4>2
    <3>8. First(i) = j
      <4>1. \A l \in 1 .. Len(d[i]) :
              d[i][l].event = t /\ (\A k \in 1 .. l - 1 : d[i][k].event # t) => l = j
        <5> TAKE l \in 1 .. Len(d[i])
        <5>1. (l < j => l \in 1 .. j - 1) /\ (j < l => j \in 1 .. l - 1)
            BY <2>2
        <5>2. QED
            BY <3>3, <5>1
      <4>2. QED
          BY <2>2, <3>3, <4>1
    <3>9. Has(i) /\ i \in DOMAIN d
        BY <2>2, <3>3
    <3>10. QED
      <4> HIDE DEF Has, First, least, f
      <4> QED
          BY <2>3, <3>4, <3>5, <3>6, <3>7, <3>8, <3>9
  <2>7. QED
      BY <2>4, <2>5, <2>6
<1>3. QED
    BY <1>1, <1>2

-----------------------------------------------------------------------------
(* The proxy.                                                               *)

\* An empty list has no function.
LEMMA FindsNothing == \A t : findByEvent(<<>>, t) = None
<1> DEFINE e == <<>>
<1>1. e \in Seq(Functions) /\ 1 .. Len(e) = {}
    OBVIOUS
<1>2. \A t : findByEvent(e, t) = None
  <2> HIDE DEF e
  <2> QED
      BY <1>1, FindsFirst
<1>3. QED
    BY <1>2

\* What a step leaves alone of a request.
Same(q) ==
    /\ pc'[q] = pc[q] /\ type'[q] = type[q] /\ snap'[q] = snap[q] /\ answer'[q] = answer[q]
    /\ since'[q] = since[q] /\ fn'[q] = fn[q] /\ source'[q] = source[q]

\* The history of the store is only ever added to.
Grows ==
    /\ now \in Nat /\ now' \in Nat /\ now <= now'
    /\ \A t \in 0 .. now : past[t] \subseteq past'[t]

\* What was sent at some time stays sent then.
LEMMA SentStays ==
    ASSUME Grows, NEW t \in 0 .. now, NEW functions
    PROVE  /\ t \in 0 .. now'
           /\ SentAt(functions, t) => \E d \in past'[t] : functions = Bindings(d)
    BY DEF Grows, SentAt

\* A step that leaves a request alone keeps its part of the invariant.
LEMMA OtherRequest ==
    ASSUME Typed, Grows, NEW q \in Requests, RequestInv(q), Same(q), Timely(q)'
    PROVE  RequestInv(q)'
<1> USE DEF RequestInv, Same
<1>0. since[q] \in Nat
    BY DEF Typed
<1>1. ASSUME NEW t \in 0 .. now, FoundAt(q, t) PROVE t \in 0 .. now' /\ FoundAt(q, t)'
    BY <1>1 DEF FoundAt, Grows
<1>2. LookupSent(q)'
  <2>1. ASSUME Waits(q), snap[q] # None
        PROVE  \E t \in 0 .. now' : \E d \in past'[t] : snap[q].functions = Bindings(d)
      BY <2>1, SentStays DEF LookupSent
  <2>2. ASSUME pc[q] = "answering"
        PROVE  \E t \in since[q] .. now' : \E d \in past'[t] : answer[q] = Bindings(d)
    <3>1. PICK t \in since[q] .. now : SentAt(answer[q], t)
        BY <2>2 DEF LookupSent
    <3>2. t \in 0 .. now /\ t \in since[q] .. now'
        BY <1>0 DEF Grows
    <3>3. QED
        BY <3>1, <3>2, SentStays
  <2>3. QED
      BY <2>1, <2>2 DEF LookupSent, SentAt, Waits
<1>3. ResolvedFrom(q)'
  <2> SUFFICES ASSUME pc[q] \in {"resolved", "invoking"} PROVE ResolvedFrom(q)'
      BY DEF ResolvedFrom
  <2>1. CASE source[q] = "none" /\ fn[q] = None
      BY <2>1 DEF ResolvedFrom
  <2>2. CASE source[q] = "stale" /\ \E t \in 0 .. now : FoundAt(q, t)
      BY <1>1, <2>2 DEF ResolvedFrom
  <2>3. CASE /\ source[q] \in {"hit", "lookup"}
             /\ \E t \in 0 .. now : since[q] - TTL - Patience <= t /\ FoundAt(q, t)
      BY <1>1, <2>3 DEF ResolvedFrom
  <2>4. QED
      BY <2>1, <2>2, <2>3 DEF ResolvedFrom
<1>4. Callable(q)'
    BY DEF Callable
<1>5. QED
    BY <1>2, <1>3, <1>4

\* A step of request r that keeps its own part, and the cache's, keeps all.
LEMMA OneRequest ==
    ASSUME IInv, NEW r \in Requests, UNCHANGED world, \A q \in Requests \ {r} : Same(q),
           Typed', CacheSent', RequestInv(r)'
    PROVE  IInv'
<1> USE DEF IInv
<1>1. Grows /\ (dist \in past[now])'
    BY DEF Grows, Typed, world
<1>2. ASSUME NEW q \in Requests \ {r} PROVE RequestInv(q)'
  <2>1. Timely(q)'
      BY <1>2 DEF RequestInv, Timely, Same, Waits, world
  <2>2. QED
      BY <1>1, <1>2, <2>1, OtherRequest
<1>3. QED
    BY <1>1, <1>2

\* Resolving from a list that was sent at time u, and when that has to be.
LEMMA ResolvePreserves ==
    ASSUME IInv, Typed', UNCHANGED world, NEW r \in Requests, NEW functions, NEW from,
           Resolve(r, functions, from),
           \/ from = "none" /\ functions = <<>>
           \/ from = "stale" /\ \E u \in 0 .. now : SentAt(functions, u)
           \/ /\ from \in {"hit", "lookup"}
              /\ \E u \in 0 .. now : since'[r] - TTL - Patience <= u /\ SentAt(functions, u)
    PROVE  RequestInv(r)'
<1>1. /\ pc'[r] = "resolved" /\ source'[r] = from
      /\ fn'[r] = findByEvent(functions, type'[r])
    BY DEF IInv, Typed, Resolve
<1>2. Timely(r)' /\ LookupSent(r)' /\ Callable(r)'
    BY <1>1 DEF Timely, LookupSent, Callable, Waits
<1>3. ASSUME NEW u \in 0 .. now, SentAt(functions, u) PROVE FoundAt(r, u)'
    BY <1>1, <1>3 DEF SentAt, FoundAt, world
<1>4. now' = now
    BY DEF world
<1>5. ResolvedFrom(r)'
  <2>1. CASE from = "none" /\ functions = <<>>
      BY <1>1, <2>1, FindsNothing DEF ResolvedFrom
  <2>2. CASE from = "stale" /\ \E u \in 0 .. now : SentAt(functions, u)
      BY <1>1, <1>3, <1>4, <2>2 DEF ResolvedFrom
  <2>3. CASE /\ from \in {"hit", "lookup"}
             /\ \E u \in 0 .. now : since'[r] - TTL - Patience <= u /\ SentAt(functions, u)
      BY <1>1, <1>3, <1>4, <2>3 DEF ResolvedFrom
  <2>4. QED
      BY <2>1, <2>2, <2>3
<1>6. QED
    BY <1>2, <1>5 DEF RequestInv

\* The first locked section: an entry that has not expired is young enough.
LEMMA InvokePreserves ==
    ASSUME IInv, NEW r \in Requests, NEW t \in Hooks, Invoke(r, t)
    PROVE  IInv'
<1> USE EdgeProxyAssumption DEF IInv
<1>1. /\ UNCHANGED world /\ cache' = cache
      /\ type' = [type EXCEPT ![r] = t]
      /\ since' = [since EXCEPT ![r] = now]
    BY DEF Invoke
<1>2. CacheSent'
    BY <1>1 DEF CacheSent, SentAt, world
<1>3. CASE cache # None /\ now <= cache.expiresAt
  <2>1. Resolve(r, cache.functions, "hit")
      BY <1>3 DEF Invoke
  <2>2. Typed'
      BY <1>1, <2>1 DEF Resolve, Typed, world
  <2>3. \A q \in Requests \ {r} : Same(q)
      BY <1>1, <2>1 DEF Resolve, Typed, Same
  <2>4. PICK u \in 0 .. now :
            cache.expiresAt - TTL - Patience <= u /\ SentAt(cache.functions, u)
      BY <1>3 DEF CacheSent
  <2>5. since'[r] - TTL - Patience <= u
      BY <1>1, <1>3, <2>4 DEF CacheSent, Typed
  <2>6. RequestInv(r)'
      BY <1>1, <2>1, <2>2, <2>4, <2>5, ResolvePreserves
  <2>7. QED
      BY <1>1, <1>2, <2>2, <2>3, <2>6, OneRequest
<1>4. CASE ~(cache # None /\ now <= cache.expiresAt)
  <2>1. /\ snap' = [snap EXCEPT ![r] = cache]
        /\ pc' = [pc EXCEPT ![r] = "resolving"]
        /\ UNCHANGED <<answer, fn, source>>
      BY <1>4 DEF Invoke
  <2>2. Typed'
      BY <1>1, <2>1 DEF Typed, world
  <2>3. \A q \in Requests \ {r} : Same(q)
      BY <1>1, <2>1 DEF Typed, Same
  <2>4. pc'[r] = "resolving" /\ snap'[r] = cache /\ since'[r] = now /\ now' = now
      BY <1>1, <2>1 DEF Typed, world
  <2>5. Timely(r)' /\ ResolvedFrom(r)' /\ Callable(r)'
      BY <2>4 DEF Timely, ResolvedFrom, Callable, Typed
  <2>6. LookupSent(r)'
      BY <1>1, <2>4 DEF LookupSent, CacheSent, SentAt, world
  <2>7. QED
      BY <1>1, <1>2, <2>2, <2>3, <2>5, <2>6, OneRequest DEF RequestInv
<1>5. QED
    BY <1>3, <1>4

\* The endpoint sends what the store holds now.
LEMMA LookupAnswersPreserves ==
    ASSUME IInv, NEW r \in Requests, LookupAnswers(r)
    PROVE  IInv'
<1> USE DEF IInv
<1>1. /\ UNCHANGED <<world, cache, type, snap, since, fn, source>>
      /\ answer' = [answer EXCEPT ![r] = Bindings(dist)]
      /\ pc[r] = "resolving" /\ pc' = [pc EXCEPT ![r] = "answering"]
    BY DEF LookupAnswers
<1>2. Typed' /\ CacheSent' /\ \A q \in Requests \ {r} : Same(q)
    BY <1>1 DEF Typed, CacheSent, SentAt, Same, world
<1>3. /\ pc'[r] = "answering" /\ answer'[r] = Bindings(dist) /\ snap'[r] = snap[r]
      /\ since'[r] = since[r] /\ now' = now /\ past' = past
    BY <1>1 DEF Typed, world
<1>4. since[r] <= now /\ now - since[r] <= Patience
    BY <1>1 DEF RequestInv, Timely, Waits
<1>5. Timely(r)' /\ ResolvedFrom(r)' /\ Callable(r)'
    BY <1>3, <1>4 DEF Timely, ResolvedFrom, Callable
<1>6. LookupSent(r)'
  <2>1. now \in since[r] .. now /\ SentAt(Bindings(dist), now)
      BY <1>4 DEF Typed, SentAt
  <2>2. snap[r] # None => \E t \in 0 .. now : SentAt(snap[r].functions, t)
      BY <1>1 DEF RequestInv, LookupSent, Waits
  <2>3. QED
      BY <1>3, <2>1, <2>2 DEF LookupSent, SentAt
<1>7. QED
    BY <1>1, <1>2, <1>5, <1>6, OneRequest DEF RequestInv

\* Without an answer the entry seen at first is used, or nothing.
LEMMA LookupFailsPreserves ==
    ASSUME IInv, NEW r \in Requests, LookupFails(r)
    PROVE  IInv'
<1> USE DEF IInv
<1>1. UNCHANGED <<world, cache, type, since>> /\ Waits(r)
    BY DEF LookupFails, Waits
<1>2. \/ snap[r] # None /\ Resolve(r, snap[r].functions, "stale")
      \/ Resolve(r, <<>>, "none")
    BY DEF LookupFails
<1>3. Typed' /\ \A q \in Requests \ {r} : Same(q)
  <2>1. ASSUME NEW functions, NEW from \in {"none", "stale"}, Resolve(r, functions, from)
        PROVE  Typed'
      BY <1>1, <2>1 DEF Resolve, Typed, world
  <2>2. ASSUME NEW functions, NEW from, Resolve(r, functions, from)
        PROVE  \A q \in Requests \ {r} : Same(q)
      BY <1>1, <2>2 DEF Resolve, Typed, Same
  <2>3. QED
      BY <1>2, <2>1, <2>2
<1>4. CacheSent'
    BY <1>1 DEF CacheSent, SentAt, world
<1>5. RequestInv(r)'
  <2>1. CASE snap[r] # None /\ Resolve(r, snap[r].functions, "stale")
    <3>1. \E u \in 0 .. now : SentAt(snap[r].functions, u)
        BY <1>1, <2>1 DEF RequestInv, LookupSent
    <3>2. QED
        BY <1>1, <1>3, <2>1, <3>1, ResolvePreserves
  <2>2. CASE Resolve(r, <<>>, "none")
      BY <1>1, <1>3, <2>2, ResolvePreserves
  <2>3. QED
      BY <1>2, <2>1, <2>2
<1>6. QED
    BY <1>1, <1>3, <1>4, <1>5, OneRequest

\* The second locked section: whoever stores last, what is stored was sent at
\* most one lookup ago.
LEMMA StorePreserves ==
    ASSUME IInv, NEW r \in Requests, Store(r)
    PROVE  IInv'
<1> USE EdgeProxyAssumption DEF IInv
<1>1. /\ UNCHANGED <<world, type, since>>
      /\ pc[r] = "answering"
      /\ cache' = [functions |-> answer[r], expiresAt |-> now + TTL]
      /\ Resolve(r, answer[r], "lookup")
    BY DEF Store
<1>2. Typed' /\ \A q \in Requests \ {r} : Same(q)
    BY <1>1 DEF Resolve, Typed, Same, world
<1>3. PICK u \in since[r] .. now : SentAt(answer[r], u)
    BY <1>1 DEF RequestInv, LookupSent
<1>4. since[r] \in Nat /\ since'[r] = since[r] /\ now - since[r] <= Patience /\ now \in Nat
    BY <1>1 DEF RequestInv, Timely, Waits, Typed
<1>5. u \in 0 .. now /\ since'[r] - TTL - Patience <= u /\ (now + TTL) - TTL - Patience <= u
    BY <1>4
<1>6. CacheSent'
  <2>1. cache'.expiresAt = now + TTL /\ cache'.functions = answer[r] /\ now + TTL \in Nat
      BY <1>1, <1>4
  <2>2. now' = now /\ past' = past
      BY <1>1 DEF world
  <2>3. QED
      BY <1>3, <1>5, <2>1, <2>2 DEF CacheSent, SentAt
<1>7. RequestInv(r)'
    BY <1>1, <1>2, <1>3, <1>5, ResolvePreserves
<1>8. QED
    BY <1>1, <1>2, <1>6, <1>7, OneRequest

\* After that a request only looks at what it resolved to.
LEMMA RestPreserves ==
    ASSUME IInv, NEW r \in Requests,
           RefuseInvoke(r) \/ Dispatch(r) \/ RIEAnswers(r) \/ RIEFails(r) \/ Forget(r) \/ HangUp(r)
    PROVE  IInv'
<1> USE EdgeProxyAssumption DEF IInv
<1>1. UNCHANGED <<world, cache, snap, answer>>
    BY DEF RefuseInvoke, Dispatch, RIEAnswers, RIEFails, Forget, HangUp
<1>2. CacheSent'
    BY <1>1 DEF CacheSent, SentAt, world
<1>3. ASSUME NEW action, Finish(r, action) PROVE IInv'
  <2>1. Typed' /\ pc'[r] = "done" /\ \A q \in Requests \ {r} : Same(q)
    <3>1. /\ UNCHANGED <<now, dist, past, snap, answer>>
          /\ pc' = [pc EXCEPT ![r] = "done"] /\ type' = [type EXCEPT ![r] = None]
          /\ since' = [since EXCEPT ![r] = 0] /\ fn' = [fn EXCEPT ![r] = None]
          /\ source' = [source EXCEPT ![r] = "none"]
        BY <1>1, <1>3 DEF Finish, world
    <3>2. since' \in [Requests -> 0 .. MaxTime]
      <4>1. 0 \in 0 .. MaxTime /\ since \in [Requests -> 0 .. MaxTime]
          BY DEF Typed
      <4>2. QED
          BY <3>1, <4>1
    <3>3. Requests = DOMAIN type' /\ Requests = DOMAIN fn'
        BY <3>1 DEF Typed
    <3>4. Typed' /\ pc'[r] = "done"
        BY <3>1, <3>2, <3>3 DEF Typed
    <3>5. \A q \in Requests \ {r} : Same(q)
        BY <3>1 DEF Typed, Same
    <3>6. QED
        BY <3>4, <3>5
  <2>2. RequestInv(r)'
      BY <2>1 DEF RequestInv, Timely, LookupSent, ResolvedFrom, Callable, Waits
  <2>3. QED
      BY <1>1, <1>2, <2>1, <2>2, OneRequest
<1>4. CASE /\ pc[r] = "resolved" /\ fn[r] # None /\ fn[r].endpoint # ""
           /\ pc' = [pc EXCEPT ![r] = "invoking"]
           /\ UNCHANGED <<outcome, type, since, fn, source, hungup>>
  <2>1. /\ Typed' /\ \A q \in Requests \ {r} : Same(q)
        /\ pc'[r] = "invoking" /\ now' = now /\ past' = past
      BY <1>1, <1>4 DEF Typed, Same, world
  <2>2. Timely(r)' /\ LookupSent(r)' /\ Callable(r)'
      BY <1>4, <2>1 DEF Timely, LookupSent, Callable, Waits
  <2>3. ResolvedFrom(r)'
      BY <1>4, <2>1 DEF RequestInv, ResolvedFrom, FoundAt
  <2>4. QED
      BY <1>1, <1>2, <2>1, <2>2, <2>3, OneRequest DEF RequestInv
<1>5. CASE Forget(r)
  <2>1. Typed' /\ pc'[r] = "idle" /\ \A q \in Requests \ {r} : Same(q)
      BY <1>5 DEF Forget, Typed, Same, world
  <2>2. RequestInv(r)'
      BY <2>1 DEF RequestInv, Timely, LookupSent, ResolvedFrom, Callable, Waits
  <2>3. QED
      BY <1>1, <1>2, <2>1, <2>2, OneRequest
<1>6. CASE HangUp(r)
  <2>1. UNCHANGED <<world, pc, type, snap, answer, since, fn, source>>
      BY <1>6 DEF HangUp
  <2>2. Typed' /\ \A q \in Requests \ {r} : Same(q)
      BY <2>1 DEF Typed, Same, world
  <2>3. RequestInv(r)'
      BY <2>1 DEF RequestInv, Timely, LookupSent, ResolvedFrom, Callable, Waits, SentAt, FoundAt, world
  <2>4. QED
      BY <1>1, <1>2, <2>2, <2>3, OneRequest
<1>7. QED
    BY <1>3, <1>4, <1>5, <1>6 DEF RefuseInvoke, Dispatch, RIEAnswers, RIEFails

\* The clock and the store: the past stays, and a tick leaves no request
\* waiting for longer than njs does.
LEMMA WorldPreserves ==
    ASSUME IInv, Tick \/ \E d \in Configs \cup {None} : ChangeDistribution(d)
    PROVE  IInv'
<1> USE EdgeProxyAssumption DEF IInv
<1>1. UNCHANGED <<cache, pc, type, snap, answer, since, fn, source>>
    BY DEF Tick, ChangeDistribution
<1>2. Typed' /\ Grows /\ (dist \in past[now])' /\ \A q \in Requests : Same(q)
  <2>1. \A q \in Requests : Same(q)
      BY <1>1 DEF Same
  <2>2. CASE Tick
    <3>1. /\ now' = now + 1 /\ dist' = dist /\ now + 1 \in 0 .. MaxTime
          /\ past' = [past EXCEPT ![now + 1] = {dist}]
        BY <2>2 DEF Tick, Typed
    <3>2. past' \in [0 .. MaxTime -> SUBSET (Configs \cup {None})] /\ dist' \in past'[now']
        BY <3>1 DEF Typed
    <3>3. Typed'
        BY <1>1, <3>1, <3>2 DEF Typed
    <3>4. Grows
        BY <3>1 DEF Typed, Grows
    <3>5. QED
        BY <2>1, <3>2, <3>3, <3>4
  <2>3. ASSUME NEW d \in Configs \cup {None}, ChangeDistribution(d)
        PROVE  Typed' /\ Grows /\ (dist \in past[now])'
    <3>1. /\ now' = now /\ dist' = d
          /\ past' = [past EXCEPT ![now] = @ \cup {d}]
        BY <2>3 DEF ChangeDistribution
    <3>2. past' \in [0 .. MaxTime -> SUBSET (Configs \cup {None})] /\ dist' \in past'[now']
        BY <3>1 DEF Typed
    <3>3. Typed'
        BY <1>1, <3>1, <3>2 DEF Typed
    <3>4. Grows
        BY <3>1 DEF Typed, Grows
    <3>5. QED
        BY <3>2, <3>3, <3>4
  <2>4. QED
      BY <2>1, <2>2, <2>3
<1>3. ASSUME NEW q \in Requests PROVE Timely(q)'
  <2>1. Timely(q)
      BY DEF RequestInv
  <2>2. CASE Tick
      BY <1>1, <2>1, <2>2 DEF Tick, Timely, Waits, Typed
  <2>3. CASE now' = now
      BY <1>1, <2>1, <2>3 DEF Timely, Waits
  <2>4. QED
      BY <2>2, <2>3 DEF ChangeDistribution
<1>4. CacheSent'
  <2> SUFFICES ASSUME cache # None
               PROVE  /\ cache.expiresAt \in Nat
                      /\ \E t \in 0 .. now' : /\ cache.expiresAt - TTL - Patience <= t
                                              /\ \E d \in past'[t] : cache.functions = Bindings(d)
      BY <1>1 DEF CacheSent, SentAt
  <2>1. PICK t \in 0 .. now : cache.expiresAt - TTL - Patience <= t /\ SentAt(cache.functions, t)
      BY DEF CacheSent
  <2>2. QED
      BY <1>2, <2>1, SentStays DEF CacheSent
<1>5. \A q \in Requests : RequestInv(q)'
    BY <1>2, <1>3, OtherRequest
<1>6. QED
    BY <1>2, <1>4, <1>5

\* A new process has an empty cache and no requests.
LEMMA RestartPreserves ==
    ASSUME IInv, Restart
    PROVE  IInv'
<1> USE DEF IInv
<1>1. /\ cache' = None /\ \A q \in Requests : pc'[q] = "idle"
      /\ UNCHANGED <<dist, past, now>>
    BY DEF Restart
<1>2. Typed'
    BY EdgeProxyAssumption DEF Restart, Typed, Nothing
<1>3. \A q \in Requests : RequestInv(q)'
    BY <1>1 DEF RequestInv, Timely, LookupSent, ResolvedFrom, Callable, Waits
<1>4. QED
    BY <1>1, <1>2, <1>3 DEF CacheSent

\* Where every binding in the proxy comes from, and how old it can be.
THEOREM Inductive == Spec => []IInv
<1>1. Init => IInv
  <2> SUFFICES ASSUME Init PROVE IInv
      OBVIOUS
  <2>1. Typed /\ dist \in past[now]
      BY EdgeProxyAssumption DEF Init, Typed, Idle, Nothing
  <2>2. \A r \in Requests : RequestInv(r)
      BY DEF Init, Idle, RequestInv, Timely, LookupSent, ResolvedFrom, Callable, Waits
  <2>3. QED
      BY <2>1, <2>2 DEF Init, IInv, CacheSent
<1>2. IInv /\ [Next]_vars => IInv'
  <2> SUFFICES ASSUME IInv, [Next]_vars PROVE IInv'
      OBVIOUS
  <2>1. ASSUME NEW r \in Requests, RequestStep(r) \/ HangUp(r) PROVE IInv'
      BY <2>1, InvokePreserves, LookupAnswersPreserves, LookupFailsPreserves, StorePreserves,
         RestPreserves DEF RequestStep
  <2>2. CASE Restart
      BY <2>2, RestartPreserves
  <2>3. CASE Tick \/ \E d \in Configs \cup {None} : ChangeDistribution(d)
      BY <2>3, WorldPreserves
  <2>4. CASE UNCHANGED vars
    <3>1. Typed' /\ Grows /\ (dist \in past[now])' /\ CacheSent' /\ \A q \in Requests : Same(q)
      <4>1. Typed' /\ (dist \in past[now])'
          BY <2>4 DEF vars, IInv, Typed
      <4>2. Grows
          BY <2>4 DEF vars, IInv, Typed, Grows
      <4>3. CacheSent' /\ \A q \in Requests : Same(q)
          BY <2>4 DEF vars, IInv, Same, CacheSent, SentAt
      <4>4. QED
          BY <4>1, <4>2, <4>3
    <3>2. \A q \in Requests : Timely(q)'
        BY <2>4 DEF vars, IInv, RequestInv, Timely, Waits
    <3>3. QED
        BY <3>1, <3>2, OtherRequest DEF IInv
  <2>5. QED
      BY <2>1, <2>2, <2>3, <2>4 DEF Next
<1>3. QED
    BY <1>1, <1>2, PTL DEF Spec

\* A request served from the cache or from its own lookup runs what was bound
\* at most TTL and one lookup before it came, however lookups, stores and
\* changes of the distribution interleave.
THEOREM ServesRecentBindings == Spec => []BoundRecently
<1>1. IInv => BoundRecently
  <2> SUFFICES ASSUME IInv, NEW r \in Requests,
                      pc[r] \in {"resolved", "invoking"}, source[r] \in {"hit", "lookup"}
               PROVE  \E t \in since[r] - TTL - Patience .. now :
                        t >= 0 /\ \E d \in past[t] :
                            Expected(d, type[r]) = IF fn[r] = None THEN None ELSE fn[r].arn
      BY DEF BoundRecently
  <2>1. PICK t \in 0 .. now : since[r] - TTL - Patience <= t /\ FoundAt(r, t)
      BY DEF IInv, RequestInv, ResolvedFrom
  <2>2. PICK d \in past[t] : fn[r] = findByEvent(Bindings(d), type[r])
      BY <2>1 DEF FoundAt
  <2>3. t \in 0 .. MaxTime /\ d \in Configs \cup {None}
    <3>1. t \in 0 .. MaxTime
        BY EdgeProxyAssumption, <2>1 DEF IInv, Typed
    <3>2. past[t] \subseteq Configs \cup {None}
        BY <3>1 DEF IInv, Typed
    <3>3. QED
        BY <2>2, <3>1, <3>2
  <2>4. Expected(d, type[r]) = IF fn[r] = None THEN None ELSE fn[r].arn
      BY <2>2, <2>3, FindsExpected
  <2>5. t \in since[r] - TTL - Patience .. now /\ t >= 0
      BY EdgeProxyAssumption, <2>1 DEF IInv, Typed
  <2>6. QED
      BY <2>2, <2>4, <2>5
<1>2. QED
    BY <1>1, Inductive, PTL

\* Also from expired entries no function is invoked that was never bound to the
\* event, nor one without an endpoint.
THEOREM InvokesOnlyBound == Spec => []InvokedWasBound
<1>1. IInv => InvokedWasBound
  <2> SUFFICES ASSUME IInv, NEW r \in Requests, pc[r] = "invoking"
               PROVE  /\ fn[r].endpoint # ""
                      /\ \E t \in 0 .. now : \E d \in past[t] : Expected(d, type[r]) = fn[r].arn
      BY DEF InvokedWasBound
  <2>1. fn[r] # None /\ fn[r].endpoint # ""
      BY DEF IInv, RequestInv, Callable
  <2>2. PICK t \in 0 .. now : FoundAt(r, t)
      BY <2>1 DEF IInv, RequestInv, ResolvedFrom
  <2>3. PICK d \in past[t] : fn[r] = findByEvent(Bindings(d), type[r])
      BY <2>2 DEF FoundAt
  <2>4. t \in 0 .. MaxTime /\ d \in Configs \cup {None}
      BY EdgeProxyAssumption, <2>2, <2>3 DEF IInv, Typed
  <2>5. Expected(d, type[r]) = fn[r].arn
      BY <2>1, <2>3, <2>4, FindsExpected
  <2>6. QED
      BY <2>1, <2>3, <2>5
<1>2. QED
    BY <1>1, Inductive, PTL

-----------------------------------------------------------------------------
(* The conversions of header maps. *)

\* A bijection of P and Q that pairs the elements of A with those of C.
Pairs(B, P, Q, A, C) ==
    /\ IsFiniteSet(P) /\ B \in Bijection(P, Q)
    /\ A \in SUBSET P /\ C \in SUBSET Q
    /\ \A p \in P : p \in A <=> B[p] \in C
SameSize(A, C) == Cardinality(A) = Cardinality(C)

\* Sets that a bijection pairs have the same size.
LEMMA PairedCount ==
    ASSUME NEW P, NEW Q, NEW B, NEW A, NEW C, Pairs(B, P, Q, A, C)
    PROVE  SameSize(A, C)
<1> USE DEF Pairs
<1> DEFINE g == [p \in A |-> B[p]]
<1>1. /\ B \in [P -> Q] /\ \A x, y \in P : B[x] = B[y] => x = y
      /\ \A t \in Q : \E p \in P : B[p] = t
    BY DEF Bijection, Injection, Surjection, IsInjective
<1>2. g \in [A -> C] /\ (\A x, y \in A : g[x] = g[y] => x = y) /\ \A t \in C : \E p \in A : g[p] = t
    BY <1>1
<1>3. ExistsBijection(A, C)
    BY <1>2 DEF ExistsBijection, Bijection, Injection, Surjection, IsInjective
<1>4. IsFiniteSet(A)
    BY FS_Subset
<1>5. QED
    BY <1>3, <1>4, FS_Bijection DEF SameSize

\* The places of some of the names of a header map.
PlacesOf(h, N) == UNION {{n} \X DOMAIN h[n] : n \in N}
IsPlace(h, N, p) == p = <<p[1], p[2]>> /\ p[1] \in N /\ p[2] \in DOMAIN h[p[1]]

\* A place is a name and a position.
LEMMA PlaceIs ==
    ASSUME NEW h, NEW N, NEW p
    PROVE  p \in PlacesOf(h, N) <=> IsPlace(h, N, p)
BY DEF PlacesOf, IsPlace

\* What normalising writes for names N of a header map: the canonical casing as Key, in
\* buckets by name, and every value once.
EntryType(in) == {[key |-> CanonicalHeaderKey(n), value |-> v] : n \in DOMAIN in, v \in STRING}
Keyed(o) ==
    \A l \in DOMAIN o : \A j \in DOMAIN o[l] :
        /\ o[l][j].key = [base |-> l.base, casing |-> "canonical"] /\ o[l][j].key # None
Moved(B, in, N, o) ==
    /\ B \in Bijection(PlacesOf(in, N), PlacesOf(o, DOMAIN o))
    /\ \A p \in PlacesOf(in, N) : /\ B[p][1].base = p[1].base
                                  /\ o[B[p][1]][B[p][2]].value = in[p[1]][p[2]]
InBuckets(in, N, o) ==
    /\ IsFiniteSet(PlacesOf(in, N)) /\ IsFiniteSet(DOMAIN o)
    /\ DOMAIN o = {Lower(n) : n \in N}
    /\ \A l \in DOMAIN o : o[l] \in Seq(EntryType(in))
    /\ Keyed(o)
    /\ \E B : Moved(B, in, N, o)

\* The two casings of a name.
LEMMA Casings ==
    ASSUME NEW in, HeaderMap(in), NEW n \in DOMAIN in
    PROVE  /\ Lower(n) = [base |-> n.base, casing |-> "lower"] /\ Lower(n).base = n.base
           /\ CanonicalHeaderKey(n) = [base |-> n.base, casing |-> "canonical"]
           /\ CanonicalHeaderKey(n) # None /\ in[n] \in Seq(STRING)
<1>1. n = [base |-> n.base, casing |-> n.casing] /\ CanonicalHeaderKey(n) # None
      /\ in[n] \in Seq(STRING)
    BY DEF HeaderMap
<1>2. QED
    BY <1>1 DEF Lower, CanonicalHeaderKey

\* The entries that one name adds.
LEMMA EntriesAre ==
    ASSUME NEW in, HeaderMap(in), NEW n \in DOMAIN in
    PROVE  /\ Entries(in, n) \in Seq(EntryType(in)) /\ Len(Entries(in, n)) = Len(in[n])
           /\ \A i \in 1 .. Len(in[n]) : /\ Entries(in, n)[i].key = CanonicalHeaderKey(n)
                                         /\ Entries(in, n)[i].value = in[n][i]
<1> DEFINE vals == in[n]
           c == Len(vals)
           k == CanonicalHeaderKey(n)
           E == EntryType(in)
<1>1. vals \in Seq(STRING)
    BY Casings
<1>2. c \in Nat /\ DOMAIN vals = 1 .. c /\ \A i \in 1 .. c : vals[i] \in STRING
    BY <1>1
<1>3. \A v \in STRING : [key |-> k, value |-> v] \in E
    BY DEF EntryType
<1>4. Entries(in, n) = [i \in 1 .. c |-> [key |-> k, value |-> vals[i]]]
    BY <1>2 DEF Entries
<1> HIDE DEF vals, c, k, E
<1>5. \A i \in 1 .. c : [key |-> k, value |-> vals[i]] \in E
    BY <1>2, <1>3
<1>6. [i \in 1 .. c |-> [key |-> k, value |-> vals[i]]] \in Seq(E)
    BY <1>2, <1>5
<1>7. Len([i \in 1 .. c |-> [key |-> k, value |-> vals[i]]]) = c
    BY <1>2
<1>8. QED
    BY <1>4, <1>6, <1>7 DEF vals, c, k, E

\* A bucket and what is appended to it.
Appended(b, a, c) ==
    /\ DOMAIN b = 1 .. Len(a) + Len(c)
    /\ \A j \in 1 .. Len(a) : b[j] = a[j]
    /\ \A j \in 1 .. Len(c) : b[Len(a) + j] = c[j]

\* Concatenation.
LEMMA Appends ==
    ASSUME NEW V, NEW a \in Seq(V), NEW c \in Seq(V)
    PROVE  a \o c \in Seq(V) /\ Appended(a \o c, a, c)
BY DEF Appended

\* Nothing has been added at first.
LEMMA NoneInBuckets ==
    ASSUME NEW in
    PROVE  InBuckets(in, {}, NoHeaders)
<1> DEFINE o == NoHeaders
<1>1. DOMAIN o = {} /\ PlacesOf(in, {}) = {} /\ PlacesOf(o, DOMAIN o) = {}
    BY DEF NoHeaders, PlacesOf
<1> HIDE DEF o
<1>2. Moved([x \in {} |-> x], in, {}, o)
    BY <1>1 DEF Moved, Bijection, Injection, Surjection, IsInjective
<1>3. IsFiniteSet(PlacesOf(in, {})) /\ IsFiniteSet(DOMAIN o)
    BY <1>1, FS_EmptySet
<1>4. InBuckets(in, {}, o)
    BY <1>1, <1>2, <1>3 DEF InBuckets, Keyed
<1>5. QED
    BY <1>4 DEF o

\* A round of the loop of normaliseHeadersForEvent.
LEMMA AddKeeps ==
    ASSUME NEW in, HeaderMap(in), NEW N \in SUBSET DOMAIN in, NEW m \in DOMAIN in \ N,
           NEW o, InBuckets(in, N, o)
    PROVE  InBuckets(in, N \cup {m}, AddToBucket(o, in, m))
<1> DEFINE lower == Lower(m)
           old == Bucket(o, lower)
           new == Entries(in, m)
           both == old \o new
           a == Len(old)
           c == Len(in[m])
           q == AddToBucket(o, in, m)
           E == EntryType(in)
           P == PlacesOf(in, N)
           M == N \cup {m}
           PM == PlacesOf(in, M)
           D == DOMAIN o
           Q == PlacesOf(o, D)
           DQ == D \cup {lower}
           QQ == PlacesOf(q, DQ)
<1>1. /\ lower = [base |-> m.base, casing |-> "lower"] /\ lower.base = m.base
      /\ CanonicalHeaderKey(m) = [base |-> m.base, casing |-> "canonical"]
      /\ CanonicalHeaderKey(m) # None
    BY Casings
<1>2. /\ IsFiniteSet(P) /\ IsFiniteSet(D) /\ D = {Lower(n) : n \in N}
      /\ \A l \in D : o[l] \in Seq(E)
      /\ Keyed(o)
    BY DEF InBuckets
<1>3. PICK B : Moved(B, in, N, o)
    BY DEF InBuckets
<1>4. /\ new \in Seq(E) /\ Len(new) = c
      /\ \A i \in 1 .. c : new[i].key = CanonicalHeaderKey(m) /\ new[i].value = in[m][i]
    BY EntriesAre
<1>5. c \in Nat /\ DOMAIN in[m] = 1 .. c
  <2>1. in[m] \in Seq(STRING)
      BY Casings
  <2>2. QED
      BY <2>1
<1>6. /\ old \in Seq(E) /\ (lower \in D => old = o[lower]) /\ (lower \notin D => old = <<>>)
    BY <1>2 DEF Bucket
<1>7. a \in Nat /\ (lower \in D => DOMAIN o[lower] = 1 .. a) /\ (lower \notin D => a = 0)
  <2>1. a \in Nat /\ DOMAIN old = 1 .. a
      BY <1>6
  <2>2. lower \notin D => a = 0
      BY <1>6
  <2>3. QED
      BY <1>6, <2>1, <2>2
<1> HIDE DEF old, new
<1>8. both \in Seq(E) /\ Appended(both, old, new)
    BY <1>4, <1>6, Appends
<1> HIDE DEF both
<1>9. /\ DOMAIN both = 1 .. a + c
      /\ \A j \in 1 .. a : both[j] = old[j]
      /\ \A j \in 1 .. c : both[a + j] = new[j]
    BY <1>4, <1>8 DEF Appended
<1>10. q = [l \in DQ |-> IF l = lower THEN both ELSE o[l]]
    BY DEF AddToBucket, both, old, new
<1> HIDE DEF a, c, lower, q, D, DQ, E
<1>11. DOMAIN q = DQ /\ q[lower] = both /\ \A l \in D : l # lower => q[l] = o[l]
    BY <1>10 DEF DQ
<1>12. \A l \in DQ : q[l] \in Seq(E)
    BY <1>2, <1>8, <1>11 DEF DQ
<1>13. Keyed(q)
  <2>1. SUFFICES ASSUME NEW l \in DQ, NEW j \in DOMAIN q[l]
                 PROVE  /\ q[l][j].key = [base |-> l.base, casing |-> "canonical"]
                        /\ q[l][j].key # None
      BY <1>11 DEF Keyed
  <2>2. CASE l # lower
    <3>1. l \in D /\ q[l] = o[l]
        BY <1>11, <2>2 DEF DQ
    <3>2. QED
        BY <1>2, <3>1 DEF Keyed, D
  <2>3. CASE l = lower /\ j \in 1 .. a
    <3>1. lower \in D /\ j \in DOMAIN o[lower] /\ q[l][j] = o[lower][j]
        BY <1>6, <1>7, <1>9, <1>11, <2>3
    <3>2. QED
        BY <1>2, <2>3, <3>1 DEF Keyed, D
  <2>4. CASE l = lower /\ j \notin 1 .. a
    <3>1. j \in 1 .. a + c
        BY <1>9, <1>11, <2>4
    <3>2. j - a \in 1 .. c /\ a + (j - a) = j
        BY <1>5, <1>7, <2>4, <3>1
    <3>3. q[l][j] = new[j - a]
        BY <1>9, <1>11, <2>4, <3>2
    <3>4. QED
        BY <1>1, <1>4, <2>4, <3>2, <3>3
  <2>5. QED
      BY <2>2, <2>3, <2>4
<1>14. DQ = {Lower(n) : n \in M}
    BY <1>2 DEF DQ, lower
<1>15. IsFiniteSet(DQ)
    BY <1>2, FS_AddElement DEF DQ
<1> DEFINE fresh == {m} \X (1 .. c)
<1>16. PM = P \cup fresh
    BY <1>5 DEF PlacesOf
<1>17. IsFiniteSet(PM)
  <2>1. IsFiniteSet({m}) /\ IsFiniteSet(1 .. c)
    <3>1. IsFiniteSet({m})
        BY FS_Singleton, Zenon
    <3>2. 1 \in Int /\ c \in Int
        BY <1>5
    <3>3. IsFiniteSet(1 .. c)
        BY <3>2, FS_Interval, Zenon
    <3>4. QED
        BY <3>1, <3>3
  <2>2. IsFiniteSet(fresh)
      BY <2>1, FS_Product
  <2> HIDE DEF fresh, PM, P
  <2>3. QED
      BY <1>2, <1>16, <2>2, FS_Union
<1>18. /\ B \in [P -> Q] /\ (\A x, y \in P : B[x] = B[y] => x = y)
       /\ (\A t \in Q : \E p \in P : B[p] = t)
       /\ \A p \in P : B[p][1].base = p[1].base /\ o[B[p][1]][B[p][2]].value = in[p[1]][p[2]]
    BY <1>3 DEF Moved, Bijection, Injection, Surjection, IsInjective, D
<1>19. /\ \A p : p \in P => p[1] \in N
       /\ \A p : p \in fresh => p = <<m, p[2]>> /\ p[2] \in 1 .. c /\ p[1] = m
       /\ \A i \in 1 .. c : <<m, i>> \in fresh
       /\ m \notin N
    BY PlaceIs DEF IsPlace
<1>20. \A t : t \in Q <=> t = <<t[1], t[2]>> /\ t[1] \in D /\ t[2] \in DOMAIN o[t[1]]
    BY PlaceIs DEF IsPlace
<1>21. \A t : t \in QQ <=> t = <<t[1], t[2]>> /\ t[1] \in DQ /\ t[2] \in DOMAIN q[t[1]]
    BY PlaceIs DEF IsPlace
<1> HIDE DEF P, PM, Q, QQ, fresh
\* The places of the bucket were there, or are new.
<1>22. ASSUME NEW t \in Q
       PROVE  t \in QQ /\ q[t[1]][t[2]] = o[t[1]][t[2]] /\ (t[1] = lower => t[2] \in 1 .. a)
  <2>1. t = <<t[1], t[2]>> /\ t[1] \in D /\ t[1] \in DQ /\ t[2] \in DOMAIN o[t[1]]
      BY <1>20 DEF DQ
  <2>2. CASE t[1] # lower
      BY <1>11, <1>21, <2>1, <2>2
  <2>3. CASE t[1] = lower
    <3>1. t[2] \in 1 .. a /\ o[lower] = old
        BY <1>6, <1>7, <2>1, <2>3
    <3>2. t[2] \in 1 .. a + c
        BY <1>5, <1>7, <3>1
    <3>3. q[t[1]][t[2]] = o[t[1]][t[2]]
        BY <1>9, <1>11, <2>3, <3>1
    <3>4. QED
        BY <1>9, <1>11, <1>21, <2>1, <2>3, <3>1, <3>2, <3>3
  <2>4. QED
      BY <2>2, <2>3
<1>23. ASSUME NEW i \in 1 .. c
       PROVE  <<lower, a + i>> \in QQ /\ q[lower][a + i].value = in[m][i] /\ a + i \notin 1 .. a
  <2>1. a + i \in 1 .. a + c /\ a + i \notin 1 .. a
      BY <1>5, <1>7
  <2>2. <<lower, a + i>> \in QQ
      BY <1>9, <1>11, <1>21, <2>1 DEF DQ
  <2>3. QED
      BY <1>4, <1>9, <1>11, <2>1, <2>2
<1>24. ASSUME NEW t \in QQ
       PROVE  t \in Q \/ \E i \in 1 .. c : t = <<lower, a + i>>
  <2>1. t = <<t[1], t[2]>> /\ t[1] \in DQ /\ t[2] \in DOMAIN q[t[1]]
      BY <1>21
  <2>2. CASE t[1] # lower
      BY <1>11, <1>20, <2>1, <2>2 DEF DQ
  <2>3. CASE t[1] = lower
    <3>1. t[2] \in 1 .. a + c
        BY <1>9, <1>11, <2>1, <2>3
    <3>2. CASE t[2] \in 1 .. a
      <4>1. lower \in D /\ DOMAIN o[lower] = 1 .. a
          BY <1>7, <3>2
      <4>2. QED
          BY <1>20, <2>1, <2>3, <3>2, <4>1
    <3>3. CASE t[2] \notin 1 .. a
      <4>1. t[2] - a \in 1 .. c /\ a + (t[2] - a) = t[2]
          BY <1>5, <1>7, <3>1, <3>3
      <4>2. QED
          BY <2>1, <2>3, <4>1
    <3>4. QED
        BY <3>2, <3>3
  <2>4. QED
      BY <2>2, <2>3
<1> DEFINE G == [p \in PM |-> IF p \in P THEN B[p] ELSE <<lower, a + p[2]>>]
<1>25. \A p \in P : p \in PM /\ G[p] = B[p] /\ G[p] \in Q
    BY <1>16, <1>18
<1>26. \A p \in fresh : p \in PM /\ p \notin P /\ G[p] = <<lower, a + p[2]>>
    BY <1>16, <1>19
<1>27. DOMAIN G = PM
    OBVIOUS
<1>28. ASSUME NEW p \in PM
       PROVE  G[p] \in QQ /\ G[p][1].base = p[1].base /\ q[G[p][1]][G[p][2]].value = in[p[1]][p[2]]
  <2> HIDE DEF G
  <2>1. CASE p \in P
      BY <1>18, <1>22, <1>25, <2>1
  <2>2. CASE p \in fresh
    <3>1. p[2] \in 1 .. c /\ p[1] = m /\ G[p] = <<lower, a + p[2]>>
        BY <1>19, <1>26, <2>2
    <3>2. QED
        BY <1>1, <1>23, <3>1
  <2>3. QED
      BY <1>16, <2>1, <2>2
<1>29. ASSUME NEW x \in PM, NEW y \in PM, G[x] = G[y] PROVE x = y
  <2> HIDE DEF G
  <2>1. CASE x \in P /\ y \in P
      BY <1>18, <1>25, <1>29, <2>1
  <2>2. CASE x \in fresh /\ y \in fresh
    <3>1. x = <<m, x[2]>> /\ y = <<m, y[2]>> /\ x[2] \in 1 .. c /\ y[2] \in 1 .. c
        BY <1>19, <2>2
    <3>2. a + x[2] = a + y[2]
        BY <1>26, <1>29, <2>2
    <3>3. x[2] = y[2]
        BY <1>5, <1>7, <3>1, <3>2
    <3>4. QED
        BY <3>1, <3>3
  <2>3. ASSUME NEW u \in P, NEW v \in fresh, G[u] = G[v] PROVE FALSE
    <3>1. v[2] \in 1 .. c /\ G[v] = <<lower, a + v[2]>>
        BY <1>19, <1>26
    <3>2. G[u] \in Q /\ G[u][1] = lower /\ G[u][2] = a + v[2]
        BY <1>25, <2>3, <3>1
    <3>3. a + v[2] \in 1 .. a
        BY <1>22, <3>2
    <3>4. QED
        BY <1>23, <3>1, <3>3
  <2>4. QED
      BY <1>16, <1>29, <2>1, <2>2, <2>3
<1>30. ASSUME NEW t \in QQ PROVE \E p \in PM : G[p] = t
  <2> HIDE DEF G
  <2>1. CASE t \in Q
      BY <1>18, <1>25, <2>1
  <2>2. CASE \E i \in 1 .. c : t = <<lower, a + i>>
    <3>1. PICK i \in 1 .. c : t = <<lower, a + i>>
        BY <2>2
    <3>2. <<m, i>> \in fresh /\ <<m, i>>[2] = i
        BY <1>19
    <3>3. QED
        BY <1>26, <3>1, <3>2
  <2>3. QED
      BY <1>24, <2>1, <2>2
<1>31. G \in Bijection(PM, QQ)
  <2>1. G \in [PM -> QQ]
      BY <1>28
  <2> HIDE DEF G
  <2>2. QED
      BY <1>29, <1>30, <2>1 DEF Bijection, Injection, Surjection, IsInjective
<1> HIDE DEF G
<1>32. Moved(G, in, M, q)
    BY <1>11, <1>28, <1>31, Zenon DEF Moved, PM, QQ
<1>33. InBuckets(in, M, q)
    BY <1>11, <1>12, <1>13, <1>14, <1>15, <1>17, <1>32, Zenon DEF InBuckets, PM, E
<1>34. QED
    BY <1>33 DEF q

\* A loop over the names of a header map: what it starts with, and its rounds.
NormaliseRuns(in, order, out, N) ==
    /\ out[0] = NoHeaders
    /\ \A n \in 1 .. N : out[n] = AddToBucket(out[n - 1], in, order[n])
FlattenRuns(in, order, out, N) ==
    /\ out[0] = NoHeaders
    /\ \A n \in 1 .. N : out[n] = SetHeader(out[n - 1], in, order[n])

\* An order goes through every name once.
LEMMA OrderIs ==
    ASSUME NEW S, IsFiniteSet(S), NEW order \in Orders(S)
    PROVE  LET N == Cardinality(S)
           IN /\ N \in Nat /\ order \in [1 .. N -> S]
              /\ \A i, j \in 1 .. N : order[i] = order[j] => i = j
              /\ \A x \in S : \E i \in 1 .. N : order[i] = x
<1>1. Cardinality(S) \in Nat
    BY FS_CardinalityType
<1>2. QED
    BY <1>1 DEF Orders, Bijection, Injection, Surjection, IsInjective

\* normaliseHeadersForEvent returns the last of the maps its loop goes through.
LEMMA NormaliseLoop ==
    ASSUME NEW in, HeaderMap(in), NEW order \in Orders(DOMAIN in)
    PROVE  \E out : /\ NormaliseRuns(in, order, out, Cardinality(DOMAIN in))
                    /\ Normalised(in, order) = out[Cardinality(DOMAIN in)]
<1> DEFINE N == Cardinality(DOMAIN in)
           empty == NoHeaders
           L == {Lower(n) : n \in DOMAIN in}
           E == EntryType(in)
           T == UNION {[D -> Seq(E)] : D \in SUBSET L}
           round == [n \in 1 .. N |-> [s \in T |-> AddToBucket(s, in, order[n])]]
           Loop(f) == f = [n \in 0 .. N |->
                              IF n = 0 THEN empty ELSE AddToBucket(f[n - 1], in, order[n])]
           out == CHOOSE f : Loop(f)
<1>1. N \in Nat /\ \A n \in 1 .. N : order[n] \in DOMAIN in
  <2>1. IsFiniteSet(DOMAIN in)
      BY DEF HeaderMap
  <2>2. QED
      BY <2>1, OrderIs
<1>2. empty \in T
  <2>1. empty \in [{} -> Seq(E)] /\ {} \in SUBSET L
      BY DEF NoHeaders
  <2>2. QED
      BY <2>1
<1>3. ASSUME NEW s \in T, NEW m \in DOMAIN in PROVE AddToBucket(s, in, m) \in T
  <2>1. PICK D \in SUBSET L : s \in [D -> Seq(E)]
      OBVIOUS
  <2> DEFINE lower == Lower(m)
             old == Bucket(s, lower)
             new == Entries(in, m)
             DQ == D \cup {lower}
  <2>2. lower \in L /\ DQ \in SUBSET L
      OBVIOUS
  <2>3. new \in Seq(E)
      BY EntriesAre
  <2>4. old \in Seq(E)
      BY <2>1 DEF Bucket
  <2>5. AddToBucket(s, in, m) = [l \in DQ |-> IF l = lower THEN old \o new ELSE s[l]]
      BY <2>1 DEF AddToBucket
  <2> DEFINE both == old \o new
  <2> HIDE DEF lower, old, new, L, E, T
  <2>6. both \in Seq(E)
      BY <2>3, <2>4
  <2> HIDE DEF both
  <2> DEFINE V == Seq(E)
  <2> HIDE DEF V
  <2>7. s \in [D -> V] /\ both \in V
      BY <2>1, <2>6 DEF V
  <2>8. [l \in DQ |-> IF l = lower THEN both ELSE s[l]] \in [DQ -> V]
      BY <2>7
  <2>9. QED
      BY <2>2, <2>5, <2>8 DEF T, V, both
<1> HIDE DEF empty, T, L, E, N
<1>4. round \in Rounds(N, T)
    BY <1>1, <1>3 DEF Rounds
<1>5. PICK f : /\ f \in [0 .. N -> T]
               /\ f[0] = empty
               /\ \A n \in 1 .. N : f[n] = round[n][f[n - 1]]
  <2> HIDE DEF round
  <2>1. \E f : Runs(f, N, T, empty, round)
      BY <1>1, <1>2, <1>4, BoundedRecursion
  <2>2. QED
      BY <2>1 DEF Runs
<1>6. \A n \in 1 .. N : f[n] = AddToBucket(f[n - 1], in, order[n])
  <2> TAKE n \in 1 .. N
  <2>1. n - 1 \in 0 .. N
      BY <1>1
  <2>2. f[n - 1] \in T
      BY <1>5, <2>1
  <2>3. QED
      BY <1>5, <2>2
<1>7. Loop(f)
    BY <1>5, <1>6
<1>8. Loop(out)
    BY <1>7
<1>9. Normalised(in, order) = out[N]
    BY DEF Normalised, empty, N
<1> HIDE DEF out
<1>10. out[0] = empty /\ \A n \in 1 .. N : out[n] = AddToBucket(out[n - 1], in, order[n])
  <2>1. \A n \in 0 .. N :
            out[n] = IF n = 0 THEN empty ELSE AddToBucket(out[n - 1], in, order[n])
      BY <1>8, Zenon
  <2>2. 0 \in 0 .. N /\ \A n \in 1 .. N : n \in 0 .. N /\ n # 0
      BY <1>1
  <2>3. QED
      BY <2>1, <2>2
<1>11. QED
    BY <1>9, <1>10 DEF NormaliseRuns, empty, N

\* The names that the first k rounds go through.
Names(order, k) == {order[i] : i \in 1 .. k}

\* One more round goes through one more name.
LEMMA NextName ==
    ASSUME NEW S, NEW N \in Nat, NEW order \in [1 .. N -> S],
           \A i, j \in 1 .. N : order[i] = order[j] => i = j, NEW k \in 0 .. N, k < N
    PROVE  /\ k + 1 \in 1 .. N /\ Names(order, k) \in SUBSET S
           /\ order[k + 1] \in S \ Names(order, k)
           /\ Names(order, k + 1) = Names(order, k) \cup {order[k + 1]}
<1>1. k + 1 \in 1 .. N /\ \A i \in 1 .. k : i \in 1 .. N /\ i # k + 1
    OBVIOUS
<1>2. \A i : i \in 1 .. k + 1 <=> i \in 1 .. k \/ i = k + 1
    OBVIOUS
<1>3. QED
    BY <1>1, <1>2 DEF Names

\* All rounds go through all names.
GoesThrough(order, N, S) ==
    order \in [1 .. N -> S] /\ \A x \in S : \E i \in 1 .. N : order[i] = x
LEMMA AllNames ==
    ASSUME NEW S, NEW N, NEW order, GoesThrough(order, N, S)
    PROVE  Names(order, N) = S
<1>1. \A x \in Names(order, N) : x \in S
    BY DEF Names, GoesThrough
<1>2. \A x \in S : x \in Names(order, N)
    BY DEF Names, GoesThrough
<1>3. QED
    BY <1>1, <1>2

\* Whatever the order, every value ends up in the bucket of its name.
LEMMA NormalisedIs ==
    ASSUME NEW in, HeaderMap(in), NEW order \in Orders(DOMAIN in)
    PROVE  InBuckets(in, DOMAIN in, Normalised(in, order))
<1> DEFINE N == Cardinality(DOMAIN in)
<1>1. /\ N \in Nat /\ order \in [1 .. N -> DOMAIN in]
      /\ \A i, j \in 1 .. N : order[i] = order[j] => i = j
      /\ \A x \in DOMAIN in : \E i \in 1 .. N : order[i] = x
    BY OrderIs DEF HeaderMap
<1>2. PICK out : NormaliseRuns(in, order, out, N) /\ Normalised(in, order) = out[N]
    BY NormaliseLoop
<1> HIDE DEF N
<1> DEFINE S == {k \in 0 .. N : InBuckets(in, Names(order, k), out[k])}
<1>3. 0 \in S
  <2>1. Names(order, 0) = {} /\ out[0] = NoHeaders
      BY <1>2 DEF Names, NormaliseRuns
  <2>2. InBuckets(in, Names(order, 0), out[0])
    <3>1. InBuckets(in, {}, NoHeaders)
        BY NoneInBuckets, Zenon
    <3>2. QED
        BY <2>1, <3>1, Zenon
  <2>3. 0 \in 0 .. N
      BY <1>1
  <2>4. QED
      BY <2>2, <2>3, Zenon
<1>4. ASSUME NEW k \in 0 .. N, k < N /\ k \in S PROVE k + 1 \in S
  <2> DEFINE m == order[k + 1]
             M == Names(order, k)
  <2>1. /\ k + 1 \in 1 .. N /\ M \in SUBSET DOMAIN in /\ m \in DOMAIN in \ M
        /\ Names(order, k + 1) = M \cup {m}
      BY <1>1, <1>4, NextName
  <2>2. out[k + 1] = AddToBucket(out[k], in, m)
      BY <1>2, <2>1 DEF NormaliseRuns
  <2>3. InBuckets(in, M, out[k])
      BY <1>4
  <2> HIDE DEF m, M
  <2>4. InBuckets(in, M \cup {m}, AddToBucket(out[k], in, m))
      BY <2>1, <2>3, AddKeeps
  <2>5. k + 1 \in 0 .. N
      BY <1>1, <2>1
  <2>6. InBuckets(in, Names(order, k + 1), out[k + 1])
      BY <2>1, <2>2, <2>4, Zenon
  <2>7. QED
      BY <2>5, <2>6, Zenon
<1>5. N \in S
  <2> HIDE DEF S
  <2>1. \A k \in 0 .. N : k < N /\ k \in S => k + 1 \in S
      BY <1>4
  <2>2. 0 .. N \subseteq S
      BY <1>1, <1>3, <2>1, BoundedInduction
  <2>3. QED
      BY <1>1, <2>2
<1>6. Names(order, N) = DOMAIN in
  <2>1. GoesThrough(order, N, DOMAIN in)
      BY <1>1, Zenon DEF GoesThrough
  <2>2. QED
      BY <2>1, AllNames, Zenon
<1>7. InBuckets(in, Names(order, N), out[N])
    BY <1>5, Zenon
<1>8. QED
    BY <1>2, <1>6, <1>7, Zenon

-----------------------------------------------------------------------------
(* Back to a header map. *)

\* What flattening is given here: buckets by name, and the canonical casing as Key.
Buckets(ev) ==
    /\ IsFiniteSet(DOMAIN ev)
    /\ \A l \in DOMAIN ev : l = [base |-> l.base, casing |-> "lower"]
    /\ \A l \in DOMAIN ev : ev[l] = <<>> \/ 1 \in DOMAIN ev[l]
    /\ Keyed(ev)

\* That is what normalising makes.
LEMMA BucketsIs ==
    ASSUME NEW in, HeaderMap(in), NEW ev, InBuckets(in, DOMAIN in, ev)
    PROVE  Buckets(ev)
<1>1. IsFiniteSet(DOMAIN ev) /\ Keyed(ev) /\ DOMAIN ev = {Lower(n) : n \in DOMAIN in}
    BY Zenon DEF InBuckets
<1>2. \A n \in DOMAIN in : Lower(n) = [base |-> Lower(n).base, casing |-> "lower"]
  <2> TAKE n \in DOMAIN in
  <2>1. Lower(n) = [base |-> n.base, casing |-> "lower"] /\ Lower(n).base = n.base
      BY Casings
  <2>2. QED
      BY <2>1
<1>3. ASSUME NEW l \in DOMAIN ev PROVE ev[l] = <<>> \/ 1 \in DOMAIN ev[l]
  <2>1. ev[l] \in Seq(EntryType(in))
      BY Zenon DEF InBuckets
  <2> DEFINE E == EntryType(in)
             s == ev[l]
  <2> HIDE DEF E, s
  <2>2. s \in Seq(E)
      BY <2>1 DEF E, s
  <2>3. s = <<>> \/ 1 \in DOMAIN s
      BY <2>2
  <2>4. QED
      BY <2>3 DEF s
<1>4. QED
    BY <1>1, <1>2, <1>3 DEF Buckets

\* The buckets get different names.
LEMMA CanonicalIs ==
    ASSUME NEW ev, Buckets(ev), NEW l \in DOMAIN ev
    PROVE  canonical(ev, l).base = l.base
<1>1. l = [base |-> l.base, casing |-> "lower"]
    BY DEF Buckets
<1>2. CASE ev[l] # <<>>
  <2>1. 1 \in DOMAIN ev[l]
      BY <1>2 DEF Buckets
  <2>2. ev[l][1].key = [base |-> l.base, casing |-> "canonical"] /\ ev[l][1].key # None
      BY <2>1 DEF Buckets, Keyed
  <2>3. canonical(ev, l) = [base |-> l.base, casing |-> "canonical"]
      BY <1>2, <2>2 DEF canonical
  <2>4. QED
      BY <2>3
<1>3. CASE ev[l] = <<>>
    BY <1>3 DEF canonical
<1>4. QED
    BY <1>2, <1>3

\* And so no bucket overwrites another.
LEMMA CanonicalOnce ==
    ASSUME NEW ev, Buckets(ev), NEW l \in DOMAIN ev, NEW m \in DOMAIN ev,
           canonical(ev, l) = canonical(ev, m)
    PROVE  l = m
<1>1. l.base = m.base
    BY CanonicalIs
<1>2. l = [base |-> l.base, casing |-> "lower"] /\ m = [base |-> m.base, casing |-> "lower"]
    BY DEF Buckets
<1>3. QED
    BY <1>1, <1>2

\* The values of a bucket, and what flattening writes for the names N.
Values(ev, l) == [i \in DOMAIN ev[l] |-> ev[l][i].value]
Flat(ev, N, o) ==
    /\ DOMAIN o = {canonical(ev, l) : l \in N}
    /\ \A l \in N : o[canonical(ev, l)] = Values(ev, l)

\* A round of the loop of flattenHeaders.
LEMMA SetKeeps ==
    ASSUME NEW ev, Buckets(ev), NEW N \in SUBSET DOMAIN ev, NEW m \in DOMAIN ev \ N,
           NEW o, Flat(ev, N, o)
    PROVE  Flat(ev, N \cup {m}, SetHeader(o, ev, m))
<1> DEFINE q == SetHeader(o, ev, m)
           c == canonical(ev, m)
           v == Values(ev, m)
<1>1. q = [n \in DOMAIN o \cup {c} |-> IF n = c THEN v ELSE o[n]]
    BY DEF SetHeader, Values
<1>2. \A l \in N : canonical(ev, l) # c
    BY CanonicalOnce
<1> HIDE DEF q, v
<1>3. DOMAIN q = DOMAIN o \cup {c} /\ q[c] = v /\ \A n \in DOMAIN o : n # c => q[n] = o[n]
    BY <1>1
<1>4. DOMAIN q = {canonical(ev, l) : l \in N \cup {m}}
    BY <1>3 DEF Flat
<1>5. \A l \in N \cup {m} : q[canonical(ev, l)] = Values(ev, l)
    BY <1>2, <1>3 DEF Flat, v
<1>6. QED
    BY <1>4, <1>5 DEF Flat, q

\* flattenHeaders returns the last of the maps its loop goes through.
LEMMA FlattenLoop ==
    ASSUME NEW ev, IsFiniteSet(DOMAIN ev), NEW order \in Orders(DOMAIN ev)
    PROVE  \E out : /\ FlattenRuns(ev, order, out, Cardinality(DOMAIN ev))
                    /\ Flattened(ev, order) = out[Cardinality(DOMAIN ev)]
<1> DEFINE N == Cardinality(DOMAIN ev)
           empty == NoHeaders
           C == {canonical(ev, l) : l \in DOMAIN ev}
           V == {Values(ev, l) : l \in DOMAIN ev}
           T == UNION {[D -> V] : D \in SUBSET C}
           round == [n \in 1 .. N |-> [s \in T |-> SetHeader(s, ev, order[n])]]
           Loop(f) == f = [n \in 0 .. N |->
                              IF n = 0 THEN empty ELSE SetHeader(f[n - 1], ev, order[n])]
           out == CHOOSE f : Loop(f)
<1>1. N \in Nat /\ \A n \in 1 .. N : order[n] \in DOMAIN ev
    BY OrderIs
<1>2. empty \in T
  <2>1. empty \in [{} -> V] /\ {} \in SUBSET C
      BY DEF NoHeaders
  <2>2. QED
      BY <2>1
<1>3. ASSUME NEW s \in T, NEW m \in DOMAIN ev PROVE SetHeader(s, ev, m) \in T
  <2>1. PICK D \in SUBSET C : s \in [D -> V]
      OBVIOUS
  <2> DEFINE c == canonical(ev, m)
             v == Values(ev, m)
             DQ == D \cup {c}
  <2>2. c \in C /\ DQ \in SUBSET C /\ v \in V
      OBVIOUS
  <2>3. SetHeader(s, ev, m) = [n \in DQ |-> IF n = c THEN v ELSE s[n]]
      BY <2>1 DEF SetHeader, Values
  <2> HIDE DEF c, v, C, V, T
  <2>4. [n \in DQ |-> IF n = c THEN v ELSE s[n]] \in [DQ -> V]
      BY <2>1, <2>2
  <2>5. QED
      BY <2>2, <2>3, <2>4 DEF T
<1> HIDE DEF empty, T, C, V, N
<1>4. round \in Rounds(N, T)
    BY <1>1, <1>3 DEF Rounds
<1>5. PICK f : /\ f \in [0 .. N -> T]
               /\ f[0] = empty
               /\ \A n \in 1 .. N : f[n] = round[n][f[n - 1]]
  <2> HIDE DEF round
  <2>1. \E f : Runs(f, N, T, empty, round)
      BY <1>1, <1>2, <1>4, BoundedRecursion
  <2>2. QED
      BY <2>1 DEF Runs
<1>6. \A n \in 1 .. N : f[n] = SetHeader(f[n - 1], ev, order[n])
  <2> TAKE n \in 1 .. N
  <2>1. n - 1 \in 0 .. N
      BY <1>1
  <2>2. f[n - 1] \in T
      BY <1>5, <2>1
  <2>3. QED
      BY <1>5, <2>2
<1>7. Loop(f)
    BY <1>5, <1>6
<1>8. Loop(out)
    BY <1>7
<1>9. Flattened(ev, order) = out[N]
    BY DEF Flattened, empty, N
<1> HIDE DEF out
<1>10. out[0] = empty /\ \A n \in 1 .. N : out[n] = SetHeader(out[n - 1], ev, order[n])
  <2>1. \A n \in 0 .. N :
            out[n] = IF n = 0 THEN empty ELSE SetHeader(out[n - 1], ev, order[n])
      BY <1>8, Zenon
  <2>2. 0 \in 0 .. N /\ \A n \in 1 .. N : n \in 0 .. N /\ n # 0
      BY <1>1
  <2>3. QED
      BY <2>1, <2>2
<1>11. QED
    BY <1>9, <1>10 DEF FlattenRuns, empty, N

\* Whatever the order, every bucket becomes the values of its name.
LEMMA FlattenedIs ==
    ASSUME NEW ev, Buckets(ev), NEW order \in Orders(DOMAIN ev)
    PROVE  Flat(ev, DOMAIN ev, Flattened(ev, order))
<1> DEFINE N == Cardinality(DOMAIN ev)
<1>0. IsFiniteSet(DOMAIN ev)
    BY DEF Buckets
<1>1. /\ N \in Nat /\ order \in [1 .. N -> DOMAIN ev]
      /\ \A i, j \in 1 .. N : order[i] = order[j] => i = j
      /\ \A x \in DOMAIN ev : \E i \in 1 .. N : order[i] = x
    BY <1>0, OrderIs
<1>2. PICK out : FlattenRuns(ev, order, out, N) /\ Flattened(ev, order) = out[N]
    BY <1>0, FlattenLoop
<1> HIDE DEF N
<1> DEFINE S == {k \in 0 .. N : Flat(ev, Names(order, k), out[k])}
<1>3. 0 \in S
  <2>1. Names(order, 0) = {} /\ out[0] = NoHeaders
      BY <1>2 DEF Names, FlattenRuns
  <2>2. Flat(ev, Names(order, 0), out[0])
      BY <2>1 DEF Flat, NoHeaders
  <2>3. 0 \in 0 .. N
      BY <1>1
  <2>4. QED
      BY <2>2, <2>3, Zenon
<1>4. ASSUME NEW k \in 0 .. N, k < N /\ k \in S PROVE k + 1 \in S
  <2> DEFINE m == order[k + 1]
             M == Names(order, k)
  <2>1. /\ k + 1 \in 1 .. N /\ M \in SUBSET DOMAIN ev /\ m \in DOMAIN ev \ M
        /\ Names(order, k + 1) = M \cup {m}
      BY <1>1, <1>4, NextName
  <2>2. out[k + 1] = SetHeader(out[k], ev, m)
      BY <1>2, <2>1 DEF FlattenRuns
  <2>3. Flat(ev, M, out[k])
      BY <1>4
  <2> HIDE DEF m, M
  <2>4. Flat(ev, M \cup {m}, SetHeader(out[k], ev, m))
      BY <2>1, <2>3, SetKeeps, Zenon
  <2>5. k + 1 \in 0 .. N
      BY <1>1, <2>1
  <2>6. Flat(ev, Names(order, k + 1), out[k + 1])
      BY <2>1, <2>2, <2>4, Zenon
  <2>7. QED
      BY <2>5, <2>6, Zenon
<1>5. N \in S
  <2> HIDE DEF S
  <2>1. \A k \in 0 .. N : k < N /\ k \in S => k + 1 \in S
      BY <1>4
  <2>2. 0 .. N \subseteq S
      BY <1>1, <1>3, <2>1, BoundedInduction
  <2>3. QED
      BY <1>1, <2>2
<1>6. Names(order, N) = DOMAIN ev
  <2>1. GoesThrough(order, N, DOMAIN ev)
      BY <1>1, Zenon DEF GoesThrough
  <2>2. QED
      BY <2>1, AllNames, Zenon
<1>7. Flat(ev, Names(order, N), out[N])
    BY <1>5, Zenon
<1>8. QED
    BY <1>2, <1>6, <1>7, Zenon

\* The same number of occurrences of every value, under every name.
SameCounts(a, b) == \A base, v : Occurrences(a, base, v) = Occurrences(b, base, v)

\* To an event and back, no value is lost, added or filed under another name.
LEMMA ThereAndBack ==
    ASSUME NEW in, HeaderMap(in), NEW ev \in normaliseHeadersForEvent(in),
           NEW out \in flattenHeaders(ev)
    PROVE  SameCounts(out, in)
<1> DEFINE P == PlacesOf(in, DOMAIN in)
           Q == PlacesOf(ev, DOMAIN ev)
           R == PlacesOf(out, DOMAIN out)
<1>1. InBuckets(in, DOMAIN in, ev)
    BY NormalisedIs DEF normaliseHeadersForEvent
<1>2. Buckets(ev)
    BY <1>1, BucketsIs
<1>3. Flat(ev, DOMAIN ev, out)
    BY <1>2, FlattenedIs DEF flattenHeaders
<1>4. PICK B : Moved(B, in, DOMAIN in, ev)
    BY <1>1 DEF InBuckets
<1>5. IsFiniteSet(P)
    BY <1>1 DEF InBuckets
<1>6. B \in Bijection(P, Q)
      /\ \A p \in P : B[p][1].base = p[1].base /\ ev[B[p][1]][B[p][2]].value = in[p[1]][p[2]]
    BY <1>4 DEF Moved
<1>7. IsFiniteSet(Q)
  <2>1. ExistsBijection(P, Q)
      BY <1>6 DEF ExistsBijection
  <2> HIDE DEF P, Q
  <2>2. QED
      BY <1>5, <2>1, FS_Bijection
<1> DEFINE G == [t \in Q |-> <<canonical(ev, t[1]), t[2]>>]
<1>8. \A t : t \in Q <=> t = <<t[1], t[2]>> /\ t[1] \in DOMAIN ev /\ t[2] \in DOMAIN ev[t[1]]
    BY PlaceIs DEF IsPlace
<1>9. \A t : t \in R <=> t = <<t[1], t[2]>> /\ t[1] \in DOMAIN out /\ t[2] \in DOMAIN out[t[1]]
    BY PlaceIs DEF IsPlace
<1>10. /\ DOMAIN out = {canonical(ev, l) : l \in DOMAIN ev}
       /\ \A l \in DOMAIN ev : /\ DOMAIN out[canonical(ev, l)] = DOMAIN ev[l]
                               /\ \A i \in DOMAIN ev[l] :
                                      out[canonical(ev, l)][i] = ev[l][i].value
    BY <1>3 DEF Flat, Values
<1> HIDE DEF P, Q, R
<1>11. ASSUME NEW t \in Q
       PROVE  G[t] \in R /\ G[t][1].base = t[1].base /\ out[G[t][1]][G[t][2]] = ev[t[1]][t[2]].value
  <2>1. t[1] \in DOMAIN ev /\ t[2] \in DOMAIN ev[t[1]]
      BY <1>8
  <2>2. canonical(ev, t[1]).base = t[1].base
      BY <1>2, <2>1, CanonicalIs
  <2>3. G[t] = <<canonical(ev, t[1]), t[2]>>
      OBVIOUS
  <2>4. <<canonical(ev, t[1]), t[2]>> \in R
      BY <1>9, <1>10, <2>1
  <2> HIDE DEF G
  <2>5. QED
      BY <1>10, <2>1, <2>2, <2>3, <2>4
<1>12. ASSUME NEW x \in Q, NEW y \in Q, G[x] = G[y] PROVE x = y
  <2>1. canonical(ev, x[1]) = canonical(ev, y[1]) /\ x[2] = y[2]
      BY <1>12
  <2>2. x[1] \in DOMAIN ev /\ y[1] \in DOMAIN ev /\ x = <<x[1], x[2]>> /\ y = <<y[1], y[2]>>
      BY <1>8
  <2>3. x[1] = y[1]
      BY <1>2, <2>1, <2>2, CanonicalOnce
  <2>4. QED
      BY <2>1, <2>2, <2>3
<1>13. ASSUME NEW t \in R PROVE \E x \in Q : G[x] = t
  <2>1. t = <<t[1], t[2]>> /\ t[1] \in DOMAIN out /\ t[2] \in DOMAIN out[t[1]]
      BY <1>9
  <2>2. PICK l \in DOMAIN ev : t[1] = canonical(ev, l)
      BY <1>10, <2>1
  <2>3. t[2] \in DOMAIN ev[l]
      BY <1>10, <2>1, <2>2
  <2>4. <<l, t[2]>> \in Q
      BY <1>8, <2>3
  <2>5. G[<<l, t[2]>>] = t
      BY <2>1, <2>2, <2>4
  <2>6. QED
      BY <2>4, <2>5
<1>14. G \in Bijection(Q, R)
  <2>1. G \in [Q -> R]
      BY <1>11
  <2> HIDE DEF G
  <2>2. QED
      BY <1>12, <1>13, <2>1 DEF Bijection, Injection, Surjection, IsInjective
<1> HIDE DEF G
<1>15. SUFFICES ASSUME NEW base, NEW v PROVE Occurrences(out, base, v) = Occurrences(in, base, v)
    BY DEF SameCounts
<1> DEFINE X == {p \in P : p[1].base = base /\ in[p[1]][p[2]] = v}
           Y == {t \in Q : t[1].base = base /\ ev[t[1]][t[2]].value = v}
           Z == {t \in R : t[1].base = base /\ out[t[1]][t[2]] = v}
<1>16. Occurrences(in, base, v) = Cardinality(X) /\ Occurrences(out, base, v) = Cardinality(Z)
    BY DEF Occurrences, Places, P, R, PlacesOf
<1>17. SameSize(X, Y)
  <2>1. \A p \in P : p \in X <=> B[p] \in Y
    <3>1. \A p \in P : B[p] \in Q
        BY <1>6 DEF Bijection, Injection
    <3>2. QED
        BY <1>6, <3>1
  <2>2. X \in SUBSET P /\ Y \in SUBSET Q
      OBVIOUS
  <2> HIDE DEF X, Y
  <2>3. Pairs(B, P, Q, X, Y)
      BY <1>5, <1>6, <2>1, <2>2 DEF Pairs
  <2>4. QED
      BY <2>3, PairedCount, Zenon
<1>18. SameSize(Y, Z)
  <2>1. \A t \in Q : t \in Y <=> G[t] \in Z
      BY <1>11
  <2>2. Y \in SUBSET Q /\ Z \in SUBSET R
      OBVIOUS
  <2> HIDE DEF Y, Z
  <2>3. Pairs(G, Q, R, Y, Z)
      BY <1>7, <1>14, <2>1, <2>2 DEF Pairs
  <2>4. QED
      BY <2>3, PairedCount, Zenon
<1>19. QED
    BY <1>16, <1>17, <1>18 DEF SameSize

\* Headers that count the same are the same to njs.
LEMMA CountsSuffice ==
    ASSUME NEW a, NEW b, SameCounts(a, b)
    PROVE  SameHeaders(a, b)
BY Zenon DEF SameCounts, SameHeaders

-----------------------------------------------------------------------------
(* Functions that return what they were given. *)

\* What njs is told to continue with after a request hook, and after a response hook.
SameRequest(a, r) ==
    /\ a.action = "continue"
    /\ [a.request EXCEPT !.headers = <<>>] = [r.request EXCEPT !.headers = <<>>]
    /\ SameHeaders(a.request.headers, r.request.headers)
SameResponse(a, r) ==
    /\ a.action = "continue"
    /\ a.response.status = r.response.status
    /\ a.response.desc = r.response.desc
    /\ SameHeaders(a.response.headers, r.response.headers)

\* The echo of a request changes nothing.
LEMMA EchoedRequest ==
    ASSUME NEW r \in Exchanges, r.type \in RequestHooks,
           NEW e \in RequestEvents(r.type, r), NEW a \in translateRequestHook(Echo(e), r)
    PROVE  SameRequest(a, r)
<1> DEFINE s == r.request
<1>1. s \in RequestSnapshots
    BY DEF Exchanges
<1>2. /\ s = [method |-> s.method, uri |-> s.uri, querystring |-> s.querystring,
              clientIp |-> s.clientIp, headers |-> s.headers]
      /\ HeaderMap(s.headers)
    BY <1>1, EventAssumption
<1>3. PICK q \in RequestBlocks(s) : e = [eventType |-> r.type, request |-> q, response |-> None]
    BY DEF RequestEvents
<1>4. PICK h \in normaliseHeadersForEvent(s.headers) : q = [s EXCEPT !.headers = h]
    BY <1>3 DEF RequestBlocks
<1> DEFINE b == Echo(e)
<1>5. b = RequestObject(q)
    BY <1>3 DEF Echo
<1>6. /\ q.method = s.method /\ q.uri = s.uri /\ q.querystring = s.querystring
      /\ q.clientIp = s.clientIp /\ q.headers = h
    BY <1>2, <1>4
<1> HIDE DEF b
<1>7. /\ b.kind = "object" /\ b.status = NoStatus /\ b.method = s.method /\ b.uri = s.uri
      /\ b.querystring = s.querystring /\ b.clientIp = s.clientIp /\ b.headers = h
  <2> DEFINE none == NoStatus
  <2> HIDE DEF none, s
  <2>1. b = [kind |-> "object", status |-> none, method |-> q.method, uri |-> q.uri,
             querystring |-> q.querystring, clientIp |-> q.clientIp, headers |-> q.headers,
             desc |-> "", body |-> ""]
      BY <1>5, Zenon DEF RequestObject, none
  <2>2. /\ b.kind = "object" /\ b.status = none /\ b.method = q.method /\ b.uri = q.uri
        /\ b.querystring = q.querystring /\ b.clientIp = q.clientIp /\ b.headers = q.headers
      BY <2>1
  <2>3. QED
      BY <1>6, <2>2 DEF none
<1>8. ~ ShortCircuits(b) /\ ~ lambdaErrorResponse(b) /\ b.kind \notin {"empty", "garbage"}
    BY <1>7 DEF ShortCircuits, NoStatus, lambdaErrorResponse
<1>9. a \in {Continue(x, None) : x \in mergeRequest(s, b)}
    BY <1>8 DEF translateRequestHook, b
<1>10. PICK x \in mergeRequest(s, b) : a = Continue(x, None)
    BY <1>9
<1> DEFINE H == IF b.headers = NoHeaders THEN {s.headers} ELSE flattenHeaders(b.headers)
<1>11. PICK k \in H : x = [method |-> Inherit(s.method, b.method),
                           uri |-> Inherit(s.uri, b.uri),
                           querystring |-> Inherit(s.querystring, b.querystring),
                           clientIp |-> Inherit(s.clientIp, b.clientIp),
                           headers |-> k]
    BY <1>10 DEF mergeRequest
<1>12. x = [method |-> s.method, uri |-> s.uri, querystring |-> s.querystring,
            clientIp |-> s.clientIp, headers |-> k]
    BY <1>7, <1>11 DEF Inherit
<1>13. SameHeaders(k, s.headers)
  <2>1. CASE b.headers = NoHeaders
    <3>1. k = s.headers
        BY <1>11, <2>1
    <3>2. SameCounts(k, s.headers)
        BY <3>1 DEF SameCounts
    <3>3. QED
        BY <3>2, CountsSuffice, Zenon
  <2>2. CASE b.headers # NoHeaders
    <3>1. k \in flattenHeaders(h)
        BY <1>7, <1>11, <2>2
    <3> DEFINE in == s.headers
    <3> HIDE DEF in
    <3>2. HeaderMap(in) /\ h \in normaliseHeadersForEvent(in)
        BY <1>2, <1>4 DEF in
    <3>3. SameCounts(k, in)
        BY <3>1, <3>2, ThereAndBack, Zenon
    <3>4. QED
        BY <3>3, CountsSuffice, Zenon DEF in
  <2>3. QED
      BY <2>1, <2>2
<1>14. a.action = "continue" /\ a.request = x
    BY <1>10 DEF Continue
<1>15. [x EXCEPT !.headers = <<>>] = [s EXCEPT !.headers = <<>>] /\ x.headers = k
    BY <1>2, <1>12
<1>16. QED
    BY <1>13, <1>14, <1>15, Zenon DEF SameRequest

\* What an event of a response hook shows of the response.
LEMMA ShownResponse ==
    ASSUME NEW r \in Exchanges, r.type \in ResponseHooks, NEW e \in ResponseEvents(r.type, r)
    PROVE  /\ HeaderMap(r.response.headers) /\ r.response # None
           /\ \E h \in normaliseHeadersForEvent(r.response.headers) :
                 Echo(e) = ResponseObject([status |-> Itoa(r.response.status),
                                           desc |-> r.response.desc, headers |-> h])
<1> DEFINE p == r.response
<1>1. p # None
    BY DEF ResponseEvents
<1>2. p \in ResponseSnapshots
    BY <1>1 DEF Exchanges, ResponseHooks, RequestHooks
<1>3. HeaderMap(p.headers)
    BY <1>2, EventAssumption
<1>4. \E q, s : /\ s \in eventResponseFromSnapshot(p)
                /\ e = [eventType |-> r.type, request |-> q, response |-> s]
    BY <1>1 DEF ResponseEvents
<1>5. PICK q, s : /\ s \in eventResponseFromSnapshot(p)
                  /\ e = [eventType |-> r.type, request |-> q, response |-> s]
    BY <1>4
<1>6. Echo(e) = ResponseObject(s)
    BY <1>5 DEF Echo, RequestHooks, ResponseHooks
<1>7. PICK h \in normaliseHeadersForEvent(p.headers) :
          s = [status |-> Itoa(p.status), desc |-> p.desc, headers |-> h]
    BY <1>5 DEF eventResponseFromSnapshot
<1>8. QED
    BY <1>1, <1>3, <1>6, <1>7

\* The echo of a response changes nothing.
LEMMA EchoedResponse ==
    ASSUME NEW r \in Exchanges, r.type \in ResponseHooks, NEW e \in ResponseEvents(r.type, r),
           NEW a, a \in TranslateOriginResponseResponse(Echo(e), r)
                  \/ a \in TranslateViewerResponseResponse(Echo(e), r)
    PROVE  SameResponse(a, r)
<1> DEFINE p == r.response
           b == Echo(e)
<1>1. HeaderMap(p.headers) /\ p # None
    BY ShownResponse
<1>2. PICK h \in normaliseHeadersForEvent(p.headers) :
          b = ResponseObject([status |-> Itoa(p.status), desc |-> p.desc, headers |-> h])
    BY ShownResponse
<1> HIDE DEF b
<1>3. /\ b.kind = "object" /\ b.status = Itoa(p.status) /\ b.desc = p.desc /\ b.headers = h
  <2> DEFINE code == Itoa(p.status)
             d == p.desc
             x == [status |-> code, desc |-> d, headers |-> h]
  <2> HIDE DEF code, d
  <2>1. x.status = code /\ x.desc = d /\ x.headers = h
      OBVIOUS
  <2>2. b = ResponseObject(x)
      BY <1>2 DEF code, d
  <2> HIDE DEF x
  <2>3. b = [kind |-> "object", status |-> x.status, method |-> "", uri |-> "",
             querystring |-> "", clientIp |-> "", headers |-> x.headers,
             desc |-> x.desc, body |-> ""]
      BY <2>2, Zenon DEF ResponseObject
  <2>4. b.kind = "object" /\ b.status = x.status /\ b.desc = x.desc /\ b.headers = x.headers
      BY <2>3
  <2>5. QED
      BY <2>1, <2>4 DEF code, d
<1>4. /\ ParsesAsInt(b.status) /\ b.status.of = p.status /\ b.status.form # NumberStatus.form
    BY <1>3 DEF Itoa, ParsesAsInt, NumberStatus
<1>5. /\ b.kind \notin {"empty", "garbage"} /\ ~ lambdaErrorResponse(b)
      /\ b.status # NumberStatus
    BY <1>3, <1>4 DEF lambdaErrorResponse
<1>6. PICK k \in flattenHeaders(h) :
          /\ a.action = "continue"
          /\ a.response.status = p.status /\ a.response.desc = p.desc /\ a.response.headers = k
  <2>1. CASE a \in TranslateOriginResponseResponse(b, r)
    <3>1. PICK x \in flattenResponse(b) : a = Continue(None, x)
        BY <1>4, <1>5, <2>1 DEF TranslateOriginResponseResponse
    <3>2. PICK k \in flattenHeaders(h) :
              x = [status |-> p.status, desc |-> p.desc, headers |-> k, body |-> b.body]
        BY <1>3, <1>4, <3>1 DEF flattenResponse
    <3>3. QED
        BY <3>1, <3>2 DEF Continue
  <2>2. CASE a \in TranslateViewerResponseResponse(b, r)
    <3>1. PICK k \in flattenHeaders(h) :
              a = Continue(None, [status |-> p.status, desc |-> p.desc, headers |-> k, body |-> ""])
        BY <1>1, <1>3, <1>5, <2>2 DEF TranslateViewerResponseResponse
    <3>2. QED
        BY <3>1 DEF Continue
  <2>3. QED
      BY <2>1, <2>2 DEF b
<1>7. SameHeaders(k, p.headers)
  <2> DEFINE in == p.headers
  <2> HIDE DEF in
  <2>1. HeaderMap(in) /\ h \in normaliseHeadersForEvent(in)
      BY <1>1, <1>2 DEF in
  <2>2. SameCounts(k, in)
      BY <2>1, ThereAndBack, Zenon
  <2>3. QED
      BY <2>2, CountsSuffice, Zenon DEF in
<1>8. QED
    BY <1>6, <1>7, Zenon DEF SameResponse

\* An echo is transparent at every hook.
LEMMA EveryEcho ==
    ASSUME NEW t \in EventTypes
    PROVE  Transparent[t]
<1>1. ASSUME NEW r \in Exchanges, NEW e \in builder(r), NEW a \in translator(Echo(e), r),
             r.type = t
      PROVE  /\ a.action = "continue"
             /\ t \in RequestHooks => SameRequest(a, r)
             /\ t \in ResponseHooks => SameResponse(a, r)
  <2>1. CASE t \in RequestHooks
    <3>1. e \in RequestEvents(t, r) /\ a \in translateRequestHook(Echo(e), r)
        BY <1>1, <2>1 DEF builder, translator, RequestHooks, BuildViewerRequestEvent,
                          BuildOriginRequestEvent
    <3>2. SameRequest(a, r)
        BY <1>1, <2>1, <3>1, EchoedRequest
    <3>3. t \notin ResponseHooks
        BY <2>1 DEF RequestHooks, ResponseHooks
    <3>4. QED
        BY <3>2, <3>3 DEF SameRequest
  <2>2. CASE t \in ResponseHooks
    <3>1. e \in ResponseEvents(t, r)
        BY <1>1, <2>2 DEF builder, ResponseHooks, BuildOriginResponseEvent,
                          BuildViewerResponseEvent
    <3>2. \/ a \in TranslateOriginResponseResponse(Echo(e), r)
          \/ a \in TranslateViewerResponseResponse(Echo(e), r)
        BY <1>1, <2>2 DEF translator, ResponseHooks, RequestHooks
    <3>3. SameResponse(a, r)
        BY <1>1, <2>2, <3>1, <3>2, EchoedResponse
    <3>4. t \notin RequestHooks
        BY <2>2 DEF RequestHooks, ResponseHooks
    <3>5. QED
        BY <3>3, <3>4 DEF SameResponse
  <2>3. QED
      BY <2>1, <2>2 DEF EventTypes
<1> DEFINE T(u) ==
        \A r \in Exchanges : \A e \in builder(r) : \A a \in translator(Echo(e), r) :
            r.type = u =>
                /\ a.action = "continue"
                /\ u \in RequestHooks =>
                    /\ [a.request EXCEPT !.headers = <<>>] = [r.request EXCEPT !.headers = <<>>]
                    /\ SameHeaders(a.request.headers, r.request.headers)
                /\ u \in ResponseHooks =>
                    /\ a.response.status = r.response.status
                    /\ a.response.desc = r.response.desc
                    /\ SameHeaders(a.response.headers, r.response.headers)
<1>2. T(t)
  <2> SUFFICES ASSUME NEW r \in Exchanges, NEW e \in builder(r),
                      NEW a \in translator(Echo(e), r), r.type = t
               PROVE  /\ a.action = "continue"
                      /\ t \in RequestHooks =>
                          /\ [a.request EXCEPT !.headers = <<>>] = [r.request EXCEPT !.headers = <<>>]
                          /\ SameHeaders(a.request.headers, r.request.headers)
                      /\ t \in ResponseHooks =>
                          /\ a.response.status = r.response.status
                          /\ a.response.desc = r.response.desc
                          /\ SameHeaders(a.response.headers, r.response.headers)
      OBVIOUS
  <2>1. /\ a.action = "continue"
        /\ t \in RequestHooks => SameRequest(a, r)
        /\ t \in ResponseHooks => SameResponse(a, r)
      BY <1>1
  <2>2. QED
      BY <2>1, Zenon DEF SameRequest, SameResponse
<1>3. Transparent = [u \in EventTypes |-> T(u)]
    BY Zenon DEF Transparent
<1> HIDE DEF T
<1>4. QED
    BY <1>2, <1>3, Zenon

\* A function that returns the request or response of its event changes nothing, whatever
\* headers njs sent and in whatever order Go iterates over the header maps
\* (normaliseHeadersForEvent, flattenHeaders and the translators of event.go).
THEOREM EchoChangesNothing == Spec => []EchoIsTransparent
<1>1. EchoIsTransparent
    BY EveryEcho DEF EchoIsTransparent
<1>2. QED
    BY <1>1, PTL
=============================================================================
