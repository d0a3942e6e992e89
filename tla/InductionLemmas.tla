-------------------------- MODULE InductionLemmas ---------------------------
(***************************************************************************)
(* Induction and recursion over the natural numbers in a first-order form: *)
(* the predicate of an induction is a set, the step of a recursion is a    *)
(* function, so the provers can apply these facts to any instance.         *)
(***************************************************************************)
EXTENDS Integers, WellFoundedInduction, TLAPS

\* A set of numbers that is not empty has a least element.
LEMMA NatMin ==
    ASSUME NEW T, T \subseteq Nat, T # {}
    PROVE  \E m \in T : \A n \in T : m <= n
<1> DEFINE R == {p \in Nat \X Nat : p[1] < p[2]}
<1>1. IsWellFoundedOn(R, Nat)
    BY NatLessThanWellFounded DEF OpToRel
<1>2. \E m \in T : \A n \in T : ~ (<<n, m>> \in R)
  <2> HIDE DEF R
  <2> QED
      BY <1>1, WFMin
<1>3. PICK m \in T : \A n \in T : ~ (<<n, m>> \in R)
    BY <1>2
<1>4. \A n \in T : ~ (n < m)
    BY <1>3
<1>5. QED
    BY <1>3, <1>4

\* Induction: what 0 has, and every successor inherits, all numbers have.
LEMMA SetInduction ==
    ASSUME NEW S, 0 \in S, \A n \in Nat : n \in S => n + 1 \in S
    PROVE  Nat \subseteq S
<1> DEFINE T == {n \in Nat : n \notin S}
<1> SUFFICES ASSUME T # {} PROVE FALSE
    OBVIOUS
<1>1. PICK m \in T : \A n \in T : m <= n
    BY NatMin
<1>2. m - 1 \in Nat /\ m - 1 \notin T
    BY <1>1
<1>3. QED
    BY <1>1, <1>2

\* The same up to a bound.
LEMMA BoundedInduction ==
    ASSUME NEW N \in Nat, NEW S, 0 \in S,
           \A n \in 0 .. N : n < N /\ n \in S => n + 1 \in S
    PROVE  0 .. N \subseteq S
<1> DEFINE U == {n \in Nat : n <= N => n \in S}
<1>1. 0 \in U
    OBVIOUS
<1>2. ASSUME NEW n \in Nat, n \in U PROVE n + 1 \in U
    BY <1>2
<1>3. Nat \subseteq U
    BY <1>1, <1>2, SetInduction
<1>4. QED
    BY <1>3

\* What may happen in N rounds of a loop over values in T, and the values f
\* that such a loop goes through.
Rounds(N, T) == [1 .. N -> [T -> T]]
Runs(f, N, T, base, round) ==
    /\ f \in [0 .. N -> T]
    /\ f[0] = base
    /\ \A n \in 1 .. N : f[n] = round[n][f[n - 1]]

\* Recursion up to a bound: the loop has a run.
LEMMA BoundedRecursion ==
    ASSUME NEW N \in Nat, NEW T, NEW base \in T, NEW round \in Rounds(N, T)
    PROVE  \E f : Runs(f, N, T, base, round)
<1> USE DEF Rounds, Runs
<1> DEFINE Good(k, f) == f[0] = base /\ \A n \in 1 .. k : f[n] = round[n][f[n - 1]]
           S == {k \in 0 .. N : \E f \in [0 .. N -> T] : Good(k, f)}
<1>1. 0 \in S
  <2> DEFINE f == [n \in 0 .. N |-> base]
  <2>1. f \in [0 .. N -> T] /\ f[0] = base /\ 1 .. 0 = {}
      OBVIOUS
  <2> HIDE DEF f
  <2>2. Good(0, f)
      BY <2>1
  <2>3. QED
      BY <2>1, <2>2
<1>2. ASSUME NEW k \in 0 .. N, k < N, k \in S PROVE k + 1 \in S
  <2>1. PICK f \in [0 .. N -> T] : Good(k, f)
      BY <1>2
  <2> DEFINE g == [f EXCEPT ![k + 1] = round[k + 1][f[k]]]
  <2>2. round[k + 1][f[k]] \in T
      BY <1>2, <2>1
  <2>3. g \in [0 .. N -> T]
      BY <2>2
  <2>4. \A n \in 0 .. k : g[n] = f[n]
      BY <1>2, <2>1
  <2>5. g[k + 1] = round[k + 1][g[k]]
      BY <1>2, <2>1, <2>4
  <2>6. ASSUME NEW n \in 1 .. k + 1 PROVE g[n] = round[n][g[n - 1]]
    <3>1. CASE n = k + 1
        BY <2>5, <3>1
    <3>2. CASE n # k + 1
      <4>1. n \in 1 .. k /\ n - 1 \in 0 .. k /\ n \in 0 .. k
          BY <1>2, <3>2
      <4>2. QED
          BY <2>1, <2>4, <4>1
    <3>3. QED
        BY <3>1, <3>2
  <2>7. g[0] = base
      BY <2>1, <2>4
  <2>8. k + 1 \in 0 .. N /\ Good(k + 1, g)
      BY <1>2, <2>6, <2>7
  <2>9. QED
      BY <2>3, <2>8
<1>3. N \in S
  <2> HIDE DEF S
  <2>1. \A k \in 0 .. N : k < N /\ k \in S => k + 1 \in S
      BY <1>2
  <2>2. 0 .. N \subseteq S
      BY <1>1, <2>1, BoundedInduction
  <2>3. QED
      BY <2>2
<1>4. QED
    BY <1>3
=============================================================================
