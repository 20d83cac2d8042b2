----------------------------- MODULE ListLemmas -----------------------------
(***************************************************************************)
(* What the operators of Lists compute, for every list: how sums add up,   *)
(* that their order does not matter, and what filtering and sorting keep.  *)
(* A fold is a recursive function, that is, a CHOOSE; the lemmas start by  *)
(* showing that there is one to choose, with an induction that comes from  *)
(* the well-foundedness of the natural numbers.                            *)
(***************************************************************************)
EXTENDS Lists, WellFoundedInduction, TLAPS

\* The order of the natural numbers, as a set of pairs.
Less == {ss \in Nat \X Nat : ss[1] < ss[2]}

\* There is no infinite descent in the natural numbers.
LEMMA LessWellFounded == IsWellFoundedOn(Less, Nat)
  BY NatLessThanWellFounded DEF OpToRel, Less

\* A set of natural numbers has a least one.
LEMMA LeastNumber ==
    ASSUME NEW T, T \subseteq Nat, T # {}
    PROVE \E x \in T : \A y \in T : x <= y
<1>1. PICK x \in T : \A y \in T : ~ (<<y, x>> \in Less)
  BY WFMin, LessWellFounded
<1>2. \A y \in T : x <= y
  <2> TAKE y \in T
  <2>1. x \in Nat /\ y \in Nat
    OBVIOUS
  <2>2. ~ (y < x)
    BY <1>1, <2>1 DEF Less
  <2> QED BY <2>1, <2>2
<1> QED BY <1>2

\* Induction from 0 to n, for the members of a set.
LEMMA Induction ==
    ASSUME NEW n \in Nat, NEW B, 0 \in B,
           \A k \in 0..(n - 1) : k \in B => k + 1 \in B
    PROVE  \A k \in 0..n : k \in B
<1> SUFFICES ASSUME (0..n) \ B # {} PROVE FALSE
  OBVIOUS
<1>1. PICK x \in (0..n) \ B : \A y \in (0..n) \ B : x <= y
  <2> (0..n) \ B \subseteq Nat
    OBVIOUS
  <2> QED BY LeastNumber
<1>2. x # 0
  OBVIOUS
<1>3. x - 1 \in 0..(n-1) /\ x - 1 \in B
  BY <1>1, <1>2
<1> QED BY <1>3

\* A set of numbers up to n has a largest one, and Max is it.
LEMMA MaxOfInterval ==
    ASSUME NEW n \in Nat, NEW T, T \subseteq 1..n, T # {}
    PROVE  Max(T) \in T /\ \A y \in T : y <= Max(T)
<1> DEFINE U == {n - x : x \in T}
<1>1. U \subseteq Nat /\ U # {}
  <2>1. \A x \in T : x \in Int /\ n - x \in Nat
    OBVIOUS
  <2> QED BY <2>1
<1>2. PICK u \in U : \A y \in U : u <= y
  BY <1>1, LeastNumber
<1>3. PICK x \in T : u = n - x
  OBVIOUS
<1>4. \A y \in T : x >= y
  <2> TAKE y \in T
  <2>1. u <= n - y
    BY <1>2
  <2> QED BY <2>1, <1>3
<1>5. Max(T) \in T /\ \A y \in T : Max(T) >= y
  BY <1>4 DEF Max
<1> QED BY <1>5

\* What the fold over 1..n takes away at each step.
LEMMA Interval ==
    ASSUME NEW n \in Nat, NEW k \in 1..n
    PROVE  /\ 1..k \in SUBSET (1..n) /\ 1..k # {}
           /\ Max(1..k) = k
           /\ (1..k) \ {k} = 1..(k - 1)
<1>1. k \in Nat /\ 1 <= k /\ k <= n
  OBVIOUS
<1>2. 1..k \in SUBSET (1..n) /\ 1..k # {}
  BY <1>1
<1>3. Max(1..k) \in 1..k /\ \A y \in 1..k : y <= Max(1..k)
  BY <1>2, MaxOfInterval
<1>4. k \in 1..k
  BY <1>1
<1>5. Max(1..k) = k
  BY <1>1, <1>3, <1>4
<1>6. (1..k) \ {k} = 1..(k - 1)
  BY <1>1
<1> QED BY <1>2, <1>5, <1>6

\* G holds the values of a fold over the subsets of 1..n.
IsFold(G, n, V, base, Step) ==
    /\ G \in [SUBSET (1..n) -> V]
    /\ G[{}] = base
    /\ \A t \in SUBSET (1..n) :
          t # {} => G[t] = Step[<<Max(t), G[t \ {Max(t)}]>>]

\* The equations of a fold over 1..n have a solution, so that CHOOSE finds one.
LEMMA FoldExists ==
    ASSUME NEW n \in Nat, NEW V, NEW base \in V,
           NEW Step, Step \in [(1..n) \X V -> V]
    PROVE  \E G : IsFold(G, n, V, base, Step)
<1> DEFINE Solves(G, m) ==
              /\ G[{}] = base
              /\ \A t \in SUBSET (1..m) :
                    t # {} => G[t] = Step[<<Max(t), G[t \ {Max(t)}]>>]
           B == {m \in 0..n : \E G \in [SUBSET (1..m) -> V] : Solves(G, m)}
<1>1. 0 \in B
  <2> DEFINE G == [t \in SUBSET (1..0) |-> base]
  <2>1. G \in [SUBSET (1..0) -> V]
    OBVIOUS
  <2>2. \A t \in SUBSET (1..0) : t = {}
    OBVIOUS
  <2>3. Solves(G, 0)
    BY <2>2
  <2>4. 0 \in 0..n
    OBVIOUS
  <2> HIDE DEF G, Solves
  <2> QED BY <2>1, <2>3, <2>4
<1>2. ASSUME NEW m \in 0..(n - 1), m \in B PROVE m + 1 \in B
  <2>1. PICK G \in [SUBSET (1..m) -> V] : Solves(G, m)
    BY <1>2
  <2> DEFINE H == [t \in SUBSET (1..(m + 1)) |->
                      IF m + 1 \in t THEN Step[<<m + 1, G[t \ {m + 1}]>>] ELSE G[t]]
  <2>2. \A t \in SUBSET (1..(m + 1)) : t \ {m + 1} \in SUBSET (1..m)
    OBVIOUS
  <2>3. H \in [SUBSET (1..(m + 1)) -> V]
    <3> SUFFICES ASSUME NEW t \in SUBSET (1..(m + 1)) 
                 PROVE (IF m + 1 \in t THEN Step[<<m + 1, G[t \ {m + 1}]>>] ELSE G[t]) \in V
      OBVIOUS
    <3>1. CASE m + 1 \in t
      <4>1. G[t \ {m + 1}] \in V
        BY <2>2
      <4> QED BY <3>1, <4>1
    <3>2. CASE m + 1 \notin t
      <4>1. t = t \ {m + 1}
        BY <3>2
      <4>2. t \in SUBSET (1..m)
        BY <4>1, <2>2
      <4> QED BY <3>2, <4>2
    <3> QED BY <3>1, <3>2
  <2>4. H[{}] = base
    BY <2>1
  <2>5. ASSUME NEW t \in SUBSET (1..(m + 1)), t # {}
        PROVE  H[t] = Step[<<Max(t), H[t \ {Max(t)}]>>]
    <3>1. Max(t) \in t /\ \A y \in t : y <= Max(t)
      <4>1. m + 1 \in Nat /\ t \subseteq 1..(m + 1)
        OBVIOUS
      <4> QED BY <2>5, <4>1, MaxOfInterval
    <3>2. CASE m + 1 \in t
      <4>1. Max(t) = m + 1
        <5>1. Max(t) \in 1..(m + 1) /\ m + 1 <= Max(t)
          BY <3>1, <3>2
        <5> HIDE DEF H
        <5> QED BY <5>1
      <4>2. H[t \ {m + 1}] = G[t \ {m + 1}]
        BY <2>2
      <4>3. H[t] = Step[<<m + 1, G[t \ {m + 1}]>>]
        BY <3>2
      <4> QED BY <4>1, <4>2, <4>3
    <3>3. CASE m + 1 \notin t
      <4>1. t = t \ {m + 1}
        BY <3>3
      <4>2. t \in SUBSET (1..m)
        BY <4>1, <2>2
      <4>3. t \ {Max(t)} \in SUBSET (1..(m+1)) /\ m + 1 \notin t \ {Max(t)}
        BY <3>3
      <4>4. H[t] = G[t] /\ H[t \ {Max(t)}] = G[t \ {Max(t)}]
        BY <3>3, <4>3
      <4> QED BY <4>2, <4>4, <2>1, <2>5
    <3> QED BY <3>2, <3>3
  <2>6. Solves(H, m + 1)
    BY <2>4, <2>5
  <2> HIDE DEF H, Solves
  <2>7. m + 1 \in 0..n
    OBVIOUS
  <2> QED BY <2>3, <2>6, <2>7
<1>3. n \in B
  <2> HIDE DEF B
  <2>1. \A k \in 0..n : k \in B
    BY <1>1, <1>2, Induction
  <2>2. n \in 0..n
    OBVIOUS
  <2> QED BY <2>1, <2>2
<1> QED BY <1>3 DEF IsFold

\* Total is the last of the partial sums.
LEMMA TotalPrefix ==
    ASSUME NEW n \in Nat, NEW s \in [1..n -> Int]
    PROVE  \E P \in [0..n -> Int] :
              /\ P[0] = 0
              /\ \A k \in 1..n : P[k] = P[k - 1] + s[k]
              /\ P[n] = Total(s)
<1> DEFINE Step == [q \in (1..n) \X Int |-> q[2] + s[q[1]]]
           Solves(iter) == iter = [t \in SUBSET (1..n) |->
                               IF t = {} THEN 0
                               ELSE iter[t \ {Max(t)}] + s[Max(t)]]
           Solution == CHOOSE iter : Solves(iter)
<1>1. Total(s) = Solution[1..n]
  BY DEF Total, FoldLeft, MapThenFoldSet
<1>2. Step \in [(1..n) \X Int -> Int]
  OBVIOUS
<1>3. PICK G : IsFold(G, n, Int, 0, Step)
  <2> HIDE DEF Step
  <2>1. 0 \in Int
    OBVIOUS
  <2> QED BY <1>2, <2>1, FoldExists
<1>4. Solves(G)
  <2>1. ASSUME NEW t \in SUBSET (1..n), t # {}
        PROVE  G[t] = G[t \ {Max(t)}] + s[Max(t)]
    <3>1. Max(t) \in 1..n
      BY <2>1, MaxOfInterval
    <3>2. G[t \ {Max(t)}] \in Int
      BY <1>3 DEF IsFold
    <3> QED BY <2>1, <1>3, <3>1, <3>2 DEF IsFold
  <2> QED BY <2>1, <1>3 DEF IsFold
<1>5. Solves(Solution)
  <2> HIDE DEF Solves
  <2> QED BY <1>4
<1>6. Solution[{}] = 0
  <2> HIDE DEF Solution
  <2> QED BY <1>5
<1>7. ASSUME NEW k \in 1..n PROVE Solution[1..k] = Solution[1..(k - 1)] + s[k]
  <2> HIDE DEF Solution
  <2>1. /\ 1..k \in SUBSET (1..n) /\ 1..k # {}
        /\ Max(1..k) = k
        /\ (1..k) \ {k} = 1..(k - 1)
    BY Interval
  <2>2. Solution[1..k] = Solution[(1..k) \ {Max(1..k)}] + s[Max(1..k)]
    BY <1>5, <2>1
  <2> QED BY <2>1, <2>2
<1> DEFINE P == [k \in 0..n |-> Solution[1..k]]
<1>8. P[0] = 0 /\ P[n] = Total(s) /\ \A k \in 1..n : P[k] = P[k - 1] + s[k]
  <2>1. 1..0 = {}
    OBVIOUS
  <2> HIDE DEF Solution
  <2> QED BY <1>1, <1>6, <1>7, <2>1
<1>9. \A k \in 0..n : P[k] \in Int
  <2> DEFINE B == {k \in 0..n : P[k] \in Int}
  <2> HIDE DEF P
  <2>1. 0 \in B
    BY <1>8
  <2>2. \A k \in 0..(n - 1) : k \in B => k + 1 \in B
    <3> TAKE k \in 0..(n - 1)
    <3>1. k + 1 \in 1..n /\ k + 1 - 1 = k
      OBVIOUS
    <3> QED BY <1>8, <3>1
  <2> HIDE DEF B
  <2>3. \A k \in 0..n : k \in B
    BY <2>1, <2>2, Induction
  <2> QED BY <2>3 DEF B
<1>10. P \in [0..n -> Int]
  <2> HIDE DEF Solution
  <2> QED BY <1>9
<1> QED BY <1>8, <1>10

\* The sum of no amounts.
LEMMA TotalEmpty == Total(<<>>) = 0
<1>1. <<>> \in [1..0 -> Int]
  OBVIOUS
<1>2. PICK P \in [0..0 -> Int] : P[0] = 0 /\ P[0] = Total(<<>>)
  BY <1>1, TotalPrefix
<1> QED BY <1>2

\* The sum of n + 1 amounts is that of the first n and the last one.
LEMMA TotalStep ==
    ASSUME NEW n \in Nat, NEW s \in [1..(n + 1) -> Int]
    PROVE  /\ [i \in 1..n |-> s[i]] \in [1..n -> Int]
           /\ Total(s) = Total([i \in 1..n |-> s[i]]) + s[n + 1]
<1> DEFINE r == [i \in 1..n |-> s[i]]
<1>1. r \in [1..n -> Int]
  OBVIOUS
<1>2. PICK P \in [0..(n + 1) -> Int] :
          /\ P[0] = 0
          /\ \A k \in 1..(n + 1) : P[k] = P[k - 1] + s[k]
          /\ P[n + 1] = Total(s)
  <2>1. n + 1 \in Nat
    OBVIOUS
  <2> QED BY <2>1, TotalPrefix
<1>3. PICK Q \in [0..n -> Int] :
          /\ Q[0] = 0
          /\ \A k \in 1..n : Q[k] = Q[k - 1] + r[k]
          /\ Q[n] = Total(r)
  <2> HIDE DEF r
  <2> QED BY <1>1, TotalPrefix
<1> DEFINE B == {k \in 0..n : P[k] = Q[k]}
<1>4. 0 \in B
  BY <1>2, <1>3
<1>5. \A k \in 0..(n - 1) : k \in B => k + 1 \in B
  <2> TAKE k \in 0..(n - 1)
  <2>1. k + 1 \in 1..n /\ k + 1 \in 1..(n + 1) /\ k + 1 - 1 = k
    OBVIOUS
  <2>2. P[k + 1] = P[k] + s[k + 1]
    BY <1>2, <2>1
  <2>3. Q[k + 1] = Q[k] + s[k + 1]
    BY <1>3, <2>1
  <2> QED BY <2>1, <2>2, <2>3
<1>6. P[n] = Q[n]
  <2>1. n \in 0..n
    OBVIOUS
  <2> HIDE DEF B
  <2>2. n \in B
    BY <1>4, <1>5, <2>1, Induction
  <2> QED BY <2>2 DEF B
<1>7. P[n + 1] = P[n] + s[n + 1]
  <2>1. n + 1 \in 1..(n + 1) /\ n + 1 - 1 = n
    OBVIOUS
  <2> QED BY <2>1, <1>2
<1> QED BY <1>1, <1>2, <1>3, <1>6, <1>7

\* The sum of integers is an integer.
LEMMA TotalInt ==
    ASSUME NEW n \in Nat, NEW s \in [1..n -> Int]
    PROVE  Total(s) \in Int
<1>1. PICK P \in [0..n -> Int] :
          /\ P[0] = 0
          /\ \A k \in 1..n : P[k] = P[k - 1] + s[k]
          /\ P[n] = Total(s)
  BY TotalPrefix
<1>2. n \in 0..n
  OBVIOUS
<1> QED BY <1>1, <1>2

\* The sum of natural numbers is a natural number.
LEMMA TotalNat ==
    ASSUME NEW n \in Nat, NEW s \in [1..n -> Nat]
    PROVE  Total(s) \in Nat
<1>1. s \in [1..n -> Int]
  OBVIOUS
<1>2. PICK P \in [0..n -> Int] :
          /\ P[0] = 0
          /\ \A k \in 1..n : P[k] = P[k - 1] + s[k]
          /\ P[n] = Total(s)
  BY <1>1, TotalPrefix
<1> DEFINE B == {k \in 0..n : P[k] \in Nat}
<1>3. 0 \in B
  BY <1>2
<1>4. \A k \in 0..(n - 1) : k \in B => k + 1 \in B
  <2> TAKE k \in 0..(n - 1)
  <2>1. k + 1 \in 1..n /\ k + 1 \in 0..n /\ k + 1 - 1 = k
    OBVIOUS
  <2>2. P[k + 1] = P[k] + s[k + 1] /\ s[k + 1] \in Nat
    BY <1>2, <2>1
  <2> QED BY <2>1, <2>2
<1>5. n \in B
  <2>1. n \in 0..n
    OBVIOUS
  <2> HIDE DEF B
  <2> QED BY <1>3, <1>4, <2>1, Induction
<1> QED BY <1>2, <1>5

\* Lists that differ at one place differ by that much in their sums.
LEMMA TotalUpdate ==
    ASSUME NEW n \in Nat, NEW s \in [1..n -> Int], NEW t \in [1..n -> Int],
           NEW j \in 1..n, \A i \in 1..n : i # j => s[i] = t[i]
    PROVE  Total(s) - s[j] = Total(t) - t[j]
<1>1. PICK P \in [0..n -> Int] :
          /\ P[0] = 0
          /\ \A k \in 1..n : P[k] = P[k - 1] + s[k]
          /\ P[n] = Total(s)
  BY TotalPrefix
<1>2. PICK Q \in [0..n -> Int] :
          /\ Q[0] = 0
          /\ \A k \in 1..n : Q[k] = Q[k - 1] + t[k]
          /\ Q[n] = Total(t)
  BY TotalPrefix
<1> DEFINE B == {k \in 0..n : IF k < j THEN P[k] = Q[k] ELSE P[k] - s[j] = Q[k] - t[j]}
<1>0. \A p, q, u, v \in Int : p = q => (p + u) - u = (q + v) - v
  OBVIOUS
<1>3. 0 \in B
  BY <1>1, <1>2
<1>4. \A k \in 0..(n - 1) : k \in B => k + 1 \in B
  <2> TAKE k \in 0..(n - 1)
  <2> HAVE k \in B
  <2>1. k + 1 \in 1..n /\ k + 1 \in 0..n /\ k + 1 - 1 = k /\ k \in 0..n
    OBVIOUS
  <2>2. P[k + 1] = P[k] + s[k + 1] /\ Q[k + 1] = Q[k] + t[k + 1]
    <3>1. P[k + 1] = P[k] + s[k + 1]
      BY <1>1, <2>1
    <3>2. Q[k + 1] = Q[k] + t[k + 1]
      BY <1>2, <2>1
    <3> QED BY <3>1, <3>2
  <2>3. P[k] \in Int /\ Q[k] \in Int /\ P[k + 1] \in Int /\ Q[k + 1] \in Int
        /\ s[k + 1] \in Int /\ t[k + 1] \in Int /\ s[j] \in Int /\ t[j] \in Int
    BY <2>1
  <2>4. CASE k + 1 < j
    <3>1. P[k] = Q[k] /\ s[k + 1] = t[k + 1]
      BY <2>1, <2>4
    <3> QED BY <3>1, <2>1, <2>2, <2>4
  <2>5. CASE k + 1 = j
    <3>1. P[k] = Q[k]
      BY <2>1, <2>5
    <3>2. P[k + 1] - s[j] = Q[k + 1] - t[j]
      <4>1. P[k + 1] = P[k] + s[j] /\ Q[k + 1] = Q[k] + t[j]
        BY <2>2, <2>5
      <4>2. (P[k] + s[j]) - s[j] = (Q[k] + t[j]) - t[j]
        BY <3>1, <2>3, <1>0, SMTT(30)
      <4> QED BY <4>1, <4>2
    <3>3. ~ (k + 1 < j)
      BY <2>5
    <3> QED BY <3>2, <3>3, <2>1
  <2>6. CASE k + 1 > j
    <3>1. P[k] - s[j] = Q[k] - t[j] /\ s[k + 1] = t[k + 1]
      BY <2>1, <2>6
    <3>2. P[k + 1] - s[j] = Q[k + 1] - t[j]
      <4>1. PICK p \in Int : p = P[k]
        BY <2>3
      <4>2. PICK q \in Int : q = Q[k]
        BY <2>3
      <4>3. PICK x \in Int : x = s[k + 1]
        BY <2>3
      <4>4. PICK u \in Int : u = s[j]
        BY <2>3
      <4>5. PICK v \in Int : v = t[j]
        BY <2>3
      <4>6. p - u = q - v
        BY <3>1, <4>1, <4>2, <4>4, <4>5
      <4>7. (p + x) - u = (q + x) - v
        BY <4>6
      <4> QED BY <2>2, <3>1, <4>1, <4>2, <4>3, <4>4, <4>5, <4>7
    <3>3. ~ (k + 1 < j)
      BY <2>6
    <3> QED BY <3>2, <3>3, <2>1
  <2> QED BY <2>4, <2>5, <2>6
<1>5. n \in B
  <2>1. n \in 0..n
    OBVIOUS
  <2> HIDE DEF B
  <2> QED BY <1>3, <1>4, <2>1, Induction
<1> QED BY <1>1, <1>2, <1>5

\* The orders in which n elements may come.
Arrangements(n) == Bijection(1..n, 1..n)

\* An arrangement of n places is a bijection of 1..n.
LEMMA ArrangementDef ==
    ASSUME NEW n, NEW p
    PROVE  p \in Arrangements(n) <=>
              /\ p \in [1..n -> 1..n]
              /\ \A i, j \in 1..n : p[i] = p[j] => i = j
              /\ \A k \in 1..n : \E i \in 1..n : p[i] = k
  BY DEF Arrangements, Bijection, Injection, Surjection, IsInjective

\* The order of the amounts does not matter for their sum.
LEMMA TotalArranged ==
    ASSUME NEW n \in Nat, NEW s \in [1..n -> Int], NEW p \in Arrangements(n)
    PROVE  Total([i \in 1..n |-> s[p[i]]]) = Total(s)
<1> DEFINE Same(m) == \A r \in [1..m -> Int], q \in Arrangements(m) :
                         Total([i \in 1..m |-> r[q[i]]]) = Total(r)
           B == {m \in 0..n : Same(m)}
<1>1. Same(0)
  <2> SUFFICES ASSUME NEW r \in [1..0 -> Int], NEW q \in Arrangements(0)
               PROVE  Total([i \in 1..0 |-> r[q[i]]]) = Total(r)
    OBVIOUS
  <2>1. [i \in 1..0 |-> r[q[i]]] = r
    OBVIOUS
  <2> QED BY <2>1
<1>2. ASSUME NEW m \in 0..(n - 1), Same(m) PROVE Same(m + 1)
  <2> SUFFICES ASSUME NEW r \in [1..(m + 1) -> Int], NEW q \in Arrangements(m + 1)
               PROVE  Total([i \in 1..(m + 1) |-> r[q[i]]]) = Total(r)
    OBVIOUS
  <2> DEFINE w  == [i \in 1..(m + 1) |-> r[q[i]]]
             r0 == [i \in 1..m |-> r[i]]
             w0 == [i \in 1..m |-> w[i]]
  <2> SUFFICES Total(w) = Total(r)
    OBVIOUS
  <2>0. m \in Nat
    OBVIOUS
  <2>1. /\ q \in [1..(m + 1) -> 1..(m + 1)]
        /\ \A i, j \in 1..(m + 1) : q[i] = q[j] => i = j
        /\ \A k \in 1..(m + 1) : \E i \in 1..(m + 1) : q[i] = k
    BY ArrangementDef
  <2>2. w \in [1..(m + 1) -> Int]
    BY <2>1
  <2>3. r0 \in [1..m -> Int] /\ Total(r) = Total(r0) + r[m + 1]
    BY <2>0, TotalStep
  <2>4. w0 \in [1..m -> Int] /\ Total(w) = Total(w0) + w[m + 1]
    <3> HIDE DEF w
    <3> QED BY <2>0, <2>2, TotalStep
  <2>5. m + 1 \in 1..(m + 1)
    BY <2>0
  <2>6. PICK j \in 1..(m + 1) : q[j] = m + 1
    BY <2>1, <2>5
  <2> DEFINE q0 == [i \in 1..m |-> IF i = j THEN q[m + 1] ELSE q[i]]
             v0 == [i \in 1..m |-> r0[q0[i]]]
  <2>7. q0 \in Arrangements(m)
    <3>1. \A i \in 1..m : i \in 1..(m + 1) /\ i # m + 1
      BY <2>0
    <3>2. \A k \in 1..(m + 1) : k # m + 1 => k \in 1..m
      BY <2>0
    <3>3. q0 \in [1..m -> 1..m]
      <4> SUFFICES ASSUME NEW i \in 1..m
                   PROVE  (IF i = j THEN q[m + 1] ELSE q[i]) \in 1..m
        OBVIOUS
      <4>1. CASE i = j
        <5>1. q[m + 1] # m + 1
          BY <2>1, <2>5, <2>6, <3>1, <4>1
        <5> QED BY <2>1, <2>5, <3>2, <4>1, <5>1
      <4>2. CASE i # j
        <5>1. q[i] # m + 1
          BY <2>1, <2>6, <3>1, <4>2
        <5> QED BY <2>1, <3>1, <3>2, <4>2, <5>1
      <4> QED BY <4>1, <4>2
    <3>4. \A i, k \in 1..m : q0[i] = q0[k] => i = k
      BY <2>1, <2>5, <3>1
    <3>5. ASSUME NEW k \in 1..m PROVE \E i \in 1..m : q0[i] = k
      <4>1. PICK i \in 1..(m + 1) : q[i] = k
        BY <2>1, <3>1
      <4>2. i # j
        BY <2>6, <3>1, <4>1
      <4>3. CASE i = m + 1
        <5>1. j \in 1..m
          BY <3>2, <4>2, <4>3
        <5>2. q0[j] = k
          BY <4>1, <4>3, <5>1
        <5> QED BY <5>1, <5>2
      <4>4. CASE i # m + 1
        <5>1. i \in 1..m
          BY <3>2, <4>4
        <5>2. q0[i] = k
          BY <4>1, <4>2, <5>1
        <5> QED BY <5>1, <5>2
      <4> QED BY <4>3, <4>4
    <3> HIDE DEF q0
    <3> QED BY <3>3, <3>4, <3>5, ArrangementDef
  <2>8. Total(v0) = Total(r0)
    <3> HIDE DEF q0, r0
    <3> QED BY <1>2, <2>3, <2>7
  <2>9. v0 \in [1..m -> Int]
    <3>1. q0 \in [1..m -> 1..m]
      <4> HIDE DEF q0
      <4> QED BY <2>7, ArrangementDef
    <3> HIDE DEF q0, r0
    <3> QED BY <2>3, <3>1
  <2>10. \A i \in 1..m : i \in 1..(m + 1) /\ i # m + 1
    BY <2>0
  <2>11. \A i \in 1..m : i # j => w0[i] = v0[i]
    <3> TAKE i \in 1..m
    <3> HAVE i # j
    <3>1. q[i] \in 1..m
      <4>1. q0 \in [1..m -> 1..m] /\ q0[i] = q[i]
        <5>1. q0[i] = q[i]
          OBVIOUS
        <5> HIDE DEF q0
        <5> QED BY <5>1, <2>7, ArrangementDef
      <4> HIDE DEF q0
      <4> QED BY <4>1
    <3>2. w0[i] = r[q[i]] /\ v0[i] = r[q[i]]
      BY <2>10, <3>1
    <3> QED BY <3>2
  <2>12. CASE j = m + 1
    <3>1. \A i \in 1..m : w0[i] = v0[i]
      BY <2>10, <2>11, <2>12
    <3>2. w0 = v0
      <4> HIDE DEF w, q0
      <4> QED BY <3>1
    <3>3. w[m + 1] = r[m + 1]
      BY <2>5, <2>6, <2>12
    <3> HIDE DEF w, w0, v0, r0
    <3> QED BY <2>3, <2>4, <2>8, <3>2, <3>3
  <2>13. CASE j # m + 1
    <3>1. j \in 1..m
      BY <2>0, <2>13
    <3>2. w0[j] = r[m + 1]
      BY <2>6, <2>10, <3>1
    <3>3. v0[j] = w[m + 1]
      <4>1. q0[j] = q[m + 1]
        BY <3>1
      <4>2. q[m + 1] \in 1..m
        <5>1. q0 \in [1..m -> 1..m]
          <6> HIDE DEF q0
          <6> QED BY <2>7, ArrangementDef
        <5> HIDE DEF q0
        <5> QED BY <3>1, <4>1, <5>1
      <4>3. r0[q[m + 1]] = r[q[m + 1]] /\ w[m + 1] = r[q[m + 1]]
        BY <2>5, <4>2
      <4> QED BY <3>1, <4>1, <4>3
    <3>4. Total(w0) - w0[j] = Total(v0) - v0[j]
      <4> HIDE DEF w0, v0
      <4> QED BY <2>0, <2>4, <2>9, <2>11, <3>1, TotalUpdate
    <3>5. Total(w0) - r[m + 1] = Total(r0) - w[m + 1]
      <4> HIDE DEF w, w0, v0, r0
      <4> QED BY <2>8, <3>2, <3>3, <3>4
    <3>6. PICK a \in Int : a = Total(w0)
      <4> HIDE DEF w0
      <4> QED BY <2>4, <2>0, TotalInt
    <3>7. PICK b \in Int : b = Total(r0)
      <4> HIDE DEF r0
      <4> QED BY <2>3, <2>0, TotalInt
    <3>8. PICK x \in Int : x = r[m + 1]
      BY <2>5
    <3>9. PICK y \in Int : y = w[m + 1]
      <4> HIDE DEF w
      <4> QED BY <2>2, <2>5
    <3> HIDE DEF w, w0, v0, r0
    <3>10. a - x = b - y
      BY <3>5, <3>6, <3>7, <3>8, <3>9
    <3>11. a + y = b + x
      BY <3>10
    <3> QED BY <2>3, <2>4, <3>6, <3>7, <3>8, <3>9, <3>11
  <2> QED BY <2>12, <2>13
<1>3. Same(n)
  <2>1. 0 \in B
    <3> HIDE DEF Same
    <3> QED BY <1>1
  <2>2. \A m \in 0..(n - 1) : m \in B => m + 1 \in B
    <3> HIDE DEF Same
    <3> QED BY <1>2
  <2>3. n \in 0..n
    OBVIOUS
  <2>4. n \in B
    <3> HIDE DEF B
    <3> QED BY <2>1, <2>2, <2>3, Induction
  <2> HIDE DEF Same
  <2> QED BY <2>4
<1> QED BY <1>3

\* The permutation p puts the first n keys in a stable order.
InOrder(keys, n, p) == \A i, j \in 1..n : i < j => Precedes(keys, p[i], p[j])

\* Every list of keys can be sorted, so that Sorting finds a permutation.
LEMMA SortingExists ==
    ASSUME NEW n \in Nat, NEW keys \in [1..n -> Int]
    PROVE  \E p \in Arrangements(n) : InOrder(keys, n, p)
<1> DEFINE Sortable(m) == \E p \in Arrangements(m) : InOrder(keys, m, p)
           B == {m \in 0..n : Sortable(m)}
<1>1. Sortable(0)
  <2>1. <<>> \in Arrangements(0)
    <3>1. <<>> \in [1..0 -> 1..0] /\ \A i \in 1..0 : FALSE
      OBVIOUS
    <3> QED BY <3>1, ArrangementDef
  <2>2. InOrder(keys, 0, <<>>)
    BY DEF InOrder
  <2> QED BY <2>1, <2>2
<1>2. ASSUME NEW m \in 0..(n - 1), Sortable(m) PROVE Sortable(m + 1)
  <2>0. m \in Nat /\ m + 1 \in 1..n
    OBVIOUS
  <2>1. PICK p \in Arrangements(m) : InOrder(keys, m, p)
    BY <1>2
  <2>2. /\ p \in [1..m -> 1..m]
        /\ \A i, j \in 1..m : p[i] = p[j] => i = j
        /\ \A k \in 1..m : \E i \in 1..m : p[i] = k
    BY ArrangementDef
  <2>3. \A i \in 1..m : p[i] \in 1..m /\ p[i] \in 1..n /\ keys[p[i]] \in Int
    <3>1. \A k \in 1..m : k \in 1..n
      BY <2>0
    <3> QED BY <2>2, <3>1
  <2> DEFINE Over == {c \in 1..(m + 1) : c = m + 1 \/ keys[p[c]] > keys[m + 1]}
  <2>4. PICK c \in Over : \A d \in Over : c <= d
    <3>1. m + 1 \in Over
      BY <2>0
    <3>2. Over \subseteq Nat
      BY <2>0
    <3> HIDE DEF Over
    <3> QED BY <3>1, <3>2, LeastNumber
  <2>5. c \in 1..(m + 1) /\ c \in Nat
    BY <2>0
  <2>6. \A i \in 1..m : i < c => keys[p[i]] <= keys[m + 1]
    <3> TAKE i \in 1..m
    <3> HAVE i < c
    <3>1. i \in 1..(m + 1) /\ i # m + 1 /\ ~(c <= i)
      BY <2>0, <2>5
    <3>2. ~(keys[p[i]] > keys[m + 1])
      BY <2>4, <3>1
    <3> QED BY <2>0, <2>3, <3>2
  <2> DEFINE q == [i \in 1..(m + 1) |->
                      IF i < c THEN p[i] ELSE IF i = c THEN m + 1 ELSE p[i - 1]]
  <2>7. ASSUME NEW i \in 1..(m + 1)
        PROVE  /\ i < c => i \in 1..m /\ q[i] = p[i]
               /\ i = c => q[i] = m + 1
               /\ i > c => i - 1 \in 1..m /\ q[i] = p[i - 1]
    BY <2>0, <2>5
  <2>8. q \in Arrangements(m + 1)
    <3>1. m + 1 \in 1..(m + 1) /\ m + 1 \notin 1..m /\ \A k \in 1..m : k \in 1..(m + 1)
      BY <2>0
    <3>2. q \in [1..(m + 1) -> 1..(m + 1)]
      <4>1. \A i \in 1..(m + 1) : i < c \/ i = c \/ i > c
        BY <2>0, <2>5
      <4>2. \A i \in 1..(m + 1) : q[i] \in 1..(m + 1)
        <5> HIDE DEF q
        <5> QED BY <2>3, <2>7, <3>1, <4>1
      <4> QED BY <4>2
    <3>3. \A i, j \in 1..(m + 1) : q[i] = q[j] => i = j
      <4> HIDE DEF q
      <4> SUFFICES ASSUME NEW i \in 1..(m + 1), NEW j \in 1..(m + 1), q[i] = q[j]
                   PROVE  i = j
        OBVIOUS
      <4>1. CASE i < c
        <5>1. i \in 1..m /\ q[i] = p[i] /\ q[i] # m + 1
          BY <2>3, <2>7, <3>1, <4>1
        <5>2. CASE j < c
          <6>1. j \in 1..m /\ q[j] = p[j]
            BY <2>7, <5>2
          <6>2. p[i] = p[j]
            BY <5>1, <6>1
          <6> QED BY <2>2, <5>1, <6>1, <6>2
        <5>3. CASE j = c
          BY <2>7, <5>1, <5>3
        <5>4. CASE j > c
          <6>1. j - 1 \in 1..m /\ q[j] = p[j - 1]
            BY <2>7, <5>4
          <6>2. p[i] = p[j - 1]
            BY <5>1, <6>1
          <6>3. i = j - 1
            BY <2>2, <5>1, <6>1, <6>2
          <6> QED BY <6>3, <4>1, <5>4, <2>5, <2>0
        <5> QED BY <5>2, <5>3, <5>4, <2>5, <2>0
      <4>2. CASE i = c
        <5>1. q[j] = m + 1
          BY <2>7, <4>2
        <5>2. ~(j < c)
          BY <2>3, <2>7, <3>1, <5>1
        <5>3. ~(j > c)
          <6> SUFFICES ASSUME j > c PROVE FALSE
            OBVIOUS
          <6>1. j - 1 \in 1..m /\ q[j] = p[j - 1]
            BY <2>7
          <6> QED BY <2>3, <3>1, <5>1, <6>1
        <5> QED BY <5>2, <5>3, <4>2, <2>5, <2>0
      <4>3. CASE i > c
        <5>0. i - 1 \in 1..m /\ q[i] = p[i - 1]
          BY <2>7, <4>3
        <5>1. i - 1 \in 1..m /\ q[i] = p[i - 1] /\ q[i] # m + 1
          BY <2>3, <3>1, <5>0
        <5>2. CASE j < c
          <6>1. j \in 1..m /\ q[j] = p[j]
            BY <2>7, <5>2
          <6>2. p[i - 1] = p[j]
            BY <5>1, <6>1
          <6>3. i - 1 = j
            BY <2>2, <5>1, <6>1, <6>2
          <6> QED BY <6>3, <4>3, <5>2, <2>5, <2>0
        <5>3. CASE j = c
          BY <2>7, <5>1, <5>3
        <5>4. CASE j > c
          <6>1. j - 1 \in 1..m /\ q[j] = p[j - 1]
            BY <2>7, <5>4
          <6>2. p[i - 1] = p[j - 1]
            BY <5>1, <6>1
          <6>3. i - 1 = j - 1
            BY <2>2, <5>1, <6>1, <6>2
          <6> QED BY <6>3, <2>0
        <5> QED BY <5>2, <5>3, <5>4, <2>5, <2>0
      <4> QED BY <4>1, <4>2, <4>3, <2>5, <2>0
    <3>4. ASSUME NEW k \in 1..(m + 1) PROVE \E i \in 1..(m + 1) : q[i] = k
      <4>1. CASE k = m + 1
        BY <2>5, <2>7, <4>1
      <4>2. CASE k # m + 1
        <5>1. k \in 1..m
          BY <2>0, <4>2
        <5>2. PICK i \in 1..m : p[i] = k
          BY <2>2, <5>1
        <5>3. CASE i < c
          <6>1. i \in 1..(m + 1) /\ q[i] = k
            BY <2>7, <3>1, <5>2, <5>3
          <6> QED BY <6>1
        <5>4. CASE ~(i < c)
          <6>1. i + 1 \in 1..(m + 1) /\ i + 1 > c /\ i + 1 - 1 = i
            BY <2>0, <2>5, <5>4
          <6>2. q[i + 1] = p[i]
            BY <2>7, <6>1
          <6> QED BY <5>2, <6>1, <6>2
        <5> QED BY <5>3, <5>4
      <4> QED BY <4>1, <4>2
    <3> HIDE DEF q
    <3>5. m + 1 \in Nat
      BY <2>0
    <3> QED BY <3>2, <3>3, <3>4, ArrangementDef
  <2>9. InOrder(keys, m + 1, q)
    <3> HIDE DEF q
    <3> SUFFICES ASSUME NEW i \in 1..(m + 1), NEW j \in 1..(m + 1), i < j
                 PROVE  Precedes(keys, q[i], q[j])
      BY DEF InOrder
    <3>1. \A a, b \in 1..m : a < b => Precedes(keys, p[a], p[b])
      BY <2>1 DEF InOrder
    <3>2. CASE j < c
      <4>1. /\ i \in 1..m /\ j \in 1..m
            /\ q[i] = p[i] /\ q[j] = p[j]
        BY <2>7, <3>2, <2>5, <2>0
      <4> QED BY <3>1, <4>1
    <3>3. CASE j = c
      <4>1. i \in 1..m /\ q[i] = p[i] /\ q[j] = m + 1 /\ i < c
        BY <2>7, <3>3
      <4>2. keys[p[i]] <= keys[m + 1] /\ p[i] < m + 1
        BY <2>3, <2>6, <4>1, <2>0
      <4>3. keys[p[i]] \in Int /\ keys[m + 1] \in Int
        BY <2>0, <2>3, <4>1
      <4>4. keys[p[i]] < keys[m + 1] \/ keys[p[i]] = keys[m + 1]
        BY <4>2, <4>3
      <4> QED BY <4>1, <4>2, <4>4 DEF Precedes
    <3>4. CASE j > c
      <4>1. j - 1 \in 1..m /\ q[j] = p[j - 1]
        BY <2>7, <3>4
      <4>2. CASE i < c
        <5>1. i \in 1..m /\ q[i] = p[i] /\ i < j - 1
          BY <2>7, <4>2, <3>4, <2>5, <2>0
        <5> QED BY <3>1, <4>1, <5>1
      <4>3. CASE i = c
        <5>1. c \in 1..m /\ q[i] = m + 1
          <6>1. c < m + 1
            BY <2>5, <2>0, <3>4
          <6> QED BY <2>5, <2>0, <6>1, <2>7, <4>3
        <5>2. keys[p[c]] > keys[m + 1]
          <6>1. c # m + 1
            BY <5>1, <2>0
          <6> QED BY <2>4, <6>1
        <5>3. c = j - 1 \/ c < j - 1
          BY <2>5, <2>0, <3>4
        <5>4. c = j - 1 \/ Precedes(keys, p[c], p[j - 1])
          BY <3>1, <4>1, <5>1, <5>3
        <5>5. keys[p[c]] \in Int /\ keys[p[j - 1]] \in Int /\ keys[m + 1] \in Int
          BY <2>0, <2>3, <4>1, <5>1
        <5>6. keys[p[c]] <= keys[p[j - 1]]
          BY <5>4, <5>5, SMTT(30) DEF Precedes
        <5>7. keys[m + 1] < keys[p[j - 1]]
          BY <5>2, <5>5, <5>6
        <5> QED BY <4>1, <5>1, <5>7 DEF Precedes
      <4>4. CASE i > c
        <5>1. i - 1 \in 1..m /\ q[i] = p[i - 1]
          BY <2>7, <4>4
        <5>2. i - 1 < j - 1
          BY <2>0
        <5> QED BY <3>1, <4>1, <5>1, <5>2
      <4> QED BY <4>2, <4>3, <4>4, <2>5, <2>0
    <3> QED BY <3>2, <3>3, <3>4, <2>5, <2>0
  <2> HIDE DEF q
  <2> QED BY <2>8, <2>9
<1>3. Sortable(n)
  <2> HIDE DEF Sortable
  <2>1. 0 \in B
    BY <1>1
  <2>2. \A m \in 0..(n - 1) : m \in B => m + 1 \in B
    BY <1>2
  <2>3. n \in 0..n
    OBVIOUS
  <2>4. n \in B
    <3> HIDE DEF B
    <3> QED BY <2>1, <2>2, <2>3, Induction
  <2> QED BY <2>4
<1> QED BY <1>3

\* SortBy rearranges a list in the order of its keys.
LEMMA SortByArranges ==
    ASSUME NEW n \in Nat, NEW keys \in [1..n -> Int], NEW list, DOMAIN list = 1..n
    PROVE  \E p \in Arrangements(n) :
              /\ SortBy(list, keys) = [i \in 1..n |-> list[p[i]]]
              /\ InOrder(keys, n, p)
<1>1. DOMAIN keys = 1..n
  OBVIOUS
<1>2. \E p \in Bijection(1..n, 1..n) :
         \A i, j \in 1..n : i < j => Precedes(keys, p[i], p[j])
  BY SortingExists DEF Arrangements, InOrder
<1>3. Sorting(keys) \in Arrangements(n) /\ InOrder(keys, n, Sorting(keys))
  <2>1. Sorting(keys) = CHOOSE p \in Bijection(1..n, 1..n) :
           \A i, j \in 1..n : i < j => Precedes(keys, p[i], p[j])
    BY <1>1 DEF Sorting
  <2> QED BY <1>2, <2>1 DEF Arrangements, InOrder
<1> QED BY <1>3 DEF SortBy

\* F[k] is what Filter keeps of the first k elements.
FiltersPrefixes(F, T, list, keep) ==
    /\ F \in [0..Len(list) -> Seq(T)]
    /\ F[0] = <<>>
    /\ \A k \in 1..Len(list) : F[k] = IF list[k] \in keep
                                      THEN Append(F[k - 1], list[k]) ELSE F[k - 1]
    /\ F[Len(list)] = Filter(list, keep)

\* Filter goes through the list from its front.
LEMMA FilterPrefix ==
    ASSUME NEW T, NEW list \in Seq(T), NEW keep
    PROVE  \E F : FiltersPrefixes(F, T, list, keep)
<1> DEFINE n == Len(list)
<1> n \in Nat
  OBVIOUS
<1> HIDE DEF n
<1> DEFINE Step == [q \in (1..n) \X Seq(T) |->
                        IF list[q[1]] \in keep THEN Append(q[2], list[q[1]]) ELSE q[2]]
           Solves(iter) == iter = [t \in SUBSET (1..n) |->
                               IF t = {} THEN <<>>
                               ELSE IF list[Max(t)] \in keep
                                    THEN Append(iter[t \ {Max(t)}], list[Max(t)])
                                    ELSE iter[t \ {Max(t)}]]
           Solution == CHOOSE iter : Solves(iter)
<1>0. DOMAIN list = 1..n /\ \A i \in 1..n : list[i] \in T
  BY DEF n
<1>1. Filter(list, keep) = Solution[1..n]
  BY <1>0 DEF Filter, FoldLeft, MapThenFoldSet
<1>2. Step \in [(1..n) \X Seq(T) -> Seq(T)]
  <2> SUFFICES ASSUME NEW q \in (1..n) \X Seq(T)
               PROVE  (IF list[q[1]] \in keep THEN Append(q[2], list[q[1]]) ELSE q[2]) \in Seq(T)
    OBVIOUS
  <2>1. q[1] \in 1..n /\ q[2] \in Seq(T) /\ list[q[1]] \in T
    BY <1>0
  <2>2. Append(q[2], list[q[1]]) \in Seq(T)
    BY <2>1
  <2> QED BY <2>1, <2>2
<1>3. PICK G : IsFold(G, n, Seq(T), <<>>, Step)
  <2> HIDE DEF Step
  <2>1. <<>> \in Seq(T)
    OBVIOUS
  <2> QED BY <1>2, <2>1, FoldExists
<1>4. Solves(G)
  <2>1. ASSUME NEW t \in SUBSET (1..n), t # {}
        PROVE  G[t] = IF list[Max(t)] \in keep
                      THEN Append(G[t \ {Max(t)}], list[Max(t)])
                      ELSE G[t \ {Max(t)}]
    <3>1. Max(t) \in 1..n
      BY <2>1, MaxOfInterval
    <3>2. G[t \ {Max(t)}] \in Seq(T)
      BY <1>3 DEF IsFold
    <3>3. <<Max(t), G[t \ {Max(t)}]>> \in (1..n) \X Seq(T)
      BY <3>1, <3>2
    <3>4. G[t] = Step[<<Max(t), G[t \ {Max(t)}]>>]
      BY <2>1, <1>3 DEF IsFold
    <3> QED BY <3>3, <3>4
  <2> QED BY <2>1, <1>3 DEF IsFold
<1>5. Solves(Solution)
  <2> HIDE DEF Solves
  <2> QED BY <1>4
<1>6. Solution[{}] = <<>>
  <2> HIDE DEF Solution
  <2> QED BY <1>5
<1>7. ASSUME NEW k \in 1..n
      PROVE  Solution[1..k] = IF list[k] \in keep
                              THEN Append(Solution[1..(k - 1)], list[k])
                              ELSE Solution[1..(k - 1)]
  <2> HIDE DEF Solution
  <2>1. /\ 1..k \in SUBSET (1..n) /\ 1..k # {}
        /\ Max(1..k) = k
        /\ (1..k) \ {k} = 1..(k - 1)
    BY Interval
  <2>2. Solution[1..k] = IF list[Max(1..k)] \in keep
                         THEN Append(Solution[(1..k) \ {Max(1..k)}], list[Max(1..k)])
                         ELSE Solution[(1..k) \ {Max(1..k)}]
    BY <1>5, <2>1
  <2> QED BY <2>1, <2>2
<1> DEFINE F == [k \in 0..n |-> Solution[1..k]]
<1> HIDE DEF Solution
<1>8. /\ F[0] = <<>>
      /\ F[n] = Filter(list, keep)
      /\ \A k \in 1..n : F[k] = IF list[k] \in keep
                                THEN Append(F[k - 1], list[k]) ELSE F[k - 1]
  <2>1. 1..0 = {} /\ 0 \in 0..n /\ n \in 0..n
    OBVIOUS
  <2>2. \A k \in 1..n : k \in 0..n /\ k - 1 \in 0..n
    OBVIOUS
  <2> QED BY <1>1, <1>6, <1>7, <2>1, <2>2
<1>9. \A k \in 0..n : F[k] \in Seq(T)
  <2> DEFINE B == {k \in 0..n : F[k] \in Seq(T)}
  <2> HIDE DEF F
  <2>1. 0 \in B
    <3>1. 0 \in 0..n /\ <<>> \in Seq(T)
      OBVIOUS
    <3> QED BY <1>8, <3>1
  <2>2. \A k \in 0..(n - 1) : k \in B => k + 1 \in B
    <3> TAKE k \in 0..(n - 1)
    <3> HAVE k \in B
    <3>1. k + 1 \in 1..n /\ k + 1 - 1 = k /\ k + 1 \in 0..n
      OBVIOUS
    <3>2. F[k + 1] = IF list[k + 1] \in keep THEN Append(F[k], list[k + 1]) ELSE F[k]
      BY <1>8, <3>1
    <3>3. F[k] \in Seq(T) /\ list[k + 1] \in T
      BY <1>0, <3>1
    <3>4. Append(F[k], list[k + 1]) \in Seq(T)
      BY <3>3
    <3>5. F[k + 1] \in Seq(T)
      BY <3>2, <3>3, <3>4
    <3> QED BY <3>1, <3>5
  <2> HIDE DEF B
  <2>3. \A k \in 0..n : k \in B
    BY <2>1, <2>2, Induction
  <2> QED BY <2>3 DEF B
<1>10. F \in [0..n -> Seq(T)]
  BY <1>9
<1> QED BY <1>8, <1>10 DEF FiltersPrefixes, n

\* e embeds sub in list: sub has those of the first n elements that are in keep,
\* in their order.
Selects(e, sub, list, keep, n) ==
    /\ e \in [1..Len(sub) -> 1..n]
    /\ \A i, j \in 1..Len(sub) : i < j => e[i] < e[j]
    /\ \A i \in 1..Len(sub) : sub[i] = list[e[i]] /\ sub[i] \in keep
    /\ \A k \in 1..n : list[k] \in keep => \E i \in 1..Len(sub) : e[i] = k

\* Filter keeps the elements of the set, all of them, in their order.
LEMMA FilterSelects ==
    ASSUME NEW T, NEW list \in Seq(T), NEW keep
    PROVE  /\ Filter(list, keep) \in Seq(T)
           /\ \E e : Selects(e, Filter(list, keep), list, keep, Len(list))
<1> DEFINE n == Len(list)
<1>0. n \in Nat /\ n = Len(list)
  OBVIOUS
<1>a. PICK F : FiltersPrefixes(F, T, list, keep)
  BY FilterPrefix
<1>1. /\ F \in [0..n -> Seq(T)]
      /\ F[0] = <<>>
      /\ \A k \in 1..n : F[k] = IF list[k] \in keep
                                THEN Append(F[k - 1], list[k]) ELSE F[k - 1]
      /\ F[n] = Filter(list, keep)
  BY <1>a DEF FiltersPrefixes
<1> HIDE DEF n
<1> DEFINE B == {k \in 0..n : \E e : Selects(e, F[k], list, keep, k)}
<1>2. 0 \in B
  <2>1. Selects(<<>>, F[0], list, keep, 0)
    BY <1>1 DEF Selects
  <2> QED BY <2>1, <1>0
<1>3. ASSUME NEW k \in 0..(n - 1), k \in B PROVE k + 1 \in B
  <2>0. /\ k \in Nat /\ k + 1 \in 1..n /\ k + 1 - 1 = k /\ k \in 0..n /\ k + 1 \in 0..n
        /\ \A i \in 1..k : i \in 1..(k + 1)
        /\ \A i \in 1..(k + 1) : i = k + 1 \/ i \in 1..k
    BY <1>0
  <2>1. PICK e : Selects(e, F[k], list, keep, k)
    BY <1>3
  <2>2. F[k + 1] = IF list[k + 1] \in keep THEN Append(F[k], list[k + 1]) ELSE F[k]
    BY <1>1, <2>0
  <2>3. F[k] \in Seq(T)
    BY <1>1, <2>0
  <2> DEFINE l == Len(F[k])
  <2>4. l \in Nat
    BY <2>3
  <2>5. CASE list[k + 1] \notin keep
    <3>1. Selects(e, F[k + 1], list, keep, k + 1)
      BY <2>0, <2>1, <2>2, <2>5 DEF Selects
    <3> QED BY <3>1, <2>0
  <2>6. CASE list[k + 1] \in keep
    <3>1. list[k + 1] \in T
      BY <2>0 DEF n
    <3>2. /\ Len(F[k + 1]) = l + 1
          /\ F[k + 1][l + 1] = list[k + 1]
          /\ \A i \in 1..l : F[k + 1][i] = F[k][i]
      BY <2>2, <2>3, <2>6, <3>1
    <3> DEFINE d == [i \in 1..(l + 1) |-> IF i = l + 1 THEN k + 1 ELSE e[i]]
    <3>3. /\ e \in [1..l -> 1..k]
          /\ \A i, j \in 1..l : i < j => e[i] < e[j]
          /\ \A i \in 1..l : F[k][i] = list[e[i]] /\ F[k][i] \in keep
          /\ \A j \in 1..k : list[j] \in keep => \E i \in 1..l : e[i] = j
      BY <2>1 DEF Selects
    <3> HIDE DEF l
    <3>4. /\ \A i \in 1..(l + 1) : i = l + 1 \/ i \in 1..l
          /\ \A i \in 1..l : i \in 1..(l + 1) /\ i # l + 1
          /\ l + 1 \in 1..(l + 1)
      BY <2>4
    <3>5. d[l + 1] = k + 1 /\ \A i \in 1..l : d[i] = e[i] /\ d[i] \in 1..k
      BY <3>3, <3>4
    <3>6. d \in [1..(l + 1) -> 1..(k + 1)]
      <4>1. \A i \in 1..(l + 1) : d[i] \in 1..(k + 1)
        <5> HIDE DEF d
        <5> QED BY <2>0, <3>4, <3>5
      <4> QED BY <4>1
    <3>7. ASSUME NEW i \in 1..(l + 1), NEW j \in 1..(l + 1), i < j PROVE d[i] < d[j]
      <4> HIDE DEF d
      <4>1. i \in 1..l
        BY <2>4, <3>7
      <4>2. CASE j = l + 1
        BY <2>0, <3>5, <4>1, <4>2
      <4>3. CASE j \in 1..l
        BY <3>3, <3>5, <3>7, <4>1, <4>3
      <4> QED BY <3>4, <4>2, <4>3
    <3>8. \A i \in 1..(l + 1) : F[k + 1][i] = list[d[i]] /\ F[k + 1][i] \in keep
      <4> HIDE DEF d
      <4> QED BY <2>6, <3>2, <3>3, <3>4, <3>5
    <3>9. ASSUME NEW j \in 1..(k + 1), list[j] \in keep PROVE \E i \in 1..(l + 1) : d[i] = j
      <4> HIDE DEF d
      <4> QED BY <2>0, <3>3, <3>4, <3>5, <3>9
    <3>10. Selects(d, F[k + 1], list, keep, k + 1)
      <4> HIDE DEF d
      <4> QED BY <3>2, <3>6, <3>7, <3>8, <3>9 DEF Selects
    <3> QED BY <3>10, <2>0
  <2> QED BY <2>5, <2>6
<1>4. n \in 0..n
  BY <1>0
<1>5. n \in B
  <2> HIDE DEF B
  <2> QED BY <1>0, <1>2, <1>3, <1>4, Induction
<1> QED BY <1>1, <1>4, <1>5 DEF n

\* One amount more adds to the sum.
LEMMA TotalAppend ==
    ASSUME NEW s \in Seq(Int), NEW x \in Int
    PROVE  Total(Append(s, x)) = Total(s) + x
<1> DEFINE n == Len(s)
           t == Append(s, x)
<1>1. n \in Nat /\ s \in [1..n -> Int]
  OBVIOUS
<1>2. t \in [1..(n + 1) -> Int] /\ t[n + 1] = x /\ \A i \in 1..n : t[i] = s[i]
  <2>1. t \in Seq(Int) /\ Len(t) = n + 1
    OBVIOUS
  <2>2. t \in [1..(n + 1) -> Int]
    <3> HIDE DEF t, n
    <3> QED BY <1>1, <2>1
  <2>3. t[n + 1] = x
    OBVIOUS
  <2>4. \A i \in 1..n : t[i] = s[i]
    OBVIOUS
  <2> QED BY <2>2, <2>3, <2>4
<1>3. [i \in 1..n |-> t[i]] = s
  <2> HIDE DEF t, n
  <2> QED BY <1>1, <1>2
<1> HIDE DEF n, t
<1>4. Total(t) = Total([i \in 1..n |-> t[i]]) + t[n + 1]
  BY <1>1, <1>2, TotalStep
<1> QED BY <1>2, <1>3, <1>4 DEF t

\* The weights of the elements of a list.
Weights(list, w) == [i \in DOMAIN list |-> w[list[i]]]

\* An element more adds its weight.
LEMMA WeightsAppend ==
    ASSUME NEW T, NEW w \in [T -> Int], NEW list \in Seq(T), NEW x \in T
    PROVE  /\ Total(Weights(list, w)) \in Int
           /\ Total(Weights(Append(list, x), w)) = Total(Weights(list, w)) + w[x]
<1> DEFINE n == Len(list)
           s == Weights(list, w)
           t == Weights(Append(list, x), w)
<1>1. n \in Nat /\ DOMAIN list = 1..n /\ \A i \in 1..n : list[i] \in T
  OBVIOUS
<1>2. s \in [1..n -> Int]
  BY <1>1 DEF Weights
<1>3. s \in Seq(Int) /\ Len(s) = n
  <2> HIDE DEF s, n
  <2> QED BY <1>1, <1>2
<1>4. /\ DOMAIN Append(list, x) = 1..(n + 1)
      /\ Append(list, x)[n + 1] = x
      /\ \A i \in 1..n : Append(list, x)[i] = list[i]
  OBVIOUS
<1>5. t = Append(s, w[x])
  <2> HIDE DEF n
  <2>1. DOMAIN t = 1..(n + 1) /\ t[n + 1] = w[x] /\ \A i \in 1..n : t[i] = s[i]
    <3>1. n + 1 \in 1..(n + 1) /\ \A i \in 1..n : i \in 1..(n + 1)
      BY <1>1
    <3> QED BY <1>1, <1>4, <3>1 DEF Weights
  <2>2. t = [i \in DOMAIN t |-> t[i]]
    BY DEF Weights
  <2> HIDE DEF s, t
  <2>3. Append(s, w[x]) = [i \in 1..(n + 1) |-> IF i = n + 1 THEN w[x] ELSE s[i]]
    BY <1>3
  <2>4. \A i \in 1..(n + 1) : i = n + 1 \/ i \in 1..n
    BY <1>1
  <2> QED BY <2>1, <2>2, <2>3, <2>4
<1> HIDE DEF s, t
<1>6. Total(s) \in Int
  BY <1>1, <1>2, TotalInt
<1>7. Total(t) = Total(s) + w[x]
  BY <1>3, <1>5, TotalAppend
<1> QED BY <1>6, <1>7 DEF s, t

\* What is kept and what is dropped weigh as much as the list.
LEMMA FilterSplits ==
    ASSUME NEW T, NEW w \in [T -> Int], NEW list \in Seq(T), NEW keep, NEW drop,
           \A i \in DOMAIN list : list[i] \in drop <=> list[i] \notin keep
    PROVE  Total(Weights(list, w)) =
               Total(Weights(Filter(list, keep), w)) + Total(Weights(Filter(list, drop), w))
<1> DEFINE n == Len(list)
           s == Weights(list, w)
           Sum(part) == Total(Weights(part, w))
<1>1. n \in Nat /\ DOMAIN list = 1..n /\ \A i \in 1..n : list[i] \in T
  OBVIOUS
<1>2. s \in [1..n -> Int] /\ \A i \in 1..n : s[i] = w[list[i]]
  BY <1>1 DEF Weights
<1>3. PICK F : FiltersPrefixes(F, T, list, keep)
  BY FilterPrefix
<1>4. PICK G : FiltersPrefixes(G, T, list, drop)
  BY FilterPrefix
<1> HIDE DEF s
<1>5. PICK P \in [0..n -> Int] :
          /\ P[0] = 0
          /\ \A k \in 1..n : P[k] = P[k - 1] + s[k]
          /\ P[n] = Total(s)
  BY <1>1, <1>2, TotalPrefix
<1>a. ASSUME NEW part \in Seq(T), NEW y \in T
      PROVE  Sum(part) \in Int /\ Sum(Append(part, y)) = Sum(part) + w[y]
  BY WeightsAppend
<1> DEFINE B == {k \in 0..n : P[k] = Sum(F[k]) + Sum(G[k])}
<1>6. 0 \in B
  <2>1. F[0] = <<>> /\ G[0] = <<>>
    BY <1>3, <1>4 DEF FiltersPrefixes
  <2>2. Weights(<<>>, w) = <<>>
    BY DEF Weights
  <2>3. Sum(<<>>) = 0
    BY <2>2, TotalEmpty
  <2>4. 0 \in 0..n
    BY <1>1
  <2> HIDE DEF Sum
  <2> QED BY <1>5, <2>1, <2>3, <2>4
<1>7. ASSUME NEW k \in 0..(n - 1), k \in B PROVE k + 1 \in B
  <2>1. k + 1 \in 1..n /\ k + 1 \in 0..n /\ k + 1 - 1 = k /\ k \in 0..n
    BY <1>1
  <2>2. /\ F[k] \in Seq(T)
        /\ F[k + 1] = IF list[k + 1] \in keep THEN Append(F[k], list[k + 1]) ELSE F[k]
    <3>1. /\ F \in [0..n -> Seq(T)]
          /\ \A j \in 1..n : F[j] = IF list[j] \in keep
                                    THEN Append(F[j - 1], list[j]) ELSE F[j - 1]
      BY <1>3 DEF FiltersPrefixes
    <3> HIDE DEF n
    <3> QED BY <3>1, <2>1
  <2>3. /\ G[k] \in Seq(T)
        /\ G[k + 1] = IF list[k + 1] \in drop THEN Append(G[k], list[k + 1]) ELSE G[k]
    <3>1. /\ G \in [0..n -> Seq(T)]
          /\ \A j \in 1..n : G[j] = IF list[j] \in drop
                                    THEN Append(G[j - 1], list[j]) ELSE G[j - 1]
      BY <1>4 DEF FiltersPrefixes
    <3> HIDE DEF n
    <3> QED BY <3>1, <2>1
  <2> DEFINE x == list[k + 1]
  <2>4. x \in T /\ w[x] \in Int /\ (x \in drop <=> x \notin keep)
    BY <1>1, <2>1
  <2>5. P[k + 1] = P[k] + w[x]
    BY <1>2, <1>5, <2>1
  <2>6. Sum(F[k]) \in Int /\ Sum(Append(F[k], x)) = Sum(F[k]) + w[x]
    <3>1. F[k] \in Seq(T)
      BY <2>2
    <3> HIDE DEF x, Sum
    <3> QED BY <3>1, <2>4, <1>a
  <2>7. Sum(G[k]) \in Int /\ Sum(Append(G[k], x)) = Sum(G[k]) + w[x]
    <3>1. G[k] \in Seq(T)
      BY <2>3
    <3> HIDE DEF x, Sum
    <3> QED BY <3>1, <2>4, <1>a
  <2>8. P[k] = Sum(F[k]) + Sum(G[k])
    BY <1>7
  <2>9. P[k + 1] = Sum(F[k + 1]) + Sum(G[k + 1])
    <3>a. F[k + 1] = IF x \in keep THEN Append(F[k], x) ELSE F[k]
      BY <2>2
    <3>b. G[k + 1] = IF x \in drop THEN Append(G[k], x) ELSE G[k]
      BY <2>3
    <3> HIDE DEF Sum, x
    <3>1. CASE x \in keep
      <4>1. F[k + 1] = Append(F[k], x) /\ G[k + 1] = G[k]
        BY <3>a, <3>b, <2>4, <3>1
      <4> QED BY <4>1, <2>4, <2>5, <2>6, <2>7, <2>8
    <3>2. CASE x \notin keep
      <4>1. F[k + 1] = F[k] /\ G[k + 1] = Append(G[k], x)
        BY <3>a, <3>b, <2>4, <3>2
      <4> QED BY <4>1, <2>4, <2>5, <2>6, <2>7, <2>8
    <3> QED BY <3>1, <3>2
  <2> QED BY <2>1, <2>9
<1>8. n \in B
  <2>1. n \in 0..n
    BY <1>1
  <2> HIDE DEF B
  <2> QED BY <1>1, <1>6, <1>7, <2>1, Induction
<1>9. F[n] = Filter(list, keep) /\ G[n] = Filter(list, drop)
  BY <1>3, <1>4 DEF FiltersPrefixes
<1> QED BY <1>5, <1>8, <1>9 DEF s

\* What sorting does to a list, by the permutation it applies.
LEMMA SortByList ==
    ASSUME NEW T, NEW list \in Seq(T), NEW keys \in [1..Len(list) -> Int]
    PROVE  /\ SortBy(list, keys) \in Seq(T)
           /\ Len(SortBy(list, keys)) = Len(list)
           /\ \E p \in Arrangements(Len(list)) :
                 /\ SortBy(list, keys) = [i \in 1..Len(list) |-> list[p[i]]]
                 /\ \A i, j \in 1..Len(list) :
                       i < j => keys[p[i]] <= keys[p[j]] /\ p[i] # p[j]
<1> DEFINE n == Len(list)
<1>1. n \in Nat /\ DOMAIN list = 1..n /\ \A i \in 1..n : list[i] \in T
  OBVIOUS
<1> HIDE DEF n
<1>2. PICK p \in Arrangements(n) :
         /\ SortBy(list, keys) = [i \in 1..n |-> list[p[i]]]
         /\ InOrder(keys, n, p)
  BY <1>1, SortByArranges DEF n
<1>3. p \in [1..n -> 1..n] /\ \A i, j \in 1..n : p[i] = p[j] => i = j
  BY ArrangementDef
<1>4. ASSUME NEW i \in 1..n, NEW j \in 1..n, i < j
      PROVE  keys[p[i]] <= keys[p[j]] /\ p[i] # p[j]
  <2>1. Precedes(keys, p[i], p[j])
    BY <1>2, <1>4 DEF InOrder
  <2>2. keys[p[i]] \in Int /\ keys[p[j]] \in Int
    BY <1>3 DEF n
  <2>3. p[i] # p[j]
    BY <1>1, <1>3, <1>4
  <2> QED BY <2>1, <2>2, <2>3 DEF Precedes
<1>5. SortBy(list, keys) \in Seq(T) /\ Len(SortBy(list, keys)) = n
  <2>1. \A i \in 1..n : list[p[i]] \in T
    BY <1>1, <1>3
  <2>2. SortBy(list, keys) \in [1..n -> T]
    BY <1>2, <2>1
  <2> QED BY <1>1, <2>2
<1> QED BY <1>2, <1>4, <1>5 DEF n
=============================================================================
