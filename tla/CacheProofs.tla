---------------------------- MODULE CacheProofs ----------------------------
(***************************************************************************)
(* Cache keeps its lists, their sizes and its hash table consistent,       *)
(* counts who uses a block, makes room when it is full and implements      *)
(* Lending, for any blocks, sizes and readers.                             *)
(***************************************************************************)
EXTENDS Cache, SequenceTheorems, FiniteSetTheorems, WellFoundedInduction, TLAPS

Mem == [list : [Lists -> Seq(Id)], bytes : [Lists -> Int],
        size : [Id -> Nat], hash : SUBSET Id]

(* The lists of m are disjoint and without repetition; the hash table      *)
(* knows what is on them and the blocks x, which have been taken off.      *)
Sound(m, x) ==
  /\ m \in Mem
  /\ x \subseteq Id
  /\ \A l \in Lists : IsInjective(m.list[l]) /\ x \cap On(m, l) = {}
  /\ \A l, k \in Lists : l # k => On(m, l) \cap On(m, k) = {}
  /\ m.hash = x \cup UNION {On(m, l) : l \in Lists}

(* From m to n, list l has lost block id and the others are as they were *)
Lost(m, n, l, id) ==
  \A k \in Lists : On(n, k) = IF k = l THEN On(m, k) \ {id} ELSE On(m, k)

InMemory(m) == On(m, "t1") \cup On(m, "t2")

(* From m to n, no block came into memory or became known, and none that   *)
(* is used left memory                                                     *)
Spares(m, n) ==
  /\ n.hash \subseteq m.hash
  /\ InMemory(n) \subseteq InMemory(m)
  /\ \A id \in InMemory(m) : usage[id] # 0 => id \in InMemory(n)

-----------------------------------------------------------------------------
(* Sequences *)

(* What is on a sequence, element by element *)
LEMMA OnSequence ==
  ASSUME NEW S, NEW s \in Seq(S)
  PROVE  \A e : e \in ToSet(s) <=> \E i \in 1..Len(s) : s[i] = e
BY DEF ToSet

LEMMA InjectiveSequence ==
  ASSUME NEW S, NEW s \in Seq(S)
  PROVE  IsInjective(s) <=> \A i, j \in 1..Len(s) : s[i] = s[j] => i = j
BY DEF IsInjective

(* Two sequences without common elements, one after the other *)
LEMMA Concatenated ==
  ASSUME NEW S, NEW s \in Seq(S), NEW t \in Seq(S),
         IsInjective(s), IsInjective(t), ToSet(s) \cap ToSet(t) = {}
  PROVE  /\ s \o t \in Seq(S)
         /\ IsInjective(s \o t)
         /\ ToSet(s \o t) = ToSet(s) \cup ToSet(t)
<1> DEFINE r == s \o t
<1>1. /\ r \in Seq(S)
      /\ Len(s) \in Nat /\ Len(t) \in Nat
      /\ Len(r) = Len(s) + Len(t)
      /\ \A i \in 1..Len(s) + Len(t) :
           r[i] = IF i <= Len(s) THEN s[i] ELSE t[i - Len(s)]
  BY ConcatProperties
<1> HIDE DEF r
<1>2. \A i \in 1..Len(s) : i \in 1..Len(r) /\ r[i] = s[i]
  BY <1>1
<1>3. ASSUME NEW i \in 1..Len(t) PROVE i + Len(s) \in 1..Len(r) /\ r[i + Len(s)] = t[i]
  <2>1. i + Len(s) \in 1..Len(r) /\ ~(i + Len(s) <= Len(s)) /\ (i + Len(s)) - Len(s) = i
    BY <1>1
  <2>2. r[i + Len(s)] = t[(i + Len(s)) - Len(s)]
    BY <1>1, <2>1
  <2> QED BY <2>1, <2>2
<1>4. ASSUME NEW i \in 1..Len(r)
      PROVE  \/ i \in 1..Len(s) /\ r[i] = s[i]
             \/ i > Len(s) /\ i - Len(s) \in 1..Len(t) /\ r[i] = t[i - Len(s)]
  BY <1>1
<1>5. \A i \in 1..Len(s), j \in 1..Len(t) : s[i] # t[j]
  BY OnSequence
<1>6. ASSUME NEW i \in 1..Len(r), NEW j \in 1..Len(r), r[i] = r[j] PROVE i = j
  <2>1. CASE i \in 1..Len(s) /\ r[i] = s[i] /\ j \in 1..Len(s) /\ r[j] = s[j]
    BY <1>6, <2>1, InjectiveSequence
  <2>2. CASE /\ i > Len(s) /\ i - Len(s) \in 1..Len(t) /\ r[i] = t[i - Len(s)]
             /\ j > Len(s) /\ j - Len(s) \in 1..Len(t) /\ r[j] = t[j - Len(s)]
    <3>1. i - Len(s) = j - Len(s)
      BY <1>6, <2>2, InjectiveSequence
    <3> QED BY <1>1, <3>1
  <2>3. CASE /\ i \in 1..Len(s) /\ r[i] = s[i]
             /\ j > Len(s) /\ j - Len(s) \in 1..Len(t) /\ r[j] = t[j - Len(s)]
    BY <1>5, <1>6, <2>3
  <2>4. CASE /\ j \in 1..Len(s) /\ r[j] = s[j]
             /\ i > Len(s) /\ i - Len(s) \in 1..Len(t) /\ r[i] = t[i - Len(s)]
    BY <1>5, <1>6, <2>4
  <2> QED BY <1>4, <2>1, <2>2, <2>3, <2>4
<1>7. IsInjective(r)
  BY <1>1, <1>6, InjectiveSequence
<1>8. ASSUME NEW e \in ToSet(r) PROVE e \in ToSet(s) \cup ToSet(t)
  <2> r \in Seq(S)
    BY <1>1
  <2>1. PICK i \in 1..Len(r) : r[i] = e
    BY OnSequence
  <2> QED BY <1>4, <2>1, OnSequence
<1>9. ASSUME NEW e \in ToSet(s) \cup ToSet(t) PROVE e \in ToSet(r)
  <2>1. CASE e \in ToSet(s)
    <3>1. PICK i \in 1..Len(s) : s[i] = e
      BY <2>1, OnSequence
    <3> QED BY <1>1, <1>2, <3>1, OnSequence
  <2>2. CASE e \in ToSet(t)
    <3>1. PICK i \in 1..Len(t) : t[i] = e
      BY <2>2, OnSequence
    <3> QED BY <1>1, <1>3, <3>1, OnSequence
  <2> QED BY <2>1, <2>2
<1> QED BY <1>1, <1>7, <1>8, <1>9 DEF r

(* Putting a new element in front *)
LEMMA Pushed ==
  ASSUME NEW S, NEW s \in Seq(S), NEW e \in S, IsInjective(s), e \notin ToSet(s)
  PROVE  /\ <<e>> \o s \in Seq(S)
         /\ IsInjective(<<e>> \o s)
         /\ ToSet(<<e>> \o s) = {e} \cup ToSet(s)
<1> DEFINE one == <<e>>
<1>1. one \in Seq(S) /\ Len(one) = 1 /\ one[1] = e
  OBVIOUS
<1> HIDE DEF one
<1>2. IsInjective(one)
  <2>1. \A i, j \in 1..Len(one) : one[i] = one[j] => i = j
    BY <1>1
  <2> QED BY <1>1, <2>1, InjectiveSequence
<1>3. ToSet(one) = {e}
  <2>1. \A x : x \in ToSet(one) <=> \E i \in 1..Len(one) : one[i] = x
    BY <1>1, OnSequence
  <2>2. \A x : x \in ToSet(one) <=> x = e
    BY <1>1, <2>1
  <2> QED BY <2>2
<1>4. ToSet(one) \cap ToSet(s) = {}
  BY <1>3
<1>5. /\ one \o s \in Seq(S)
      /\ IsInjective(one \o s)
      /\ ToSet(one \o s) = ToSet(one) \cup ToSet(s)
  BY <1>1, <1>2, <1>4, Concatenated
<1> QED BY <1>3, <1>5 DEF one

(* Part of a sequence *)
LEMMA Part ==
  ASSUME NEW S, NEW s \in Seq(S), IsInjective(s),
         NEW m \in Int, NEW n \in Int, 1 <= m, n <= Len(s)
  PROVE  /\ SubSeq(s, m, n) \in Seq(S)
         /\ IsInjective(SubSeq(s, m, n))
         /\ \A e : e \in ToSet(SubSeq(s, m, n)) <=> \E i \in m..n : s[i] = e
<1> DEFINE p == SubSeq(s, m, n)
<1>1. Len(s) \in Nat /\ \A i \in m..n : i \in 1..Len(s) /\ s[i] \in S
  OBVIOUS
<1>2. /\ p \in Seq(S)
      /\ Len(p) = IF m <= n THEN n - m + 1 ELSE 0
      /\ \A i \in 1..(n - m + 1) : p[i] = s[m + i - 1]
  BY <1>1, SubSeqProperties
<1> HIDE DEF p
<1>3. ASSUME NEW i \in 1..Len(p) PROVE m + i - 1 \in m..n /\ p[i] = s[m + i - 1]
  BY <1>2
<1>4. ASSUME NEW i \in m..n
      PROVE  i - m + 1 \in 1..Len(p) /\ p[i - m + 1] = s[i]
  <2>1. /\ i - m + 1 \in 1..(n - m + 1) /\ i - m + 1 \in 1..Len(p)
        /\ m + (i - m + 1) - 1 = i
    BY <1>2
  <2>2. p[i - m + 1] = s[m + (i - m + 1) - 1]
    BY <1>2, <2>1
  <2> QED BY <2>1, <2>2
<1>5. ASSUME NEW i \in 1..Len(p), NEW j \in 1..Len(p), p[i] = p[j] PROVE i = j
  <2>1. m + i - 1 = m + j - 1
    BY <1>1, <1>3, <1>5, InjectiveSequence
  <2> QED BY <1>2, <2>1
<1>6. IsInjective(p)
  BY <1>2, <1>5, InjectiveSequence
<1>7. ASSUME NEW e \in ToSet(p) PROVE \E i \in m..n : s[i] = e
  BY <1>2, <1>3, OnSequence
<1>8. ASSUME NEW i \in m..n PROVE s[i] \in ToSet(p)
  BY <1>2, <1>4, OnSequence
<1> QED BY <1>2, <1>6, <1>7, <1>8 DEF p

(* A place before or after another one *)
LEMMA Beside ==
  ASSUME NEW n \in Nat, NEW k \in 1..n, NEW i \in 1..(k - 1) \cup (k + 1)..n
  PROVE  i \in 1..n /\ i # k
OBVIOUS

(* Taking out the element at place k, with the parts around it in their    *)
(* order or turned round                                                   *)
LEMMA TakenOut ==
  ASSUME NEW S, NEW s \in Seq(S), NEW k \in DOMAIN s, IsInjective(s),
         NEW r, \/ r = SubSeq(s, 1, k - 1) \o SubSeq(s, k + 1, Len(s))
                \/ r = SubSeq(s, k + 1, Len(s)) \o SubSeq(s, 1, k - 1)
  PROVE  r \in Seq(S) /\ IsInjective(r) /\ ToSet(r) = ToSet(s) \ {s[k]}
<1> DEFINE front == SubSeq(s, 1, k - 1)
           back  == SubSeq(s, k + 1, Len(s))
<1>1. /\ k \in 1..Len(s) /\ Len(s) \in Nat
      /\ k - 1 \in Int /\ k - 1 <= Len(s) /\ k + 1 \in Int /\ 1 <= k + 1
  OBVIOUS
<1>2. /\ front \in Seq(S) /\ IsInjective(front)
      /\ \A e : e \in ToSet(front) <=> \E i \in 1..(k - 1) : s[i] = e
  BY <1>1, Part
<1>3. /\ back \in Seq(S) /\ IsInjective(back)
      /\ \A e : e \in ToSet(back) <=> \E i \in (k + 1)..Len(s) : s[i] = e
  BY <1>1, Part
<1> HIDE DEF front, back
<1>4. \A i, j \in 1..Len(s) : s[i] = s[j] => i = j
  BY InjectiveSequence
<1>5. ToSet(front) \cap ToSet(back) = {}
  <2> SUFFICES ASSUME NEW i \in 1..(k - 1), NEW j \in (k + 1)..Len(s), s[i] = s[j]
               PROVE  FALSE
    BY <1>2, <1>3
  <2>1. i \in 1..Len(s) /\ j \in 1..Len(s) /\ i # j
    BY <1>1
  <2> QED BY <1>4, <2>1
<1>6. ASSUME NEW e PROVE e \in ToSet(front) \cup ToSet(back) <=> e \in ToSet(s) \ {s[k]}
  <2>1. ASSUME NEW i \in 1..Len(s), i # k PROVE i \in 1..(k - 1) \/ i \in (k + 1)..Len(s)
    BY <1>1, <2>1
  <2>2. ASSUME e \in ToSet(s) \ {s[k]} PROVE e \in ToSet(front) \cup ToSet(back)
    <3>1. PICK i \in 1..Len(s) : s[i] = e
      BY <2>2, OnSequence
    <3> QED BY <1>2, <1>3, <2>1, <2>2, <3>1
  <2>3. ASSUME e \in ToSet(front) \cup ToSet(back) PROVE e \in ToSet(s) \ {s[k]}
    <3>1. PICK i \in 1..(k - 1) \cup (k + 1)..Len(s) : s[i] = e
      BY <1>2, <1>3, <2>3
    <3>2. i \in 1..Len(s) /\ i # k
      BY <1>1, Beside
    <3>3. e \in ToSet(s)
      BY <3>1, <3>2, OnSequence
    <3>4. s[k] # e
      BY <1>1, <1>4, <3>1, <3>2
    <3> QED BY <3>3, <3>4
  <2> QED BY <2>2, <2>3
<1>7. ToSet(front) \cup ToSet(back) = ToSet(s) \ {s[k]}
  BY <1>6
<1>8. CASE r = front \o back
  BY <1>2, <1>3, <1>5, <1>7, <1>8, Concatenated
<1>9. CASE r = back \o front
  BY <1>2, <1>3, <1>5, <1>7, <1>9, Concatenated
<1> QED BY <1>8, <1>9 DEF front, back
(* A finite set of integers has a largest element *)
LEMMA LargestOf ==
  ASSUME NEW n \in Nat, NEW U \in SUBSET (1..n), U # {}
  PROVE  \E i \in U : \A j \in U : j <= i
<1> DEFINE V == {n - i : i \in U}
           R == OpToRel(<, Nat)
<1>1. V \subseteq Nat /\ V # {}
  <2>1. \A i \in U : n - i \in Nat
    OBVIOUS
  <2> QED BY <2>1
<1>a. \A v, w \in Nat : <<v, w>> \in R <=> v < w
  BY DEF OpToRel
<1>b. IsWellFoundedOn(R, Nat)
  BY NatLessThanWellFounded
<1>2. PICK v \in V : \A w \in V : v <= w
  <2> HIDE DEF V, R
  <2>1. PICK v \in V : \A w \in V : ~(<<w, v>> \in R)
    BY <1>1, <1>b, WFMin
  <2>2. ASSUME NEW w \in V PROVE v <= w
    <3>1. v \in Nat /\ w \in Nat
      BY <1>1
    <3>2. ~(w < v)
      BY <1>a, <2>1, <3>1
    <3> QED BY <3>1, <3>2
  <2> QED BY <2>1, <2>2
<1>3. PICK i \in U : v = n - i
  OBVIOUS
<1>4. ASSUME NEW j \in U PROVE j <= i
  <2>1. n - i <= n - j
    BY <1>2, <1>3
  <2> QED BY <2>1
<1> QED BY <1>4

-----------------------------------------------------------------------------
(* Sums.  u[i] is the sum of the first i elements of s. *)
Sums(s, f, u) ==
  /\ u \in [0..Len(s) -> Int]
  /\ u[0] = 0
  /\ \A i \in 1..Len(s) : u[i] = u[i - 1] + f[s[i]]

HasSum(s, f, n) == \E u : Sums(s, f, u) /\ u[Len(s)] = n

LEMMA SumOfNothing ==
  ASSUME NEW s \in Seq(Id), Len(s) = 0, NEW f
  PROVE  HasSum(s, f, 0)
<1> DEFINE u == [i \in 0..Len(s) |-> 0]
<1>1. Sums(s, f, u) /\ u[Len(s)] = 0
  BY DEF Sums
<1> HIDE DEF u
<1> QED BY <1>1 DEF HasSum

LEMMA SumOfOne ==
  ASSUME NEW id \in Id, NEW f \in [Id -> Nat]
  PROVE  <<id>> \in Seq(Id) /\ HasSum(<<id>>, f, f[id])
<1> DEFINE s == <<id>>
           u == [i \in 0..Len(s) |-> IF i = 0 THEN 0 ELSE f[id]]
<1>1. s \in Seq(Id) /\ Len(s) = 1 /\ s[1] = id
  OBVIOUS
<1>2. u \in [0..Len(s) -> Int]
  OBVIOUS
<1>3. u[0] = 0 /\ u[1] = f[id]
  BY <1>1
<1> HIDE DEF s, u
<1>4. \A i \in 1..Len(s) : i = 1 /\ i - 1 = 0
  BY <1>1
<1>5. \A i \in 1..Len(s) : u[i] = u[i - 1] + f[s[i]]
  BY <1>1, <1>3, <1>4
<1>6. HasSum(s, f, f[id])
  BY <1>1, <1>2, <1>3, <1>5 DEF Sums, HasSum
<1> QED BY <1>1, <1>6 DEF s

(* Two sequences, one after the other *)
LEMMA SumConcat ==
  ASSUME NEW s \in Seq(Id), NEW t \in Seq(Id), NEW f \in [Id -> Nat],
         NEW a, NEW b, HasSum(s, f, a), HasSum(t, f, b)
  PROVE  HasSum(s \o t, f, a + b)
<1> DEFINE r == s \o t
<1>1. /\ Len(s) \in Nat /\ Len(t) \in Nat
      /\ Len(r) = Len(s) + Len(t)
      /\ \A i \in 1..Len(s) + Len(t) :
           r[i] = IF i <= Len(s) THEN s[i] ELSE t[i - Len(s)]
  BY ConcatProperties
<1> HIDE DEF r
<1>2. PICK u : Sums(s, f, u) /\ u[Len(s)] = a
  BY DEF HasSum
<1>3. PICK v : Sums(t, f, v) /\ v[Len(t)] = b
  BY DEF HasSum
<1>4. /\ u \in [0..Len(s) -> Int] /\ u[0] = 0
      /\ \A i \in 1..Len(s) : u[i] = u[i - 1] + f[s[i]]
      /\ v \in [0..Len(t) -> Int] /\ v[0] = 0
      /\ \A i \in 1..Len(t) : v[i] = v[i - 1] + f[t[i]]
  BY <1>2, <1>3 DEF Sums
<1>5. a \in Int /\ b \in Int
  <2>1. Len(s) \in 0..Len(s) /\ Len(t) \in 0..Len(t)
    BY <1>1
  <2> QED BY <1>2, <1>3, <1>4, <2>1
<1> DEFINE w == [i \in 0..Len(r) |-> IF i <= Len(s) THEN u[i] ELSE a + v[i - Len(s)]]
<1>6. w \in [0..Len(r) -> Int]
  <2> SUFFICES ASSUME NEW i \in 0..Len(r)
               PROVE  (IF i <= Len(s) THEN u[i] ELSE a + v[i - Len(s)]) \in Int
    OBVIOUS
  <2>1. CASE i <= Len(s)
    <3>1. i \in 0..Len(s)
      BY <1>1, <2>1
    <3> QED BY <1>4, <2>1, <3>1
  <2>2. CASE ~(i <= Len(s))
    <3>1. i - Len(s) \in 0..Len(t)
      BY <1>1, <2>2
    <3>2. v[i - Len(s)] \in Int
      BY <1>4, <3>1
    <3> QED BY <1>5, <2>2, <3>2
  <2> QED BY <2>1, <2>2
<1>7. /\ \A i \in 0..Len(s) : w[i] = u[i]
      /\ \A i \in 1..Len(t) : w[Len(s) + i] = a + v[i]
  <2>1. ASSUME NEW i \in 0..Len(s) PROVE w[i] = u[i]
    BY <1>1
  <2>2. ASSUME NEW i \in 1..Len(t) PROVE w[Len(s) + i] = a + v[i]
    <3>1. /\ Len(s) + i \in 0..Len(r) /\ ~(Len(s) + i <= Len(s))
          /\ Len(s) + i - Len(s) = i
      BY <1>1
    <3> QED BY <3>1
  <2> QED BY <2>1, <2>2
<1> HIDE DEF w
<1>8. ASSUME NEW i \in 1..Len(r) PROVE w[i] = w[i - 1] + f[r[i]]
  <2>1. CASE i <= Len(s)
    <3>1. i \in 0..Len(s) /\ i - 1 \in 0..Len(s) /\ i \in 1..Len(s)
      BY <1>1, <2>1
    <3>2. r[i] = s[i]
      BY <1>1, <2>1
    <3> QED BY <1>4, <1>7, <3>1, <3>2
  <2>2. CASE ~(i <= Len(s))
    <3>1. PICK j \in 1..Len(t) : j = i - Len(s) /\ i = Len(s) + j
      BY <1>1, <2>2
    <3>2. r[i] = t[j] /\ w[i] = a + v[j] /\ v[j] = v[j - 1] + f[t[j]]
      BY <1>1, <1>4, <1>7, <2>2, <3>1
    <3>3. w[i - 1] = a + v[j - 1]
      <4>1. CASE j = 1
        <5>1. i - 1 = Len(s) /\ Len(s) \in 0..Len(s) /\ j - 1 = 0
          BY <1>1, <3>1, <4>1
        <5> QED BY <1>2, <1>4, <1>5, <1>7, <5>1
      <4>2. CASE j # 1
        <5>1. j - 1 \in 1..Len(t) /\ i - 1 = Len(s) + (j - 1)
          BY <1>1, <3>1, <4>2
        <5> QED BY <1>7, <5>1
      <4> QED BY <4>1, <4>2
    <3>4. v[j - 1] \in Int /\ f[t[j]] \in Int
      <4>1. j - 1 \in 0..Len(t)
        BY <1>1
      <4>2. t[j] \in Id
        OBVIOUS
      <4>3. f[t[j]] \in Nat
        BY <4>2
      <4>4. v[j - 1] \in Int
        BY <1>4, <4>1
      <4> QED BY <4>3, <4>4
    <3> QED BY <1>5, <3>2, <3>3, <3>4
  <2> QED BY <2>1, <2>2
<1>9. w[0] = 0
  BY <1>1, <1>4, <1>7
<1>10. w[Len(r)] = a + b
  <2>1. CASE Len(t) = 0
    <3>1. Len(r) = Len(s) /\ Len(s) \in 0..Len(s)
      BY <1>1, <2>1
    <3> QED BY <1>2, <1>3, <1>4, <1>5, <1>7, <2>1, <3>1
  <2>2. CASE Len(t) # 0
    <3>1. Len(t) \in 1..Len(t)
      BY <1>1, <2>2
    <3> QED BY <1>1, <1>3, <1>7, <3>1
  <2> QED BY <2>1, <2>2
<1>11. HasSum(r, f, a + b)
  BY <1>6, <1>8, <1>9, <1>10 DEF HasSum, Sums
<1> QED BY <1>11 DEF r

(* Part of a sequence *)
LEMMA SumPart ==
  ASSUME NEW s \in Seq(Id), NEW f \in [Id -> Nat], NEW u, Sums(s, f, u),
         NEW m \in Int, NEW n \in Int, 1 <= m, m <= n + 1, n <= Len(s),
         NEW c, c = m - 1
  PROVE  HasSum(SubSeq(s, m, n), f, u[n] - u[c])
<1> DEFINE p == SubSeq(s, m, n)
<1>1. Len(s) \in Nat /\ \A i \in m..n : i \in 1..Len(s) /\ s[i] \in Id
  OBVIOUS
<1>2. /\ p \in Seq(Id)
      /\ Len(p) = IF m <= n THEN n - m + 1 ELSE 0
      /\ \A i \in 1..(n - m + 1) : p[i] = s[m + i - 1]
  BY <1>1, SubSeqProperties
<1>3. Len(p) = n - m + 1
  BY <1>2
<1> HIDE DEF p
<1>4. /\ u \in [0..Len(s) -> Int]
      /\ \A i \in 1..Len(s) : u[i] = u[i - 1] + f[s[i]]
  BY DEF Sums
<1>a. c \in 0..Len(s) /\ u[c] \in Int
  <2>1. c \in 0..Len(s)
    BY <1>1
  <2> QED BY <1>4, <2>1
<1> DEFINE w == [i \in 0..Len(p) |-> u[c + i] - u[c]]
<1>5. ASSUME NEW i \in 0..Len(p) PROVE c + i \in 0..Len(s) /\ u[c + i] \in Int
  <2>1. c + i \in 0..Len(s)
    BY <1>1, <1>3
  <2> QED BY <1>4, <2>1
<1>6. w \in [0..Len(p) -> Int]
  BY <1>5, <1>a
<1>7. \A i \in 0..Len(p) : w[i] = u[c + i] - u[c]
  OBVIOUS
<1> HIDE DEF w
<1>8. ASSUME NEW i \in 1..Len(p) PROVE w[i] = w[i - 1] + f[p[i]]
  <2>1. /\ i \in 0..Len(p) /\ i - 1 \in 0..Len(p) /\ c + i \in 1..Len(s)
        /\ i \in 1..(n - m + 1) /\ c + (i - 1) = (c + i) - 1 /\ m + i - 1 = c + i
    BY <1>1, <1>3
  <2>2. PICK x, y : x = u[c + i] /\ y = u[c + (i - 1)]
    OBVIOUS
  <2>3. w[i] = x - u[c] /\ w[i - 1] = y - u[c]
    BY <1>7, <2>1, <2>2
  <2>4. x = y + f[s[c + i]]
    BY <1>4, <2>1, <2>2
  <2>5. s[c + i] = p[i] /\ p[i] \in Id
    BY <1>2, <2>1
  <2>6. f[p[i]] \in Int /\ y \in Int
    <3>1. y \in Int
      BY <1>5, <2>1, <2>2
    <3>2. f[p[i]] \in Nat
      BY <2>5
    <3> QED BY <3>1, <3>2
  <2>7. x = y + f[p[i]]
    BY <2>4, <2>5
  <2> QED BY <1>a, <2>3, <2>6, <2>7
<1>9. w[0] = 0 /\ w[Len(p)] = u[n] - u[c]
  <2>1. 0 \in 0..Len(p) /\ Len(p) \in 0..Len(p) /\ c + 0 = c /\ c + Len(p) = n
    BY <1>1, <1>3
  <2>2. w[0] = u[c] - u[c] /\ w[Len(p)] = u[n] - u[c]
    BY <1>7, <2>1
  <2> QED BY <1>a, <2>2
<1>10. HasSum(p, f, u[n] - u[c])
  BY <1>6, <1>8, <1>9 DEF HasSum, Sums
<1> QED BY <1>10 DEF p

(* Taking out the element at place k *)
LEMMA SumTakenOut ==
  ASSUME NEW s \in Seq(Id), NEW k \in DOMAIN s, NEW f \in [Id -> Nat],
         NEW n, HasSum(s, f, n),
         NEW r, \/ r = SubSeq(s, 1, k - 1) \o SubSeq(s, k + 1, Len(s))
                \/ r = SubSeq(s, k + 1, Len(s)) \o SubSeq(s, 1, k - 1)
  PROVE  HasSum(r, f, n - f[s[k]])
<1> DEFINE front == SubSeq(s, 1, k - 1)
           back  == SubSeq(s, k + 1, Len(s))
<1>0. k \in 1..Len(s) /\ Len(s) \in Nat /\ s[k] \in Id
  OBVIOUS
<1>1. PICK h, g : h = k - 1 /\ g = k + 1
  OBVIOUS
<1>2. PICK u : Sums(s, f, u) /\ u[Len(s)] = n
  BY DEF HasSum
<1>3. /\ h \in Int /\ g \in Int /\ h <= Len(s) /\ 1 <= h + 1 /\ 0 = 1 - 1
      /\ 1 <= g /\ g <= Len(s) + 1 /\ Len(s) <= Len(s) /\ k = g - 1 /\ 1 <= 1
      /\ h \in 0..Len(s) /\ k \in 0..Len(s) /\ Len(s) \in 0..Len(s) /\ Len(s) \in Int
  BY <1>0, <1>1
<1>4. front \in Seq(Id) /\ back \in Seq(Id)
  <2>1. /\ \A i \in 1..(k - 1) : i \in 1..Len(s)
        /\ \A i \in (k + 1)..Len(s) : i \in 1..Len(s)
    BY <1>0
  <2>2. \A i \in 1..Len(s) : s[i] \in Id
    OBVIOUS
  <2>3. /\ \A i \in 1..(k - 1) : s[i] \in Id
        /\ \A i \in (k + 1)..Len(s) : s[i] \in Id
    BY <2>1, <2>2
  <2> QED BY <1>0, <2>3, SubSeqProperties
<1>5. front = SubSeq(s, 1, h) /\ back = SubSeq(s, g, Len(s))
  BY <1>1
<1> HIDE DEF front, back
<1>6. HasSum(front, f, u[h] - u[0])
  <2>1. PICK m, z : m = 1 /\ z = 0 /\ z = m - 1
    BY <1>3
  <2>2. m \in Int /\ 1 <= m /\ m <= h + 1 /\ h <= Len(s) /\ h \in Int
    BY <1>3, <2>1
  <2>3. HasSum(SubSeq(s, m, h), f, u[h] - u[z])
    BY <1>2, <2>1, <2>2, SumPart
  <2> QED BY <1>5, <2>1, <2>3
<1>7. HasSum(back, f, u[Len(s)] - u[k])
  BY <1>2, <1>3, <1>5, SumPart
<1>a. PICK a, b : a = u[h] - u[0] /\ b = u[Len(s)] - u[k]
  OBVIOUS
<1>8. a + b = n - f[s[k]] /\ b + a = n - f[s[k]]
  <2>1. u[h] \in Int /\ u[k] \in Int /\ n \in Int /\ u[0] = 0
    BY <1>2, <1>3 DEF Sums
  <2>2. u[k] = u[h] + f[s[k]]
    BY <1>0, <1>1, <1>2 DEF Sums
  <2>3. f[s[k]] \in Int
    BY <1>0
  <2>4. PICK x, y, z : x = u[h] /\ y = u[k] /\ z = f[s[k]]
    OBVIOUS
  <2>5. a = x - 0 /\ b = n - y /\ y = x + z
    BY <1>2, <1>a, <2>1, <2>2, <2>4
  <2>6. x \in Int /\ y \in Int /\ z \in Int /\ n \in Int
    BY <2>1, <2>3, <2>4
  <2>7. a + b = n - z /\ b + a = n - z
    BY <2>5, <2>6
  <2> QED BY <2>4, <2>7
<1>9. HasSum(front, f, a) /\ HasSum(back, f, b)
  BY <1>6, <1>7, <1>a
<1>10. CASE r = front \o back
  <2>1. HasSum(r, f, a + b)
    BY <1>4, <1>9, <1>10, SumConcat
  <2> QED BY <1>8, <2>1
<1>11. CASE r = back \o front
  <2>1. HasSum(r, f, b + a)
    BY <1>4, <1>9, <1>11, SumConcat
  <2> QED BY <1>8, <2>1
<1> QED BY <1>10, <1>11 DEF front, back

(* A sum does not depend on what is not summed *)
LEMMA SumSame ==
  ASSUME NEW s \in Seq(Id), NEW f, NEW g, NEW n, HasSum(s, f, n),
         \A id \in ToSet(s) : f[id] = g[id]
  PROVE  HasSum(s, g, n)
<1>1. \A i \in 1..Len(s) : f[s[i]] = g[s[i]]
  BY OnSequence
<1> QED BY <1>1 DEF HasSum, Sums

LEMMA LeastOf ==
  ASSUME NEW S \in SUBSET Nat, S # {}
  PROVE  \E n \in S : \A m \in S : n <= m
<1> DEFINE R == OpToRel(<, Nat)
<1>1. IsWellFoundedOn(R, Nat)
  BY NatLessThanWellFounded
<1>2. \A m, n \in Nat : m < n => <<m, n>> \in R
  BY DEF OpToRel
<1> HIDE DEF R
<1>3. PICK n \in S : \A m \in S : <<m, n>> \notin R
  BY <1>1, WFMin
<1>4. ASSUME NEW m \in S PROVE n <= m
  <2>1. m \in Nat /\ n \in Nat /\ ~(m < n)
    BY <1>2, <1>3
  <2> QED BY <2>1
<1> QED BY <1>4

(* There is one sum, it is not negative, and not less than a summand *)
LEMMA SumIs ==
  ASSUME NEW s \in Seq(Id), NEW f \in [Id -> Nat], NEW n, HasSum(s, f, n)
  PROVE  n \in Nat /\ SumOf(s, f) = n /\ \A id \in ToSet(s) : f[id] <= n
<1>1. PICK u : Sums(s, f, u) /\ u[Len(s)] = n
  BY DEF HasSum
<1>2. /\ u \in [0..Len(s) -> Int] /\ u[0] = 0 /\ Len(s) \in Nat
      /\ \A i \in 1..Len(s) : u[i] = u[i - 1] + f[s[i]] /\ f[s[i]] \in Nat
  BY <1>1 DEF Sums
<1>3. \A i \in 0..Len(s) : u[i] \in Nat /\ \A j \in 1..i : f[s[j]] <= u[i]
  <2> DEFINE Bad == {i \in 0..Len(s) :
                       ~(u[i] \in Nat /\ \A j \in 1..i : f[s[j]] <= u[i])}
  <2>1. ASSUME NEW i \in Bad, \A j \in Bad : i <= j PROVE FALSE
    <3>1. CASE i = 0
      BY <1>2, <3>1
    <3>2. CASE i # 0
      <4>1. i \in 1..Len(s) /\ i - 1 \in 0..Len(s) /\ i - 1 \notin Bad
        <5>1. i \in 1..Len(s) /\ i - 1 \in 0..Len(s) /\ ~(i <= i - 1)
          BY <1>2, <3>2
        <5> QED BY <2>1, <5>1
      <4>2. u[i - 1] \in Nat /\ \A j \in 1..(i - 1) : f[s[j]] <= u[i - 1]
        BY <4>1
      <4>3. u[i] = u[i - 1] + f[s[i]] /\ f[s[i]] \in Nat
        BY <1>2, <4>1
      <4>4. ASSUME NEW j \in 1..i PROVE f[s[j]] <= u[i]
        <5>1. j = i \/ j \in 1..(i - 1)
          BY <4>1
        <5>2. j \in 1..Len(s)
          BY <4>1
        <5>3. f[s[j]] \in Nat
          BY <1>2, <5>2
        <5>4. j \in 1..(i - 1) => f[s[j]] <= u[i - 1]
          BY <4>2
        <5> QED BY <4>2, <4>3, <5>1, <5>3, <5>4
      <4>5. u[i] \in Nat
        BY <4>2, <4>3
      <4> QED BY <4>4, <4>5
    <3> QED BY <3>1, <3>2
  <2>2. Bad \in SUBSET Nat
    OBVIOUS
  <2>3. Bad = {}
    <3> HIDE DEF Bad
    <3> QED BY <2>1, <2>2, LeastOf
  <2> QED BY <2>3
<1>4. n \in Nat /\ \A id \in ToSet(s) : f[id] <= n
  <2>1. Len(s) \in 0..Len(s)
    BY <1>2
  <2> QED BY <1>1, <1>3, <2>1, OnSequence
<1> DEFINE IsIt(v) == v = [i \in 0..Len(s) |-> IF i = 0 THEN 0 ELSE v[i - 1] + f[s[i]]]
           sum == CHOOSE v : IsIt(v)
<1>5. IsIt(u)
  <2>1. \A i \in 0..Len(s) : u[i] = IF i = 0 THEN 0 ELSE u[i - 1] + f[s[i]]
    <3> TAKE i \in 0..Len(s)
    <3>1. i # 0 => i \in 1..Len(s)
      BY <1>2
    <3> QED BY <1>2, <3>1
  <2>2. u = [i \in 0..Len(s) |-> u[i]]
    BY <1>2
  <2> QED BY <2>1, <2>2
<1>6. IsIt(sum)
  <2> HIDE DEF IsIt
  <2> QED BY <1>5
<1>7. SumOf(s, f) = sum[Len(s)]
  BY DEF SumOf
<1>8. \A i \in 0..Len(s) : sum[i] = IF i = 0 THEN 0 ELSE sum[i - 1] + f[s[i]]
  <2> HIDE DEF sum
  <2> QED BY <1>6
<1> HIDE DEF sum
<1>9. \A i \in 0..Len(s) : sum[i] = u[i]
  <2> DEFINE Bad == {i \in 0..Len(s) : sum[i] # u[i]}
  <2>1. ASSUME NEW i \in Bad, \A j \in Bad : i <= j PROVE FALSE
    <3>1. CASE i = 0
      BY <1>2, <1>8, <3>1
    <3>2. CASE i # 0
      <4>1. i \in 1..Len(s) /\ i - 1 \in 0..Len(s) /\ ~(i <= i - 1)
        BY <1>2, <3>2
      <4>2. sum[i - 1] = u[i - 1]
        BY <2>1, <4>1
      <4>3. sum[i] = sum[i - 1] + f[s[i]]
        BY <1>8, <3>2
      <4> QED BY <1>2, <4>1, <4>2, <4>3
    <3> QED BY <3>1, <3>2
  <2>2. Bad \in SUBSET Nat
    OBVIOUS
  <2>3. Bad = {}
    <3> HIDE DEF Bad
    <3> QED BY <2>1, <2>2, LeastOf
  <2> QED BY <2>3
<1>10. SumOf(s, f) = n
  <2>1. Len(s) \in 0..Len(s)
    BY <1>2
  <2> QED BY <1>1, <1>7, <1>9, <2>1
<1> QED BY <1>4, <1>10

-----------------------------------------------------------------------------
(* Lists.  Taking a block off one. *)
LEMMA TakenOff ==
  ASSUME NEW m, NEW x, NEW l \in Lists, NEW id \in On(m, l), Sound(m, x),
         NEW r \in Seq(Id), IsInjective(r), ToSet(r) = On(m, l) \ {id},
         NEW b \in Int,
         NEW n, n = [m EXCEPT !.list[l] = r, !.bytes[l] = b]
  PROVE  Sound(n, x \cup {id}) /\ Lost(m, n, l, id)
<1>1. /\ m \in Mem /\ x \subseteq Id
      /\ \A k \in Lists : m.list[k] \in Seq(Id)
  BY DEF Sound, Mem
<1>2. id \in Id
  BY <1>1 DEF On, ToSet
<1>3. n \in Mem /\ n.hash = m.hash
  BY <1>1 DEF Mem
<1>4. \A k \in Lists : n.list[k] = IF k = l THEN r ELSE m.list[k]
  BY <1>1 DEF Mem
<1>5. \A k \in Lists : On(n, k) = IF k = l THEN On(m, k) \ {id} ELSE On(m, k)
  <2> SUFFICES ASSUME NEW k \in Lists
               PROVE  On(n, k) = IF k = l THEN On(m, k) \ {id} ELSE On(m, k)
    OBVIOUS
  <2>1. CASE k = l
    <3>1. On(n, k) = ToSet(r)
      BY <1>4, <2>1 DEF On
    <3> QED BY <2>1, <3>1
  <2>2. CASE k # l
    BY <1>4, <2>2 DEF On
  <2> QED BY <2>1, <2>2
<1>6. Lost(m, n, l, id)
  BY <1>5 DEF Lost
<1>7. \A k \in Lists : IsInjective(n.list[k])
  BY <1>4 DEF Sound
<1>8. \A k \in Lists : k # l => id \notin On(m, k)
  BY DEF Sound
<1>9. \A k \in Lists : (x \cup {id}) \cap On(n, k) = {}
  <2> SUFFICES ASSUME NEW k \in Lists, NEW e \in On(n, k)
               PROVE  e \notin x /\ e # id
    OBVIOUS
  <2>1. x \cap On(m, k) = {}
    BY DEF Sound
  <2>2. e \in On(m, k) /\ (k = l => e # id)
    BY <1>5
  <2> QED BY <1>8, <2>1, <2>2
<1>10. \A k, j \in Lists : k # j => On(n, k) \cap On(n, j) = {}
  <2>1. \A k \in Lists : On(n, k) \subseteq On(m, k)
    BY <1>5
  <2>2. \A k, j \in Lists : k # j => On(m, k) \cap On(m, j) = {}
    BY DEF Sound
  <2> QED BY <2>1, <2>2
<1>11. n.hash = (x \cup {id}) \cup UNION {On(n, k) : k \in Lists}
  <2>1. m.hash = x \cup UNION {On(m, k) : k \in Lists}
    BY DEF Sound
  <2>2. UNION {On(m, k) : k \in Lists} = {id} \cup UNION {On(n, k) : k \in Lists}
    BY <1>5
  <2> QED BY <1>3, <2>1, <2>2
<1> QED BY <1>1, <1>2, <1>3, <1>6, <1>7, <1>9, <1>10, <1>11 DEF Sound

(* cache_remove_from_list *)
LEMMA Removed ==
  ASSUME NEW m, NEW x, NEW l \in Lists, NEW id \in On(m, l), Sound(m, x)
  PROVE  /\ Sound(RemoveFrom(m, l, id), x \cup {id})
         /\ Lost(m, RemoveFrom(m, l, id), l, id)
<1> DEFINE s == m.list[l]
           k == CHOOSE i \in DOMAIN s : s[i] = id
           r == SubSeq(s, 1, k - 1) \o SubSeq(s, k + 1, Len(s))
           b == m.bytes[l] - m.size[id]
<1>1. s \in Seq(Id) /\ IsInjective(s) /\ m \in Mem
  BY DEF Sound, Mem
<1>2. k \in DOMAIN s /\ s[k] = id /\ On(m, l) = ToSet(s)
  BY DEF On, ToSet
<1>3. id \in Id
  BY <1>1 DEF On, ToSet
<1>4. b \in Int
  BY <1>1, <1>3 DEF Mem
<1>5. RemoveFrom(m, l, id) = [m EXCEPT !.list[l] = r, !.bytes[l] = b]
  BY <1>1 DEF RemoveFrom, Mem
<1> HIDE DEF k, s, b
<1>6. r \in Seq(Id) /\ IsInjective(r) /\ ToSet(r) = ToSet(s) \ {s[k]}
  BY <1>1, <1>2, TakenOut
<1>7. ToSet(r) = On(m, l) \ {id}
  BY <1>2, <1>6
<1> HIDE DEF r
<1> QED BY <1>4, <1>5, <1>6, <1>7, TakenOff

(* The least recently used of the blocks nobody uses *)
LEMMA VictimUnused ==
  ASSUME NEW m, NEW x, NEW l \in Lists, Sound(m, x), Unused(m, l) # {}
  PROVE  /\ Lru(m, l) \in DOMAIN m.list[l]
         /\ Victim(m, l) \in On(m, l)
         /\ Victim(m, l) \in Id
         /\ usage[Victim(m, l)] = 0
<1>1. m.list[l] \in Seq(Id)
  BY DEF Sound, Mem
<1> DEFINE U == Unused(m, l)
<1>a. U # {}
  OBVIOUS
<1>2. U \subseteq 1..Len(m.list[l]) /\ Len(m.list[l]) \in Nat
  BY <1>1 DEF Unused
<1>3. \E i \in U : \A j \in U : j <= i
  <2> HIDE DEF U
  <2> QED BY <1>a, <1>2, LargestOf
<1>4. Lru(m, l) \in U
  BY <1>3 DEF Lru
<1> QED BY <1>1, <1>2, <1>4 DEF Unused, Victim, On, ToSet

(* cache_remove_lru *)
LEMMA LruRemoved ==
  ASSUME NEW m, NEW x, NEW l \in Lists, Sound(m, x), Unused(m, l) # {}
  PROVE  /\ Sound(RemoveLru(m, l), x \cup {Victim(m, l)})
         /\ Lost(m, RemoveLru(m, l), l, Victim(m, l))
<1> DEFINE s == m.list[l]
           k == Lru(m, l)
           r == SubSeq(s, k + 1, Len(s)) \o SubSeq(s, 1, k - 1)
           b == m.bytes[l] - m.size[s[k]]
<1>1. s \in Seq(Id) /\ IsInjective(s) /\ m \in Mem
  BY DEF Sound, Mem
<1>2. /\ k \in DOMAIN s /\ s[k] = Victim(m, l)
      /\ s[k] \in On(m, l) /\ s[k] \in Id /\ On(m, l) = ToSet(s)
  BY VictimUnused DEF Victim, On
<1>3. b \in Int
  BY <1>1, <1>2 DEF Mem
<1>4. RemoveLru(m, l) = [m EXCEPT !.list[l] = r, !.bytes[l] = b]
  BY <1>1 DEF RemoveLru, Mem
<1> HIDE DEF k, s
<1>5. r \in Seq(Id) /\ IsInjective(r) /\ ToSet(r) = ToSet(s) \ {s[k]}
  BY <1>1, <1>2, TakenOut
<1>6. ToSet(r) = On(m, l) \ {Victim(m, l)} /\ Victim(m, l) \in On(m, l)
  BY <1>2, <1>5
<1> HIDE DEF r, b
<1> QED BY <1>3, <1>4, <1>5, <1>6, TakenOff

(* cache_insert_mru of a block that is on no list *)
LEMMA Inserted ==
  ASSUME NEW m, NEW x, NEW l \in Lists, NEW id \in Id, NEW z \in Nat,
         Sound(m, x), id \in x \/ id \notin m.hash
  PROVE  /\ Sound(InsertMru(m, l, id, z), x \ {id})
         /\ \A k \in Lists : On(InsertMru(m, l, id, z), k)
              = IF k = l THEN On(m, k) \cup {id} ELSE On(m, k)
<1> DEFINE n == InsertMru(m, l, id, z)
           r == <<id>> \o m.list[l]
<1>1. /\ m \in Mem /\ x \subseteq Id
      /\ m.list[l] \in Seq(Id) /\ IsInjective(m.list[l])
      /\ m.hash = x \cup UNION {On(m, k) : k \in Lists}
  BY DEF Sound, Mem
<1>2. \A k \in Lists : id \notin On(m, k)
  BY <1>1 DEF Sound
<1>3. r \in Seq(Id) /\ IsInjective(r) /\ ToSet(r) = {id} \cup On(m, l)
  BY <1>1, <1>2, Pushed DEF On
<1>4. n = [m EXCEPT !.list[l] = r, !.bytes[l] = @ + z, !.size[id] = z,
                    !.hash = @ \cup {id}]
  BY DEF InsertMru
<1> HIDE DEF r
<1>5. n \in Mem /\ n.hash = m.hash \cup {id}
  <2>1. m.bytes[l] + z \in Int /\ m.hash \cup {id} \in SUBSET Id
    BY <1>1 DEF Mem
  <2>2. n = [list |-> [m.list EXCEPT ![l] = r],
             bytes |-> [m.bytes EXCEPT ![l] = m.bytes[l] + z],
             size |-> [m.size EXCEPT ![id] = z], hash |-> m.hash \cup {id}]
    BY <1>1, <1>4 DEF Mem
  <2>3. [m.list EXCEPT ![l] = r] \in [Lists -> Seq(Id)]
    BY <1>1, <1>3 DEF Mem
  <2>4. [m.bytes EXCEPT ![l] = m.bytes[l] + z] \in [Lists -> Int]
    BY <1>1, <2>1 DEF Mem
  <2>5. [m.size EXCEPT ![id] = z] \in [Id -> Nat]
    BY <1>1 DEF Mem
  <2> QED BY <2>1, <2>2, <2>3, <2>4, <2>5 DEF Mem
<1>6. \A k \in Lists : n.list[k] = IF k = l THEN r ELSE m.list[k]
  BY <1>1, <1>4 DEF Mem
<1> HIDE DEF n
<1>7. \A k \in Lists : On(n, k) = IF k = l THEN On(m, k) \cup {id} ELSE On(m, k)
  BY <1>3, <1>6 DEF On
<1>8. \A k \in Lists : IsInjective(n.list[k]) /\ (x \ {id}) \cap On(n, k) = {}
  BY <1>3, <1>6, <1>7 DEF Sound
<1>9. \A k, j \in Lists : k # j => On(n, k) \cap On(n, j) = {}
  BY <1>2, <1>7 DEF Sound
<1>10. n.hash = (x \ {id}) \cup UNION {On(n, k) : k \in Lists}
  <2>1. UNION {On(n, k) : k \in Lists} = {id} \cup UNION {On(m, k) : k \in Lists}
    BY <1>7
  <2> QED BY <1>1, <1>5, <2>1
<1>11. Sound(n, x \ {id})
  BY <1>1, <1>5, <1>8, <1>9, <1>10 DEF Sound
<1> QED BY <1>7, <1>11 DEF n
(* The hash table forgets a block that has been taken off *)
LEMMA Forgotten ==
  ASSUME NEW m, NEW x, NEW id \in Id, id \notin x, Sound(m, x \cup {id}),
         NEW n, n = [m EXCEPT !.hash = @ \ {id}]
  PROVE  /\ Sound(n, x)
         /\ n.hash = m.hash \ {id}
         /\ \A k \in Lists : On(n, k) = On(m, k)
<1>1. m \in Mem /\ x \subseteq Id
  BY DEF Sound
<1>2. n \in Mem /\ n.list = m.list /\ n.hash = m.hash \ {id}
  BY <1>1 DEF Mem
<1>3. \A k \in Lists : On(n, k) = On(m, k)
  BY <1>2 DEF On
<1>4. n.hash = x \cup UNION {On(n, k) : k \in Lists}
  <2>1. m.hash = x \cup {id} \cup UNION {On(m, k) : k \in Lists}
    BY DEF Sound
  <2>2. \A k \in Lists : id \notin On(m, k)
    BY DEF Sound
  <2> QED BY <1>2, <1>3, <2>1, <2>2
<1>5. \A k \in Lists : IsInjective(n.list[k]) /\ x \cap On(n, k) = {}
  BY <1>2, <1>3 DEF Sound
<1>6. \A k, j \in Lists : k # j => On(n, k) \cap On(n, j) = {}
  BY <1>3 DEF Sound
<1> QED BY <1>1, <1>2, <1>3, <1>4, <1>5, <1>6 DEF Sound

-----------------------------------------------------------------------------
(* Making room *)
LEMMA SparesTransitive ==
  ASSUME NEW m, NEW n, NEW p, Spares(m, n), Spares(n, p)
  PROVE  Spares(m, p)
BY DEF Spares

(* cache_move to a list of ghosts *)
LEMMA Moved ==
  ASSUME NEW m, NEW x, NEW l \in {"t1", "t2"}, NEW g \in {"b1", "b2"},
         Sound(m, x), Unused(m, l) # {}
  PROVE  Sound(Move(m, l, g), x) /\ Spares(m, Move(m, l, g))
<1> DEFINE v == Victim(m, l)
           n == RemoveLru(m, l)
           p == InsertMru(n, g, v, EntrySize)
<1>1. l \in Lists /\ g \in Lists /\ EntrySize \in Nat
  BY CacheAssumption DEF Lists
<1>2. Sound(n, x \cup {v}) /\ Lost(m, n, l, v)
  BY <1>1, LruRemoved
<1>3. v \in On(m, l) /\ v \in Id /\ usage[v] = 0
  BY <1>1, VictimUnused
<1>4. v \notin x
  BY <1>1, <1>3 DEF Sound
<1>5. Move(m, l, g) = p
  BY DEF Move
<1>6. n.hash = m.hash
  BY DEF RemoveLru, Sound, Mem
<1> HIDE DEF v, n, p
<1>7. /\ Sound(p, (x \cup {v}) \ {v})
      /\ \A k \in Lists : On(p, k) = IF k = g THEN On(n, k) \cup {v} ELSE On(n, k)
  BY <1>1, <1>2, <1>3, Inserted DEF p
<1>8. (x \cup {v}) \ {v} = x
  BY <1>4
<1>9. \A k \in {"t1", "t2"} :
        On(p, k) = IF k = l THEN On(m, k) \ {v} ELSE On(m, k)
  <2>1. \A k \in {"t1", "t2"} : k \in Lists /\ k # g
    BY DEF Lists
  <2> QED BY <1>2, <1>7, <2>1 DEF Lost
<1>10. p.hash \subseteq m.hash
  <2>1. p.hash = n.hash \cup {v}
    BY <1>2 DEF p, InsertMru, Sound, Mem
  <2>2. v \in m.hash
    BY <1>1, <1>3 DEF Sound
  <2> QED BY <1>6, <2>1, <2>2
<1> QED BY <1>3, <1>5, <1>7, <1>8, <1>9, <1>10 DEF Spares, InMemory

(* cache_replace *)
LEMMA Replaced ==
  ASSUME NEW m, NEW x, NEW target, Sound(m, x)
  PROVE  Sound(Replace(m, target), x) /\ Spares(m, Replace(m, target))
<1>1. Spares(m, m)
  BY DEF Spares
<1>2. Unused(m, "t1") # {} =>
        Sound(Move(m, "t1", "b1"), x) /\ Spares(m, Move(m, "t1", "b1"))
  BY Moved
<1>3. Unused(m, "t2") # {} =>
        Sound(Move(m, "t2", "b2"), x) /\ Spares(m, Move(m, "t2", "b2"))
  BY Moved
<1> QED BY <1>1, <1>2, <1>3 DEF Replace

(* cache_remove_lru *)
LEMMA Freed ==
  ASSUME NEW m, NEW x, NEW l \in Lists, Sound(m, x)
  PROVE  Sound(FreeLru(m, l), x) /\ Spares(m, FreeLru(m, l))
<1>1. CASE Unused(m, l) = {}
  BY <1>1 DEF FreeLru, Spares
<1>2. CASE Unused(m, l) # {}
  <2> DEFINE v == Victim(m, l)
             n == RemoveLru(m, l)
             p == [n EXCEPT !.hash = @ \ {v}]
  <2>1. FreeLru(m, l) = p
    BY <1>2 DEF FreeLru
  <2>2. Sound(n, x \cup {v}) /\ Lost(m, n, l, v)
    BY <1>2, LruRemoved
  <2>3. v \in On(m, l) /\ v \in Id /\ usage[v] = 0
    BY <1>2, VictimUnused
  <2>4. v \notin x
    BY <2>3 DEF Sound
  <2>5. n.hash = m.hash
    BY DEF RemoveLru, Sound, Mem
  <2> HIDE DEF v, n
  <2>6. /\ Sound(p, x)
        /\ p.hash = n.hash \ {v}
        /\ \A k \in Lists : On(p, k) = On(n, k)
    BY <2>2, <2>3, <2>4, Forgotten
  <2> HIDE DEF p
  <2>7. \A k \in {"t1", "t2"} :
          On(p, k) = IF k = l THEN On(m, k) \ {v} ELSE On(m, k)
    <3>1. \A k \in {"t1", "t2"} : k \in Lists
      BY DEF Lists
    <3> QED BY <2>2, <2>6, <3>1 DEF Lost
  <2>8. p.hash \subseteq m.hash
    BY <2>5, <2>6
  <2> QED BY <2>1, <2>3, <2>6, <2>7, <2>8 DEF Spares, InMemory
<1> QED BY <1>1, <1>2

(* cache_insert, before the block goes to t1 *)
LEMMA RoomMade ==
  ASSUME NEW m, NEW x, Sound(m, x)
  PROVE  Sound(MakeRoom(m), x) /\ Spares(m, MakeRoom(m))
<1>1. Spares(m, m)
  BY DEF Spares
<1>2. \A l \in Lists : Sound(FreeLru(m, l), x) /\ Spares(m, FreeLru(m, l))
  BY Freed
<1>3. ASSUME NEW n, Sound(n, x), Spares(m, n)
      PROVE  /\ Sound(Replace(n, t1_target), x)
             /\ Spares(m, Replace(n, t1_target))
  BY <1>3, Replaced, SparesTransitive
<1>4. "b1" \in Lists /\ "t1" \in Lists /\ "b2" \in Lists
  BY DEF Lists
<1>5. /\ Sound(Replace(FreeLru(m, "b1"), t1_target), x)
      /\ Spares(m, Replace(FreeLru(m, "b1"), t1_target))
      /\ Sound(Replace(FreeLru(m, "b2"), t1_target), x)
      /\ Spares(m, Replace(FreeLru(m, "b2"), t1_target))
      /\ Sound(Replace(m, t1_target), x)
      /\ Spares(m, Replace(m, t1_target))
  BY <1>1, <1>2, <1>3, <1>4
<1> QED BY <1>1, <1>2, <1>4, <1>5 DEF MakeRoom
-----------------------------------------------------------------------------
(* The invariant *)
HandlesWell ==
  /\ handle \in [Handle -> [id : Id \cup {None}, live : BOOLEAN]]
  /\ \A h \in Handle : handle[h].live => handle[h].id \in Id

IInv ==
  /\ Sound(mem, {})
  /\ usage \in [Id -> Int]
  /\ HandlesWell
  /\ UsageCounts

LEMMA HoldersFinite ==
  ASSUME NEW id \in Id
  PROVE  /\ IsFiniteSet(Holders(id))
         /\ Cardinality(Holders(id)) \in Nat
         /\ Cardinality(Holders(id)) = 0 <=> Holders(id) = {}
<1>1. Holders(id) \subseteq Handle /\ IsFiniteSet(Handle)
  BY CacheAssumption DEF Holders
<1>2. IsFiniteSet(Holders(id))
  BY <1>1, FS_Subset
<1> QED BY <1>2, FS_EmptySet, FS_CardinalityType

(* Whatever cache_lookup and cache_insert do: the block comes into memory, *)
(* and no block that is used leaves it                                     *)
LEMMA Looked ==
  ASSUME NEW id \in Id, NEW users, IInv,
         Hit(id, users) \/ Ghost(id, users) \/ Miss(id, users)
  PROVE  /\ Sound(mem', {})
         /\ usage' = [usage EXCEPT ![id] = users]
         /\ Resident' \subseteq Resident \cup {id}
         /\ id \in Resident'
         /\ \A j \in Resident : usage[j] # 0 => j \in Resident'
         /\ Ghost(id, users) \/ Miss(id, users) => id \notin Resident
<1>1. Sound(mem, {}) /\ mem.size \in [Id -> Nat]
  BY DEF IInv, Sound, Mem
<1>2. DataSize[id] + EntrySize \in Nat
  BY CacheAssumption
<1>3. "t1" \in Lists /\ "t2" \in Lists /\ "b1" \in Lists /\ "b2" \in Lists
  BY DEF Lists
<1>4. usage' = [usage EXCEPT ![id] = users]
  BY DEF Hit, Ghost, Miss
<1>5. \A l \in {"t1", "t2"} : On(mem, l) \subseteq Resident
  BY DEF Resident
<1>6. Resident = InMemory(mem) /\ Resident' = InMemory(mem')
  BY DEF Resident, InMemory, On
<1>7. \A l \in Lists : Sound(mem, {}) => On(mem, l) \subseteq mem.hash
  BY DEF Sound
<1>8. {} \cup {id} = {id}
  OBVIOUS
<1>a. ASSUME NEW n, NEW l \in {"t1", "t2"}, NEW z \in Nat,
             \/ Sound(n, {id})
             \/ Sound(n, {}) /\ id \notin n.hash,
             mem' = InsertMru(n, l, id, z)
      PROVE  Sound(mem', {}) /\ InMemory(mem') = InMemory(n) \cup {id}
  <2>1. l \in Lists
    BY DEF Lists
  <2>a. PICK x : Sound(n, x) /\ (id \in x \/ id \notin n.hash) /\ x \ {id} = {}
    <3>1. {id} \ {id} = {} /\ {} \ {id} = {} /\ id \in {id}
      OBVIOUS
    <3> QED BY <1>a, <3>1
  <2>2. /\ Sound(InsertMru(n, l, id, z), x \ {id})
        /\ \A k \in Lists : On(InsertMru(n, l, id, z), k)
             = IF k = l THEN On(n, k) \cup {id} ELSE On(n, k)
    BY <2>1, <2>a, Inserted
  <2>3. \A k \in Lists : On(mem', k) = IF k = l THEN On(n, k) \cup {id} ELSE On(n, k)
    BY <1>a, <2>2
  <2> QED BY <1>3, <1>a, <2>2, <2>3, <2>a DEF InMemory
<1>b. Ghost(id, users) \/ Miss(id, users) => id \notin InMemory(mem)
  <2>1. \A l \in {"b1", "b2"} : l \in Lists /\ l # "t1" /\ l # "t2"
    BY DEF Lists
  <2>2. \A k, j \in Lists : k # j => On(mem, k) \cap On(mem, j) = {}
    BY <1>1 DEF Sound
  <2>3. Ghost(id, users) => \E l \in {"b1", "b2"} : id \in On(mem, l)
    BY DEF Ghost
  <2>4. Miss(id, users) => \A l \in Lists : id \notin On(mem, l)
    BY <1>1, <1>7 DEF Miss
  <2> QED BY <1>3, <2>1, <2>2, <2>3, <2>4 DEF InMemory
<1>9. CASE Hit(id, users)
  <2>1. PICK l \in {"t1", "t2"} :
          /\ id \in On(mem, l)
          /\ mem' = InsertMru(RemoveFrom(mem, l, id), "t2", id, mem.size[id])
    BY <1>9 DEF Hit
  <2> DEFINE n == RemoveFrom(mem, l, id)
  <2>2. Sound(n, {id}) /\ Lost(mem, n, l, id)
    BY <1>1, <1>3, <1>8, <2>1, Removed
  <2>3. mem.size[id] \in Nat
    BY <1>1
  <2> HIDE DEF n
  <2>4. mem' = InsertMru(n, "t2", id, mem.size[id])
    BY <2>1 DEF n
  <2>5. Sound(mem', {}) /\ InMemory(mem') = InMemory(n) \cup {id}
    BY <1>a, <2>2, <2>3, <2>4
  <2>6. InMemory(n) \cup {id} = InMemory(mem) \cup {id}
    BY <1>3, <2>2 DEF InMemory, Lost
  <2> QED BY <1>4, <1>6, <1>b, <2>5, <2>6
<1>10. CASE Ghost(id, users)
  <2>1. PICK l \in {"b1", "b2"} :
          /\ id \in On(mem, l)
          /\ mem' = InsertMru(Replace(RemoveFrom(mem, l, id), t1_target'), "t2",
                              id, DataSize[id] + EntrySize)
    BY <1>10 DEF Ghost
  <2> DEFINE n == RemoveFrom(mem, l, id)
             p == Replace(n, t1_target')
  <2>2. l \in Lists /\ l # "t1" /\ l # "t2"
    BY DEF Lists
  <2>3. Sound(n, {id}) /\ Lost(mem, n, l, id)
    BY <1>1, <1>8, <2>1, <2>2, Removed
  <2> HIDE DEF n
  <2>4. Sound(p, {id}) /\ Spares(n, p)
    BY <2>3, Replaced
  <2>5. mem' = InsertMru(p, "t2", id, DataSize[id] + EntrySize)
    BY <2>1 DEF n
  <2> HIDE DEF p
  <2>6. Sound(mem', {}) /\ InMemory(mem') = InMemory(p) \cup {id}
    BY <1>2, <1>a, <2>4, <2>5
  <2>7. InMemory(n) = InMemory(mem)
    BY <1>3, <2>2, <2>3 DEF InMemory, Lost
  <2>8. id \notin InMemory(mem)
    BY <1>10, <1>b
  <2> QED BY <1>4, <1>6, <2>4, <2>6, <2>7, <2>8 DEF Spares
<1>11. CASE Miss(id, users)
  <2> DEFINE p == MakeRoom(mem)
  <2>1. id \notin mem.hash /\ mem' = InsertMru(p, "t1", id, DataSize[id] + EntrySize)
    BY <1>11 DEF Miss
  <2>2. Sound(p, {}) /\ Spares(mem, p)
    BY <1>1, RoomMade
  <2> HIDE DEF p
  <2>3. id \notin p.hash
    BY <2>1, <2>2 DEF Spares
  <2>4. Sound(mem', {}) /\ InMemory(mem') = InMemory(p) \cup {id}
    BY <1>2, <1>a, <2>1, <2>2, <2>3
  <2>5. id \notin InMemory(mem)
    BY <1>11, <1>b
  <2> QED BY <1>4, <1>6, <2>2, <2>4, <2>5 DEF Spares
<1> QED BY <1>9, <1>10, <1>11

(* Discarding a block *)
LEMMA DiscardedWell ==
  ASSUME NEW id, NEW hs \in SUBSET Handle, IInv, Discard(id, hs)
  PROVE  /\ id \in Id
         /\ Sound(mem', {})
         /\ Resident' = Resident \ {id}
<1>1. PICK l \in Lists :
        /\ id \in On(mem, l)
        /\ mem' = [RemoveFrom(mem, l, id) EXCEPT !.hash = @ \ {id}]
  BY DEF Discard
<1>2. Sound(mem, {}) /\ mem.list[l] \in Seq(Id)
  BY DEF IInv, Sound, Mem
<1>3. id \in Id
  BY <1>1, <1>2 DEF On, ToSet
<1> DEFINE n == RemoveFrom(mem, l, id)
<1>4. Sound(n, {id}) /\ Lost(mem, n, l, id)
  <2>1. id \in On(mem, l) /\ Sound(mem, {})
    BY <1>1, <1>2
  <2>2. Sound(n, {} \cup {id}) /\ Lost(mem, n, l, id)
    BY <2>1, Removed
  <2>3. {} \cup {id} = {id}
    OBVIOUS
  <2> QED BY <2>2, <2>3
<1>5. mem' = [n EXCEPT !.hash = @ \ {id}]
  BY <1>1
<1> HIDE DEF n
<1>6. Sound(mem', {}) /\ \A k \in Lists : On(mem', k) = On(n, k)
  <2>1. {} \cup {id} = {id} /\ id \notin {}
    OBVIOUS
  <2> QED BY <1>3, <1>4, <1>5, <2>1, Forgotten
<1>7. \A k \in {"t1", "t2"} : On(mem', k) = On(mem, k) \ {id}
  <2>1. \A k \in {"t1", "t2"} : k \in Lists
    BY DEF Lists
  <2>2. \A k \in Lists : k # l => id \notin On(mem, k)
    BY <1>1, <1>2 DEF Sound
  <2> QED BY <1>4, <1>6, <2>1, <2>2 DEF Lost
<1>8. Resident = InMemory(mem) /\ Resident' = InMemory(mem')
  BY DEF Resident, InMemory, On
<1> QED BY <1>3, <1>6, <1>7, <1>8 DEF InMemory
-----------------------------------------------------------------------------
(* Every step keeps the invariant and is a step of Lending.  The blocks    *)
(* Lending calls lent are those with a valid pointer.                      *)
LEMMA LentIsHeld ==
  /\ \A id : Promise!Lent(id) = Holders(id)
  /\ \A id : Promise!Lent(id)' = Holders(id)'
  /\ Promise!InUse = {id \in Id : Holders(id) # {}}
  /\ Promise!Free = Free
BY DEF Promise!Lent, Promise!InUse, Promise!Free, Free, Holders

LEMMA InitWell == Init => IInv /\ Promise!Init
<1> SUFFICES ASSUME Init PROVE IInv /\ Promise!Init
  OBVIOUS
<1>1. \A l \in Lists : mem.list[l] = <<>> /\ On(mem, l) = {} /\ IsInjective(mem.list[l])
  BY DEF Init, On, ToSet, IsInjective
<1>2. mem \in Mem /\ mem.hash = {}
  <2>1. <<>> \in Seq(Id)
    OBVIOUS
  <2> QED BY <2>1 DEF Init, Mem
<1>3. Sound(mem, {})
  BY <1>1, <1>2 DEF Sound
<1>4. HandlesWell /\ \A id : Holders(id) = {}
  BY DEF Init, HandlesWell, Free, Holders
<1>5. usage \in [Id -> Int] /\ UsageCounts
  <2>1. usage = [id \in Id |-> 0]
    BY DEF Init
  <2>2. \A id \in Id : Cardinality(Holders(id)) = 0
    BY <1>4, FS_EmptySet
  <2>3. usage \in [Id -> Int]
    BY <2>1
  <2> QED BY <1>4, <2>1, <2>2, <2>3 DEF UsageCounts
<1>6. Resident = {}
  BY <1>1 DEF Resident, Lists
<1> QED BY <1>3, <1>4, <1>5, <1>6 DEF IInv, Init, Promise!Init, Promise!Free, Free

LEMMA ReadStep ==
  ASSUME NEW h \in Handle, NEW id \in Id, IInv, Read(h, id)
  PROVE  IInv' /\ Promise!Lend(h, id)
<1>1. handle[h] = Free /\ handle' = [handle EXCEPT ![h] = [id |-> id, live |-> TRUE]]
  BY DEF Read
<1>2. HandlesWell'
  BY <1>1 DEF IInv, HandlesWell
<1>3. /\ h \notin Holders(id)
      /\ \A j \in Id : Holders(j)' = IF j = id THEN Holders(j) \cup {h} ELSE Holders(j)
  BY <1>1 DEF IInv, HandlesWell, Holders, Free
<1>4. PICK users : \/ users = usage[id] + 1 /\ Hit(id, users)
                   \/ users = 1 /\ (Ghost(id, users) \/ Miss(id, users))
  BY DEF Read
<1>5. /\ Sound(mem', {})
      /\ usage' = [usage EXCEPT ![id] = users]
      /\ Resident' \subseteq Resident \cup {id}
      /\ id \in Resident'
      /\ \A j \in Resident : usage[j] # 0 => j \in Resident'
      /\ Ghost(id, users) \/ Miss(id, users) => id \notin Resident
  BY <1>4, Looked
<1>6. /\ \A j \in Id : usage[j] = Cardinality(Holders(j))
      /\ \A j \in Id : Holders(j) # {} => j \in Resident /\ usage[j] # 0
      /\ usage \in [Id -> Int]
  BY HoldersFinite DEF IInv, UsageCounts
<1>7. users = usage[id] + 1
  <2>1. CASE id \notin Resident
    <3>1. Holders(id) = {}
      BY <1>6, <2>1
    <3>2. usage[id] = 0
      BY <1>6, <3>1, HoldersFinite
    <3>3. users = usage[id] + 1 \/ users = 1
      BY <1>4
    <3> QED BY <3>2, <3>3
  <2>2. CASE id \in Resident
    BY <1>4, <1>5, <2>2
  <2> QED BY <2>1, <2>2
<1>8. usage' \in [Id -> Int]
  BY <1>5, <1>6, <1>7
<1>9. \A j \in Id : Holders(j) # {} => j \in Resident'
  BY <1>5, <1>6
<1>10. UsageCounts'
  <2> SUFFICES ASSUME NEW j \in Id
               PROVE  usage'[j] = Cardinality(Holders(j)')
                      /\ (Holders(j)' # {} => j \in Resident')
    BY DEF UsageCounts
  <2>1. CASE j = id
    <3>1. Cardinality(Holders(id) \cup {h}) = Cardinality(Holders(id)) + 1
      BY <1>3, HoldersFinite, FS_AddElement
    <3>2. usage'[id] = usage[id] + 1
      BY <1>5, <1>6, <1>7
    <3> QED BY <1>3, <1>5, <1>6, <2>1, <3>1, <3>2
  <2>2. CASE j # id
    BY <1>3, <1>5, <1>6, <1>9, <2>2
  <2> QED BY <2>1, <2>2
<1>11. Promise!Lend(h, id)
  BY <1>1, <1>5, <1>9, LentIsHeld DEF Promise!Lend
<1> QED BY <1>2, <1>5, <1>8, <1>10, <1>11 DEF IInv

LEMMA ReadFailsStep ==
  ASSUME NEW id \in Id, IInv, ReadFails(id)
  PROVE  IInv' /\ Promise!LendNothing(id)
<1>1. handle' = handle
  BY DEF ReadFails
<1>2. HandlesWell' /\ \A j \in Id : Holders(j)' = Holders(j)
  BY <1>1 DEF IInv, HandlesWell, Holders
<1>3. Ghost(id, 0) \/ Miss(id, 0)
  BY DEF ReadFails
<1>4. /\ Sound(mem', {})
      /\ usage' = [usage EXCEPT ![id] = 0]
      /\ Resident' \subseteq Resident \cup {id}
      /\ id \in Resident'
      /\ \A j \in Resident : usage[j] # 0 => j \in Resident'
      /\ id \notin Resident
  BY <1>3, Looked
<1>6. /\ \A j \in Id : usage[j] = Cardinality(Holders(j))
      /\ \A j \in Id : Holders(j) # {} => j \in Resident /\ usage[j] # 0
      /\ usage \in [Id -> Int]
  BY HoldersFinite DEF IInv, UsageCounts
<1>7. Holders(id) = {} /\ usage[id] = 0
  BY <1>4, <1>6, FS_EmptySet
<1>8. usage' = usage
  BY <1>4, <1>6, <1>7
<1>9. \A j \in Id : Holders(j) # {} => j \in Resident'
  BY <1>4, <1>6
<1>10. UsageCounts'
  BY <1>2, <1>6, <1>8, <1>9 DEF UsageCounts
<1>11. Promise!LendNothing(id)
  BY <1>1, <1>4, <1>9, LentIsHeld DEF Promise!LendNothing
<1> QED BY <1>2, <1>4, <1>6, <1>8, <1>10, <1>11 DEF IInv

LEMMA ReturnStep ==
  ASSUME NEW h \in Handle, IInv, Return(h)
  PROVE  IInv' /\ Promise!Return(h)
<1>1. /\ handle[h] # Free /\ handle' = [handle EXCEPT ![h] = Free]
      /\ mem' = mem /\ Resident' = Resident
  BY DEF Return, Resident, On
<1>2. HandlesWell'
  BY <1>1 DEF IInv, HandlesWell, Free
<1>3. \A j \in Id : Holders(j)' = Holders(j) \ {h}
  BY <1>1 DEF IInv, HandlesWell, Holders, Free
<1>4. /\ \A j \in Id : usage[j] = Cardinality(Holders(j))
      /\ \A j \in Id : Holders(j) # {} => j \in Resident
      /\ usage \in [Id -> Int]
  BY DEF IInv, UsageCounts
<1>5. usage' \in [Id -> Int]
  <2>1. CASE handle[h].live
    <3>1. handle[h].id \in Id /\ usage[handle[h].id] - 1 \in Int
      BY <1>4, <2>1 DEF IInv, HandlesWell
    <3>2. usage' = [usage EXCEPT ![handle[h].id] = usage[handle[h].id] - 1]
      BY <2>1 DEF Return
    <3> QED BY <1>4, <3>1, <3>2
  <2>2. CASE ~handle[h].live
    BY <1>4, <2>2 DEF Return
  <2> QED BY <2>1, <2>2
<1>6. ASSUME NEW j \in Id PROVE usage'[j] = Cardinality(Holders(j)')
  <2>1. Cardinality(Holders(j) \ {h})
          = IF h \in Holders(j) THEN Cardinality(Holders(j)) - 1
            ELSE Cardinality(Holders(j))
    BY HoldersFinite, FS_RemoveElement
  <2>2. h \in Holders(j) <=> handle[h].live /\ handle[h].id = j
    BY DEF Holders
  <2> QED BY <1>3, <1>4, <2>1, <2>2 DEF Return
<1>7. UsageCounts'
  BY <1>1, <1>3, <1>4, <1>6 DEF UsageCounts
<1>8. Promise!Return(h)
  BY <1>1, LentIsHeld DEF Promise!Return
<1> QED BY <1>1, <1>2, <1>5, <1>7, <1>8 DEF IInv

LEMMA DiscardStep ==
  ASSUME NEW id, NEW hs \in SUBSET Handle, hs \subseteq Holders(id),
         IInv, Discard(id, hs)
  PROVE  id \in Id /\ IInv' /\ Promise!Discarded(id, hs)
<1>1. id \in Id /\ Sound(mem', {}) /\ Resident' = Resident \ {id}
  BY DiscardedWell
<1>2. /\ usage' = [usage EXCEPT ![id] = 0]
      /\ handle' = [h \in Handle |->
           IF h \in hs THEN Free
           ELSE IF handle[h].live /\ handle[h].id = id
           THEN [id |-> id, live |-> FALSE] ELSE handle[h]]
  BY DEF Discard
<1>3. HandlesWell'
  BY <1>1, <1>2 DEF IInv, HandlesWell, Free
<1>4. \A j \in Id : Holders(j)' = IF j = id THEN {} ELSE Holders(j)
  <2>1. \A h \in Handle, j \in Id :
          handle'[h].live /\ handle'[h].id = j
          <=> j # id /\ handle[h].live /\ handle[h].id = j
    BY <1>2 DEF Holders, Free
  <2> QED BY <2>1 DEF Holders
<1>5. /\ \A j \in Id : usage[j] = Cardinality(Holders(j))
      /\ \A j \in Id : Holders(j) # {} => j \in Resident
      /\ usage \in [Id -> Int]
  BY DEF IInv, UsageCounts
<1>6. usage' \in [Id -> Int]
  <2>1. usage \in [Id -> Int]
    BY DEF IInv
  <2> QED BY <1>1, <1>2, <2>1
<1>7. UsageCounts'
  BY <1>1, <1>2, <1>4, <1>5, FS_EmptySet DEF UsageCounts
<1>8. Promise!Discarded(id, hs)
  BY <1>1, <1>2, LentIsHeld DEF Promise!Discarded, Holders
<1> QED BY <1>1, <1>3, <1>6, <1>7, <1>8 DEF IInv

LEMMA Step ==
  ASSUME IInv, [Next]_vars
  PROVE  IInv' /\ [Promise!Next]_(Promise!lendingVars)
<1>1. ASSUME NEW h \in Handle, NEW id \in Id, Read(h, id)
      PROVE  IInv' /\ Promise!Next
  BY <1>1, ReadStep DEF Promise!Next
<1>2. ASSUME NEW id \in Id, ReadFails(id)
      PROVE  IInv' /\ Promise!Next
  BY <1>2, ReadFailsStep DEF Promise!Next
<1>3. ASSUME NEW id \in Id, Flush(id)
      PROVE  IInv' /\ Promise!Next
  BY <1>3, DiscardStep DEF Promise!Next, Flush
<1>4. ASSUME NEW h \in Handle, Return(h)
      PROVE  IInv' /\ Promise!Next
  BY <1>4, ReturnStep DEF Promise!Next
<1>5. ASSUME NEW h \in Handle, DataRemove(h)
      PROVE  IInv' /\ Promise!Next
  <2>1. {h} \subseteq Holders(handle[h].id) /\ {h} \in SUBSET Handle
    BY <1>5 DEF DataRemove, Holders
  <2>2. Discard(handle[h].id, {h})
    BY <1>5 DEF DataRemove
  <2>3. IInv' /\ Promise!Discarded(handle[h].id, {h})
    BY <2>1, <2>2, DiscardStep
  <2> QED BY <2>3 DEF Promise!Next
<1>6. ASSUME UNCHANGED vars
      PROVE  IInv' /\ UNCHANGED Promise!lendingVars
  <2>1. mem' = mem /\ usage' = usage /\ handle' = handle /\ Resident' = Resident
    BY <1>6 DEF vars, Resident, On
  <2>2. \A id : Holders(id)' = Holders(id)
    BY <2>1 DEF Holders
  <2>3. UsageCounts' /\ HandlesWell'
    BY <2>1, <2>2 DEF IInv, UsageCounts, HandlesWell
  <2> QED BY <2>1, <2>3 DEF IInv, Promise!lendingVars
<1> QED BY <1>1, <1>2, <1>3, <1>4, <1>5, <1>6 DEF Next

-----------------------------------------------------------------------------
(* Sizes.  What an entry on list l weighs: a ghost has lost its data. *)
Weight(l, id) == IF l \in {"b1", "b2"} THEN EntrySize ELSE DataSize[id] + EntrySize

Sized(m) ==
  /\ \A l \in Lists : HasSum(m.list[l], m.size, m.bytes[l])
  /\ \A l \in Lists : \A id \in On(m, l) : m.size[id] = Weight(l, id)

LEMMA WeightTyped ==
  ASSUME NEW l, NEW id \in Id
  PROVE  Weight(l, id) \in Nat
BY CacheAssumption DEF Weight

LEMMA TakenOffSized ==
  ASSUME NEW m \in Mem, NEW l \in Lists, Sized(m),
         NEW r, ToSet(r) \subseteq On(m, l), NEW b, HasSum(r, m.size, b),
         NEW n, n = [m EXCEPT !.list[l] = r, !.bytes[l] = b]
  PROVE  Sized(n)
<1>1. n.size = m.size
  BY DEF Mem
<1>2. \A k \in Lists : n.list[k] = IF k = l THEN r ELSE m.list[k]
  BY DEF Mem
<1>b. \A k \in Lists : n.bytes[k] = IF k = l THEN b ELSE m.bytes[k]
  BY DEF Mem
<1>3. \A k \in Lists : On(n, k) \subseteq On(m, k)
  BY <1>2 DEF On
<1>4. ASSUME NEW k \in Lists PROVE HasSum(n.list[k], n.size, n.bytes[k])
  <2>1. CASE k = l
    BY <1>1, <1>2, <1>b, <2>1
  <2>2. CASE k # l
    BY <1>1, <1>2, <1>b, <2>2 DEF Sized
  <2> QED BY <2>1, <2>2
<1>5. \A k \in Lists : \A id \in On(n, k) : n.size[id] = Weight(k, id)
  BY <1>1, <1>3 DEF Sized
<1> QED BY <1>4, <1>5 DEF Sized

LEMMA RemovedSized ==
  ASSUME NEW m, NEW x, NEW l \in Lists, NEW id \in On(m, l), Sound(m, x), Sized(m)
  PROVE  Sized(RemoveFrom(m, l, id))
<1> DEFINE s == m.list[l]
           k == CHOOSE i \in DOMAIN s : s[i] = id
           r == SubSeq(s, 1, k - 1) \o SubSeq(s, k + 1, Len(s))
           b == m.bytes[l] - m.size[s[k]]
<1>1. /\ s \in Seq(Id) /\ IsInjective(s) /\ m \in Mem
      /\ m.size \in [Id -> Nat] /\ HasSum(s, m.size, m.bytes[l])
  BY DEF Sound, Mem, Sized
<1>2. k \in DOMAIN s /\ s[k] = id /\ On(m, l) = ToSet(s)
  BY DEF On, ToSet
<1>3. RemoveFrom(m, l, id) = [m EXCEPT !.list[l] = r, !.bytes[l] = b]
  BY <1>1, <1>2 DEF RemoveFrom, Mem
<1> HIDE DEF k, s
<1>a. s \in Seq(Id) /\ IsInjective(s) /\ k \in DOMAIN s
  BY <1>1, <1>2
<1>4. r \in Seq(Id) /\ IsInjective(r) /\ ToSet(r) = ToSet(s) \ {s[k]}
  BY <1>a, TakenOut
<1>5. HasSum(r, m.size, b)
  BY <1>1, <1>2, SumTakenOut
<1> HIDE DEF r, b
<1>6. PICK q, c : q = r /\ c = b
  OBVIOUS
<1>7. ToSet(q) \subseteq On(m, l) /\ HasSum(q, m.size, c) /\ m \in Mem
  BY <1>1, <1>2, <1>4, <1>5, <1>6
<1>8. Sized([m EXCEPT !.list[l] = q, !.bytes[l] = c])
  BY <1>7, TakenOffSized
<1> QED BY <1>3, <1>6, <1>8

LEMMA LruRemovedSized ==
  ASSUME NEW m, NEW x, NEW l \in Lists, Sound(m, x), Sized(m), Unused(m, l) # {}
  PROVE  Sized(RemoveLru(m, l))
<1> DEFINE s == m.list[l]
           k == Lru(m, l)
           r == SubSeq(s, k + 1, Len(s)) \o SubSeq(s, 1, k - 1)
           b == m.bytes[l] - m.size[s[k]]
<1>1. /\ s \in Seq(Id) /\ IsInjective(s) /\ m \in Mem
      /\ m.size \in [Id -> Nat] /\ HasSum(s, m.size, m.bytes[l])
  BY DEF Sound, Mem, Sized
<1>2. k \in DOMAIN s /\ On(m, l) = ToSet(s)
  BY VictimUnused DEF On
<1>3. RemoveLru(m, l) = [m EXCEPT !.list[l] = r, !.bytes[l] = b]
  BY <1>1 DEF RemoveLru, Mem
<1> HIDE DEF k, s
<1>a. s \in Seq(Id) /\ IsInjective(s) /\ k \in DOMAIN s
  BY <1>1, <1>2
<1>4. r \in Seq(Id) /\ IsInjective(r) /\ ToSet(r) = ToSet(s) \ {s[k]}
  BY <1>a, TakenOut
<1>5. HasSum(r, m.size, b)
  BY <1>1, <1>2, SumTakenOut
<1> HIDE DEF r, b
<1>6. PICK q, c : q = r /\ c = b
  OBVIOUS
<1>7. ToSet(q) \subseteq On(m, l) /\ HasSum(q, m.size, c) /\ m \in Mem
  BY <1>1, <1>2, <1>4, <1>5, <1>6
<1>8. Sized([m EXCEPT !.list[l] = q, !.bytes[l] = c])
  BY <1>7, TakenOffSized
<1> QED BY <1>3, <1>6, <1>8

LEMMA InsertedSized ==
  ASSUME NEW m, NEW x, NEW l \in Lists, NEW id \in Id, NEW z, z = Weight(l, id),
         Sound(m, x), id \in x \/ id \notin m.hash, Sized(m)
  PROVE  Sized(InsertMru(m, l, id, z))
<1> DEFINE n == InsertMru(m, l, id, z)
           one == <<id>>
           r == one \o m.list[l]
           g == [m.size EXCEPT ![id] = z]
<1>1. /\ m \in Mem /\ x \subseteq Id
      /\ \A k \in Lists : m.list[k] \in Seq(Id) /\ m.bytes[k] \in Int
      /\ m.size \in [Id -> Nat] /\ z \in Nat
  BY WeightTyped DEF Sound, Mem
<1>2. \A k \in Lists : id \notin On(m, k)
  BY DEF Sound
<1>3. g \in [Id -> Nat] /\ g[id] = z /\ \A j \in Id : j # id => g[j] = m.size[j]
  BY <1>1
<1>4. /\ n.size = g
      /\ \A k \in Lists : n.list[k] = IF k = l THEN r ELSE m.list[k]
  BY <1>1 DEF InsertMru, Mem
<1>b. \A k \in Lists : n.bytes[k] = IF k = l THEN m.bytes[k] + z ELSE m.bytes[k]
  BY <1>1 DEF InsertMru, Mem
<1>5. \A k \in Lists : On(n, k) = IF k = l THEN On(m, k) \cup {id} ELSE On(m, k)
  <2> HIDE DEF n
  <2>1. /\ Sound(InsertMru(m, l, id, z), x \ {id})
        /\ \A k \in Lists : On(InsertMru(m, l, id, z), k)
              = IF k = l THEN On(m, k) \cup {id} ELSE On(m, k)
    BY <1>1, Inserted
  <2> QED BY <2>1 DEF n
<1>6. \A k \in Lists : \A j \in On(m, k) : j \in Id /\ j # id
  BY <1>1, <1>2 DEF On, ToSet
<1>7. one \in Seq(Id) /\ HasSum(one, g, z)
  BY <1>3, SumOfOne
<1> HIDE DEF n, one, g
<1>8. ASSUME NEW k \in Lists PROVE HasSum(m.list[k], g, m.bytes[k])
  <2>1. PICK s, w : s = m.list[k] /\ w = m.bytes[k]
    OBVIOUS
  <2>2. s \in Seq(Id) /\ HasSum(s, m.size, w) /\ \A j \in ToSet(s) : m.size[j] = g[j]
    BY <1>1, <1>3, <1>6, <2>1 DEF Sized, On
  <2>3. HasSum(s, g, w)
    BY <2>2, SumSame
  <2> QED BY <2>1, <2>3
<1>9. HasSum(r, g, z + m.bytes[l])
  BY <1>1, <1>3, <1>7, <1>8, SumConcat
<1> HIDE DEF r
<1>10. z + m.bytes[l] = m.bytes[l] + z
  <2>1. m.bytes[l] \in Int
    BY <1>1
  <2> QED BY <1>1, <2>1
<1>11. ASSUME NEW k \in Lists PROVE HasSum(n.list[k], n.size, n.bytes[k])
  <2>1. CASE k = l
    BY <1>4, <1>b, <1>9, <1>10, <2>1
  <2>2. CASE k # l
    BY <1>4, <1>b, <1>8, <2>2
  <2> QED BY <2>1, <2>2
<1>12. \A k \in Lists : \A j \in On(n, k) : n.size[j] = Weight(k, j)
  <2>1. ASSUME NEW k \in Lists, NEW j \in On(m, k) PROVE n.size[j] = Weight(k, j)
    BY <1>3, <1>4, <1>6 DEF Sized
  <2>2. n.size[id] = Weight(l, id)
    BY <1>3, <1>4
  <2> QED BY <1>5, <2>1, <2>2
<1>13. Sized(n)
  BY <1>11, <1>12 DEF Sized
<1> QED BY <1>13 DEF n

LEMMA InsertedInMemory ==
  ASSUME NEW m, NEW x, NEW l \in {"t1", "t2"}, NEW id \in Id, NEW z \in Nat,
         Sound(m, x), id \in x \/ id \notin m.hash
  PROVE  InMemory(InsertMru(m, l, id, z)) = InMemory(m) \cup {id}
<1>1. l \in Lists /\ "t1" \in Lists /\ "t2" \in Lists
  BY DEF Lists
<1> DEFINE n == InsertMru(m, l, id, z)
<1>2. /\ Sound(n, x \ {id})
      /\ \A k \in Lists : On(n, k) = IF k = l THEN On(m, k) \cup {id} ELSE On(m, k)
  BY <1>1, Inserted
<1> HIDE DEF n
<1>3. /\ On(n, "t1") = IF l = "t1" THEN On(m, "t1") \cup {id} ELSE On(m, "t1")
      /\ On(n, "t2") = IF l = "t2" THEN On(m, "t2") \cup {id} ELSE On(m, "t2")
  BY <1>1, <1>2
<1>4. InMemory(n) = InMemory(m) \cup {id}
  <2>1. CASE l = "t1"
    BY <1>3, <2>1 DEF InMemory
  <2>2. CASE l = "t2"
    BY <1>3, <2>2 DEF InMemory
  <2> QED BY <2>1, <2>2
<1> QED BY <1>4 DEF n

LEMMA ForgottenSized ==
  ASSUME NEW m \in Mem, Sized(m), NEW h
  PROVE  Sized([m EXCEPT !.hash = h])
BY DEF Sized, Mem, On

(* A block goes out of memory *)
Evicts(m, n) == \E id \in InMemory(m) : id \notin InMemory(n)

LEMMA MovedSized ==
  ASSUME NEW m, NEW x, NEW l \in {"t1", "t2"}, NEW g \in {"b1", "b2"},
         Sound(m, x), Sized(m), Unused(m, l) # {}
  PROVE  Sized(Move(m, l, g)) /\ Evicts(m, Move(m, l, g))
<1> DEFINE v == Victim(m, l)
           n == RemoveLru(m, l)
           p == InsertMru(n, g, v, EntrySize)
<1>1. /\ l \in Lists /\ g \in Lists /\ EntrySize = Weight(g, v) /\ EntrySize \in Nat
      /\ \A k \in {"t1", "t2"} : k \in Lists /\ k # g
  BY CacheAssumption DEF Lists, Weight
<1>2. Sound(n, x \cup {v}) /\ Lost(m, n, l, v) /\ Sized(n)
  BY <1>1, LruRemoved, LruRemovedSized
<1>3. v \in On(m, l) /\ v \in Id
  BY <1>1, VictimUnused
<1>4. Move(m, l, g) = p
  BY DEF Move
<1> HIDE DEF v, n
<1>5. v \in x \cup {v}
  OBVIOUS
<1>6. Sized(p)
  BY <1>1, <1>2, <1>3, <1>5, InsertedSized
<1> HIDE DEF p
<1>7. /\ Sound(p, (x \cup {v}) \ {v})
      /\ \A k \in Lists : On(p, k) = IF k = g THEN On(n, k) \cup {v} ELSE On(n, k)
  BY <1>1, <1>2, <1>3, <1>5, Inserted DEF p
<1>8. \A k \in Lists : k # l => v \notin On(m, k)
  BY <1>1, <1>3 DEF Sound
<1>9. v \in InMemory(m) /\ v \notin InMemory(p)
  <2>1. \A k \in {"t1", "t2"} : v \notin On(p, k)
    BY <1>1, <1>2, <1>7, <1>8 DEF Lost
  <2> QED BY <1>3, <2>1 DEF InMemory
<1> QED BY <1>4, <1>6, <1>9 DEF Evicts

LEMMA ReplacedSized ==
  ASSUME NEW m, NEW x, NEW target, Sound(m, x), Sized(m)
  PROVE  /\ Sized(Replace(m, target))
         /\ Unused(m, "t1") # {} \/ Unused(m, "t2") # {} => Evicts(m, Replace(m, target))
<1>1. Unused(m, "t1") # {} =>
        Sized(Move(m, "t1", "b1")) /\ Evicts(m, Move(m, "t1", "b1"))
  BY MovedSized
<1>2. Unused(m, "t2") # {} =>
        Sized(Move(m, "t2", "b2")) /\ Evicts(m, Move(m, "t2", "b2"))
  BY MovedSized
<1> QED BY <1>1, <1>2 DEF Replace

LEMMA FreedSized ==
  ASSUME NEW m, NEW x, NEW l \in Lists, Sound(m, x), Sized(m)
  PROVE  /\ Sized(FreeLru(m, l))
         /\ l \in {"t1", "t2"} /\ Unused(m, l) # {} => Evicts(m, FreeLru(m, l))
         /\ \A k \in Lists : k # l => FreeLru(m, l).list[k] = m.list[k]
<1>1. CASE Unused(m, l) = {}
  BY <1>1 DEF FreeLru
<1>2. CASE Unused(m, l) # {}
  <2> DEFINE v == Victim(m, l)
             n == RemoveLru(m, l)
             p == [n EXCEPT !.hash = @ \ {v}]
  <2>1. FreeLru(m, l) = p
    BY <1>2 DEF FreeLru
  <2>2. Sound(n, x \cup {v}) /\ Lost(m, n, l, v) /\ Sized(n) /\ n \in Mem
    <3>1. Sound(n, x \cup {v}) /\ Lost(m, n, l, v) /\ Sized(n)
      BY <1>2, LruRemoved, LruRemovedSized
    <3> QED BY <3>1 DEF Sound
  <2>3. v \in On(m, l)
    BY <1>2, VictimUnused
  <2>4. \A k \in Lists : k # l => n.list[k] = m.list[k]
    BY DEF RemoveLru, Sound, Mem
  <2> HIDE DEF v, n
  <2>5. Sized(p)
    BY <2>2, ForgottenSized
  <2>6. p.list = n.list
    BY <2>2 DEF Mem
  <2>7. \A k \in Lists : On(p, k) = On(n, k)
    BY <2>6 DEF On
  <2> HIDE DEF p
  <2>8. ASSUME l \in {"t1", "t2"} PROVE Evicts(m, p)
    <3>1. \A k \in Lists : k # l => v \notin On(m, k)
      BY <2>3 DEF Sound
    <3>2. \A k \in {"t1", "t2"} : k \in Lists /\ v \notin On(p, k)
      BY <2>2, <2>7, <3>1 DEF Lost, Lists
    <3>3. v \in InMemory(m) /\ v \notin InMemory(p)
      BY <2>3, <2>8, <3>2 DEF InMemory
    <3> QED BY <3>3 DEF Evicts
  <2> QED BY <2>1, <2>4, <2>5, <2>6, <2>8
<1> QED BY <1>1, <1>2

(* cache_insert makes room, if it can *)
LEMMA RoomMadeSized ==
  ASSUME NEW m, NEW x, Sound(m, x), Sized(m)
  PROVE  /\ Sized(MakeRoom(m))
         /\ m.bytes["t1"] + m.bytes["t2"] >= CacheSize =>
              \/ Evicts(m, MakeRoom(m))
              \/ Unused(m, "t1") = {} /\ (\/ Unused(m, "t2") = {}
                                          \/ m.bytes["t1"] >= CacheSize)
<1>1. "t1" \in Lists /\ "t2" \in Lists /\ "b1" \in Lists /\ "b2" \in Lists
  BY DEF Lists
<1>2. \A l \in Lists : m.bytes[l] \in Nat
  <2> SUFFICES ASSUME NEW l \in Lists PROVE m.bytes[l] \in Nat
    OBVIOUS
  <2>1. PICK s, f, n : s = m.list[l] /\ f = m.size /\ n = m.bytes[l]
    OBVIOUS
  <2>2. s \in Seq(Id) /\ f \in [Id -> Nat] /\ HasSum(s, f, n)
    BY <2>1 DEF Sound, Mem, Sized
  <2> QED BY <2>1, <2>2, SumIs
<1>3. ASSUME NEW n, Sound(n, x), Sized(n), n.list["t1"] = m.list["t1"],
             n.list["t2"] = m.list["t2"]
      PROVE  /\ Sized(Replace(n, t1_target))
             /\ Unused(m, "t1") # {} \/ Unused(m, "t2") # {} =>
                  Evicts(m, Replace(n, t1_target))
  <2>1. Unused(n, "t1") = Unused(m, "t1") /\ Unused(n, "t2") = Unused(m, "t2")
    BY <1>3 DEF Unused
  <2>2. InMemory(n) = InMemory(m)
    BY <1>3 DEF InMemory, On
  <2> QED BY <1>3, <2>1, <2>2, ReplacedSized DEF Evicts
<1>4. \A l \in {"b1", "b2"} :
        /\ Sized(Replace(FreeLru(m, l), t1_target))
        /\ Unused(m, "t1") # {} \/ Unused(m, "t2") # {} =>
             Evicts(m, Replace(FreeLru(m, l), t1_target))
  <2> SUFFICES ASSUME NEW l \in {"b1", "b2"}
               PROVE  /\ Sized(Replace(FreeLru(m, l), t1_target))
                      /\ Unused(m, "t1") # {} \/ Unused(m, "t2") # {} =>
                           Evicts(m, Replace(FreeLru(m, l), t1_target))
    OBVIOUS
  <2>1. l \in Lists /\ l # "t1" /\ l # "t2"
    BY DEF Lists
  <2>2. Sound(FreeLru(m, l), x) /\ Sized(FreeLru(m, l))
    BY <2>1, Freed, FreedSized
  <2>3. \A k \in {"t1", "t2"} : FreeLru(m, l).list[k] = m.list[k]
    BY <1>1, <2>1, FreedSized
  <2> QED BY <1>3, <2>2, <2>3
<1>5. /\ Sized(Replace(m, t1_target))
      /\ Unused(m, "t1") # {} \/ Unused(m, "t2") # {} => Evicts(m, Replace(m, t1_target))
  BY <1>3
<1>6. /\ Sized(FreeLru(m, "t1"))
      /\ Unused(m, "t1") # {} => Evicts(m, FreeLru(m, "t1"))
  BY <1>1, FreedSized
<1>7. CASE m.bytes["t1"] + m.bytes["b1"] >= CacheSize /\ m.bytes["t1"] < CacheSize
  <2>1. MakeRoom(m) = Replace(FreeLru(m, "b1"), t1_target)
    BY <1>7 DEF MakeRoom
  <2> QED BY <1>4, <2>1
<1>8. CASE m.bytes["t1"] + m.bytes["b1"] >= CacheSize /\ ~(m.bytes["t1"] < CacheSize)
  <2>1. MakeRoom(m) = FreeLru(m, "t1")
    BY <1>8 DEF MakeRoom
  <2>2. m.bytes["t1"] >= CacheSize
    BY <1>1, <1>2, <1>8, CacheAssumption
  <2> QED BY <1>6, <2>1, <2>2
<1>9. CASE ~(m.bytes["t1"] + m.bytes["b1"] >= CacheSize) /\ Total(m) >= CacheSize
  <2>1. \/ MakeRoom(m) = Replace(FreeLru(m, "b2"), t1_target)
        \/ MakeRoom(m) = Replace(m, t1_target)
    BY <1>9 DEF MakeRoom
  <2> QED BY <1>4, <1>5, <2>1
<1>10. CASE ~(m.bytes["t1"] + m.bytes["b1"] >= CacheSize) /\ ~(Total(m) >= CacheSize)
  <2>1. MakeRoom(m) = m
    BY <1>10 DEF MakeRoom
  <2>2. ~(m.bytes["t1"] + m.bytes["t2"] >= CacheSize)
    <3>1. PICK a, b, c, d : /\ a = m.bytes["t1"] /\ b = m.bytes["t2"]
                            /\ c = m.bytes["b1"] /\ d = m.bytes["b2"]
      OBVIOUS
    <3>2. a \in Nat /\ b \in Nat /\ c \in Nat /\ d \in Nat /\ CacheSize \in Nat
      BY <1>1, <1>2, <3>1, CacheAssumption
    <3>3. ~(a + b + c + d >= CacheSize)
      BY <1>10, <3>1 DEF Total
    <3>4. ~(a + b >= CacheSize)
      BY <3>2, <3>3
    <3> QED BY <3>1, <3>4
  <2> QED BY <2>1, <2>2
<1> QED BY <1>7, <1>8, <1>9, <1>10

-----------------------------------------------------------------------------
(* With the sizes: what the target is, and that something goes.            *)
SInv == Sized(mem) /\ t1_target \in 0..CacheSize

LEMMA GhostTarget ==
  ASSUME NEW l \in {"b1", "b2"}, NEW id \in On(mem, l), IInv, SInv
  PROVE  /\ l = "b1" =>
              Smaller(t1_target + Larger(mem.bytes["b2"] \div mem.bytes["b1"], 1), CacheSize)
                \in 0..CacheSize
         /\ l = "b2" =>
              Larger(t1_target - Larger(mem.bytes["b1"] \div mem.bytes["b2"], 1), 0)
                \in 0..CacheSize
<1>1. l \in Lists /\ CacheSize \in Nat /\ t1_target \in 0..CacheSize /\ EntrySize \in Nat \ {0}
  BY CacheAssumption DEF Lists, SInv
<1>2. mem.bytes["b1"] \in Int /\ mem.bytes["b2"] \in Int
  BY DEF IInv, Sound, Mem, Lists
<1>3. mem.bytes[l] \in Nat /\ mem.bytes[l] > 0
  <2>1. PICK s, f, n : s = mem.list[l] /\ f = mem.size /\ n = mem.bytes[l]
    OBVIOUS
  <2>2. s \in Seq(Id) /\ f \in [Id -> Nat] /\ HasSum(s, f, n)
    BY <1>1, <2>1 DEF IInv, SInv, Sound, Mem, Sized
  <2>3. id \in ToSet(s) /\ f[id] = EntrySize
    BY <1>1, <2>1 DEF SInv, Sized, On, Weight
  <2>4. n \in Nat /\ EntrySize <= n
    BY <2>2, <2>3, SumIs
  <2> QED BY <1>1, <2>1, <2>4
<1>4. ASSUME NEW a \in Int, NEW b \in Int, b > 0
      PROVE  Larger(a \div b, 1) \in Int /\ Larger(a \div b, 1) >= 1
  <2>1. a \div b \in Int
    BY <1>4
  <2> QED BY <2>1 DEF Larger
<1>5. ASSUME NEW a \in Int, a >= 1
      PROVE  /\ Smaller(t1_target + a, CacheSize) \in 0..CacheSize
             /\ Larger(t1_target - a, 0) \in 0..CacheSize
  BY <1>1, <1>5 DEF Smaller, Larger
<1>6. CASE l = "b1"
  <2>1. PICK a : a = Larger(mem.bytes["b2"] \div mem.bytes["b1"], 1)
    OBVIOUS
  <2>2. a \in Int /\ a >= 1
    BY <1>2, <1>3, <1>4, <1>6, <2>1
  <2> QED BY <1>5, <1>6, <2>1, <2>2
<1>7. CASE l = "b2"
  <2>1. PICK a : a = Larger(mem.bytes["b1"] \div mem.bytes["b2"], 1)
    OBVIOUS
  <2>2. a \in Int /\ a >= 1
    BY <1>2, <1>3, <1>4, <1>7, <2>1
  <2> QED BY <1>5, <1>7, <2>1, <2>2
<1> QED BY <1>6, <1>7

(* The condition under which nothing has to go *)
AllUsed == Unused(mem, "t1") = {} /\ (\/ Unused(mem, "t2") = {}
                                     \/ mem.bytes["t1"] >= CacheSize)

LEMMA LookedSized ==
  ASSUME NEW id \in Id, NEW users, IInv, SInv,
         Hit(id, users) \/ Ghost(id, users) \/ Miss(id, users)
  PROVE  /\ SInv'
         /\ mem.bytes["t1"] + mem.bytes["t2"] >= CacheSize /\ id \notin Resident =>
              AllUsed \/ \E j \in Resident : j \notin Resident'
<1>1. Sound(mem, {}) /\ Sized(mem) /\ t1_target \in 0..CacheSize
  BY DEF IInv, SInv
<1>2. /\ "t1" \in Lists /\ "t2" \in Lists /\ "b1" \in Lists /\ "b2" \in Lists
      /\ DataSize[id] + EntrySize = Weight("t1", id)
      /\ DataSize[id] + EntrySize = Weight("t2", id)
      /\ DataSize[id] + EntrySize \in Nat
  BY CacheAssumption DEF Lists, Weight
<1>3. Resident = InMemory(mem) /\ Resident' = InMemory(mem')
  BY DEF Resident, InMemory, On
<1>4. {} \cup {id} = {id}
  OBVIOUS
<1>5. CASE Hit(id, users)
  <2>1. PICK l \in {"t1", "t2"} :
          /\ id \in On(mem, l)
          /\ mem' = InsertMru(RemoveFrom(mem, l, id), "t2", id, mem.size[id])
    BY <1>5 DEF Hit
  <2> DEFINE n == RemoveFrom(mem, l, id)
  <2>2. Sound(n, {id}) /\ Sized(n)
    <3>1. l \in Lists /\ id \in On(mem, l)
      BY <1>2, <2>1
    <3>2. Sound(n, {} \cup {id}) /\ Lost(mem, n, l, id)
      BY <1>1, <3>1, Removed
    <3>3. Sized(n)
      BY <1>1, <3>1, RemovedSized
    <3> QED BY <1>4, <3>2, <3>3
  <2>3. mem.size[id] = Weight("t2", id)
    BY <1>1, <1>2, <2>1 DEF Sized, Weight
  <2> HIDE DEF n
  <2>4. id \in {id} /\ mem' = InsertMru(n, "t2", id, mem.size[id])
    BY <2>1 DEF n
  <2>5. Sized(mem')
    BY <1>2, <2>2, <2>3, <2>4, InsertedSized
  <2>6. t1_target' = t1_target
    BY <1>5 DEF Hit
  <2>7. id \in Resident
    BY <2>1 DEF Resident
  <2> QED BY <1>1, <2>5, <2>6, <2>7 DEF SInv
<1>6. CASE Ghost(id, users)
  <2>1. PICK l \in {"b1", "b2"} :
          /\ id \in On(mem, l)
          /\ t1_target' =
               IF l = "b1"
               THEN Smaller(t1_target + Larger(mem.bytes["b2"] \div mem.bytes["b1"], 1),
                            CacheSize)
               ELSE Larger(t1_target - Larger(mem.bytes["b1"] \div mem.bytes["b2"], 1),
                           0)
          /\ mem' = InsertMru(Replace(RemoveFrom(mem, l, id), t1_target'), "t2",
                              id, DataSize[id] + EntrySize)
    BY <1>6 DEF Ghost
  <2>2. t1_target' \in 0..CacheSize
    <3>1. CASE l = "b1"
      BY <2>1, <3>1, GhostTarget
    <3>2. CASE l = "b2"
      BY <2>1, <3>2, GhostTarget
    <3> QED BY <3>1, <3>2
  <2>3. PICK target : target = t1_target'
    OBVIOUS
  <2> DEFINE n == RemoveFrom(mem, l, id)
             p == Replace(n, target)
  <2>4. l \in Lists /\ l # "t1" /\ l # "t2" /\ id \in On(mem, l)
    BY <2>1 DEF Lists
  <2>5. Sound(n, {id}) /\ Sized(n) /\ Lost(mem, n, l, id)
    <3>1. Sound(n, {} \cup {id}) /\ Lost(mem, n, l, id)
      BY <1>1, <2>4, Removed
    <3>2. Sized(n)
      BY <1>1, <2>4, RemovedSized
    <3> QED BY <1>4, <3>1, <3>2
  <2>6. n.list["t1"] = mem.list["t1"] /\ n.list["t2"] = mem.list["t2"]
    BY <1>1, <2>4 DEF RemoveFrom, Sound, Mem
  <2> HIDE DEF n
  <2>7. Unused(n, "t1") = Unused(mem, "t1") /\ Unused(n, "t2") = Unused(mem, "t2")
    BY <2>6 DEF Unused
  <2>8. InMemory(n) = InMemory(mem)
    BY <2>6 DEF InMemory, On
  <2>9. Sound(p, {id}) /\ Sized(p)
    BY <2>5, Replaced, ReplacedSized
  <2>10. Unused(n, "t1") # {} \/ Unused(n, "t2") # {} => Evicts(n, p)
    BY <2>5, ReplacedSized
  <2> HIDE DEF p
  <2>11. id \in {id} /\ mem' = InsertMru(p, "t2", id, DataSize[id] + EntrySize)
    BY <2>1, <2>3 DEF n, p
  <2>12. Sized(mem')
    BY <1>2, <2>9, <2>11, InsertedSized
  <2>13. InMemory(mem') = InMemory(p) \cup {id}
    BY <1>2, <2>9, <2>11, InsertedInMemory
  <2>14. id \notin InMemory(mem)
    BY <1>1, <1>2, <2>4 DEF InMemory, Sound
  <2>15. AllUsed \/ \E j \in Resident : j \notin Resident'
    BY <1>3, <2>7, <2>8, <2>10, <2>13, <2>14 DEF AllUsed, Evicts
  <2> QED BY <2>2, <2>12, <2>15 DEF SInv
<1>7. CASE Miss(id, users)
  <2> DEFINE p == MakeRoom(mem)
  <2>1. id \notin mem.hash /\ mem' = InsertMru(p, "t1", id, DataSize[id] + EntrySize)
    BY <1>7 DEF Miss
  <2>2. Sound(p, {}) /\ Sized(p) /\ Spares(mem, p)
    BY <1>1, RoomMade, RoomMadeSized
  <2>3. mem.bytes["t1"] + mem.bytes["t2"] >= CacheSize => Evicts(mem, p) \/ AllUsed
    BY <1>1, RoomMadeSized DEF AllUsed
  <2> HIDE DEF p
  <2>4. id \notin p.hash
    BY <2>1, <2>2 DEF Spares
  <2>5. Sized(mem')
    BY <1>2, <2>1, <2>2, <2>4, InsertedSized
  <2>6. InMemory(mem') = InMemory(p) \cup {id}
    BY <1>2, <2>1, <2>2, <2>4, InsertedInMemory
  <2>7. id \notin InMemory(mem)
    BY <1>1, <1>2, <2>1 DEF InMemory, Sound
  <2>8. t1_target' = t1_target
    BY <1>7 DEF Miss
  <2> QED BY <1>1, <1>3, <2>3, <2>5, <2>6, <2>7, <2>8 DEF SInv, Evicts
<1> QED BY <1>5, <1>6, <1>7

LEMMA DiscardedSized ==
  ASSUME NEW id, NEW hs, IInv, SInv, Discard(id, hs)
  PROVE  SInv'
<1>1. PICK l \in Lists :
        /\ id \in On(mem, l)
        /\ mem' = [RemoveFrom(mem, l, id) EXCEPT !.hash = @ \ {id}]
  BY DEF Discard
<1>2. Sound(mem, {}) /\ Sized(mem) /\ t1_target' = t1_target
  BY DEF IInv, SInv, Discard
<1> DEFINE n == RemoveFrom(mem, l, id)
<1>3. Sound(n, {} \cup {id}) /\ Lost(mem, n, l, id)
  BY <1>1, <1>2, Removed
<1>4. Sized(n) /\ n \in Mem
  <2>1. Sized(n)
    BY <1>1, <1>2, RemovedSized
  <2> QED BY <1>3, <2>1 DEF Sound
<1>5. PICK h : mem' = [n EXCEPT !.hash = h]
  BY <1>1
<1> HIDE DEF n
<1>6. Sized(mem')
  BY <1>4, <1>5, ForgottenSized
<1> QED BY <1>2, <1>6 DEF SInv

LEMMA StepSized ==
  ASSUME IInv, SInv, [Next]_vars
  PROVE  /\ SInv'
         /\ \/ UNCHANGED vars
            \/ mem.bytes["t1"] + mem.bytes["t2"] >= CacheSize
                /\ (\E id \in Id \ Resident : id \in Resident')
                => AllUsed \/ \E id \in Resident : id \notin Resident'
<1> DEFINE Room == mem.bytes["t1"] + mem.bytes["t2"] >= CacheSize
                     /\ (\E id \in Id \ Resident : id \in Resident')
                     => AllUsed \/ \E id \in Resident : id \notin Resident'
<1>1. ASSUME NEW id \in Id, NEW users,
             Hit(id, users) \/ Ghost(id, users) \/ Miss(id, users)
      PROVE  SInv' /\ Room
  <2>1. SInv' /\ (mem.bytes["t1"] + mem.bytes["t2"] >= CacheSize /\ id \notin Resident =>
                   AllUsed \/ \E j \in Resident : j \notin Resident')
    BY <1>1, LookedSized
  <2>2. Resident' \subseteq Resident \cup {id}
    BY <1>1, Looked
  <2> QED BY <2>1, <2>2
<1>2. ASSUME NEW h \in Handle, NEW id \in Id, Read(h, id)
      PROVE  SInv' /\ Room
  BY <1>1, <1>2 DEF Read
<1>3. ASSUME NEW id \in Id, ReadFails(id)
      PROVE  SInv' /\ Room
  BY <1>1, <1>3 DEF ReadFails
<1>4. ASSUME NEW id, NEW hs \in SUBSET Handle, Discard(id, hs)
      PROVE  SInv' /\ Room
  <2>1. Resident' = Resident \ {id}
    BY <1>4, DiscardedWell
  <2> QED BY <1>4, <2>1, DiscardedSized
<1>5. ASSUME mem' = mem, t1_target' = t1_target
      PROVE  SInv' /\ Room
  <2>1. Resident' = Resident
    BY <1>5 DEF Resident, On
  <2> QED BY <1>5, <2>1 DEF SInv
<1> HIDE DEF Room
<1>6. SInv' /\ Room
  <2>1. ASSUME NEW id \in Id, Flush(id) PROVE SInv' /\ Room
    BY <1>4, <2>1 DEF Flush
  <2>2. ASSUME NEW h \in Handle, DataRemove(h) PROVE SInv' /\ Room
    <3>1. {h} \in SUBSET Handle
      OBVIOUS
    <3> QED BY <1>4, <2>2, <3>1 DEF DataRemove
  <2>3. ASSUME NEW h \in Handle, Return(h) PROVE SInv' /\ Room
    BY <1>5, <2>3 DEF Return
  <2>4. CASE UNCHANGED vars
    BY <1>5, <2>4 DEF vars
  <2> QED BY <1>2, <1>3, <2>1, <2>2, <2>3, <2>4 DEF Next
<1> QED BY <1>6 DEF Room

LEMMA InitSized == Init => SInv
<1> SUFFICES ASSUME Init PROVE SInv
  OBVIOUS
<1>1. \A l \in Lists : mem.list[l] = <<>> /\ mem.bytes[l] = 0 /\ On(mem, l) = {}
  BY DEF Init, On, ToSet
<1>2. <<>> \in Seq(Id) /\ Len(<<>>) = 0
  OBVIOUS
<1>3. HasSum(<<>>, mem.size, 0)
  BY <1>2, SumOfNothing
<1>4. Sized(mem)
  BY <1>1, <1>3 DEF Sized
<1>5. t1_target = 0 /\ CacheSize \in Nat
  BY CacheAssumption DEF Init
<1>6. t1_target \in 0..CacheSize
  BY <1>5
<1> QED BY <1>4, <1>6 DEF SInv

-----------------------------------------------------------------------------
LEMMA Invariance == Spec => []IInv
<1>1. IInv /\ [Next]_vars => IInv'
  BY Step
<1> QED BY <1>1, InitWell, PTL DEF Spec

(* Whatever is read, given back and discarded in whatever order, a block   *)
(* is on one list at most and the hash table finds what is on the lists.   *)
THEOREM ListsAlwaysMatchHash == Spec => []ListsMatchHash
<1>1. IInv => ListsMatchHash
  BY DEF IInv, Sound, ListsMatchHash
<1> QED BY <1>1, Invariance, PTL

(* entry->usage counts the valid pointers, and a block with one is in      *)
(* memory.                                                                 *)
THEOREM UsageAlwaysCounts == Spec => []UsageCounts
<1>1. IInv => UsageCounts
  BY DEF IInv
<1> QED BY <1>1, Invariance, PTL

(* The adaptive replacement cache implements Lending: evicting, trimming   *)
(* and moving entries is invisible to those who hold a block.              *)
THEOREM KeepsPromiseAlways == Spec => KeepsPromise
<1>1. IInv /\ [Next]_vars => [Promise!Next]_(Promise!lendingVars)
  BY Step
<1> QED BY <1>1, InitWell, Invariance, PTL DEF Spec, KeepsPromise, Promise!Spec

LEMMA SizedAlways == Spec => []SInv
<1>1. IInv /\ SInv /\ [Next]_vars => SInv'
  BY StepSized
<1> QED BY <1>1, InitSized, Invariance, PTL DEF Spec

(* list->size is what the entries on the list weigh, in every step between *)
(* the lists, and a ghost has lost its data: what cache_insert compares    *)
(* with the size of the cache is the memory that is taken.                 *)
THEOREM SizesAlwaysAddUp == Spec => []SizesAddUp
<1>1. IInv /\ SInv => SizesAddUp
  <2> SUFFICES ASSUME IInv, SInv PROVE SizesAddUp
    OBVIOUS
  <2>1. ASSUME NEW l \in Lists PROVE mem.bytes[l] = SumOf(mem.list[l], mem.size)
    <3>1. PICK s, f, n : s = mem.list[l] /\ f = mem.size /\ n = mem.bytes[l]
      OBVIOUS
    <3>2. s \in Seq(Id) /\ f \in [Id -> Nat] /\ HasSum(s, f, n)
      BY <3>1 DEF IInv, SInv, Sound, Mem, Sized
    <3>3. SumOf(s, f) = n
      BY <3>2, SumIs
    <3> QED BY <3>1, <3>3
  <2>2. "t1" \in Lists /\ "t2" \in Lists /\ "b1" \in Lists /\ "b2" \in Lists
    BY DEF Lists
  <2>3. /\ \A l \in {"b1", "b2"}, id \in Id :
             id \in On(mem, l) => mem.size[id] = EntrySize
        /\ \A id \in Resident : mem.size[id] = DataSize[id] + EntrySize
    BY <2>2 DEF SInv, Sized, Weight, Resident
  <2> QED BY <2>1, <2>3 DEF SizesAddUp
<1> QED BY <1>1, Invariance, SizedAlways, PTL

(* The types, and that t1_target stays between 0 and the size of the cache *)
(* however cache_lookup moves it.  It divides by the size of a list of     *)
(* ghosts, which is not 0 when a ghost was found on it.                    *)
THEOREM TypesAlwaysOK == Spec => []TypeOK
<1>1. IInv /\ SInv => TypeOK
  BY DEF IInv, SInv, TypeOK, Sound, Mem, HandlesWell
<1> QED BY <1>1, Invariance, SizedAlways, PTL

(* When memory has reached the configured size, cache_lookup and           *)
(* cache_insert bring a block in only while another goes out, unless the   *)
(* blocks that could go are in use.                                        *)
THEOREM AlwaysMakesRoom == Spec => MakesRoom
<1> DEFINE Room ==
      /\ mem.bytes["t1"] + mem.bytes["t2"] >= CacheSize
      /\ \E id \in Id \ Resident : id \in Resident'
      => \/ \E id \in Resident : id \notin Resident'
         \/ Unused(mem, "t1") = {} /\ (\/ Unused(mem, "t2") = {}
                                      \/ mem.bytes["t1"] >= CacheSize)
<1>1. IInv /\ SInv /\ [Next]_vars => [Room]_vars
  BY StepSized DEF AllUsed
<1>2. MakesRoom <=> [][Room]_vars
  BY DEF MakesRoom
<1> HIDE DEF Room
<1> QED BY <1>1, <1>2, Invariance, SizedAlways, PTL DEF Spec

=============================================================================
