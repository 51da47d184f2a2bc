-------------------------- MODULE NavigationProofs --------------------------
(***************************************************************************)
(* Proofs about Navigation, for all streets, paths and limits: the items   *)
(* are the streets of the path that is left (FollowsPath), the commands    *)
(* are those of the manoeuvres still ahead, in order (CommandsLieAhead),   *)
(* nothing is said twice (NothingSaidTwice) and nothing too late (InTime), *)
(* and all variables keep their types.                                     *)
(***************************************************************************)
EXTENDS Navigation, FiniteSetTheorems, SequenceTheorems, WellFoundedInduction,
        TLAPS

(* What the hash knows of an item list: behind each street there is one    *)
(* item of it                                                              *)
HashMatches(h, s) ==
  \A x \in DOMAIN h : /\ h[x] \in 1..(Len(s) - 1)
                      /\ s[At(s, h[x])].item = x

(* The items s stand for the path p *)
Follows(s, p) ==
  /\ Len(s) = Len(p) + 1
  /\ \A i \in DOMAIN p :
       [item |-> s[i].item, dir |-> s[i].dir, len |-> s[i].len] = p[i]

-----------------------------------------------------------------------------
(* Numbers and loops.  A set of numbers has a least one. *)
LEMMA LeastOf ==
  ASSUME NEW S \in SUBSET Nat, S # {}
  PROVE  \E n \in S : \A m \in S : n <= m
<1> DEFINE R == OpToRel(<, Nat)
<1>1. IsWellFoundedOn(R, Nat)
  BY NatLessThanWellFounded
<1>2. \A m, n \in Nat : m < n => <<m, n>> \in R
  BY DEF OpToRel
<1> HIDE DEF R
<1>3. PICK n \in S : \A m \in S : <<m, n>> \notin R
  BY <1>1, WFMin
<1>4. ASSUME NEW m \in S PROVE n <= m
  <2>1. m \in Nat /\ n \in Nat /\ ~(m < n)
    BY <1>2, <1>3
  <2> QED BY <2>1
<1> QED BY <1>4

(* u holds the results of n rounds of a loop, the k-th of which applies    *)
(* g[k], from d on                                                         *)
Runs(u, n, S, d, g) ==
  /\ u \in [0..n -> S] /\ u[0] = d
  /\ \A k \in 1..n : u[k] = g[k][u[k - 1]]

(* Every loop has them *)
LEMMA Iterated ==
  ASSUME NEW n \in Nat, NEW S, NEW d \in S, NEW g \in [1..n -> [S -> S]]
  PROVE  \E u : Runs(u, n, S, d, g)
<1> DEFINE Bad == {m \in 0..n : ~\E u : Runs(u, m, S, d, g)}
<1>1. ASSUME NEW m \in Bad, \A k \in Bad : m <= k PROVE FALSE
  <2>1. CASE m = 0
    <3>1. Runs([k \in 0..0 |-> d], 0, S, d, g)
      BY DEF Runs
    <3> QED BY <1>1, <2>1, <3>1
  <2>2. CASE m # 0
    <3>1. m \in 1..n /\ m - 1 \in 0..n /\ ~(m <= m - 1)
      BY <2>2
    <3>2. m - 1 \notin Bad
      BY <1>1, <3>1
    <3>3. PICK u : Runs(u, m - 1, S, d, g)
      BY <3>1, <3>2
    <3> DEFINE w == [k \in 0..m |-> IF k = m THEN g[m][u[m - 1]] ELSE u[k]]
    <3>4. u[m - 1] \in S /\ g[m] \in [S -> S]
      BY <3>1, <3>3 DEF Runs
    <3>5. g[m][u[m - 1]] \in S
      BY <3>4
    <3>6. w \in [0..m -> S]
      BY <3>1, <3>3, <3>5 DEF Runs
    <3>7. w[0] = d
      BY <3>1, <3>3 DEF Runs
    <3>8. ASSUME NEW k \in 1..m PROVE w[k] = g[k][w[k - 1]]
      <4>1. CASE k = m
        BY <3>1, <4>1
      <4>2. CASE k # m
        <5>1. k \in 1..(m - 1) /\ k - 1 # m /\ k - 1 \in 0..m /\ k \in 0..m
          BY <3>1, <4>2
        <5> QED BY <3>3, <4>2, <5>1 DEF Runs
      <4> QED BY <4>1, <4>2
    <3>9. Runs(w, m, S, d, g)
      BY <3>6, <3>7, <3>8 DEF Runs
    <3> QED BY <3>9
  <2> QED BY <2>1, <2>2
<1>2. Bad \in SUBSET Nat
  OBVIOUS
<1>3. Bad = {}
  <2> HIDE DEF Bad
  <2> QED BY <1>1, <1>2, LeastOf
<1>4. \E u : Runs(u, n, S, d, g)
  <2>1. n \in 0..n
    OBVIOUS
  <2> QED BY <1>3, <2>1
<1> QED BY <1>4

(* The k-th of a set of numbers *)
LEMMA InOrder ==
  ASSUME NEW n \in Nat, NEW S \in SUBSET (1..n)
  PROVE  /\ Cardinality(S) \in Nat
         /\ \A k \in 1..Cardinality(S) : Nth(S, k) \in S
         /\ \A k, m \in 1..Cardinality(S) : k < m => Nth(S, k) < Nth(S, m)
         /\ \A i \in S : \E k \in 1..Cardinality(S) : Nth(S, k) = i
<1> DEFINE upto(i) == {j \in S : j <= i}
           rank(i) == Cardinality(upto(i))
           c == Cardinality(S)
           f == [i \in S |-> rank(i)]
<1>1. IsFiniteSet(S) /\ c \in Nat /\ \A i \in S : i \in Int
  <2>1. IsFiniteSet(1..n)
    BY FS_Interval
  <2>2. IsFiniteSet(S)
    BY <2>1, FS_Subset
  <2> QED BY <2>2, FS_CardinalityType
<1>2. ASSUME NEW i \in S
      PROVE  rank(i) \in 1..c /\ IsFiniteSet(upto(i))
  <2>1. upto(i) \in SUBSET S /\ i \in upto(i)
    OBVIOUS
  <2> HIDE DEF upto
  <2>2. IsFiniteSet(upto(i)) /\ rank(i) <= c /\ rank(i) \in Nat
    BY <1>1, <2>1, FS_Subset, FS_CardinalityType
  <2>3. rank(i) # 0
    BY <2>1, <2>2, FS_EmptySet
  <2> QED BY <1>1, <2>2, <2>3
<1>3. ASSUME NEW i \in S, NEW j \in S, i < j
      PROVE  rank(i) < rank(j)
  <2>0. i \in Int /\ j \in Int /\ i < j
    BY <1>1, <1>3
  <2>1. upto(i) \in SUBSET upto(j) /\ j \in upto(j) /\ j \notin upto(i)
    <3>1. \A k \in S : k <= i => k <= j
      BY <1>1, <2>0
    <3>2. j <= j /\ ~(j <= i)
      BY <2>0
    <3> QED BY <3>1, <3>2
  <2>2. rank(i) \in 1..c /\ rank(j) \in 1..c /\ IsFiniteSet(upto(j))
    BY <1>2
  <2> HIDE DEF upto
  <2>3. rank(i) <= rank(j) /\ rank(i) # rank(j)
    BY <2>1, <2>2, FS_Subset
  <2> QED BY <1>1, <2>2, <2>3
<1>4. \A i, j \in S : rank(i) = rank(j) => i = j
  <2> SUFFICES ASSUME NEW i \in S, NEW j \in S, rank(i) = rank(j), i # j PROVE FALSE
    OBVIOUS
  <2>1. rank(i) \in Int
    BY <1>1, <1>2
  <2>2. i < j \/ j < i
    OBVIOUS
  <2> HIDE DEF rank
  <2> QED BY <1>3, <2>1, <2>2
<1>5. f \in Surjection(S, 1..c)
  <2>1. f \in Injection(S, 1..c)
    <3> HIDE DEF rank, c
    <3>1. f \in [S -> 1..c]
      BY <1>2
    <3>2. IsInjective(f)
      BY <1>4 DEF IsInjective
    <3> HIDE DEF f
    <3> QED BY <3>1, <3>2 DEF Injection
  <2>2. IsFiniteSet(1..c) /\ Cardinality(1..c) = c
    BY <1>1, FS_Interval
  <2> HIDE DEF f
  <2> QED BY <1>1, <2>1, <2>2, FS_Injection
<1>6. ASSUME NEW k \in 1..c
      PROVE  Nth(S, k) \in S /\ rank(Nth(S, k)) = k
  <2>1. \E i \in S : f[i] = k
    BY <1>5 DEF Surjection
  <2> QED BY <2>1 DEF Nth
<1> HIDE DEF rank, f, c
<1>7. ASSUME NEW k \in 1..c, NEW m \in 1..c, k < m
      PROVE  Nth(S, k) < Nth(S, m)
  <2>1. /\ Nth(S, k) \in S /\ Nth(S, m) \in S
        /\ rank(Nth(S, k)) = k /\ rank(Nth(S, m)) = m
    BY <1>6
  <2>2. Nth(S, k) # Nth(S, m)
    BY <1>7, <2>1
  <2>3. Nth(S, m) < Nth(S, k) => rank(Nth(S, m)) < rank(Nth(S, k))
    BY <1>3, <2>1
  <2>4. ~(Nth(S, m) < Nth(S, k))
    BY <1>7, <2>1, <2>3
  <2>5. Nth(S, k) \in Int /\ Nth(S, m) \in Int
    BY <1>1, <2>1
  <2> QED BY <2>2, <2>4, <2>5
<1>8. ASSUME NEW i \in S PROVE Nth(S, rank(i)) = i /\ rank(i) \in 1..c
  BY <1>2, <1>4, <1>6
<1> QED BY <1>1, <1>6, <1>7, <1>8 DEF c

(* The distance between two items *)
LEMMA LengthIsNatural ==
  ASSUME NEW s, NEW i \in Int, NEW j \in Int, i <= j,
         \A k \in i..(j - 1) : s[k].len \in Nat
  PROVE  LenBetween(s, i, j) \in Nat
<1> DEFINE n == j - i
           g == [k \in 1..n |-> [x \in Nat |-> x + s[i + k - 1].len]]
           IsSum(v) == v = [k \in 0..n |-> IF k = 0 THEN 0 ELSE v[k - 1] + s[i + k - 1].len]
           sum == CHOOSE v : IsSum(v)
<1>1. n \in Nat /\ \A k \in 1..n : s[i + k - 1].len \in Nat
  OBVIOUS
<1>2. PICK u : Runs(u, n, Nat, 0, g)
  <2>1. g \in [1..n -> [Nat -> Nat]] /\ n \in Nat /\ 0 \in Nat
    BY <1>1
  <2> HIDE DEF g, n
  <2> QED BY <2>1, Iterated
<1>3. LenBetween(s, i, j) = sum[n]
  BY DEF LenBetween
<1> HIDE DEF n
<1>4. IsSum(u)
  <2>1. ASSUME NEW k \in 0..n
        PROVE  u[k] = IF k = 0 THEN 0 ELSE u[k - 1] + s[i + k - 1].len
    <3>1. CASE k # 0
      <4>1. k \in 1..n /\ u[k - 1] \in Nat
        BY <1>1, <1>2, <3>1 DEF Runs
      <4> QED BY <1>2, <3>1, <4>1 DEF Runs
    <3> QED BY <1>2, <3>1 DEF Runs
  <2> QED BY <1>2, <2>1 DEF Runs
<1> HIDE DEF g
<1>5. IsSum(sum)
  <2> HIDE DEF IsSum
  <2> QED BY <1>4
<1>6. \A k \in 0..n : sum[k] = IF k = 0 THEN 0 ELSE sum[k - 1] + s[i + k - 1].len
  <2> HIDE DEF sum
  <2> QED BY <1>5
<1> HIDE DEF sum, IsSum
<1> DEFINE Bad == {k \in 0..n : sum[k] \notin Nat}
<1>7. ASSUME NEW m \in Bad, \A k \in Bad : m <= k PROVE FALSE
  <2>1. m # 0
    BY <1>6
  <2>2. m \in 1..n /\ m - 1 \in 0..n /\ ~(m <= m - 1)
    BY <1>1, <2>1
  <2>3. sum[m - 1] \in Nat
    BY <1>7, <2>2
  <2>4. sum[m] = sum[m - 1] + s[i + m - 1].len
    BY <1>6, <2>1
  <2>5. s[i + m - 1].len \in Nat
    BY <1>1, <2>2
  <2>6. sum[m] \in Nat
    BY <2>3, <2>4, <2>5
  <2> QED BY <2>6
<1>8. Bad \in SUBSET Nat
  OBVIOUS
<1>9. Bad = {}
  <2> HIDE DEF Bad
  <2> QED BY <1>7, <1>8, LeastOf
<1> QED BY <1>1, <1>3, <1>9

-----------------------------------------------------------------------------
(* Of the items of a street one is the last *)
LEMMA RankIsThere ==
  ASSUME NEW p \in Seq(Leg), NEW i \in DOMAIN p
  PROVE  /\ Rank(p, p[i].item) \in DOMAIN p
         /\ p[Rank(p, p[i].item)].item = p[i].item
<1> DEFINE s == p[i].item
           S == {n \in Nat : \E j \in DOMAIN p : p[j].item = s /\ n = Len(p) - j}
<1>1. Len(p) \in Nat /\ DOMAIN p = 1..Len(p)
  OBVIOUS
<1>2. S \in SUBSET Nat /\ Len(p) - i \in S
  BY <1>1
<1>3. PICK n \in S : \A m \in S : n <= m
  <2> HIDE DEF S
  <2> QED BY <1>2, LeastOf
<1>4. PICK k \in DOMAIN p : p[k].item = s /\ n = Len(p) - k
  BY <1>3
<1>5. ASSUME NEW j \in DOMAIN p, p[j].item = s
      PROVE  j <= k
  <2>1. Len(p) - j \in S
    BY <1>1, <1>5
  <2> QED BY <1>1, <1>3, <1>4, <2>1
<1> QED BY <1>4, <1>5 DEF Rank

(* Items made for a path stand for it *)
LEMMA ItemsFollow ==
  ASSUME NEW p \in Seq(Leg), p # <<>>
  PROVE  /\ ItemsOf(p) \in Seq(Itm)
         /\ Follows(ItemsOf(p), p)
         /\ HashMatches(HashOf(p), ItemsOf(p))
<1> DEFINE q == [i \in DOMAIN p |-> [item |-> p[i].item, dir |-> p[i].dir,
                                     len |-> p[i].len, told |-> FALSE]]
           e == [item |-> End, dir |-> 0, len |-> 0, told |-> FALSE]
<1>1. Len(p) \in Nat /\ DOMAIN p = 1..Len(p) /\ \A i \in DOMAIN p : p[i] \in Leg
  OBVIOUS
<1>2. q \in Seq(Itm) /\ Len(q) = Len(p)
  BY <1>1 DEF Leg, Itm
<1>3. e \in Itm
  BY DEF Itm
<1>4. /\ ItemsOf(p) \in Seq(Itm)
      /\ Len(ItemsOf(p)) = Len(p) + 1
      /\ \A i \in DOMAIN p : ItemsOf(p)[i] = q[i]
  <2>1. ItemsOf(p) = Append(q, e)
    BY DEF ItemsOf
  <2> HIDE DEF q, e
  <2> QED BY <1>1, <1>2, <1>3, <2>1, AppendProperties
<1>5. Follows(ItemsOf(p), p)
  <2>1. ASSUME NEW i \in DOMAIN p
        PROVE  [item |-> q[i].item, dir |-> q[i].dir, len |-> q[i].len] = p[i]
    BY <1>1 DEF Leg
  <2> QED BY <1>4, <2>1 DEF Follows
<1>6. ASSUME NEW x \in DOMAIN HashOf(p)
      PROVE  /\ HashOf(p)[x] \in 1..Len(p)
             /\ ItemsOf(p)[At(ItemsOf(p), HashOf(p)[x])].item = x
  <2>1. PICK i \in DOMAIN p : x = p[i].item
    BY <1>6 DEF HashOf
  <2>2. /\ Rank(p, x) \in DOMAIN p
        /\ p[Rank(p, x)].item = x
    BY <2>1, RankIsThere
  <2>3. HashOf(p)[x] = Len(p) + 1 - Rank(p, x)
    BY <2>1 DEF HashOf
  <2>4. At(ItemsOf(p), HashOf(p)[x]) = Rank(p, x)
    BY <1>1, <1>4, <2>2, <2>3 DEF At
  <2>5. ItemsOf(p)[Rank(p, x)].item = x
    <3>1. q[Rank(p, x)].item = p[Rank(p, x)].item
      BY <2>2
    <3> QED BY <1>4, <2>2, <3>1
  <2> QED BY <1>1, <2>2, <2>3, <2>4, <2>5
<1> QED BY <1>1, <1>4, <1>5, <1>6 DEF HashMatches

-----------------------------------------------------------------------------
(* What is said changes no item but for "told" *)
LEMMA SpeechKeepsItems ==
  ASSUME NEW s \in Seq(Itm), NEW c, NEW h, NEW turns,
         CallCallbacks(s, c, h, turns)
  PROVE  /\ itm' \in Seq(Itm) /\ Len(itm') = Len(s)
         /\ \A i \in DOMAIN s : /\ itm'[i].item = s[i].item
                                /\ itm'[i].dir = s[i].dir
                                /\ itm'[i].len = s[i].len
<1>1. ASSUME NEW told
      PROVE  /\ Told(s, told) \in Seq(Itm) /\ Len(Told(s, told)) = Len(s)
             /\ \A i \in DOMAIN s : /\ Told(s, told)[i].item = s[i].item
                                    /\ Told(s, told)[i].dir = s[i].dir
                                    /\ Told(s, told)[i].len = s[i].len
  <2>1. Len(s) \in Nat /\ DOMAIN s = 1..Len(s) /\ \A i \in DOMAIN s : s[i] \in Itm
    OBVIOUS
  <2>2. \A i \in DOMAIN s :
          Told(s, told)[i] = [s[i] EXCEPT !.told = @ \/ Count(s, i) \in told]
    BY DEF Told
  <2>3. ASSUME NEW i \in DOMAIN s, NEW b \in BOOLEAN
        PROVE  /\ [s[i] EXCEPT !.told = b] \in Itm
               /\ [s[i] EXCEPT !.told = b].item = s[i].item
               /\ [s[i] EXCEPT !.told = b].dir = s[i].dir
               /\ [s[i] EXCEPT !.told = b].len = s[i].len
    BY <2>1 DEF Itm
  <2>4. \A i \in DOMAIN s : (s[i].told \/ Count(s, i) \in told) \in BOOLEAN
    OBVIOUS
  <2>5. \A i \in DOMAIN s : /\ Told(s, told)[i] \in Itm
                            /\ Told(s, told)[i].item = s[i].item
                            /\ Told(s, told)[i].dir = s[i].dir
                            /\ Told(s, told)[i].len = s[i].len
    BY <2>2, <2>3, <2>4, Zenon
  <2>6. DOMAIN Told(s, told) = 1..Len(s)
    BY <2>1 DEF Told
  <2>7. Told(s, told) = [i \in 1..Len(s) |-> Told(s, told)[i]]
    BY <2>1 DEF Told
  <2>8. Told(s, told) \in Seq(Itm) /\ Len(Told(s, told)) = Len(s)
    BY <2>1, <2>5, <2>7, IsASeq
  <2> QED BY <2>5, <2>8
<1>2. itm' = s \/ \E told : itm' = Told(s, told)
  <2>1. CASE TurnAround(s, c, h, turns)
    BY <2>1 DEF TurnAround, Speak, Silent
  <2>2. CASE Guide(s, c, h, turns)
    BY <2>2 DEF Guide, Speak, Silent
  <2>3. CASE Undecided(s, h, turns)
    BY <2>3 DEF Undecided, Silent
  <2> QED BY <2>1, <2>2, <2>3 DEF CallCallbacks
<1>3. CASE itm' = s
  BY <1>3
<1>4. CASE \E told : itm' = Told(s, told)
  BY <1>1, <1>4
<1> QED BY <1>2, <1>3, <1>4

-----------------------------------------------------------------------------
(* Commands.  What cmd must be to the items s: the manoeuvres of them, in  *)
(* the order of the way                                                    *)
Ahead(c, s) ==
  /\ c \in Seq([at : 0..Len(s), length : Nat])
  /\ \A k \in DOMAIN c : At(s, c[k].at) \in Needed(s)
  /\ \A j, k \in DOMAIN c : j < k => At(s, c[j].at) < At(s, c[k].at)
  /\ \A i \in Needed(s) : \E k \in DOMAIN c : At(s, c[k].at) = i

(* Items that differ in "told" and in lengths only *)
SameTurns(s, t) ==
  /\ s \in Seq(Itm) /\ t \in Seq(Itm) /\ Len(t) = Len(s)
  /\ \A i \in DOMAIN s : t[i].item = s[i].item /\ t[i].dir = s[i].dir

LEMMA AheadOfSame ==
  ASSUME NEW s, NEW t, SameTurns(s, t), NEW c, Ahead(c, s)
  PROVE  Ahead(c, t)
<1>1. /\ Len(t) = Len(s) /\ Len(s) \in Nat /\ DOMAIN s = 1..Len(s)
      /\ \A i \in 1..Len(s) : Turn(t[i]) = Turn(s[i])
  BY DEF SameTurns, Turn
<1>2. Needed(t) = Needed(s)
  <2>1. \A i \in 2..Len(s) : i \in 1..Len(s) /\ i - 1 \in 1..Len(s)
    BY <1>1
  <2> QED BY <1>1, <2>1 DEF Needed
<1>3. \A n : At(t, n) = At(s, n)
  BY <1>1 DEF At
<1> QED BY <1>1, <1>2, <1>3 DEF Ahead

(* make_maneuvers *)
LEMMA LengthOfRoundabout ==
  ASSUME NEW s \in Seq(Itm), NEW i \in 2..Len(s)
  PROVE  RoundaboutLength(s, i) \in Nat
<1> DEFINE S == {j \in 1..(i - 1) : \A k \in j..(i - 1) : s[k].item \in Roundabout}
<1>1. CASE s[i - 1].item \in Roundabout /\ s[i].item \notin Roundabout
  <2>1. RoundaboutLength(s, i) = LenBetween(s, Min(S), i) + 50
    BY <1>1 DEF RoundaboutLength
  <2>2. i - 1 \in S
    BY <1>1
  <2>3. S \in SUBSET Nat
    OBVIOUS
  <2>4. Min(S) \in S
    <3> HIDE DEF S
    <3>1. \E n \in S : \A m \in S : n <= m
      BY <2>2, <2>3, LeastOf
    <3> QED BY <3>1 DEF Min
  <2>5. Min(S) \in 1..(i - 1)
    <3> DEFINE m == Min(S)
    <3>1. m \in S
      BY <2>4
    <3> HIDE DEF m
    <3>2. m \in 1..(i - 1)
      BY <3>1
    <3> QED BY <3>2 DEF m
  <2>6. \A k \in 1..(i - 1) : s[k].len \in Nat
    <3> TAKE k \in 1..(i - 1)
    <3>1. k \in 1..Len(s)
      OBVIOUS
    <3>2. s[k] \in Itm
      BY <3>1
    <3> QED BY <3>2 DEF Itm
  <2> HIDE DEF S
  <2>7. LenBetween(s, Min(S), i) \in Nat
    <3> DEFINE m == Min(S)
    <3>1. m \in 1..(i - 1)
      BY <2>5
    <3> HIDE DEF m
    <3>2. m \in Int /\ i \in Int /\ m <= i /\ \A k \in m..(i - 1) : s[k].len \in Nat
      BY <2>6, <3>1
    <3>3. LenBetween(s, m, i) \in Nat
      BY <3>2, LengthIsNatural
    <3> QED BY <3>3 DEF m
  <2> QED BY <2>1, <2>7
<1>2. CASE ~(s[i - 1].item \in Roundabout /\ s[i].item \notin Roundabout)
  BY <1>2 DEF RoundaboutLength
<1> QED BY <1>1, <1>2

LEMMA MadeAhead ==
  ASSUME NEW s \in Seq(Itm)
  PROVE  Ahead(MakeManeuvers(s), s)
<1> DEFINE S == Needed(s)
           n == Cardinality(S)
           c == MakeManeuvers(s)
<1>1. S \in SUBSET (1..Len(s)) /\ S \subseteq 2..Len(s) /\ Len(s) \in Nat
  BY DEF Needed
<1>2. /\ n \in Nat
      /\ \A k \in 1..n : Nth(S, k) \in S
      /\ \A k, m \in 1..n : k < m => Nth(S, k) < Nth(S, m)
      /\ \A i \in S : \E k \in 1..n : Nth(S, k) = i
  <2> HIDE DEF S
  <2> QED BY <1>1, InOrder
<1>3. /\ c = [k \in 1..n |-> c[k]]
      /\ \A k \in 1..n : c[k] = [at |-> Count(s, Nth(S, k)),
                                 length |-> RoundaboutLength(s, Nth(S, k))]
  BY DEF MakeManeuvers
<1> HIDE DEF S, n, c
<1>4. ASSUME NEW k \in 1..n
      PROVE  /\ c[k] \in [at : 0..Len(s), length : Nat]
             /\ At(s, c[k].at) = Nth(S, k)
  <2>1. Nth(S, k) \in 2..Len(s)
    BY <1>1, <1>2
  <2>2. RoundaboutLength(s, Nth(S, k)) \in Nat
    BY <2>1, LengthOfRoundabout
  <2>3. Count(s, Nth(S, k)) \in 0..Len(s) /\ At(s, Count(s, Nth(S, k))) = Nth(S, k)
    BY <1>1, <2>1 DEF Count, At
  <2> QED BY <1>3, <2>2, <2>3
<1>5. c \in Seq([at : 0..Len(s), length : Nat]) /\ DOMAIN c = 1..n
  <2> DEFINE T == [at : 0..Len(s), length : Nat]
  <2>1. \A k \in 1..n : c[k] \in T
    BY <1>4
  <2> HIDE DEF T
  <2>2. c \in [1..n -> T]
    BY <1>3, <2>1
  <2>3. c \in Seq(T)
    BY <1>2, <2>2
  <2> QED BY <2>2, <2>3 DEF T
<1>6. /\ \A k \in 1..n : At(s, c[k].at) \in S
      /\ \A j, k \in 1..n : j < k => At(s, c[j].at) < At(s, c[k].at)
      /\ \A i \in S : \E k \in 1..n : At(s, c[k].at) = i
  BY <1>2, <1>4
<1>7. Ahead(c, s)
  BY <1>5, <1>6 DEF Ahead, S
<1> QED BY <1>7 DEF c

(* navigation_destroy_itms_cmds takes the commands of the items it removes *)
(* off the front, and no other: the commands are in the order of the way.  *)
LEMMA CommandsLeft ==
  ASSUME itm \in Seq(Itm), Ahead(cmd, itm), NEW i \in 1..Len(itm)
  PROVE  \E m \in 0..Len(cmd) :
           /\ CommandsFrom(i) = SubSeq(cmd, m + 1, Len(cmd))
           /\ \A k \in DOMAIN cmd : k <= m <=> At(itm, cmd[k].at) <= i
<1> DEFINE C == [at : 0..Len(itm), length : Nat]
           n == i - 1
           Pass(c, j) == IF c # <<>> /\ Head(c).at = Count(itm, j) THEN Tail(c) ELSE c
           g == [k \in 1..n |-> [c \in Seq(C) |-> Pass(c, k + 1)]]
           IsLeft(v) == v = [j \in 1..i |-> IF j = 1 THEN cmd ELSE Pass(v[j - 1], j)]
           left == CHOOSE v : IsLeft(v)
           len == Len(cmd)
<1>1. /\ cmd \in Seq(C) /\ len \in Nat /\ DOMAIN cmd = 1..len
      /\ n \in Nat /\ Len(itm) \in Nat
      /\ \A k \in 1..len : cmd[k] \in C /\ cmd[k].at \in 0..Len(itm)
  <2>1. cmd \in Seq(C)
    BY DEF Ahead
  <2>2. \A x \in C : x.at \in 0..Len(itm)
    OBVIOUS
  <2> HIDE DEF C
  <2> QED BY <2>1, <2>2
<1>2. CommandsFrom(i) = left[i]
  BY DEF CommandsFrom
<1>3. \A c \in Seq(C), j \in 1..i : Pass(c, j) \in Seq(C)
  <2> HIDE DEF C
  <2> QED OBVIOUS
<1>4. PICK u : Runs(u, n, Seq(C), cmd, g)
  <2>1. g \in [1..n -> [Seq(C) -> Seq(C)]]
    <3> HIDE DEF Pass, C
    <3> QED BY <1>1, <1>3
  <2> HIDE DEF g, n, C
  <2> QED BY <1>1, <2>1, Iterated
<1>5. \E v : IsLeft(v)
  <2> DEFINE v == [j \in 1..i |-> u[j - 1]]
  <2>1. ASSUME NEW j \in 1..i
        PROVE  v[j] = IF j = 1 THEN cmd ELSE Pass(v[j - 1], j)
    <3>1. CASE j = 1
      BY <1>4, <3>1 DEF Runs
    <3>2. CASE j # 1
      <4>1. /\ j - 1 \in 1..n /\ j - 1 \in 1..i /\ j - 1 \in 0..n /\ j - 1 - 1 \in 0..n
            /\ j - 1 + 1 = j
        BY <1>1, <3>2
      <4>2. u[j - 1] = g[j - 1][u[j - 1 - 1]] /\ u[j - 1 - 1] \in Seq(C)
        BY <1>4, <4>1 DEF Runs
      <4>3. g[j - 1][u[j - 1 - 1]] = Pass(u[j - 1 - 1], j)
        <5> HIDE DEF Pass, C
        <5> QED BY <4>1, <4>2
      <4>4. v[j] = u[j - 1] /\ v[j - 1] = u[j - 1 - 1]
        BY <4>1
      <4> HIDE DEF v, g, Pass
      <4> QED BY <3>2, <4>2, <4>3, <4>4
    <3> QED BY <3>1, <3>2
  <2>2. v = [j \in 1..i |-> v[j]]
    OBVIOUS
  <2>3. IsLeft(v)
    <3> HIDE DEF v, Pass
    <3> QED BY <2>1, <2>2
  <2> QED BY <2>3
<1>6. IsLeft(left)
  <2> HIDE DEF IsLeft
  <2> QED BY <1>5
<1>7. \A j \in 1..i : left[j] = IF j = 1 THEN cmd ELSE Pass(left[j - 1], j)
  <2> HIDE DEF left, Pass
  <2> QED BY <1>6
<1> HIDE DEF left, IsLeft, g
<1> DEFINE at(k) == At(itm, cmd[k].at)
           Good(j, m) == /\ left[j] = SubSeq(cmd, m + 1, len)
                         /\ \A k \in 1..len : k <= m <=> at(k) <= j
           Bad == {j \in 1..i : ~\E m \in 0..len : Good(j, m)}
<1>8. /\ \A k \in 1..len : at(k) \in 2..Len(itm) /\ at(k) = Len(itm) - cmd[k].at
      /\ \A j, k \in 1..len : j < k => at(j) < at(k)
  BY <1>1 DEF Ahead, Needed, At
<1> HIDE DEF at
<1>9. ASSUME NEW j \in Bad, \A k \in Bad : j <= k PROVE FALSE
  <2>1. CASE j = 1
    <3>1. left[1] = SubSeq(cmd, 0 + 1, len)
      <4>1. SubSeq(cmd, 1, len) = cmd
        <5> HIDE DEF C
        <5> QED BY <1>1, SubSeqFull
      <4> QED BY <1>7, <2>1, <4>1
    <3>2. \A k \in 1..len : k <= 0 <=> at(k) <= 1
      BY <1>8
    <3>3. 0 \in 0..len
      BY <1>1
    <3> QED BY <1>9, <2>1, <3>1, <3>2, <3>3
  <2>2. CASE j # 1
    <3>1. j \in 1..i /\ j \in 2..Len(itm) /\ j - 1 \in 1..i /\ ~(j <= j - 1)
      BY <2>2
    <3>2. PICK m \in 0..len : Good(j - 1, m)
      BY <1>9, <3>1
    <3>3. left[j] = Pass(left[j - 1], j)
      BY <1>7, <2>2
    <3>4. \A k \in 1..len : k <= m <=> at(k) <= j - 1
      BY <3>2
    <3>5. CASE m = len
      <4>1. left[j - 1] = <<>>
        BY <1>1, <3>2, <3>5, SubSeqEmpty
      <4>2. left[j] = <<>>
        BY <3>3, <4>1
      <4>3. \A k \in 1..len : k <= m <=> at(k) <= j
        BY <1>8, <3>1, <3>4, <3>5
      <4>4. Good(j, m)
        BY <1>1, <3>2, <3>5, <4>1, <4>2, <4>3
      <4> QED BY <4>4
    <3>6. CASE m # len
      <4> DEFINE c == left[j - 1]
      <4>1. m + 1 \in 1..len /\ len \in (m + 1)..len /\ m + 1 \in 0..len
        BY <1>1, <3>6
      <4>2. Head(c) = cmd[m + 1] /\ Tail(c) = SubSeq(cmd, m + 1 + 1, len)
        <5> HIDE DEF C, len
        <5>1. c = SubSeq(cmd, m + 1, len)
          BY <3>2
        <5> QED BY <1>1, <4>1, <5>1, HeadTailOfSubSeq DEF len
      <4>3. c # <<>>
        <5>1. \A k \in (m + 1)..len : cmd[k] \in C
          BY <1>1, <4>1
        <5>2. Len(c) = len - (m + 1) + 1
          <6> HIDE DEF C
          <6> QED BY <1>1, <3>2, <4>1, <5>1, SubSeqProperties
        <5>3. len - (m + 1) + 1 # 0
          <6>1. len \in Nat
            BY <1>1
          <6> HIDE DEF len, C, n, Pass
          <6> QED BY <3>2, <3>6, <6>1
        <5>4. Len(<<>>) = 0
          OBVIOUS
        <5> HIDE DEF c
        <5> QED BY <5>2, <5>3, <5>4
      <4>4. at(m + 1) \in 2..Len(itm) /\ at(m + 1) = Len(itm) - cmd[m + 1].at
        BY <1>8, <4>1
      <4>5. Head(c).at = Count(itm, j) <=> at(m + 1) = j
        <5>1. cmd[m + 1].at \in 0..Len(itm)
          BY <1>1, <4>1
        <5>2. Head(c).at = cmd[m + 1].at
          BY <4>2
        <5> HIDE DEF c, C
        <5>3. cmd[m + 1].at = Len(itm) - j <=> Len(itm) - cmd[m + 1].at = j
          <6>1. /\ j \in Int /\ Len(itm) \in Int /\ cmd[m + 1].at \in Int
            BY <1>1, <3>1, <5>1
          <6> QED BY <6>1
        <5> QED BY <4>4, <5>2, <5>3 DEF Count
      <4>6. ~(at(m + 1) <= j - 1)
        BY <3>4, <4>1
      <4>7. CASE at(m + 1) = j
        <5>1. left[j] = SubSeq(cmd, m + 1 + 1, len)
          BY <3>3, <4>2, <4>3, <4>5, <4>7
        <5>2. ASSUME NEW k \in 1..len PROVE k <= m + 1 <=> at(k) <= j
          <6>1. CASE k <= m
            BY <3>1, <3>4, <4>1, <6>1, <1>8
          <6>2. CASE k = m + 1
            BY <3>1, <4>7, <6>2
          <6>3. CASE k > m + 1
            BY <1>8, <3>1, <4>1, <4>7, <6>3
          <6> QED BY <4>1, <6>1, <6>2, <6>3
        <5> QED BY <4>1, <5>1, <5>2
      <4>8. CASE at(m + 1) # j
        <5>1. left[j] = SubSeq(cmd, m + 1, len)
          BY <3>2, <3>3, <4>5, <4>8
        <5>2. at(m + 1) > j
          BY <3>1, <4>4, <4>6, <4>8
        <5>3. ASSUME NEW k \in 1..len PROVE k <= m <=> at(k) <= j
          <6>1. CASE k <= m
            BY <3>1, <3>4, <4>1, <6>1, <1>8
          <6>2. CASE k = m + 1
            BY <3>1, <4>1, <4>4, <5>2, <6>2
          <6>3. CASE k > m + 1
            BY <1>8, <3>1, <4>1, <4>4, <5>2, <6>3
          <6> QED BY <4>1, <6>1, <6>2, <6>3
        <5> QED BY <5>1, <5>3
      <4> QED BY <4>7, <4>8
    <3> QED BY <3>5, <3>6
  <2> QED BY <2>1, <2>2
<1>10. Bad \in SUBSET Nat
  OBVIOUS
<1>11. Bad = {}
  <2> HIDE DEF Bad
  <2> QED BY <1>9, <1>10, LeastOf
<1>12. PICK m \in 0..len : Good(i, m)
  <2>1. i \in 1..i
    OBVIOUS
  <2> QED BY <1>11, <2>1
<1> QED BY <1>1, <1>2, <1>12 DEF at

(* What remains of the items from the i-th on, which is x long *)
RestOf(i, x) == [ItemsFrom(i) EXCEPT ![1].len = x]

LEMMA RestOfItems ==
  ASSUME itm \in Seq(Itm), NEW i \in 1..Len(itm), NEW x \in Nat
  PROVE  /\ RestOf(i, x) \in Seq(Itm) /\ Len(RestOf(i, x)) = Len(itm) - i + 1
         /\ RestOf(i, x)[1].len = x
         /\ \A k \in 1..(Len(itm) - i + 1) :
              /\ RestOf(i, x)[k].item = itm[i + k - 1].item
              /\ RestOf(i, x)[k].dir = itm[i + k - 1].dir
              /\ k # 1 => RestOf(i, x)[k].len = itm[i + k - 1].len
<1> DEFINE t == ItemsFrom(i)
           s == RestOf(i, x)
           e == [t[1] EXCEPT !.len = x]
<1>1. /\ t \in Seq(Itm) /\ Len(t) = Len(itm) - i + 1 /\ Len(t) \in Nat \ {0}
      /\ \A k \in 1..Len(t) : t[k] = itm[i + k - 1]
  <2>1. /\ i \in Int /\ Len(itm) \in Int /\ i <= Len(itm)
        /\ \A k \in i..Len(itm) : itm[k] \in Itm
    OBVIOUS
  <2>2. /\ t \in Seq(Itm) /\ Len(t) = Len(itm) - i + 1
        /\ \A k \in 1..(Len(itm) - i + 1) : t[k] = itm[i + k - 1]
    BY <2>1, SubSeqProperties DEF ItemsFrom
  <2> QED BY <2>1, <2>2
<1>2. 1 \in 1..Len(t) /\ t[1] \in Itm
  BY <1>1
<1>3. s = [t EXCEPT ![1] = e]
  BY DEF RestOf
<1>4. e \in Itm /\ e.item = t[1].item /\ e.dir = t[1].dir /\ e.len = x
  <2> HIDE DEF t
  <2> QED BY <1>2 DEF Itm
<1> HIDE DEF s, e, t
<1>5. /\ s \in Seq(Itm) /\ Len(s) = Len(t)
      /\ \A k \in 1..Len(t) : s[k] = IF k = 1 THEN e ELSE t[k]
  BY <1>1, <1>2, <1>3, <1>4, ExceptSeq
<1>6. \A k \in 1..Len(t) : /\ s[k].item = t[k].item /\ s[k].dir = t[k].dir
                           /\ k # 1 => s[k].len = t[k].len
  BY <1>4, <1>5
<1>7. s[1].len = x
  BY <1>2, <1>4, <1>5
<1> QED BY <1>1, <1>5, <1>6, <1>7 DEF s

(* The hash still matches them when the streets of the others are removed *)
LEMMA HashOfRest ==
  ASSUME itm \in Seq(Itm), HashMatches(hash, itm), NEW i \in 1..Len(itm),
         NEW t, Len(t) = Len(itm) - i + 1,
         \A k \in 1..Len(t) : t[k].item = itm[i + k - 1].item
  PROVE  HashMatches(HashFrom(i), t)
<1>0. Len(itm) \in Nat /\ i \in Nat /\ Len(t) \in Nat
  OBVIOUS
<1> SUFFICES ASSUME NEW x \in DOMAIN HashFrom(i)
             PROVE  /\ HashFrom(i)[x] \in 1..(Len(t) - 1)
                    /\ t[Len(t) - HashFrom(i)[x]].item = x
  BY DEF HashMatches, At
<1> DEFINE j == Len(itm) - hash[x]
<1>1. /\ x \in DOMAIN hash /\ HashFrom(i)[x] = hash[x]
      /\ x \notin {itm[k].item : k \in 1..(i - 1)}
  BY DEF HashFrom, Restrict
<1>2. hash[x] \in 1..(Len(itm) - 1) /\ itm[j].item = x
  BY <1>1 DEF HashMatches, At
<1>3. j \in i..(Len(itm) - 1)
  <2>1. j \in 1..(Len(itm) - 1)
    BY <1>0, <1>2
  <2>2. j \notin 1..(i - 1)
    BY <1>1, <1>2
  <2> HIDE DEF j
  <2> QED BY <1>0, <2>1, <2>2
<1>4. /\ hash[x] = Len(itm) - j /\ hash[x] \in 1..(Len(t) - 1)
      /\ Len(t) - hash[x] = j - i + 1 /\ j - i + 1 \in 1..Len(t)
      /\ i + (j - i + 1) - 1 = j
  <2>1. hash[x] \in Int
    BY <1>2
  <2>2. ASSUME NEW h \in Int, NEW l \in Int, NEW k \in Int, NEW n \in Int,
               k = l - h, n = l - i + 1, k \in i..(l - 1)
        PROVE  /\ h = l - k /\ h \in 1..(n - 1)
               /\ n - h = k - i + 1 /\ k - i + 1 \in 1..n
               /\ i + (k - i + 1) - 1 = k
    BY <1>0, <2>2
  <2>3. j \in Int /\ j = Len(itm) - hash[x]
    BY <1>0, <2>1
  <2> HIDE DEF j
  <2>4. PICK h, l, n : h = hash[x] /\ l = Len(itm) /\ n = Len(t)
    OBVIOUS
  <2>5. h \in Int /\ l \in Int /\ j \in Int /\ j = l - h /\ n = l - i + 1 /\ j \in i..(l - 1)
    BY <1>0, <1>3, <2>1, <2>3, <2>4
  <2>6. n \in Int
    BY <1>0, <2>4
  <2>7. /\ h = l - j /\ h \in 1..(n - 1) /\ n - h = j - i + 1
        /\ j - i + 1 \in 1..n /\ i + (j - i + 1) - 1 = j
    BY <2>2, <2>5, <2>6
  <2> QED BY <2>4, <2>7
<1>5. t[j - i + 1].item = itm[j].item
  <2> HIDE DEF j
  <2>1. t[j - i + 1].item = itm[i + (j - i + 1) - 1].item
    BY <1>4
  <2> QED BY <1>4, <2>1
<1> HIDE DEF j
<1> QED BY <1>1, <1>2, <1>4, <1>5

(* And what remains of the commands are the manoeuvres of them *)
LEMMA AheadOfRest ==
  ASSUME itm \in Seq(Itm), Ahead(cmd, itm), NEW i \in 1..Len(itm),
         NEW t \in Seq(Itm), Len(t) = Len(itm) - i + 1,
         \A k \in 1..Len(t) : /\ t[k].item = itm[i + k - 1].item
                              /\ t[k].dir = itm[i + k - 1].dir
  PROVE  Ahead(CommandsFrom(i), t)
<1> DEFINE c == CommandsFrom(i)
           len == Len(cmd)
           C == [at : 0..Len(itm), length : Nat]
           D == [at : 0..Len(t), length : Nat]
<1>1. /\ Len(itm) \in Nat /\ i \in Nat /\ Len(t) \in Nat /\ len \in Nat
      /\ DOMAIN cmd = 1..len
  BY DEF Ahead
<1>2. PICK m \in 0..len :
        /\ c = SubSeq(cmd, m + 1, len)
        /\ \A k \in DOMAIN cmd : k <= m <=> At(itm, cmd[k].at) <= i
  BY CommandsLeft
<1>3. Needed(t) = {k \in 2..Len(t) : i + k - 1 \in Needed(itm)}
  <2>1. ASSUME NEW k \in 2..Len(t)
        PROVE  k \in Needed(t) <=> i + k - 1 \in Needed(itm)
    <3>1. /\ k \in 1..Len(t) /\ k - 1 \in 1..Len(t) /\ i + k - 1 \in 2..Len(itm)
          /\ i + (k - 1) - 1 = i + k - 1 - 1 /\ (k = Len(t) <=> i + k - 1 = Len(itm))
      BY <1>1
    <3>2. Turn(t[k]) = Turn(itm[i + k - 1])
      BY <3>1 DEF Turn
    <3>3. Turn(t[k - 1]) = Turn(itm[i + k - 1 - 1])
      BY <3>1 DEF Turn
    <3>4. i + k - 1 \in Needed(itm) <=>
            \/ <<Turn(itm[i + k - 1 - 1]), Turn(itm[i + k - 1])>> \in Manoeuvre
            \/ i + k - 1 = Len(itm)
      <4>1. PICK y : y = i + k - 1
        OBVIOUS
      <4>2. y \in 2..Len(itm)
        BY <3>1, <4>1
      <4>3. y \in Needed(itm) <=>
              <<Turn(itm[y - 1]), Turn(itm[y])>> \in Manoeuvre \/ y = Len(itm)
        BY <4>2 DEF Needed
      <4> QED BY <4>1, <4>3
    <3>5. k \in Needed(t) <=>
            <<Turn(t[k - 1]), Turn(t[k])>> \in Manoeuvre \/ k = Len(t)
      BY DEF Needed
    <3> QED BY <3>1, <3>2, <3>3, <3>4, <3>5
  <2>2. Needed(t) \subseteq 2..Len(t)
    BY DEF Needed
  <2> QED BY <2>1, <2>2
<1>4. \A k \in 1..len : /\ cmd[k].at \in 0..Len(itm) /\ cmd[k].length \in Nat
                        /\ cmd[k] = [at |-> cmd[k].at, length |-> cmd[k].length]
                        /\ At(itm, cmd[k].at) \in Needed(itm)
                        /\ At(itm, cmd[k].at) = Len(itm) - cmd[k].at
  <2>1. \A x \in C : /\ x.at \in 0..Len(itm) /\ x.length \in Nat
                     /\ x = [at |-> x.at, length |-> x.length]
    OBVIOUS
  <2>2. cmd \in Seq(C)
    BY DEF Ahead
  <2>3. \A k \in 1..len : cmd[k] \in C
    <3> HIDE DEF C
    <3> QED BY <2>2
  <2> HIDE DEF C
  <2>4. \A k \in 1..len : At(itm, cmd[k].at) \in Needed(itm)
    BY <1>1 DEF Ahead
  <2> QED BY <2>1, <2>3, <2>4 DEF At
<1>5. \A k \in 1..len : k <= m <=> Len(itm) - cmd[k].at <= i
  BY <1>1, <1>2, <1>4
<1>6. \A k \in (m + 1)..len :
        /\ k \in 1..len /\ cmd[k].at \in 0..Len(t) /\ cmd[k] \in D
        /\ Len(t) - cmd[k].at \in Needed(t)
        /\ Len(itm) - cmd[k].at = i + (Len(t) - cmd[k].at) - 1
  <2> TAKE k \in (m + 1)..len
  <2>1. k \in 1..len /\ ~(k <= m)
    BY <1>1
  <2>2. /\ cmd[k].at \in 0..Len(itm) /\ Len(itm) - cmd[k].at \in Needed(itm)
        /\ ~(Len(itm) - cmd[k].at <= i)
    BY <1>4, <1>5, <2>1
  <2> DEFINE a == cmd[k].at
  <2>3. a \in 0..Len(itm) /\ ~(Len(itm) - a <= i)
    BY <2>2
  <2> HIDE DEF a
  <2>4. /\ a \in 0..Len(t) /\ Len(t) - a \in 2..Len(t)
        /\ Len(itm) - a = i + (Len(t) - a) - 1
    BY <1>1, <2>3
  <2>5. Len(t) - a \in Needed(t)
    <3>1. Len(itm) - a \in Needed(itm)
      BY <2>2 DEF a
    <3> QED BY <1>3, <2>4, <3>1
  <2>6. cmd[k] \in D
    <3>1. cmd[k] = [at |-> a, length |-> cmd[k].length] /\ cmd[k].length \in Nat
      BY <1>4, <2>1 DEF a
    <3> QED BY <2>4, <3>1
  <2> QED BY <2>1, <2>4, <2>5, <2>6 DEF a
<1>7. /\ c \in Seq(D) /\ Len(c) = len - m /\ Len(c) \in Nat
      /\ \A k \in 1..(len - m) : c[k] = cmd[m + k]
  <2> HIDE DEF D, c, C
  <2>1. m + 1 \in Int /\ len \in Int /\ m \in Int
    BY <1>1
  <2>2. /\ c \in Seq(D) /\ Len(c) = IF m + 1 <= len THEN len - (m + 1) + 1 ELSE 0
        /\ \A k \in 1..(len - (m + 1) + 1) : c[k] = cmd[m + 1 + k - 1]
    BY <1>2, <1>6, <2>1, SubSeqProperties
  <2>3. len - (m + 1) + 1 = len - m /\ \A k \in Int : m + 1 + k - 1 = m + k
    BY <2>1
  <2>4. m + 1 <= len \/ len - m = 0
    BY <1>2, <2>1
  <2>5. Len(c) = len - m
    BY <2>2, <2>3, <2>4
  <2>6. Len(c) \in Nat
    BY <2>2
  <2>7. ASSUME NEW k \in 1..(len - m) PROVE c[k] = cmd[m + k]
    <3>1. k \in 1..(len - (m + 1) + 1) /\ m + 1 + k - 1 = m + k
      BY <2>3, <2>7
    <3>2. c[k] = cmd[m + 1 + k - 1]
      BY <2>2, <3>1
    <3> QED BY <3>1, <3>2
  <2> QED BY <2>2, <2>5, <2>6, <2>7
<1>8. \A k \in 1..(len - m) : m + k \in (m + 1)..len
  BY <1>1
<1>9. \A k \in 1..(len - m) : /\ At(t, c[k].at) = Len(t) - cmd[m + k].at
                              /\ At(t, c[k].at) \in Needed(t)
  BY <1>6, <1>7, <1>8 DEF At
<1> HIDE DEF c, D
<1>10. ASSUME NEW j \in 1..(len - m), NEW k \in 1..(len - m), j < k
       PROVE  At(t, c[j].at) < At(t, c[k].at)
  <2>1. m + j \in 1..len /\ m + k \in 1..len /\ m + j < m + k
    BY <1>1, <1>10
  <2>2. Len(itm) - cmd[m + j].at < Len(itm) - cmd[m + k].at
    <3>1. At(itm, cmd[m + j].at) < At(itm, cmd[m + k].at)
      BY <1>1, <2>1 DEF Ahead
    <3> QED BY <2>1, <3>1, <1>4
  <2>3. cmd[m + j].at \in Int /\ cmd[m + k].at \in Int
    <3>1. cmd[m + j].at \in 0..Len(itm) /\ cmd[m + k].at \in 0..Len(itm)
      BY <1>4, <2>1
    <3> QED BY <3>1
  <2>4. Len(t) - cmd[m + j].at < Len(t) - cmd[m + k].at
    BY <1>1, <2>2, <2>3
  <2> QED BY <1>9, <2>4
<1>11. ASSUME NEW x \in Needed(t)
       PROVE  \E k \in 1..(len - m) : At(t, c[k].at) = x
  <2>1. x \in 2..Len(t) /\ i + x - 1 \in Needed(itm)
    BY <1>3
  <2>2. PICK l \in 1..len : At(itm, cmd[l].at) = i + x - 1
    BY <1>1, <2>1 DEF Ahead
  <2>3. Len(itm) - cmd[l].at = i + x - 1 /\ cmd[l].at \in Int
    <3>1. cmd[l].at \in 0..Len(itm) /\ At(itm, cmd[l].at) = Len(itm) - cmd[l].at
      BY <1>4
    <3> QED BY <2>2, <3>1
  <2>4. ~(l <= m)
    BY <1>1, <1>5, <2>1, <2>3
  <2>5. l - m \in 1..(len - m) /\ m + (l - m) = l
    BY <1>1, <2>4
  <2>6. At(t, c[l - m].at) = Len(t) - cmd[l].at
    BY <1>9, <2>5
  <2>7. Len(t) - cmd[l].at = x
    <3>1. PICK a, n, r : a = cmd[l].at /\ n = Len(itm) /\ r = Len(t)
      OBVIOUS
    <3>2. r = n - i + 1 /\ n \in Int /\ i \in Int /\ x \in Int /\ a \in Int
      BY <1>1, <2>1, <2>3, <3>1
    <3>3. n - a = i + x - 1
      BY <2>3, <3>1
    <3>4. r - a = x
      BY <3>2, <3>3
    <3> QED BY <3>1, <3>4
  <2> QED BY <2>5, <2>6, <2>7
<1>12. DOMAIN c = 1..(len - m)
  BY <1>7
<1> QED BY <1>7, <1>9, <1>10, <1>11, <1>12 DEF Ahead, c, D

LEMMA SameLengths ==
  ASSUME NEW s, NEW t, NEW i \in Int, NEW j \in Int,
         \A k \in i..(j - 1) : t[k].len = s[k].len
  PROVE  LenBetween(t, i, j) = LenBetween(s, i, j)
<1> DEFINE IsSum(v, r) == v = [n \in 0..(j - i) |->
                                 IF n = 0 THEN 0 ELSE v[n - 1] + r[i + n - 1].len]
<1>1. ASSUME NEW v PROVE IsSum(v, t) <=> IsSum(v, s)
  <2>1. \A n \in 0..(j - i) : n # 0 => t[i + n - 1].len = s[i + n - 1].len
    OBVIOUS
  <2> QED BY <2>1
<1> HIDE DEF IsSum
<1>2. (CHOOSE v : IsSum(v, t)) = (CHOOSE v : IsSum(v, s))
  BY <1>1
<1> QED BY <1>2 DEF LenBetween, IsSum

-----------------------------------------------------------------------------
(* Updates.  What is right of items, hash and commands whatever the paths  *)
CInv ==
  /\ flood \in Flood
  /\ itm \in Seq(Itm)
  /\ HashMatches(hash, itm)
  /\ itm = <<>> => cmd = <<>>
  /\ itm # <<>> => Ahead(cmd, itm)

(* Starting anew *)
LEMMA AnewKeeps ==
  ASSUME NEW p \in Seq(Leg), p # <<>>, NEW reverse, StartAnew(p, reverse),
         flood' \in Flood
  PROVE  CInv' /\ itm' # <<>> /\ Follows(itm', p)
<1> DEFINE s == ItemsOf(p)
<1>1. s \in Seq(Itm) /\ Follows(s, p) /\ HashMatches(HashOf(p), s)
  BY ItemsFollow
<1>2. /\ CallCallbacks(s, cmd', {}, turn_around') /\ hash' = HashOf(p)
      /\ cmd' = MakeManeuvers(s)
  BY DEF StartAnew
<1>3. Ahead(MakeManeuvers(s), s)
  <2> HIDE DEF s
  <2> QED BY <1>1, MadeAhead
<1> HIDE DEF s
<1>4. /\ itm' \in Seq(Itm) /\ Len(itm') = Len(s)
      /\ \A i \in DOMAIN s : /\ itm'[i].item = s[i].item
                             /\ itm'[i].dir = s[i].dir
                             /\ itm'[i].len = s[i].len
  BY <1>1, <1>2, SpeechKeepsItems
<1>5. Len(p) \in Nat /\ DOMAIN p = 1..Len(p) /\ DOMAIN s = 1..Len(s)
  BY <1>1
<1>6. Follows(itm', p)
  BY <1>1, <1>4, <1>5 DEF Follows
<1>7. HashMatches(hash', itm')
  BY <1>1, <1>2, <1>4, <1>5 DEF HashMatches, At
<1>8. Ahead(cmd', itm')
  <2>1. SameTurns(s, itm')
    BY <1>1, <1>4 DEF SameTurns
  <2> QED BY <1>2, <1>3, <2>1, AheadOfSame
<1>9. itm' # <<>>
  <2>1. Len(itm') # 0
    BY <1>5, <1>6 DEF Follows
  <2> QED BY <2>1
<1> QED BY <1>4, <1>6, <1>7, <1>8, <1>9 DEF CInv

(* Keeping the rest of the items *)
LEMMA FollowKeeps ==
  ASSUME CInv, NEW p \in Seq(Leg), p # <<>>, NEW reverse, NEW i \in DOMAIN itm,
         Follow(p, reverse, i), flood' \in Flood
  PROVE  /\ CInv' /\ i \in 1..(Len(itm) - 1)
         /\ itm[i].item = p[1].item /\ itm[i].dir = p[1].dir
         /\ Len(itm') = Len(itm) - i + 1
         /\ itm'[1].len = p[1].len
         /\ \A k \in 1..Len(itm') : /\ itm'[k].item = itm[i + k - 1].item
                                    /\ itm'[k].dir = itm[i + k - 1].dir
                                    /\ k # 1 => itm'[k].len = itm[i + k - 1].len
<1> DEFINE s == RestOf(i, p[1].len)
<1>1. /\ itm \in Seq(Itm) /\ HashMatches(hash, itm) /\ Ahead(cmd, itm)
      /\ Len(itm) \in Nat /\ i \in 1..Len(itm)
  BY DEF CInv
<1>2. /\ p[1].item \in DOMAIN hash /\ i = Len(itm) - hash[p[1].item]
      /\ itm[i].dir = p[1].dir
      /\ hash[p[1].item] \in 1..(Len(itm) - 1)
      /\ itm[i].item = p[1].item
  BY <1>1 DEF Follow, OnTrack, At, HashMatches
<1>3. p[1].len \in Nat
  <2>1. p[1] \in Leg
    OBVIOUS
  <2> QED BY <2>1 DEF Leg
<1>4. /\ s \in Seq(Itm) /\ Len(s) = Len(itm) - i + 1 /\ s[1].len = p[1].len
      /\ \A k \in 1..(Len(itm) - i + 1) :
              /\ s[k].item = itm[i + k - 1].item
              /\ s[k].dir = itm[i + k - 1].dir
              /\ k # 1 => s[k].len = itm[i + k - 1].len
  BY <1>1, <1>3, RestOfItems
<1>5. /\ CallCallbacks(s, cmd', {n \in heard : n <= Count(itm, i)}, turn_around')
      /\ hash' = HashFrom(i) /\ cmd' = CommandsFrom(i)
  BY DEF Follow, RestOf
<1> HIDE DEF s
<1>6. /\ itm' \in Seq(Itm) /\ Len(itm') = Len(s) /\ DOMAIN s = 1..Len(s)
      /\ \A k \in DOMAIN s : /\ itm'[k].item = s[k].item
                             /\ itm'[k].dir = s[k].dir
                             /\ itm'[k].len = s[k].len
  BY <1>4, <1>5, SpeechKeepsItems
<1>7. /\ Len(itm') = Len(itm) - i + 1 /\ itm'[1].len = p[1].len
      /\ \A k \in 1..Len(itm') : /\ itm'[k].item = itm[i + k - 1].item
                                 /\ itm'[k].dir = itm[i + k - 1].dir
                                 /\ k # 1 => itm'[k].len = itm[i + k - 1].len
  <2>1. 1 \in DOMAIN s
    BY <1>1, <1>4, <1>6
  <2> QED BY <1>4, <1>6, <2>1
<1>8. HashMatches(hash', itm')
  BY <1>1, <1>5, <1>7, HashOfRest
<1>9. Ahead(cmd', itm')
  BY <1>1, <1>5, <1>6, <1>7, AheadOfRest
<1>10. itm' # <<>>
  <2>1. Len(itm') # 0
    BY <1>1, <1>7
  <2> QED BY <2>1
<1>11. i \in 1..(Len(itm) - 1)
  BY <1>1, <1>2
<1> QED BY <1>2, <1>6, <1>7, <1>8, <1>9, <1>10, <1>11 DEF CInv

(* What is kept stands for the new path when it is the rest of the old one *)
LEMMA FollowFollows ==
  ASSUME NavigationAssumption, EachStreetOnce, CInv, path # <<>>,
         path \in PathsOf[flood], Follows(itm, path), flood' \in Flood,
         NEW p \in PathsOf[flood], NEW reverse, NEW i \in DOMAIN itm,
         Follow(p, reverse, i)
  PROVE  Follows(itm', p)
<1>1. /\ path \in Seq(Leg) /\ p \in Seq(Leg) /\ p # <<>>
      /\ flood \in Flood
  BY DEF NavigationAssumption, CInv
<1>2. /\ Len(p) \in Nat \ {0} /\ DOMAIN p = 1..Len(p) /\ p[1] \in Leg
      /\ Len(path) \in Nat /\ DOMAIN path = 1..Len(path)
      /\ Len(itm) = Len(path) + 1 /\ i \in Nat
  BY <1>1 DEF Follows, CInv
<1>3. /\ i \in 1..(Len(itm) - 1)
      /\ itm[i].item = p[1].item /\ itm[i].dir = p[1].dir
      /\ Len(itm') = Len(itm) - i + 1
      /\ itm'[1].len = p[1].len
      /\ \A k \in 1..Len(itm') : /\ itm'[k].item = itm[i + k - 1].item
                                 /\ itm'[k].dir = itm[i + k - 1].dir
                                 /\ k # 1 => itm'[k].len = itm[i + k - 1].len
  BY <1>1, FollowKeeps
<1>4. i \in DOMAIN path
  BY <1>2, <1>3
<1>5. SameTurn(path[i], p[1])
  <2>1. [item |-> itm[i].item, dir |-> itm[i].dir, len |-> itm[i].len] = path[i]
    BY <1>4 DEF Follows
  <2>2. path[i].item = itm[i].item /\ path[i].dir = itm[i].dir
    BY <2>1
  <2> QED BY <1>3, <2>2 DEF SameTurn, Turn
<1>6. /\ Len(p) = Len(path) - i + 1
      /\ \A k \in 2..Len(p) : p[k] = path[i + k - 1]
  BY <1>1, <1>4, <1>5 DEF EachStreetOnce
<1>7. Len(itm') = Len(p) + 1
  BY <1>2, <1>3, <1>6
<1>8. ASSUME NEW k \in DOMAIN p
      PROVE  [item |-> itm'[k].item, dir |-> itm'[k].dir, len |-> itm'[k].len] = p[k]
  <2>0. k \in 1..Len(itm')
    BY <1>2, <1>7
  <2>1. CASE k = 1
    <3>1. i + 1 - 1 = i
      BY <1>2
    <3>2. /\ itm'[1].item = p[1].item /\ itm'[1].dir = p[1].dir
          /\ itm'[1].len = p[1].len
      BY <1>3, <2>0, <2>1, <3>1
    <3> QED BY <1>2, <2>1, <3>2 DEF Leg
  <2>2. CASE k # 1
    <3>1. k \in 2..Len(p) /\ i + k - 1 \in DOMAIN path
      BY <1>2, <1>4, <1>6, <2>2
    <3>2. /\ itm'[k].item = itm[i + k - 1].item
          /\ itm'[k].dir = itm[i + k - 1].dir
          /\ itm'[k].len = itm[i + k - 1].len
      BY <1>3, <2>0, <2>2
    <3>3. [item |-> itm[i + k - 1].item, dir |-> itm[i + k - 1].dir,
           len |-> itm[i + k - 1].len] = path[i + k - 1]
      BY <3>1 DEF Follows
    <3> QED BY <1>6, <3>1, <3>2, <3>3
  <2> QED BY <2>1, <2>2
<1> QED BY <1>7, <1>8 DEF Follows

LEMMA InitCInv == Init => CInv
<1> SUFFICES ASSUME Init PROVE CInv
  OBVIOUS
<1>1. flood \in Flood /\ itm = <<>> /\ hash = <<>> /\ cmd = <<>>
  BY DEF Init
<1>2. DOMAIN hash = {}
  BY <1>1
<1>3. itm \in Seq(Itm)
  BY <1>1
<1> QED BY <1>1, <1>2, <1>3 DEF CInv, HashMatches

LEMMA StepCInv ==
  ASSUME NavigationAssumption, CInv, [Next]_vars
  PROVE  CInv'
<1>1. ASSUME NEW f \in Flood, NEW p \in PathsOf[f], NEW reverse, New(f, p, reverse)
      PROVE  CInv'
  <2>1. p \in Seq(Leg) /\ p # <<>>
    BY DEF NavigationAssumption
  <2>2. flood' \in Flood /\ StartAnew(p, reverse)
    BY <1>1 DEF New
  <2> QED BY <2>1, <2>2, AnewKeeps
<1>2. ASSUME NEW p \in PathsOf[flood], NEW reverse, Incremental(p, reverse)
      PROVE  CInv'
  <2>1. p \in Seq(Leg) /\ p # <<>> /\ flood \in Flood
    BY DEF NavigationAssumption, CInv
  <2>2. flood' \in Flood
    BY <1>2, <2>1 DEF Incremental
  <2>3. CASE \E i \in DOMAIN itm : Follow(p, reverse, i)
    BY <2>1, <2>2, <2>3, FollowKeeps
  <2>4. CASE StartAnew(p, reverse)
    BY <2>1, <2>2, <2>4, AnewKeeps
  <2> QED BY <1>2, <2>3, <2>4 DEF Incremental
<1>3. CASE Flush
  <2>1. /\ flood' = flood /\ itm' = <<>> /\ hash' = <<>> /\ cmd' = <<>>
        /\ itm' \in Seq(Itm)
    BY <1>3 DEF Flush
  <2>2. DOMAIN hash' = {}
    BY <2>1
  <2> QED BY <2>1, <2>2 DEF CInv, HashMatches
<1>4. CASE UNCHANGED vars
  <2>1. /\ flood' = flood /\ itm' = itm /\ hash' = hash /\ cmd' = cmd
    BY <1>4 DEF vars, items
  <2> QED BY <2>1 DEF CInv, HashMatches, Ahead, Needed, At
<1> QED BY <1>1, <1>2, <1>3, <1>4 DEF Next

LEMMA AlwaysCInv == Spec => []CInv
<1>1. CInv /\ [Next]_vars => CInv'
  BY StepCInv, NavigationAssumption
<1> QED BY <1>1, InitCInv, PTL DEF Spec

(* What is kept of the commands when items are removed from the front is   *)
(* what make_maneuvers would make of the items that remain, whatever the   *)
(* paths are: no manoeuvre is lost or announced after it is passed.        *)
THEOREM CommandsAlwaysAhead == Spec => []CommandsLieAhead
<1>1. CInv => CommandsLieAhead
  <2> SUFFICES ASSUME CInv, itm # <<>>
               PROVE  LET at == [k \in DOMAIN cmd |-> At(itm, cmd[k].at)]
                      IN /\ Range(at) = Needed(itm)
                         /\ \A j, k \in DOMAIN at : j < k => at[j] < at[k]
    BY DEF CommandsLieAhead
  <2> DEFINE at == [k \in DOMAIN cmd |-> At(itm, cmd[k].at)]
  <2>1. Ahead(cmd, itm)
    BY DEF CInv
  <2>2. DOMAIN at = DOMAIN cmd /\ \A k \in DOMAIN cmd : at[k] = At(itm, cmd[k].at)
    OBVIOUS
  <2> HIDE DEF at
  <2>3. Range(at) = Needed(itm)
    BY <2>1, <2>2 DEF Ahead, Range
  <2>4. \A j, k \in DOMAIN at : j < k => at[j] < at[k]
    BY <2>1, <2>2 DEF Ahead
  <2> QED BY <2>3, <2>4 DEF at
<1> QED BY <1>1, AlwaysCInv, PTL

-----------------------------------------------------------------------------
(* The inductive invariant about the path: the hash must be right for the  *)
(* next update to keep the right items (CInv), and the path one of the     *)
(* flood for the next path to be the rest of it.                           *)
IInv ==
  /\ path = <<>> => itm = <<>>
  /\ path # <<>> => path \in PathsOf[flood] /\ Follows(itm, path)

(* Every update keeps the invariant. *)
LEMMA NextIInv ==
  ASSUME NavigationAssumption, EachStreetOnce, CInv, IInv, [Next]_vars
  PROVE  IInv'
<1>1. ASSUME NEW f \in Flood, NEW p \in PathsOf[f], NEW reverse, New(f, p, reverse)
      PROVE  IInv'
  <2>1. p \in Seq(Leg) /\ p # <<>>
    BY DEF NavigationAssumption
  <2>2. flood' = f /\ path' = p /\ StartAnew(p, reverse) /\ flood' \in Flood
    BY <1>1 DEF New
  <2>3. Follows(itm', p)
    BY <2>1, <2>2, AnewKeeps
  <2> QED BY <2>1, <2>2, <2>3 DEF IInv
<1>2. ASSUME NEW p \in PathsOf[flood], NEW reverse, Incremental(p, reverse)
      PROVE  IInv'
  <2>1. p \in Seq(Leg) /\ p # <<>> /\ flood \in Flood
    BY DEF NavigationAssumption, CInv
  <2>2. path # <<>> /\ path' = p /\ flood' = flood /\ flood' \in Flood
    BY <1>2, <2>1 DEF Incremental
  <2>3. CASE \E i \in DOMAIN itm : Follow(p, reverse, i)
    <3>1. path \in PathsOf[flood] /\ Follows(itm, path)
      BY <2>2 DEF IInv
    <3>2. Follows(itm', p)
      BY <2>2, <2>3, <3>1, FollowFollows
    <3> QED BY <2>1, <2>2, <3>2 DEF IInv
  <2>4. CASE StartAnew(p, reverse)
    <3>1. Follows(itm', p)
      BY <2>1, <2>2, <2>4, AnewKeeps
    <3> QED BY <2>1, <2>2, <3>1 DEF IInv
  <2> QED BY <1>2, <2>3, <2>4 DEF Incremental
<1>3. CASE Flush
  BY <1>3 DEF Flush, IInv
<1>4. CASE UNCHANGED vars
  BY <1>4 DEF vars, items, IInv, Follows
<1> QED BY <1>1, <1>2, <1>3, <1>4 DEF Next

(* As long as no path takes a street twice in the same direction, the      *)
(* items are the streets of the path with what is left of them, however    *)
(* many updates have removed or made them (navigation_update).             *)
THEOREM ItemsFollowPath == EachStreetOnce => (Spec => []FollowsPath)
<1> SUFFICES ASSUME EachStreetOnce PROVE Spec => []FollowsPath
  OBVIOUS
<1>1. Init => IInv
  BY DEF Init, IInv
<1>2. CInv /\ IInv /\ [Next]_vars => IInv'
  BY NextIInv, NavigationAssumption
<1>3. IInv => FollowsPath
  BY DEF IInv, FollowsPath, Follows
<1> QED BY <1>1, <1>2, <1>3, AlwaysCInv, PTL DEF Spec

-----------------------------------------------------------------------------
(* Without a delay, what was told last is what was decided last: only an   *)
(* announcement of a turn changes the level and the item it is about.      *)
TInv ==
  delay = 0 =>
    /\ curr_delay = 0
    /\ said.what = "turn" => said.item = item_last /\ said.level = level_last

(* An announcement keeps TInv, and tells a turn again only if it is nearer *)
Again ==
  (/\ delay = 0 /\ said.what = "turn" /\ said'.what = "turn"
   /\ said' # said /\ said'.item = said.item) => said'.level < said.level

LEMMA CallKeepsTInv ==
  ASSUME TInv, NEW s, NEW c, NEW h, NEW turns, CallCallbacks(s, c, h, turns),
         delay' = delay
  PROVE  TInv' /\ Again
<1> DEFINE n == NextItem(s, c)
           l == LevelNow(s, c)
<1>1. CASE TurnAround(s, c, h, turns)
  <2>1. item_last' = item_last
    BY <1>1 DEF TurnAround
  <2>2. CASE said' = said /\ level_last' = level_last /\ curr_delay' = curr_delay
    BY <2>1, <2>2 DEF TInv, Again
  <2>3. CASE said'.what = "around" /\ curr_delay' = 0
    BY <2>1, <2>3 DEF TInv, Again
  <2> QED BY <1>1, <2>2, <2>3 DEF TurnAround, Speak, Silent
<1>2. CASE Guide(s, c, h, turns)
  <2>1. item_last' = n
    BY <1>2 DEF Guide
  <2>2. CASE ForceSpeech(s, c)
    <3>1. level_last' = l /\ curr_delay' = 0
      BY <1>2, <2>2 DEF Guide
    <3>2. said'.what = "turn" /\ said'.item = n /\ said'.level = l
      BY <1>2, <2>2 DEF Guide, Speak
    <3>3. TInv'
      BY <2>1, <3>1, <3>2 DEF TInv
    <3>4. Again
      <4> SUFFICES ASSUME delay = 0, said.what = "turn", said'.item = said.item
                   PROVE  said'.level < said.level
        BY DEF Again
      <4>1. curr_delay = 0 /\ said.item = item_last /\ said.level = level_last
        BY DEF TInv
      <4>2. ~NewTurn(s, c)
        BY <3>2, <4>1 DEF NewTurn
      <4>3. Nearer(s, c)
        BY <2>2, <4>1, <4>2 DEF ForceSpeech
      <4> QED BY <3>2, <4>1, <4>3 DEF Nearer
    <3> QED BY <3>3, <3>4
  <2>3. CASE ~ForceSpeech(s, c)
    <3>1. said' = said /\ level_last' = level_last /\ curr_delay' = DelayLeft(s, c)
      BY <1>2, <2>3 DEF Guide, Silent
    <3>2. ASSUME delay = 0
          PROVE  item_last' = item_last /\ curr_delay' = 0
      BY <2>1, <2>3, <3>1, <3>2 DEF ForceSpeech, NewTurn, DelayLeft, TInv
    <3> QED BY <3>1, <3>2 DEF TInv, Again
  <2> QED BY <2>2, <2>3
<1>3. CASE Undecided(s, h, turns)
  BY <1>3 DEF Undecided, Silent, TInv, Again
<1> QED BY <1>1, <1>2, <1>3 DEF CallCallbacks

LEMMA NextTInv ==
  ASSUME TInv, [Next]_vars
  PROVE  TInv' /\ Again
<1>1. ASSUME NEW p, NEW reverse, StartAnew(p, reverse), delay' = delay
      PROVE  TInv' /\ Again
  <2>1. CallCallbacks(ItemsOf(p), cmd', {}, turn_around')
    BY <1>1 DEF StartAnew
  <2> QED BY <1>1, <2>1, CallKeepsTInv
<1>2. ASSUME NEW f, NEW p, NEW reverse, New(f, p, reverse)
      PROVE  TInv' /\ Again
  BY <1>1, <1>2 DEF New
<1>3. ASSUME NEW p, NEW reverse, Incremental(p, reverse)
      PROVE  TInv' /\ Again
  <2>1. delay' = delay
    BY <1>3 DEF Incremental
  <2>2. ASSUME NEW i \in DOMAIN itm, Follow(p, reverse, i)
        PROVE  TInv' /\ Again
    <3>1. CallCallbacks([ItemsFrom(i) EXCEPT ![1].len = p[1].len], cmd',
                        {n \in heard : n <= Count(itm, i)}, turn_around')
      BY <2>2 DEF Follow
    <3> QED BY <2>1, <3>1, CallKeepsTInv
  <2> QED BY <1>1, <1>3, <2>1, <2>2 DEF Incremental
<1>4. CASE Flush
  BY <1>4 DEF Flush, telling, TInv, Again
<1>5. CASE UNCHANGED vars
  BY <1>5 DEF vars, telling, TInv, Again
<1> QED BY <1>2, <1>3, <1>4, <1>5 DEF Next

(* Without a delay no manoeuvre is told twice in a row unless it is nearer *)
(* the second time (navigation_call_callbacks).                            *)
THEOREM NothingIsSaidTwice == Spec => NothingSaidTwice
<1>1. Init => TInv
  BY DEF Init, TInv
<1>2. TInv /\ [Next]_vars => TInv'
  BY NextTInv
<1>3. TInv /\ [Next]_vars =>
        [/\ said' # said /\ delay = 0
         /\ said.what = "turn" /\ said'.what = "turn" /\ said'.item = said.item
         => said'.level < said.level]_vars
  BY NextTInv DEF Again
<1> QED BY <1>1, <1>2, <1>3, PTL DEF Spec, NothingSaidTwice

-----------------------------------------------------------------------------
(* Announcements in time.  What is decided from the items is decided the   *)
(* same after "told" has changed.                                          *)
LEMMA LevelTyped ==
  ASSUME NEW street, NEW dist
  PROVE  Level(street, dist) \in 0..3
<1> DEFINE near == {i \in 0..2 : dist <= Announce[street][i + 1]}
<1>1. near \in SUBSET Nat /\ near \subseteq 0..2
  OBVIOUS
<1>2. near # {} => Min(near) \in near
  <2> HIDE DEF near
  <2> SUFFICES ASSUME near # {} PROVE Min(near) \in near
    OBVIOUS
  <2>1. \E n \in near : \A m \in near : n <= m
    BY <1>1, LeastOf
  <2> QED BY <2>1 DEF Min
<1>3. Level(street, dist) = IF near = {} THEN 3 ELSE Min(near)
  BY DEF Level
<1>4. near # {} => Min(near) \in 0..2
  BY <1>1, <1>2
<1> HIDE DEF near
<1> QED BY <1>3, <1>4

LEMMA LevelCmdTyped ==
  ASSUME NEW s, NEW c, NEW dist
  PROVE  LevelCmd(s, c, dist) \in 0..3
<1>1. PICK a, b : /\ a = Level(s[1].item, dist)
                  /\ b = Level(s[At(s, c[1].at) - 1].item, dist)
  OBVIOUS
<1>2. a \in 0..3 /\ b \in 0..3
  BY <1>1, LevelTyped
<1>3. Max({a, b}) \in {a, b}
  <2>1. \E x \in {a, b} : \A y \in {a, b} : x >= y
    BY <1>2
  <2> QED BY <2>1 DEF Max
<1>4. LevelCmd(s, c, dist) = Max({a, b})
  BY <1>1 DEF LevelCmd
<1> QED BY <1>2, <1>3, <1>4

LEMMA SameDecision ==
  ASSUME NEW s, NEW t, SameTurns(s, t), \A i \in DOMAIN s : t[i].len = s[i].len,
         NEW c, c # <<>>, Ahead(c, s)
  PROVE  /\ NextItem(t, c) = NextItem(s, c) /\ NextItem(s, c) \in Street \cup {End}
         /\ LevelNow(t, c) = LevelNow(s, c)
         /\ Holds(t, c) <=> Holds(s, c)
<1> DEFINE a == At(s, c[1].at)
<1>1. /\ Len(t) = Len(s) /\ Len(s) \in Nat /\ DOMAIN s = 1..Len(s)
      /\ \A i \in 1..Len(s) : /\ t[i].item = s[i].item /\ t[i].len = s[i].len
                              /\ s[i].item \in Street \cup {End}
  <2>1. \A i \in 1..Len(s) : s[i] \in Itm
    BY DEF SameTurns
  <2>2. \A x \in Itm : x.item \in Street \cup {End}
    BY DEF Itm
  <2> QED BY <2>1, <2>2 DEF SameTurns
<1>2. 1 \in DOMAIN c
  <2> DEFINE C == [at : 0..Len(s), length : Nat]
  <2>1. c \in Seq(C)
    BY DEF Ahead
  <2> HIDE DEF C
  <2> QED BY <2>1
<1>3. a \in 2..Len(s) /\ At(t, c[1].at) = a
  BY <1>1, <1>2 DEF Ahead, Needed, At
<1> HIDE DEF a
<1>4. /\ 1 \in 1..Len(s) /\ a \in 1..Len(s) /\ a - 1 \in 1..Len(s)
      /\ 1 \in Int /\ a \in Int /\ \A k \in 1..(a - 1) : k \in 1..Len(s)
  BY <1>1, <1>3
<1>5. LenBetween(t, 1, a) = LenBetween(s, 1, a)
  <2>1. \A k \in 1..(a - 1) : t[k].len = s[k].len
    BY <1>1, <1>4
  <2> QED BY <1>4, <2>1, SameLengths
<1>6. Distance(t, c) = Distance(s, c)
  BY <1>3, <1>5 DEF Distance, a
<1>7. \A d : LevelCmd(t, c, d) = LevelCmd(s, c, d)
  BY <1>1, <1>3, <1>4 DEF LevelCmd, a
<1>8. LevelNow(t, c) = LevelNow(s, c)
  BY <1>6, <1>7 DEF LevelNow
<1>9. NextItem(t, c) = NextItem(s, c) /\ NextItem(s, c) \in Street \cup {End}
  BY <1>1, <1>3, <1>4 DEF NextItem, a
<1>10. t[1].item = s[1].item
  BY <1>1, <1>4
<1>11. Holds(t, c) <=> Holds(s, c)
  BY <1>6, <1>7, <1>8, <1>10 DEF Holds
<1> QED BY <1>8, <1>9, <1>11

(* An update that decides what to say from the new items is in time *)
LEMMA TellsInTime ==
  ASSUME NavigationAssumption, TInv, level_last \in -2..4, delay' = delay,
         NEW s \in Seq(Itm), NEW h, CallCallbacks(s, cmd', h, turn_around'),
         cmd' # <<>> => Ahead(cmd', itm')
  PROVE  InTime' /\ level_last' \in -2..4
<1> DEFINE c == cmd'
<1>1. /\ itm' \in Seq(Itm) /\ Len(itm') = Len(s)
      /\ \A i \in DOMAIN s : /\ itm'[i].item = s[i].item
                             /\ itm'[i].dir = s[i].dir
                             /\ itm'[i].len = s[i].len
  BY SpeechKeepsItems
<1>2. c # <<>> => /\ NextItem(itm', c) = NextItem(s, c)
                  /\ LevelNow(itm', c) = LevelNow(s, c)
                  /\ Holds(itm', c) <=> Holds(s, c)
  <2> SUFFICES ASSUME c # <<>>
               PROVE  /\ NextItem(itm', c) = NextItem(s, c)
                      /\ LevelNow(itm', c) = LevelNow(s, c)
                      /\ Holds(itm', c) <=> Holds(s, c)
    OBVIOUS
  <2>1. DOMAIN itm' = DOMAIN s
    BY <1>1
  <2>2. SameTurns(s, itm') /\ SameTurns(itm', s)
    BY <1>1, <2>1 DEF SameTurns
  <2>3. Ahead(c, s)
    BY <2>2, AheadOfSame
  <2> QED BY <1>1, <2>2, <2>3, SameDecision
<1>3. LevelNow(s, c) \in 0..3
  BY LevelCmdTyped DEF LevelNow
<1>4. CASE TurnAround(s, c, h, turn_around')
  <2>1. ~Guides(turn_around)'
    BY <1>4 DEF TurnAround, TurnsAround, Guides, NavigationAssumption
  <2>2. level_last' = 4 \/ level_last' = level_last
    BY <1>4 DEF TurnAround
  <2> QED BY <2>1, <2>2 DEF InTime
<1>5. CASE Guide(s, c, h, turn_around')
  <2>1. item_last' = NextItem(s, c)
    BY <1>5 DEF Guide
  <2>2. CASE ForceSpeech(s, c)
    <3>1. level_last' = LevelNow(s, c) /\ said'.item = NextItem(s, c)
      BY <1>5, <2>2 DEF Guide, Speak
    <3> QED BY <1>2, <1>3, <2>1, <3>1 DEF InTime
  <2>3. CASE ~ForceSpeech(s, c)
    <3>1. said' = said /\ level_last' = level_last
      BY <1>5, <2>3 DEF Guide, Silent
    <3>2. delay = 0 /\ said.what = "turn" => said.item = NextItem(s, c)
      BY <2>3 DEF TInv, ForceSpeech, NewTurn
    <3>3. Holds(s, c) => level_last <= LevelNow(s, c)
      BY <1>3, <2>3 DEF ForceSpeech, Nearer
    <3> QED BY <1>2, <2>1, <3>1, <3>2, <3>3 DEF InTime
  <2> QED BY <2>2, <2>3
<1>6. CASE Undecided(s, h, turn_around')
  <2>1. ~Guides(turn_around)' /\ level_last' = level_last
    BY <1>6 DEF Undecided, Guides
  <2> QED BY <2>1 DEF InTime
<1> QED BY <1>4, <1>5, <1>6 DEF CallCallbacks

LInv == InTime /\ level_last \in -2..4

LEMMA StepInTime ==
  ASSUME NavigationAssumption, CInv, TInv, LInv, [Next]_vars
  PROVE  LInv'
<1>1. CInv'
  BY StepCInv
<1>2. cmd' # <<>> => Ahead(cmd', itm')
  BY <1>1 DEF CInv
<1>3. ASSUME NEW p \in Seq(Leg), p # <<>>, NEW reverse, StartAnew(p, reverse),
             delay' = delay
      PROVE  LInv'
  <2>1. CallCallbacks(ItemsOf(p), cmd', {}, turn_around')
    BY <1>3 DEF StartAnew
  <2>2. ItemsOf(p) \in Seq(Itm)
    BY <1>3, ItemsFollow
  <2> QED BY <1>2, <1>3, <2>1, <2>2, TellsInTime DEF LInv
<1>4. ASSUME NEW f \in Flood, NEW p \in PathsOf[f], NEW reverse, New(f, p, reverse)
      PROVE  LInv'
  <2>1. p \in Seq(Leg) /\ p # <<>>
    BY DEF NavigationAssumption
  <2> QED BY <1>3, <1>4, <2>1 DEF New
<1>5. ASSUME NEW p \in PathsOf[flood], NEW reverse, Incremental(p, reverse)
      PROVE  LInv'
  <2>1. p \in Seq(Leg) /\ p # <<>>
    BY DEF NavigationAssumption, CInv
  <2>2. delay' = delay
    BY <1>5 DEF Incremental
  <2>3. ASSUME NEW i \in DOMAIN itm, Follow(p, reverse, i)
        PROVE  LInv'
    <3>1. CallCallbacks(RestOf(i, p[1].len), cmd',
                        {n \in heard : n <= Count(itm, i)}, turn_around')
      BY <2>3 DEF Follow, RestOf
    <3>2. p[1].len \in Nat
      <4>1. p[1] \in Leg
        BY <2>1
      <4> QED BY <4>1 DEF Leg
    <3>3. itm \in Seq(Itm) /\ i \in 1..Len(itm)
      BY DEF CInv
    <3>4. RestOf(i, p[1].len) \in Seq(Itm)
      BY <3>2, <3>3, RestOfItems
    <3> QED BY <1>2, <2>2, <3>1, <3>4, TellsInTime DEF LInv
  <2> QED BY <1>3, <1>5, <2>1, <2>2, <2>3 DEF Incremental
<1>6. CASE Flush
  BY <1>6 DEF Flush, telling, LInv, InTime
<1>7. CASE UNCHANGED vars
  BY <1>7 DEF vars, items, telling, LInv, InTime
<1> QED BY <1>4, <1>5, <1>6, <1>7 DEF Next

(* While the vehicle is guided and no delay runs, the next manoeuvre is    *)
(* the one that was told last, at no lesser level than it has now          *)
(* (navigation_call_callbacks), for all paths, distances and speeds.       *)
THEOREM AlwaysInTime == Spec => []InTime
<1>1. Init => LInv
  BY DEF Init, LInv, InTime
<1>2. Init => TInv
  BY DEF Init, TInv
<1>3. CInv /\ TInv /\ LInv /\ [Next]_vars => LInv'
  BY StepInTime, NavigationAssumption
<1>4. TInv /\ [Next]_vars => TInv'
  BY NextTInv
<1>5. LInv => InTime
  BY DEF LInv
<1> QED BY <1>1, <1>2, <1>3, <1>4, <1>5, AlwaysCInv, PTL DEF Spec

-----------------------------------------------------------------------------
(* Types.  The loop that raises distance_turn *)
Turned == {d \in Nat : d = 50 \/ d >= 500}

LEMMA TurnDistanceTyped ==
  ASSUME NEW d \in Turned, NEW dist
  PROVE  TurnDistance(d, dist) \in Turned
<1> DEFINE Raise(r) == IF dist > r THEN Farther(r) ELSE r
           g == [k \in 1..23 |-> [r \in Turned |-> Raise(r)]]
           IsRaised(v) == v = [n \in 0..23 |->
             IF n = 0 THEN d ELSE LET r == v[n - 1] IN IF dist > r THEN Farther(r) ELSE r]
           raised == CHOOSE v : IsRaised(v)
<1>1. \A r \in Turned : Farther(r) \in Turned
  BY DEF Turned, Farther
<1>2. \A r \in Turned : Raise(r) \in Turned
  BY <1>1
<1>3. PICK u : Runs(u, 23, Turned, d, g)
  <2>1. g \in [1..23 -> [Turned -> Turned]]
    <3> HIDE DEF Raise
    <3> QED BY <1>2
  <2>2. 23 \in Nat
    OBVIOUS
  <2> HIDE DEF g
  <2> QED BY <2>1, <2>2, Iterated
<1>4. IsRaised(u)
  <2>1. ASSUME NEW n \in 0..23
        PROVE  u[n] = IF n = 0 THEN d ELSE Raise(u[n - 1])
    <3>1. CASE n # 0
      <4>1. n \in 1..23 /\ n - 1 \in 0..23
        BY <3>1
      <4>2. u[n] = g[n][u[n - 1]] /\ u[n - 1] \in Turned
        BY <1>3, <4>1 DEF Runs
      <4>3. g[n][u[n - 1]] = Raise(u[n - 1])
        <5> HIDE DEF Raise
        <5> QED BY <4>1, <4>2
      <4> QED BY <3>1, <4>2, <4>3
    <3> QED BY <1>3, <3>1 DEF Runs
  <2>2. u = [n \in 0..23 |-> u[n]]
    BY <1>3 DEF Runs
  <2> QED BY <2>1, <2>2
<1>5. IsRaised(raised)
  <2> HIDE DEF IsRaised
  <2> QED BY <1>4
<1>6. \A n \in 0..23 : raised[n] = IF n = 0 THEN d ELSE Raise(raised[n - 1])
  <2> HIDE DEF raised
  <2> QED BY <1>5
<1>7. TurnDistance(d, dist) = raised[23]
  BY DEF TurnDistance
<1> HIDE DEF raised, IsRaised, g, Raise
<1> DEFINE Bad == {n \in 0..23 : raised[n] \notin Turned}
<1>8. ASSUME NEW n \in Bad, \A k \in Bad : n <= k PROVE FALSE
  <2>1. n # 0
    BY <1>6
  <2>2. n - 1 \in 0..23 /\ ~(n <= n - 1) /\ n \in 0..23
    BY <2>1
  <2>3. raised[n - 1] \in Turned
    BY <1>8, <2>2
  <2> QED BY <1>2, <1>6, <2>1, <2>2, <2>3
<1>9. Bad \in SUBSET Nat
  OBVIOUS
<1>10. Bad = {}
  <2> HIDE DEF Bad
  <2> QED BY <1>8, <1>9, LeastOf
<1> QED BY <1>7, <1>10

(* What the announcements keep, whatever they are about *)
Telling ==
  /\ level_last \in -2..4
  /\ distance_turn \in Turned
  /\ delay \in Nat /\ curr_delay \in 0..delay
  /\ said \in Said

LEMMA CallTyped ==
  ASSUME Telling, delay' = delay, NEW s \in Seq(Itm), NEW c, NEW h, NEW turns,
         CallCallbacks(s, c, h, turns), h \subseteq 0..Len(s), Ahead(c, s), c # <<>>
  PROVE  Telling' /\ heard' \subseteq 0..Len(s)
<1>1. NextItem(s, c) \in Street \cup {End}
  <2>1. SameTurns(s, s)
    BY DEF SameTurns
  <2> QED BY <2>1, SameDecision
<1>2. LevelNow(s, c) \in 0..3
  BY LevelCmdTyped DEF LevelNow
<1>3. \A k \in DOMAIN c : c[k].at \in 0..Len(s)
  <2> DEFINE C == [at : 0..Len(s), length : Nat]
  <2>1. c \in Seq(C)
    BY DEF Ahead
  <2>2. \A x \in C : x.at \in 0..Len(s)
    OBVIOUS
  <2> HIDE DEF C
  <2>3. \A k \in DOMAIN c : c[k] \in C
    BY <2>1
  <2> QED BY <2>2, <2>3
<1>4. DOMAIN c = 1..Len(c) /\ Len(c) \in Nat \ {0}
  <2> DEFINE C == [at : 0..Len(s), length : Nat]
  <2>1. c \in Seq(C)
    BY DEF Ahead
  <2> HIDE DEF C
  <2> QED BY <2>1
<1>5. ASSUME NEW gap, NEW cut PROVE Spoken(s, c, gap, cut) \subseteq 0..Len(s)
  <2>1. c[1].at \in 0..Len(s)
    BY <1>3, <1>4
  <2>2. \A k \in Joined(c, gap, cut) : k \in DOMAIN c
    BY <1>4 DEF Joined
  <2>3. {c[k].at : k \in Joined(c, gap, cut) \ {cut}} \subseteq 0..Len(s)
    BY <1>3, <2>2
  <2> QED BY <2>1, <2>3 DEF Spoken
<1>6. ASSUME NEW what \in {"turn", "around"}, NEW level \in -1..4,
             Speak(s, c, h, what, level)
      PROVE  said' \in Said /\ heard' \subseteq 0..Len(s)
  <2>1. PICK o \in Outcomes(s, c) :
          /\ heard' = h \cup (IF what = "turn" THEN o.spoken ELSE {})
          /\ said' = [what |-> what, item |-> NextItem(s, c), level |-> level,
                      beat |-> ~said.beat]
    BY <1>6 DEF Speak
  <2>2. o.spoken \subseteq 0..Len(s)
    <3>1. PICK gap \in Gaps, cut \in {0, 2, 3} :
            o = [told |-> ToldTogether(s, c, gap, cut), spoken |-> Spoken(s, c, gap, cut)]
      BY DEF Outcomes
    <3> QED BY <1>5, <3>1
  <2>3. (~said.beat) \in BOOLEAN
    OBVIOUS
  <2> QED BY <1>1, <2>1, <2>2, <2>3 DEF Said
<1>7. CASE TurnAround(s, c, h, turns)
  <2>1. distance_turn' \in Turned
    BY <1>7, TurnDistanceTyped DEF TurnAround, Telling
  <2>2. CASE level_last' = 4 /\ curr_delay' = 0 /\ Speak(s, c, h, "around", 4)
    BY <1>6, <2>1, <2>2 DEF Telling
  <2>3. CASE UNCHANGED <<level_last, curr_delay>> /\ Silent(s, h)
    BY <2>1, <2>3 DEF Telling, Silent
  <2> QED BY <1>7, <2>2, <2>3 DEF TurnAround
<1>8. CASE Guide(s, c, h, turns)
  <2>1. distance_turn' \in Turned
    BY <1>8 DEF Guide, Turned
  <2>2. CASE ForceSpeech(s, c)
    <3>1. /\ level_last' = LevelNow(s, c) /\ curr_delay' = 0
          /\ Speak(s, c, h, "turn", LevelNow(s, c))
      BY <1>8, <2>2 DEF Guide
    <3>2. LevelNow(s, c) \in -1..4 /\ LevelNow(s, c) \in -2..4
      BY <1>2
    <3> QED BY <1>6, <2>1, <3>1, <3>2 DEF Telling
  <2>3. CASE ~ForceSpeech(s, c)
    <3>1. /\ curr_delay' = DelayLeft(s, c) /\ level_last' = level_last
          /\ said' = said /\ heard' = h
      BY <1>8, <2>3 DEF Guide, Silent
    <3>2. DelayLeft(s, c) \in 0..delay
      BY DEF DelayLeft, Telling
    <3> QED BY <2>1, <3>1, <3>2 DEF Telling
  <2> QED BY <2>2, <2>3
<1>9. CASE Undecided(s, h, turns)
  BY <1>9 DEF Undecided, Silent, Telling
<1> QED BY <1>7, <1>8, <1>9 DEF CallCallbacks

YInv ==
  /\ Telling
  /\ path \in Seq(Leg)
  /\ hash = [x \in DOMAIN hash |-> hash[x]] /\ DOMAIN hash \subseteq Street
  /\ turn_around \in (1 - turn_around_limit)..turn_around_limit \cup {0}
  /\ heard \subseteq 0..Len(itm)

LEMMA TurnsTyped ==
  ASSUME NavigationAssumption, NEW reverse,
         turn_around \in (1 - turn_around_limit)..turn_around_limit \cup {0}
  PROVE  Turns(reverse) \in (1 - turn_around_limit)..turn_around_limit \cup {0}
<1>1. turn_around_limit \in Nat /\ turn_around \in Int
  BY DEF NavigationAssumption
<1> QED BY <1>1 DEF Turns

(* The last item is always the end of a manoeuvre *)
LEMMA SomeAhead ==
  ASSUME NEW s \in Seq(Itm), Len(s) >= 2, NEW c, Ahead(c, s)
  PROVE  c # <<>>
<1>1. Len(s) \in Needed(s)
  BY DEF Needed
<1>2. PICK k \in DOMAIN c : TRUE
  BY <1>1 DEF Ahead
<1> QED BY <1>2

LEMMA AnewTyped ==
  ASSUME NavigationAssumption, YInv, NEW p \in Seq(Leg), p # <<>>, NEW reverse,
         StartAnew(p, reverse), flood' \in Flood, path' = p, delay' = delay
  PROVE  YInv'
<1> DEFINE s == ItemsOf(p)
<1>1. s \in Seq(Itm) /\ Follows(s, p)
  BY ItemsFollow
<1>2. /\ CallCallbacks(s, cmd', {}, turn_around') /\ hash' = HashOf(p)
      /\ cmd' = MakeManeuvers(s) /\ turn_around' = Turns(reverse)
  BY DEF StartAnew
<1>3. Ahead(MakeManeuvers(s), s)
  <2> HIDE DEF s
  <2> QED BY <1>1, MadeAhead
<1> HIDE DEF s
<1>4. cmd' # <<>>
  <2>1. Len(s) >= 2
    <3>1. Len(p) \in Nat \ {0} /\ Len(s) = Len(p) + 1
      BY <1>1 DEF Follows
    <3> QED BY <3>1
  <2> QED BY <1>1, <1>2, <1>3, <2>1, SomeAhead
<1>5. {} \subseteq 0..Len(s)
  OBVIOUS
<1>6. Telling' /\ heard' \subseteq 0..Len(s)
  BY <1>1, <1>2, <1>3, <1>4, <1>5, CallTyped DEF YInv
<1>7. Len(itm') = Len(s)
  BY <1>1, <1>2, SpeechKeepsItems
<1>8. hash' = [x \in DOMAIN hash' |-> hash'[x]] /\ DOMAIN hash' \subseteq Street
  <2>1. \A i \in DOMAIN p : p[i] \in Leg
    OBVIOUS
  <2>2. \A i \in DOMAIN p : p[i].item \in Street
    BY <2>1 DEF Leg
  <2> QED BY <1>2, <2>2 DEF HashOf
<1>9. (turn_around \in (1 - turn_around_limit)..turn_around_limit \cup {0})'
  BY <1>2, TurnsTyped DEF YInv
<1> QED BY <1>6, <1>7, <1>8, <1>9 DEF YInv

LEMMA FollowTyped ==
  ASSUME NavigationAssumption, CInv, YInv, NEW p \in Seq(Leg), p # <<>>, NEW reverse,
         NEW i \in DOMAIN itm, Follow(p, reverse, i), flood' \in Flood, path' = p,
         delay' = delay
  PROVE  YInv'
<1> DEFINE s == RestOf(i, p[1].len)
           h == {n \in heard : n <= Count(itm, i)}
<1>1. /\ itm \in Seq(Itm) /\ HashMatches(hash, itm) /\ Ahead(cmd, itm)
      /\ Len(itm) \in Nat /\ i \in 1..Len(itm)
  BY DEF CInv
<1>2. p[1].len \in Nat
  <2>1. p[1] \in Leg
    OBVIOUS
  <2> QED BY <2>1 DEF Leg
<1>3. /\ s \in Seq(Itm) /\ Len(s) = Len(itm) - i + 1 /\ s[1].len = p[1].len
      /\ \A k \in 1..(Len(itm) - i + 1) :
              /\ s[k].item = itm[i + k - 1].item
              /\ s[k].dir = itm[i + k - 1].dir
              /\ k # 1 => s[k].len = itm[i + k - 1].len
  BY <1>1, <1>2, RestOfItems
<1>4. /\ CallCallbacks(s, cmd', h, turn_around')
      /\ hash' = HashFrom(i) /\ cmd' = CommandsFrom(i) /\ turn_around' = Turns(reverse)
  BY DEF Follow, RestOf
<1> HIDE DEF s
<1>5. Ahead(cmd', s)
  BY <1>1, <1>3, <1>4, AheadOfRest
<1>6. i \in 1..(Len(itm) - 1)
  BY FollowKeeps
<1>7. cmd' # <<>>
  <2>1. Len(s) >= 2
    BY <1>1, <1>3, <1>6
  <2> QED BY <1>3, <1>5, <2>1, SomeAhead
<1>8. h \subseteq 0..Len(s)
  BY <1>1, <1>3 DEF YInv, Count
<1>9. Telling' /\ heard' \subseteq 0..Len(s)
  <2> HIDE DEF h
  <2> QED BY <1>3, <1>4, <1>5, <1>7, <1>8, CallTyped DEF YInv
<1>10. Len(itm') = Len(s)
  BY <1>3, <1>4, SpeechKeepsItems
<1>11. hash' = [x \in DOMAIN hash' |-> hash'[x]] /\ DOMAIN hash' \subseteq Street
  BY <1>4 DEF HashFrom, Restrict, YInv
<1>12. (turn_around \in (1 - turn_around_limit)..turn_around_limit \cup {0})'
  BY <1>4, TurnsTyped DEF YInv
<1> QED BY <1>9, <1>10, <1>11, <1>12 DEF YInv

LEMMA StepTyped ==
  ASSUME NavigationAssumption, CInv, YInv, [Next]_vars
  PROVE  YInv'
<1>1. ASSUME NEW f \in Flood, NEW p \in PathsOf[f], NEW reverse, New(f, p, reverse)
      PROVE  YInv'
  <2>1. p \in Seq(Leg) /\ p # <<>>
    BY DEF NavigationAssumption
  <2>2. flood' \in Flood /\ StartAnew(p, reverse) /\ path' = p /\ delay' = delay
    BY <1>1 DEF New
  <2> QED BY <2>1, <2>2, AnewTyped
<1>2. ASSUME NEW p \in PathsOf[flood], NEW reverse, Incremental(p, reverse)
      PROVE  YInv'
  <2>1. p \in Seq(Leg) /\ p # <<>> /\ flood \in Flood
    BY DEF NavigationAssumption, CInv
  <2>2. flood' \in Flood /\ path' = p /\ delay' = delay
    BY <1>2, <2>1 DEF Incremental
  <2>3. CASE \E i \in DOMAIN itm : Follow(p, reverse, i)
    BY <2>1, <2>2, <2>3, FollowTyped
  <2>4. CASE StartAnew(p, reverse)
    BY <2>1, <2>2, <2>4, AnewTyped
  <2> QED BY <1>2, <2>3, <2>4 DEF Incremental
<1>3. CASE Flush
  <2>1. /\ path' = <<>> /\ itm' = <<>> /\ hash' = <<>> /\ heard' = {} /\ delay' = delay
        /\ telling' = telling /\ said' = said
    BY <1>3 DEF Flush
  <2>2. hash' = [x \in DOMAIN hash' |-> hash'[x]] /\ DOMAIN hash' = {}
    BY <2>1
  <2>3. Telling'
    BY <2>1 DEF YInv, Telling, telling
  <2> QED BY <2>1, <2>2, <2>3 DEF YInv, telling
<1>4. CASE UNCHANGED vars
  BY <1>4 DEF vars, items, telling, YInv, Telling
<1> QED BY <1>1, <1>2, <1>3, <1>4 DEF Next

LEMMA InitTyped == NavigationAssumption /\ Init => YInv
<1> SUFFICES ASSUME NavigationAssumption, Init PROVE YInv
  OBVIOUS
<1>1. hash = [x \in DOMAIN hash |-> hash[x]] /\ DOMAIN hash = {}
  BY DEF Init
<1>2. Telling
  <2>1. said \in Said
    BY DEF Init, Said
  <2>2. delay \in Nat /\ curr_delay \in 0..delay
    BY DEF Init, NavigationAssumption
  <2> QED BY <2>1, <2>2 DEF Telling, Turned, Init
<1>3. turn_around \in (1 - turn_around_limit)..turn_around_limit \cup {0}
  BY DEF Init
<1>4. path \in Seq(Leg) /\ heard \subseteq 0..Len(itm)
  BY DEF Init
<1> QED BY <1>1, <1>2, <1>3, <1>4 DEF YInv

(* The types: above all, the hash points to items that are there, the      *)
(* commands to items of the list, and the levels stay levels.              *)
THEOREM TypesKept == Spec => []TypeOK
<1>1. CInv /\ YInv => TypeOK
  <2> SUFFICES ASSUME CInv, YInv PROVE TypeOK
    OBVIOUS
  <2>1. hash \in [DOMAIN hash -> 1..Len(itm)]
    <3>1. \A x \in DOMAIN hash : hash[x] \in 1..Len(itm)
      BY DEF CInv, HashMatches
    <3> HIDE DEF CInv
    <3> QED BY <3>1 DEF YInv
  <2>2. cmd \in Seq([at : 0..Len(itm), length : Nat])
    <3>1. CASE itm = <<>>
      BY <3>1 DEF CInv
    <3>2. CASE itm # <<>>
      BY <3>2 DEF CInv, Ahead
    <3> QED BY <3>1, <3>2
  <2>3. itm \in Seq(Itm)
    BY DEF CInv
  <2> QED BY <2>1, <2>2, <2>3 DEF TypeOK, YInv, Telling, Turned
<1>2. Init => YInv
  BY InitTyped, NavigationAssumption
<1>3. CInv /\ YInv /\ [Next]_vars => YInv'
  BY StepTyped, NavigationAssumption
<1> QED BY <1>1, <1>2, <1>3, AlwaysCInv, PTL DEF Spec

=============================================================================
