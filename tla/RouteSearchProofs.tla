------------------------- MODULE RouteSearchProofs -------------------------
(***************************************************************************)
(* A point that has no entry left in the heap of route_graph_flood is      *)
(* permanently calculated.  The usual argument for Dijkstra's algorithm is *)
(* not enough: where a street of the destination gives a point two values, *)
(* the entry of the first stays in the heap when route_graph_point.el is   *)
(* overwritten, and the point is taken out again with a key that is not    *)
(* its value.  Ordered says why that does no harm.  From there on: the     *)
(* segments stored at the points lead to the destination and not around    *)
(* (Shape), no way is cheaper where each street is a simple one            *)
(* (LastCounts), the values are the costs of ways where no distortion is   *)
(* lost on the destination's street (Costs), and then the path costs what  *)
(* it was chosen for.                                                      *)
(***************************************************************************)
EXTENDS RouteSearch, SequenceTheorems, WellFoundedInduction, TLAPS

(* The heap has the entry for the value that p has now *)
Pending(p) == \E e \in heap : e.point = p /\ e.key = value[p]

(* The flood has dealt with the value that p has now *)
Final(p) == seg[p] # None /\ ~Pending(p)

Ordered ==
  /\ \A p \in Point : value[p] # Infinity => seg[p] # None
  /\ \A e \in heap : seg[e.point] # None
  /\ \A p \in Point : Final(p) => /\ todo = {}
                                  /\ \A e \in heap : value[p] <= e.key
                                  /\ Improved(p) = {}

(* TypeOK, without what route_path_new adds up *)
Typed ==
  /\ time \in [Segment -> [Dir -> 0..Infinity]]
  /\ dst \in Place
  /\ value \in [Point -> 0..Infinity]
  /\ seg \in [Point -> Segment \cup {None}]
  /\ heap \subseteq Entry

IInv == Typed /\ Ordered

-----------------------------------------------------------------------------
LEMMA PartBounds ==
  ASSUME NEW t \in Nat, NEW d \in Dir, NEW percent \in 0..100
  PROVE  Part(t, d, percent) \in 0..t
  <1>1. PICK x \in 0..100 : Part(t, d, percent) = (t * x) \div 100
    <2>1. (IF d = 1 THEN 100 - percent ELSE percent) \in 0..100
      OBVIOUS
    <2> QED
      BY <2>1 DEF Part
  <1>2. t * x \in Nat /\ t * x <= 100 * t
    OBVIOUS
  <1>3. \A y \in Nat : y <= 100 * t => y \div 100 \in 0..t
    OBVIOUS
  <1> QED
    BY <1>1, <1>2, <1>3

LEMMA SeedCostBounds ==
  ASSUME Typed, NEW s \in Segment, NEW d \in Dir
  PROVE  SeedCost(s, d) \in 0..Infinity
  <1>1. ValueSeg(s, d) \in 0..Infinity /\ -d \in Dir /\ Infinity \in Nat
    BY SearchAssumption DEF Typed, ValueSeg, Dir
  <1>2. dst.percent \in 0..100
    BY SearchAssumption DEF Typed, Place
  <1>3. PartTo(ValueSeg(s, d), d, dst.percent) \in 0..ValueSeg(s, d)
    <2>1. ValueSeg(s, d) \in Nat
      BY <1>1
    <2>2. Part(ValueSeg(s, d), -d, dst.percent) \in 0..ValueSeg(s, d)
      BY <1>1, <1>2, <2>1, PartBounds, Zenon
    <2> QED
      BY <2>2 DEF PartTo
  <1> QED
    BY <1>1, <1>3 DEF SeedCost

(* Driving on never costs less than what is left *)
LEMMA OfferGrows ==
  ASSUME Typed, NEW p \in Point, NEW s \in Segment, NEW d \in Dir
  PROVE  /\ Offer(p, s, d) \in Nat
         /\ Offer(p, s, d) < Infinity => value[p] <= Offer(p, s, d)
  <1>1. Cost(s, d) \in Nat /\ Infinity \in Nat /\ value[p] \in Nat
    BY SearchAssumption DEF Typed, Cost
  <1>2. ValueSegTo(p, s, d) \in Nat
    BY <1>1 DEF ValueSegTo
  <1> QED
    BY <1>1, <1>2 DEF Offer

(* A set of numbers has a least one *)
LEMMA Least ==
  ASSUME NEW S \in SUBSET Nat, S # {}
  PROVE  \E n \in S : \A m \in S : n <= m
  <1> DEFINE R == OpToRel(<, Nat)
  <1>1. IsWellFoundedOn(R, Nat)
    BY NatLessThanWellFounded
  <1>2. \A m, n \in Nat : m < n => <<m, n>> \in R
    BY DEF OpToRel
  <1> HIDE DEF R
  <1>3. PICK n \in S : \A m \in S : <<m, n>> \notin R
    BY <1>1, WFMin
  <1>4. ASSUME NEW m \in S PROVE n <= m
    <2>1. m \in Nat /\ n \in Nat
      OBVIOUS
    <2>2. ~(m < n)
      BY <1>2, <1>3, <2>1
    <2> QED
      BY <2>1, <2>2
  <1> QED
    BY <1>4

(* The way an improved point is given is the cheapest of those that lead   *)
(* to p, and there is one                                                  *)
LEMMA CheapestWay ==
  ASSUME Typed, NEW p \in Point, NEW q \in Improved(p)
  PROVE  LET w == Cheapest(q, p)
         IN /\ w \in Ways(q, p)
            /\ \A v \in Ways(q, p) : Offer(p, w[1], w[2]) <= Offer(p, v[1], v[2])
            /\ Offer(p, w[1], w[2]) < value[q]
  <1> DEFINE S == {Offer(p, v[1], v[2]) : v \in Ways(q, p)}
  <1>1. \A v \in Ways(q, p) : v[1] \in Segment /\ v[2] \in Dir
    BY DEF Ways
  <1>2. S \in SUBSET Nat
    BY <1>1, OfferGrows
  <1>3. PICK u \in Ways(q, p) : Offer(p, u[1], u[2]) < value[q]
    BY DEF Improved
  <1>4. PICK n \in S : \A m \in S : n <= m
    <2> HIDE DEF S
    <2>1. S # {}
      BY <1>3 DEF S
    <2> QED
      BY <1>2, <2>1, Least
  <1>5. \E w \in Ways(q, p) :
          \A v \in Ways(q, p) : Offer(p, w[1], w[2]) <= Offer(p, v[1], v[2])
    BY <1>4
  <1>6. /\ Cheapest(q, p) \in Ways(q, p)
        /\ \A v \in Ways(q, p) :
             Offer(p, Cheapest(q, p)[1], Cheapest(q, p)[2]) <= Offer(p, v[1], v[2])
    BY <1>5 DEF Cheapest
  <1>7. Offer(p, Cheapest(q, p)[1], Cheapest(q, p)[2]) < value[q]
    <2>1. /\ value[q] \in Nat /\ Offer(p, u[1], u[2]) \in Nat
          /\ Offer(p, Cheapest(q, p)[1], Cheapest(q, p)[2]) \in Nat
      BY <1>1, <1>3, <1>6, OfferGrows DEF Typed, Improved
    <2> QED
      BY <1>3, <1>6, <2>1
  <1> QED
    BY <1>6, <1>7

-----------------------------------------------------------------------------
(* What a round of the main loop improves had not been dealt with, and its *)
(* new value is not less than any key that was taken out before            *)
LEMMA Improvement ==
  ASSUME IInv, NEW e \in heap, IsMin(e), NEW q \in Improved(e.point)
  PROVE  LET w   == Cheapest(q, e.point)
             new == Offer(e.point, w[1], w[2])
         IN /\ q \in Point /\ q # e.point /\ ~Final(q)
            /\ w[1] \in Segment /\ w[2] \in Dir
            /\ new \in 0..Infinity /\ new < value[q] /\ e.key <= new
  <1> DEFINE p   == e.point
             w   == Cheapest(q, p)
             new == Offer(p, w[1], w[2])
  <1>1. /\ p \in Point /\ e.key \in Nat /\ Infinity \in Nat
        /\ q \in Point /\ value[q] \in 0..Infinity /\ value[p] \in 0..Infinity
    BY SearchAssumption DEF IInv, Typed, Entry, Improved
  <1>2. w \in Ways(q, p) /\ new < value[q]
    BY <1>1, CheapestWay DEF IInv
  <1>3. /\ w[1] \in Segment /\ w[2] \in Dir
        /\ Behind(w[1], w[2]) = q /\ Ahead(w[1], w[2]) = p
    BY <1>2 DEF Ways
  <1>4. q # p
    BY <1>3, SearchAssumption DEF Ahead, Behind
  <1> HIDE DEF w
  <1>5. new \in Nat /\ (new < Infinity => value[p] <= new)
    BY <1>1, <1>3, OfferGrows DEF IInv
  <1> HIDE DEF new
  <1>6. new \in 0..Infinity /\ value[p] <= new
    BY <1>1, <1>2, <1>5
  <1>7. Pending(p)
    BY <1>1 DEF IInv, Ordered, Final
  <1>8. e.key <= value[p]
    BY <1>7 DEF Pending, IsMin
  <1>9. e.key <= new
    BY <1>1, <1>5, <1>6, <1>8
  <1>10. ~Final(q)
    <2> SUFFICES ASSUME Final(q) PROVE FALSE
      OBVIOUS
    <2>1. value[q] <= e.key
      BY <1>1 DEF IInv, Ordered
    <2> QED
      BY <1>1, <1>2, <1>5, <1>9, <2>1
  <1> QED
    BY <1>1, <1>2, <1>3, <1>4, <1>6, <1>9, <1>10 DEF w, new

(* What the heap is made of after a round *)
LEMMA HeapAfter ==
  ASSUME IInv, NEW e \in heap, Extract(e)
  PROVE  LET p == e.point
         IN /\ \A f \in heap' :
                 \/ \E g \in heap : f.point = g.point /\ f.key = g.key
                 \/ f.point \in Improved(p) /\ f.key = value'[f.point]
            /\ \A g \in heap : g # e /\ g.point \notin Improved(p) =>
                 \E f \in heap' : f.point = g.point /\ f.key = g.key
            /\ \A q \in Improved(p) :
                 \E f \in heap' : f.point = q /\ f.key = value'[q]
            /\ heap' \subseteq Entry
  <1> DEFINE p      == e.point
             better == Improved(p)
             via    == [q \in better |-> Cheapest(q, p)]
             new    == [q \in better |-> Offer(p, via[q][1], via[q][2])]
             kept   == {f \in Orphan(Without(e), {p}) : ~(f.live /\ f.point \in better)}
             added  == {[point |-> q, key |-> new[q], live |-> TRUE] : q \in better}
  <1>1. /\ value' = [q \in Point |-> IF q \in better THEN new[q] ELSE value[q]]
        /\ heap' = kept \cup added /\ IsMin(e)
    BY DEF Extract
  <1>2. /\ better \subseteq Point /\ heap \subseteq Entry
        /\ \A q \in better : value'[q] = new[q] /\ new[q] \in Nat
    <2>1. better \subseteq Point
      BY DEF Improved
    <2>2. ASSUME NEW q \in better PROVE new[q] \in Nat
      BY <1>1, SearchAssumption, Improvement
    <2> QED
      BY <1>1, <2>1, <2>2 DEF IInv, Typed
  <1> HIDE DEF better, new, via
  <1>3. ASSUME NEW f \in kept
        PROVE  f \in Entry /\ \E g \in heap : f.point = g.point /\ f.key = g.key
    <2>1. PICK g \in heap : f = [g EXCEPT !.live = @ /\ g.point \notin {p}]
      BY DEF Orphan, Without
    <2> QED
      BY <1>2, <2>1 DEF Entry
  <1>4. ASSUME NEW g \in heap, g # e, g.point \notin better
        PROVE  \E f \in kept : f.point = g.point /\ f.key = g.key
    <2> DEFINE f == [g EXCEPT !.live = @ /\ g.point \notin {p}]
    <2>1. f \in Orphan(Without(e), {p}) /\ f.point = g.point /\ f.key = g.key
      BY <1>2, <1>4 DEF Orphan, Without, Entry
    <2> QED
      BY <1>4, <2>1
  <1>5. ASSUME NEW q \in better
        PROVE  LET f == [point |-> q, key |-> new[q], live |-> TRUE]
               IN f \in added /\ f \in Entry /\ f.point = q /\ f.key = value'[q]
    BY <1>2 DEF Entry
  <1>6. \A f \in heap' :
          \/ \E g \in heap : f.point = g.point /\ f.key = g.key
          \/ f.point \in better /\ f.key = value'[f.point]
    <2>1. \A f \in added : f.point \in better /\ f.key = value'[f.point]
      BY <1>5
    <2> HIDE DEF kept, added
    <2> QED
      BY <1>1, <1>3, <2>1
  <1>7. heap' \subseteq Entry
    <2>1. added \subseteq Entry
      BY <1>5
    <2> HIDE DEF kept, added
    <2> QED
      BY <1>1, <1>3, <2>1
  <1>8. /\ \A g \in heap : g # e /\ g.point \notin better =>
             \E f \in heap' : f.point = g.point /\ f.key = g.key
        /\ \A q \in better : \E f \in heap' : f.point = q /\ f.key = value'[q]
    <2>1. \A q \in better : \E f \in added : f.point = q /\ f.key = value'[q]
      BY <1>5
    <2> HIDE DEF kept, added
    <2> QED
      BY <1>1, <1>4, <2>1
  <1> QED
    BY <1>6, <1>7, <1>8 DEF better, p

(* A round keeps the order *)
LEMMA ExtractOrdered ==
  ASSUME IInv, NEW e \in heap, Extract(e)
  PROVE  IInv'
  <1> DEFINE p      == e.point
             better == Improved(p)
             new(q) == Offer(p, Cheapest(q, p)[1], Cheapest(q, p)[2])
  <1>1. /\ \A q \in Point : value'[q] = IF q \in better THEN new(q) ELSE value[q]
        /\ \A q \in Point : seg'[q] = IF q \in better THEN Cheapest(q, p)[1]
                                                      ELSE seg[q]
        /\ value' \in [Point -> {value'[q] : q \in Point}]
        /\ seg' \in [Point -> {seg'[q] : q \in Point}]
        /\ IsMin(e) /\ todo = {} /\ UNCHANGED <<time, dst, todo>>
    BY DEF Extract
  <1>2. \A q \in better :
          /\ q \in Point /\ q # p /\ ~Final(q) /\ Cheapest(q, p)[1] \in Segment
          /\ new(q) \in 0..Infinity /\ new(q) < value[q] /\ e.key <= new(q)
    BY <1>1, Improvement
  <1>3. /\ p \in Point /\ e.key \in Nat /\ None \notin Segment
        /\ \A f \in heap : f.key \in Nat /\ f.point \in Point
        /\ \A q \in Point : value[q] \in 0..Infinity
    BY SearchAssumption DEF IInv, Typed, Entry
  <1>4. Typed'
    <2>1. \A q \in Point : value'[q] \in 0..Infinity
      BY <1>1, <1>2, <1>3
    <2>2. \A q \in Point : seg'[q] \in Segment \cup {None}
      BY <1>1, <1>2 DEF IInv, Typed
    <2>3. heap' \subseteq Entry
      BY HeapAfter
    <2> QED
      BY <1>1, <2>1, <2>2, <2>3 DEF IInv, Typed
  <1>5. ASSUME NEW q \in Point, seg[q] # None \/ q \in better
        PROVE  seg'[q] # None
    <2>1. CASE q \in better
      <3>1. seg'[q] \in Segment
        BY <1>1, <1>2, <2>1
      <3> QED
        BY <1>3, <3>1
    <2>2. CASE q \notin better
      BY <1>1, <1>5, <2>2
    <2> QED
      BY <2>1, <2>2
  <1>6. \A q \in Point : value'[q] # Infinity => seg'[q] # None
    BY <1>1, <1>5 DEF IInv, Ordered
  <1>7. \A f \in heap' : seg'[f.point] # None
    <2>1. ASSUME NEW f \in heap' PROVE seg'[f.point] # None
      BY <1>2, <1>3, <1>5, HeapAfter DEF IInv, Ordered
    <2> QED
      BY <2>1
  <1>8. ASSUME NEW r \in Point, Final(r)'
        PROVE  (\A f \in heap' : value'[r] <= f.key) /\ Improved(r)' = {}
    <2>1. r \notin better /\ value'[r] = value[r] /\ seg'[r] = seg[r]
      <3>1. r \notin better
        BY <1>8, HeapAfter DEF Final, Pending
      <3> QED
        BY <1>1, <3>1
    <2>2. Final(r) \/ (r = p /\ value[p] = e.key)
      <3>1. ~Pending(r) \/ (r = p /\ value[p] = e.key)
        BY <1>8, <2>1, HeapAfter DEF Final, Pending
      <3> QED
        BY <1>8, <2>1, <3>1 DEF Final
    <2>3. /\ \A g \in heap : value[r] <= g.key
          /\ value[r] <= e.key
      BY <1>1, <1>3, <2>2 DEF IInv, Ordered, IsMin
    <2>4. ASSUME NEW f \in heap' PROVE value'[r] <= f.key
      <3>1. CASE \E g \in heap : f.point = g.point /\ f.key = g.key
        BY <2>1, <2>3, <3>1
      <3>2. CASE f.point \in better /\ f.key = value'[f.point]
        <4>1. f.key = new(f.point) /\ e.key <= f.key /\ f.key \in Int
          BY <1>1, <1>2, <3>2
        <4> HIDE DEF new, better
        <4> QED
          BY <1>3, <2>1, <2>3, <4>1
      <3> QED
        BY <3>1, <3>2, HeapAfter
    <2>5. ASSUME NEW q \in Point, NEW w \in Ways(q, r)
          PROVE  ~(Offer(r, w[1], w[2])' < value'[q])
      <3>1. w[1] \in Segment /\ w[2] \in Dir /\ Ahead(w[1], w[2]) = r
        BY DEF Ways
      <3>2. Offer(r, w[1], w[2])' = Offer(r, w[1], w[2])
        BY <1>1, <2>1, <3>1 DEF Offer, ValueSegTo, Cost
      <3>3. /\ Offer(r, w[1], w[2]) \in Nat
            /\ value[q] \in Nat /\ value'[q] \in Nat
        BY <1>3, <1>4, <3>1, OfferGrows DEF IInv, Typed
      <3>4. value'[q] <= Offer(r, w[1], w[2])
        <4>1. CASE r = p /\ q \in better
          <5>1. new(q) <= Offer(p, w[1], w[2])
            BY <1>3, <4>1, CheapestWay DEF IInv
          <5> QED
            BY <1>1, <4>1, <5>1
        <4>2. CASE q \notin Improved(r)
          <5>1. value[q] <= Offer(r, w[1], w[2])
            BY <3>3, <4>2 DEF Improved
          <5>2. value'[q] <= value[q]
            <6>1. CASE q \in better
              BY <1>1, <1>2, <3>3, <6>1
            <6>2. CASE q \notin better
              BY <1>1, <3>3, <6>2
            <6> QED
              BY <6>1, <6>2
          <5> QED
            BY <3>3, <5>1, <5>2
        <4>3. Final(r) => Improved(r) = {}
          BY DEF IInv, Ordered
        <4> QED
          BY <2>2, <4>1, <4>2, <4>3
      <3> QED
        BY <3>2, <3>3, <3>4
    <2>6. Improved(r)' = {}
      BY <2>5 DEF Improved, Ways
    <2> QED
      BY <2>4, <2>6
  <1>9. todo' = {}
    BY <1>1
  <1>10. Ordered'
    BY <1>6, <1>7, <1>8, <1>9 DEF Ordered
  <1> QED
    BY <1>4, <1>10 DEF IInv

(* Seeding gives points values; none of them is dealt with before the loop *)
LEMMA SeedOrdered ==
  ASSUME IInv, NEW s \in Segment, Seed(s)
  PROVE  IInv'
  <1> DEFINE open    == {d \in Dir : ValueSeg(s, d) # Infinity}
             ends    == {Behind(s, d) : d \in open}
             cost(p) == SeedCost(s, CHOOSE d \in open : Behind(s, d) = p)
             added   == {[point |-> p, key |-> cost(p), live |-> TRUE] : p \in ends}
  <1>1. /\ value' = [p \in Point |-> IF p \in ends THEN cost(p) ELSE value[p]]
        /\ seg' = [p \in Point |-> IF p \in ends THEN s ELSE seg[p]]
        /\ heap' = Orphan(heap, ends) \cup added
        /\ todo # {} /\ UNCHANGED <<time, dst>>
    BY DEF Seed
  <1>2. /\ heap \subseteq Entry /\ ends \subseteq Point
        /\ None \notin Segment /\ Infinity \in Nat
    BY SearchAssumption DEF IInv, Typed, Behind
  <1>3. \A p \in ends : cost(p) \in 0..Infinity
    <2> SUFFICES ASSUME NEW p \in ends PROVE cost(p) \in 0..Infinity
      OBVIOUS
    <2>1. (CHOOSE d \in open : Behind(s, d) = p) \in Dir
      OBVIOUS
    <2> QED
      BY <2>1, SeedCostBounds DEF IInv
  <1> HIDE DEF ends, cost
  <1>4. /\ added \subseteq Entry
        /\ \A f \in added : f.point \in ends
        /\ \A p \in ends : \E f \in added : f.point = p /\ f.key = cost(p)
    <2>1. \A p \in ends : p \in Point /\ cost(p) \in Nat
      BY <1>2, <1>3
    <2>2. ASSUME NEW p \in ends
          PROVE  LET f == [point |-> p, key |-> cost(p), live |-> TRUE]
                 IN f \in added /\ f \in Entry /\ f.point = p /\ f.key = cost(p)
      BY <2>1 DEF Entry
    <2> QED
      BY <2>2
  <1> HIDE DEF added
  <1>5. /\ Orphan(heap, ends) \subseteq Entry
        /\ \A f \in Orphan(heap, ends) : \E g \in heap : f.point = g.point
        /\ \A g \in heap : \E f \in Orphan(heap, ends) :
             f.point = g.point /\ f.key = g.key
    <2>1. \A g \in heap :
            LET f == [g EXCEPT !.live = @ /\ g.point \notin ends]
            IN f \in Entry /\ f.point = g.point /\ f.key = g.key
      BY <1>2 DEF Entry
    <2> QED
      BY <2>1 DEF Orphan
  <1>6. Typed'
    BY <1>1, <1>2, <1>3, <1>4, <1>5 DEF IInv, Typed
  <1>7. \A p \in Point : ~Final(p)'
    <2> SUFFICES ASSUME NEW p \in Point, seg'[p] # None PROVE Pending(p)'
      BY DEF Final
    <2>1. CASE p \in ends
      BY <1>1, <1>4, <2>1 DEF Pending
    <2>2. CASE p \notin ends
      <3>1. seg[p] # None /\ value'[p] = value[p]
        BY <1>1, <2>2
      <3>2. Pending(p)
        BY <1>1, <3>1 DEF IInv, Ordered, Final
      <3> QED
        BY <1>1, <1>5, <3>1, <3>2 DEF Pending
    <2> QED
      BY <2>1, <2>2
  <1>8. /\ \A p \in Point : value'[p] # Infinity => seg'[p] # None
        /\ \A f \in heap' : seg'[f.point] # None
    <2>1. \A p \in Point : p \in ends \/ seg[p] # None => seg'[p] # None
      BY <1>1, <1>2
    <2>2. \A p \in Point : value'[p] # Infinity => p \in ends \/ seg[p] # None
      BY <1>1 DEF IInv, Ordered
    <2>3. \A f \in heap' : f.point \in Point /\ (f.point \in ends \/ seg[f.point] # None)
      BY <1>1, <1>2, <1>4, <1>5 DEF IInv, Ordered, Entry
    <2> QED
      BY <2>1, <2>2, <2>3
  <1> QED
    BY <1>6, <1>7, <1>8 DEF IInv, Ordered

(* In every reachable state of the flood, on any graph, a point that has   *)
(* been dealt with costs no more than any entry of the heap, and no other  *)
(* point is improved over it                                               *)
THEOREM SearchOrdered == Spec => []IInv
  <1>1. Init => IInv
    <2> SUFFICES ASSUME Init PROVE IInv
      OBVIOUS
    <2>1. Infinity \in Nat /\ Times \subseteq 0..Infinity
      BY SearchAssumption
    <2>2. Typed
      <3>1. time \in [Segment -> [Dir -> 0..Infinity]]
        BY <2>1 DEF Init
      <3>2. value \in [Point -> 0..Infinity]
        BY <2>1 DEF Init
      <3> QED
        BY <3>1, <3>2 DEF Init, Typed
    <2>3. Ordered
      BY DEF Init, Ordered, Final
    <2> QED
      BY <2>2, <2>3 DEF IInv
  <1>2. IInv /\ [Next]_vars => IInv'
    <2> SUFFICES ASSUME IInv, [Next]_vars PROVE IInv'
      OBVIOUS
    <2>1. CASE UNCHANGED <<time, dst, todo, value, seg, heap>>
      BY <2>1 DEF IInv, Typed, Ordered, Final, Pending, Improved, Offer,
                  ValueSegTo, Cost
    <2>2. CASE \E s \in Segment : Seed(s)
      BY <2>2, SeedOrdered
    <2>3. CASE \E e \in heap : Extract(e)
      BY <2>3, ExtractOrdered
    <2>4. CASE \E c \in Place : Depart(c)
      BY <2>1, <2>4 DEF Depart, floodVars
    <2>5. CASE Follow
      BY <2>1, <2>5 DEF Follow, floodVars
    <2> QED
      BY <2>1, <2>2, <2>3, <2>4, <2>5 DEF Next, vars, floodVars
  <1> QED
    BY <1>1, <1>2, PTL DEF Spec

(* A point of which no entry is left in the heap keeps its value, for any  *)
(* graph, destination, costs and restrictions, and in spite of the entries *)
(* that the code leaves in the heap when it loses track of them.           *)
THEOREM PermanentAlways == Spec => Permanent
  <1>1. ASSUME IInv, [Next]_vars, NEW p \in Point, todo = {},
               value[p] # Infinity, \A e \in heap : e.point # p
        PROVE  value'[p] = value[p]
    <2>1. Final(p)
      BY <1>1 DEF IInv, Ordered, Final, Pending
    <2>2. ASSUME NEW e \in heap, Extract(e) PROVE value'[p] = value[p]
      <3>1. p \notin Improved(e.point)
        BY <1>1, <2>1, <2>2, Improvement DEF Extract
      <3> QED
        BY <2>2, <3>1 DEF Extract
    <2> QED
      BY <1>1, <2>2 DEF Next, vars, floodVars, Seed, Depart, Follow
  <1>2. IInv /\ [Next]_vars =>
          [\A p \in Point :
             todo = {} /\ value[p] # Infinity /\ (\A e \in heap : e.point # p)
             => value'[p] = value[p]]_vars
    BY <1>1
  <1> QED
    BY <1>2, SearchOrdered, PTL DEF Spec, Permanent

-----------------------------------------------------------------------------
(* The segments that the flood gave the points lead down to the destination*)
(* and never around: on them route_path_new arrives                        *)
To(s, p) == IF Start[s] = p THEN 1 ELSE -1

Leads(p) == seg[p] # None /\ Item[seg[p]] # Item[dst.seg]

NextPoint(p) == Ahead(seg[p], To(seg[p], p))

FlowsDown ==
  \A p \in Point : seg[p] # None =>
    /\ value[p] # Infinity
    /\ p = Behind(seg[p], To(seg[p], p))
    /\ Leads(p) => value[NextPoint(p)] <= value[p] /\ todo = {}

NoLoop ==
  \A S \in SUBSET Point :
    S # {} => \E p \in S : ~(Leads(p) /\ NextPoint(p) \in S)

Shape == todo \subseteq OnStreet(dst.seg) /\ FlowsDown /\ NoLoop

LEMMA Ends ==
  ASSUME NEW s \in Segment, NEW d \in Dir
  PROVE  /\ To(s, Behind(s, d)) = d
         /\ Ahead(s, d) \in Point /\ Behind(s, d) \in Point
         /\ Ahead(s, d) # Behind(s, d)
  BY SearchAssumption DEF To, Ahead, Behind, Dir

LEMMA ShapeStutters ==
  ASSUME Shape, UNCHANGED <<dst, todo, value, seg>>
  PROVE  Shape'
  <1>1. /\ \A p : Leads(p)' = Leads(p) /\ NextPoint(p)' = NextPoint(p)
        /\ value' = value /\ seg' = seg /\ todo' = todo
        /\ OnStreet(dst.seg)' = OnStreet(dst.seg)
    BY DEF Leads, NextPoint, OnStreet
  <1>2. FlowsDown'
    BY <1>1 DEF Shape, FlowsDown
  <1>3. NoLoop'
    BY <1>1 DEF Shape, NoLoop
  <1> QED
    BY <1>1, <1>2, <1>3 DEF Shape

(* While the street of the destination is looked at, nothing leads on      *)
LEMMA SeedShape ==
  ASSUME IInv, Shape, NEW s \in Segment, Seed(s)
  PROVE  Shape'
  <1> DEFINE open    == {d \in Dir : ValueSeg(s, d) # Infinity}
             ends    == {Behind(s, d) : d \in open}
             cost(p) == SeedCost(s, CHOOSE d \in open : Behind(s, d) = p)
  <1>1. /\ \A p \in Point : value'[p] = IF p \in ends THEN cost(p) ELSE value[p]
        /\ \A p \in Point : seg'[p] = IF p \in ends THEN s ELSE seg[p]
        /\ s \in todo /\ todo' \subseteq todo /\ dst' = dst
    BY DEF Seed
  <1>2. Item[s] = Item[dst.seg]
    BY <1>1 DEF Shape, OnStreet
  <1>3. ASSUME NEW p \in Point PROVE ~Leads(p)'
    <2>1. CASE p \in ends
      BY <1>1, <1>2, <2>1 DEF Leads
    <2>2. CASE p \notin ends
      BY <1>1, <2>2 DEF Leads, Shape, FlowsDown
    <2> QED
      BY <2>1, <2>2
  <1>4. ASSUME NEW p \in ends
        PROVE  cost(p) # Infinity /\ p = Behind(s, To(s, p))
    <2>1. PICK d \in open : d = (CHOOSE x \in open : Behind(s, x) = p)
                            /\ Behind(s, d) = p
      OBVIOUS
    <2>2. d \in Dir /\ -d \in Dir /\ ValueSeg(s, d) \in 0..Infinity
          /\ ValueSeg(s, d) # Infinity /\ Infinity \in Nat
      BY SearchAssumption DEF IInv, Typed, ValueSeg, Dir
    <2>3. SeedCost(s, d) \in 0..ValueSeg(s, d)
      <3>1. dst.percent \in 0..100
        BY SearchAssumption DEF IInv, Typed, Place
      <3>3. ValueSeg(s, d) \in Nat
        BY <2>2
      <3>2. Part(ValueSeg(s, d), -d, dst.percent) \in 0..ValueSeg(s, d)
        BY <2>2, <3>1, <3>3, PartBounds, Zenon
      <3> QED
        BY <3>2 DEF SeedCost, PartTo
    <2>4. SeedCost(s, d) # Infinity
      BY <2>2, <2>3
    <2>5. To(s, p) = d
      BY <2>1, <2>2, Ends
    <2> QED
      BY <2>1, <2>4, <2>5
  <1>5. FlowsDown'
    <2> SUFFICES ASSUME NEW p \in Point, seg'[p] # None
                 PROVE  value'[p] # Infinity /\ p = Behind(seg'[p], To(seg'[p], p))
      BY <1>3 DEF FlowsDown, NextPoint
    <2> HIDE DEF ends, cost
    <2>1. CASE p \in ends
      BY <1>1, <1>4, <2>1
    <2>2. CASE p \notin ends
      BY <1>1, <2>2 DEF Shape, FlowsDown
    <2> QED
      BY <2>1, <2>2
  <1>6. NoLoop'
    BY <1>3 DEF NoLoop
  <1>7. todo' \subseteq OnStreet(dst.seg)'
    BY <1>1 DEF Shape, OnStreet
  <1> QED
    BY <1>5, <1>6, <1>7 DEF Shape

(* What a round of the main loop does to the ways the points were given    *)
LEMMA Rerouted ==
  ASSUME IInv, Shape, NEW e \in heap, Extract(e)
  PROVE  /\ \A r \in Point :
              /\ value'[r] \in 0..Infinity
              /\ r \notin Improved(e.point) =>
                   /\ seg'[r] = seg[r] /\ value'[r] = value[r]
                   /\ Leads(r)' = Leads(r) /\ NextPoint(r)' = NextPoint(r)
              /\ r \in Improved(e.point) =>
                   /\ seg'[r] \in Segment /\ value'[r] < value[r]
                   /\ r = Behind(seg'[r], To(seg'[r], r))
                   /\ NextPoint(r)' = e.point /\ value'[e.point] <= value'[r]
         /\ e.point \in Point \ Improved(e.point)
         /\ todo = {} /\ todo' = {} /\ dst' = dst
  <1> DEFINE p      == e.point
             better == Improved(p)
             new(q) == Offer(p, Cheapest(q, p)[1], Cheapest(q, p)[2])
  <1>1. /\ \A q \in Point : value'[q] = IF q \in better THEN new(q) ELSE value[q]
        /\ \A q \in Point : seg'[q] = IF q \in better THEN Cheapest(q, p)[1]
                                                      ELSE seg[q]
        /\ IsMin(e) /\ todo = {} /\ todo' = {} /\ dst' = dst
    BY DEF Extract
  <1>2. p \in Point /\ IInv' /\ Infinity \in Nat
    BY ExtractOrdered, SearchAssumption DEF IInv, Typed, Entry
  <1>3. ASSUME NEW q \in better
        PROVE  /\ q \in Point /\ q # p /\ new(q) < value[q] /\ value[p] <= new(q)
               /\ seg'[q] \in Segment /\ q = Behind(seg'[q], To(seg'[q], q))
               /\ NextPoint(q)' = p
    <2> DEFINE w == Cheapest(q, p)
    <2>1. /\ q \in Point /\ q # p /\ w[1] \in Segment /\ w[2] \in Dir
          /\ new(q) < value[q]
      BY <1>1, Improvement
    <2>2. Behind(w[1], w[2]) = q /\ Ahead(w[1], w[2]) = p
      BY <1>2, CheapestWay DEF IInv, Ways
    <2>3. seg'[q] = w[1]
      BY <1>1, <2>1
    <2> HIDE DEF w
    <2>4. To(w[1], q) = w[2]
      BY <2>1, <2>2, Ends
    <2>5. value[q] \in 0..Infinity /\ new(q) \in Nat
          /\ (new(q) < Infinity => value[p] <= new(q))
      BY <1>2, <2>1, OfferGrows DEF w, IInv, Typed
    <2>6. value[p] <= new(q)
      BY <1>2, <2>1, <2>5
    <2> QED
      BY <2>1, <2>2, <2>3, <2>4, <2>6 DEF NextPoint, Ahead
  <1>4. p \notin better
    BY <1>3
  <1> HIDE DEF better, new
  <1>5. ASSUME NEW r \in Point, r \notin better
        PROVE  /\ seg'[r] = seg[r] /\ value'[r] = value[r]
               /\ Leads(r)' = Leads(r) /\ NextPoint(r)' = NextPoint(r)
    BY <1>1, <1>5 DEF Leads, NextPoint, Ahead
  <1>6. \A r \in better : value'[r] < value[r] /\ value'[p] <= value'[r]
    BY <1>1, <1>2, <1>3, <1>4
  <1>7. \A r \in Point : value'[r] \in 0..Infinity
    BY <1>2 DEF IInv, Typed
  <1> QED
    BY <1>1, <1>2, <1>3, <1>4, <1>5, <1>6, <1>7 DEF better

(* A way around would have the same value all along; the points on it that *)
(* this round did not improve would already have been a way around, and    *)
(* those it did improve lead to a point that it did not                    *)
LEMMA ExtractShape ==
  ASSUME IInv, Shape, NEW e \in heap, Extract(e)
  PROVE  Shape'
  <1> DEFINE p      == e.point
             better == Improved(p)
  <1> HIDE DEF better
  <1>1. /\ \A r \in Point :
             /\ value'[r] \in 0..Infinity
             /\ r \notin better =>
                  /\ seg'[r] = seg[r] /\ value'[r] = value[r]
                  /\ Leads(r)' = Leads(r) /\ NextPoint(r)' = NextPoint(r)
             /\ r \in better =>
                  /\ seg'[r] \in Segment /\ value'[r] < value[r]
                  /\ r = Behind(seg'[r], To(seg'[r], r))
                  /\ NextPoint(r)' = p /\ value'[p] <= value'[r]
        /\ p \in Point \ better /\ todo = {} /\ todo' = {} /\ dst' = dst
    BY Rerouted DEF better
  <1>2. /\ \A r \in Point : value[r] \in 0..Infinity /\ seg[r] \in Segment \cup {None}
        /\ Infinity \in Nat
    BY SearchAssumption DEF IInv, Typed
  <1>3. \A r \in Point : value'[r] <= value[r]
    BY <1>1, <1>2
  <1>4. FlowsDown'
    <2> SUFFICES ASSUME NEW r \in Point, seg'[r] # None
                 PROVE  /\ value'[r] # Infinity
                        /\ r = Behind(seg'[r], To(seg'[r], r))
                        /\ Leads(r)' => value'[NextPoint(r)'] <= value'[r]
      BY <1>1 DEF FlowsDown
    <2>1. CASE r \in better
      BY <1>1, <1>2, <2>1
    <2>2. CASE r \notin better
      <3>1. /\ value[r] # Infinity /\ r = Behind(seg[r], To(seg[r], r))
            /\ Leads(r) => value[NextPoint(r)] <= value[r]
        BY <1>1, <2>2 DEF Shape, FlowsDown
      <3>2. NextPoint(r) \in Point
        <4>1. seg[r] \in Segment /\ To(seg[r], r) \in Dir
          BY <1>1, <1>2, <2>2 DEF To, Dir
        <4> QED
          BY <4>1, Ends DEF NextPoint
      <3>3. Leads(r) => value'[NextPoint(r)] <= value[r]
        BY <1>1, <1>2, <1>3, <3>1, <3>2
      <3> QED
        BY <1>1, <2>2, <3>1, <3>3
    <2> QED
      BY <2>1, <2>2
  <1>5. NoLoop'
    <2> SUFFICES ASSUME NEW S \in SUBSET Point, S # {},
                        \A x \in S : Leads(x)' /\ NextPoint(x)' \in S
                 PROVE  FALSE
      BY DEF NoLoop
    <2> DEFINE V == {value'[x] : x \in S}
    <2>1. PICK m \in V : \A n \in V : m <= n
      <3>1. V \in SUBSET Nat /\ V # {}
        BY <1>1, <1>2
      <3> HIDE DEF V
      <3> QED
        BY <3>1, Least
    <2> DEFINE T == {x \in S : value'[x] = m}
               U == T \ better
    <2>2. T # {} /\ m \in Nat
      BY <1>1, <1>2, <2>1
    <2>3. ASSUME NEW x \in T PROVE NextPoint(x)' \in T
      <3>1. NextPoint(x)' \in S /\ Leads(x)' /\ seg'[x] # None
        BY DEF Leads
      <3>2. value'[NextPoint(x)'] <= m
        BY <1>4, <3>1 DEF FlowsDown
      <3>3. m <= value'[NextPoint(x)'] /\ value'[NextPoint(x)'] \in 0..Infinity
        BY <1>1, <2>1, <3>1
      <3>4. value'[NextPoint(x)'] = m
        BY <1>2, <2>2, <3>2, <3>3
      <3> QED
        BY <3>1, <3>4
    <2> HIDE DEF V
    <2>4. U = {}
      <3> SUFFICES ASSUME U # {} PROVE FALSE
        OBVIOUS
      <3>1. PICK x \in U : ~(Leads(x) /\ NextPoint(x) \in U)
        BY DEF Shape, NoLoop
      <3>2. x \in Point /\ x \notin better /\ x \in T /\ value[x] = m
        BY <1>1, <3>1
      <3>3. Leads(x) /\ NextPoint(x) \in T
        BY <1>1, <2>3, <3>2
      <3>4. NextPoint(x) \in better /\ NextPoint(x) \in Point
            /\ value'[NextPoint(x)] = m
        BY <3>1, <3>3
      <3>5. value[NextPoint(x)] <= m
        BY <3>2, <3>3 DEF Shape, FlowsDown, Leads
      <3>6. m < value[NextPoint(x)] /\ value[NextPoint(x)] \in 0..Infinity
        BY <1>1, <1>2, <3>4
      <3> QED
        BY <1>2, <2>2, <3>5, <3>6
    <2>5. PICK x \in T : x \in better
      BY <2>2, <2>4
    <2>6. p \in T
      BY <1>1, <2>3, <2>5
    <2> QED
      BY <1>1, <2>4, <2>6
  <1>6. todo' \subseteq OnStreet(dst.seg)'
    BY <1>1
  <1> QED
    BY <1>4, <1>5, <1>6 DEF Shape

-----------------------------------------------------------------------------
(* The point at the end of the i-th segment of the path                    *)
Passed(i) == Ahead(path[i][1], path[i][2])

(* The path follows the segments of the points it passes                   *)
Chained ==
  \A i \in 1..(Len(path) - 1) :
    /\ path[i + 1] = <<seg[Passed(i)], To(seg[Passed(i)], Passed(i))>>
    /\ i + 1 < Len(path) \/ walk # None => Leads(Passed(i))

(* Where the loop of route_path_new is, and that it can go on from there   *)
OnTheWay ==
  walk # None =>
    LET ahead == Ahead(walk.seg, To(walk.seg, walk.at))
    IN /\ walk.at = Behind(walk.seg, To(walk.seg, walk.at))
       /\ walk.first <=> path = <<>>
       /\ walk.first \/ Item[walk.seg] # Item[dst.seg] => value[ahead] # Infinity
       /\ ~walk.first => walk.at = Passed(Len(path)) /\ walk.seg = seg[walk.at]

Walking ==
  /\ walk \in Step \cup {None}
  /\ path \in Seq(Segment \X Dir)
  /\ pos \in Place \cup {None}
  /\ estimate \in 0..Infinity
  /\ pos = None => walk = None /\ path = <<>>
  /\ pos # None => Flooded
  /\ Chained
  /\ OnTheWay
  /\ walk = None /\ path # <<>> => Item[path[Len(path)][1]] = Item[dst.seg]

(* The smallest of some numbers is one of them                             *)
LEMMA MinIs ==
  ASSUME NEW S \in SUBSET Nat, S # {}
  PROVE  Min(S) \in S /\ \A m \in S : Min(S) <= m
  BY Least DEF Min

LEMMA BestBounds ==
  ASSUME Typed, NEW c \in Place, NEW d \in Dir
  PROVE  /\ Best(c, d) \in 0..Infinity
         /\ \A s \in OnStreet(c.seg) :
              Departure(c, s, d) \in Nat /\ Best(c, d) <= Departure(c, s, d)
  <1> DEFINE S == {Infinity} \cup {Departure(c, s, d) : s \in OnStreet(c.seg)}
  <1>1. ASSUME NEW s \in OnStreet(c.seg) PROVE Departure(c, s, d) \in Nat
    <2>1. s \in Segment /\ Ahead(s, d) \in Point
      BY Ends DEF OnStreet
    <2>2. ValueSeg(s, d) \in Nat /\ value[Ahead(s, d)] \in Nat /\ Infinity \in Nat
      BY <2>1, SearchAssumption DEF Typed, ValueSeg
    <2>3. c.percent \in 0..100
      BY SearchAssumption DEF Place
    <2>4. Part(ValueSeg(s, d), d, c.percent) \in Nat
      <3>1. Part(ValueSeg(s, d), d, c.percent) \in 0..ValueSeg(s, d)
        BY <2>2, <2>3, PartBounds, Zenon
      <3> QED
        BY <2>2, <3>1
    <2> QED
      BY <2>2, <2>4 DEF Departure
  <1>2. S \in SUBSET Nat /\ Infinity \in S
    BY <1>1, SearchAssumption
  <1>3. Best(c, d) = Min(S)
    BY DEF Best
  <1>4. \A s \in OnStreet(c.seg) : Departure(c, s, d) \in S
    OBVIOUS
  <1> HIDE DEF S
  <1>5. Min(S) \in Nat /\ Min(S) <= Infinity /\ \A m \in S : Min(S) <= m
    BY <1>2, MinIs
  <1> QED
    BY <1>1, <1>3, <1>4, <1>5, SearchAssumption

(* The first segment and the direction that route_path_new takes it in     *)
LEMMA DepartSetsOut ==
  ASSUME Typed, NEW c \in Place, Depart(c), ~UNCHANGED <<walk, estimate>>
  PROVE  \E s \in OnStreet(c.seg), d \in Dir :
           /\ walk' = [at |-> Behind(s, d), seg |-> s, first |-> TRUE]
           /\ estimate' = Best(c, d) /\ Best(c, d) = Departure(c, s, d)
           /\ Best(c, d) # Infinity /\ estimate' \in 0..Infinity
  <1>0. /\ Best(c, 1) \in 0..Infinity /\ Best(c, -1) \in 0..Infinity
        /\ Infinity \in Nat
    BY BestBounds, SearchAssumption DEF Dir
  <1>1. ~(Best(c, 1) = Infinity /\ Best(c, -1) = Infinity)
    BY DEF Depart
  <1>2. PICK s1, s2 \in OnStreet(c.seg) :
          LET tie == Best(c, 1) = Best(c, -1)
              ahead == IF tie THEN value[End[s1]] < value[Start[s2]]
                       ELSE Best(c, 1) < Best(c, -1)
          IN /\ Best(c, 1) \in {Departure(c, s1, 1), Infinity}
             /\ Best(c, -1) \in {Departure(c, s2, -1), Infinity}
             /\ walk' = IF ahead
                        THEN [at |-> Start[s1], seg |-> s1, first |-> TRUE]
                        ELSE [at |-> End[s2], seg |-> s2, first |-> TRUE]
             /\ estimate' = Best(c, IF ahead THEN 1 ELSE -1)
    BY <1>1 DEF Depart
  <1> DEFINE tie == Best(c, 1) = Best(c, -1)
             ahead == IF tie THEN value[End[s1]] < value[Start[s2]]
                      ELSE Best(c, 1) < Best(c, -1)
  <1>3. CASE ahead
    <2>1. Best(c, 1) # Infinity
      BY <1>0, <1>1, <1>3
    <2>2. walk' = [at |-> Behind(s1, 1), seg |-> s1, first |-> TRUE]
          /\ estimate' = Best(c, 1)
      BY <1>2, <1>3 DEF Behind
    <2>3. Best(c, 1) = Departure(c, s1, 1) /\ 1 \in Dir
      BY <1>2, <2>1 DEF Dir
    <2> HIDE DEF tie, ahead
    <2> QED
      BY <1>0, <2>1, <2>2, <2>3
  <1>4. CASE ~ahead
    <2>1. Best(c, -1) # Infinity
      BY <1>0, <1>1, <1>4
    <2>2. walk' = [at |-> Behind(s2, -1), seg |-> s2, first |-> TRUE]
          /\ estimate' = Best(c, -1)
      BY <1>2, <1>4 DEF Behind
    <2>3. Best(c, -1) = Departure(c, s2, -1) /\ -1 \in Dir
      BY <1>2, <2>1 DEF Dir
    <2> HIDE DEF tie, ahead
    <2> QED
      BY <1>0, <2>1, <2>2, <2>3
  <1> QED
    BY <1>3, <1>4

(* The first segment: the point it leads to has a way to the destination   *)
LEMMA DepartWalking ==
  ASSUME IInv, Walking, NEW c \in Place, Depart(c)
  PROVE  Walking'
  <1>1. /\ pos' = c /\ Flooded /\ pos = None /\ walk = None /\ path = <<>>
        /\ UNCHANGED <<time, dst, todo, value, seg, heap, path>>
    BY DEF Depart, floodVars, Walking
  <1>2. pos' # None /\ pos' \in Place /\ Flooded'
    BY <1>1, SearchAssumption DEF Flooded
  <1>3. Chained'
    BY <1>1 DEF Chained
  <1>4. CASE UNCHANGED <<walk, estimate>>
    BY <1>1, <1>2, <1>3, <1>4 DEF Walking, OnTheWay
  <1>5. CASE ~UNCHANGED <<walk, estimate>>
    <2>2. PICK s \in OnStreet(c.seg), d \in Dir :
            /\ walk' = [at |-> Behind(s, d), seg |-> s, first |-> TRUE]
            /\ estimate' = Best(c, d) /\ Best(c, d) = Departure(c, s, d)
            /\ Best(c, d) # Infinity /\ estimate' \in 0..Infinity
      BY <1>5, DepartSetsOut DEF IInv
    <2>3. s \in Segment /\ walk'.at = Behind(s, d) /\ walk'.seg = s
          /\ walk'.first = TRUE /\ walk' \in Step
      BY <2>2, Ends DEF OnStreet, Step
    <2>4. To(s, Behind(s, d)) = d
      BY <2>3, Ends
    <2>5. value[Ahead(s, d)] # Infinity
      BY <2>2 DEF Departure
    <2>6. OnTheWay'
      BY <1>1, <2>3, <2>4, <2>5 DEF OnTheWay, Ahead, Behind, To
    <2>7. estimate' \in 0..Infinity
      BY <2>2
    <2>8. path' = <<>> /\ path' \in Seq(Segment \X Dir)
      BY <1>1
    <2> QED
      BY <1>2, <1>3, <2>3, <2>6, <2>7, <2>8 DEF Walking
  <1> QED
    BY <1>4, <1>5

(* What one more segment does to the path                                  *)
LEMMA OneMore ==
  ASSUME path \in Seq(Segment \X Dir), NEW s \in Segment, NEW d \in Dir,
         path' = Append(path, <<s, d>>)
  PROVE  /\ path' \in Seq(Segment \X Dir)
         /\ Len(path) \in Nat /\ Len(path') = Len(path) + 1 /\ path' # <<>>
         /\ (path = <<>>) = (Len(path) = 0)
         /\ path'[Len(path) + 1] = <<s, d>>
         /\ \A i : i = Len(path) + 1 => Passed(i)' = Ahead(s, d)
         /\ \A i \in 1..Len(path) : path'[i] = path[i] /\ Passed(i)' = Passed(i)
  <1>1. /\ <<s, d>> \in Segment \X Dir /\ path' \in Seq(Segment \X Dir)
        /\ Len(path) \in Nat /\ Len(path') = Len(path) + 1
        /\ (path = <<>>) = (Len(path) = 0)
        /\ path'[Len(path) + 1] = <<s, d>>
        /\ \A i \in 1..Len(path) : path'[i] = path[i]
    OBVIOUS
  <1>2. path' # <<>>
    BY <1>1
  <1>3. \A i : i = Len(path) + 1 => Passed(i)' = Ahead(s, d)
    BY <1>1 DEF Passed, Ahead
  <1>4. \A i \in 1..Len(path) : Passed(i)' = Passed(i)
    BY <1>1 DEF Passed, Ahead
  <1> QED
    BY <1>1, <1>2, <1>3, <1>4

(* The loop ends where the destination is, and nowhere else: a point that  *)
(* has a value has a segment                                               *)
LEMMA FollowWalking ==
  ASSUME IInv, Shape, Walking, Follow
  PROVE  Walking'
  <1> DEFINE s == walk.seg
             d == To(s, walk.at)
             q == Ahead(s, d)
             n == Len(path)
  <1>1. /\ walk # None /\ path' = Append(path, <<s, d>>)
        /\ walk' = IF Arrives(s, d, walk.first) \/ seg[q] = None
                   THEN None ELSE [at |-> q, seg |-> seg[q], first |-> FALSE]
        /\ UNCHANGED <<time, dst, todo, value, seg, heap, pos, estimate>>
    BY DEF Follow, floodVars, To
  <1>2. /\ s \in Segment /\ d \in Dir /\ q \in Point
        /\ walk.first \in BOOLEAN /\ path \in Seq(Segment \X Dir)
    BY <1>1, Ends DEF Walking, Step, To, Dir
  <1>3. /\ walk.first <=> path = <<>>
        /\ walk.first \/ Item[s] # Item[dst.seg] => value[q] # Infinity
        /\ ~walk.first => walk.at = Passed(n) /\ s = seg[walk.at]
    BY <1>1 DEF Walking, OnTheWay
  <1>4. /\ path' \in Seq(Segment \X Dir)
        /\ n \in Nat /\ Len(path') = n + 1 /\ path' # <<>>
        /\ (path = <<>>) = (n = 0)
        /\ path'[n + 1] = <<s, d>>
        /\ \A i : i = n + 1 => Passed(i)' = q
        /\ \A i \in 1..n : path'[i] = path[i] /\ Passed(i)' = Passed(i)
    BY <1>1, <1>2, OneMore
  <1>5. \A p : Leads(p)' = Leads(p)
    BY <1>1 DEF Leads
  <1> HIDE DEF s, d, q, n
  <1>6. Chained'
    <2> SUFFICES ASSUME NEW i \in 1..n
                 PROVE  /\ path'[i + 1] = <<seg[Passed(i)], To(seg[Passed(i)], Passed(i))>>
                        /\ i < n \/ walk' # None => Leads(Passed(i))
      BY <1>1, <1>4, <1>5 DEF Chained, To
    <2>1. CASE i = n
      <3>1. walk.at = Passed(n) /\ s = seg[walk.at]
        BY <1>3, <1>4
      <3>2. path'[i + 1] = <<seg[Passed(i)], To(seg[Passed(i)], Passed(i))>>
        BY <1>4, <2>1, <3>1 DEF d
      <3>3. walk' # None => Item[s] # Item[dst.seg]
        BY <1>1, <1>3, <1>4 DEF Arrives
      <3> QED
        BY <1>2, <2>1, <3>1, <3>2, <3>3, SearchAssumption DEF Leads
    <2>2. CASE i # n
      <3>1. i \in 1..(n - 1) /\ i + 1 \in 1..n
        BY <1>4, <2>2
      <3> QED
        BY <1>1, <1>4, <3>1 DEF Walking, Chained, n
    <2> QED
      BY <2>1, <2>2
  <1>7. OnTheWay'
    <2> SUFFICES ASSUME walk' # None PROVE OnTheWay'
      BY DEF OnTheWay
    <2>1. /\ walk'.at = q /\ walk'.seg = seg[q] /\ walk'.first = FALSE
          /\ seg[q] # None /\ seg[q] \in Segment
      BY <1>1, <1>2 DEF IInv, Typed
    <2>2. value[q] # Infinity /\ q = Behind(seg[q], To(seg[q], q))
          /\ (Leads(q) => value[NextPoint(q)] <= value[q])
      BY <1>2, <2>1 DEF Shape, FlowsDown
    <2>3. Item[seg[q]] # Item[dst.seg] => value[NextPoint(q)] # Infinity
      <3>1. NextPoint(q) \in Point
        BY <2>1, Ends DEF NextPoint, To, Dir
      <3>2. /\ value[q] \in 0..Infinity /\ value[NextPoint(q)] \in 0..Infinity
            /\ Infinity \in Nat
        BY <1>2, <3>1, SearchAssumption DEF IInv, Typed
      <3> QED
        BY <2>1, <2>2, <3>2 DEF Leads
    <2>4. walk'.at = Behind(walk'.seg, To(walk'.seg, walk'.at))
      BY <2>1, <2>2
    <2>5. Item[walk'.seg] # Item[dst.seg] =>
            value[Ahead(walk'.seg, To(walk'.seg, walk'.at))] # Infinity
      BY <2>1, <2>3 DEF NextPoint
    <2>6. /\ walk'.at = Passed(Len(path))' /\ walk'.seg = seg'[walk'.at]
          /\ path' # <<>> /\ value' = value /\ dst' = dst
      <3>1. Passed(Len(path))' = Ahead(path'[n + 1][1], path'[n + 1][2])
        BY <1>4 DEF Passed, Ahead
      <3>2. Ahead(path'[n + 1][1], path'[n + 1][2]) = q
        BY <1>4 DEF q
      <3> QED
        BY <1>1, <1>4, <2>1, <3>1, <3>2
    <2> QED
      BY <2>1, <2>4, <2>5, <2>6 DEF OnTheWay
  <1>8. walk' = None => Item[path'[Len(path')][1]] = Item[dst.seg]
    <2> SUFFICES ASSUME walk' = None PROVE Item[s] = Item[dst.seg]
      BY <1>4
    <2>1. Arrives(s, d, walk.first) \/ seg[q] = None
      <3> SUFFICES ASSUME walk' = [at |-> q, seg |-> seg[q], first |-> FALSE],
                          seg[q] # None
                   PROVE  FALSE
        BY <1>1
      <3>1. walk' \in Step
        BY <1>2 DEF Step, IInv, Typed
      <3> QED
        BY <3>1, SearchAssumption
    <2>2. CASE seg[q] = None /\ Item[s] # Item[dst.seg]
      BY <1>2, <1>3, <2>2 DEF IInv, Ordered
    <2> QED
      BY <2>1, <2>2 DEF Arrives
  <1>9. walk' \in Step \cup {None}
    BY <1>1, <1>2 DEF Step, IInv, Typed
  <1>10. pos # None
    BY <1>1 DEF Walking
  <1>11. Flooded'
    BY <1>1, <1>10 DEF Walking, Flooded
  <1> QED
    BY <1>1, <1>4, <1>6, <1>7, <1>8, <1>9, <1>10, <1>11, SearchAssumption
       DEF Walking

-----------------------------------------------------------------------------
SInv == IInv /\ Shape /\ Walking

THEOREM SearchShaped == Spec => []SInv
  <1>1. Init => Shape /\ Walking
    <2> SUFFICES ASSUME Init PROVE Shape /\ Walking
      OBVIOUS
    <2>1. \A p \in Point : seg[p] = None
      BY DEF Init
    <2>2. Shape
      BY <2>1 DEF Init, Shape, FlowsDown, NoLoop, Leads
    <2>3. estimate \in 0..Infinity /\ path = <<>> /\ Len(path) = 0
      BY SearchAssumption DEF Init
    <2> QED
      BY <2>2, <2>3 DEF Init, Walking, Chained, OnTheWay
  <1>2. IInv /\ IInv' /\ Shape /\ Walking /\ [Next]_vars => Shape' /\ Walking'
    <2> SUFFICES ASSUME IInv, IInv', Shape, Walking, [Next]_vars
                 PROVE  Shape' /\ Walking'
      OBVIOUS
    <2>1. ASSUME UNCHANGED <<walk, path, pos, estimate>>, todo # {} \/ heap # {}
          PROVE  Walking'
      <3>1. walk' = None /\ path' = <<>> /\ pos' = None /\ estimate' \in 0..Infinity
        BY <2>1 DEF Walking, Flooded
      <3> QED
        BY <3>1 DEF Walking, Chained, OnTheWay
    <2>2. CASE UNCHANGED vars
      <3>1. Shape'
        BY <2>2, ShapeStutters DEF vars, floodVars
      <3>2. Chained'
        BY <2>2 DEF vars, floodVars, Walking, Chained, Passed, Leads
      <3>3. OnTheWay' /\ Flooded' = Flooded
        BY <2>2 DEF vars, floodVars, Walking, OnTheWay, Passed, Flooded
      <3> QED
        BY <2>2, <3>1, <3>2, <3>3 DEF vars, floodVars, Walking
    <2>3. ASSUME NEW s \in Segment, Seed(s) PROVE Shape' /\ Walking'
      BY <2>1, <2>3, SeedShape DEF Seed
    <2>4. ASSUME NEW e \in heap, Extract(e) PROVE Shape' /\ Walking'
      BY <2>1, <2>4, ExtractShape DEF Extract
    <2>5. ASSUME NEW c \in Place, Depart(c) PROVE Shape' /\ Walking'
      BY <2>5, ShapeStutters, DepartWalking DEF Depart, floodVars
    <2>6. ASSUME Follow PROVE Shape' /\ Walking'
      BY <2>6, ShapeStutters, FollowWalking DEF Follow, floodVars
    <2> QED
      BY <2>2, <2>3, <2>4, <2>5, <2>6 DEF Next
  <1> QED
    BY <1>1, <1>2, SearchOrdered, PTL DEF Spec, SInv

(* What the search has worked out is of the right kind; the costs stay     *)
(* below INT_MAX, and so does the estimate of route_path_new.              *)
THEOREM SearchTyped == Spec => []TypeOK
  <1> DEFINE Given == time \in [Segment -> [Dir -> Times]] /\ todo \subseteq Segment
  <1>1. Init => Given
    BY DEF Init, OnStreet
  <1>2. Given /\ [Next]_vars => Given'
    BY DEF Next, vars, floodVars, Seed, Extract, Depart, Follow
  <1>3. Given /\ SInv => TypeOK
    BY DEF TypeOK, SInv, IInv, Typed, Walking
  <1> HIDE DEF Given
  <1> QED
    BY <1>1, <1>2, <1>3, SearchShaped, PTL DEF Spec

(* route_path_new ends on the street of the destination and passes no      *)
(* point twice, on any graph and whatever its streets, restrictions and    *)
(* costs: costs of zero, split points and the entries the heap lost track  *)
(* of included.                                                            *)
THEOREM SearchArrives == Spec => []PathArrives
  <1>1. SInv => PathArrives
    <2> SUFFICES ASSUME SInv PROVE PathArrives
      OBVIOUS
    <2> DEFINE n == Len(path)
    <2>1. /\ path \in Seq(Segment \X Dir) /\ n \in Nat
          /\ path # <<>> => Last(path) = path[n]
      BY DEF SInv, Walking, Last
    <2>2. walk = None /\ path # <<>> => Item[Last(path)[1]] = Item[dst.seg]
      BY <2>1 DEF SInv, Walking
    <2>3. ASSUME NEW i \in 1..(n - 1), NEW j \in 1..(n - 1), i < j,
                 Passed(i) = Passed(j)
          PROVE  FALSE
      <3> DEFINE S == {Passed(k) : k \in i..(j - 1)}
      <3>1. ASSUME NEW k \in i..(j - 1)
            PROVE  /\ Leads(Passed(k)) /\ Passed(k) \in Point
                   /\ NextPoint(Passed(k)) \in S
        <4>1. k \in 1..(n - 1) /\ k + 1 < n /\ k \in 1..n
              /\ (k + 1 \in i..(j - 1) \/ k + 1 = j) /\ i \in i..(j - 1)
          BY <2>1
        <4>2. Leads(Passed(k)) /\ path[k + 1] = <<seg[Passed(k)], To(seg[Passed(k)], Passed(k))>>
          BY <4>1 DEF SInv, Walking, Chained
        <4>3. NextPoint(Passed(k)) = Passed(k + 1)
          BY <4>2 DEF NextPoint, Passed
        <4>4. Passed(k + 1) \in S
          BY <2>3, <4>1
        <4>5. Passed(k) \in Point
          BY <2>1, <4>1, Ends DEF Passed
        <4> QED
          BY <4>2, <4>3, <4>4, <4>5
      <3>2. S \in SUBSET Point /\ Passed(i) \in S
        BY <2>1, <2>3, <3>1
      <3>3. \A p \in S : Leads(p) /\ NextPoint(p) \in S
        BY <3>1
      <3> HIDE DEF S
      <3> QED
        BY <3>2, <3>3 DEF SInv, Shape, NoLoop
    <2>4. ASSUME NEW i \in 1..(n - 1), NEW j \in 1..(n - 1), Passed(i) = Passed(j)
          PROVE  i = j
      <3>1. i < j \/ j < i \/ i = j
        BY <2>1
      <3> QED
        BY <2>3, <2>4, <3>1
    <2> QED
      BY <2>2, <2>4 DEF PathArrives, Passed
  <1> QED
    BY <1>1, SearchShaped, PTL

-----------------------------------------------------------------------------
(* Where a street is one segment and its clones, and the segments of the   *)
(* destination's street, which the flood enters newest first, only lower   *)
(* what the ones before gave a point, what the flood has worked out for a  *)
(* point is the cost of a way.                                             *)
KeysAbove == \A e \in heap : value[e.point] <= e.key

NewestFirst ==
  todo # {} =>
    \A p \in Point : seg[p] # None =>
      /\ seg[p] \in OnStreet(dst.seg)
      /\ \A t \in todo : Added[t] < Added[seg[p]]

Seeded ==
  \A s \in OnStreet(dst.seg) \ todo, d \in Dir :
    time[s][d] # Infinity => value[Behind(s, d)] <= SeedCost(s, d)

(* No round will improve q any more                                        *)
Settled(q) == value[q] # Infinity /\ \A e \in heap : value[q] <= e.key

Derived(p) ==
  LET s == seg[p]
      d == To(s, p)
      q == Ahead(s, d)
  IN /\ Settled(q) /\ Item[s] # Item[seg[q]]
     /\ value[p] = value[q] + Cost(s, d)

Explained ==
  \A p \in Point : seg[p] # None =>
    LET s == seg[p]
        d == To(s, p)
    IN /\ time[s][d] # Infinity
       /\ \/ s \in OnStreet(dst.seg) /\ value[p] = SeedCost(s, d)
          \/ todo = {} /\ Derived(p)

Costs == KeysAbove /\ NewestFirst /\ Seeded /\ Explained

(* Undistorted, said of the segments that Explained names                  *)
LEMMA LaterIsLower ==
  ASSUME Undistorted, NEW s \in OnStreet(dst.seg), NEW t \in OnStreet(dst.seg),
         NEW d \in Dir, NEW c \in Dir, Added[s] < Added[t],
         Behind(s, d) = Behind(t, c),
         time[s][d] # Infinity, time[t][c] # Infinity
  PROVE  SeedCost(s, d) <= SeedCost(t, c)
  <1> DEFINE p == Behind(s, d)
  <1>1. p \in Point
    BY Ends DEF OnStreet
  <1>2. <<s, d>> \in Seeds(p) /\ <<t, c>> \in Seeds(p)
    BY DEF Seeds
  <1>3. SeedOf(<<s, d>>) <= SeedOf(<<t, c>>)
    BY <1>1, <1>2 DEF Undistorted
  <1> QED
    BY <1>3 DEF SeedOf, SeedCost, ValueSeg

LEMMA UndistortedStays ==
  ASSUME UNCHANGED <<time, dst>>
  PROVE  /\ Undistorted' = Undistorted
         /\ \A p : Seeds(p)' = Seeds(p)
         /\ \A w : SeedOf(w)' = SeedOf(w)
  <1>1. \A p : Seeds(p)' = Seeds(p)
    BY DEF Seeds, OnStreet, Behind
  <1>2. \A w : SeedOf(w)' = SeedOf(w)
    BY DEF SeedOf, PartTo, Part
  <1> QED
    BY <1>1, <1>2 DEF Undistorted

(* What a segment of the destination gives to the ends it can be driven    *)
(* from                                                                    *)
LEMMA SeedSets ==
  ASSUME IInv, Shape, NEW s \in Segment, Seed(s)
  PROVE  /\ s \in OnStreet(dst.seg) /\ UNCHANGED <<time, dst>>
         /\ todo' = todo \ {s} /\ s \in todo
         /\ \A t \in todo' : Added[t] < Added[s]
         /\ \A p \in Point :
              /\ value'[p] \in 0..Infinity
              /\ \/ seg'[p] = seg[p] /\ value'[p] = value[p]
                 \/ /\ seg'[p] = s /\ time[s][To(s, p)] # Infinity
                    /\ p = Behind(s, To(s, p)) /\ To(s, p) \in Dir
                    /\ value'[p] = SeedCost(s, To(s, p))
         /\ \A d \in Dir : time[s][d] # Infinity =>
              value'[Behind(s, d)] = SeedCost(s, d)
         /\ \A f \in heap' :
              \/ \E g \in heap : f.point = g.point /\ f.key = g.key
              \/ f.key = value'[f.point] /\ f.point \in Point
  <1> DEFINE open    == {d \in Dir : ValueSeg(s, d) # Infinity}
             ends    == {Behind(s, d) : d \in open}
             cost(p) == SeedCost(s, CHOOSE d \in open : Behind(s, d) = p)
             added   == {[point |-> p, key |-> cost(p), live |-> TRUE] : p \in ends}
  <1>1. /\ \A p \in Point : value'[p] = IF p \in ends THEN cost(p) ELSE value[p]
        /\ \A p \in Point : seg'[p] = IF p \in ends THEN s ELSE seg[p]
        /\ heap' = Orphan(heap, ends) \cup added
        /\ s \in todo /\ todo' = todo \ {s} /\ UNCHANGED <<time, dst>>
        /\ \A t \in todo : Added[t] <= Added[s]
    BY DEF Seed
  <1>2. s \in OnStreet(dst.seg) /\ todo \subseteq Segment
    BY <1>1 DEF Shape, OnStreet
  <1>3. \A t \in todo' : Added[t] < Added[s]
    <2>1. ASSUME NEW t \in todo' PROVE Added[t] < Added[s]
      <3>1. t \in Segment /\ t # s /\ Added[t] <= Added[s]
        BY <1>1, <1>2
      <3>2. Added[t] # Added[s] /\ Added[t] \in Nat /\ Added[s] \in Nat
        BY <3>1, SearchAssumption DEF IsInjective
      <3> QED
        BY <3>1, <3>2
    <2> QED
      BY <2>1
  <1>4. ASSUME NEW d \in open
        PROVE  /\ d \in Dir /\ time[s][d] # Infinity /\ Behind(s, d) \in Point
               /\ cost(Behind(s, d)) = SeedCost(s, d)
               /\ To(s, Behind(s, d)) = d
    <2>1. \A c \in open : Behind(s, c) = Behind(s, d) => c = d
      BY Ends
    <2>2. (CHOOSE c \in open : Behind(s, c) = Behind(s, d)) = d
      BY <2>1
    <2> QED
      BY <2>2, Ends DEF ValueSeg
  <1>5. ASSUME NEW p \in ends
        PROVE  /\ p \in Point /\ seg'[p] = s /\ value'[p] = SeedCost(s, To(s, p))
               /\ time[s][To(s, p)] # Infinity /\ To(s, p) \in Dir
               /\ Behind(s, To(s, p)) = p
    <2>1. PICK d \in open : p = Behind(s, d)
      OBVIOUS
    <2> HIDE DEF open, ends, cost
    <2>2. /\ d \in Dir /\ time[s][d] # Infinity /\ p \in Point
          /\ cost(p) = SeedCost(s, d) /\ To(s, p) = d
      BY <1>4, <2>1
    <2>3. seg'[p] = s /\ value'[p] = cost(p)
      BY <1>1, <2>2
    <2> QED
      BY <2>1, <2>2, <2>3
  <1>6. ASSUME NEW d \in Dir, time[s][d] # Infinity
        PROVE  value'[Behind(s, d)] = SeedCost(s, d)
    <2>1. d \in open /\ Behind(s, d) \in ends
      BY <1>6 DEF ValueSeg
    <2> QED
      BY <1>1, <1>4, <2>1
  <1> HIDE DEF open, ends, cost
  <1>8. ASSUME NEW p \in Point
        PROVE  /\ value'[p] \in 0..Infinity
               /\ \/ seg'[p] = seg[p] /\ value'[p] = value[p]
                  \/ /\ seg'[p] = s /\ time[s][To(s, p)] # Infinity
                     /\ p = Behind(s, To(s, p)) /\ To(s, p) \in Dir
                     /\ value'[p] = SeedCost(s, To(s, p))
    <2>1. value'[p] \in 0..Infinity
      BY SeedOrdered DEF IInv, Typed
    <2>2. CASE p \in ends
      BY <1>5, <2>1, <2>2
    <2>3. CASE p \notin ends
      BY <1>1, <2>1, <2>3
    <2> QED
      BY <2>2, <2>3
  <1>9. ASSUME NEW f \in heap'
        PROVE  \/ \E g \in heap : f.point = g.point /\ f.key = g.key
               \/ f.key = value'[f.point] /\ f.point \in Point
    <2>1. CASE f \in Orphan(heap, ends)
      <3>1. PICK g \in heap : f = [g EXCEPT !.live = @ /\ g.point \notin ends]
        BY <2>1 DEF Orphan
      <3> QED
        BY <3>1 DEF IInv, Typed, Entry
    <2>2. CASE f \in added
      <3>1. f.point \in ends /\ f.key = cost(f.point)
        BY <2>2
      <3> QED
        BY <1>1, <1>5, <3>1
    <2> QED
      BY <1>1, <2>1, <2>2
  <1> QED
    BY <1>1, <1>2, <1>3, <1>6, <1>8, <1>9

(* Where no distortion is lost it gives no point more than it had          *)
LEMMA SeedLowers ==
  ASSUME IInv, Shape, Costs, Undistorted, NEW s \in Segment, Seed(s)
  PROVE  \A p \in Point : value'[p] <= value[p]
  <1> SUFFICES ASSUME NEW p \in Point PROVE value'[p] <= value[p]
    OBVIOUS
  <1>1. /\ s \in OnStreet(dst.seg) /\ s \in todo
        /\ \/ value'[p] = value[p]
           \/ /\ time[s][To(s, p)] # Infinity
              /\ p = Behind(s, To(s, p)) /\ To(s, p) \in Dir
              /\ value'[p] = SeedCost(s, To(s, p))
    BY SeedSets
  <1> DEFINE d == To(s, p)
             t == seg[p]
  <1>2. SeedCost(s, d) \in 0..Infinity /\ value[p] \in 0..Infinity
    <2>1. To(s, p) \in Dir
      BY DEF To, Dir
    <2> QED
      BY <2>1, SeedCostBounds DEF IInv, Typed
  <1>3. CASE value'[p] = value[p]
    BY <1>2, <1>3
  <1>4. CASE value'[p] # value[p] /\ t = None
    BY <1>1, <1>2, <1>4 DEF IInv, Ordered
  <1>5. CASE value'[p] # value[p] /\ t # None
    <2>1. /\ t \in OnStreet(dst.seg) /\ Added[s] < Added[t]
          /\ p = Behind(t, To(t, p)) /\ To(t, p) \in Dir
          /\ time[t][To(t, p)] # Infinity /\ value[p] = SeedCost(t, To(t, p))
      <3>1. todo # {}
        BY <1>1
      <3>2. p = Behind(t, To(t, p)) /\ To(t, p) \in Dir
        BY <1>5 DEF Shape, FlowsDown, To, Dir
      <3> QED
        BY <1>1, <1>5, <3>1, <3>2 DEF Costs, NewestFirst, Explained
    <2> HIDE DEF t, d
    <2>2. SeedCost(s, d) <= SeedCost(t, To(t, p))
      BY <1>1, <1>5, <2>1, LaterIsLower DEF d
    <2> QED
      BY <1>1, <1>5, <2>1, <2>2 DEF d
  <1> QED
    BY <1>3, <1>4, <1>5

LEMMA SeedCosts ==
  ASSUME IInv, Shape, Costs, Undistorted, NEW s \in Segment, Seed(s)
  PROVE  Costs'
  <1>1. /\ s \in OnStreet(dst.seg) /\ UNCHANGED <<time, dst>>
        /\ todo' = todo \ {s} /\ s \in todo
        /\ \A t \in todo' : Added[t] < Added[s]
        /\ \A p \in Point :
             /\ value'[p] \in 0..Infinity /\ value'[p] <= value[p]
             /\ \/ seg'[p] = seg[p] /\ value'[p] = value[p]
                \/ /\ seg'[p] = s /\ time[s][To(s, p)] # Infinity
                   /\ value'[p] = SeedCost(s, To(s, p))
        /\ \A d \in Dir : time[s][d] # Infinity =>
             value'[Behind(s, d)] = SeedCost(s, d)
        /\ \A f \in heap' :
             \/ \E g \in heap : f.point = g.point /\ f.key = g.key
             \/ f.key = value'[f.point] /\ f.point \in Point
    BY SeedSets, SeedLowers
  <1>2. \A t, d : SeedCost(t, d)' = SeedCost(t, d) /\ OnStreet(t)' = OnStreet(t)
    BY <1>1 DEF SeedCost, ValueSeg, OnStreet, PartTo, Part
  <1>3. \A p \in Point : value[p] \in 0..Infinity
    BY DEF IInv, Typed
  <1>5. KeysAbove'
    <2> SUFFICES ASSUME NEW f \in heap' PROVE value'[f.point] <= f.key
      BY DEF KeysAbove
    <2>1. CASE \E g \in heap : f.point = g.point /\ f.key = g.key
      <3>1. PICK g \in heap : f.point = g.point /\ f.key = g.key
        BY <2>1
      <3>2. g.point \in Point /\ g.key \in Nat
        BY DEF IInv, Typed, Entry
      <3>3. value[g.point] <= g.key
        BY DEF Costs, KeysAbove
      <3> QED
        BY <1>1, <1>3, <3>1, <3>2, <3>3
    <2>2. CASE f.key = value'[f.point] /\ f.point \in Point
      BY <1>1, <2>2
    <2> QED
      BY <1>1, <2>1, <2>2
  <1>6. NewestFirst'
    <2> SUFFICES ASSUME NEW p \in Point, seg'[p] # None
                 PROVE  /\ seg'[p] \in OnStreet(dst.seg)
                        /\ \A t \in todo' : Added[t] < Added[seg'[p]]
      BY <1>1 DEF NewestFirst, OnStreet
    <2>1. CASE seg'[p] = s
      BY <1>1, <2>1
    <2>2. CASE seg'[p] = seg[p]
      BY <1>1, <2>2 DEF Costs, NewestFirst
    <2> QED
      BY <1>1, <2>1, <2>2
  <1>7. Seeded'
    <2> SUFFICES ASSUME NEW t \in OnStreet(dst.seg) \ todo', NEW d \in Dir,
                        time[t][d] # Infinity
                 PROVE  value'[Behind(t, d)] <= SeedCost(t, d)
      BY <1>1, <1>2 DEF Seeded, OnStreet, Behind
    <2>1. t \in Segment /\ Behind(t, d) \in Point
          /\ SeedCost(t, d) \in 0..Infinity
      BY Ends, SeedCostBounds DEF OnStreet, IInv
    <2>2. CASE t = s
      BY <1>1, <2>1, <2>2
    <2>3. CASE t # s
      <3>1. value[Behind(t, d)] <= SeedCost(t, d)
        BY <1>1, <2>3 DEF Costs, Seeded
      <3>2. /\ value'[Behind(t, d)] <= value[Behind(t, d)]
            /\ value'[Behind(t, d)] \in 0..Infinity /\ value[Behind(t, d)] \in 0..Infinity
        BY <1>1, <1>3, <2>1
      <3> QED
        BY <2>1, <3>1, <3>2
    <2> QED
      BY <2>2, <2>3
  <1>8. Explained'
    <2> SUFFICES ASSUME NEW p \in Point, seg'[p] # None
                 PROVE  /\ time[seg'[p]][To(seg'[p], p)] # Infinity
                        /\ seg'[p] \in OnStreet(dst.seg)
                        /\ value'[p] = SeedCost(seg'[p], To(seg'[p], p))
      BY <1>1, <1>2 DEF Explained, To, OnStreet
    <2>1. CASE /\ seg'[p] = s /\ time[s][To(s, p)] # Infinity
               /\ value'[p] = SeedCost(s, To(s, p))
      BY <1>1, <2>1
    <2>2. CASE seg'[p] = seg[p] /\ value'[p] = value[p]
      BY <1>1, <2>2 DEF Costs, Explained
    <2> QED
      BY <1>1, <2>1, <2>2
  <1> QED
    BY <1>5, <1>6, <1>7, <1>8 DEF Costs

(* A round that improves something takes out an entry with the value of    *)
(* its point, which is settled from then on; it improves no settled point  *)
LEMMA ExtractCosts ==
  ASSUME IInv, Shape, Costs, NEW e \in heap, Extract(e)
  PROVE  Costs'
  <1> DEFINE p      == e.point
             better == Improved(p)
             new(q) == Offer(p, Cheapest(q, p)[1], Cheapest(q, p)[2])
  <1>1. /\ \A q \in Point : value'[q] = IF q \in better THEN new(q) ELSE value[q]
        /\ \A q \in Point : seg'[q] = IF q \in better THEN Cheapest(q, p)[1]
                                                      ELSE seg[q]
        /\ IsMin(e) /\ UNCHANGED <<time, dst, todo>> /\ todo = {}
    BY DEF Extract
  <1>2. /\ \A q \in better : /\ q \in Point /\ q # p /\ ~Final(q)
                             /\ Cheapest(q, p)[1] \in Segment
                             /\ Cheapest(q, p)[2] \in Dir
                             /\ new(q) \in 0..Infinity /\ new(q) < value[q]
                             /\ e.key <= new(q)
    BY <1>1, Improvement
  <1>3. /\ p \in Point /\ e.key \in Nat /\ Infinity \in Nat
        /\ \A f \in heap : f.key \in Nat /\ f.point \in Point
        /\ \A q \in Point : value[q] \in 0..Infinity
    BY SearchAssumption DEF IInv, Typed, Entry
  <1>4. \A f \in heap' :
          \/ \E g \in heap : f.point = g.point /\ f.key = g.key
          \/ f.point \in better /\ f.key = value'[f.point]
    BY HeapAfter
  <1>5. \A q \in Point : value'[q] <= value[q] /\ value'[q] \in 0..Infinity
    BY <1>1, <1>2, <1>3
  <1>6. \A t, d : SeedCost(t, d)' = SeedCost(t, d) /\ OnStreet(t)' = OnStreet(t)
    BY <1>1 DEF SeedCost, ValueSeg, OnStreet, PartTo, Part
  <1>7. NewestFirst'
    BY <1>1 DEF Costs, NewestFirst
  <1>8. KeysAbove'
    <2> SUFFICES ASSUME NEW f \in heap' PROVE value'[f.point] <= f.key
      BY DEF KeysAbove
    <2>1. CASE \E g \in heap : f.point = g.point /\ f.key = g.key
      <3>1. PICK g \in heap : f.point = g.point /\ f.key = g.key
        BY <2>1
      <3>2. g.point \in Point /\ g.key \in Nat
        BY <1>3
      <3>3. value[g.point] <= g.key
        BY DEF Costs, KeysAbove
      <3> QED
        BY <1>3, <1>5, <3>1, <3>2, <3>3
    <2>2. CASE f.point \in better /\ f.key = value'[f.point]
      <3>1. f.point \in Point
        BY <1>2, <2>2
      <3> QED
        BY <1>5, <2>2, <3>1
    <2> QED
      BY <1>4, <2>1, <2>2
  <1>9. Seeded'
    <2> SUFFICES ASSUME NEW t \in OnStreet(dst.seg) \ todo, NEW d \in Dir,
                        time[t][d] # Infinity
                 PROVE  value'[Behind(t, d)] <= SeedCost(t, d)
      BY <1>1, <1>6 DEF Seeded, OnStreet, Behind
    <2>1. t \in Segment /\ Behind(t, d) \in Point
          /\ SeedCost(t, d) \in 0..Infinity
      BY Ends, SeedCostBounds DEF OnStreet, IInv
    <2>2. value[Behind(t, d)] <= SeedCost(t, d)
      BY DEF Costs, Seeded
    <2> QED
      BY <1>3, <1>5, <2>1, <2>2
  <1>10. ASSUME NEW q \in Point, Settled(q)
         PROVE  q \notin better /\ Settled(q)'
    <2>1. value[q] <= e.key /\ value[q] # Infinity
      BY <1>10 DEF Settled
    <2>2. q \notin better
      <3> SUFFICES ASSUME q \in better PROVE FALSE
        OBVIOUS
      <3>1. new(q) \in 0..Infinity /\ new(q) < value[q] /\ e.key <= new(q)
        BY <1>2
      <3> HIDE DEF new
      <3> QED
        BY <1>3, <2>1, <3>1
    <2>3. value'[q] = value[q]
      BY <1>1, <2>2
    <2>4. ASSUME NEW f \in heap' PROVE value[q] <= f.key
      <3>1. CASE \E g \in heap : f.point = g.point /\ f.key = g.key
        BY <1>10, <3>1 DEF Settled
      <3>2. CASE f.point \in better /\ f.key = value'[f.point]
        <4>1. f.key = new(f.point) /\ e.key <= f.key /\ f.key \in Int
          BY <1>1, <1>2, <3>2
        <4> HIDE DEF new, better
        <4> QED
          BY <1>3, <2>1, <4>1
      <3> QED
        BY <1>4, <3>1, <3>2
    <2> QED
      BY <2>1, <2>2, <2>3, <2>4 DEF Settled
  <1>11. better # {} => Settled(p)
    <2> SUFFICES ASSUME NEW q \in better PROVE Settled(p)
      OBVIOUS
    <2>1. ~Final(p) /\ seg[p] # None
      BY <1>3 DEF IInv, Ordered
    <2>2. PICK f \in heap : f.point = p /\ f.key = value[p]
      BY <2>1 DEF Final, Pending
    <2>3. e.key <= value[p] /\ value[p] <= e.key
      BY <1>1, <2>2 DEF IsMin, Costs, KeysAbove
    <2>4. \A g \in heap : value[p] <= g.key
      BY <1>1, <1>3, <2>3 DEF IsMin
    <2>5. value[p] # Infinity
      <3>1. new(q) \in 0..Infinity /\ new(q) < value[q] /\ e.key <= new(q)
            /\ value[q] \in 0..Infinity
        BY <1>2, <1>3
      <3> HIDE DEF new
      <3> QED
        BY <1>3, <2>3, <3>1
    <2> QED
      BY <2>4, <2>5 DEF Settled
  <1>12. Explained'
    <2> SUFFICES ASSUME NEW r \in Point, seg'[r] # None
                 PROVE  /\ time[seg'[r]][To(seg'[r], r)] # Infinity
                        /\ \/ /\ seg'[r] \in OnStreet(dst.seg)
                              /\ value'[r] = SeedCost(seg'[r], To(seg'[r], r))
                           \/ Derived(r)'
      BY <1>1, <1>6 DEF Explained, To, OnStreet
    <2>1. CASE r \in better
      <3>1. PICK s \in Segment, d \in Dir :
              /\ s = Cheapest(r, p)[1] /\ d = Cheapest(r, p)[2]
              /\ seg'[r] = s /\ value'[r] = Offer(p, s, d)
              /\ value'[r] < value[r] /\ value'[r] \in 0..Infinity
        BY <1>1, <1>2, <2>1
      <3>2. Behind(s, d) = r /\ Ahead(s, d) = p
        BY <1>3, <2>1, <3>1, CheapestWay DEF IInv, Ways
      <3>3. value'[r] # Infinity
        BY <1>3, <3>1
      <3>4. To(s, r) = d
        BY <3>2, Ends
      <3>5. /\ time[s][d] # Infinity /\ Item[s] # Item[seg[p]]
            /\ value'[r] = value[p] + Cost(s, d)
        BY <3>1, <3>3 DEF Offer, ValueSegTo
      <3>6. Settled(p) /\ Settled(p)' /\ p \notin better
        BY <1>3, <1>10, <1>11, <2>1
      <3>7. value'[p] = value[p] /\ seg'[p] = seg[p]
        BY <1>1, <1>3, <3>6
      <3>8. Cost(s, d)' = Cost(s, d)
        BY <1>1, <3>2, <3>7 DEF Cost, Ahead
      <3>9. Derived(r)'
        <4>1. value'[r] = value'[p] + Cost(s, d)' /\ Item[s] # Item[seg'[p]]
          BY <3>5, <3>7, <3>8
        <4> QED
          BY <3>1, <3>2, <3>4, <3>6, <4>1 DEF Derived, Settled, Cost, Ahead, To
      <3> QED
        BY <3>1, <3>4, <3>5, <3>9
    <2>2. CASE r \notin better
      <3>1. PICK s \in Segment, d \in Dir, q \in Point :
              /\ s = seg[r] /\ d = To(s, r) /\ q = Ahead(s, d)
              /\ seg'[r] = s /\ value'[r] = value[r]
        <4>1. seg'[r] = seg[r] /\ value'[r] = value[r]
          BY <1>1, <2>2
        <4>2. seg[r] \in Segment
          BY <4>1 DEF IInv, Typed
        <4>3. To(seg[r], r) \in Dir /\ Ahead(seg[r], To(seg[r], r)) \in Point
          BY <4>2, Ends DEF To, Dir
        <4> QED
          BY <4>1, <4>2, <4>3
      <3>2. /\ time[s][d] # Infinity
            /\ \/ s \in OnStreet(dst.seg) /\ value[r] = SeedCost(s, d)
               \/ Derived(r)
        BY <3>1 DEF Costs, Explained
      <3>3. CASE Derived(r)
        <4>1. /\ Settled(q) /\ Item[s] # Item[seg[q]]
              /\ value[r] = value[q] + Cost(s, d)
          BY <3>1, <3>3 DEF Derived
        <4>2. Settled(q)' /\ value'[q] = value[q] /\ seg'[q] = seg[q]
          BY <1>1, <1>10, <4>1
        <4>3. Cost(s, d)' = Cost(s, d)
          BY <1>1, <3>1, <4>2 DEF Cost, Ahead
        <4>4. value'[r] = value'[q] + Cost(s, d)' /\ Item[s] # Item[seg'[q]]
          BY <3>1, <4>1, <4>2, <4>3
        <4>5. Derived(r)'
          BY <3>1, <4>2, <4>4 DEF Derived, Settled, Cost, Ahead, To
        <4> QED
          BY <3>1, <3>2, <4>5
      <3> QED
        BY <3>1, <3>2, <3>3
    <2> QED
      BY <2>1, <2>2
  <1> QED
    BY <1>7, <1>8, <1>9, <1>12 DEF Costs

LEMMA CostsStutter ==
  ASSUME Costs, UNCHANGED <<time, dst, todo, value, seg, heap>>
  PROVE  Costs'
  <1>1. /\ \A s, d : SeedCost(s, d)' = SeedCost(s, d) /\ OnStreet(s)' = OnStreet(s)
        /\ \A q : Settled(q)' = Settled(q)
        /\ \A s, d : Cost(s, d)' = Cost(s, d)
    BY DEF SeedCost, ValueSeg, OnStreet, PartTo, Part, Settled, Cost
  <1>2. \A p \in Point : Derived(p)' = Derived(p)
    BY DEF Derived, Settled, Cost
  <1>3. KeysAbove' /\ NewestFirst'
    BY DEF Costs, KeysAbove, NewestFirst, OnStreet
  <1>4. Seeded'
    BY <1>1 DEF Costs, Seeded, OnStreet, Behind
  <1>5. Explained'
    <2> SUFFICES ASSUME NEW p \in Point, seg[p] # None
                 PROVE  /\ time[seg[p]][To(seg[p], p)] # Infinity
                        /\ \/ /\ seg[p] \in OnStreet(dst.seg)
                              /\ value[p] = SeedCost(seg[p], To(seg[p], p))
                           \/ todo = {} /\ Derived(p)
      BY <1>1, <1>2 DEF Explained, To, OnStreet
    <2> QED
      BY DEF Costs, Explained
  <1> QED
    BY <1>3, <1>4, <1>5 DEF Costs

(* Where no distortion is lost on the street of the destination, every     *)
(* value of the flood is explained by the segment that was stored with it  *)
THEOREM SearchCosts == Spec => [](Undistorted => Costs)
<1>1. Init => Costs
  <2> SUFFICES ASSUME Init PROVE Costs
    OBVIOUS
  <2>1. \A p \in Point : seg[p] = None
    BY DEF Init
  <2> QED
    BY <2>1 DEF Init, Costs, KeysAbove, NewestFirst, Seeded, Explained
<1>2. SInv /\ (Undistorted => Costs) /\ [Next]_vars => (Undistorted => Costs)'
  <2> SUFFICES ASSUME SInv, Undistorted => Costs, [Next]_vars, Undistorted'
               PROVE  Costs'
    OBVIOUS
  <2>1. UNCHANGED <<time, dst>>
    BY DEF Next, Seed, Extract, Depart, Follow, vars, floodVars
  <2>2. Undistorted /\ Costs
    BY <2>1, UndistortedStays
  <2>3. ASSUME NEW s \in Segment, Seed(s) PROVE Costs'
    BY <2>2, <2>3, SeedCosts DEF SInv
  <2>4. ASSUME NEW e \in heap, Extract(e) PROVE Costs'
    BY <2>2, <2>4, ExtractCosts DEF SInv
  <2>5. CASE UNCHANGED <<time, dst, todo, value, seg, heap>>
    BY <2>2, <2>5, CostsStutter
  <2> QED
    BY <2>3, <2>4, <2>5 DEF Next, vars, floodVars, Depart, Follow
<1> QED
  BY <1>1, <1>2, SearchShaped, PTL DEF Spec

(* When the flood of a graph is done, every value is the cost of a way to  *)
(* the destination, where no distortion is lost on the destination's       *)
(* street: for streets in segments, too.                                   *)
THEOREM FloodExplained == Spec => []ValueIsCost
<1>1. SInv /\ (Undistorted => Costs) => ValueIsCost
  <2> SUFFICES ASSUME SInv, Costs, Flooded, NEW p \in Point, value[p] # Infinity
               PROVE  \E d \in Dir :
                        LET s == seg[p]
                        IN /\ Behind(s, d) = p
                           /\ \/ /\ s \in OnStreet(dst.seg)
                                 /\ value[p] = PartTo(time[s][d], d, dst.percent)
                              \/ /\ value[Ahead(s, d)] # Infinity
                                 /\ Item[s] # Item[seg[Ahead(s, d)]]
                                 /\ value[p] = value[Ahead(s, d)] + Cost(s, d)
    BY DEF ValueIsCost, StatedCosts
  <2>1. seg[p] # None
    BY DEF SInv, IInv, Ordered
  <2>2. PICK s, d : s = seg[p] /\ d = To(s, p)
    OBVIOUS
  <2>3. d \in Dir /\ Behind(s, d) = p
    BY <2>1, <2>2 DEF SInv, Shape, FlowsDown, To, Dir
  <2>4. \/ s \in OnStreet(dst.seg) /\ value[p] = SeedCost(s, d)
        \/ Derived(p)
    BY <2>1, <2>2 DEF Costs, Explained
  <2>5. CASE s \in OnStreet(dst.seg) /\ value[p] = SeedCost(s, d)
    BY <2>2, <2>3, <2>5 DEF SeedCost, ValueSeg
  <2>6. CASE Derived(p)
    <3>1. /\ value[Ahead(s, d)] # Infinity /\ Item[s] # Item[seg[Ahead(s, d)]]
          /\ value[p] = value[Ahead(s, d)] + Cost(s, d)
      BY <2>2, <2>6 DEF Derived, Settled
    <3> QED
      BY <2>2, <2>3, <3>1
  <2> QED
    BY <2>4, <2>5, <2>6
<1> QED
  BY <1>1, SearchCosts, SearchShaped, PTL

-----------------------------------------------------------------------------
(* What was entered last counts, distortions or not                        *)
Entered(p) == {w \in Seeds(p) : w[1] \notin todo}

LastCounts ==
  /\ \A t \in todo, u \in OnStreet(dst.seg) \ todo : Added[t] < Added[u]
  /\ \A p \in Point : \A w \in Entered(p) :
       (\A v \in Entered(p) : Added[w[1]] <= Added[v[1]]) =>
         value[p] <= SeedOf(w)

LEMMA SeedLast ==
  ASSUME SInv, LastCounts, NEW s \in Segment, Seed(s)
  PROVE  LastCounts'
  <1>1. /\ s \in OnStreet(dst.seg) /\ UNCHANGED <<time, dst>>
        /\ todo' = todo \ {s} /\ s \in todo
        /\ \A t \in todo' : Added[t] < Added[s]
        /\ \A p \in Point :
             \/ value'[p] = value[p]
             \/ /\ time[s][To(s, p)] # Infinity
                /\ p = Behind(s, To(s, p)) /\ To(s, p) \in Dir
        /\ \A d \in Dir : time[s][d] # Infinity =>
             value'[Behind(s, d)] = SeedCost(s, d)
        /\ \A p \in Point : value'[p] \in 0..Infinity
    BY SeedSets DEF SInv
  <1>2. /\ \A p : Seeds(p)' = Seeds(p) /\ \A w : SeedOf(w)' = SeedOf(w)
        /\ OnStreet(dst.seg)' = OnStreet(dst.seg)
    BY <1>1, UndistortedStays DEF OnStreet
  <1>3. ASSUME NEW t \in todo', NEW u \in OnStreet(dst.seg) \ todo'
        PROVE  Added[t] < Added[u]
    <2>1. CASE u = s
      BY <1>1, <2>1
    <2>2. CASE u # s
      BY <1>1, <2>2 DEF LastCounts
    <2> QED
      BY <2>1, <2>2
  <1>4. ASSUME NEW p \in Point, NEW w \in Entered(p)',
               \A v \in Entered(p)' : Added[w[1]] <= Added[v[1]]
        PROVE  value'[p] <= SeedOf(w)
    <2>1. /\ w \in Seeds(p) /\ w[1] \notin todo' /\ w[1] \in OnStreet(dst.seg)
          /\ w[2] \in Dir /\ time[w[1]][w[2]] # Infinity
          /\ Behind(w[1], w[2]) = p
      BY <1>2 DEF Entered, Seeds
    <2>2. CASE w[1] = s
      <3>1. value'[p] = SeedCost(s, w[2]) /\ SeedOf(w) = SeedCost(s, w[2])
        BY <1>1, <2>1, <2>2 DEF SeedOf, SeedCost, ValueSeg
      <3> QED
        BY <1>1, <3>1
    <2>3. CASE w[1] # s
      <3>1. w[1] \notin todo /\ w \in Entered(p)
        BY <1>1, <2>1, <2>3 DEF Entered
      <3>2. Added[s] < Added[w[1]] /\ Added[s] \in Nat /\ Added[w[1]] \in Nat
        BY <1>1, <2>1, <3>1, SearchAssumption DEF LastCounts, OnStreet
      <3>3. ASSUME NEW d \in Dir, time[s][d] # Infinity PROVE Behind(s, d) # p
        <4> SUFFICES ASSUME Behind(s, d) = p PROVE FALSE
          OBVIOUS
        <4>1. <<s, d>> \in Seeds(p)
          BY <1>1, <3>3 DEF Seeds
        <4>2. <<s, d>> \in Entered(p)'
          BY <1>1, <1>2, <4>1 DEF Entered
        <4>3. Added[w[1]] <= Added[s]
          BY <1>4, <4>2
        <4> QED
          BY <3>2, <4>3
      <3>4. value'[p] = value[p]
        BY <1>1, <3>3
      <3>5. ASSUME NEW v \in Entered(p) PROVE Added[w[1]] <= Added[v[1]]
        <4>1. v \in Entered(p)'
          BY <1>1, <1>2 DEF Entered
        <4> QED
          BY <1>4, <4>1
      <3> QED
        BY <3>1, <3>4, <3>5 DEF LastCounts
    <2> QED
      BY <2>2, <2>3
  <1> QED
    BY <1>2, <1>3, <1>4 DEF LastCounts

LEMMA LastStays ==
  ASSUME LastCounts, UNCHANGED <<time, dst, todo>>,
         \A p \in Point : value'[p] <= value[p] /\ value'[p] \in Int /\ value[p] \in Int,
         Typed
  PROVE  LastCounts'
  <1>1. /\ \A p : Entered(p)' = Entered(p) /\ \A w : SeedOf(w)' = SeedOf(w)
        /\ OnStreet(dst.seg)' = OnStreet(dst.seg)
    BY UndistortedStays DEF OnStreet, Entered
  <1>2. ASSUME NEW p \in Point, NEW w \in Entered(p),
               \A v \in Entered(p) : Added[w[1]] <= Added[v[1]]
        PROVE  value'[p] <= SeedOf(w)
    <2>1. value[p] <= SeedOf(w)
      BY <1>2 DEF LastCounts
    <2>2. SeedOf(w) \in 0..Infinity
      <3>1. w[1] \in Segment /\ w[2] \in Dir
        BY DEF Entered, Seeds, OnStreet
      <3> QED
        BY <3>1, SeedCostBounds DEF SeedOf, SeedCost, ValueSeg
    <2>3. value[p] \in Int /\ value'[p] \in Int /\ value'[p] <= value[p]
      OBVIOUS
    <2> QED
      BY <2>1, <2>2, <2>3
  <1> QED
    BY <1>1, <1>2 DEF LastCounts

THEOREM SearchEnters == Spec => []LastCounts
<1>1. Init => LastCounts
  BY DEF Init, LastCounts, Entered, Seeds
<1>2. SInv /\ LastCounts /\ [Next]_vars => LastCounts'
  <2> SUFFICES ASSUME SInv, LastCounts, [Next]_vars PROVE LastCounts'
    OBVIOUS
  <2>1. \A p \in Point : value[p] \in 0..Infinity
    BY DEF SInv, IInv, Typed
  <2>2. ASSUME NEW s \in Segment, Seed(s) PROVE LastCounts'
    BY <2>2, SeedLast
  <2>3. ASSUME NEW e \in heap, Extract(e) PROVE LastCounts'
    <3>1. UNCHANGED <<time, dst, todo>>
      BY <2>3 DEF Extract
    <3>2. ASSUME NEW r \in Point
          PROVE  value'[r] \in 0..Infinity /\ value'[r] <= value[r]
      BY <2>1, <2>3, Rerouted DEF SInv
    <3> QED
      BY <2>1, <3>1, <3>2, LastStays DEF SInv, IInv
  <2>4. CASE UNCHANGED <<time, dst, todo, value>>
    BY <2>1, <2>4, LastStays DEF SInv, IInv
  <2> QED
    BY <2>2, <2>3, <2>4 DEF Next, vars, floodVars, Depart, Follow
<1> QED
  BY <1>1, <1>2, SearchShaped, PTL DEF Spec

(* Where a street is one segment and its clones, no way is cheaper than the*)
(* one a point was given, with distortions or without, although entries of *)
(* overwritten values are left in the heap.  Of the segments on the street *)
(* of the destination, that is so for the one entered last.                *)
THEOREM FloodCheapest == StreetsAreSimple => (Spec => []LeastCost)
<1> SUFFICES ASSUME StreetsAreSimple PROVE Spec => []LeastCost
  OBVIOUS
<1>1. SInv /\ LastCounts => LeastCost
  <2> SUFFICES ASSUME SInv, LastCounts, Flooded PROVE LeastCost
    BY DEF LeastCost
  <2>1. ASSUME NEW r \in Point, NEW w \in EnteredLast(r)
        PROVE  value[r] <= SeedOf(w)
    <3>1. EnteredLast(r) \subseteq Entered(r) /\ Entered(r) = Seeds(r)
      BY DEF EnteredLast, Entered, Flooded
    <3> QED
      BY <3>1 DEF LastCounts, EnteredLast
  <2>2. ASSUME NEW s \in Segment, NEW d \in Dir, time[s][d] # Infinity, ~UTurn(s, d)
        PROVE  value[Behind(s, d)] <= value[Ahead(s, d)] + Cost(s, d)
    <3> DEFINE p == Behind(s, d)
               q == Ahead(s, d)
    <3>1. /\ p \in Point /\ q \in Point /\ Infinity \in Nat
          /\ value[p] \in 0..Infinity /\ value[q] \in 0..Infinity
      BY Ends, SearchAssumption DEF SInv, IInv, Typed
    <3>2. Cost(s, d) \in Nat
      BY SearchAssumption DEF SInv, IInv, Typed, Cost
    <3> HIDE DEF p, q
    <3>3. CASE value[q] = Infinity
      BY <3>1, <3>2, <3>3 DEF p, q
    <3>4. CASE value[q] # Infinity
      <4>1. seg[q] # None /\ seg[q] \in Segment
        BY <3>1, <3>4 DEF SInv, IInv, Ordered, Typed
      <4>2. Item[s] # Item[seg[q]]
        BY <2>2, <4>1 DEF UTurn, StreetsAreSimple, q
      <4>3. Improved(q) = {}
        BY <3>1, <4>1 DEF Flooded, SInv, IInv, Ordered, Final, Pending
      <4>4. Offer(q, s, d) \in Nat /\ Offer(q, s, d) <= value[q] + Cost(s, d)
        <5>1. ValueSegTo(q, s, d) = Cost(s, d)
          BY <2>2, <4>2 DEF ValueSegTo
        <5>2. CASE Cost(s, d) = Infinity
          BY <3>1, <3>2, <5>1, <5>2 DEF Offer
        <5>3. CASE Cost(s, d) # Infinity
          BY <3>1, <3>2, <4>2, <5>1, <5>3 DEF Offer
        <5> QED
          BY <5>2, <5>3
      <4>5. ~(Offer(q, s, d) < value[p])
        <5>1. <<s, d>> \in Ways(p, q)
          BY DEF Ways, p, q
        <5> QED
          BY <3>1, <4>3, <5>1 DEF Improved
      <4> QED
        BY <3>1, <3>2, <4>4, <4>5 DEF p, q
    <3> QED
      BY <3>3, <3>4
  <2> QED
    BY <2>1, <2>2 DEF LeastCost
<1> QED
  BY <1>1, SearchEnters, SearchShaped, PTL

-----------------------------------------------------------------------------
(* What the code adds up along a path is the cost it was chosen for        *)
IsUpto(f, c) ==
  f = [i \in 0..Len(c) |-> IF i = 0 THEN 0 ELSE f[i - 1] + c[i]]

LEMMA UptoExists ==
  ASSUME NEW c \in Seq(Nat)
  PROVE  \E f : IsUpto(f, c)
  <1> DEFINE Ok(n) == \E f : f = [i \in 0..n |-> IF i = 0 THEN 0 ELSE f[i - 1] + c[i]]
             Bad == {n \in Nat : ~Ok(n)}
  <1>1. ASSUME NEW n \in Bad, \A m \in Bad : n <= m PROVE FALSE
    <2>1. CASE n = 0
      <3> DEFINE f == [i \in 0..0 |-> 0]
      <3>1. f = [i \in 0..0 |-> IF i = 0 THEN 0 ELSE f[i - 1] + c[i]]
        OBVIOUS
      <3> HIDE DEF f
      <3> QED
        BY <2>1, <3>1
    <2>2. CASE n # 0
      <3>1. n - 1 \in Nat /\ ~(n <= n - 1) /\ n \in Nat
        BY <2>2
      <3>2. n - 1 \notin Bad
        BY <1>1, <3>1
      <3>3. PICK g : g = [i \in 0..(n - 1) |-> IF i = 0 THEN 0 ELSE g[i - 1] + c[i]]
        BY <3>1, <3>2
      <3> DEFINE f == [i \in 0..n |-> IF i = n THEN g[n - 1] + c[n] ELSE g[i]]
      <3>4. ASSUME NEW i \in 0..n
            PROVE  f[i] = IF i = 0 THEN 0 ELSE f[i - 1] + c[i]
        <4>1. CASE i = n
          <5>1. i - 1 \in 0..n /\ i - 1 # n /\ i - 1 = n - 1
            BY <2>2, <3>1, <4>1
          <5>2. f[i - 1] = g[n - 1] /\ f[i] = g[n - 1] + c[n]
            BY <4>1, <5>1
          <5> QED
            BY <2>2, <4>1, <5>2
        <4>2. CASE i # n
          <5>1. i \in 0..(n - 1) /\ f[i] = g[i]
            BY <3>1, <4>2
          <5>2. g[i] = IF i = 0 THEN 0 ELSE g[i - 1] + c[i]
            BY <3>3, <5>1
          <5>3. i # 0 => i - 1 \in 0..n /\ i - 1 # n
            BY <3>1, <5>1
          <5>4. i # 0 => f[i - 1] = g[i - 1]
            BY <5>3
          <5> QED
            BY <5>1, <5>2, <5>4
        <4> QED
          BY <4>1, <4>2
      <3>5. f = [i \in 0..n |-> f[i]]
        OBVIOUS
      <3> HIDE DEF f
      <3>6. f = [i \in 0..n |-> IF i = 0 THEN 0 ELSE f[i - 1] + c[i]]
        BY <3>4, <3>5
      <3> QED
        BY <3>6
    <2> QED
      BY <2>1, <2>2
  <1> HIDE DEF Ok
  <1>2. Bad = {}
    BY <1>1, Least
  <1>3. Ok(Len(c))
    BY <1>2
  <1> QED
    BY <1>3 DEF Ok, IsUpto

(* What the sums of two sequences have in common that begin alike          *)
LEMMA UptoAgree ==
  ASSUME NEW c \in Seq(Nat), NEW b \in Seq(Nat), NEW f, NEW g,
         IsUpto(f, c), IsUpto(g, b), Len(c) <= Len(b),
         \A i \in 1..Len(c) : c[i] = b[i]
  PROVE  \A i \in 0..Len(c) : f[i] = g[i] /\ f[i] \in Nat
  <1> DEFINE Bad == {n \in 0..Len(c) : ~(f[n] = g[n] /\ f[n] \in Nat)}
  <1>1. ASSUME NEW n \in Bad, \A m \in Bad : n <= m PROVE FALSE
    <2>1. /\ n \in 0..Len(c) /\ n \in 0..Len(b)
          /\ Len(c) \in Nat /\ Len(b) \in Nat
      OBVIOUS
    <2>2. /\ f[n] = IF n = 0 THEN 0 ELSE f[n - 1] + c[n]
          /\ g[n] = IF n = 0 THEN 0 ELSE g[n - 1] + b[n]
      BY <2>1 DEF IsUpto
    <2>3. CASE n = 0
      BY <2>2, <2>3
    <2>4. CASE n # 0
      <3>1. n - 1 \in 0..Len(c) /\ ~(n <= n - 1) /\ n \in 1..Len(c)
        BY <2>1, <2>4
      <3>2. f[n - 1] = g[n - 1] /\ f[n - 1] \in Nat
        BY <1>1, <3>1
      <3>3. c[n] = b[n] /\ c[n] \in Nat
        BY <3>1
      <3>4. f[n] = g[n] /\ f[n] \in Nat
        BY <2>2, <2>4, <3>2, <3>3
      <3> QED
        BY <3>4
    <2> QED
      BY <2>3, <2>4
  <1>2. Bad \subseteq Nat
    OBVIOUS
  <1>3. Bad = {}
    <2> HIDE DEF Bad
    <2> QED
      BY <1>1, <1>2, Least
  <1> QED
    BY <1>3

LEMMA TotalIs ==
  ASSUME NEW c \in Seq(Nat)
  PROVE  \E f : IsUpto(f, c) /\ Total(c) = f[Len(c)]
  <1> DEFINE upto == CHOOSE f : IsUpto(f, c)
  <1>1. IsUpto(upto, c)
    BY UptoExists
  <1>2. Total(c) = upto[Len(c)]
    BY DEF Total, IsUpto
  <1> QED
    BY <1>1, <1>2

(* One number more *)
LEMMA TotalGrows ==
  ASSUME NEW c \in Seq(Nat), NEW x \in Nat
  PROVE  /\ Total(c) \in Nat /\ Total(Append(c, x)) = Total(c) + x
         /\ c = <<>> => Total(c) = 0
  <1> DEFINE b == Append(c, x)
  <1>1. /\ b \in Seq(Nat) /\ Len(c) \in Nat /\ Len(b) = Len(c) + 1
        /\ Len(c) <= Len(b) /\ b[Len(b)] = x
        /\ \A i \in 1..Len(c) : c[i] = b[i]
        /\ c = <<>> => Len(c) = 0
    OBVIOUS
  <1> HIDE DEF b
  <1>2. PICK f : IsUpto(f, c) /\ Total(c) = f[Len(c)]
    BY TotalIs
  <1>3. PICK g : IsUpto(g, b) /\ Total(b) = g[Len(b)]
    BY <1>1, TotalIs
  <1>4. f[Len(c)] = g[Len(c)] /\ f[Len(c)] \in Nat
    BY <1>1, <1>2, <1>3, UptoAgree
  <1>5. g[Len(b)] = g[Len(c)] + x
    <2>1. Len(b) \in 0..Len(b) /\ Len(b) # 0 /\ Len(b) - 1 = Len(c)
      BY <1>1
    <2>2. g[Len(b)] = g[Len(b) - 1] + b[Len(b)]
      BY <1>3, <2>1 DEF IsUpto
    <2> QED
      BY <1>1, <2>1, <2>2
  <1>6. f[0] = 0
    BY <1>1, <1>2 DEF IsUpto
  <1> QED
    BY <1>1, <1>2, <1>3, <1>4, <1>5, <1>6 DEF b

(* The path has not set out on the first segment without its cost          *)
SetOut ==
  walk # None /\ walk.first =>
    /\ estimate = Departure(pos, walk.seg, To(walk.seg, walk.at))
    /\ estimate # Infinity

(* What a segment more adds to the legs *)
LEMMA LegsGrow ==
  ASSUME SInv, Follow,
         NEW s, NEW d, s = walk.seg, d = To(s, walk.at)
  PROVE  /\ s \in Segment /\ d \in Dir /\ Ahead(s, d) \in Point
         /\ Legs \in Seq(Nat)
         /\ path = <<>> =>
              /\ Legs = <<>>
              /\ Part(time[s][d], d, pos.percent) \in Nat
              /\ Legs' = Append(Legs, Part(time[s][d], d, pos.percent))
         /\ path # <<>> =>
              Cost(s, d) \in Nat /\ Legs' = Append(Legs, Cost(s, d))
  <1> DEFINE n == Len(path)
             leg(i) == IF i = 1
                       THEN Part(time[path[1][1]][path[1][2]], path[1][2], pos.percent)
                       ELSE Cost(path[i][1], path[i][2])
  <1>1. /\ walk # None /\ walk \in Step /\ pos \in Place
        /\ path \in Seq(Segment \X Dir) /\ n \in Nat
        /\ UNCHANGED <<time, seg, pos>> /\ path' = Append(path, <<s, d>>)
    BY DEF Follow, floodVars, SInv, Walking, To
  <1>2. s \in Segment /\ d \in Dir /\ Ahead(s, d) \in Point
    BY <1>1, Ends DEF Step, To, Dir
  <1>3. /\ path' \in Seq(Segment \X Dir) /\ Len(path') = n + 1
        /\ (path = <<>>) = (n = 0) /\ path'[n + 1] = <<s, d>>
        /\ \A i \in 1..n : path'[i] = path[i]
    BY <1>1, <1>2, OneMore
  <1>4. ASSUME NEW t \in Segment, NEW c \in Dir
        PROVE  Part(time[t][c], c, pos.percent) \in Nat /\ Cost(t, c) \in Nat
    <2>1. time[t][c] \in Nat
      BY SearchAssumption DEF SInv, IInv, Typed
    <2>2. pos.percent \in 0..100
      BY <1>1, SearchAssumption DEF Place
    <2>3. Part(time[t][c], c, pos.percent) \in 0..time[t][c]
      BY <2>1, <2>2, PartBounds, Zenon
    <2>4. Cost(t, c) \in Nat
      BY <2>1, SearchAssumption DEF Cost
    <2> QED
      BY <2>1, <2>3, <2>4
  <1>5. \A i \in 1..n : leg(i) \in Nat
    <2> SUFFICES ASSUME NEW i \in 1..n PROVE leg(i) \in Nat
      OBVIOUS
    <2>1. 1 \in 1..n /\ path[1] \in Segment \X Dir /\ path[i] \in Segment \X Dir
      BY <1>1
    <2>2. /\ path[1][1] \in Segment /\ path[1][2] \in Dir
          /\ path[i][1] \in Segment /\ path[i][2] \in Dir
      BY <2>1
    <2> QED
      BY <1>4, <2>2
  <1>6. Legs = [i \in 1..n |-> leg(i)]
    BY DEF Legs
  <1>7. Legs \in Seq(Nat) /\ Len(Legs) = n
    <2> HIDE DEF leg, n
    <2>1. Legs \in [1..n -> Nat]
      BY <1>5, <1>6
    <2> QED
      BY <1>1, <2>1
  <1>8. ASSUME NEW x \in Nat,
               x = IF n = 0 THEN Part(time[s][d], d, pos.percent) ELSE Cost(s, d)
        PROVE  Legs' = Append(Legs, x)
    <2>1. Legs' = [i \in 1..(n + 1) |->
                     IF i = 1
                     THEN Part(time[path'[1][1]][path'[1][2]], path'[1][2], pos.percent)
                     ELSE Cost(path'[i][1], path'[i][2])]
      BY <1>1, <1>3 DEF Legs, Cost, Part, Ahead
    <2>2. ASSUME NEW i \in 1..(n + 1)
          PROVE  Legs'[i] = IF i = n + 1 THEN x ELSE Legs[i]
      <3>1. CASE i = n + 1
        <4>1. path'[i][1] = s /\ path'[i][2] = d
          BY <1>3, <3>1
        <4>2. (i = 1) = (n = 0)
          BY <1>1, <3>1
        <4> QED
          BY <1>8, <2>1, <3>1, <4>1, <4>2
      <3>2. CASE i # n + 1
        <4>1. i \in 1..n /\ 1 \in 1..n
          BY <1>1, <3>2
        <4>2. path'[i] = path[i] /\ path'[1] = path[1]
          BY <1>3, <4>1
        <4>3. Legs[i] = leg(i)
          BY <1>6, <4>1
        <4> QED
          BY <2>1, <3>2, <4>2, <4>3
      <3> QED
        BY <3>1, <3>2
    <2>3. Append(Legs, x) = [i \in 1..(n + 1) |-> IF i = n + 1 THEN x ELSE Legs[i]]
      <3> HIDE DEF n
      <3>1. Append(Legs, x) \in [1..(n + 1) -> Nat]
        BY <1>1, <1>7, AppendProperties, LenProperties
      <3>2. /\ Append(Legs, x)[n + 1] = x
            /\ \A i \in 1..n : Append(Legs, x)[i] = Legs[i]
        BY <1>1, <1>7
      <3>3. \A i \in 1..(n + 1) : i \in 1..n \/ i = n + 1
        BY <1>1
      <3> QED
        BY <3>1, <3>2, <3>3
    <2> HIDE DEF n
    <2>4. Legs' = [i \in 1..(n + 1) |-> Legs'[i]]
      BY <2>1
    <2> QED
      BY <2>2, <2>3, <2>4
  <1>9. path = <<>> => Legs = <<>>
    BY <1>3, <1>7
  <1> QED
    BY <1>2, <1>3, <1>4, <1>7, <1>8, <1>9

(* What has been driven, and what is left at the point the path is at, are *)
(* the cost that the path was chosen for: where no distortion is lost on   *)
(* the street of the destination, no segment of the path costs more or     *)
(* less than the flood reckoned.                                           *)
THEOREM PathOnCourse == Spec => []OnCourse
<1>1. Init => OnCourse /\ SetOut
  BY DEF Init, OnCourse, SetOut
<1>2. SInv /\ (Undistorted => Costs) /\ OnCourse /\ SetOut /\ [Next]_vars
        => OnCourse' /\ SetOut'
  <2> SUFFICES ASSUME SInv, Undistorted => Costs, OnCourse, SetOut, [Next]_vars
               PROVE  OnCourse' /\ SetOut'
    OBVIOUS
  <2> UNCHANGED <<time, dst>>
    BY DEF Next, Seed, Extract, Depart, Follow, vars, floodVars
  <2> Undistorted' = Undistorted
    BY UndistortedStays
  <2>1. CASE UNCHANGED vars
    <3>1. Legs' = Legs
      BY <2>1 DEF vars, floodVars, Legs, Cost
    <3> QED
      BY <2>1, <3>1 DEF vars, floodVars, OnCourse, SetOut, Departure, ValueSeg
  <2>2. ASSUME UNCHANGED <<walk, path, pos, estimate>>, todo # {} \/ heap # {}
        PROVE  OnCourse' /\ SetOut'
    BY <2>2 DEF SInv, Walking, Flooded, OnCourse, SetOut
  <2>3. ASSUME NEW c \in Place, Depart(c) PROVE OnCourse' /\ SetOut'
    <3>1. path = <<>> /\ walk = None /\ path' = path /\ pos' = c
          /\ UNCHANGED <<time, value>>
      BY <2>3 DEF Depart, SInv, Walking, floodVars
    <3>2. SetOut'
      <4> SUFFICES ASSUME walk' # None, walk'.first
                   PROVE  /\ estimate' = Departure(c, walk'.seg, To(walk'.seg, walk'.at))
                          /\ estimate' # Infinity
        BY <3>1 DEF SetOut, Departure, ValueSeg
      <4>1. ~UNCHANGED <<walk, estimate>>
        BY <3>1
      <4>2. PICK s \in OnStreet(c.seg), d \in Dir :
              /\ walk' = [at |-> Behind(s, d), seg |-> s, first |-> TRUE]
              /\ estimate' = Best(c, d) /\ Best(c, d) = Departure(c, s, d)
              /\ Best(c, d) # Infinity
        BY <2>3, <4>1, DepartSetsOut DEF SInv, IInv
      <4>3. s \in Segment /\ walk'.seg = s /\ walk'.at = Behind(s, d)
        BY <4>2 DEF OnStreet
      <4> QED
        BY <4>2, <4>3, Ends
    <3> QED
      BY <3>1, <3>2 DEF OnCourse
  <2>4. ASSUME Follow PROVE OnCourse' /\ SetOut'
    <3>1. PICK s, d, q : s = walk.seg /\ d = To(s, walk.at) /\ q = Ahead(s, d)
      OBVIOUS
    <3>2. /\ walk # None /\ UNCHANGED <<time, dst, todo, value, seg, heap, pos, estimate>>
          /\ walk' = IF Arrives(s, d, walk.first) \/ seg[q] = None
                     THEN None ELSE [at |-> q, seg |-> seg[q], first |-> FALSE]
      BY <2>4, <3>1 DEF Follow, floodVars, To
    <3>3. /\ s \in Segment /\ d \in Dir /\ q \in Point
          /\ Legs \in Seq(Nat)
          /\ path = <<>> =>
               /\ Legs = <<>>
               /\ Part(time[s][d], d, pos.percent) \in Nat
               /\ Legs' = Append(Legs, Part(time[s][d], d, pos.percent))
          /\ path # <<>> =>
               Cost(s, d) \in Nat /\ Legs' = Append(Legs, Cost(s, d))
      BY <2>4, <3>1, LegsGrow
    <3>4. ASSUME Undistorted, walk' # None PROVE Total(Legs') + value[q] = estimate
      <4>1. value[q] \in Nat
        BY <3>3, SearchAssumption DEF SInv, IInv, Typed
      <4>2. CASE path = <<>>
        <5>1. walk.first /\ estimate = Departure(pos, s, d) /\ value[q] # Infinity
          BY <3>1, <3>2, <4>2 DEF SInv, Walking, OnTheWay, SetOut
        <5>2. time[s][d] # Infinity
          BY <3>2, <5>1 DEF SetOut, Departure, ValueSeg
        <5>3. estimate = value[q] + Part(time[s][d], d, pos.percent)
          BY <3>1, <5>1, <5>2 DEF Departure, ValueSeg
        <5>4. Total(Legs') = Part(time[s][d], d, pos.percent)
          <6>1. PICK x \in Nat : x = Part(time[s][d], d, pos.percent)
            BY <3>3, <4>2
          <6>2. Legs' = Append(Legs, x) /\ Total(Legs) = 0
            BY <3>3, <4>2, <6>1, TotalGrows
          <6>3. Total(Append(Legs, x)) = Total(Legs) + x
            BY <3>3, TotalGrows
          <6> QED
            BY <6>1, <6>2, <6>3
        <5> QED
          BY <3>3, <4>1, <4>2, <5>3, <5>4
      <4>3. CASE path # <<>>
        <5>1. /\ ~walk.first /\ s = seg[walk.at] /\ walk.at \in Point
              /\ Total(Legs) + value[walk.at] = estimate
          BY <3>1, <3>2, <3>4, <4>3 DEF SInv, Walking, OnTheWay, OnCourse, Step
        <5>2. Item[s] # Item[dst.seg]
          BY <3>2, <3>4, <5>1 DEF Arrives
        <5>3. Derived(walk.at)
          BY <3>3, <3>4, <5>1, <5>2, SearchAssumption DEF Costs, Explained, OnStreet
        <5>4. value[walk.at] = value[q] + Cost(s, d)
          BY <3>1, <5>1, <5>3 DEF Derived
        <5>5. Total(Legs') = Total(Legs) + Cost(s, d) /\ Total(Legs) \in Nat
          BY <3>3, <4>3, TotalGrows
        <5> QED
          BY <3>3, <4>1, <4>3, <5>1, <5>4, <5>5
      <4> QED
        BY <4>2, <4>3
    <3>5. Total(Legs)' = Total(Legs')
      BY DEF Total
    <3>6. walk' # None => walk'.at = q /\ walk'.first = FALSE
      BY <3>2
    <3> QED
      BY <3>2, <3>4, <3>5, <3>6 DEF OnCourse, SetOut
  <2> QED
    BY <2>1, <2>2, <2>3, <2>4 DEF Next, Seed, Extract
<1> QED
  BY <1>1, <1>2, SearchShaped, SearchCosts, PTL DEF Spec
=============================================================================
