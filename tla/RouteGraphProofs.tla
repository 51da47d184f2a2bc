-------------------------- MODULE RouteGraphProofs --------------------------
(***************************************************************************)
(* Proofs about RouteGraph, for all street networks and orders of reading  *)
(* and resolving: points and segments fit together (TypeOK), no street is  *)
(* in the graph twice between the same points (NothingTwice), copies are   *)
(* hardly longer than what they are copied from (CopiesBarelyLonger), and, *)
(* in a plain network, the finished graph connects what the restrictions   *)
(* allow and nothing else (WaysAreAllowedWays).                            *)
(***************************************************************************)
EXTENDS RouteGraph, SequenceTheorems, FiniteSetTheorems, WellFoundedInduction, TLAPS

Graph == [pnt : Seq(Pnt), seg : Seq(Seg)]

Road(s) == s.item \in Street \ Distortion

Twins(s, t) == s.item = t.item /\ s.start = t.start /\ s.end = t.end

NoTwins(g) ==
  \A i \in DOMAIN g.seg, j \in DOMAIN g.seg :
    Road(g.seg[i]) /\ Twins(g.seg[i], g.seg[j]) => i = j

(* How much longer a street may be for its end q: by one when q is a copy  *)
(* of a point with a restriction, or of one that is still to get it        *)
Copied(g, q) == IF ~g.pnt[q].turn /\ Restricted(g.pnt[q].at) THEN 1 ELSE 0

(* Segment s fits into graph g *)
Fits(g, s) ==
  /\ s.start \in DOMAIN g.pnt /\ s.end \in DOMAIN g.pnt
  /\ Road(s) => /\ g.pnt[s.start].at = From[s.item] /\ g.pnt[s.end].at = To[s.item]
                /\ From[s.item] # To[s.item] =>
                     s.len <= Copied(g, s.start) + Copied(g, s.end)

Sound(g) ==
  /\ g \in Graph
  /\ \A k \in DOMAIN g.seg : Fits(g, g.seg[k])
  /\ NoTwins(g)
  /\ \A q \in DOMAIN g.pnt : g.pnt[q].turn => Restricted(g.pnt[q].at)

(* While items are read there is one point for a coordinate and no copy *)
Fresh(g) ==
  /\ \A p \in DOMAIN g.pnt, q \in DOMAIN g.pnt : g.pnt[p].at = g.pnt[q].at => p = q
  /\ \A k \in DOMAIN g.seg : g.seg[k].len = 0

Inv ==
  /\ unread \subseteq Street \cup Restriction /\ again \subseteq Street \cup Restriction
  /\ ready \in BOOLEAN
  /\ Sound(graph)
  /\ unread \cup again # {} => todo = {} /\ ~ready
  /\ ready => todo = {}
  /\ todo = {} /\ ~ready => Fresh(graph)
  /\ todo \subseteq ToResolve

(* h is g with more points and segments *)
Extends(g, h) ==
  /\ DOMAIN g.pnt \subseteq DOMAIN h.pnt /\ DOMAIN g.seg \subseteq DOMAIN h.seg
  /\ \A q \in DOMAIN g.pnt : h.pnt[q] = g.pnt[q]
  /\ \A k \in DOMAIN g.seg : h.seg[k] = g.seg[k]

(* Restriction r stands in g: its turn leads over the marked point *)
Stands(g, r) ==
  \E k \in DOMAIN g.seg, l \in DOMAIN g.seg :
    LET u == g.seg[k]
        v == g.seg[l]
    IN /\ u.item = r /\ v.item = r
       /\ u.end = v.start /\ g.pnt[u.end].turn
       /\ g.pnt[u.start].at = Via[r][1] /\ g.pnt[u.end].at = Via[r][2]
       /\ g.pnt[v.end].at = Via[r][3]

(* Segment s of a restriction lies between its coordinates *)
Lies(g, s) ==
  s.item \in Restriction =>
    \E n \in {1, 2} : /\ g.pnt[s.start].at = Via[s.item][n]
                      /\ g.pnt[s.end].at = Via[s.item][n + 1]

(* h is g with item i added: its segments are as the maps say, and stand   *)
(* for it                                                                  *)
ItemAdded(g, h, i) ==
  /\ Sound(h) /\ Fresh(h)
  /\ DOMAIN g.pnt \subseteq DOMAIN h.pnt
  /\ \A q \in DOMAIN g.pnt : h.pnt[q].at = g.pnt[q].at /\ (g.pnt[q].turn => h.pnt[q].turn)
  /\ DOMAIN g.seg \subseteq DOMAIN h.seg /\ \A k \in DOMAIN g.seg : h.seg[k] = g.seg[k]
  /\ \A k \in DOMAIN h.seg \ DOMAIN g.seg :
       /\ h.seg[k].item = i /\ Lies(h, h.seg[k])
       /\ Road(h.seg[k]) => h.seg[k].flags = Flags[i]
  /\ i \in Street \ Distortion => \E k \in DOMAIN h.seg : h.seg[k].item = i
  /\ i \in Restriction => Stands(h, i)

-----------------------------------------------------------------------------
(* Loops.  A set of numbers has a least one. *)
LEMMA LeastOf ==
  ASSUME NEW S \in SUBSET Nat, S # {}
  PROVE  \E n \in S : \A m \in S : n <= m
<1> DEFINE R == OpToRel(<, Nat)
<1>1. IsWellFoundedOn(R, Nat)
  BY NatLessThanWellFounded
<1>2. \A m, n \in Nat : m < n => <<m, n>> \in R
  BY DEF OpToRel
<1> HIDE DEF R
<1>3. PICK n \in S : \A m \in S : <<m, n>> \notin R
  BY <1>1, WFMin
<1>4. ASSUME NEW m \in S PROVE n <= m
  <2>1. m \in Nat /\ n \in Nat /\ ~(m < n)
    BY <1>2, <1>3
  <2> QED BY <2>1
<1> QED BY <1>4

(* u holds the results of n rounds of a loop, the k-th of which applies    *)
(* g[k], from d on                                                         *)
Runs(u, n, S, d, g) ==
  /\ u \in [0..n -> S] /\ u[0] = d
  /\ \A k \in 1..n : u[k] = g[k][u[k - 1]]

(* Every loop has them *)
LEMMA Iterated ==
  ASSUME NEW n \in Nat, NEW S, NEW d \in S, NEW g \in [1..n -> [S -> S]]
  PROVE  \E u : Runs(u, n, S, d, g)
<1> DEFINE Bad == {m \in 0..n : ~\E u : Runs(u, m, S, d, g)}
<1>1. ASSUME NEW m \in Bad, \A k \in Bad : m <= k PROVE FALSE
  <2>1. CASE m = 0
    <3>1. Runs([k \in 0..0 |-> d], 0, S, d, g)
      BY DEF Runs
    <3> QED BY <1>1, <2>1, <3>1
  <2>2. CASE m # 0
    <3>1. m \in 1..n /\ m - 1 \in 0..n /\ ~(m <= m - 1)
      BY <2>2
    <3>2. m - 1 \notin Bad
      BY <1>1, <3>1
    <3>3. PICK u : Runs(u, m - 1, S, d, g)
      BY <3>1, <3>2
    <3> DEFINE w == [k \in 0..m |-> IF k = m THEN g[m][u[m - 1]] ELSE u[k]]
    <3>4. u[m - 1] \in S /\ g[m] \in [S -> S]
      BY <3>1, <3>3 DEF Runs
    <3>5. g[m][u[m - 1]] \in S
      BY <3>4
    <3>6. w \in [0..m -> S]
      BY <3>1, <3>3, <3>5 DEF Runs
    <3>7. w[0] = d
      BY <3>1, <3>3 DEF Runs
    <3>8. ASSUME NEW k \in 1..m PROVE w[k] = g[k][w[k - 1]]
      <4>1. CASE k = m
        BY <3>1, <4>1
      <4>2. CASE k # m
        <5>1. k \in 1..(m - 1) /\ k - 1 # m /\ k - 1 \in 0..m /\ k \in 0..m
          BY <3>1, <4>2
        <5> QED BY <3>3, <4>2, <5>1 DEF Runs
      <4> QED BY <4>1, <4>2
    <3>9. Runs(w, m, S, d, g)
      BY <3>6, <3>7, <3>8 DEF Runs
    <3> QED BY <3>9
  <2> QED BY <2>1, <2>2
<1>2. Bad \in SUBSET Nat
  OBVIOUS
<1>3. Bad = {}
  <2> HIDE DEF Bad
  <2> QED BY <1>1, <1>2, LeastOf
<1>4. \E u : Runs(u, n, S, d, g)
  <2>1. n \in 0..n
    OBVIOUS
  <2> QED BY <1>3, <2>1
<1> QED BY <1>4

(* What holds before a loop and is kept by its rounds holds after it *)
LEMMA Looped ==
  ASSUME NEW n \in Nat, NEW r, NEW K, r[0] \in K[0],
         \A k \in 1..n : r[k - 1] \in K[k - 1] => r[k] \in K[k]
  PROVE  r[n] \in K[n]
<1> DEFINE Bad == {k \in 0..n : r[k] \notin K[k]}
<1>1. ASSUME NEW k \in Bad, \A m \in Bad : k <= m PROVE FALSE
  <2>1. k \in 1..n /\ k - 1 \in 0..n /\ ~(k <= k - 1)
    <3>1. k # 0
      OBVIOUS
    <3> QED BY <3>1
  <2>2. r[k - 1] \in K[k - 1]
    BY <1>1, <2>1
  <2> QED BY <2>1, <2>2
<1>2. Bad \in SUBSET Nat
  OBVIOUS
<1>3. Bad = {}
  <2> HIDE DEF Bad
  <2> QED BY <1>1, <1>2, LeastOf
<1> QED BY <1>3

-----------------------------------------------------------------------------
(* Graphs *)
LEMMA FieldsTyped ==
  ASSUME NEW g \in Graph
  PROVE  /\ g.pnt \in Seq(Pnt) /\ g.seg \in Seq(Seg) /\ g = [pnt |-> g.pnt, seg |-> g.seg]
         /\ \A p \in DOMAIN g.pnt : g.pnt[p] \in Pnt
         /\ \A k \in DOMAIN g.seg : g.seg[k] \in Seg
BY DEF Graph

LEMMA NewPointIs ==
  ASSUME NEW g \in Graph, NEW c \in Coord
  PROVE  /\ NewPoint(g, c) \in Graph /\ NewPoint(g, c).seg = g.seg
         /\ DOMAIN NewPoint(g, c).pnt = DOMAIN g.pnt \cup {Len(g.pnt) + 1}
         /\ Len(g.pnt) + 1 \notin DOMAIN g.pnt
         /\ Len(NewPoint(g, c).pnt) = Len(g.pnt) + 1
         /\ \A p \in DOMAIN g.pnt : NewPoint(g, c).pnt[p] = g.pnt[p]
         /\ NewPoint(g, c).pnt[Len(g.pnt) + 1] = [at |-> c, turn |-> FALSE, distorted |-> FALSE]
<1> DEFINE q == [at |-> c, turn |-> FALSE, distorted |-> FALSE]
<1>1. /\ g.pnt \in Seq(Pnt) /\ g.seg \in Seq(Seg) /\ q \in Pnt
      /\ g = [pnt |-> g.pnt, seg |-> g.seg]
  BY FieldsTyped DEF Pnt
<1>2. NewPoint(g, c).pnt = Append(g.pnt, q) /\ NewPoint(g, c).seg = g.seg
      /\ NewPoint(g, c) = [pnt |-> Append(g.pnt, q), seg |-> g.seg]
  <2>1. NewPoint(g, c) = [g EXCEPT !.pnt = Append(@, q)]
    BY DEF NewPoint
  <2> HIDE DEF q
  <2> QED BY <1>1, <2>1
<1> HIDE DEF q
<1>3. Append(g.pnt, q) \in Seq(Pnt) /\ Len(Append(g.pnt, q)) = Len(g.pnt) + 1
      /\ DOMAIN Append(g.pnt, q) = 1..(Len(g.pnt) + 1) /\ DOMAIN g.pnt = 1..Len(g.pnt)
      /\ Len(g.pnt) \in Nat
  BY <1>1
<1>4. /\ \A p \in DOMAIN g.pnt : Append(g.pnt, q)[p] = g.pnt[p]
      /\ Append(g.pnt, q)[Len(g.pnt) + 1] = q
  BY <1>1
<1>5. NewPoint(g, c) \in Graph
  BY <1>1, <1>2, <1>3 DEF Graph
<1>6. 1..(Len(g.pnt) + 1) = (1..Len(g.pnt)) \cup {Len(g.pnt) + 1} /\ Len(g.pnt) + 1 \notin 1..Len(g.pnt)
  BY <1>3
<1> QED BY <1>2, <1>3, <1>4, <1>5, <1>6 DEF q

LEMMA AddSegmentIs ==
  ASSUME NEW g \in Graph, NEW s \in Seg
  PROVE  /\ AddSegment(g, s) \in Graph /\ AddSegment(g, s).pnt = g.pnt
         /\ DOMAIN AddSegment(g, s).seg = DOMAIN g.seg \cup {Len(g.seg) + 1}
         /\ Len(g.seg) + 1 \notin DOMAIN g.seg
         /\ \A k \in DOMAIN g.seg : AddSegment(g, s).seg[k] = g.seg[k]
         /\ AddSegment(g, s).seg[Len(g.seg) + 1] = s
<1>1. g.pnt \in Seq(Pnt) /\ g.seg \in Seq(Seg) /\ g = [pnt |-> g.pnt, seg |-> g.seg]
  BY FieldsTyped
<1>2. AddSegment(g, s).seg = Append(g.seg, s) /\ AddSegment(g, s).pnt = g.pnt
      /\ AddSegment(g, s) = [pnt |-> g.pnt, seg |-> Append(g.seg, s)]
  BY <1>1 DEF AddSegment
<1>3. Append(g.seg, s) \in Seq(Seg)
      /\ DOMAIN Append(g.seg, s) = 1..(Len(g.seg) + 1) /\ DOMAIN g.seg = 1..Len(g.seg)
      /\ Len(g.seg) \in Nat
  BY <1>1
<1>4. /\ \A k \in DOMAIN g.seg : Append(g.seg, s)[k] = g.seg[k]
      /\ Append(g.seg, s)[Len(g.seg) + 1] = s
  BY <1>1
<1>5. AddSegment(g, s) \in Graph
  BY <1>1, <1>2, <1>3 DEF Graph
<1>6. 1..(Len(g.seg) + 1) = (1..Len(g.seg)) \cup {Len(g.seg) + 1} /\ Len(g.seg) + 1 \notin 1..Len(g.seg)
  BY <1>3
<1> QED BY <1>2, <1>3, <1>4, <1>5, <1>6

(* A segment goes on fitting when points are added *)
LEMMA FitsOn ==
  ASSUME NEW g, NEW h, NEW s, Fits(g, s), DOMAIN g.pnt \subseteq DOMAIN h.pnt,
         \A q \in DOMAIN g.pnt : h.pnt[q] = g.pnt[q]
  PROVE  Fits(h, s)
<1>1. s.start \in DOMAIN g.pnt /\ s.end \in DOMAIN g.pnt
  BY DEF Fits
<1>2. h.pnt[s.start] = g.pnt[s.start] /\ h.pnt[s.end] = g.pnt[s.end]
      /\ s.start \in DOMAIN h.pnt /\ s.end \in DOMAIN h.pnt
  BY <1>1
<1>3. Copied(h, s.start) = Copied(g, s.start) /\ Copied(h, s.end) = Copied(g, s.end)
  BY <1>2 DEF Copied
<1> QED BY <1>2, <1>3 DEF Fits

LEMMA ExtendsOn ==
  ASSUME NEW f, NEW g, NEW h, Extends(f, g), Extends(g, h)
  PROVE  Extends(f, h)
BY DEF Extends

(* A new point is nobody's end *)
LEMMA NewPointSound ==
  ASSUME NEW g, Sound(g), NEW c \in Coord
  PROVE  Sound(NewPoint(g, c)) /\ Extends(g, NewPoint(g, c))
<1> DEFINE h == NewPoint(g, c)
<1>1. g \in Graph
  BY DEF Sound
<1>2. /\ h \in Graph /\ h.seg = g.seg /\ DOMAIN h.pnt = DOMAIN g.pnt \cup {Len(g.pnt) + 1}
      /\ \A p \in DOMAIN g.pnt : h.pnt[p] = g.pnt[p]
      /\ h.pnt[Len(g.pnt) + 1] = [at |-> c, turn |-> FALSE, distorted |-> FALSE]
  BY <1>1, NewPointIs
<1> HIDE DEF h
<1>3. \A k \in DOMAIN h.seg : Fits(h, h.seg[k])
  <2> TAKE k \in DOMAIN h.seg
  <2>1. Fits(g, h.seg[k])
    BY <1>2 DEF Sound
  <2> QED BY <1>2, <2>1, FitsOn
<1>4. NoTwins(h)
  BY <1>2 DEF Sound, NoTwins
<1>5. \A q \in DOMAIN h.pnt : h.pnt[q].turn => Restricted(h.pnt[q].at)
  BY <1>2 DEF Sound
<1>6. Sound(h) /\ Extends(g, h)
  BY <1>2, <1>3, <1>4, <1>5 DEF Sound, Extends
<1> QED BY <1>6 DEF h

(* What a segment needs to be added *)
LEMMA AddSegmentSound ==
  ASSUME NEW g, Sound(g), NEW s \in Seg, Fits(g, s),
         Road(s) => \A k \in DOMAIN g.seg : ~Twins(g.seg[k], s)
  PROVE  Sound(AddSegment(g, s)) /\ Extends(g, AddSegment(g, s))
<1> DEFINE h == AddSegment(g, s)
           n == Len(g.seg) + 1
<1>1. g \in Graph
  BY DEF Sound
<1>2. /\ h \in Graph /\ h.pnt = g.pnt /\ DOMAIN h.seg = DOMAIN g.seg \cup {n}
      /\ n \notin DOMAIN g.seg /\ \A k \in DOMAIN g.seg : h.seg[k] = g.seg[k]
      /\ h.seg[n] = s
  BY <1>1, AddSegmentIs
<1> HIDE DEF h, n
<1>3. \A k \in DOMAIN h.seg : Fits(h, h.seg[k])
  <2> TAKE k \in DOMAIN h.seg
  <2>1. Fits(g, h.seg[k])
    BY <1>2 DEF Sound
  <2> QED BY <1>2, <2>1, FitsOn
<1>4. NoTwins(h)
  <2> SUFFICES ASSUME NEW i \in DOMAIN h.seg, NEW j \in DOMAIN h.seg,
                      Road(h.seg[i]), Twins(h.seg[i], h.seg[j])
               PROVE  i = j
    BY DEF NoTwins
  <2>1. CASE i \in DOMAIN g.seg /\ j \in DOMAIN g.seg
    BY <1>2, <2>1 DEF Sound, NoTwins
  <2>2. CASE i = n /\ j \in DOMAIN g.seg
    BY <1>2, <2>2 DEF Twins
  <2>3. CASE i \in DOMAIN g.seg /\ j = n
    BY <1>2, <2>3 DEF Twins, Road
  <2> QED BY <1>2, <2>1, <2>2, <2>3
<1>5. Sound(h) /\ Extends(g, h)
  BY <1>2, <1>3, <1>4 DEF Sound, Extends
<1> QED BY <1>5 DEF h

-----------------------------------------------------------------------------
(* Copies *)
Copy(s, d, pn, flag) ==
  [start |-> IF d = 1 THEN pn ELSE s.start, end |-> IF d = 1 THEN s.end ELSE pn,
   item |-> s.item, flags |-> s.flags \cup {flag}, len |-> s.len + 1]

(* What a copy c of segment s, with pn for the point behind it, is *)
IsCopy(c, s, d, pn, flag) ==
  /\ c \in Seg /\ c.item = s.item
  /\ Behind(c, d) = pn /\ Ahead(c, d) = Ahead(s, d)
  /\ c.flags = s.flags \cup {flag} /\ c.len = s.len + 1

LEMMA CopyIs ==
  ASSUME NEW s \in Seg, NEW d \in {1, -1}, NEW pn \in Nat,
         NEW flag \in {"AF_ONEWAY", "AF_ONEWAYREV"}
  PROVE  IsCopy(Copy(s, d, pn, flag), s, d, pn, flag)
<1> DEFINE c == Copy(s, d, pn, flag)
<1>1. /\ s.start \in Nat /\ s.end \in Nat /\ s.item \in Street \cup Restriction
      /\ s.flags \subseteq {"AF_ONEWAY", "AF_ONEWAYREV"} /\ s.len \in Nat
  BY DEF Seg
<1>2. c \in Seg
  BY <1>1 DEF Copy, Seg
<1>3. /\ c.item = s.item /\ c.flags = s.flags \cup {flag} /\ c.len = s.len + 1
      /\ Behind(c, d) = pn /\ Ahead(c, d) = Ahead(s, d)
  BY DEF Copy, Behind, Ahead
<1> QED BY <1>2, <1>3 DEF IsCopy

(* pn is a copy of the restricted point p *)
CopyPoint(g, p, pn) ==
  /\ p \in DOMAIN g.pnt /\ pn \in DOMAIN g.pnt
  /\ g.pnt[p].turn /\ ~g.pnt[pn].turn /\ g.pnt[pn].at = g.pnt[p].at

(* A copy of a segment that fits does, too: a copied end makes it longer *)
(* by one, and was no copied end before                                  *)
LEMMA CopyFits ==
  ASSUME NEW g, Sound(g), NEW s \in Seg, Fits(g, s), NEW d \in {1, -1}, NEW p, NEW pn,
         CopyPoint(g, p, pn), Behind(s, d) = p,
         NEW flag \in {"AF_ONEWAY", "AF_ONEWAYREV"}
  PROVE  Fits(g, Copy(s, d, pn, flag))
<1> DEFINE c == Copy(s, d, pn, flag)
<1>1. g.pnt \in Seq(Pnt)
  BY FieldsTyped DEF Sound
<1>2. pn \in Nat
  BY <1>1 DEF CopyPoint
<1>x. IsCopy(c, s, d, pn, flag)
  BY <1>2, CopyIs
<1> HIDE DEF c
<1>3. /\ c.item = s.item /\ Behind(c, d) = pn /\ Ahead(c, d) = Ahead(s, d)
      /\ c.len = s.len + 1
  BY <1>x DEF IsCopy
<1>4. Restricted(g.pnt[p].at) /\ Copied(g, p) = 0 /\ Copied(g, pn) = 1
  BY DEF Sound, CopyPoint, Copied
<1>5. s.len \in Nat /\ Copied(g, s.start) \in {0, 1} /\ Copied(g, s.end) \in {0, 1}
  BY DEF Seg, Copied
<1>6. Copied(g, c.start) + Copied(g, c.end) = Copied(g, s.start) + Copied(g, s.end) + 1
  <2>1. CASE d = 1
    <3>1. s.start = p /\ c.start = pn /\ c.end = s.end
      BY <1>3, <2>1 DEF Behind, Ahead
    <3> QED BY <1>4, <1>5, <3>1
  <2>2. CASE d = -1
    <3>1. s.end = p /\ c.end = pn /\ c.start = s.start
      BY <1>3, <2>2 DEF Behind, Ahead
    <3> QED BY <1>4, <1>5, <3>1
  <2> QED BY <2>1, <2>2
<1>7. /\ c.start \in DOMAIN g.pnt /\ g.pnt[c.start].at = g.pnt[s.start].at
      /\ c.end \in DOMAIN g.pnt /\ g.pnt[c.end].at = g.pnt[s.end].at
  BY <1>3 DEF Fits, CopyPoint, Behind, Ahead
<1>8. Road(c) = Road(s)
  BY <1>3 DEF Road
<1>9. s.len <= Copied(g, s.start) + Copied(g, s.end)
        => c.len <= Copied(g, c.start) + Copied(g, c.end)
  <2> DEFINE x == Copied(g, s.start)  y == Copied(g, s.end)
  <2>1. x \in {0, 1} /\ y \in {0, 1}
    BY <1>5
  <2> HIDE DEF x, y
  <2>2. s.len <= x + y => s.len + 1 <= x + y + 1
    BY <1>5, <2>1
  <2> QED BY <1>3, <1>6, <2>2 DEF x, y
<1>10. Fits(g, c)
  BY <1>3, <1>7, <1>8, <1>9 DEF Fits
<1> QED BY <1>10 DEF c

-----------------------------------------------------------------------------
(* Going on from a copy.  Whoever comes to p over s may go on over t. *)
Takes(g, p, s, d, t) ==
  /\ Behind(t, d) = p /\ t # s /\ IsWay(t) /\ OneWayFlag(-d) \notin t.flags
  /\ IsTurnAllowed(g, p, s, t)

(* h is g with copies of what one takes among its segments from lo on *)
Left(g, h, p, s, pn, d, lo) ==
  /\ Sound(h) /\ h.pnt = g.pnt /\ Extends(g, h)
  /\ \A j \in DOMAIN h.seg \ DOMAIN g.seg : \E i \in DOMAIN g.seg :
       i >= lo /\ Takes(g, p, s, d, g.seg[i]) /\ h.seg[j] = Copy(g.seg[i], d, pn, OneWayFlag(d))
  /\ \A i \in DOMAIN g.seg : i >= lo /\ Takes(g, p, s, d, g.seg[i]) =>
       \E j \in DOMAIN h.seg : h.seg[j] = Copy(g.seg[i], d, pn, OneWayFlag(d))

(* What the loop finds: only segments of s end at the copy *)
Leaves(g, p, s, pn, d) ==
  /\ Sound(g) /\ CopyPoint(g, p, pn)
  /\ s.start \in DOMAIN g.pnt /\ s.end \in DOMAIN g.pnt
  /\ \A k \in DOMAIN g.seg : Behind(g.seg[k], d) = pn => g.seg[k].item = s.item

LEMMA FlagsAre ==
  ASSUME NEW d \in {1, -1}
  PROVE  OneWayFlag(d) \in {"AF_ONEWAY", "AF_ONEWAYREV"} /\ -d \in {1, -1}
BY DEF OneWayFlag

(* Copies of streets change no turn *)
LEMMA TurnsStay ==
  ASSUME NEW g, NEW h, NEW p, NEW s, NEW t, g \in Graph, h \in Graph, Extends(g, h),
         h.pnt = g.pnt,
         \A j \in DOMAIN h.seg \ DOMAIN g.seg : h.seg[j].item \notin Restriction
  PROVE  IsTurnAllowed(h, p, s, t) = IsTurnAllowed(g, p, s, t)
<1>1. /\ \A q, x : Opposite(h, q, x) = Opposite(g, q, x)
      /\ h.pnt = g.pnt
  BY DEF Opposite
<1>2. \A u : u.item \in Restriction => (u \in ToSet(h.seg) <=> u \in ToSet(g.seg))
  BY DEF ToSet, Extends
<1>3. \A u : u.item \in Restriction =>
        (u \in Ending(h, p) <=> u \in Ending(g, p)) /\ (u \in Starting(h, p) <=> u \in Starting(g, p))
  BY <1>2 DEF Ending, Starting
<1> DEFINE C(f, u, v) == /\ u.item \in Restriction
                         /\ f.pnt[u.start].at = Opposite(f, p, s)
                         /\ v.item = u.item
           D(f, u, v) == ~Forbids(u.item, Opposite(f, p, t), f.pnt[v.end].at)
<1>4. \A u, v : C(h, u, v) = C(g, u, v) /\ D(h, u, v) = D(g, u, v)
  BY <1>1
<1>5. \A u, v : C(g, u, v) => u.item \in Restriction /\ v.item \in Restriction
  OBVIOUS
<1>6. /\ IsTurnAllowed(h, p, s, t) <=>
           s.item # t.item /\ \A u \in Ending(h, p), v \in Starting(h, p) : C(h, u, v) => D(h, u, v)
      /\ IsTurnAllowed(g, p, s, t) <=>
           s.item # t.item /\ \A u \in Ending(g, p), v \in Starting(g, p) : C(g, u, v) => D(g, u, v)
  BY DEF IsTurnAllowed
<1> HIDE DEF C, D
<1>7. (\A u \in Ending(h, p), v \in Starting(h, p) : C(h, u, v) => D(h, u, v))
      <=> (\A u \in Ending(g, p), v \in Starting(g, p) : C(g, u, v) => D(g, u, v))
  BY <1>3, <1>4, <1>5
<1>8. IsTurnAllowed(h, p, s, t) \in BOOLEAN /\ IsTurnAllowed(g, p, s, t) \in BOOLEAN
  BY DEF IsTurnAllowed
<1> QED BY <1>6, <1>7, <1>8

(* One round *)
LEMMA LeaveRound ==
  ASSUME NEW g, NEW h, NEW p, NEW s \in Seg, NEW pn, NEW d \in {1, -1}, Leaves(g, p, s, pn, d),
         NEW i \in DOMAIN g.seg, NEW lo, Left(g, h, p, s, pn, d, lo), lo = i + 1
  PROVE  Left(g, IF /\ Behind(g.seg[i], d) = p /\ g.seg[i] # s /\ IsWay(g.seg[i])
                    /\ OneWayFlag(-d) \notin g.seg[i].flags /\ IsTurnAllowed(h, p, s, g.seg[i])
                 THEN Clone(h, g.seg[i], d, pn, OneWayFlag(d)) ELSE h, p, s, pn, d, i)
<1> DEFINE t == g.seg[i]
           flag == OneWayFlag(d)
           c == Copy(t, d, pn, flag)
           D(k) == Copy(g.seg[k], d, pn, flag)
           f == AddSegment(h, c)
<1>1. /\ g \in Graph /\ h \in Graph /\ t \in Seg /\ Fits(g, t) /\ h.pnt = g.pnt /\ Extends(g, h)
      /\ DOMAIN g.seg \subseteq Nat /\ i \in Nat
  <2>1. g \in Graph /\ h \in Graph /\ h.pnt = g.pnt /\ Extends(g, h) /\ Fits(g, t)
    BY DEF Leaves, Left, Sound
  <2>2. g.seg \in Seq(Seg)
    BY <2>1, FieldsTyped
  <2> QED BY <2>1, <2>2
<1>2. pn \in Nat /\ flag \in {"AF_ONEWAY", "AF_ONEWAYREV"}
  <2>1. g.pnt \in Seq(Pnt) /\ pn \in DOMAIN g.pnt
    BY <1>1, FieldsTyped DEF Leaves, CopyPoint
  <2> QED BY <2>1, FlagsAre
<1>3. Clone(h, t, d, pn, flag) = f
  BY DEF Clone, Copy
<1>4. \A k \in DOMAIN g.seg : IsCopy(D(k), g.seg[k], d, pn, flag)
  BY <1>1, <1>2, CopyIs, FieldsTyped
<1>5. \A k \in DOMAIN g.seg : k >= i <=> k = i \/ k >= lo
  BY <1>1
<1>6. \A j \in DOMAIN h.seg \ DOMAIN g.seg : \E k \in DOMAIN g.seg :
        k >= lo /\ Takes(g, p, s, d, g.seg[k]) /\ h.seg[j] = D(k)
  BY DEF Left
<1>7. \A k \in DOMAIN g.seg : k >= lo /\ Takes(g, p, s, d, g.seg[k]) =>
        \E j \in DOMAIN h.seg : h.seg[j] = D(k)
  BY DEF Left
<1>8. IsTurnAllowed(h, p, s, t) = IsTurnAllowed(g, p, s, t)
  <2>1. \A j \in DOMAIN h.seg \ DOMAIN g.seg : h.seg[j].item \notin Restriction
    BY <1>4, <1>6 DEF IsCopy, Takes, IsWay
  <2> QED BY <1>1, <2>1, TurnsStay
<1> HIDE DEF t, flag, c, D
<1>9. CASE ~Takes(g, p, s, d, t)
  <2>1. Left(g, h, p, s, pn, d, i)
    BY <1>5, <1>6, <1>9 DEF Left, D, flag, t
  <2> QED BY <1>8, <1>9, <2>1 DEF Takes, t, flag
<1>10. CASE Takes(g, p, s, d, t)
  <2>1. Sound(h) /\ CopyPoint(h, p, pn) /\ Fits(h, t) /\ Behind(t, d) = p
    BY <1>1, <1>10, FitsOn DEF Left, Leaves, CopyPoint, Takes
  <2>2. IsCopy(c, t, d, pn, flag) /\ Fits(h, c)
    BY <1>1, <1>2, <1>4, <2>1, CopyFits DEF c, D, t
  <2>3. ASSUME Road(c), NEW j \in DOMAIN h.seg, Twins(h.seg[j], c) PROVE FALSE
    <3>1. Road(t) /\ h.seg[j].item = t.item /\ Behind(h.seg[j], d) = pn
          /\ Ahead(h.seg[j], d) = Ahead(t, d)
      BY <2>2, <2>3 DEF Twins, IsCopy, Behind, Ahead, Road
    <3>2. s.item # t.item
      BY <1>10 DEF Takes, IsTurnAllowed
    <3>3. j \notin DOMAIN g.seg
      BY <1>1, <3>1, <3>2 DEF Leaves, Extends
    <3>4. PICK k \in DOMAIN g.seg : k >= lo /\ Takes(g, p, s, d, g.seg[k]) /\ h.seg[j] = D(k)
      BY <1>6, <3>3
    <3>5. IsCopy(D(k), g.seg[k], d, pn, flag)
      BY <1>4
    <3>6. g.seg[k].item = t.item /\ Ahead(g.seg[k], d) = Ahead(t, d)
          /\ Behind(g.seg[k], d) = Behind(t, d)
      BY <1>10, <3>1, <3>4, <3>5 DEF IsCopy, Takes
    <3>7. Twins(t, g.seg[k])
      BY <3>6 DEF Twins, Behind, Ahead
    <3>8. i = k
      BY <3>1, <3>7 DEF Leaves, Sound, NoTwins, t
    <3> QED BY <1>1, <3>4, <3>8
  <2>4. Sound(f) /\ Extends(h, f)
    BY <2>1, <2>2, <2>3, AddSegmentSound DEF IsCopy
  <2>5. /\ f.pnt = h.pnt /\ DOMAIN f.seg = DOMAIN h.seg \cup {Len(h.seg) + 1}
        /\ \A j \in DOMAIN h.seg : f.seg[j] = h.seg[j]
        /\ f.seg[Len(h.seg) + 1] = c
    BY <1>1, <2>2, AddSegmentIs DEF IsCopy
  <2> HIDE DEF f
  <2>6. ASSUME NEW j \in DOMAIN f.seg \ DOMAIN g.seg
        PROVE  \E k \in DOMAIN g.seg : k >= i /\ Takes(g, p, s, d, g.seg[k]) /\ f.seg[j] = D(k)
    <3>1. CASE j \in DOMAIN h.seg
      BY <1>5, <1>6, <2>5, <3>1
    <3>2. CASE j = Len(h.seg) + 1
      <4>1. i >= i /\ Takes(g, p, s, d, g.seg[i]) /\ f.seg[j] = D(i)
        BY <1>1, <1>10, <2>5, <3>2 DEF c, D, t
      <4> QED BY <4>1
    <3> QED BY <2>5, <3>1, <3>2
  <2>7. ASSUME NEW k \in DOMAIN g.seg, k >= i, Takes(g, p, s, d, g.seg[k])
        PROVE  \E j \in DOMAIN f.seg : f.seg[j] = D(k)
    <3>1. CASE k = i
      <4>1. f.seg[Len(h.seg) + 1] = D(k)
        BY <2>5, <3>1 DEF c, D, t
      <4> QED BY <2>5, <4>1
    <3>2. CASE k >= lo
      BY <1>7, <2>5, <2>7, <3>2
    <3> QED BY <1>5, <2>7, <3>1, <3>2
  <2>8. Left(g, f, p, s, pn, d, i)
    BY <1>1, <2>4, <2>5, <2>6, <2>7, ExtendsOn DEF Left, D, flag
  <2> QED BY <1>3, <1>8, <1>10, <2>8 DEF Takes, t, flag
<1> QED BY <1>9, <1>10

LEMMA LeaveAll ==
  ASSUME NEW g, NEW p, NEW s \in Seg, NEW pn, NEW d \in {1, -1}, Leaves(g, p, s, pn, d)
  PROVE  Left(g, Leave(g, p, s, pn, d), p, s, pn, d, 1)
<1> DEFINE n == Len(g.seg)
           Do(h, t) == IF /\ Behind(t, d) = p /\ t # s /\ IsWay(t)
                          /\ OneWayFlag(-d) \notin t.flags /\ IsTurnAllowed(h, p, s, t)
                       THEN Clone(h, t, d, pn, OneWayFlag(d)) ELSE h
           T(k) == g.seg[n + 1 - k]
           S == {h \in Graph : h.pnt = g.pnt}
           f == [k \in 1..n |-> [h \in S |-> Do(h, T(k))]]
           IsLoop(v) == v = [k \in 0..n |-> IF k = 0 THEN g ELSE Do(v[k - 1], g.seg[n + 1 - k])]
           m == CHOOSE v : IsLoop(v)
           K == [k \in 0..n |-> {h \in Graph : Left(g, h, p, s, pn, d, n + 1 - k)}]
<1>1. g \in Graph /\ n \in Nat /\ DOMAIN g.seg = 1..n /\ pn \in Nat
      /\ \A k \in DOMAIN g.seg : g.seg[k] \in Seg
  <2>1. g \in Graph /\ pn \in DOMAIN g.pnt
    BY DEF Leaves, Sound, CopyPoint
  <2>2. g.pnt \in Seq(Pnt) /\ g.seg \in Seq(Seg)
    BY <2>1, FieldsTyped
  <2> QED BY <2>1, <2>2
<1>2. \A k \in 1..n : n + 1 - k \in 1..n
  BY <1>1
<1>3. ASSUME NEW h \in S, NEW k \in 1..n PROVE Do(h, T(k)) \in S
  <2>1. T(k) \in Seg /\ OneWayFlag(d) \in {"AF_ONEWAY", "AF_ONEWAYREV"}
    BY <1>1, <1>2, FlagsAre
  <2> HIDE DEF T
  <2>2. IsCopy(Copy(T(k), d, pn, OneWayFlag(d)), T(k), d, pn, OneWayFlag(d))
    BY <1>1, <2>1, CopyIs
  <2>3. Clone(h, T(k), d, pn, OneWayFlag(d)) = AddSegment(h, Copy(T(k), d, pn, OneWayFlag(d)))
    BY DEF Clone, Copy
  <2>4. Clone(h, T(k), d, pn, OneWayFlag(d)) \in S
    BY <2>2, <2>3, AddSegmentIs DEF IsCopy
  <2> QED BY <2>4
<1>4. g \in S
  BY <1>1
<1>5. PICK u : Runs(u, n, S, g, f)
  <2>1. f \in [1..n -> [S -> S]]
    BY <1>3
  <2> HIDE DEF f, n, S
  <2> QED BY <1>1, <1>4, <2>1, Iterated
<1>6. IsLoop(u)
  <2>1. ASSUME NEW k \in 0..n
        PROVE  u[k] = IF k = 0 THEN g ELSE Do(u[k - 1], g.seg[n + 1 - k])
    <3>1. CASE k # 0
      <4>1. k \in 1..n /\ k - 1 \in 0..n
        BY <1>1, <3>1
      <4>2. u[k] = f[k][u[k - 1]] /\ u[k - 1] \in S
        BY <1>5, <4>1 DEF Runs
      <4> HIDE DEF Do, S
      <4> QED BY <3>1, <4>1, <4>2
    <3> QED BY <1>5, <3>1 DEF Runs
  <2>2. u = [k \in 0..n |-> u[k]]
    BY <1>5 DEF Runs
  <2> QED BY <2>1, <2>2
<1>7. IsLoop(m)
  <2> HIDE DEF IsLoop
  <2> QED BY <1>6
<1>8. \A k \in 0..n : m[k] = IF k = 0 THEN g ELSE Do(m[k - 1], g.seg[n + 1 - k])
  <2> HIDE DEF m, Do
  <2> QED BY <1>7
<1>9. Leave(g, p, s, pn, d) = m[n]
  BY DEF Leave, OverSegments
<1> HIDE DEF m, IsLoop, f, S, n
<1>10. m[0] \in K[0]
  <2>1. m[0] = g
    BY <1>1, <1>8
  <2>2. Left(g, g, p, s, pn, d, n + 1)
    BY <1>1 DEF Left, Leaves, Extends
  <2> QED BY <1>1, <2>1, <2>2
<1>11. ASSUME NEW k \in 1..n, m[k - 1] \in K[k - 1]
       PROVE  m[k] \in K[k]
  <2>1. /\ k - 1 \in 0..n /\ k \in 0..n /\ k # 0 /\ n + 1 - k \in DOMAIN g.seg
        /\ n + 1 - (k - 1) = (n + 1 - k) + 1
    BY <1>1
  <2>2. Left(g, m[k - 1], p, s, pn, d, n + 1 - (k - 1))
    BY <1>11, <2>1
  <2>3. m[k] = Do(m[k - 1], g.seg[n + 1 - k])
    BY <1>8, <2>1
  <2>4. Left(g, Do(m[k - 1], g.seg[n + 1 - k]), p, s, pn, d, n + 1 - k)
    BY <2>1, <2>2, LeaveRound
  <2>5. Left(g, m[k], p, s, pn, d, n + 1 - k)
    BY <2>3, <2>4
  <2> QED BY <2>1, <2>5 DEF Left, Sound
<1>12. m[n] \in K[n]
  <2> HIDE DEF K
  <2> QED BY <1>1, <1>10, <1>11, Looped
<1>13. n + 1 - n = 1 /\ n \in 0..n
  BY <1>1
<1> QED BY <1>9, <1>12, <1>13

(* A segment is driven towards the copy.  q has the new point pn, i also   *)
(* the copy c of s to it, j and h those of the segments that leave p.      *)
Steps(g, p, s, d, h, q, pn, c, i, j) ==
  /\ Sound(q) /\ Extends(g, q) /\ q.seg = g.seg /\ CopyPoint(q, p, pn)
  /\ DOMAIN q.pnt = DOMAIN g.pnt \cup {pn} /\ pn \notin DOMAIN g.pnt
  /\ IsCopy(c, s, d, pn, OneWayFlag(-d)) /\ i = AddSegment(q, c)
  /\ Sound(i) /\ Extends(q, i) /\ i.pnt = q.pnt
  /\ Leaves(i, p, s, pn, 1) /\ Left(i, j, p, s, pn, 1, 1)
  /\ Leaves(j, p, s, pn, -1) /\ Left(j, h, p, s, pn, -1, 1)

LEMMA ProcessSegmentSteps ==
  ASSUME NEW g, Sound(g), NEW p \in DOMAIN g.pnt, g.pnt[p].turn, NEW s \in Seg, Fits(g, s),
         NEW d \in {1, -1}, Behind(s, d) = p, OneWayFlag(d) \notin s.flags
  PROVE  \E q, c, i, j : Steps(g, p, s, d, ProcessSegment(g, p, s, d), q, Len(g.pnt) + 1, c, i, j)
<1> DEFINE h == NewPoint(g, g.pnt[p].at)
           pn == Len(g.pnt) + 1
           flag == OneWayFlag(-d)
           c == Copy(s, d, pn, flag)
           i == AddSegment(h, c)
           j == Leave(i, p, s, pn, 1)
           k == Leave(j, p, s, pn, -1)
<1>1. g \in Graph /\ g.pnt[p] \in Pnt
  BY FieldsTyped DEF Sound
<1>2. g.pnt[p].at \in Coord
  BY <1>1 DEF Pnt
<1>3. Sound(h) /\ Extends(g, h)
  BY <1>2, NewPointSound
<1>4. /\ h.seg = g.seg /\ h \in Graph /\ pn \in DOMAIN h.pnt /\ pn \notin DOMAIN g.pnt
      /\ h.pnt[pn] = [at |-> g.pnt[p].at, turn |-> FALSE, distorted |-> FALSE]
      /\ h.pnt[p] = g.pnt[p] /\ p \in DOMAIN h.pnt
      /\ DOMAIN h.pnt = DOMAIN g.pnt \cup {pn} /\ Len(h.pnt) = pn
  BY <1>1, <1>2, NewPointIs
<1>5. CopyPoint(h, p, pn)
  BY <1>4 DEF CopyPoint
<1>6. ProcessSegment(g, p, s, d) = k
  BY <1>4 DEF ProcessSegment, Clone, Copy
<1> HIDE DEF h, k
<1>7. pn \in Nat /\ flag \in {"AF_ONEWAY", "AF_ONEWAYREV"}
  <2>1. h.pnt \in Seq(Pnt)
    BY <1>4, FieldsTyped
  <2> QED BY <1>4, <2>1, FlagsAre
<1>8. flag = OneWayFlag(-d)
  OBVIOUS
<1> HIDE DEF pn, flag
<1>9. Fits(h, s)
  BY <1>3, FitsOn DEF Extends
<1>10. IsCopy(c, s, d, pn, flag) /\ Fits(h, c)
  BY <1>3, <1>4, <1>5, <1>7, <1>9, CopyIs, CopyFits DEF Extends
<1> HIDE DEF c
<1>11. \A q \in DOMAIN h.seg : h.seg[q].start # pn /\ h.seg[q].end # pn
  BY <1>4 DEF Sound, Fits
<1>12. \A q \in DOMAIN h.seg : ~Twins(h.seg[q], c)
  BY <1>10, <1>11 DEF IsCopy, Twins, Behind
<1>13. Sound(i) /\ Extends(h, i)
  BY <1>3, <1>10, <1>12, AddSegmentSound DEF IsCopy
<1>14. /\ i.pnt = h.pnt /\ DOMAIN i.seg = DOMAIN h.seg \cup {Len(h.seg) + 1}
       /\ \A q \in DOMAIN h.seg : i.seg[q] = h.seg[q]
       /\ i.seg[Len(h.seg) + 1] = c
  BY <1>4, <1>10, AddSegmentIs DEF IsCopy
<1>15. i = AddSegment(h, c)
  OBVIOUS
<1> HIDE DEF i
<1>16. \A q \in DOMAIN i.seg : i.seg[q].start = pn \/ i.seg[q].end = pn => i.seg[q].item = s.item
  BY <1>10, <1>11, <1>14 DEF IsCopy
<1>17. Leaves(i, p, s, pn, 1)
  BY <1>5, <1>9, <1>13, <1>14, <1>16 DEF Leaves, CopyPoint, Behind, Fits
<1>18. Left(i, j, p, s, pn, 1, 1)
  BY <1>17, LeaveAll
<1> HIDE DEF j
<1>19. ASSUME NEW q \in DOMAIN j.seg, j.seg[q].end = pn PROVE j.seg[q].item = s.item
  <2>1. CASE q \in DOMAIN i.seg
    BY <1>16, <1>18, <1>19, <2>1 DEF Left, Extends
  <2>2. CASE q \notin DOMAIN i.seg
    <3>1. PICK r \in DOMAIN i.seg : /\ Takes(i, p, s, 1, i.seg[r])
                                    /\ j.seg[q] = Copy(i.seg[r], 1, pn, OneWayFlag(1))
      BY <1>18, <2>2 DEF Left
    <3>2. i.seg[r].end = pn
      BY <1>19, <3>1 DEF Copy
    <3> QED BY <1>16, <3>1, <3>2 DEF Takes, IsTurnAllowed
  <2> QED BY <2>1, <2>2
<1>20. Leaves(j, p, s, pn, -1)
  BY <1>17, <1>18, <1>19 DEF Leaves, Left, CopyPoint, Behind
<1>21. Left(j, k, p, s, pn, -1, 1)
  BY <1>20, LeaveAll DEF k
<1>22. Steps(g, p, s, d, k, h, pn, c, i, j)
  BY <1>3, <1>4, <1>5, <1>8, <1>10, <1>13, <1>14, <1>15, <1>17, <1>18, <1>20, <1>21 DEF Steps
<1> QED BY <1>6, <1>22 DEF pn

LEMMA ProcessSegmentIs ==
  ASSUME NEW g, Sound(g), NEW p \in DOMAIN g.pnt, g.pnt[p].turn, NEW s \in Seg, Fits(g, s),
         NEW d \in {1, -1}, Behind(s, d) = p
  PROVE  Sound(ProcessSegment(g, p, s, d)) /\ Extends(g, ProcessSegment(g, p, s, d))
<1>1. CASE OneWayFlag(d) \in s.flags
  <2>1. g \in Graph
    BY DEF Sound
  <2>2. g.pnt[p].at \in Coord
    BY <2>1, FieldsTyped DEF Pnt
  <2>3. ProcessSegment(g, p, s, d) = NewPoint(g, g.pnt[p].at)
    BY <1>1 DEF ProcessSegment
  <2> QED BY <2>2, <2>3, NewPointSound
<1>2. CASE OneWayFlag(d) \notin s.flags
  <2>1. PICK h : h = ProcessSegment(g, p, s, d)
    OBVIOUS
  <2>2. PICK q, c, i, j : Steps(g, p, s, d, h, q, Len(g.pnt) + 1, c, i, j)
    BY <1>2, <2>1, ProcessSegmentSteps
  <2>3. Extends(g, q) /\ Extends(q, i) /\ Extends(i, j) /\ Extends(j, h) /\ Sound(h)
    BY <2>2 DEF Steps, Left
  <2>4. Sound(h) /\ Extends(g, h)
    BY <2>3, ExtendsOn
  <2> QED BY <2>1, <2>4
<1> QED BY <1>1, <1>2

(* The rounds of ProcessAll: m[k] is the graph after k of them *)
Rounds(g, p, d, m) ==
  /\ m[0] = g /\ ProcessAll(g, p, d) = m[Len(g.seg)]
  /\ \A k \in 1..Len(g.seg) :
       LET s == g.seg[Len(g.seg) + 1 - k]
       IN m[k] = IF Behind(s, d) = p /\ IsWay(s) THEN ProcessSegment(m[k - 1], p, s, d)
                 ELSE m[k - 1]

LEMMA ProcessAllRounds ==
  ASSUME NEW g, Sound(g), NEW p \in DOMAIN g.pnt, g.pnt[p].turn, NEW d \in {1, -1}
  PROVE  \E m : Rounds(g, p, d, m)
<1> DEFINE n == Len(g.seg)
           Do(h, t) == IF Behind(t, d) = p /\ IsWay(t) THEN ProcessSegment(h, p, t, d) ELSE h
           T(k) == g.seg[n + 1 - k]
           S == {h \in Graph : Sound(h) /\ Extends(g, h)}
           f == [k \in 1..n |-> [h \in S |-> Do(h, T(k))]]
           IsLoop(v) == v = [k \in 0..n |-> IF k = 0 THEN g ELSE Do(v[k - 1], g.seg[n + 1 - k])]
           m == CHOOSE v : IsLoop(v)
<1>1. g \in Graph /\ n \in Nat /\ DOMAIN g.seg = 1..n
      /\ \A k \in DOMAIN g.seg : g.seg[k] \in Seg
  <2>1. g \in Graph
    BY DEF Sound
  <2>2. g.seg \in Seq(Seg)
    BY <2>1, FieldsTyped
  <2> QED BY <2>1, <2>2
<1>2. \A k \in 1..n : n + 1 - k \in DOMAIN g.seg
  BY <1>1
<1>3. ASSUME NEW h \in S, NEW k \in 1..n PROVE Do(h, T(k)) \in S
  <2>1. T(k) \in Seg /\ Fits(g, T(k)) /\ Sound(h) /\ Extends(g, h)
    BY <1>1, <1>2 DEF Sound
  <2> HIDE DEF T
  <2>2. Fits(h, T(k)) /\ p \in DOMAIN h.pnt /\ h.pnt[p].turn
    BY <2>1, FitsOn DEF Extends
  <2>3. CASE Behind(T(k), d) = p /\ IsWay(T(k))
    <3>1. Sound(ProcessSegment(h, p, T(k), d)) /\ Extends(h, ProcessSegment(h, p, T(k), d))
      BY <2>1, <2>2, <2>3, ProcessSegmentIs
    <3> QED BY <2>1, <2>3, <3>1, ExtendsOn DEF Sound
  <2> QED BY <2>3
<1>4. g \in S
  BY <1>1 DEF Extends
<1>5. PICK u : Runs(u, n, S, g, f)
  <2>1. f \in [1..n -> [S -> S]]
    BY <1>3
  <2> HIDE DEF f, n, S
  <2> QED BY <1>1, <1>4, <2>1, Iterated
<1>6. IsLoop(u)
  <2>1. ASSUME NEW k \in 0..n
        PROVE  u[k] = IF k = 0 THEN g ELSE Do(u[k - 1], g.seg[n + 1 - k])
    <3>1. CASE k # 0
      <4>1. k \in 1..n /\ k - 1 \in 0..n
        BY <1>1, <3>1
      <4>2. u[k] = f[k][u[k - 1]] /\ u[k - 1] \in S
        BY <1>5, <4>1 DEF Runs
      <4> HIDE DEF Do, S
      <4> QED BY <3>1, <4>1, <4>2
    <3> QED BY <1>5, <3>1 DEF Runs
  <2>2. u = [k \in 0..n |-> u[k]]
    BY <1>5 DEF Runs
  <2> QED BY <2>1, <2>2
<1>7. IsLoop(m)
  <2> HIDE DEF IsLoop
  <2> QED BY <1>6
<1>8. \A k \in 0..n : m[k] = IF k = 0 THEN g ELSE Do(m[k - 1], g.seg[n + 1 - k])
  <2> HIDE DEF m, Do
  <2> QED BY <1>7
<1>9. ProcessAll(g, p, d) = m[n]
  BY DEF ProcessAll, OverSegments
<1> HIDE DEF m, IsLoop, f, S, Do
<1>10. m[0] = g /\ \A k \in 1..n : m[k] = Do(m[k - 1], g.seg[n + 1 - k])
  <2>1. \A k \in 1..n : k \in 0..n /\ k # 0
    BY <1>1
  <2> QED BY <1>1, <1>8, <2>1
<1>11. Rounds(g, p, d, m)
  BY <1>9, <1>10 DEF Rounds, Do
<1> QED BY <1>11

LEMMA ProcessAllIs ==
  ASSUME NEW g, Sound(g), NEW p \in DOMAIN g.pnt, g.pnt[p].turn, NEW d \in {1, -1}
  PROVE  Sound(ProcessAll(g, p, d)) /\ Extends(g, ProcessAll(g, p, d))
<1> DEFINE S == {h \in Graph : Sound(h) /\ Extends(g, h)}
<1>1. PICK m, n : Rounds(g, p, d, m) /\ n = Len(g.seg)
  BY ProcessAllRounds
<1>2. g \in Graph /\ n \in Nat /\ DOMAIN g.seg = 1..n
      /\ \A k \in DOMAIN g.seg : g.seg[k] \in Seg /\ Fits(g, g.seg[k])
  <2>1. g \in Graph
    BY DEF Sound
  <2>2. g.seg \in Seq(Seg)
    BY <2>1, FieldsTyped
  <2> QED BY <1>1, <2>1, <2>2 DEF Sound
<1>3. m[0] \in S
  BY <1>1, <1>2 DEF Rounds, Extends
<1>4. ASSUME NEW k \in 1..n, m[k - 1] \in S PROVE m[k] \in S
  <2>1. PICK h, s : h = m[k - 1] /\ s = g.seg[n + 1 - k]
    OBVIOUS
  <2>2. n + 1 - k \in DOMAIN g.seg
    BY <1>2
  <2>3. s \in Seg /\ Fits(g, s) /\ Sound(h) /\ Extends(g, h)
    BY <1>2, <1>4, <2>1, <2>2
  <2>4. Fits(h, s) /\ p \in DOMAIN h.pnt /\ h.pnt[p].turn
    BY <2>3, FitsOn DEF Extends
  <2>5. m[k] = IF Behind(s, d) = p /\ IsWay(s) THEN ProcessSegment(h, p, s, d) ELSE h
    BY <1>1, <2>1 DEF Rounds
  <2>6. CASE Behind(s, d) = p /\ IsWay(s)
    <3>1. Sound(ProcessSegment(h, p, s, d)) /\ Extends(h, ProcessSegment(h, p, s, d))
      BY <2>3, <2>4, <2>6, ProcessSegmentIs
    <3> QED BY <2>3, <2>5, <2>6, <3>1, ExtendsOn DEF Sound
  <2> QED BY <1>4, <2>1, <2>5, <2>6
<1> DEFINE K == [k \in 0..n |-> S]
<1> HIDE DEF S
<1>5. m[0] \in K[0] /\ \A k \in 1..n : m[k - 1] \in K[k - 1] => m[k] \in K[k]
  <2>1. \A k \in 1..n : k \in 0..n /\ k - 1 \in 0..n
    BY <1>2
  <2> QED BY <1>2, <1>3, <1>4, <2>1
<1>6. m[n] \in S
  <2>1. n \in 0..n
    BY <1>2
  <2> HIDE DEF K
  <2>2. m[n] \in K[n]
    BY <1>2, <1>5, Looped
  <2> QED BY <2>1, <2>2 DEF K
<1> QED BY <1>1, <1>6 DEF Rounds, S

LEMMA ProcessPointIs ==
  ASSUME NEW g, Sound(g), NEW p \in DOMAIN g.pnt, g.pnt[p].turn
  PROVE  Sound(ProcessPoint(g, p)) /\ Extends(g, ProcessPoint(g, p))
<1> DEFINE h == ProcessAll(g, p, 1)
<1>1. Sound(h) /\ Extends(g, h)
  BY ProcessAllIs
<1> HIDE DEF h
<1>2. p \in DOMAIN h.pnt /\ h.pnt[p].turn
  BY <1>1 DEF Extends
<1>3. Sound(ProcessAll(h, p, -1)) /\ Extends(h, ProcessAll(h, p, -1))
  BY <1>1, <1>2, ProcessAllIs
<1> QED BY <1>1, <1>3, ExtendsOn DEF ProcessPoint, h

-----------------------------------------------------------------------------
(* Reading *)
LEMMA PointAtIs ==
  ASSUME NEW g, NEW p \in DOMAIN g.pnt, Fresh(g)
  PROVE  PointAt(g, g.pnt[p].at) = p
BY DEF PointAt, Fresh

LEMMA AddPointIs ==
  ASSUME NEW g, Sound(g), Fresh(g), NEW c \in Coord
  PROVE  /\ Sound(AddPoint(g, c)) /\ Fresh(AddPoint(g, c)) /\ Extends(g, AddPoint(g, c))
         /\ AddPoint(g, c).seg = g.seg
         /\ \E p \in DOMAIN AddPoint(g, c).pnt : AddPoint(g, c).pnt[p].at = c
<1>1. CASE \E p \in DOMAIN g.pnt : g.pnt[p].at = c
  BY <1>1 DEF AddPoint, Extends
<1>2. CASE ~\E p \in DOMAIN g.pnt : g.pnt[p].at = c
  <2> DEFINE h == NewPoint(g, c)
  <2>1. AddPoint(g, c) = h
    BY <1>2 DEF AddPoint
  <2>2. g \in Graph
    BY DEF Sound
  <2>3. /\ h.seg = g.seg /\ DOMAIN h.pnt = DOMAIN g.pnt \cup {Len(g.pnt) + 1}
        /\ \A p \in DOMAIN g.pnt : h.pnt[p] = g.pnt[p]
        /\ h.pnt[Len(g.pnt) + 1] = [at |-> c, turn |-> FALSE, distorted |-> FALSE]
    BY <2>2, NewPointIs
  <2>4. Sound(h) /\ Extends(g, h)
    BY NewPointSound
  <2> HIDE DEF h
  <2>5. h.pnt[Len(g.pnt) + 1].at = c
    BY <2>3
  <2>6. Fresh(h)
    BY <1>2, <2>3, <2>5 DEF Fresh
  <2> QED BY <2>1, <2>3, <2>4, <2>5, <2>6
<1> QED BY <1>1, <1>2

(* A segment that is read, between points that are there *)
SegmentRead(g, h, c, d, i, flags) ==
  /\ Sound(h) /\ Fresh(h) /\ Extends(g, h) /\ h.pnt = g.pnt
  /\ \E n : /\ DOMAIN h.seg = DOMAIN g.seg \cup {n}
             /\ h.seg[n].item = i /\ h.seg[n].flags = flags
             /\ h.pnt[h.seg[n].start].at = c /\ h.pnt[h.seg[n].end].at = d

LEMMA ReadSegmentIs ==
  ASSUME NEW g, Sound(g), Fresh(g), NEW i \in Street \cup Restriction, NEW c, NEW d,
         NEW flags \in SUBSET {"AF_ONEWAY", "AF_ONEWAYREV"},
         \E p \in DOMAIN g.pnt : g.pnt[p].at = c, \E p \in DOMAIN g.pnt : g.pnt[p].at = d,
         i \in Street \ Distortion =>
           /\ c = From[i] /\ d = To[i]
           /\ \A k \in DOMAIN g.seg : ~Twins(g.seg[k], Between(g, c, d, i, flags))
  PROVE  SegmentRead(g, AddSegment(g, Between(g, c, d, i, flags)), c, d, i, flags)
<1> DEFINE s == Between(g, c, d, i, flags)
           h == AddSegment(g, s)
<1>1. /\ PointAt(g, c) \in DOMAIN g.pnt /\ g.pnt[PointAt(g, c)].at = c
      /\ PointAt(g, d) \in DOMAIN g.pnt /\ g.pnt[PointAt(g, d)].at = d
  BY DEF PointAt
<1>2. g \in Graph /\ DOMAIN g.pnt \subseteq Nat
  <2>1. g \in Graph
    BY DEF Sound
  <2>2. g.pnt \in Seq(Pnt)
    BY <2>1, FieldsTyped
  <2> QED BY <2>1, <2>2
<1>3. /\ s \in Seg /\ s.item = i /\ s.len = 0 /\ s.flags = flags
      /\ s.start = PointAt(g, c) /\ s.end = PointAt(g, d)
  BY <1>1, <1>2 DEF Between, Seg
<1> HIDE DEF s
<1>4. Copied(g, s.start) \in {0, 1} /\ Copied(g, s.end) \in {0, 1}
  BY DEF Copied
<1>5. s.len <= Copied(g, s.start) + Copied(g, s.end)
  BY <1>3, <1>4
<1>6. Fits(g, s)
  BY <1>1, <1>3, <1>5 DEF Fits, Road
<1>7. Road(s) => \A k \in DOMAIN g.seg : ~Twins(g.seg[k], s)
  BY <1>3 DEF Road, s
<1>8. Sound(h) /\ Extends(g, h)
  BY <1>3, <1>6, <1>7, AddSegmentSound
<1>9. /\ h.pnt = g.pnt /\ DOMAIN h.seg = DOMAIN g.seg \cup {Len(g.seg) + 1}
      /\ \A k \in DOMAIN g.seg : h.seg[k] = g.seg[k]
      /\ h.seg[Len(g.seg) + 1] = s
  BY <1>2, <1>3, AddSegmentIs
<1> HIDE DEF h
<1>10. Fresh(h)
  BY <1>3, <1>9 DEF Fresh
<1>11. /\ h.seg[Len(g.seg) + 1].item = i /\ h.seg[Len(g.seg) + 1].flags = flags
       /\ h.pnt[h.seg[Len(g.seg) + 1].start].at = c /\ h.pnt[h.seg[Len(g.seg) + 1].end].at = d
  BY <1>1, <1>3, <1>9
<1>12. SegmentRead(g, h, c, d, i, flags)
  BY <1>8, <1>9, <1>10, <1>11 DEF SegmentRead
<1> QED BY <1>12 DEF h, s

(* Points are only marked *)
LEMMA MarkedSound ==
  ASSUME NEW g, Sound(g), Fresh(g), NEW h \in Graph, h.seg = g.seg, DOMAIN h.pnt = DOMAIN g.pnt,
         \A q \in DOMAIN g.pnt : h.pnt[q].at = g.pnt[q].at,
         \A q \in DOMAIN g.pnt : h.pnt[q].turn => Restricted(g.pnt[q].at)
  PROVE  Sound(h) /\ Fresh(h)
<1>1. ASSUME NEW k \in DOMAIN h.seg PROVE Fits(h, h.seg[k])
  <2> DEFINE s == h.seg[k]
  <2>1. Fits(g, s) /\ s.len = 0
    BY DEF Sound, Fresh
  <2> HIDE DEF s
  <2>2. Copied(h, s.start) \in {0, 1} /\ Copied(h, s.end) \in {0, 1}
    BY DEF Copied
  <2>3. s.len <= Copied(h, s.start) + Copied(h, s.end)
    BY <2>1, <2>2
  <2>4. Fits(h, s)
    BY <2>1, <2>3 DEF Fits
  <2> QED BY <2>4 DEF s
<1>2. NoTwins(h)
  BY DEF Sound, NoTwins
<1>3. Fresh(h)
  BY DEF Fresh
<1> QED BY <1>1, <1>2, <1>3 DEF Sound

LEMMA SamePoints ==
  ASSUME NEW g, NEW h, Fresh(h), DOMAIN h.pnt = DOMAIN g.pnt,
         \A q \in DOMAIN g.pnt : h.pnt[q].at = g.pnt[q].at,
         NEW c, \E p \in DOMAIN g.pnt : g.pnt[p].at = c
  PROVE  PointAt(h, c) = PointAt(g, c)
<1> DEFINE p == PointAt(g, c)
<1>1. p \in DOMAIN g.pnt /\ g.pnt[p].at = c
  BY DEF PointAt
<1> HIDE DEF p
<1>2. PointAt(h, c) = p
  BY <1>1, PointAtIs
<1> QED BY <1>2 DEF p

LEMMA TwoAre ==
  ASSUME NEW a, NEW b, a # b
  PROVE  Cardinality({a, b}) = 2
<1>1. IsFiniteSet({a}) /\ Cardinality({a}) = 1
  BY FS_Singleton
<1>2. Cardinality({a} \cup {b}) = Cardinality({a}) + 1
  BY <1>1, FS_AddElement
<1>3. {a} \cup {b} = {a, b}
  OBVIOUS
<1> QED BY <1>1, <1>2, <1>3

LEMMA ItemsAre ==
  /\ \A i \in Street : From[i] \in Coord /\ To[i] \in Coord
                       /\ Flags[i] \subseteq {"AF_ONEWAY", "AF_ONEWAYREV"}
  /\ \A i \in Restriction : \A k \in 1..3 : Via[i][k] \in Coord
BY GraphAssumption DEF GraphAssumption

(* h is g with points at c and d *)
HasPoints(g, h, c, d) ==
  /\ Sound(h) /\ Fresh(h) /\ h.seg = g.seg /\ Extends(g, h)
  /\ \E p \in DOMAIN h.pnt : h.pnt[p].at = c
  /\ \E p \in DOMAIN h.pnt : h.pnt[p].at = d

LEMMA TwoPoints ==
  ASSUME NEW g, Sound(g), Fresh(g), NEW c \in Coord, NEW d \in Coord
  PROVE  HasPoints(g, AddPoint(AddPoint(g, c), d), c, d)
<1>1. PICK f : f = AddPoint(g, c)
  OBVIOUS
<1>2. /\ Sound(f) /\ Fresh(f) /\ f.seg = g.seg /\ Extends(g, f)
      /\ \E p \in DOMAIN f.pnt : f.pnt[p].at = c
  BY <1>1, AddPointIs
<1>3. PICK h : h = AddPoint(f, d)
  OBVIOUS
<1>4. /\ Sound(h) /\ Fresh(h) /\ h.seg = f.seg /\ Extends(f, h)
      /\ \E p \in DOMAIN h.pnt : h.pnt[p].at = d
  BY <1>2, <1>3, AddPointIs
<1>5. Extends(g, h)
  BY <1>2, <1>4, ExtendsOn
<1>6. HasPoints(g, h, c, d)
  BY <1>2, <1>4, <1>5 DEF Extends, HasPoints
<1> QED BY <1>1, <1>3, <1>6

LEMMA AddStreetIs ==
  ASSUME NEW g, Sound(g), Fresh(g), NEW i \in Street
  PROVE  ItemAdded(g, AddStreet(g, i), i)
<1>0. PICK h : h = AddPoint(AddPoint(g, From[i]), To[i])
  OBVIOUS
<1> DEFINE s == Between(h, From[i], To[i], i, Flags[i])
<1>1. /\ Sound(h) /\ Fresh(h) /\ h.seg = g.seg /\ Extends(g, h)
      /\ \E p \in DOMAIN h.pnt : h.pnt[p].at = From[i]
      /\ \E p \in DOMAIN h.pnt : h.pnt[p].at = To[i]
  <2>1. From[i] \in Coord /\ To[i] \in Coord
    BY ItemsAre
  <2>2. HasPoints(g, h, From[i], To[i])
    BY <1>0, <2>1, TwoPoints
  <2> QED BY <2>2 DEF HasPoints
<1>2. AddStreet(g, i) = IF IsDuplicate(h, PointAt(h, From[i]), i) THEN h ELSE AddSegment(h, s)
  BY <1>0 DEF AddStreet
<1>3. i \notin Restriction
  BY GraphAssumption DEF GraphAssumption
<1>4. CASE ~IsDuplicate(h, PointAt(h, From[i]), i)
  <2>1. \A k \in DOMAIN h.seg : ~Twins(h.seg[k], s)
    BY <1>4 DEF IsDuplicate, Starting, ToSet, Twins, Between
  <2>2. PICK f : f = AddSegment(h, s)
    OBVIOUS
  <2>3. SegmentRead(h, f, From[i], To[i], i, Flags[i])
    BY <1>1, <2>1, <2>2, ItemsAre, ReadSegmentIs
  <2> HIDE DEF s
  <2>4. ItemAdded(g, f, i)
    BY <1>1, <1>3, <2>3 DEF SegmentRead, ItemAdded, Extends, Lies
  <2> QED BY <1>2, <1>4, <2>2, <2>4
<1>5. CASE IsDuplicate(h, PointAt(h, From[i]), i)
  <2>1. \E k \in DOMAIN h.seg : h.seg[k].item = i
    BY <1>5 DEF IsDuplicate, Starting, ToSet
  <2>2. ItemAdded(g, h, i)
    BY <1>1, <1>3, <2>1 DEF ItemAdded, Extends
  <2> QED BY <1>2, <1>5, <2>2
<1> QED BY <1>4, <1>5

LEMMA AddDistortionIs ==
  ASSUME NEW g, Sound(g), Fresh(g), NEW i \in Distortion
  PROVE  ItemAdded(g, AddDistortion(g, i), i)
<1>a. PICK h : h = AddPoint(AddPoint(g, From[i]), To[i])
  OBVIOUS
<1> DEFINE ends == {PointAt(h, From[i]), PointAt(h, To[i])}
           pnt == [p \in DOMAIN h.pnt |-> [h.pnt[p] EXCEPT !.distorted = @ \/ p \in ends]]
           f == [h EXCEPT !.pnt = pnt]
           s == Between(h, From[i], To[i], i, {})
<1>0. i \in Street
  BY GraphAssumption DEF GraphAssumption
<1>1. /\ Sound(h) /\ Fresh(h) /\ h.seg = g.seg /\ Extends(g, h)
      /\ \E p \in DOMAIN h.pnt : h.pnt[p].at = From[i]
      /\ \E p \in DOMAIN h.pnt : h.pnt[p].at = To[i]
  <2>1. From[i] \in Coord /\ To[i] \in Coord
    BY <1>0, ItemsAre
  <2>2. HasPoints(g, h, From[i], To[i])
    BY <1>a, <2>1, TwoPoints
  <2> QED BY <2>2 DEF HasPoints
<1>2. AddDistortion(g, i) = AddSegment(f, s)
  BY <1>a DEF AddDistortion
<1> HIDE DEF ends
<1>3. h.pnt \in Seq(Pnt) /\ h.seg \in Seq(Seg) /\ h = [pnt |-> h.pnt, seg |-> h.seg]
      /\ \A q \in DOMAIN h.pnt : h.pnt[q] \in Pnt
  BY <1>1, FieldsTyped DEF Sound
<1>4. \A q \in DOMAIN h.pnt : pnt[q] \in Pnt /\ pnt[q].at = h.pnt[q].at /\ pnt[q].turn = h.pnt[q].turn
  BY <1>3 DEF Pnt
<1>5. pnt \in Seq(Pnt) /\ DOMAIN pnt = DOMAIN h.pnt
  <2>1. PICK n \in Nat : DOMAIN h.pnt = 1..n
    BY <1>3
  <2>2. DOMAIN pnt = 1..n /\ pnt \in [1..n -> Pnt]
    BY <1>4, <2>1
  <2> HIDE DEF pnt
  <2> QED BY <2>1, <2>2
<1> HIDE DEF pnt
<1>6. f = [pnt |-> pnt, seg |-> h.seg]
  BY <1>3
<1>7. f \in Graph /\ f.pnt = pnt /\ f.seg = h.seg
  BY <1>3, <1>5, <1>6 DEF Graph
<1> HIDE DEF f
<1>8. Sound(f) /\ Fresh(f)
  BY <1>1, <1>4, <1>5, <1>7, MarkedSound DEF Sound
<1>9. PointAt(f, From[i]) = PointAt(h, From[i]) /\ PointAt(f, To[i]) = PointAt(h, To[i])
  <2>1. /\ DOMAIN f.pnt = DOMAIN h.pnt
        /\ \A p \in DOMAIN h.pnt : f.pnt[p].at = h.pnt[p].at
    BY <1>4, <1>5, <1>7
  <2>2. \A c : (\E p \in DOMAIN h.pnt : h.pnt[p].at = c) => PointAt(f, c) = PointAt(h, c)
    BY <1>8, <2>1, SamePoints
  <2> QED BY <1>1, <2>2
<1>10. s = Between(f, From[i], To[i], i, {})
  BY <1>9 DEF Between
<1> HIDE DEF s
<1>11. PICK j : j = AddSegment(f, s)
  OBVIOUS
<1>12. SegmentRead(f, j, From[i], To[i], i, {})
  BY <1>0, <1>1, <1>4, <1>5, <1>7, <1>8, <1>10, <1>11, ReadSegmentIs
<1>13. i \notin Restriction
  BY <1>0, GraphAssumption DEF GraphAssumption
<1>14. \A q \in DOMAIN g.pnt : /\ q \in DOMAIN j.pnt /\ j.pnt[q].at = g.pnt[q].at
                               /\ g.pnt[q].turn => j.pnt[q].turn
  BY <1>1, <1>4, <1>5, <1>7, <1>12 DEF SegmentRead, Extends
<1>15. ItemAdded(g, j, i)
  BY <1>1, <1>7, <1>12, <1>13, <1>14 DEF SegmentRead, ItemAdded, Extends, Lies, Road
<1> QED BY <1>2, <1>11, <1>15

LEMMA AddRestrictionIs ==
  ASSUME NEW g, Sound(g), Fresh(g), NEW i \in Restriction
  PROVE  ItemAdded(g, AddRestriction(g, i), i)
<1>a. PICK e : e = AddPoint(AddPoint(g, Via[i][1]), Via[i][2])
  OBVIOUS
<1>b. PICK h : h = AddPoint(e, Via[i][3])
  OBVIOUS
<1> DEFINE q == PointAt(h, Via[i][2])
           pnt == [h.pnt EXCEPT ![q].turn = TRUE]
           f == [h EXCEPT !.pnt = pnt]
           s == Between(h, Via[i][1], Via[i][2], i, {})
           t == Between(h, Via[i][2], Via[i][3], i, {})
           j == AddSegment(f, s)
<1>0. Via[i][1] \in Coord /\ Via[i][2] \in Coord /\ Via[i][3] \in Coord
  BY ItemsAre
<1>1. /\ Sound(e) /\ Fresh(e) /\ e.seg = g.seg /\ Extends(g, e)
      /\ \E p \in DOMAIN e.pnt : e.pnt[p].at = Via[i][1]
      /\ \E p \in DOMAIN e.pnt : e.pnt[p].at = Via[i][2]
  <2>1. HasPoints(g, e, Via[i][1], Via[i][2])
    BY <1>0, <1>a, TwoPoints
  <2> QED BY <2>1 DEF HasPoints
<1>2. AddRestriction(g, i) = AddSegment(j, t)
  BY <1>a, <1>b DEF AddRestriction
<1>3. /\ Sound(h) /\ Fresh(h) /\ Extends(e, h) /\ h.seg = e.seg
      /\ \E p \in DOMAIN h.pnt : h.pnt[p].at = Via[i][3]
  BY <1>0, <1>1, <1>b, AddPointIs
<1>4. /\ \E p \in DOMAIN h.pnt : h.pnt[p].at = Via[i][1]
      /\ \E p \in DOMAIN h.pnt : h.pnt[p].at = Via[i][2]
  BY <1>1, <1>3 DEF Extends
<1>5. q \in DOMAIN h.pnt /\ h.pnt[q].at = Via[i][2]
  BY <1>4 DEF PointAt
<1> HIDE DEF q
<1>6. h.pnt \in Seq(Pnt) /\ h.seg \in Seq(Seg) /\ h = [pnt |-> h.pnt, seg |-> h.seg]
      /\ \A p \in DOMAIN h.pnt : h.pnt[p] \in Pnt
  BY <1>3, FieldsTyped DEF Sound
<1>7. \A p \in DOMAIN h.pnt : pnt[p] \in Pnt /\ pnt[p].at = h.pnt[p].at
                              /\ (pnt[p].turn <=> h.pnt[p].turn \/ p = q)
  BY <1>5, <1>6 DEF Pnt
<1>8. pnt \in Seq(Pnt) /\ DOMAIN pnt = DOMAIN h.pnt
  <2>1. PICK n \in Nat : DOMAIN h.pnt = 1..n
    BY <1>6
  <2>2. DOMAIN pnt = 1..n /\ pnt = [p \in 1..n |-> pnt[p]]
    BY <2>1
  <2>3. pnt \in [1..n -> Pnt]
    <3> HIDE DEF pnt
    <3> QED BY <1>7, <2>1, <2>2
  <2> HIDE DEF pnt
  <2> QED BY <2>1, <2>2, <2>3
<1> HIDE DEF pnt
<1>9. f = [pnt |-> pnt, seg |-> h.seg]
  BY <1>6
<1>10. f \in Graph /\ f.pnt = pnt /\ f.seg = h.seg
  BY <1>6, <1>8, <1>9 DEF Graph
<1> HIDE DEF f
<1>11. Sound(f) /\ Fresh(f)
  <2>1. Restricted(h.pnt[q].at)
    BY <1>5 DEF Restricted
  <2>2. \A p \in DOMAIN h.pnt : f.pnt[p].turn => Restricted(h.pnt[p].at)
    BY <1>3, <1>7, <1>10, <2>1 DEF Sound
  <2> QED BY <1>3, <1>7, <1>8, <1>10, <2>2, MarkedSound
<1>12. /\ PointAt(f, Via[i][1]) = PointAt(h, Via[i][1])
       /\ PointAt(f, Via[i][2]) = PointAt(h, Via[i][2])
       /\ PointAt(f, Via[i][3]) = PointAt(h, Via[i][3])
  <2>1. /\ DOMAIN f.pnt = DOMAIN h.pnt
        /\ \A p \in DOMAIN h.pnt : f.pnt[p].at = h.pnt[p].at
    BY <1>7, <1>8, <1>10
  <2>2. \A c : (\E p \in DOMAIN h.pnt : h.pnt[p].at = c) => PointAt(f, c) = PointAt(h, c)
    BY <1>11, <2>1, SamePoints
  <2> QED BY <1>3, <1>4, <2>2
<1>13. s = Between(f, Via[i][1], Via[i][2], i, {}) /\ t = Between(f, Via[i][2], Via[i][3], i, {})
  BY <1>12 DEF Between
<1> HIDE DEF s, t
<1>14. /\ \E p \in DOMAIN f.pnt : f.pnt[p].at = Via[i][1]
       /\ \E p \in DOMAIN f.pnt : f.pnt[p].at = Via[i][2]
       /\ \E p \in DOMAIN f.pnt : f.pnt[p].at = Via[i][3]
  BY <1>3, <1>4, <1>7, <1>8, <1>10
<1>15. i \notin Street
  BY GraphAssumption DEF GraphAssumption
<1>16. SegmentRead(f, j, Via[i][1], Via[i][2], i, {})
  BY <1>11, <1>13, <1>14, <1>15, ReadSegmentIs
<1> HIDE DEF j
<1>17. /\ Sound(j) /\ Fresh(j) /\ Extends(f, j) /\ j.pnt = f.pnt
  BY <1>16 DEF SegmentRead
<1>18. t = Between(j, Via[i][2], Via[i][3], i, {})
  BY <1>13, <1>17 DEF Between, PointAt
<1>19. PICK k : k = AddSegment(j, t)
  OBVIOUS
<1>20. SegmentRead(j, k, Via[i][2], Via[i][3], i, {})
  BY <1>14, <1>15, <1>17, <1>18, <1>19, ReadSegmentIs
<1>21. PICK m : /\ DOMAIN j.seg = DOMAIN f.seg \cup {m}
                /\ j.seg[m].item = i /\ j.seg[m].flags = {}
                /\ j.pnt[j.seg[m].start].at = Via[i][1] /\ j.pnt[j.seg[m].end].at = Via[i][2]
  BY <1>16 DEF SegmentRead
<1>22. PICK n : /\ DOMAIN k.seg = DOMAIN j.seg \cup {n}
                /\ k.seg[n].item = i /\ k.seg[n].flags = {}
                /\ k.pnt[k.seg[n].start].at = Via[i][2] /\ k.pnt[k.seg[n].end].at = Via[i][3]
  BY <1>20 DEF SegmentRead
<1>23. /\ Sound(k) /\ Fresh(k) /\ Extends(j, k) /\ k.pnt = f.pnt
  BY <1>17, <1>20 DEF SegmentRead
<1>24. k.seg[m] = j.seg[m] /\ m \in DOMAIN k.seg /\ n \in DOMAIN k.seg
  BY <1>21, <1>22, <1>23 DEF Extends
<1>25. Stands(k, i)
  <2>1. k.seg[m].end \in DOMAIN k.pnt /\ k.seg[n].start \in DOMAIN k.pnt
    BY <1>23, <1>24 DEF Sound, Fits
  <2>2. q \in DOMAIN k.pnt /\ k.pnt[q].at = Via[i][2] /\ k.pnt[q].turn
    BY <1>5, <1>7, <1>8, <1>10, <1>23
  <2>3. k.pnt[k.seg[m].end].at = Via[i][2] /\ k.pnt[k.seg[m].start].at = Via[i][1]
    BY <1>17, <1>21, <1>23, <1>24
  <2>4. k.seg[m].end = q /\ k.seg[n].start = q
    BY <1>22, <1>23, <2>1, <2>2, <2>3 DEF Fresh
  <2> QED BY <1>21, <1>22, <1>24, <2>2, <2>3, <2>4 DEF Stands
<1>26. f.seg = g.seg /\ DOMAIN f.pnt = DOMAIN h.pnt
  BY <1>1, <1>3, <1>8, <1>10
<1>27. \A p \in DOMAIN g.pnt : /\ p \in DOMAIN k.pnt /\ k.pnt[p].at = g.pnt[p].at
                               /\ g.pnt[p].turn => k.pnt[p].turn
  <2>1. Extends(g, h)
    BY <1>1, <1>3, ExtendsOn
  <2> QED BY <1>7, <1>10, <1>23, <1>26, <2>1 DEF Extends
<1>28. ASSUME NEW x \in DOMAIN k.seg \ DOMAIN g.seg
       PROVE  k.seg[x].item = i /\ Lies(k, k.seg[x])
  <2>1. x = m \/ x = n
    BY <1>21, <1>22, <1>26, <1>28
  <2>2. k.seg[x].item = i
    BY <1>21, <1>22, <1>24, <2>1
  <2>3. CASE x = m
    <3>1. k.pnt[k.seg[x].start].at = Via[i][1] /\ k.pnt[k.seg[x].end].at = Via[i][1 + 1]
      BY <1>17, <1>21, <1>23, <1>24, <2>3
    <3> QED BY <2>2, <3>1 DEF Lies
  <2>4. CASE x = n
    <3>1. k.pnt[k.seg[x].start].at = Via[i][2] /\ k.pnt[k.seg[x].end].at = Via[i][2 + 1]
      BY <1>22, <2>4
    <3> QED BY <2>2, <3>1 DEF Lies
  <2> QED BY <2>1, <2>2, <2>3, <2>4
<1>29. DOMAIN g.seg \subseteq DOMAIN k.seg /\ \A x \in DOMAIN g.seg : k.seg[x] = g.seg[x]
  BY <1>17, <1>23, <1>26 DEF Extends
<1>30. ItemAdded(g, k, i)
  BY <1>15, <1>23, <1>25, <1>27, <1>28, <1>29 DEF ItemAdded, Road
<1> QED BY <1>2, <1>19, <1>30

LEMMA AddIs ==
  ASSUME NEW g, Sound(g), Fresh(g), NEW i \in Street \cup Restriction
  PROVE  ItemAdded(g, Add(g, i), i)
BY AddStreetIs, AddDistortionIs, AddRestrictionIs DEF Add

-----------------------------------------------------------------------------
(* The invariant holds *)
LEMMA InitInv == Init => Inv
<1> SUFFICES ASSUME Init PROVE Inv
  OBVIOUS
<1>1. graph = [pnt |-> <<>>, seg |-> <<>>]
  BY DEF Init
<1>2. Sound(graph) /\ Fresh(graph)
  BY <1>1 DEF Sound, Fresh, Graph, NoTwins
<1>3. Twice \subseteq Street \cup Restriction
  BY GraphAssumption DEF GraphAssumption
<1> QED BY <1>2, <1>3 DEF Init, Inv

LEMMA StepInv == Inv /\ [Next]_vars => Inv'
<1> SUFFICES ASSUME Inv, [Next]_vars PROVE Inv'
  OBVIOUS
<1>1. ASSUME NEW i \in Street \cup Restriction, Read(i) PROVE Inv'
  <2>1. Sound(graph) /\ Fresh(graph) /\ todo = {} /\ ~ready
    BY <1>1 DEF Inv, Read
  <2>2. Sound(graph') /\ Fresh(graph')
    <3>1. ItemAdded(graph, Add(graph, i), i)
      BY <2>1, AddIs
    <3> QED BY <1>1, <3>1 DEF Read, ItemAdded
  <2>3. (Sound(graph))' /\ (Fresh(graph))'
    BY <2>2 DEF Sound, Fresh, Graph, Fits, NoTwins, Copied, Restricted, Road, Twins, Pnt, Seg
  <2>4. unread' \subseteq unread /\ again' \subseteq again
    BY <1>1 DEF Read
  <2> QED BY <1>1, <2>1, <2>3, <2>4 DEF Inv, Read
<1>2. ASSUME BuildDone PROVE Inv'
  <2>1. (Sound(graph))'
    BY <1>2 DEF Inv, BuildDone, Sound, Graph, Fits, NoTwins, Copied, Restricted, Road, Twins, Pnt, Seg
  <2>2. ToResolve' = ToResolve
    BY <1>2 DEF BuildDone, ToResolve
  <2> QED BY <1>2, <2>1, <2>2 DEF Inv, BuildDone
<1>3. ASSUME NEW p \in todo, Resolve(p) PROVE Inv'
  <2>1. Sound(graph) /\ p \in DOMAIN graph.pnt /\ graph.pnt[p].turn
    BY DEF Inv, ToResolve
  <2>2. Sound(graph') /\ Extends(graph, graph')
    BY <1>3, <2>1, ProcessPointIs DEF Resolve
  <2>3. (Sound(graph))'
    BY <2>2 DEF Sound, Graph, Fits, NoTwins, Copied, Restricted, Road, Twins, Pnt, Seg
  <2>4. ToResolve \subseteq ToResolve'
    BY <2>2 DEF Extends, ToResolve
  <2> QED BY <1>3, <2>3, <2>4 DEF Inv, Resolve
<1>4. ASSUME UNCHANGED vars PROVE Inv'
  BY <1>4 DEF vars, Inv, Sound, Fresh, Graph, Fits, NoTwins, Copied, Restricted, Road, Twins, Pnt,
              Seg, ToResolve
<1> QED BY <1>1, <1>2, <1>3, <1>4 DEF Next

LEMMA InvAlways == Spec => []Inv
<1>1. Init => Inv
  BY InitInv
<1>2. Inv /\ [Next]_vars => Inv'
  BY StepInv
<1> QED BY <1>1, <1>2, PTL DEF Spec

(* Every segment stands between two points of the graph, and the points    *)
(* still to be resolved are points of it.                                  *)
THEOREM TypesHold == Spec => []TypeOK
<1>1. Inv => TypeOK
  <2> SUFFICES ASSUME Inv PROVE TypeOK
    OBVIOUS
  <2>1. graph \in Graph
    BY DEF Inv, Sound
  <2>2. \A i \in DOMAIN graph.seg :
          {graph.seg[i].start, graph.seg[i].end} \subseteq DOMAIN graph.pnt
    BY DEF Inv, Sound, Fits
  <2>3. todo \subseteq DOMAIN graph.pnt
    BY DEF Inv, ToResolve
  <2> QED BY <2>1, <2>2, <2>3 DEF TypeOK, Graph, Inv
<1> QED BY <1>1, InvAlways, PTL

(* However often tiles give a street, and however many restricted points   *)
(* it is copied at, no two segments of it stand between the same points:   *)
(* a copied point has only copies made for it, each of another segment.    *)
THEOREM OnceOnly == Spec => []NothingTwice
<1>1. Inv => NothingTwice
  BY DEF Inv, Sound, NoTwins, NothingTwice, Road, Twins
<1> QED BY <1>1, InvAlways, PTL

(* A street is made longer once for each of its ends that is copied, and   *)
(* an end that is a copy is not copied again.                              *)
THEOREM HardlyLonger == Spec => []CopiesBarelyLonger
<1>1. Inv => CopiesBarelyLonger
  <2> SUFFICES ASSUME Inv, NEW v \in Drives, From[v[1].item] # To[v[1].item]
               PROVE  v[1].len <= Cardinality({c \in {From[v[1].item], To[v[1].item]} :
                                                 Restricted(c)})
    BY DEF CopiesBarelyLonger
  <2> DEFINE s == v[1]
             a == From[s.item]  b == To[s.item]
             R == {c \in {a, b} : Restricted(c)}
             x == Copied(graph, s.start)  y == Copied(graph, s.end)
  <2>1. s \in ToSet(graph.seg) /\ Road(s)
    BY DEF Drives, Drivable, Road
  <2>2. PICK k \in DOMAIN graph.seg : s = graph.seg[k]
    BY <2>1 DEF ToSet
  <2>3. s \in Seg /\ Fits(graph, s)
    BY <2>2, FieldsTyped DEF Inv, Sound
  <2>4. s.len \in Nat /\ s.len <= x + y
    BY <2>1, <2>3 DEF Fits, Seg
  <2>5. /\ x \in {0, 1} /\ y \in {0, 1}
        /\ x = 1 => Restricted(a)
        /\ y = 1 => Restricted(b)
    BY <2>1, <2>3 DEF Copied, Fits
  <2> HIDE DEF x, y, s
  <2>6. x + y <= Cardinality(R)
    <3>1. a # b
      BY DEF s
    <3> HIDE DEF a, b
    <3>2. CASE Restricted(a) /\ Restricted(b)
      <4>1. R = {a, b}
        BY <3>2
      <4>2. Cardinality({a, b}) = 2
        BY <3>1, TwoAre
      <4> HIDE DEF R
      <4> QED BY <2>5, <4>1, <4>2
    <3>3. CASE Restricted(a) /\ ~Restricted(b)
      <4>1. R = {a}
        BY <3>3
      <4>2. Cardinality({a}) = 1
        BY FS_Singleton
      <4> HIDE DEF R
      <4> QED BY <2>5, <3>3, <4>1, <4>2
    <3>4. CASE ~Restricted(a) /\ Restricted(b)
      <4>1. R = {b}
        BY <3>4
      <4>2. Cardinality({b}) = 1
        BY FS_Singleton
      <4> HIDE DEF R
      <4> QED BY <2>5, <3>4, <4>1, <4>2
    <3>5. CASE ~Restricted(a) /\ ~Restricted(b)
      <4>1. R = {}
        BY <3>5
      <4>2. Cardinality({}) = 0
        BY FS_EmptySet
      <4> HIDE DEF R
      <4> QED BY <2>5, <3>5, <4>1, <4>2
    <3> QED BY <3>2, <3>3, <3>4, <3>5
  <2>7. Cardinality(R) \in Nat
    <3>1. IsFiniteSet({a, b})
      <4>1. IsFiniteSet({a}) /\ {a} \cup {b} = {a, b}
        BY FS_Singleton
      <4>2. IsFiniteSet({a} \cup {b})
        BY <4>1, FS_AddElement
      <4> QED BY <4>1, <4>2
    <3>2. IsFiniteSet(R)
      BY <3>1, FS_Subset
    <3> QED BY <3>2, FS_CardinalityType
  <2> HIDE DEF R
  <2>8. s.len <= Cardinality(R)
    BY <2>4, <2>5, <2>6, <2>7
  <2> QED BY <2>8 DEF R, s
<1> QED BY <1>1, InvAlways, PTL

-----------------------------------------------------------------------------
(* Ways.  Street i driven in direction e. *)
Driven(i, e) ==
  IF e = 1 THEN [item |-> i, from |-> From[i], to |-> To[i]]
           ELSE [item |-> i, from |-> To[i], to |-> From[i]]

(* One may drive street i in direction e from point a to b over segment s, *)
(* and over some segment of g                                              *)
Leads(s, i, e, a, b) ==
  /\ Road(s) /\ s.item = i /\ OneWayFlag(-e) \notin s.flags
  /\ Behind(s, e) = a /\ Ahead(s, e) = b

Way(g, i, e, a, b) == \E k \in DOMAIN g.seg : Leads(g.seg[k], i, e, a, b)

(* Restrictions are where they belong *)
Restr(g) ==
  /\ \A p \in DOMAIN g.pnt, q \in DOMAIN g.pnt :
       g.pnt[p].turn /\ g.pnt[q].turn /\ g.pnt[p].at = g.pnt[q].at => p = q
  /\ \A k \in DOMAIN g.seg : Lies(g, g.seg[k])
  /\ \A r \in Restriction : Stands(g, r)

LEMMA DrivenIs ==
  ASSUME NEW g, NEW s, Fits(g, s), Road(s), NEW e \in {1, -1}
  PROVE  /\ Driven(s.item, e).item = s.item
         /\ Driven(s.item, e).from = g.pnt[Behind(s, e)].at
         /\ Driven(s.item, e).to = g.pnt[Ahead(s, e)].at
BY DEF Fits, Driven, Behind, Ahead

(* What a way of street i from a to b needs *)
Spans(g, i, e, a, b) ==
  /\ i \in Street \ Distortion /\ a # b
  /\ a \in DOMAIN g.pnt /\ b \in DOMAIN g.pnt
  /\ Driven(i, e).item = i
  /\ Driven(i, e).from = g.pnt[a].at /\ Driven(i, e).to = g.pnt[b].at

LEMMA WayIs ==
  ASSUME PlainNetwork, NEW g, Sound(g), NEW i, NEW e \in {1, -1}, NEW a, NEW b,
         Way(g, i, e, a, b)
  PROVE  Spans(g, i, e, a, b)
<1>1. PICK k \in DOMAIN g.seg : Leads(g.seg[k], i, e, a, b)
  BY DEF Way
<1> DEFINE s == g.seg[k]
<1>2. Fits(g, s) /\ Road(s) /\ s.item = i /\ Behind(s, e) = a /\ Ahead(s, e) = b
  BY <1>1 DEF Sound, Leads
<1> HIDE DEF s
<1>3. /\ Driven(i, e).item = i
      /\ Driven(i, e).from = g.pnt[a].at /\ Driven(i, e).to = g.pnt[b].at
  BY <1>2, DrivenIs
<1>4. i \in Street \ Distortion /\ Driven(i, e).from # Driven(i, e).to
  BY <1>2 DEF Road, PlainNetwork, Driven
<1>5. a \in DOMAIN g.pnt /\ b \in DOMAIN g.pnt
  BY <1>2 DEF Fits, Behind, Ahead
<1> QED BY <1>3, <1>4, <1>5 DEF Spans

(* Copies of ways and new points leave restrictions alone *)
LEMMA RestrOn ==
  ASSUME NEW g, NEW h, Sound(g), Restr(g), Extends(g, h),
         \A q \in DOMAIN h.pnt \ DOMAIN g.pnt : ~h.pnt[q].turn,
         \A k \in DOMAIN h.seg \ DOMAIN g.seg : IsWay(h.seg[k])
  PROVE  Restr(h)
<1>1. \A p \in DOMAIN h.pnt, q \in DOMAIN h.pnt :
        h.pnt[p].turn /\ h.pnt[q].turn /\ h.pnt[p].at = h.pnt[q].at => p = q
  BY DEF Restr, Extends
<1>2. \A k \in DOMAIN g.seg : /\ g.seg[k].start \in DOMAIN g.pnt /\ g.seg[k].end \in DOMAIN g.pnt
                              /\ h.seg[k] = g.seg[k] /\ k \in DOMAIN h.seg
  BY DEF Sound, Fits, Extends
<1>3. \A q \in DOMAIN g.pnt : h.pnt[q] = g.pnt[q]
  BY DEF Extends
<1>4. ASSUME NEW k \in DOMAIN h.seg PROVE Lies(h, h.seg[k])
  <2>1. CASE k \in DOMAIN g.seg
    <3>1. Lies(g, g.seg[k])
      BY <2>1 DEF Restr
    <3> QED BY <1>2, <1>3, <2>1, <3>1 DEF Lies
  <2>2. CASE k \notin DOMAIN g.seg
    BY <2>2 DEF Lies, IsWay
  <2> QED BY <2>1, <2>2
<1>5. ASSUME NEW r \in Restriction PROVE Stands(h, r)
  <2>1. PICK k \in DOMAIN g.seg, l \in DOMAIN g.seg :
          /\ g.seg[k].item = r /\ g.seg[l].item = r
          /\ g.seg[k].end = g.seg[l].start /\ g.pnt[g.seg[k].end].turn
          /\ g.pnt[g.seg[k].start].at = Via[r][1] /\ g.pnt[g.seg[k].end].at = Via[r][2]
          /\ g.pnt[g.seg[l].end].at = Via[r][3]
    BY DEF Restr, Stands
  <2>2. /\ h.seg[k].item = r /\ h.seg[l].item = r
        /\ h.seg[k].end = h.seg[l].start /\ h.pnt[h.seg[k].end].turn
        /\ h.pnt[h.seg[k].start].at = Via[r][1] /\ h.pnt[h.seg[k].end].at = Via[r][2]
        /\ h.pnt[h.seg[l].end].at = Via[r][3]
    BY <1>2, <1>3, <2>1
  <2> QED BY <1>2, <2>2 DEF Stands
<1> QED BY <1>1, <1>4, <1>5 DEF Restr

(* is_turn_allowed says what the restrictions say *)
LEMMA TurnIs ==
  ASSUME PlainNetwork, NEW g, Sound(g), Restr(g), NEW p \in DOMAIN g.pnt, g.pnt[p].turn,
         NEW s, NEW d \in {1, -1}, Fits(g, s), Road(s), Behind(s, d) = p,
         NEW t, NEW f \in {1, -1}, Fits(g, t), Road(t), Behind(t, f) = p
  PROVE  IsTurnAllowed(g, p, s, t) <=> Permitted(Driven(s.item, -d), Driven(t.item, f))
<1> DEFINE from == g.pnt[Ahead(s, d)].at
           to == g.pnt[Ahead(t, f)].at
           k == Driven(s.item, -d)
           l == Driven(t.item, f)
<1>1. Behind(s, -d) = Ahead(s, d) /\ Ahead(s, -d) = p /\ -d \in {1, -1}
  BY DEF Behind, Ahead
<1>2. /\ k.item = s.item /\ k.from = from /\ k.to = g.pnt[p].at
      /\ l.item = t.item /\ l.from = g.pnt[p].at /\ l.to = to
  BY <1>1, DrivenIs
<1>3. s.start # s.end /\ t.start # t.end
  BY DEF PlainNetwork, Fits, Road
<1>4. Opposite(g, p, s) = from /\ Opposite(g, p, t) = to
  BY <1>3 DEF Opposite, Behind, Ahead
<1> HIDE DEF from, to, k, l
<1>5. ASSUME NEW r \in Restriction
      PROVE  Via[r][1] # Via[r][2] /\ Via[r][2] # Via[r][3] /\ Via[r][1] # Via[r][3]
  BY GraphAssumption DEF GraphAssumption, PlainNetwork, IsInjective
<1> DEFINE At == g.pnt[p].at
<1>6. ASSUME IsTurnAllowed(g, p, s, t) PROVE Permitted(k, l)
  <2>1. ASSUME NEW r \in Restriction, Via[r][1] = from, Via[r][2] = At
        PROVE  IF Kind[r] = "no" THEN Via[r][3] # to ELSE Via[r][3] = to
    <3>1. PICK m \in DOMAIN g.seg, n \in DOMAIN g.seg :
            /\ g.seg[m].item = r /\ g.seg[n].item = r
            /\ g.seg[m].end = g.seg[n].start /\ g.pnt[g.seg[m].end].turn
            /\ g.pnt[g.seg[m].start].at = Via[r][1] /\ g.pnt[g.seg[m].end].at = Via[r][2]
            /\ g.pnt[g.seg[n].end].at = Via[r][3]
      BY DEF Restr, Stands
    <3> DEFINE u == g.seg[m]
               v == g.seg[n]
    <3>2. u.end \in DOMAIN g.pnt
      BY DEF Sound, Fits
    <3>3. u.end = p
      BY <2>1, <3>1, <3>2 DEF Restr
    <3>4. u \in Ending(g, p) /\ v \in Starting(g, p)
      BY <3>1, <3>3 DEF Ending, Starting, ToSet
    <3>5. ~Forbids(r, to, Via[r][3])
      BY <1>4, <1>6, <2>1, <3>1, <3>4 DEF IsTurnAllowed
    <3> QED BY <3>5 DEF Forbids
  <2> QED BY <1>2, <1>6, <2>1 DEF Permitted, IsTurnAllowed
<1>7. ASSUME Permitted(k, l) PROVE IsTurnAllowed(g, p, s, t)
  <2>1. s.item # t.item
    BY <1>2, <1>7 DEF Permitted
  <2>2. ASSUME NEW u \in Ending(g, p), NEW v \in Starting(g, p), u.item \in Restriction,
               g.pnt[u.start].at = from, v.item = u.item
        PROVE  ~Forbids(u.item, to, g.pnt[v.end].at)
    <3> DEFINE r == u.item
    <3>1. Lies(g, u) /\ Lies(g, v) /\ u.end = p /\ v.start = p
      BY DEF Ending, Starting, ToSet, Restr
    <3>2. PICK n \in {1, 2} : from = Via[r][n] /\ At = Via[r][n + 1]
      BY <2>2, <3>1 DEF Lies
    <3>3. PICK m \in {1, 2} : At = Via[r][m] /\ g.pnt[v.end].at = Via[r][m + 1]
      BY <2>2, <3>1 DEF Lies
    <3>4. Via[r][1] # Via[r][2] /\ Via[r][2] # Via[r][3] /\ Via[r][1] # Via[r][3]
      BY <1>5, <2>2
    <3>5. n = 1 /\ m = 2
      <4>1. CASE n = 2
        <5>1. At = Via[r][3]
          BY <3>2, <4>1
        <5>2. At = Via[r][1] \/ At = Via[r][2]
          BY <3>3
        <5> QED BY <3>4, <5>1, <5>2
      <4>2. CASE n = 1
        <5>1. At = Via[r][2]
          BY <3>2, <4>2
        <5>2. m # 1
          BY <3>3, <3>4, <5>1
        <5> QED BY <4>2, <5>2
      <4> QED BY <4>1, <4>2
    <3>6. from = Via[r][1] /\ At = Via[r][2] /\ g.pnt[v.end].at = Via[r][3]
      BY <3>2, <3>3, <3>5
    <3>7. IF Kind[r] = "no" THEN Via[r][3] # to ELSE Via[r][3] = to
      BY <1>2, <1>7, <2>2, <3>6 DEF Permitted
    <3> QED BY <3>6, <3>7 DEF Forbids
  <2> QED BY <1>4, <2>1, <2>2 DEF IsTurnAllowed
<1> QED BY <1>6, <1>7 DEF k, l

-----------------------------------------------------------------------------
(* The ways that copies are *)
LEMMA FlagsDiffer ==
  ASSUME NEW d \in {1, -1}
  PROVE  OneWayFlag(d) # OneWayFlag(-d) /\ -(-d) = d
<1>1. d \in Int
  OBVIOUS
<1>2. -(-d) = d /\ (d = 1 <=> -d # 1)
  BY <1>1
<1> QED BY <1>2 DEF OneWayFlag

(* A copy with the flag of direction f can only be driven in direction f *)
LeadsAsCopy(c, s, d, pn, f, i, e, a, b) ==
  Leads(c, i, e, a, b) <=>
    /\ Road(s) /\ s.item = i /\ e = f
    /\ f = d => a = pn /\ b = Ahead(s, d)
    /\ f # d => a = Ahead(s, d) /\ b = pn

LEMMA CopyLeads ==
  ASSUME NEW c, NEW s, NEW d \in {1, -1}, NEW pn, NEW f \in {1, -1}, NEW flag, flag = OneWayFlag(f),
         IsCopy(c, s, d, pn, flag), OneWayFlag(-f) \notin s.flags,
         NEW i, NEW e \in {1, -1}, NEW a, NEW b
  PROVE  LeadsAsCopy(c, s, d, pn, f, i, e, a, b)
<1>1. OneWayFlag(f) # OneWayFlag(-f) /\ OneWayFlag(-f) \notin c.flags /\ OneWayFlag(f) \in c.flags
  BY FlagsDiffer DEF IsCopy
<1>2. Road(c) = Road(s) /\ c.item = s.item
  BY DEF IsCopy, Road
<1>4. OneWayFlag(-e) \notin c.flags <=> e = f
  <2>1. e # f => OneWayFlag(-e) = OneWayFlag(f)
    <3>1. e # f => -e = f
      OBVIOUS
    <3> QED BY <3>1
  <2> QED BY <1>1, <2>1
<1>5. Behind(c, d) = pn /\ Ahead(c, d) = Ahead(s, d)
  BY DEF IsCopy
<1>6. IF f = d THEN Behind(c, f) = pn /\ Ahead(c, f) = Ahead(s, d)
                ELSE Behind(c, f) = Ahead(s, d) /\ Ahead(c, f) = pn
  <2>1. f # d => Behind(c, f) = Ahead(c, d) /\ Ahead(c, f) = Behind(c, d)
    BY DEF Behind, Ahead
  <2> QED BY <1>5, <2>1
<1> QED BY <1>2, <1>4, <1>6 DEF Leads, LeadsAsCopy

(* What leaving adds to the ways *)
AddsWays(g, h, p, s, pn, d, i, e, a, b) ==
  Way(h, i, e, a, b) <=>
    \/ Way(g, i, e, a, b)
    \/ /\ e = d /\ a = pn
       /\ \E k \in DOMAIN g.seg : Takes(g, p, s, d, g.seg[k]) /\ Leads(g.seg[k], i, d, p, b)

LEMMA LeftWays ==
  ASSUME NEW g, NEW h, NEW p, NEW s \in Seg, NEW pn, NEW d \in {1, -1},
         Leaves(g, p, s, pn, d), Left(g, h, p, s, pn, d, 1),
         NEW i, NEW e \in {1, -1}, NEW a, NEW b
  PROVE  AddsWays(g, h, p, s, pn, d, i, e, a, b)
<1> DEFINE D(k) == Copy(g.seg[k], d, pn, OneWayFlag(d))
<1>1. DOMAIN g.seg \subseteq Nat \ {0} /\ pn \in Nat /\ \A k \in DOMAIN g.seg : g.seg[k] \in Seg
  <2>1. g \in Graph /\ pn \in DOMAIN g.pnt
    BY DEF Leaves, Sound, CopyPoint
  <2>2. g.seg \in Seq(Seg) /\ g.pnt \in Seq(Pnt)
    BY <2>1, FieldsTyped
  <2> QED BY <2>1, <2>2
<1>2. \A k \in DOMAIN g.seg : k >= 1
  BY <1>1
<1>3. \A k \in DOMAIN g.seg : IsCopy(D(k), g.seg[k], d, pn, OneWayFlag(d))
  BY <1>1, CopyIs, FlagsAre
<1>4. /\ \A j \in DOMAIN h.seg \ DOMAIN g.seg : \E k \in DOMAIN g.seg :
           Takes(g, p, s, d, g.seg[k]) /\ h.seg[j] = D(k)
      /\ \A k \in DOMAIN g.seg : Takes(g, p, s, d, g.seg[k]) =>
           \E j \in DOMAIN h.seg : h.seg[j] = D(k)
  BY <1>2 DEF Left
<1> HIDE DEF D
<1>5. ASSUME NEW k \in DOMAIN g.seg, Takes(g, p, s, d, g.seg[k])
      PROVE  Leads(D(k), i, e, a, b) <=> e = d /\ a = pn /\ Leads(g.seg[k], i, d, p, b)
  <2>1. OneWayFlag(-d) \notin g.seg[k].flags /\ Behind(g.seg[k], d) = p
    BY <1>5 DEF Takes
  <2>2. Leads(D(k), i, e, a, b) <=>
          Road(g.seg[k]) /\ g.seg[k].item = i /\ e = d /\ a = pn /\ b = Ahead(g.seg[k], d)
    <3>1. PICK c, t : c = D(k) /\ t = g.seg[k]
      OBVIOUS
    <3>2. IsCopy(c, t, d, pn, OneWayFlag(d)) /\ OneWayFlag(-d) \notin t.flags
      BY <1>3, <2>1, <3>1
    <3>3. LeadsAsCopy(c, t, d, pn, d, i, e, a, b)
      BY <3>2, CopyLeads
    <3> QED BY <3>1, <3>3 DEF LeadsAsCopy
  <2> QED BY <2>1, <2>2 DEF Leads
<1>6. DOMAIN g.seg \subseteq DOMAIN h.seg /\ \A k \in DOMAIN g.seg : h.seg[k] = g.seg[k]
  BY DEF Left, Extends
<1>7. ASSUME Way(h, i, e, a, b), ~Way(g, i, e, a, b)
      PROVE  /\ e = d /\ a = pn
             /\ \E k \in DOMAIN g.seg : Takes(g, p, s, d, g.seg[k]) /\ Leads(g.seg[k], i, d, p, b)
  <2>1. PICK j \in DOMAIN h.seg : Leads(h.seg[j], i, e, a, b)
    BY <1>7 DEF Way
  <2>2. j \notin DOMAIN g.seg
    BY <1>6, <1>7, <2>1 DEF Way
  <2>3. PICK k \in DOMAIN g.seg : Takes(g, p, s, d, g.seg[k]) /\ h.seg[j] = D(k)
    BY <1>4, <2>2
  <2> QED BY <1>5, <2>1, <2>3
<1>8. ASSUME Way(g, i, e, a, b) PROVE Way(h, i, e, a, b)
  BY <1>6, <1>8 DEF Way
<1>9. ASSUME e = d, a = pn, NEW k \in DOMAIN g.seg, Takes(g, p, s, d, g.seg[k]),
             Leads(g.seg[k], i, d, p, b)
      PROVE  Way(h, i, e, a, b)
  BY <1>4, <1>5, <1>9 DEF Way
<1> QED BY <1>7, <1>8, <1>9 DEF AddsWays

(* What adding a copy adds *)
LEMMA AddedWay ==
  ASSUME NEW g, NEW h, NEW c, Sound(g), c \in Seg, h = AddSegment(g, c),
         NEW i, NEW e, NEW a, NEW b
  PROVE  Way(h, i, e, a, b) <=> Way(g, i, e, a, b) \/ Leads(c, i, e, a, b)
<1>1. /\ DOMAIN h.seg = DOMAIN g.seg \cup {Len(g.seg) + 1}
      /\ \A q \in DOMAIN g.seg : h.seg[q] = g.seg[q]
      /\ h.seg[Len(g.seg) + 1] = c
  BY AddSegmentIs DEF Sound
<1> QED BY <1>1 DEF Way

(* ... and to what the restrictions allow *)
LEMMA AllowedLeft ==
  ASSUME PlainNetwork, NEW g, NEW h, NEW p, NEW s \in Seg, NEW pn, NEW d \in {1, -1},
         Leaves(g, p, s, pn, d), Left(g, h, p, s, pn, d, 1), Restr(g),
         NEW f \in {1, -1}, Fits(g, s), Road(s), Behind(s, f) = p,
         NEW i, NEW e \in {1, -1}, NEW a, NEW b
  PROVE  Way(h, i, e, a, b) <=>
           \/ Way(g, i, e, a, b)
           \/ e = d /\ a = pn /\ Way(g, i, e, p, b) /\ Permitted(Driven(s.item, -f), Driven(i, e))
<1>1. Sound(g) /\ p \in DOMAIN g.pnt /\ g.pnt[p].turn
  BY DEF Leaves, CopyPoint
<1>2. ASSUME NEW t, Fits(g, t), Leads(t, i, d, p, b)
      PROVE  Takes(g, p, s, d, t) <=> Permitted(Driven(s.item, -f), Driven(i, d))
  <2>1. Road(t) /\ t.item = i /\ Behind(t, d) = p /\ OneWayFlag(-d) \notin t.flags
    BY <1>2 DEF Leads
  <2>2. IsTurnAllowed(g, p, s, t) <=> Permitted(Driven(s.item, -f), Driven(t.item, d))
    BY <1>1, <1>2, <2>1, TurnIs
  <2>3. IsWay(t)
    BY <2>1, GraphAssumption DEF IsWay, Road, GraphAssumption
  <2>4. IsTurnAllowed(g, p, s, t) => t # s
    BY DEF IsTurnAllowed
  <2> QED BY <2>1, <2>2, <2>3, <2>4 DEF Takes
<1>3. \A k \in DOMAIN g.seg : Fits(g, g.seg[k])
  BY <1>1 DEF Sound
<1>4. (\E k \in DOMAIN g.seg : Takes(g, p, s, d, g.seg[k]) /\ Leads(g.seg[k], i, d, p, b))
      <=> Way(g, i, d, p, b) /\ Permitted(Driven(s.item, -f), Driven(i, d))
  BY <1>2, <1>3 DEF Way
<1>5. AddsWays(g, h, p, s, pn, d, i, e, a, b)
  BY LeftWays
<1> QED BY <1>4, <1>5 DEF AddsWays

(* Segments of restrictions stay as they are *)
LEMMA LeftRestr ==
  ASSUME NEW g, NEW h, NEW p, NEW s \in Seg, NEW pn, NEW d \in {1, -1},
         Leaves(g, p, s, pn, d), Left(g, h, p, s, pn, d, 1), Restr(g)
  PROVE  Restr(h)
<1>1. ASSUME NEW j \in DOMAIN h.seg \ DOMAIN g.seg PROVE IsWay(h.seg[j])
  <2>1. PICK k \in DOMAIN g.seg : /\ Takes(g, p, s, d, g.seg[k])
                                  /\ h.seg[j] = Copy(g.seg[k], d, pn, OneWayFlag(d))
    BY <1>1 DEF Left
  <2>2. h.seg[j].item = g.seg[k].item
    BY <2>1 DEF Copy
  <2> QED BY <2>1, <2>2 DEF Takes, IsWay
<1>2. Sound(g) /\ Extends(g, h) /\ DOMAIN h.pnt \ DOMAIN g.pnt = {}
  BY DEF Leaves, Left
<1> QED BY <1>1, <1>2, RestrOn

(* What resolving one segment s at p does to the ways: those that lead     *)
(* over s to p also lead to pn, and from there where the turn is allowed   *)
ArrivesAt(g, h, p, s, pn) ==
  \A i, a, b : \A e \in {1, -1} :
    /\ Way(h, i, e, a, b) =>
         \/ Way(g, i, e, a, b)
         \/ b = pn /\ Leads(s, i, e, a, p)
         \/ a = pn /\ Way(g, i, e, p, b)
    /\ Leads(s, i, e, a, p) => Way(h, i, e, a, pn)

GoesOnFrom(g, h, p, s, pn) ==
  \A i, j, a, b : \A e \in {1, -1}, f \in {1, -1} :
    Leads(s, i, e, a, p) =>
      (Way(h, j, f, pn, b) <=> Way(g, j, f, p, b) /\ Permitted(Driven(i, e), Driven(j, f)))

(* The new segment leads where s leads, and nowhere else *)
LeadsToo(c, pn, s, p, i, e, a, b) == Leads(c, i, e, a, b) <=> b = pn /\ Leads(s, i, e, a, p)

LEMMA CopyArrives ==
  ASSUME PlainNetwork, NEW g, NEW s, Fits(g, s), NEW d \in {1, -1}, NEW p, Behind(s, d) = p,
         OneWayFlag(d) \notin s.flags, NEW c, NEW pn, NEW flag, flag = OneWayFlag(-d),
         IsCopy(c, s, d, pn, flag), NEW i, NEW e \in {1, -1}, NEW a, NEW b
  PROVE  LeadsToo(c, pn, s, p, i, e, a, b)
<1>1. -d \in {1, -1} /\ d # -d /\ OneWayFlag(-(-d)) = OneWayFlag(d)
  <2>1. d \in Int
    OBVIOUS
  <2>2. -(-d) = d
    BY <2>1
  <2> QED BY <2>2
<1>2. LeadsAsCopy(c, s, d, pn, -d, i, e, a, b)
  BY <1>1, CopyLeads
<1>3. Leads(c, i, e, a, b) <=>
        Road(s) /\ s.item = i /\ e = -d /\ a = Ahead(s, d) /\ b = pn
  BY <1>1, <1>2 DEF LeadsAsCopy
<1>4. Road(s) => Ahead(s, d) # Behind(s, d)
  <2>1. Road(s) => s.start # s.end
    BY DEF Road, PlainNetwork, Fits
  <2> QED BY <2>1 DEF Ahead, Behind
<1>5. Ahead(s, -d) = p /\ Behind(s, -d) = Ahead(s, d) /\ (e = d \/ e = -d)
  BY DEF Ahead, Behind
<1>6. Leads(s, i, e, a, p) <=> Road(s) /\ s.item = i /\ e = -d /\ a = Ahead(s, d)
  <2>1. CASE e = d
    BY <1>1, <1>4, <2>1 DEF Leads
  <2>2. CASE e = -d
    BY <1>1, <1>5, <2>2 DEF Leads
  <2> QED BY <1>5, <2>1, <2>2
<1> QED BY <1>3, <1>6 DEF LeadsToo

(* Who drives to p over s does so against d *)
Towards(s, d, i, e) == e = -d /\ OneWayFlag(d) \notin s.flags /\ Road(s) /\ s.item = i

LEMMA TowardsIs ==
  ASSUME PlainNetwork, NEW g, NEW s, Fits(g, s), NEW d \in {1, -1}, NEW p, Behind(s, d) = p,
         NEW i, NEW e \in {1, -1}, NEW a, Leads(s, i, e, a, p)
  PROVE  Towards(s, d, i, e)
<1>1. Road(s) /\ s.item = i /\ OneWayFlag(-e) \notin s.flags /\ Ahead(s, e) = p
  BY DEF Leads
<1>2. s.start # s.end
  BY <1>1 DEF Road, PlainNetwork, Fits
<1>3. e # d
  BY <1>1, <1>2 DEF Ahead, Behind
<1>4. e = -d /\ -e = d
  BY <1>3
<1> QED BY <1>1, <1>4 DEF Towards

(* p has got the copy pn for those who come over s *)
OneCopied(g, h, p, s, pn) ==
  /\ Sound(h) /\ Restr(h) /\ Extends(g, h)
  /\ DOMAIN h.pnt = DOMAIN g.pnt \cup {pn} /\ pn \notin DOMAIN g.pnt
  /\ ~h.pnt[pn].turn /\ h.pnt[pn].at = g.pnt[p].at
  /\ ArrivesAt(g, h, p, s, pn) /\ GoesOnFrom(g, h, p, s, pn)

LEMMA BlockedCopied ==
  ASSUME PlainNetwork, NEW g, Sound(g), Restr(g), NEW p \in DOMAIN g.pnt,
         NEW s, Fits(g, s), NEW d \in {1, -1}, Behind(s, d) = p, OneWayFlag(d) \in s.flags
  PROVE  OneCopied(g, ProcessSegment(g, p, s, d), p, s, Len(g.pnt) + 1)
<1> DEFINE pn == Len(g.pnt) + 1
<1>1. PICK h : h = NewPoint(g, g.pnt[p].at)
  OBVIOUS
<1>2. g \in Graph
  BY DEF Sound
<1>3. g.pnt[p].at \in Coord
  BY <1>2, FieldsTyped DEF Pnt
<1>4. /\ h.seg = g.seg /\ DOMAIN h.pnt = DOMAIN g.pnt \cup {pn} /\ pn \notin DOMAIN g.pnt
      /\ h.pnt[pn] = [at |-> g.pnt[p].at, turn |-> FALSE, distorted |-> FALSE]
      /\ Sound(h) /\ Extends(g, h)
  BY <1>1, <1>2, <1>3, NewPointIs, NewPointSound
<1>5. ProcessSegment(g, p, s, d) = h
  BY <1>1 DEF ProcessSegment
<1> HIDE DEF pn
<1>6. Restr(h)
  BY <1>4, RestrOn
<1>7. \A i, a, b : \A e \in {1, -1} : ~Leads(s, i, e, a, p) /\ (Way(h, i, e, a, b) <=> Way(g, i, e, a, b))
  <2>1. \A i, a : \A e \in {1, -1} : ~Leads(s, i, e, a, p)
    BY TowardsIs DEF Towards
  <2> QED BY <1>4, <2>1 DEF Way
<1>8. ArrivesAt(g, h, p, s, pn) /\ GoesOnFrom(g, h, p, s, pn)
  BY <1>7 DEF ArrivesAt, GoesOnFrom
<1>9. OneCopied(g, h, p, s, pn)
  BY <1>4, <1>6, <1>8 DEF OneCopied
<1> QED BY <1>5, <1>9 DEF pn

LEMMA OpenCopied ==
  ASSUME PlainNetwork, NEW g, Sound(g), Restr(g), NEW p \in DOMAIN g.pnt, g.pnt[p].turn,
         NEW s \in Seg, Fits(g, s), IsWay(s), NEW d \in {1, -1}, Behind(s, d) = p,
         OneWayFlag(d) \notin s.flags
  PROVE  OneCopied(g, ProcessSegment(g, p, s, d), p, s, Len(g.pnt) + 1)
<1> DEFINE n == Len(g.pnt) + 1
<1>1. PICK h, pn : h = ProcessSegment(g, p, s, d) /\ pn = n
  OBVIOUS
<1>2. PICK q, c, i, j : Steps(g, p, s, d, h, q, pn, c, i, j)
  BY <1>1, ProcessSegmentSteps
<1> HIDE DEF n
<1>3. /\ Sound(q) /\ Extends(g, q) /\ q.seg = g.seg /\ CopyPoint(q, p, pn)
      /\ DOMAIN q.pnt = DOMAIN g.pnt \cup {pn} /\ pn \notin DOMAIN g.pnt
      /\ IsCopy(c, s, d, pn, OneWayFlag(-d)) /\ i = AddSegment(q, c)
      /\ Sound(i) /\ Extends(q, i) /\ i.pnt = q.pnt
      /\ Leaves(i, p, s, pn, 1) /\ Left(i, j, p, s, pn, 1, 1)
      /\ Leaves(j, p, s, pn, -1) /\ Left(j, h, p, s, pn, -1, 1)
  BY <1>2 DEF Steps
<1>4. /\ j.pnt = i.pnt /\ h.pnt = j.pnt /\ Extends(i, j) /\ Extends(j, h) /\ Sound(j) /\ Sound(h)
      /\ Extends(g, i)
  BY <1>3, ExtendsOn DEF Left
<1>5. Extends(g, h)
  BY <1>4, ExtendsOn
<1>6. Restr(i)
  <2>1. /\ DOMAIN i.seg = DOMAIN g.seg \cup {Len(q.seg) + 1} /\ i.seg[Len(q.seg) + 1] = c
    BY <1>3, AddSegmentIs DEF Sound, IsCopy
  <2>2. IsWay(c)
    BY <1>3 DEF IsCopy, IsWay
  <2>3. \A x \in DOMAIN i.pnt \ DOMAIN g.pnt : ~i.pnt[x].turn
    BY <1>3 DEF CopyPoint
  <2>4. \A k \in DOMAIN i.seg \ DOMAIN g.seg : IsWay(i.seg[k])
    BY <2>1, <2>2
  <2> QED BY <1>4, <2>3, <2>4, RestrOn
<1>7. Restr(j)
  BY <1>3, <1>6, LeftRestr
<1>8. Restr(h)
  BY <1>3, <1>7, LeftRestr
<1>9. /\ DOMAIN h.pnt = DOMAIN g.pnt \cup {pn} /\ pn \notin DOMAIN g.pnt
      /\ ~h.pnt[pn].turn /\ h.pnt[pn].at = g.pnt[p].at
  BY <1>3, <1>4 DEF CopyPoint, Extends
<1>10. ASSUME NEW x, NEW e \in {1, -1}, NEW a, NEW b
       PROVE  Way(i, x, e, a, b) <=> Way(g, x, e, a, b) \/ (b = pn /\ Leads(s, x, e, a, p))
  <2>1. Way(i, x, e, a, b) <=> Way(q, x, e, a, b) \/ Leads(c, x, e, a, b)
    BY <1>3, AddedWay DEF IsCopy
  <2>2. Way(q, x, e, a, b) <=> Way(g, x, e, a, b)
    BY <1>3 DEF Way
  <2>3. PICK flag : flag = OneWayFlag(-d)
    OBVIOUS
  <2>4. Leads(c, x, e, a, b) <=> b = pn /\ Leads(s, x, e, a, p)
    <3>1. IsCopy(c, s, d, pn, flag)
      BY <1>3, <2>3
    <3>2. LeadsToo(c, pn, s, p, x, e, a, b)
      BY <2>3, <3>1, CopyArrives
    <3> QED BY <3>2 DEF LeadsToo
  <2> QED BY <2>1, <2>2, <2>4
<1>11. ASSUME NEW x, NEW e \in {1, -1}, NEW a, NEW b
       PROVE  AddsWays(i, j, p, s, pn, 1, x, e, a, b) /\ AddsWays(j, h, p, s, pn, -1, x, e, a, b)
  BY <1>3, LeftWays
<1>12. ASSUME NEW x, NEW e \in {1, -1}, NEW a, NEW b, Way(h, x, e, a, b)
       PROVE  Way(i, x, e, a, b) \/ (a = pn /\ Way(i, x, e, p, b))
  <2>1. p # pn
    BY <1>9
  <2>2. ASSUME NEW y, Way(j, x, e, y, b)
        PROVE  Way(i, x, e, y, b) \/ (y = pn /\ Way(i, x, e, p, b))
    <3>1. AddsWays(i, j, p, s, pn, 1, x, e, y, b)
      BY <1>11
    <3> QED BY <2>2, <3>1 DEF AddsWays, Way
  <2>3. Way(j, x, e, a, b) \/ (a = pn /\ Way(j, x, e, p, b))
    <3>1. AddsWays(j, h, p, s, pn, -1, x, e, a, b)
      BY <1>11
    <3> QED BY <1>12, <3>1 DEF AddsWays, Way
  <2> QED BY <2>1, <2>2, <2>3
<1>13. ASSUME NEW x, NEW e \in {1, -1}, NEW b PROVE ~Leads(s, x, e, p, p)
  <2>1. ASSUME Leads(s, x, e, p, p) PROVE FALSE
    <3>1. Road(s) /\ s.start = s.end
      BY <2>1 DEF Leads, Behind, Ahead
    <3> QED BY <3>1 DEF Road, PlainNetwork, Fits
  <2> QED BY <2>1
<1>14. ArrivesAt(g, h, p, s, pn)
  <2> SUFFICES ASSUME NEW x, NEW a, NEW b, NEW e \in {1, -1}
               PROVE  /\ Way(h, x, e, a, b) =>
                           \/ Way(g, x, e, a, b)
                           \/ b = pn /\ Leads(s, x, e, a, p)
                           \/ a = pn /\ Way(g, x, e, p, b)
                      /\ Leads(s, x, e, a, p) => Way(h, x, e, a, pn)
    BY DEF ArrivesAt
  <2>1. Way(i, x, e, a, pn) => Way(h, x, e, a, pn)
    BY <1>4 DEF Way, Extends
  <2> QED BY <1>10, <1>12, <1>13, <2>1
<1>15. GoesOnFrom(g, h, p, s, pn)
  <2> SUFFICES ASSUME NEW x, NEW y, NEW a, NEW b, NEW e \in {1, -1}, NEW f \in {1, -1},
                      Leads(s, x, e, a, p)
               PROVE  Way(h, y, f, pn, b) <=>
                        Way(g, y, f, p, b) /\ Permitted(Driven(x, e), Driven(y, f))
    BY DEF GoesOnFrom
  <2>1. e = -d /\ Road(s) /\ s.item = x
    <3>1. Towards(s, d, x, e)
      BY TowardsIs
    <3> QED BY <3>1 DEF Towards
  <2>2. Fits(i, s) /\ Fits(j, s)
    BY <1>4, FitsOn DEF Extends
  <2> DEFINE ok == Permitted(Driven(x, e), Driven(y, f))
  <2>3. Way(j, y, f, pn, b) <=> Way(i, y, f, pn, b) \/ (f = 1 /\ Way(i, y, f, p, b) /\ ok)
    BY <1>3, <1>6, <2>1, <2>2, AllowedLeft
  <2>4. Way(h, y, f, pn, b) <=> Way(j, y, f, pn, b) \/ (f = -1 /\ Way(j, y, f, p, b) /\ ok)
    BY <1>3, <1>7, <2>1, <2>2, AllowedLeft
  <2>5. Way(j, y, f, p, b) <=> Way(i, y, f, p, b)
    <3>1. p # pn
      BY <1>9
    <3>2. AddsWays(i, j, p, s, pn, 1, y, f, p, b)
      BY <1>11
    <3> QED BY <3>1, <3>2 DEF AddsWays
  <2>6. Way(i, y, f, p, b) <=> Way(g, y, f, p, b)
    BY <1>10, <1>13
  <2>7. ~Way(i, y, f, pn, b)
    <3>1. ~Way(g, y, f, pn, b)
      <4>1. ASSUME Way(g, y, f, pn, b) PROVE FALSE
        <5>1. Spans(g, y, f, pn, b)
          BY <4>1, WayIs
        <5> QED BY <1>9, <5>1 DEF Spans
      <4> QED BY <4>1
    <3>2. ~Leads(s, y, f, pn, p)
      BY <1>9 DEF Leads, Behind, Fits
    <3> QED BY <1>10, <3>1, <3>2
  <2> HIDE DEF ok
  <2>8. Way(h, y, f, pn, b) <=> Way(g, y, f, p, b) /\ ok
    BY <2>3, <2>4, <2>5, <2>6, <2>7
  <2> QED BY <2>8 DEF ok
<1>16. OneCopied(g, h, p, s, pn)
  BY <1>4, <1>5, <1>8, <1>9, <1>14, <1>15 DEF OneCopied
<1> QED BY <1>1, <1>16 DEF n

-----------------------------------------------------------------------------
(* Resolving a point.  h is g with some of the copies of p: one comes to   *)
(* them as one came to p, and leaves them by the turns that are allowed.   *)
NewWays(g, h, p) ==
  \A i, a, b : \A e \in {1, -1} :
    Way(h, i, e, a, b) =>
      \/ Way(g, i, e, a, b)
      \/ b \notin DOMAIN g.pnt /\ Way(g, i, e, a, p)
      \/ a \notin DOMAIN g.pnt /\ Way(g, i, e, p, b)

TurnsFrom(g, h, p, i, e, j, f, b, c) ==
  Way(h, j, f, b, c) <=> Way(g, j, f, p, c) /\ Permitted(Driven(i, e), Driven(j, f))

NewTurns(g, h, p) ==
  \A i, j, a, b, c : \A e \in {1, -1}, f \in {1, -1} :
    b \notin DOMAIN g.pnt /\ Way(h, i, e, a, b) => TurnsFrom(g, h, p, i, e, j, f, b, c)

Grown(g, h, p) ==
  /\ Sound(h) /\ Restr(h) /\ Extends(g, h)
  /\ \A q \in DOMAIN h.pnt \ DOMAIN g.pnt : ~h.pnt[q].turn /\ h.pnt[q].at = g.pnt[p].at
  /\ NewWays(g, h, p) /\ NewTurns(g, h, p)

(* A way from a leads to one of the copies *)
Came(g, h, i, e, a) == \E b \in DOMAIN h.pnt \ DOMAIN g.pnt : Way(h, i, e, a, b)

LEMMA NoCircle ==
  ASSUME PlainNetwork, NEW g, Sound(g)
  PROVE  /\ \A i, a : \A e \in {1, -1} : ~Way(g, i, e, a, a)
         /\ \A i, a, b : \A e \in {1, -1} :
              Way(g, i, e, a, b) => a \in DOMAIN g.pnt /\ b \in DOMAIN g.pnt
<1>1. ASSUME NEW i, NEW a, NEW b, NEW e \in {1, -1}, Way(g, i, e, a, b)
      PROVE  a # b /\ a \in DOMAIN g.pnt /\ b \in DOMAIN g.pnt
  <2>1. Spans(g, i, e, a, b)
    BY <1>1, WayIs
  <2> QED BY <2>1 DEF Spans
<1> QED BY <1>1

LEMMA WaysStay ==
  ASSUME NEW g, NEW h, Extends(g, h), NEW i, NEW e, NEW a, NEW b, Way(g, i, e, a, b)
  PROVE  Way(h, i, e, a, b)
BY DEF Extends, Way

(* The point itself keeps its ways *)
LEMMA AtPoint ==
  ASSUME PlainNetwork, NEW g, Sound(g), NEW h, NEW p \in DOMAIN g.pnt, Grown(g, h, p)
  PROVE  \A i, a, b : \A e \in {1, -1} :
           /\ Way(h, i, e, p, b) <=> Way(g, i, e, p, b)
           /\ Way(h, i, e, a, p) <=> Way(g, i, e, a, p)
<1> SUFFICES ASSUME NEW i, NEW a, NEW b, NEW e \in {1, -1}
             PROVE  /\ Way(h, i, e, p, b) <=> Way(g, i, e, p, b)
                    /\ Way(h, i, e, a, p) <=> Way(g, i, e, a, p)
  OBVIOUS
<1>1. Extends(g, h) /\ NewWays(g, h, p)
  BY DEF Grown
<1>2. ~Way(g, i, e, p, p)
  BY NoCircle
<1>3. Way(h, i, e, p, b) => Way(g, i, e, p, b)
  BY <1>1, <1>2 DEF NewWays
<1>4. Way(h, i, e, a, p) => Way(g, i, e, a, p)
  BY <1>1, <1>2 DEF NewWays
<1>5. Way(g, i, e, p, b) => Way(h, i, e, p, b)
  BY <1>1, WaysStay
<1>6. Way(g, i, e, a, p) => Way(h, i, e, a, p)
  BY <1>1, WaysStay
<1> QED BY <1>3, <1>4, <1>5, <1>6

LEMMA GrowsOn ==
  ASSUME PlainNetwork, NEW g, Sound(g), NEW h, NEW p \in DOMAIN g.pnt, Grown(g, h, p),
         NEW s, \E x \in DOMAIN h.seg : s = h.seg[x],
         NEW k, NEW pn, OneCopied(h, k, p, s, pn)
  PROVE  /\ Grown(g, k, p)
         /\ \A i, a : \A e \in {1, -1} : Leads(s, i, e, a, p) => Came(g, k, i, e, a)
<1>1. /\ Extends(g, h) /\ NewWays(g, h, p) /\ NewTurns(g, h, p) /\ Sound(h)
      /\ \A q \in DOMAIN h.pnt \ DOMAIN g.pnt : ~h.pnt[q].turn /\ h.pnt[q].at = g.pnt[p].at
  BY DEF Grown
<1>2. /\ Sound(k) /\ Restr(k) /\ Extends(h, k)
      /\ DOMAIN k.pnt = DOMAIN h.pnt \cup {pn} /\ pn \notin DOMAIN h.pnt
      /\ ~k.pnt[pn].turn /\ k.pnt[pn].at = h.pnt[p].at
      /\ ArrivesAt(h, k, p, s, pn) /\ GoesOnFrom(h, k, p, s, pn)
  BY DEF OneCopied
<1>3. Extends(g, k)
  BY <1>1, <1>2, ExtendsOn
<1>4. pn \notin DOMAIN g.pnt /\ h.pnt[p] = g.pnt[p]
  BY <1>1, <1>2 DEF Extends
<1>5. \A q \in DOMAIN k.pnt \ DOMAIN g.pnt : ~k.pnt[q].turn /\ k.pnt[q].at = g.pnt[p].at
  BY <1>1, <1>2, <1>4 DEF Extends
<1>6. /\ \A i, a : \A e \in {1, -1} : ~Way(g, i, e, a, a)
      /\ \A i, a, b : \A e \in {1, -1} :
           Way(g, i, e, a, b) => a \in DOMAIN g.pnt /\ b \in DOMAIN g.pnt
  BY NoCircle
<1>7. /\ \A i, a : \A e \in {1, -1} : ~Way(h, i, e, a, a)
      /\ \A i, a, b : \A e \in {1, -1} :
           Way(h, i, e, a, b) => a \in DOMAIN h.pnt /\ b \in DOMAIN h.pnt
  BY <1>1, NoCircle
<1>8. \A i, a, b : \A e \in {1, -1} :
        /\ Way(h, i, e, p, b) <=> Way(g, i, e, p, b)
        /\ Way(h, i, e, a, p) <=> Way(g, i, e, a, p)
  BY AtPoint
<1>9. ASSUME NEW i, NEW e \in {1, -1}, NEW a, Leads(s, i, e, a, p)
      PROVE  Way(g, i, e, a, p)
  <2>1. Way(h, i, e, a, p)
    BY <1>9 DEF Way
  <2> QED BY <1>8, <2>1
<1>10. ASSUME NEW i, NEW a, NEW b, NEW e \in {1, -1}, Way(k, i, e, a, b)
       PROVE  \/ Way(h, i, e, a, b)
              \/ b = pn /\ Leads(s, i, e, a, p)
              \/ a = pn /\ Way(g, i, e, p, b)
  BY <1>2, <1>8, <1>10 DEF ArrivesAt
<1>11. NewWays(g, k, p)
  <2> SUFFICES ASSUME NEW i, NEW a, NEW b, NEW e \in {1, -1}, Way(k, i, e, a, b)
               PROVE  \/ Way(g, i, e, a, b)
                      \/ b \notin DOMAIN g.pnt /\ Way(g, i, e, a, p)
                      \/ a \notin DOMAIN g.pnt /\ Way(g, i, e, p, b)
    BY DEF NewWays
  <2>1. CASE Way(h, i, e, a, b)
    BY <1>1, <2>1 DEF NewWays
  <2>2. CASE b = pn /\ Leads(s, i, e, a, p)
    BY <1>4, <1>9, <2>2
  <2>3. CASE a = pn /\ Way(g, i, e, p, b)
    BY <1>4, <2>3
  <2> QED BY <1>10, <2>1, <2>2, <2>3
<1>12. NewTurns(g, k, p)
  <2> SUFFICES ASSUME NEW i, NEW j, NEW a, NEW b, NEW c, NEW e \in {1, -1}, NEW f \in {1, -1},
                      b \notin DOMAIN g.pnt, Way(k, i, e, a, b)
               PROVE  TurnsFrom(g, k, p, i, e, j, f, b, c)
    BY DEF NewTurns
  <2>1. ~(a = pn /\ Way(g, i, e, p, b))
    BY <1>6
  <2>2. CASE b = pn
    <3>1. Leads(s, i, e, a, p)
      <4>1. ~Way(h, i, e, a, pn)
        BY <1>2, <1>7
      <4> QED BY <1>10, <2>1, <2>2, <4>1
    <3>2. Way(k, j, f, pn, c) <=>
            Way(h, j, f, p, c) /\ Permitted(Driven(i, e), Driven(j, f))
      BY <1>2, <3>1 DEF GoesOnFrom
    <3> QED BY <1>8, <2>2, <3>2 DEF TurnsFrom
  <2>3. CASE b # pn
    <3>1. Way(h, i, e, a, b)
      BY <1>10, <2>1, <2>3
    <3>2. TurnsFrom(g, h, p, i, e, j, f, b, c)
      BY <1>1, <3>1 DEF NewTurns
    <3>3. Way(h, j, f, b, c) => Way(k, j, f, b, c)
      BY <1>2, WaysStay
    <3>4. ASSUME Way(k, j, f, b, c) PROVE Way(h, j, f, b, c)
      <4>1. ~Leads(s, j, f, b, p)
        BY <1>6, <1>9
      <4> QED BY <1>10, <2>3, <3>4, <4>1
    <3> QED BY <3>2, <3>3, <3>4 DEF TurnsFrom
  <2> QED BY <2>2, <2>3
<1>13. ASSUME NEW i, NEW a, NEW e \in {1, -1}, Leads(s, i, e, a, p) PROVE Came(g, k, i, e, a)
  <2>1. Way(k, i, e, a, pn) /\ pn \in DOMAIN k.pnt \ DOMAIN g.pnt
    BY <1>2, <1>4, <1>13 DEF ArrivesAt
  <2> QED BY <2>1 DEF Came
<1> QED BY <1>2, <1>3, <1>5, <1>11, <1>12, <1>13 DEF Grown

(* Every segment that is driven towards p from its end d has its copy *)
AllCame(g, h, k, p, S) ==
  \A x \in S : \A i, a : \A e \in {1, -1} : Leads(h.seg[x], i, e, a, p) => Came(g, k, i, e, a)

LEMMA CameOn ==
  ASSUME NEW g, NEW h, NEW k, Extends(h, k), NEW i, NEW e, NEW a, Came(g, h, i, e, a)
  PROVE  Came(g, k, i, e, a)
<1>1. PICK b \in DOMAIN h.pnt \ DOMAIN g.pnt : Way(h, i, e, a, b)
  BY DEF Came
<1>2. Way(k, i, e, a, b)
  BY <1>1, WaysStay
<1> QED BY <1>2 DEF Came, Extends

LEMMA AllGrown ==
  ASSUME PlainNetwork, NEW g, Sound(g), NEW p \in DOMAIN g.pnt, g.pnt[p].turn,
         NEW h, Grown(g, h, p), NEW d \in {1, -1}, NEW k, k = ProcessAll(h, p, d)
  PROVE  /\ Grown(g, k, p) /\ Extends(h, k)
         /\ AllCame(g, h, k, p, {x \in DOMAIN h.seg : Behind(h.seg[x], d) = p})
<1> DEFINE At(lo) == {x \in DOMAIN h.seg : x >= lo /\ Behind(h.seg[x], d) = p}
           Ok(f, lo) == /\ f \in Graph /\ Grown(g, f, p) /\ Extends(h, f)
                        /\ AllCame(g, h, f, p, At(lo))
<1>1. Sound(h) /\ Extends(g, h)
  BY DEF Grown
<1>2. p \in DOMAIN h.pnt /\ h.pnt[p].turn
  BY <1>1 DEF Extends
<1>3. PICK m, n : Rounds(h, p, d, m) /\ n = Len(h.seg)
  BY <1>1, <1>2, ProcessAllRounds
<1>4. h \in Graph /\ n \in Nat /\ DOMAIN h.seg = 1..n
      /\ \A x \in DOMAIN h.seg : h.seg[x] \in Seg /\ Fits(h, h.seg[x])
  <2>1. h \in Graph
    BY <1>1 DEF Sound
  <2>2. h.seg \in Seq(Seg)
    BY <2>1, FieldsTyped
  <2> QED BY <1>1, <1>3, <2>1, <2>2 DEF Sound
<1>5. Ok(m[0], n + 1)
  <2>1. m[0] = h
    BY <1>3 DEF Rounds
  <2>2. At(n + 1) = {}
    BY <1>4
  <2>3. Extends(h, h)
    BY DEF Extends
  <2> HIDE DEF At
  <2>4. AllCame(g, h, h, p, At(n + 1))
    BY <2>2 DEF AllCame
  <2> QED BY <1>4, <2>1, <2>3, <2>4
<1>6. ASSUME NEW r \in 1..n, Ok(m[r - 1], n + 1 - r + 1) PROVE Ok(m[r], n + 1 - r)
  <2>1. PICK f, s, x : f = m[r - 1] /\ x = n + 1 - r /\ s = h.seg[x]
    OBVIOUS
  <2>2. x \in DOMAIN h.seg /\ x \in Nat
    BY <1>4, <2>1
  <2>3. Ok(f, x + 1)
    BY <1>6, <2>1
  <2>4. s \in Seg /\ Fits(h, s) /\ Sound(f) /\ Restr(f) /\ Grown(g, f, p) /\ Extends(h, f)
    BY <1>4, <2>1, <2>2, <2>3 DEF Grown
  <2>5. Fits(f, s) /\ p \in DOMAIN f.pnt /\ f.pnt[p].turn /\ x \in DOMAIN f.seg /\ f.seg[x] = s
    BY <1>2, <2>1, <2>2, <2>4, FitsOn DEF Extends
  <2>6. m[r] = IF Behind(s, d) = p /\ IsWay(s) THEN ProcessSegment(f, p, s, d) ELSE f
    BY <1>3, <2>1 DEF Rounds
  <2>7. At(x) \subseteq At(x + 1) \cup {x} /\ (Behind(s, d) # p => At(x) = At(x + 1))
    <3>1. \A y \in DOMAIN h.seg : y >= x <=> y = x \/ y >= x + 1
      BY <1>4, <2>2
    <3> QED BY <2>1, <3>1
  <2>8. CASE Behind(s, d) = p /\ IsWay(s)
    <3>1. PICK j, pn : j = ProcessSegment(f, p, s, d) /\ pn = Len(f.pnt) + 1
      OBVIOUS
    <3>2. OneCopied(f, j, p, s, pn)
      BY <2>4, <2>5, <2>8, <3>1, BlockedCopied, OpenCopied
    <3>3. Grown(g, j, p)
          /\ \A i, a : \A e \in {1, -1} : Leads(s, i, e, a, p) => Came(g, j, i, e, a)
      BY <2>4, <2>5, <3>2, GrowsOn
    <3>4. Extends(f, j)
      BY <3>2 DEF OneCopied
    <3>5. Extends(h, j) /\ j \in Graph
      BY <2>4, <3>3, <3>4, ExtendsOn DEF Grown, Sound
    <3>6. AllCame(g, h, j, p, At(x))
      <4> SUFFICES ASSUME NEW y \in At(x), NEW i, NEW a, NEW e \in {1, -1},
                          Leads(h.seg[y], i, e, a, p)
                   PROVE  Came(g, j, i, e, a)
        BY DEF AllCame
      <4>1. CASE y = x
        BY <2>1, <3>3, <4>1
      <4>2. CASE y \in At(x + 1)
        <5>1. Came(g, f, i, e, a)
          BY <2>3, <4>2 DEF AllCame
        <5> QED BY <3>4, <5>1, CameOn
      <4> HIDE DEF At
      <4> QED BY <2>7, <4>1, <4>2
    <3> HIDE DEF At
    <3>7. Ok(j, x)
      BY <3>3, <3>5, <3>6
    <3> QED BY <2>1, <2>6, <2>8, <3>1, <3>7
  <2>9. CASE ~(Behind(s, d) = p /\ IsWay(s))
    <3>1. AllCame(g, h, f, p, At(x))
      <4> SUFFICES ASSUME NEW y \in At(x), NEW i, NEW a, NEW e \in {1, -1},
                          Leads(h.seg[y], i, e, a, p)
                   PROVE  Came(g, f, i, e, a)
        BY DEF AllCame
      <4>1. CASE y = x
        <5>1. Road(s) /\ Behind(s, d) = p
          BY <2>1, <4>1 DEF Leads
        <5>2. IsWay(s)
          BY <5>1, GraphAssumption DEF IsWay, Road, GraphAssumption
        <5> QED BY <2>9, <5>1, <5>2
      <4>2. CASE y \in At(x + 1)
        BY <2>3, <4>2 DEF AllCame
      <4> HIDE DEF At
      <4> QED BY <2>7, <4>1, <4>2
    <3> HIDE DEF At
    <3>2. Ok(f, x)
      BY <2>3, <3>1
    <3> QED BY <2>1, <2>6, <2>9, <3>2
  <2> QED BY <2>8, <2>9
<1> DEFINE K == [r \in 0..n |-> {f \in Graph : Ok(f, n + 1 - r)}]
<1>7. \A f, lo : Ok(f, lo) => f \in Graph
  OBVIOUS
<1> HIDE DEF Ok
<1>8. m[0] \in K[0] /\ \A r \in 1..n : m[r - 1] \in K[r - 1] => m[r] \in K[r]
  <2>1. 0 \in 0..n /\ n + 1 - 0 = n + 1
    BY <1>4
  <2>2. m[0] \in K[0]
    BY <1>5, <1>7, <2>1
  <2>3. ASSUME NEW r \in 1..n, m[r - 1] \in K[r - 1] PROVE m[r] \in K[r]
    <3>1. r \in 0..n /\ r - 1 \in 0..n /\ n + 1 - (r - 1) = n + 1 - r + 1
      BY <1>4
    <3> QED BY <1>6, <1>7, <2>3, <3>1
  <2> HIDE DEF K
  <2> QED BY <2>2, <2>3
<1>9. Ok(m[n], 1)
  <2>1. n \in 0..n /\ n + 1 - n = 1
    BY <1>4
  <2>2. m[n] \in K[n]
    <3> HIDE DEF K
    <3> QED BY <1>4, <1>8, Looped
  <2> QED BY <2>1, <2>2
<1>10. k = m[n]
  BY <1>3 DEF Rounds
<1>11. At(1) = {x \in DOMAIN h.seg : Behind(h.seg[x], d) = p}
  BY <1>4
<1> HIDE DEF At
<1> QED BY <1>9, <1>10, <1>11 DEF Ok

(* Everyone who came to p comes to one of its copies *)
LEMMA PointGrown ==
  ASSUME PlainNetwork, NEW g, Sound(g), Restr(g), NEW p \in DOMAIN g.pnt, g.pnt[p].turn,
         NEW k, k = ProcessPoint(g, p)
  PROVE  /\ Grown(g, k, p)
         /\ \A i, a : \A e \in {1, -1} : Way(g, i, e, a, p) => Came(g, k, i, e, a)
<1> DEFINE S(h, d) == {x \in DOMAIN h.seg : Behind(h.seg[x], d) = p}
<1>1. Grown(g, g, p)
  <2>1. Extends(g, g)
    BY DEF Extends
  <2>2. NewWays(g, g, p)
    BY DEF NewWays
  <2>3. NewTurns(g, g, p)
    <3>1. \A i, a, b : \A e \in {1, -1} : Way(g, i, e, a, b) => b \in DOMAIN g.pnt
      BY NoCircle
    <3> QED BY <3>1 DEF NewTurns
  <2> QED BY <2>1, <2>2, <2>3 DEF Grown
<1>2. PICK h : h = ProcessAll(g, p, 1)
  OBVIOUS
<1>3. Grown(g, h, p) /\ Extends(g, h) /\ AllCame(g, g, h, p, S(g, 1))
  BY <1>1, <1>2, AllGrown
<1>4. k = ProcessAll(h, p, -1)
  BY <1>2 DEF ProcessPoint
<1>5. Grown(g, k, p) /\ Extends(h, k) /\ AllCame(g, h, k, p, S(h, -1))
  BY <1>3, <1>4, AllGrown
<1>6. ASSUME NEW i, NEW a, NEW e \in {1, -1}, Way(g, i, e, a, p) PROVE Came(g, k, i, e, a)
  <2>1. PICK x \in DOMAIN g.seg : Leads(g.seg[x], i, e, a, p)
    BY <1>6 DEF Way
  <2>2. x \in DOMAIN h.seg /\ h.seg[x] = g.seg[x]
    BY <1>3 DEF Extends
  <2>3. CASE e = -1
    <3>1. x \in S(g, 1)
      BY <2>1, <2>3 DEF Leads, Ahead, Behind
    <3>2. Came(g, h, i, e, a)
      BY <1>3, <2>1, <3>1 DEF AllCame
    <3> QED BY <1>5, <3>2, CameOn
  <2>4. CASE e = 1
    <3>1. x \in S(h, -1)
      BY <2>1, <2>2, <2>4 DEF Leads, Ahead, Behind
    <3> QED BY <1>5, <2>1, <2>2, <3>1 DEF AllCame
  <2> QED BY <2>3, <2>4
<1> QED BY <1>5, <1>6

-----------------------------------------------------------------------------
(* While points are resolved, those of "open" still to come: what the      *)
(* graph connects is legal and allowed, ...                                *)
Legal(g) == \A i, a, b : \A e \in {1, -1} : Way(g, i, e, a, b) => Driven(i, e) \in Legs

TurnsLegal(g) ==
  \A i, j, a, b, c : \A e \in {1, -1}, f \in {1, -1} :
    Way(g, i, e, a, b) /\ Way(g, j, f, b, c) /\ ~g.pnt[b].turn /\ i # j =>
      Permitted(Driven(i, e), Driven(j, f))

(* ... and what is legal and allowed is connected, by points that lead on: *)
(* they are copies, have no restriction or are still to be copied          *)
Live(g, open, q) == ~g.pnt[q].turn \/ q \in open

Onward(g, open, j, f, b) == \E c : Way(g, j, f, b, c) /\ Live(g, open, c)

Everywhere(g) ==
  \A i \in Street \ Distortion, e \in {1, -1} :
    Driven(i, e) \in Legs => \E a, b : Way(g, i, e, a, b)

OutOf(g, open) ==
  \A b \in DOMAIN g.pnt : b \in open \/ ~Restricted(g.pnt[b].at) =>
    \A j \in Street \ Distortion, f \in {1, -1} :
      Driven(j, f) \in Legs /\ Driven(j, f).from = g.pnt[b].at => Onward(g, open, j, f, b)

TurnsKept(g, open) ==
  \A i, a, b : \A e \in {1, -1} : Way(g, i, e, a, b) /\ ~g.pnt[b].turn =>
    \A j \in Street \ Distortion, f \in {1, -1} :
      Driven(j, f) \in Legs /\ Permitted(Driven(i, e), Driven(j, f)) => Onward(g, open, j, f, b)

Resolving(g, open) ==
  /\ Restr(g) /\ Legal(g) /\ TurnsLegal(g)
  /\ Everywhere(g) /\ OutOf(g, open) /\ TurnsKept(g, open)

LEMMA ResolvesOn ==
  ASSUME PlainNetwork, NEW g, Sound(g), NEW open, Resolving(g, open), NEW p \in DOMAIN g.pnt,
         p \in open, open \subseteq DOMAIN g.pnt, g.pnt[p].turn,
         NEW k, k = ProcessPoint(g, p)
  PROVE  Resolving(k, open \ {p})
<1>1. Grown(g, k, p) /\ \A i, a : \A e \in {1, -1} : Way(g, i, e, a, p) => Came(g, k, i, e, a)
  BY PointGrown DEF Resolving
<1>2. /\ Sound(k) /\ Restr(k) /\ Extends(g, k) /\ NewWays(g, k, p) /\ NewTurns(g, k, p)
      /\ \A q \in DOMAIN k.pnt \ DOMAIN g.pnt : ~k.pnt[q].turn /\ k.pnt[q].at = g.pnt[p].at
  BY <1>1 DEF Grown
<1>3. \A q \in DOMAIN g.pnt : k.pnt[q] = g.pnt[q] /\ q \in DOMAIN k.pnt
  BY <1>2 DEF Extends
<1>4. /\ \A i, a : \A e \in {1, -1} : ~Way(g, i, e, a, a)
      /\ \A i, a, b : \A e \in {1, -1} :
           Way(g, i, e, a, b) => a \in DOMAIN g.pnt /\ b \in DOMAIN g.pnt
  BY NoCircle
<1>5. \A i, a, b : \A e \in {1, -1} :
           Way(k, i, e, a, b) => a \in DOMAIN k.pnt /\ b \in DOMAIN k.pnt
  BY <1>2, NoCircle
<1>6. ASSUME NEW i, NEW a, NEW b, NEW e \in {1, -1}, Way(k, i, e, a, b)
      PROVE  /\ b \in DOMAIN g.pnt => Way(g, i, e, a, b) \/ Way(g, i, e, p, b)
             /\ b \notin DOMAIN g.pnt => Way(g, i, e, a, p)
             /\ a \in DOMAIN g.pnt => Way(g, i, e, a, b) \/ Way(g, i, e, a, p)
  BY <1>2, <1>4, <1>6 DEF NewWays
<1>7. ASSUME NEW j, NEW f \in {1, -1}, NEW b, NEW c, Way(g, j, f, b, c), Live(g, open, c)
      PROVE  Onward(k, open \ {p}, j, f, b)
  <2>1. CASE c = p
    <3>1. PICK q \in DOMAIN k.pnt \ DOMAIN g.pnt : Way(k, j, f, b, q)
      BY <1>1, <1>7, <2>1 DEF Came
    <3> QED BY <1>2, <3>1 DEF Onward, Live
  <2>2. CASE c # p
    <3>1. Way(k, j, f, b, c)
      BY <1>2, <1>7, WaysStay
    <3>2. c \in DOMAIN g.pnt
      BY <1>4, <1>7
    <3> QED BY <1>3, <1>7, <2>2, <3>1, <3>2 DEF Onward, Live
  <2> QED BY <2>1, <2>2
<1>8. \A j, b : \A f \in {1, -1} : Onward(g, open, j, f, b) => Onward(k, open \ {p}, j, f, b)
  BY <1>7 DEF Onward
<1>9. Legal(k)
  <2> SUFFICES ASSUME NEW i, NEW a, NEW b, NEW e \in {1, -1}, Way(k, i, e, a, b)
               PROVE  Driven(i, e) \in Legs
    BY DEF Legal
  <2>1. \E x, y : Way(g, i, e, x, y)
    BY <1>6
  <2> QED BY <2>1 DEF Resolving, Legal
<1>10. TurnsLegal(k)
  <2> SUFFICES ASSUME NEW i, NEW j, NEW a, NEW b, NEW c, NEW e \in {1, -1}, NEW f \in {1, -1},
                      Way(k, i, e, a, b), Way(k, j, f, b, c), ~k.pnt[b].turn, i # j
               PROVE  Permitted(Driven(i, e), Driven(j, f))
    BY DEF TurnsLegal
  <2>1. CASE b \notin DOMAIN g.pnt
    <3>1. TurnsFrom(g, k, p, i, e, j, f, b, c)
      BY <1>2, <2>1 DEF NewTurns
    <3> QED BY <3>1 DEF TurnsFrom
  <2>2. CASE b \in DOMAIN g.pnt
    <3>1. PICK x : Way(g, i, e, x, b)
      BY <1>6, <2>2
    <3>2. PICK y : Way(g, j, f, b, y)
      BY <1>6, <2>2
    <3> QED BY <1>3, <2>2, <3>1, <3>2 DEF Resolving, TurnsLegal
  <2> QED BY <2>1, <2>2
<1>11. Everywhere(k)
  <2> SUFFICES ASSUME NEW i \in Street \ Distortion, NEW e \in {1, -1}, Driven(i, e) \in Legs
               PROVE  \E a, b : Way(k, i, e, a, b)
    BY DEF Everywhere
  <2>1. PICK a, b : Way(g, i, e, a, b)
    BY DEF Resolving, Everywhere
  <2> QED BY <1>2, <2>1, WaysStay
<1>12. OutOf(k, open \ {p})
  <2> SUFFICES ASSUME NEW b \in DOMAIN k.pnt, b \in open \ {p} \/ ~Restricted(k.pnt[b].at),
                      NEW j \in Street \ Distortion, NEW f \in {1, -1},
                      Driven(j, f) \in Legs, Driven(j, f).from = k.pnt[b].at
               PROVE  Onward(k, open \ {p}, j, f, b)
    BY DEF OutOf
  <2>1. Restricted(g.pnt[p].at)
    BY DEF Sound
  <2>2. b \in DOMAIN g.pnt
    BY <1>2, <2>1
  <2>3. Onward(g, open, j, f, b)
    BY <1>3, <2>2 DEF Resolving, OutOf
  <2> QED BY <1>8, <2>3
<1>13. TurnsKept(k, open \ {p})
  <2> SUFFICES ASSUME NEW i, NEW a, NEW b, NEW e \in {1, -1}, Way(k, i, e, a, b), ~k.pnt[b].turn,
                      NEW j \in Street \ Distortion, NEW f \in {1, -1},
                      Driven(j, f) \in Legs, Permitted(Driven(i, e), Driven(j, f))
               PROVE  Onward(k, open \ {p}, j, f, b)
    BY DEF TurnsKept
  <2>1. CASE b \notin DOMAIN g.pnt
    <3>1. Way(g, i, e, a, p)
      BY <1>6, <2>1
    <3>2. Driven(i, e).to = g.pnt[p].at
      <4>1. Spans(g, i, e, a, p)
        BY <3>1, WayIs
      <4> QED BY <4>1 DEF Spans
    <3>3. Driven(j, f).from = g.pnt[p].at
      BY <3>2 DEF Permitted
    <3>4. Onward(g, open, j, f, p)
      BY <3>3 DEF Resolving, OutOf
    <3>5. PICK c : Way(g, j, f, p, c) /\ Live(g, open, c)
      BY <3>4 DEF Onward
    <3>6. c # p /\ c \in DOMAIN g.pnt
      BY <1>4, <3>5
    <3>7. TurnsFrom(g, k, p, i, e, j, f, b, c)
      BY <1>2, <2>1 DEF NewTurns
    <3>8. Way(k, j, f, b, c)
      BY <3>5, <3>7 DEF TurnsFrom
    <3> QED BY <1>3, <3>5, <3>6, <3>8 DEF Onward, Live
  <2>2. CASE b \in DOMAIN g.pnt
    <3>1. PICK x : Way(g, i, e, x, b)
      BY <1>6, <2>2
    <3>2. Onward(g, open, j, f, b)
      BY <1>3, <2>2, <3>1 DEF Resolving, TurnsKept
    <3> QED BY <1>8, <3>2
  <2> QED BY <2>1, <2>2
<1> QED BY <1>2, <1>9, <1>10, <1>11, <1>12, <1>13 DEF Resolving

-----------------------------------------------------------------------------
(* While items are read, those of "rest" still to come: streets are as the *)
(* maps say, and restrictions stand where they belong                      *)
Gathered(g, rest) ==
  /\ \A k \in DOMAIN g.seg : Lies(g, g.seg[k])
                             /\ (Road(g.seg[k]) => g.seg[k].flags = Flags[g.seg[k].item])
  /\ \A i \in (Street \ Distortion) \ rest : \E k \in DOMAIN g.seg : g.seg[k].item = i
  /\ \A r \in Restriction \ rest : Stands(g, r)

LEMMA GathersOn ==
  ASSUME NEW g, NEW h, NEW rest, NEW i, Sound(g), Gathered(g, rest), ItemAdded(g, h, i)
  PROVE  Gathered(h, rest \ {i})
<1>1. /\ DOMAIN g.pnt \subseteq DOMAIN h.pnt
      /\ \A q \in DOMAIN g.pnt : h.pnt[q].at = g.pnt[q].at /\ (g.pnt[q].turn => h.pnt[q].turn)
      /\ DOMAIN g.seg \subseteq DOMAIN h.seg /\ \A k \in DOMAIN g.seg : h.seg[k] = g.seg[k]
  BY DEF ItemAdded
<1>2. \A k \in DOMAIN g.seg : g.seg[k].start \in DOMAIN g.pnt /\ g.seg[k].end \in DOMAIN g.pnt
  BY DEF Sound, Fits
<1>3. ASSUME NEW k \in DOMAIN h.seg
      PROVE  Lies(h, h.seg[k]) /\ (Road(h.seg[k]) => h.seg[k].flags = Flags[h.seg[k].item])
  <2>1. CASE k \in DOMAIN g.seg
    <3>1. Lies(g, g.seg[k]) /\ (Road(g.seg[k]) => g.seg[k].flags = Flags[g.seg[k].item])
      BY <2>1 DEF Gathered
    <3>2. Lies(h, g.seg[k])
      BY <1>1, <1>2, <2>1, <3>1 DEF Lies
    <3> QED BY <1>1, <2>1, <3>1, <3>2
  <2>2. CASE k \notin DOMAIN g.seg
    BY <2>2 DEF ItemAdded
  <2> QED BY <2>1, <2>2
<1>4. ASSUME NEW j \in (Street \ Distortion) \ (rest \ {i})
      PROVE  \E k \in DOMAIN h.seg : h.seg[k].item = j
  <2>1. CASE j = i
    BY <2>1 DEF ItemAdded
  <2>2. CASE j # i
    <3>1. PICK k \in DOMAIN g.seg : g.seg[k].item = j
      BY <2>2 DEF Gathered
    <3> QED BY <1>1, <3>1
  <2> QED BY <2>1, <2>2
<1>5. ASSUME NEW r \in Restriction \ (rest \ {i}) PROVE Stands(h, r)
  <2>1. CASE r = i
    BY <2>1 DEF ItemAdded
  <2>2. CASE r # i
    <3>1. Stands(g, r)
      BY <2>2 DEF Gathered
    <3>2. PICK k \in DOMAIN g.seg, l \in DOMAIN g.seg :
            /\ g.seg[k].item = r /\ g.seg[l].item = r
            /\ g.seg[k].end = g.seg[l].start /\ g.pnt[g.seg[k].end].turn
            /\ g.pnt[g.seg[k].start].at = Via[r][1] /\ g.pnt[g.seg[k].end].at = Via[r][2]
            /\ g.pnt[g.seg[l].end].at = Via[r][3]
      BY <3>1 DEF Stands
    <3>3. /\ h.seg[k].item = r /\ h.seg[l].item = r
          /\ h.seg[k].end = h.seg[l].start /\ h.pnt[h.seg[k].end].turn
          /\ h.pnt[h.seg[k].start].at = Via[r][1] /\ h.pnt[h.seg[k].end].at = Via[r][2]
          /\ h.pnt[h.seg[l].end].at = Via[r][3]
      BY <1>1, <1>2, <3>2
    <3> QED BY <1>1, <3>3 DEF Stands
  <2> QED BY <2>1, <2>2
<1> QED BY <1>3, <1>4, <1>5 DEF Gathered

(* The maps allow to drive a street in direction e unless it is one-way *)
LEMMA LegsAre ==
  ASSUME PlainNetwork, NEW i, NEW e \in {1, -1}
  PROVE  Driven(i, e) \in Legs <=> i \in Street \ Distortion /\ OneWayFlag(-e) \notin Flags[i]
<1> DEFINE F(j) == [item |-> j, from |-> From[j], to |-> To[j]]
           B(j) == [item |-> j, from |-> To[j], to |-> From[j]]
<1>1. \A x : x \in Legs <=>
        \/ \E j \in Street \ Distortion : "AF_ONEWAYREV" \notin Flags[j] /\ x = F(j)
        \/ \E j \in Street \ Distortion : "AF_ONEWAY" \notin Flags[j] /\ x = B(j)
  BY DEF Legs
<1>2. \A j, k : F(j) = F(k) => j = k
  OBVIOUS
<1>3. \A j, k : B(j) = B(k) => j = k
  OBVIOUS
<1>4. \A j \in Street \ Distortion : \A k : F(j) # B(k) /\ B(j) # F(k)
  <2> SUFFICES ASSUME NEW j \in Street \ Distortion, NEW k, F(j) = B(k) \/ B(j) = F(k)
               PROVE  FALSE
    OBVIOUS
  <2>1. From[j] # To[j]
    BY DEF PlainNetwork
  <2>2. j = k /\ From[j] = To[k]
    OBVIOUS
  <2> QED BY <2>1, <2>2
<1>5. CASE e = 1
  <2>1. Driven(i, e) = F(i) /\ OneWayFlag(-e) = "AF_ONEWAYREV"
    BY <1>5 DEF Driven, OneWayFlag
  <2> HIDE DEF F, B
  <2> QED BY <1>1, <1>2, <1>4, <2>1
<1>6. CASE e # 1
  <2>1. -e = 1 /\ e # 1
    BY <1>6
  <2>2. Driven(i, e) = B(i) /\ OneWayFlag(-e) = "AF_ONEWAY"
    BY <2>1 DEF Driven, OneWayFlag
  <2> HIDE DEF F, B
  <2> QED BY <1>1, <1>3, <1>4, <2>2
<1> QED BY <1>5, <1>6

(* When all is read, every street leads on as the maps say *)
LEMMA StreetsLead ==
  ASSUME PlainNetwork, NEW g, Sound(g), Gathered(g, {}), NEW i, NEW e \in {1, -1}
  PROVE  /\ Driven(i, e) \in Legs => \E a, b : Way(g, i, e, a, b)
         /\ \A a, b : Way(g, i, e, a, b) => Driven(i, e) \in Legs
<1>1. ASSUME Driven(i, e) \in Legs PROVE \E a, b : Way(g, i, e, a, b)
  <2>1. i \in Street \ Distortion /\ OneWayFlag(-e) \notin Flags[i]
    BY <1>1, LegsAre
  <2>2. PICK k \in DOMAIN g.seg : g.seg[k].item = i
    BY <2>1 DEF Gathered
  <2>3. Road(g.seg[k]) /\ OneWayFlag(-e) \notin g.seg[k].flags
    BY <2>1, <2>2 DEF Gathered, Road
  <2>4. Leads(g.seg[k], i, e, Behind(g.seg[k], e), Ahead(g.seg[k], e))
    BY <2>2, <2>3 DEF Leads
  <2> QED BY <2>4 DEF Way
<1>2. ASSUME NEW a, NEW b, Way(g, i, e, a, b) PROVE Driven(i, e) \in Legs
  <2>1. PICK k \in DOMAIN g.seg : Leads(g.seg[k], i, e, a, b)
    BY <1>2 DEF Way
  <2>2. i \in Street \ Distortion /\ OneWayFlag(-e) \notin Flags[i]
    BY <2>1 DEF Leads, Road, Gathered
  <2> QED BY <2>2, LegsAre
<1> QED BY <1>1, <1>2

LEMMA ResolvingStarts ==
  ASSUME PlainNetwork, NEW g, Sound(g), Fresh(g), Gathered(g, {}),
         NEW open, \A p \in DOMAIN g.pnt : g.pnt[p].turn => p \in open
  PROVE  Resolving(g, open)
<1>1. /\ \A i : \A e \in {1, -1} : Driven(i, e) \in Legs => \E a, b : Way(g, i, e, a, b)
      /\ \A i, a, b : \A e \in {1, -1} : Way(g, i, e, a, b) => Driven(i, e) \in Legs
  BY StreetsLead
<1>2. ASSUME NEW i, NEW a, NEW b, NEW e \in {1, -1}, Way(g, i, e, a, b)
      PROVE  /\ a \in DOMAIN g.pnt /\ b \in DOMAIN g.pnt /\ Live(g, open, b)
             /\ Driven(i, e).item = i
             /\ Driven(i, e).from = g.pnt[a].at /\ Driven(i, e).to = g.pnt[b].at
  <2>1. Spans(g, i, e, a, b)
    BY <1>2, WayIs
  <2> QED BY <2>1 DEF Spans, Live
<1>3. ASSUME NEW b \in DOMAIN g.pnt, ~g.pnt[b].turn PROVE ~Restricted(g.pnt[b].at)
  <2> SUFFICES ASSUME NEW r \in Restriction, Via[r][2] = g.pnt[b].at PROVE FALSE
    BY DEF Restricted
  <2>1. Stands(g, r)
    BY DEF Gathered
  <2>2. PICK k \in DOMAIN g.seg : g.pnt[g.seg[k].end].turn /\ g.pnt[g.seg[k].end].at = Via[r][2]
    BY <2>1 DEF Stands
  <2>3. g.seg[k].end \in DOMAIN g.pnt
    BY DEF Sound, Fits
  <2>4. g.seg[k].end = b
    BY <2>2, <2>3 DEF Fresh
  <2> QED BY <1>3, <2>2, <2>4
<1>4. Restr(g)
  <2>1. \A p \in DOMAIN g.pnt, q \in DOMAIN g.pnt :
          g.pnt[p].turn /\ g.pnt[q].turn /\ g.pnt[p].at = g.pnt[q].at => p = q
    BY DEF Fresh
  <2> QED BY <2>1 DEF Restr, Gathered
<1>5. Legal(g)
  BY <1>1 DEF Legal
<1>6. Everywhere(g)
  BY <1>1 DEF Everywhere
<1>7. ASSUME NEW b \in DOMAIN g.pnt, NEW j, NEW f \in {1, -1}, Driven(j, f) \in Legs,
             Driven(j, f).from = g.pnt[b].at
      PROVE  Onward(g, open, j, f, b)
  <2>1. PICK a, c : Way(g, j, f, a, c)
    BY <1>1, <1>7
  <2>2. a \in DOMAIN g.pnt /\ g.pnt[a].at = g.pnt[b].at /\ Live(g, open, c)
    BY <1>2, <1>7, <2>1
  <2>3. a = b
    BY <2>2 DEF Fresh
  <2> QED BY <2>1, <2>2, <2>3 DEF Onward
<1>8. OutOf(g, open)
  BY <1>7 DEF OutOf
<1>9. TurnsKept(g, open)
  <2> SUFFICES ASSUME NEW i, NEW a, NEW b, NEW e \in {1, -1}, Way(g, i, e, a, b),
                      NEW j \in Street \ Distortion, NEW f \in {1, -1},
                      Driven(j, f) \in Legs, Permitted(Driven(i, e), Driven(j, f))
               PROVE  Onward(g, open, j, f, b)
    BY DEF TurnsKept
  <2>1. b \in DOMAIN g.pnt /\ Driven(i, e).to = g.pnt[b].at
    <3>1. Spans(g, i, e, a, b)
      BY WayIs
    <3> QED BY <3>1 DEF Spans
  <2>2. Driven(j, f).from = g.pnt[b].at
    BY <2>1 DEF Permitted
  <2> QED BY <1>7, <2>1, <2>2
<1>10. TurnsLegal(g)
  <2> SUFFICES ASSUME NEW i, NEW j, NEW a, NEW b, NEW c, NEW e \in {1, -1}, NEW f \in {1, -1},
                      Way(g, i, e, a, b), Way(g, j, f, b, c), ~g.pnt[b].turn, i # j
               PROVE  Permitted(Driven(i, e), Driven(j, f))
    BY DEF TurnsLegal
  <2>1. /\ b \in DOMAIN g.pnt /\ Driven(i, e).to = g.pnt[b].at /\ Driven(i, e).item = i
        /\ Driven(j, f).from = g.pnt[b].at /\ Driven(j, f).item = j
    <3>1. Spans(g, i, e, a, b)
      BY WayIs
    <3>2. Spans(g, j, f, b, c)
      BY WayIs
    <3> QED BY <3>1, <3>2 DEF Spans
  <2>2. \A r \in Restriction : Via[r][2] # g.pnt[b].at
    BY <1>3, <2>1 DEF Restricted
  <2> QED BY <2>1, <2>2 DEF Permitted
<1> QED BY <1>4, <1>5, <1>6, <1>8, <1>9, <1>10 DEF Resolving

-----------------------------------------------------------------------------
(* The ways are right at every moment *)
WaysInv ==
  /\ todo = {} /\ ~ready => Gathered(graph, unread)
  /\ PlainNetwork /\ (todo # {} \/ ready) => Resolving(graph, todo)

LEMMA InitWays == Init => WaysInv
<1> SUFFICES ASSUME Init PROVE WaysInv
  OBVIOUS
<1>1. graph = [pnt |-> <<>>, seg |-> <<>>] /\ unread = Street \cup Restriction
  BY DEF Init
<1>2. Gathered(graph, unread)
  BY <1>1 DEF Gathered
<1> QED BY <1>2 DEF Init, WaysInv

LEMMA StepWays == Inv /\ WaysInv /\ [Next]_vars => WaysInv'
<1> SUFFICES ASSUME Inv, WaysInv, [Next]_vars PROVE WaysInv'
  OBVIOUS
<1>a. ASSUME Gathered(graph', unread') PROVE (Gathered(graph, unread))'
  BY <1>a DEF Gathered, Lies, Road, Stands
<1>b. ASSUME Resolving(graph', todo') PROVE (Resolving(graph, todo))'
  BY <1>b DEF Resolving, Restr, Lies, Stands, Legal, TurnsLegal, Everywhere, OutOf, TurnsKept,
              Onward, Live, Way, Leads, Road, Driven, Legs, Permitted, Restricted, Behind, Ahead,
              OneWayFlag
<1>1. ASSUME NEW i \in Street \cup Restriction, Read(i) PROVE WaysInv'
  <2>1. Sound(graph) /\ Fresh(graph) /\ todo = {} /\ ~ready
    BY <1>1 DEF Inv, Read
  <2>2. ItemAdded(graph, graph', i)
    <3>1. ItemAdded(graph, Add(graph, i), i)
      BY <2>1, AddIs
    <3> QED BY <1>1, <3>1 DEF Read
  <2>3. Gathered(graph', unread \ {i})
    BY <2>1, <2>2, GathersOn DEF WaysInv
  <2>4. Gathered(graph', unread')
    BY <1>1, <2>3 DEF Read
  <2>5. (Gathered(graph, unread))'
    BY <1>a, <2>4
  <2> QED BY <1>1, <2>1, <2>5 DEF WaysInv, Read
<1>2. ASSUME BuildDone PROVE WaysInv'
  <2>1. Sound(graph) /\ Fresh(graph) /\ Gathered(graph, {}) /\ graph' = graph
    BY <1>2 DEF BuildDone, Inv, WaysInv
  <2>2. todo' = {p \in DOMAIN graph.pnt : graph.pnt[p].turn}
    BY <1>2 DEF BuildDone, ToResolve
  <2>3. PlainNetwork => Resolving(graph, todo')
    BY <2>1, <2>2, ResolvingStarts
  <2>4. PlainNetwork => (Resolving(graph, todo))'
    BY <1>b, <2>1, <2>3
  <2>5. ready' = (todo' = {})
    BY <1>2 DEF BuildDone
  <2> QED BY <2>4, <2>5 DEF WaysInv
<1>3. ASSUME NEW p \in todo, Resolve(p) PROVE WaysInv'
  <2>1. Sound(graph) /\ p \in DOMAIN graph.pnt /\ graph.pnt[p].turn /\ todo \subseteq DOMAIN graph.pnt
    BY DEF Inv, ToResolve
  <2>2. PlainNetwork => Resolving(graph, todo)
    BY DEF WaysInv
  <2>3. graph' = ProcessPoint(graph, p) /\ todo' = todo \ {p} /\ ready' = (todo' = {})
    BY <1>3 DEF Resolve
  <2>4. PlainNetwork => Resolving(graph', todo \ {p})
    BY <2>1, <2>2, <2>3, ResolvesOn
  <2>5. PlainNetwork => (Resolving(graph, todo))'
    BY <1>b, <2>3, <2>4
  <2> QED BY <2>3, <2>5 DEF WaysInv
<1>4. ASSUME UNCHANGED vars PROVE WaysInv'
  <2>1. /\ unread' = unread /\ graph' = graph /\ todo' = todo /\ ready' = ready
    BY <1>4 DEF vars
  <2>2. Gathered(graph, unread) => (Gathered(graph, unread))'
    BY <1>a, <2>1
  <2>3. Resolving(graph, todo) => (Resolving(graph, todo))'
    BY <1>b, <2>1
  <2> QED BY <2>1, <2>2, <2>3 DEF WaysInv
<1> QED BY <1>1, <1>2, <1>3, <1>4 DEF Next

LEMMA WaysAlways == Spec => [](Inv /\ WaysInv)
<1>1. Init => WaysInv
  BY InitWays
<1>2. Inv /\ WaysInv /\ [Next]_vars => WaysInv'
  BY StepWays
<1> QED BY <1>1, <1>2, InvAlways, PTL DEF Spec

(* Driving the segments of the graph, and its ways, are the same *)
DrivesWay(v, i, e, a, b) ==
  /\ v \in Drives /\ v[1].item = i /\ v[2] = e
  /\ Behind(v[1], v[2]) = a /\ Ahead(v[1], v[2]) = b
  /\ LegOf(v[1], v[2]) = Driven(i, e)

LEMMA DrivesAreWays ==
  ASSUME Inv, NEW v \in Drives
  PROVE  LET i == v[1].item
             e == v[2]
             a == Behind(v[1], e)
             b == Ahead(v[1], e)
         IN /\ e \in {1, -1} /\ Way(graph, i, e, a, b) /\ ~graph.pnt[a].turn
            /\ LegOf(v[1], e) = Driven(i, e)
<1>1. PICK s, e : s = v[1] /\ e = v[2]
  OBVIOUS
<1>2. s \in ToSet(graph.seg) /\ e \in {1, -1} /\ Drivable(s, e)
  BY <1>1 DEF Drives
<1>3. PICK k \in DOMAIN graph.seg : s = graph.seg[k]
  BY <1>2 DEF ToSet
<1>4. Road(s) /\ OneWayFlag(-e) \notin s.flags /\ ~graph.pnt[Behind(s, e)].turn
  BY <1>2 DEF Drivable, Road
<1>5. Fits(graph, s)
  BY <1>3 DEF Inv, Sound
<1>6. LegOf(s, e) = Driven(s.item, e)
  BY <1>2, <1>4, <1>5 DEF LegOf, Driven, Behind, Ahead, Fits
<1>7. Way(graph, s.item, e, Behind(s, e), Ahead(s, e))
  BY <1>3, <1>4 DEF Way, Leads
<1> QED BY <1>1, <1>2, <1>4, <1>6, <1>7

LEMMA WaysAreDriven ==
  ASSUME Inv, NEW i, NEW e \in {1, -1}, NEW a, NEW b, Way(graph, i, e, a, b), ~graph.pnt[a].turn
  PROVE  \E v : DrivesWay(v, i, e, a, b)
<1>1. PICK k \in DOMAIN graph.seg : Leads(graph.seg[k], i, e, a, b)
  BY DEF Way
<1>2. PICK s : s = graph.seg[k]
  OBVIOUS
<1>3. /\ Road(s) /\ s.item = i /\ OneWayFlag(-e) \notin s.flags
      /\ Behind(s, e) = a /\ Ahead(s, e) = b
  BY <1>1, <1>2 DEF Leads
<1>4. Fits(graph, s) /\ s \in ToSet(graph.seg)
  BY <1>2 DEF Inv, Sound, ToSet
<1>5. LegOf(s, e) = Driven(i, e)
  BY <1>3, <1>4 DEF LegOf, Driven, Behind, Ahead, Fits, Road
<1>6. Drivable(s, e)
  BY <1>3 DEF Drivable, Road
<1>7. <<s, e>> \in Drives
  BY <1>4, <1>6 DEF Drives
<1>8. DrivesWay(<<s, e>>, i, e, a, b)
  BY <1>3, <1>5, <1>7 DEF DrivesWay
<1> QED BY <1>8

LEMMA LegIs ==
  ASSUME NEW l \in Legs
  PROVE  \E i \in Street \ Distortion, e \in {1, -1} : l = Driven(i, e)
<1>1. CASE \E i \in Street \ Distortion : l = [item |-> i, from |-> From[i], to |-> To[i]]
  <2>1. \A i : Driven(i, 1) = [item |-> i, from |-> From[i], to |-> To[i]]
    BY DEF Driven
  <2> QED BY <1>1, <2>1
<1>2. CASE \E i \in Street \ Distortion : l = [item |-> i, from |-> To[i], to |-> From[i]]
  <2>1. \A i : Driven(i, -1) = [item |-> i, from |-> To[i], to |-> From[i]]
    BY DEF Driven
  <2> QED BY <1>2, <2>1
<1> QED BY <1>1, <1>2 DEF Legs

LEMMA ConnectedAllowed ==
  ASSUME PlainNetwork, Inv, WaysInv, ready, NEW w \in Connected
  PROVE  w \in Allowed
<1>1. Legal(graph) /\ TurnsLegal(graph)
  BY DEF WaysInv, Resolving
<1>2. PICK x \in {y \in Joined \X Drives : Joins(y[1][2], y[2])} :
        w = <<LegOf(x[1][1][1], x[1][1][2]), LegOf(x[1][2][1], x[1][2][2]),
              LegOf(x[2][1], x[2][2])>>
  BY DEF Connected
<1>3. PICK v1, v2, v3 : v1 = x[1][1] /\ v2 = x[1][2] /\ v3 = x[2]
  OBVIOUS
<1>4. /\ v1 \in Drives /\ v2 \in Drives /\ v3 \in Drives /\ Joins(v1, v2) /\ Joins(v2, v3)
      /\ w = <<LegOf(v1[1], v1[2]), LegOf(v2[1], v2[2]), LegOf(v3[1], v3[2])>>
  BY <1>2, <1>3 DEF Joined
<1>5. PICK i, j, k, e, f, d : /\ i = v1[1].item /\ j = v2[1].item /\ k = v3[1].item
                              /\ e = v1[2] /\ f = v2[2] /\ d = v3[2]
  OBVIOUS
<1>6. PICK p, q, r, s : /\ p = Behind(v1[1], e) /\ q = Behind(v2[1], f) /\ r = Behind(v3[1], d)
                        /\ s = Ahead(v3[1], d)
  OBVIOUS
<1>7. /\ Ahead(v1[1], e) = q /\ Ahead(v2[1], f) = r /\ i # j /\ j # k
  BY <1>4, <1>5, <1>6 DEF Joins
<1>8. /\ e \in {1, -1} /\ Way(graph, i, e, p, q) /\ LegOf(v1[1], e) = Driven(i, e)
  BY <1>4, <1>5, <1>6, <1>7, DrivesAreWays
<1>9. /\ f \in {1, -1} /\ Way(graph, j, f, q, r) /\ LegOf(v2[1], f) = Driven(j, f)
      /\ ~graph.pnt[q].turn
  BY <1>4, <1>5, <1>6, <1>7, DrivesAreWays
<1>10. /\ d \in {1, -1} /\ Way(graph, k, d, r, s) /\ LegOf(v3[1], d) = Driven(k, d)
       /\ ~graph.pnt[r].turn
  BY <1>4, <1>5, <1>6, <1>7, DrivesAreWays
<1>11. Permitted(Driven(i, e), Driven(j, f)) /\ Permitted(Driven(j, f), Driven(k, d))
  BY <1>1, <1>7, <1>8, <1>9, <1>10 DEF TurnsLegal
<1>12. Driven(i, e) \in Legs /\ Driven(j, f) \in Legs /\ Driven(k, d) \in Legs
  BY <1>1, <1>8, <1>9, <1>10 DEF Legal
<1>13. w = <<Driven(i, e), Driven(j, f), Driven(k, d)>>
  BY <1>4, <1>5, <1>8, <1>9, <1>10
<1> QED BY <1>11, <1>12, <1>13 DEF Allowed

LEMMA AllowedConnected ==
  ASSUME PlainNetwork, Inv, WaysInv, ready, NEW w \in Allowed, ~Restricted(w[1].from)
  PROVE  w \in Connected
<1>1. Everywhere(graph) /\ OutOf(graph, {}) /\ TurnsKept(graph, {}) /\ Sound(graph)
  BY DEF WaysInv, Resolving, Inv
<1>2. /\ w[1] \in Legs /\ w[2] \in Legs /\ w[3] \in Legs /\ w = <<w[1], w[2], w[3]>>
      /\ Permitted(w[1], w[2]) /\ Permitted(w[2], w[3])
  BY DEF Allowed
<1>3. PICK i \in Street \ Distortion, e \in {1, -1} : w[1] = Driven(i, e)
  BY <1>2, LegIs
<1>4. PICK j \in Street \ Distortion, f \in {1, -1} : w[2] = Driven(j, f)
  BY <1>2, LegIs
<1>5. PICK k \in Street \ Distortion, d \in {1, -1} : w[3] = Driven(k, d)
  BY <1>2, LegIs
<1>6. PICK p, x : Way(graph, i, e, p, x)
  BY <1>1, <1>2, <1>3 DEF Everywhere
<1>7. p \in DOMAIN graph.pnt /\ Driven(i, e).from = graph.pnt[p].at
  <2>1. Spans(graph, i, e, p, x)
    BY <1>1, <1>6, WayIs
  <2> QED BY <2>1 DEF Spans
<1>8. ~Restricted(graph.pnt[p].at) /\ ~graph.pnt[p].turn
  BY <1>1, <1>3, <1>7 DEF Sound
<1>9. PICK q : Way(graph, i, e, p, q) /\ ~graph.pnt[q].turn
  BY <1>1, <1>2, <1>3, <1>7, <1>8 DEF OutOf, Onward, Live
<1>10. PICK r : Way(graph, j, f, q, r) /\ ~graph.pnt[r].turn
  <2>1. Onward(graph, {}, j, f, q)
    BY <1>1, <1>2, <1>3, <1>4, <1>9 DEF TurnsKept
  <2> QED BY <2>1 DEF Onward, Live
<1>11. PICK s : Way(graph, k, d, r, s)
  <2>1. Onward(graph, {}, k, d, r)
    BY <1>1, <1>2, <1>4, <1>5, <1>10 DEF TurnsKept
  <2> QED BY <2>1 DEF Onward
<1>12. PICK v1 : DrivesWay(v1, i, e, p, q)
  BY <1>8, <1>9, WaysAreDriven
<1>13. PICK v2 : DrivesWay(v2, j, f, q, r)
  BY <1>9, <1>10, WaysAreDriven
<1>14. PICK v3 : DrivesWay(v3, k, d, r, s)
  BY <1>10, <1>11, WaysAreDriven
<1>15. i # j /\ j # k
  BY <1>2, <1>3, <1>4, <1>5 DEF Permitted, Driven
<1>16. Joins(v1, v2) /\ Joins(v2, v3)
  BY <1>12, <1>13, <1>14, <1>15 DEF DrivesWay, Joins
<1>17. <<v1, v2>> \in Joined /\ v3 \in Drives
  BY <1>12, <1>13, <1>14, <1>16 DEF DrivesWay, Joined
<1>18. w = <<LegOf(v1[1], v1[2]), LegOf(v2[1], v2[2]), LegOf(v3[1], v3[2])>>
  BY <1>2, <1>3, <1>4, <1>5, <1>12, <1>13, <1>14 DEF DrivesWay
<1>19. PICK y : y = <<<<v1, v2>>, v3>>
  OBVIOUS
<1>20. y \in {z \in Joined \X Drives : Joins(z[1][2], z[2])}
  BY <1>16, <1>17, <1>19
<1>21. w = <<LegOf(y[1][1][1], y[1][1][2]), LegOf(y[1][2][1], y[1][2][2]), LegOf(y[2][1], y[2][2])>>
  BY <1>18, <1>19
<1> QED BY <1>20, <1>21 DEF Connected

(* The finished graph connects three streets in a row exactly when the     *)
(* turns between them are allowed, for every plain network, whatever order *)
(* items are read and points resolved in: a way into a point that is       *)
(* resolved leads to a copy of it, the copy goes on by the allowed turns   *)
(* only, and later copies of its neighbours keep both.                     *)
THEOREM AllowedWays == PlainNetwork => (Spec => []WaysAreAllowedWays)
<1> SUFFICES ASSUME PlainNetwork PROVE Spec => []WaysAreAllowedWays
  OBVIOUS
<1>1. Inv /\ WaysInv => WaysAreAllowedWays
  BY ConnectedAllowed, AllowedConnected DEF WaysAreAllowedWays
<1> QED BY <1>1, WaysAlways, PTL

=============================================================================
