---------------------------- MODULE RouteSearch ----------------------------
(***************************************************************************)
(* The search of navit/route.c on a finished routing graph: route_graph_   *)
(* flood gives every point its cost to the destination and the segment to  *)
(* follow, with Dijkstra's algorithm on a Fibonacci heap; route_path_new   *)
(* then follows those segments from the position.                          *)
(*                                                                         *)
(* A segment may be driven ahead (1: from Start to End) or back (-1), for  *)
(* the tenths of a second route_time_seg gives, or not at all (Infinity):  *)
(* vehicle profile, one-way flags, restrictions and traffic distortions    *)
(* are in those two numbers.  Each segment has its own: a clone that       *)
(* route_graph_process_restriction_segment made is one longer than its     *)
(* original, but its new point has no RP_TRAFFIC_DISTORTION flag, so that  *)
(* a distortion slows the original down and not the clone.                 *)
(***************************************************************************)
EXTENDS Integers, FiniteSets, FiniteSetsExt, SequencesExt, Functions

CONSTANTS
  Point, Segment,  \* struct route_graph_point, struct route_graph_segment
  Start, End,      \* the two points of a segment
  Item,            \* the street a segment is (a part of)
  Street,          \* one segment of each street
  At,              \* the coordinate of a point; split points share one
  Added,           \* the order in which the segments were put into the graph
  Limited,         \* segments with AF_THROUGH_TRAFFIC_LIMIT
  Penalty,         \* profile->through_traffic_penalty
  Blocked,         \* <<s, d>> where one-way flags or a turn restriction forbid d
  Times,           \* what driving a segment may take
  Percents,        \* where on its street a position or destination may be
  Infinity,        \* INT_MAX
  None             \* the NULL pointer

Dir == {1, -1}

(* A place on a street, and where route_path_new is on its way *)
Place == [seg : Street, percent : Percents]
Step == [at : Point, seg : Segment, first : BOOLEAN]

ASSUME SearchAssumption ==
  /\ Start \in [Segment -> Point] /\ End \in [Segment -> Point]
  /\ \A s \in Segment : Start[s] # End[s]
  /\ Added \in [Segment -> Nat] /\ IsInjective(Added)
  /\ Street \subseteq Segment /\ Limited \subseteq Segment
  /\ Blocked \subseteq Segment \X Dir
  /\ Penalty \in Nat /\ Times \subseteq Nat /\ Percents \subseteq 0..100
  /\ Infinity \in Nat
  /\ \A t \in Times : t <= Infinity
  /\ None \notin Segment \cup Place \cup Step

(* A street is one segment and the clones of it, and no ring: none of those*)
(* with AF_SEGMENTED, of which route_process_street_graph makes several.   *)
(* That the flood finds the least cost depends on it, for route_graph_flood*)
(* never goes from a segment to another one of the same street.            *)
StreetsAreSimple ==
  /\ \A s \in Segment : At[Start[s]] # At[End[s]]
  /\ \A s, t \in Segment : Item[s] = Item[t] =>
       At[Start[s]] = At[Start[t]] /\ At[End[s]] = At[End[t]]

VARIABLES
  time,    \* time[s][d]: driving segment s in direction d
  dst,     \* the destination: a segment of its street, and percent along it
  todo,    \* segments of the destination's street not yet looked at
  value,   \* route_graph_point.value
  seg,     \* route_graph_point.seg
  heap,    \* entries; "live" is the one route_graph_point.el points to
  walk,    \* where route_path_new is: a Step, or None
  path,    \* the segments put into the path so far, with their directions
  pos,     \* the position route_path_new starts from, or None
  estimate \* the cost it has chosen the first segment for

floodVars == <<todo, value, seg, heap>>
vars == <<time, dst, floodVars, walk, path, pos, estimate>>

Entry == [point : Point, key : Nat, live : BOOLEAN]

TypeOK ==
  /\ time \in [Segment -> [Dir -> Times]]
  /\ dst \in Place
  /\ todo \subseteq Segment
  /\ value \in [Point -> 0..Infinity]
  /\ seg \in [Point -> Segment \cup {None}]
  /\ heap \subseteq Entry
  /\ walk \in Step \cup {None}
  /\ path \in Seq(Segment \X Dir)
  /\ pos \in Place \cup {None}
  /\ estimate \in 0..Infinity

-----------------------------------------------------------------------------
(* The segments route_graph_get_segment finds for a street: those of its   *)
(* item that start at the coordinate where the street starts               *)
OnStreet(s) ==
  {t \in Segment : Item[t] = Item[s] /\ At[Start[t]] = At[Start[s]]}

(* One-way flags and turn restrictions                                     *)
Closed(t) == \A w \in Blocked : t[w[1]][w[2]] = Infinity

(* route_graph_reset, and the street of the destination *)
Init ==
  /\ time \in {t \in [Segment -> [Dir -> Times]] : Closed(t)}
  /\ dst \in Place
  /\ todo = OnStreet(dst.seg)
  /\ value = [p \in Point |-> Infinity]
  /\ seg = [p \in Point |-> None]
  /\ heap = {}
  /\ walk = None
  /\ path = <<>>
  /\ pos = None
  /\ estimate = 0

(* The end of segment s one gets to by driving it in direction d, and the  *)
(* end one comes from                                                      *)
Ahead(s, d) == IF d = 1 THEN End[s] ELSE Start[s]
Behind(s, d) == IF d = 1 THEN Start[s] ELSE End[s]

(* route_value_seg, without and with a point to drive to *)
ValueSeg(s, d) == time[s][d]

Cost(s, d) ==
  time[s][d] + IF s \in Limited /\ seg[Ahead(s, d)] \notin Limited
               THEN Penalty ELSE 0

ValueSegTo(p, s, d) ==
  IF time[s][d] = Infinity \/ seg[p] = s THEN Infinity ELSE Cost(s, d)

(* Mutant of Part: the percent are not *)
PartUnscaled(t, d, percent) == t * IF d = 1 THEN 100 - percent ELSE percent

(* The part of a segment between percent and the end it is driven to *)
Part(t, d, percent) ==
  (t * IF d = 1 THEN 100 - percent ELSE percent) \div 100

(* The same between the end it is driven from and percent *)
PartTo(t, d, percent) == Part(t, -d, percent)

-----------------------------------------------------------------------------
(* The heap when points stop referring to the entries they have in it *)
Orphan(h, ps) == {[e EXCEPT !.live = @ /\ e.point \notin ps] : e \in h}

(* Mutant of SeedCost: the other part of the segment *)
SeedCostSwapped(s, d) == Part(ValueSeg(s, d), d, dst.percent)

(* What it takes from an end of the destination's segment to there *)
SeedCost(s, d) == PartTo(ValueSeg(s, d), d, dst.percent)

(* route_graph_flood enters both ends of the destination's segments        *)
Seed(s) ==
  /\ s \in todo /\ \A t \in todo : Added[t] <= Added[s]
  /\ todo' = todo \ {s}
  /\ LET open == {d \in Dir : ValueSeg(s, d) # Infinity}
         ends == {Behind(s, d) : d \in open}
         cost(p) == SeedCost(s, CHOOSE d \in open : Behind(s, d) = p)
     IN /\ value' = [p \in Point |-> IF p \in ends THEN cost(p) ELSE value[p]]
        /\ seg' = [p \in Point |-> IF p \in ends THEN s ELSE seg[p]]
        /\ heap' = Orphan(heap, ends)
                   \cup {[point |-> p, key |-> cost(p), live |-> TRUE] :
                           p \in ends}
  /\ UNCHANGED <<time, dst, walk, path, pos, estimate>>

(* What driving over segment s to p, and on from there, would take *)
Offer(p, s, d) ==
  LET t == ValueSegTo(p, s, d)
  IN IF t = Infinity \/ Item[s] = Item[seg[p]] THEN Infinity ELSE value[p] + t

(* The ways to drive to p from q, and one of the cheapest of them *)
Ways(q, p) ==
  {w \in Segment \X Dir : Behind(w[1], w[2]) = q /\ Ahead(w[1], w[2]) = p}

Cheapest(q, p) ==
  CHOOSE w \in Ways(q, p) : \A v \in Ways(q, p) :
    Offer(p, w[1], w[2]) <= Offer(p, v[1], v[2])

(* Mutant of Improved: a point is given a way once *)
ImprovedOnce(p) ==
  {q \in Point : \E w \in Ways(q, p) :
     Offer(p, w[1], w[2]) < Infinity /\ value[q] = Infinity}

(* The points one finds a less costly way from over p *)
Improved(p) ==
  {q \in Point : \E w \in Ways(q, p) : Offer(p, w[1], w[2]) < value[q]}

(* Mutant of Without: the entry stays *)
FindMin(e) == heap

(* fh_extractmin takes an entry with the least key out of the heap *)
Without(e) == heap \ {e}

(* Mutant of IsMin: any entry *)
IsAny(e) == TRUE

IsMin(e) == \A f \in heap : e.key <= f.key

(* One round of its main loop: an entry is taken out of the heap, and the  *)
(* points from which one can drive to its point are updated                *)
Extract(e) ==
  /\ todo = {}
  /\ e \in heap /\ IsMin(e)
  /\ LET p == e.point
         better == Improved(p)
         via == [q \in better |-> Cheapest(q, p)]
         new == [q \in better |-> Offer(p, via[q][1], via[q][2])]
     IN /\ value' = [q \in Point |-> IF q \in better THEN new[q] ELSE value[q]]
        /\ seg' = [q \in Point |-> IF q \in better THEN via[q][1] ELSE seg[q]]
        /\ heap' = {f \in Orphan(Without(e), {p}) : ~(f.live /\ f.point \in better)}
                   \cup {[point |-> q, key |-> new[q], live |-> TRUE] : q \in better}
  /\ UNCHANGED <<time, dst, todo, walk, path, pos, estimate>>

Flooded == todo = {} /\ heap = {}

-----------------------------------------------------------------------------
(* Mutant of Departure: the other part of the segment *)
DepartureSwapped(c, s, d) ==
  IF ValueSeg(s, d) = Infinity \/ value[Ahead(s, d)] = Infinity THEN Infinity
  ELSE value[Ahead(s, d)] + PartTo(ValueSeg(s, d), d, c.percent)

(* What starting from position c over segment s in direction d would take *)
Departure(c, s, d) ==
  IF ValueSeg(s, d) = Infinity \/ value[Ahead(s, d)] = Infinity THEN Infinity
  ELSE value[Ahead(s, d)] + Part(ValueSeg(s, d), d, c.percent)

(* "val1" and "val2", which begin with INT_MAX *)
Best(c, d) == Min({Infinity} \cup {Departure(c, s, d) : s \in OnStreet(c.seg)})

(* The beginning of route_path_new: the first segment and its direction.   *)
(* On a tie the ends are compared, and then back wins                      *)
Depart(c) ==
  /\ Flooded /\ pos = None
  /\ pos' = c
  /\ IF Best(c, 1) = Infinity /\ Best(c, -1) = Infinity
     THEN UNCHANGED <<walk, estimate>>
     ELSE \E s1, s2 \in OnStreet(c.seg) :
            LET tie == Best(c, 1) = Best(c, -1)
                ahead == IF tie THEN value[End[s1]] < value[Start[s2]]
                         ELSE Best(c, 1) < Best(c, -1)
            IN /\ Best(c, 1) \in {Departure(c, s1, 1), Infinity}
               /\ Best(c, -1) \in {Departure(c, s2, -1), Infinity}
               /\ walk' = IF ahead
                          THEN [at |-> Start[s1], seg |-> s1, first |-> TRUE]
                          ELSE [at |-> End[s2], seg |-> s2, first |-> TRUE]
               /\ estimate' = Best(c, IF ahead THEN 1 ELSE -1)
  /\ UNCHANGED <<time, dst, floodVars, path>>

(* Mutant of Arrives: only where the flood began *)
ArrivesAhead(s, d, first) ==
  Item[s] = Item[dst.seg] /\ seg[Ahead(s, d)] = s

(* The destination is on the segment driven, and not behind *)
Arrives(s, d, first) ==
  Item[s] = Item[dst.seg] /\ (seg[Ahead(s, d)] = s \/ ~first)

(* One round of its loop; seg is None where nothing leads on *)
Follow ==
  /\ walk # None
  /\ LET d == IF Start[walk.seg] = walk.at THEN 1 ELSE -1
         next == seg[Ahead(walk.seg, d)]
     IN /\ path' = Append(path, <<walk.seg, d>>)
        /\ walk' = IF Arrives(walk.seg, d, walk.first) \/ next = None
                   THEN None
                   ELSE [at |-> Ahead(walk.seg, d), seg |-> next, first |-> FALSE]
  /\ UNCHANGED <<time, dst, floodVars, pos, estimate>>

Next ==
  \/ \E s \in Segment : Seed(s)
  \/ \E e \in heap : Extract(e)
  \/ \E c \in Place : Depart(c)
  \/ Follow

Spec == Init /\ [][Next]_vars

(* Both loops run to their end within one call *)
FairSpec == Spec /\ WF_vars(Next)

-----------------------------------------------------------------------------
(* The segments of the destination's street that give p a value at first,  *)
(* and the one of them that is entered last: it overwrites what the others *)
(* gave                                                                    *)
Seeds(p) ==
  {w \in OnStreet(dst.seg) \X Dir :
     time[w[1]][w[2]] # Infinity /\ Behind(w[1], w[2]) = p}

EnteredLast(p) ==
  {w \in Seeds(p) : \A v \in Seeds(p) : Added[w[1]] <= Added[v[1]]}

SeedOf(w) == PartTo(time[w[1]][w[2]], w[2], dst.percent)

(* No distortion of the destination's street is lost with a clone: what    *)
(* overwrites a value is not above it                                      *)
Undistorted ==
  \A p \in Point : \A v, w \in Seeds(p) :
    Added[w[1]] < Added[v[1]] => SeedOf(w) <= SeedOf(v)

(* "It assigns each point in the route graph a cost at which one can reach *)
(* the destination [and] a segment one should follow from this point on to *)
(* reach the destination at the stated costs": every value is the cost of  *)
(* a way to the destination, that of its own segment and of the way that   *)
(* the point at its end was given.                                         *)
StatedCosts ==
  Flooded =>
    \A p \in Point : value[p] # Infinity =>
      \E d \in Dir :
        LET s == seg[p]
        IN /\ Behind(s, d) = p
           /\ \/ /\ s \in OnStreet(dst.seg)
                 /\ value[p] = PartTo(time[s][d], d, dst.percent)
              \/ /\ value[Ahead(s, d)] # Infinity
                 /\ Item[s] # Item[seg[Ahead(s, d)]]
                 /\ value[p] = value[Ahead(s, d)] + Cost(s, d)

(* That is so where no distortion is lost on the street of the destination *)
ValueIsCost == Undistorted => StatedCosts

(* "seg: Pointer to the segment one should use to reach the destination at *)
(* least costs": no segment of the destination's street leads there at a   *)
(* lower cost than the point it starts from has.                           *)
SeededLeast ==
  Flooded => \A p \in Point : \A w \in Seeds(p) : value[p] <= SeedOf(w)

UTurn(s, d) ==
  LET t == seg[Ahead(s, d)]
  IN t # None /\ Item[s] = Item[t]
     /\ {At[Start[s]], At[End[s]]} = {At[Start[t]], At[End[t]]}

(* From no point is there a cheaper way than the one it was given: neither *)
(* over a segment to a point and on from there, nor along the segment of   *)
(* the destination's street that was entered last.                         *)
LeastCost ==
  Flooded =>
    /\ \A s \in Segment, d \in Dir :
         time[s][d] # Infinity /\ ~UTurn(s, d) =>
           value[Behind(s, d)] <= value[Ahead(s, d)] + Cost(s, d)
    /\ \A p \in Point : \A w \in EnteredLast(p) : value[p] <= SeedOf(w)

(* A point taken out of the heap is permanently calculated *)
Permanent ==
  [][\A p \in Point :
       todo = {} /\ value[p] # Infinity /\ (\A e \in heap : e.point # p)
       => value'[p] = value[p]]_vars

(* What has been driven and what is left make up the cost the path was     *)
(* chosen for, at every point on the way, where no distortion is lost      *)
Legs ==
  [i \in 1..Len(path) |->
     IF i = 1 THEN Part(time[path[1][1]][path[1][2]], path[1][2], pos.percent)
     ELSE Cost(path[i][1], path[i][2])]

Total(c) ==
  LET upto[i \in 0..Len(c)] == IF i = 0 THEN 0 ELSE upto[i - 1] + c[i]
  IN upto[Len(c)]

OnCourse ==
  Undistorted /\ walk # None /\ path # <<>> =>
    Total(Legs) + value[walk.at] = estimate

(* A path ends on the street of the destination, and on its way there it   *)
(* passes no point twice                                                   *)
PathArrives ==
  /\ walk = None /\ path # <<>> => Item[Last(path)[1]] = Item[dst.seg]
  /\ \A i, j \in 1..(Len(path) - 1) :
       Ahead(path[i][1], path[i][2]) = Ahead(path[j][1], path[j][2]) => i = j

(* The search comes to an end and so does the path *)
Terminates == <>(pos # None /\ walk = None)
=============================================================================
