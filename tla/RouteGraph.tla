----------------------------- MODULE RouteGraph -----------------------------
(***************************************************************************)
(* Building the routing graph (navit/route.c).  The items of the maps are  *)
(* read in the order the maps give them, overlapping maps and tiles give   *)
(* some of them twice; then every point on which a turn restriction stands *)
(* is resolved: for each way to come to it, it gets a copy that one can    *)
(* only come to that way and only leave by the turns allowed from there.   *)
(*                                                                         *)
(* Route tells when a graph is built, RouteSearch what is searched in it.  *)
(***************************************************************************)
EXTENDS Integers, FiniteSets, SequencesExt, Functions

CONSTANTS
  Coord,       \* coordinates
  Street,      \* streets, and traffic distortions
  Distortion,  \* those that are traffic distortions
  From, To,    \* the coordinates where they start and end
  Flags,       \* the flags of each: a set of one-way flags
  Restriction, \* turn restrictions
  Kind,        \* "no" or "only"
  Via,         \* the three coordinates of each
  Twice        \* items that two tiles of a map give

ASSUME GraphAssumption ==
  /\ Distortion \subseteq Street
  /\ From \in [Street -> Coord] /\ To \in [Street -> Coord]
  /\ Flags \in [Street -> SUBSET {"AF_ONEWAY", "AF_ONEWAYREV"}]
  /\ Kind \in [Restriction -> {"no", "only"}]
  /\ Via \in [Restriction -> [1..3 -> Coord]]
  /\ Street \cap Restriction = {}
  /\ Twice \subseteq Street \cup Restriction

(* No street is a ring, and the coordinates of a restriction are three:    *)
(* is_turn_allowed would apply one that leads back at both of its ends.    *)
PlainNetwork ==
  /\ \A i \in Street \ Distortion : From[i] # To[i]
  /\ \A r \in Restriction : IsInjective(Via[r])

VARIABLES
  unread,  \* items the maps have not given yet
  again,   \* items they may give once more
  graph,   \* [pnt, seg]: the points and the segments, in order of creation
  todo,    \* the points process_restrictions has still to come to
  ready    \* done_cb has been called

vars == <<unread, again, graph, todo, ready>>

(* struct route_graph_point and struct route_graph_segment; a point is its *)
(* index                                                                   *)
Pnt == [at : Coord, turn : BOOLEAN, distorted : BOOLEAN]
Seg == [start : Nat, end : Nat, item : Street \cup Restriction,
        flags : SUBSET {"AF_ONEWAY", "AF_ONEWAYREV"}, len : Nat]

TypeOK ==
  /\ unread \subseteq Street \cup Restriction
  /\ again \subseteq Street \cup Restriction
  /\ graph \in [pnt : Seq(Pnt), seg : Seq(Seg)]
  /\ \A i \in DOMAIN graph.seg :
       {graph.seg[i].start, graph.seg[i].end} \subseteq DOMAIN graph.pnt
  /\ todo \subseteq DOMAIN graph.pnt
  /\ ready \in BOOLEAN

(* route_graph_build *)
Init ==
  /\ unread = Street \cup Restriction
  /\ again = Twice
  /\ graph = [pnt |-> <<>>, seg |-> <<>>]
  /\ todo = {}
  /\ ready = FALSE

-----------------------------------------------------------------------------
(* p->start and p->end: the segments at a point *)
Starting(g, p) == {s \in ToSet(g.seg) : s.start = p}
Ending(g, p) == {s \in ToSet(g.seg) : s.end = p}

(* route_graph_point_new *)
NewPoint(g, c) ==
  [g EXCEPT !.pnt = Append(@, [at |-> c, turn |-> FALSE, distorted |-> FALSE])]

(* route_graph_add_point, and the point it returns *)
AddPoint(g, c) ==
  IF \E p \in DOMAIN g.pnt : g.pnt[p].at = c THEN g ELSE NewPoint(g, c)
PointAt(g, c) == CHOOSE p \in DOMAIN g.pnt : g.pnt[p].at = c

(* route_graph_add_segment *)
AddSegment(g, s) == [g EXCEPT !.seg = Append(@, s)]

(* A segment of item i between two coordinates, with its points *)
Between(g, c, d, i, flags) ==
  [start |-> PointAt(g, c), end |-> PointAt(g, d), item |-> i,
   flags |-> flags, len |-> 0]

(* Mutant of IsDuplicate: only the latest segment is looked at *)
IsLatest(g, p, i) ==
  \E k \in DOMAIN g.seg :
    /\ g.seg[k].start = p /\ g.seg[k].item = i
    /\ \A j \in DOMAIN g.seg : g.seg[j].start = p => j <= k

(* route_graph_segment_is_duplicate *)
IsDuplicate(g, p, i) == \E s \in Starting(g, p) : s.item = i

(* route_process_street_graph *)
AddStreet(g, i) ==
  LET h == AddPoint(AddPoint(g, From[i]), To[i])
  IN IF IsDuplicate(h, PointAt(h, From[i]), i) THEN h
     ELSE AddSegment(h, Between(h, From[i], To[i], i, Flags[i]))

(* route_process_traffic_distortion *)
AddDistortion(g, i) ==
  LET h == AddPoint(AddPoint(g, From[i]), To[i])
      ends == {PointAt(h, From[i]), PointAt(h, To[i])}
  IN AddSegment([h EXCEPT !.pnt = [p \in DOMAIN h.pnt |->
                   [h.pnt[p] EXCEPT !.distorted = @ \/ p \in ends]]],
                Between(h, From[i], To[i], i, {}))

(* route_process_turn_restriction *)
AddRestriction(g, i) ==
  LET h == AddPoint(AddPoint(AddPoint(g, Via[i][1]), Via[i][2]), Via[i][3])
  IN AddSegment(AddSegment([h EXCEPT !.pnt[PointAt(h, Via[i][2])].turn = TRUE],
                           Between(h, Via[i][1], Via[i][2], i, {})),
                Between(h, Via[i][2], Via[i][3], i, {}))

Add(g, i) ==
  IF i \in Restriction THEN AddRestriction(g, i)
  ELSE IF i \in Distortion THEN AddDistortion(g, i)
  ELSE AddStreet(g, i)

-----------------------------------------------------------------------------
(* The coordinate at the other end of segment s *)
Opposite(g, p, s) == g.pnt[IF s.start = p THEN s.end ELSE s.start].at

(* Mutant of Forbids: "only" is read as "no" *)
ForbidsTo(r, next, to) == next = to

(* A turn restriction that leads to "to" forbids to go on to "next" *)
Forbids(r, next, to) == IF Kind[r] = "no" THEN next = to ELSE next # to

(* is_turn_allowed *)
IsTurnAllowed(g, p, s, t) ==
  /\ s.item # t.item
  /\ \A u \in Ending(g, p), v \in Starting(g, p) :
       /\ u.item \in Restriction
       /\ g.pnt[u.start].at = Opposite(g, p, s)
       /\ v.item = u.item
       => ~Forbids(u.item, Opposite(g, p, t), g.pnt[v.end].at)

IsWay(s) == s.item \notin Restriction

(* Driving over segment s from its start to its end (1) or back (-1), and  *)
(* the flag of a segment that can only be driven in one of the directions  *)
Behind(s, d) == IF d = 1 THEN s.start ELSE s.end
Ahead(s, d) == IF d = 1 THEN s.end ELSE s.start
OneWayFlag(d) == IF d = 1 THEN "AF_ONEWAY" ELSE "AF_ONEWAYREV"

(* Mutant of Clone: a copy is shorter *)
CloneShorter(g, s, d, pn, flag) ==
  AddSegment(g, [start |-> IF d = 1 THEN pn ELSE s.start, end |-> IF d = 1 THEN s.end ELSE pn,
                 item |-> s.item, flags |-> s.flags \cup {flag}, len |-> s.len - 1])

(* route_graph_clone_segment, as it is called: with pn for the point       *)
(* behind s                                                                *)
Clone(g, s, d, pn, flag) ==
  AddSegment(g, [start |-> IF d = 1 THEN pn ELSE s.start, end |-> IF d = 1 THEN s.end ELSE pn,
                 item |-> s.item, flags |-> s.flags \cup {flag}, len |-> s.len + 1])

(* A loop over the segments of g, the latest first, that adds others at    *)
(* the head of their lists                                                 *)
OverSegments(do(_, _), g) ==
  LET h[n \in 0..Len(g.seg)] ==
        IF n = 0 THEN g ELSE do(h[n - 1], g.seg[Len(g.seg) + 1 - n])
  IN h[Len(g.seg)]

(* The two loops of route_graph_process_restriction_segment, over p->start *)
(* (1) and p->end (-1): from the copy pn that one comes to over segment s, *)
(* one leaves by those on which the turn is allowed                        *)
Leave(g, p, s, pn, d) ==
  LET leave(h, t) ==
        IF /\ Behind(t, d) = p /\ t # s /\ IsWay(t) /\ OneWayFlag(-d) \notin t.flags
           /\ IsTurnAllowed(h, p, s, t)
        THEN Clone(h, t, d, pn, OneWayFlag(d)) ELSE h
  IN OverSegments(leave, g)

(* route_graph_process_restriction_segment, going away (1) and coming in   *)
(* (-1): the segment is driven towards p                                   *)
ProcessSegment(g, p, s, d) ==
  LET h == NewPoint(g, g.pnt[p].at)
      pn == Len(h.pnt)
  IN IF OneWayFlag(d) \in s.flags THEN h
     ELSE Leave(Leave(Clone(h, s, d, pn, OneWayFlag(-d)), p, s, pn, 1), p, s, pn, -1)

(* The loops of route_graph_process_restriction_point *)
ProcessAll(g, p, d) ==
  LET process(h, s) ==
        IF Behind(s, d) = p /\ IsWay(s) THEN ProcessSegment(h, p, s, d) ELSE h
  IN OverSegments(process, g)

(* route_graph_process_restriction_point *)
ProcessPoint(g, p) == ProcessAll(ProcessAll(g, p, 1), p, -1)

-----------------------------------------------------------------------------
(* route_graph_build_idle *)
Read(i) ==
  /\ i \in unread \cup again
  /\ unread' = unread \ {i}
  /\ again' = IF i \in unread THEN again ELSE again \ {i}
  /\ graph' = Add(graph, i)
  /\ UNCHANGED <<todo, ready>>

(* Mutant of ToResolve: points without a restriction are resolved, too *)
AnyPoint == DOMAIN graph.pnt

(* The points whose flags have RP_TURN_RESTRICTION *)
ToResolve == {p \in DOMAIN graph.pnt : graph.pnt[p].turn}

(* route_graph_build_done comes to route_graph_process_restrictions *)
BuildDone ==
  /\ unread = {} /\ again = {} /\ ~ready /\ todo = {}
  /\ todo' = ToResolve
  /\ ready' = (todo' = {})
  /\ UNCHANGED <<unread, again, graph>>

(* One point of its loop; the points stand in the order of a hash table *)
Resolve(p) ==
  /\ p \in todo
  /\ graph' = ProcessPoint(graph, p)
  /\ todo' = todo \ {p}
  /\ ready' = (todo' = {})
  /\ UNCHANGED <<unread, again>>

Next ==
  \/ \E i \in Street \cup Restriction : Read(i)
  \/ BuildDone
  \/ \E p \in todo : Resolve(p)

Spec == Init /\ [][Next]_vars

-----------------------------------------------------------------------------
(* Driving.  A leg is [item, from, to]: a street, driven from one of its   *)
(* ends to the other.                                                      *)

(* route_value_seg: the one-way flags, and points that are resolved *)
Drivable(s, d) ==
  /\ s.item \in Street \ Distortion
  /\ OneWayFlag(-d) \notin s.flags /\ ~graph.pnt[Behind(s, d)].turn

LegOf(s, d) == [item |-> s.item, from |-> graph.pnt[Behind(s, d)].at,
                to |-> graph.pnt[Ahead(s, d)].at]

(* Two and three legs in a row that the graph connects *)
Drives == {v \in ToSet(graph.seg) \X {1, -1} : Drivable(v[1], v[2])}
Joins(v, w) ==
  Ahead(v[1], v[2]) = Behind(w[1], w[2]) /\ v[1].item # w[1].item
Joined == {x \in Drives \X Drives : Joins(x[1], x[2])}
Connected ==
  {<<LegOf(x[1][1][1], x[1][1][2]), LegOf(x[1][2][1], x[1][2][2]), LegOf(x[2][1], x[2][2])>> :
     x \in {y \in Joined \X Drives : Joins(y[1][2], y[2])}}

(* The same from what the maps say *)
Legs ==
  {[item |-> i, from |-> From[i], to |-> To[i]] :
     i \in {j \in Street \ Distortion : "AF_ONEWAYREV" \notin Flags[j]}}
  \cup
  {[item |-> i, from |-> To[i], to |-> From[i]] :
     i \in {j \in Street \ Distortion : "AF_ONEWAY" \notin Flags[j]}}

Permitted(k, l) ==
  /\ k.to = l.from /\ k.item # l.item
  /\ \A r \in Restriction :
       Via[r][1] = k.from /\ Via[r][2] = k.to =>
         IF Kind[r] = "no" THEN Via[r][3] # l.to ELSE Via[r][3] = l.to

Allowed ==
  {w \in Legs \X Legs \X Legs : Permitted(w[1], w[2]) /\ Permitted(w[2], w[3])}

Restricted(c) == \E r \in Restriction : Via[r][2] = c

(* The finished graph connects three streets in a row exactly when the     *)
(* turns between them are allowed, whatever the order in which items were  *)
(* read and points resolved, also where restricted points are neighbours.  *)
WaysAreAllowedWays ==
  ready => {w \in Connected : ~Restricted(w[1].from)}
           = {w \in Allowed : ~Restricted(w[1].from)}

(* Every street is in the graph once until its ends are resolved, however  *)
(* often it was read.                                                      *)
NothingTwice ==
  \A i \in DOMAIN graph.seg, j \in DOMAIN graph.seg :
    /\ graph.seg[i].item \in Street \ Distortion
    /\ graph.seg[i].item = graph.seg[j].item
    /\ graph.seg[i].start = graph.seg[j].start
    /\ graph.seg[i].end = graph.seg[j].end
    => i = j

(* A copy makes a street one longer: what is driven is longer than the     *)
(* street by no more than one for each of its ends that is resolved, so    *)
(* that copies do not decide between different ways.  (A street that ends  *)
(* where it starts is copied more often.)                                  *)
CopiesBarelyLonger ==
  ready => \A v \in Drives :
             From[v[1].item] # To[v[1].item] =>
               v[1].len <= Cardinality({c \in {From[v[1].item], To[v[1].item]} :
                                         Restricted(c)})

=============================================================================
