---------------------------- MODULE RouteProofs ----------------------------
(***************************************************************************)
(* Proofs about Route.  The two operators that every operation of route.c  *)
(* ends in, UpdateDone and PathUpdate, are treated once, in lemmas about   *)
(* an arbitrary graph g, path p, heap h and destination index c; the steps *)
(* of the invariance proofs then only establish their hypotheses.          *)
(***************************************************************************)
EXTENDS Route, SequenceTheorems, TLAPS

(* The part of TypeOK that UpdateDone and PathUpdate take and give back    *)
Typed(g, p, h, c, d) ==
  /\ g \in RouteGraph
  /\ p \in Seq(LegId)
  /\ h \in [LegId -> RoutePath]
  /\ c \in 0..Len(d)

(* The part they rely on and leave alone *)
Inputs ==
  /\ pos' \in Place \cup {None}
  /\ destinations' \in Seq(Street)
  /\ vehicleprofile' \in Profile
  /\ rect' \in [Reader -> MapRect]

(* A free leg is a well formed leg *)
LEMMA NoLegType == NoLeg \in RoutePath
  BY DEF NoLeg, RoutePath

(* Dropping a holder, or destroying a leg, leaves a well formed leg *)
LEMMA LegTypes ==
  ASSUME NEW x \in RoutePath
  PROVE  Dropped(x) \in RoutePath /\ Destroyed(x) \in RoutePath
  <1>1. ASSUME NEW y \in RoutePath PROVE Dropped(y) \in RoutePath
    BY <1>1, NoLegType DEF Dropped, RoutePath
  <1>2. [x EXCEPT !.segs = FALSE, !.from = None, !.to = None] \in RoutePath
    BY DEF RoutePath
  <1> QED
    BY <1>1, <1>2 DEF Destroyed

LEMMA UpdateRequiredType ==
  ASSUME NEW x \in RoutePath, NEW n \in 0..2
  PROVE  [x EXCEPT !.update_required = n] \in RoutePath
  BY DEF RoutePath

LEMMA DestroyLegType ==
  ASSUME NEW h \in [LegId -> RoutePath], NEW l \in LegId
  PROVE  DestroyLeg(h, l) \in [LegId -> RoutePath]
  BY LegTypes DEF DestroyLeg

LEMMA HeapTypes ==
  ASSUME NEW h \in [LegId -> RoutePath], NEW p \in Seq(LegId)
  PROVE  /\ DestroyPath(h, p) \in [LegId -> RoutePath]
         /\ Reachable(h, p) \in [LegId -> RoutePath]
  BY LegTypes, NoLegType DEF DestroyPath, Reachable

(* Flooding keeps a graph well formed *)
LEMMA FloodedType ==
  ASSUME NEW g \in RouteGraph, destinations' \in Seq(Street),
         vehicleprofile' \in Profile, NEW i \in 1..Len(destinations')
  PROVE  Flooded(g, i) \in RouteGraph
  BY DEF Flooded, RouteGraph

(* The legs a route allocates *)
LEMMA AllocationType ==
  ASSUME NEW c \in Nat, Allocations(c) # {}
  PROVE  LET ids == CHOOSE f \in Allocations(c) : TRUE
         IN /\ ids \in Seq(LegId)
            /\ Len(ids) = c
            /\ \A i \in 1..c : ids[i] \in LegId \ Referenced
            /\ \A i, j \in 1..c : ids[i] = ids[j] => i = j
  <1> DEFINE ids == CHOOSE f \in Allocations(c) : TRUE
  <1>1. ids \in Allocations(c)
    OBVIOUS
  <1>2. ids \in [1..c -> LegId \ Referenced] /\ IsInjective(ids)
    BY <1>1 DEF Allocations
  <1>3. \A i, j \in 1..c : ids[i] = ids[j] => i = j
    BY <1>2 DEF IsInjective
  <1>4. ids \in Seq(LegId) /\ Len(ids) = c
    BY <1>2
  <1> QED
    BY <1>2, <1>3, <1>4

(* The place a leg starts at *)
LEMMA PreviousType ==
  ASSUME Inputs, NEW i \in 1..Len(destinations')
  PROVE  Previous(i) \in Place \cup {None}
  BY DEF Inputs, Previous, Street

-----------------------------------------------------------------------------
(* Types of the branches of UpdateDone and PathUpdate *)

LEMMA DeferType ==
  ASSUME NEW g, NEW p, NEW h, NEW c, NEW new \in {0, 1}, Inputs,
         Typed(g, p, h, c, destinations'), Defer(g, p, h, c, new)
  PROVE  Typed(graph', path2', leg', current_dst', destinations')
  <1>1. Head(p) \in LegId
    BY DEF Typed, Defer, IsDeferred
  <1>2. [h[Head(p)] EXCEPT !.update_required = 1 + new] \in RoutePath
    <2>1. h[Head(p)] \in RoutePath
      BY <1>1 DEF Typed
    <2>2. 1 + new \in 0..2
      OBVIOUS
    <2> QED
      BY <2>1, <2>2, UpdateRequiredType
  <1> QED
    BY <1>1, <1>2 DEF Typed, Defer

LEMMA RelinkType ==
  ASSUME NEW g, NEW p, NEW h, NEW c, NEW new \in {0, 1}, Inputs,
         Typed(g, p, h, c, destinations'), Relink(g, p, h, c, new)
  PROVE  /\ Typed(graph', path2', leg', current_dst', destinations')
         /\ route_status' \in Status
  <1> DEFINE ids  == CHOOSE f \in Allocations(c) : TRUE
             rest == IF p = <<>> THEN <<>> ELSE Tail(p)
             kept == IF p = <<>> THEN h ELSE DestroyLeg(h, Head(p))
  <1>0. Len(destinations') \in Nat
    BY DEF Inputs
  <1>a. c > 0 /\ Allocations(c) # {}
    BY DEF Relink
  <1>1. c \in 1..Len(destinations')
    BY <1>0, <1>a DEF Typed
  <1>2. ids \in Seq(LegId) /\ Len(ids) = c
    BY <1>0, <1>1, <1>a, AllocationType
  <1>3. path2' \in Seq(LegId)
    <2>1. rest \in Seq(LegId)
      BY DEF Typed
    <2>2. path2' = ids \o rest
      BY DEF Relink
    <2> QED
      BY <1>2, <2>1, <2>2
  <1>4. kept \in [LegId -> RoutePath]
    BY DestroyLegType DEF Typed
  <1>5. ASSUME NEW i \in 1..c PROVE NewLeg(i) \in RoutePath
    <2>1. Previous(i) \in Place \cup {None} /\ destinations'[i] \in Street
      BY <1>0, <1>1, <1>5, PreviousType DEF Inputs
    <2> QED
      BY <2>1 DEF NewLeg, RoutePath
  <1>6. leg' \in [LegId -> RoutePath]
    <2>1. leg' = [l \in LegId |->
               IF \E i \in 1..c : ids[i] = l
               THEN NewLeg(CHOOSE i \in 1..c : ids[i] = l) ELSE kept[l]]
      BY DEF Relink
    <2> HIDE DEF ids, kept
    <2> QED
      BY <2>1, <1>4, <1>5
  <1>7. graph' \in RouteGraph
    <2>1. Flooded(g, 1) \in RouteGraph
      BY <1>0, <1>1, FloodedType DEF Typed, Inputs
    <2>2. graph' = IF c = 1 THEN g ELSE Flooded(g, 1)
      BY DEF Relink
    <2> QED
      BY <2>1, <2>2 DEF Typed
  <1>8. current_dst' \in 0..Len(destinations')
    <2>1. current_dst' = 1
      BY DEF Relink
    <2> QED
      BY <1>0, <1>1, <2>1
  <1>9. route_status' \in Status
    BY DEF Relink, Status
  <1> QED
    BY <1>3, <1>6, <1>7, <1>8, <1>9 DEF Typed

LEMMA LoseType ==
  ASSUME NEW g, NEW p, NEW h, NEW c, NEW i \in 0..c, Inputs,
         Typed(g, p, h, c, destinations'), Lose(p, h, c, i)
  PROVE  /\ path2' \in Seq(LegId)
         /\ leg' \in [LegId -> RoutePath]
         /\ current_dst' \in 0..Len(destinations')
  <1> DEFINE kept == IF i < c /\ p # <<>> THEN DestroyLeg(h, Head(p)) ELSE h
  <1>1. kept \in [LegId -> RoutePath]
    BY DestroyLegType DEF Typed
  <1>2. leg' = Reachable(kept, <<>>) /\ path2' = <<>> /\ current_dst' = i
    BY DEF Lose
  <1>3. <<>> \in Seq(LegId)
    OBVIOUS
  <1>4. Len(destinations') \in Nat /\ c \in 0..Len(destinations')
    BY DEF Inputs, Typed
  <1> HIDE DEF kept
  <1>5. leg' \in [LegId -> RoutePath]
    BY <1>1, <1>2, <1>3, HeapTypes
  <1> QED
    BY <1>2, <1>3, <1>4, <1>5

LEMMA GraphUpdateType ==
  ASSUME Inputs, GraphUpdate
  PROVE  graph' \in RouteGraph /\ route_status' \in Status
  BY DEF Inputs, GraphUpdate, RouteGraph, Status

LEMMA UpdateDoneType ==
  ASSUME NEW g, NEW p, NEW h, NEW c, NEW new \in {0, 1},
         NEW rebuild \in BOOLEAN, Inputs,
         Typed(g, p, h, c, destinations'), UpdateDone(g, p, h, c, new, rebuild),
         route_status \in Status, fault \in BOOLEAN
  PROVE  /\ Typed(graph', path2', leg', current_dst', destinations')
         /\ route_status' \in Status
         /\ fault' \in BOOLEAN
  <1>1. CASE Defer(g, p, h, c, new)
    BY <1>1, DeferType DEF Defer
  <1>2. CASE Crash(g, p, h, c)
    BY <1>2 DEF Crash, Typed
  <1>3. CASE Relink(g, p, h, c, new)
    BY <1>3, RelinkType DEF Relink
  <1>4. CASE \E i \in 0..c :
               /\ BreaksAt(g, c, i)
               /\ Lose(p, h, c, i)
               /\ IF rebuild THEN GraphUpdate
                  ELSE /\ graph' = IF i = c THEN g ELSE Flooded(g, i)
                       /\ route_status' = "not_found"
    <2>1. PICK i \in 0..c : /\ BreaksAt(g, c, i)
                            /\ Lose(p, h, c, i)
                            /\ IF rebuild THEN GraphUpdate
                               ELSE /\ graph' = IF i = c THEN g ELSE Flooded(g, i)
                                    /\ route_status' = "not_found"
      BY <1>4
    <2>2. i = c \/ i \in 1..Len(destinations')
      BY <2>1 DEF BreaksAt, Gaps, Typed, Inputs
    <2>3. graph' \in RouteGraph /\ route_status' \in Status
      BY <2>1, <2>2, FloodedType, GraphUpdateType DEF Typed, Inputs, Status
    <2>4. /\ path2' \in Seq(LegId)
          /\ leg' \in [LegId -> RoutePath]
          /\ current_dst' \in 0..Len(destinations')
      BY <2>1, LoseType
    <2> QED
      BY <2>1, <2>3, <2>4 DEF Typed, Lose
  <1> QED
    BY <1>1, <1>2, <1>3, <1>4 DEF UpdateDone

LEMMA PathUpdateType ==
  ASSUME NEW cancel \in BOOLEAN, NEW g \in RouteGraph, NEW c \in Nat,
         NEW status \in Status, TypeOK, Inputs, c <= Len(destinations'),
         PathUpdate(cancel, g, c, status)
  PROVE  /\ Typed(graph', path2', leg', current_dst', destinations')
         /\ route_status' \in Status
         /\ fault' \in BOOLEAN
  <1>1. /\ DestroyPath(leg, path2) \in [LegId -> RoutePath]
        /\ <<>> \in Seq(LegId)
    BY HeapTypes DEF TypeOK
  <1>2. Len(destinations') \in Nat /\ c \in 0..Len(destinations')
    BY DEF Inputs
  <1>3. Typed(g, path2, leg, c, destinations')
    BY <1>2 DEF Typed, TypeOK
  <1>4. CASE /\ path2' = <<>>
             /\ leg' = DestroyPath(leg, path2)
             /\ current_dst' = c
             /\ GraphUpdate \/ (graph' = g /\ route_status' = status)
             /\ UNCHANGED fault
    BY <1>1, <1>2, <1>4, GraphUpdateType DEF Typed, TypeOK
  <1>5. CASE /\ graph' = g
             /\ current_dst' = c
             /\ route_status' = status
             /\ UNCHANGED <<path2, leg, fault>>
    BY <1>3, <1>5 DEF Typed, TypeOK
  <1>6. CASE UpdateDone(g, path2, leg, c, 0, TRUE)
    BY <1>3, <1>6, UpdateDoneType DEF TypeOK
  <1> QED
    BY <1>4, <1>5, <1>6 DEF PathUpdate, DropPath

-----------------------------------------------------------------------------
(* The operations keep the types *)

(* What the operations of the route keep *)
RouteOK ==
  /\ pos \in Place \cup {None}
  /\ destinations \in Seq(Street)
  /\ vehicleprofile \in Profile
  /\ Typed(graph, path2, leg, current_dst, destinations)
  /\ route_status \in Status
  /\ fault \in BOOLEAN

LEMMA RouteOKType ==
  ASSUME RouteOK', rect' \in [Reader -> MapRect], stage' \in Stage
  PROVE  TypeOK'
  BY DEF RouteOK, Typed, TypeOK

LEMMA SetPositionType ==
  ASSUME TypeOK, UNCHANGED rect, NEW p \in Place,
         RouteSetPosition(p) \/ RouteSetPositionFromTracking(p)
  PROVE  RouteOK'
  <1>1. CASE /\ pos' = None \/ pos' = p
             /\ UNCHANGED <<destinations, vehicleprofile, current_dst, graph,
                            path2, leg, route_status, fault>>
    BY <1>1 DEF TypeOK, RouteOK, Typed
  <1>2. CASE /\ pos' = p
             /\ UNCHANGED <<destinations, vehicleprofile>>
             /\ PathUpdate(FALSE, graph, current_dst, route_status)
    <2>1. Inputs
      BY <1>2 DEF TypeOK, Inputs
    <2>2. current_dst \in Nat /\ current_dst <= Len(destinations')
      BY <1>2 DEF TypeOK
    <2> QED
      BY <1>2, <2>1, <2>2, PathUpdateType DEF TypeOK, RouteOK, Inputs
  <1> QED
    BY <1>1, <1>2 DEF RouteSetPosition, RouteSetPositionFromTracking

LEMMA SetDestinationsType ==
  ASSUME TypeOK, UNCHANGED rect, NEW ds \in Seq(Street),
         NEW dropped \in BOOLEAN, RouteSetDestinations(ds, dropped)
  PROVE  RouteOK'
  <1> DEFINE status == IF ds = <<>> /\ ~dropped THEN "no_destination"
                                               ELSE "destination_set"
  <1>1. Inputs /\ Len(ds) \in Nat /\ Len(ds) <= Len(destinations')
    BY DEF RouteSetDestinations, TypeOK, Inputs
  <1>2. NoGraph \in RouteGraph
    BY DEF NoGraph, RouteGraph
  <1>3. status \in Status
    BY DEF Status
  <1>4. PathUpdate(TRUE, NoGraph, Len(ds), status)
    BY DEF RouteSetDestinations
  <1> HIDE DEF status
  <1> QED
    BY <1>1, <1>2, <1>3, <1>4, PathUpdateType DEF RouteOK, Inputs

LEMMA SetProfileType ==
  ASSUME TypeOK, NEW v \in Profile, SetProfile(v)
  PROVE  RouteOK'
  <1>1. Inputs /\ current_dst \in Nat /\ current_dst <= Len(destinations')
    BY DEF SetProfile, TypeOK, Inputs
  <1>2. PathUpdate(TRUE, graph, current_dst, route_status)
    BY DEF SetProfile
  <1> QED
    BY <1>1, <1>2, PathUpdateType DEF TypeOK, RouteOK, Inputs

LEMMA BuildIdleType ==
  ASSUME TypeOK, BuildIdle
  PROVE  RouteOK'
  <1> DEFINE built == [graph EXCEPT !.phase = "idle"]
  <1>1. Inputs /\ UNCHANGED <<destinations, vehicleprofile, pos>>
    BY DEF BuildIdle, TypeOK, Inputs
  <1>2. built \in RouteGraph
    BY DEF TypeOK, RouteGraph
  <1>3. CASE current_dst = 0
    BY <1>1, <1>3 DEF BuildIdle, Crash, TypeOK, RouteOK, Typed
  <1>4. CASE current_dst # 0
    <2>1. current_dst \in 1..Len(destinations')
      BY <1>1, <1>4 DEF TypeOK
    <2>2. Flooded(built, current_dst) \in RouteGraph
      BY <1>1, <1>2, <2>1, FloodedType DEF Inputs
    <2>3. UpdateDone(Flooded(built, current_dst), path2, leg, current_dst, 1,
                     FALSE)
      BY <1>4 DEF BuildIdle
    <2>4. Typed(Flooded(built, current_dst), path2, leg, current_dst,
                destinations')
      BY <1>1, <2>2 DEF Typed, TypeOK
    <2> QED
      BY <1>1, <2>3, <2>4, UpdateDoneType DEF RouteOK, Inputs, TypeOK
  <1> QED
    BY <1>3, <1>4

LEMMA RemoveWaypointType ==
  ASSUME TypeOK, UNCHANGED rect, Reached, Len(destinations) > 1,
         RouteRemoveWaypoint
  PROVE  RouteOK'
  <1>1. /\ destinations' \in Seq(Street)
        /\ Len(destinations') = Len(destinations) - 1
    BY DEF RouteRemoveWaypoint, Reached, TypeOK
  <1>2. Inputs
    BY <1>1 DEF RouteRemoveWaypoint, TypeOK, Inputs
  <1>3. Head(path2) \in LegId /\ Tail(path2) \in Seq(LegId)
    BY DEF Reached, TypeOK
  <1>4. DestroyLeg(leg, Head(path2)) \in [LegId -> RoutePath]
    BY <1>3, DestroyLegType DEF TypeOK
  <1>5. 1 \in 1..Len(destinations')
    BY <1>1 DEF TypeOK
  <1>6. Flooded(graph, 1) \in RouteGraph
    BY <1>2, <1>5, FloodedType DEF TypeOK, Inputs
  <1>7. Typed(Flooded(graph, 1), Tail(path2), DestroyLeg(leg, Head(path2)), 1,
              destinations')
    BY <1>3, <1>4, <1>5, <1>6 DEF Typed
  <1>8. UpdateDone(Flooded(graph, 1), Tail(path2), DestroyLeg(leg, Head(path2)),
                   1, 1, FALSE)
    BY DEF RouteRemoveWaypoint
  <1> QED
    BY <1>2, <1>7, <1>8, UpdateDoneType DEF RouteOK, Inputs, TypeOK

LEMMA HoldType ==
  ASSUME NEW x \in RoutePath
  PROVE  Held(x) \in RoutePath
  BY DEF Held, RoutePath

LEMMA RectNewType ==
  ASSUME TypeOK, NEW r \in Reader, RectNew(r)
  PROVE  RouteOK' /\ rect' \in [Reader -> MapRect]
  <1>1. rect' \in [Reader -> MapRect]
    BY DEF RectNew, TypeOK, MapRect
  <1>2. ASSUME path2 # <<>> PROVE leg' \in [LegId -> RoutePath]
    <2>1. Head(path2) \in LegId
      BY <1>2 DEF TypeOK
    <2> QED
      BY <1>2, <2>1, HoldType DEF RectNew, TypeOK
  <1> QED
    BY <1>1, <1>2 DEF RectNew, TypeOK, RouteOK, Typed

LEMMA RectGetItemType ==
  ASSUME TypeOK, NEW r \in Reader, RectGetItem(r)
  PROVE  RouteOK' /\ rect' \in [Reader -> MapRect]
  <1> DEFINE legs == rect[r].legs
  <1>1. legs \in Seq(LegId) /\ rect[r] \in MapRect
    BY DEF TypeOK, MapRect
  <1>2. CASE fault' = TRUE /\ UNCHANGED <<leg, rect>>
    BY <1>2 DEF RectGetItem, TypeOK, RouteOK, Typed
  <1>3. CASE /\ Len(legs) > 1
             /\ LET h == [leg EXCEPT ![legs[1]] = Dropped(@)]
                IN leg' = [h EXCEPT ![legs[2]] = Held(@)]
             /\ rect' = [rect EXCEPT ![r].legs = Tail(@)]
             /\ UNCHANGED fault
    <2>1. legs[1] \in LegId /\ legs[2] \in LegId /\ Tail(legs) \in Seq(LegId)
      BY <1>1, <1>3
    <2> DEFINE h == [leg EXCEPT ![legs[1]] = Dropped(@)]
    <2>2. h \in [LegId -> RoutePath]
      BY <2>1, LegTypes DEF TypeOK
    <2>3. h[legs[2]] \in RoutePath
      BY <2>1, <2>2
    <2>4. Held(h[legs[2]]) \in RoutePath
      BY <2>3, HoldType
    <2>5. leg' = [h EXCEPT ![legs[2]] = Held(h[legs[2]])]
      BY <1>3
    <2>6. leg' \in [LegId -> RoutePath]
      <3> HIDE DEF h, legs
      <3> QED
        BY <2>1, <2>2, <2>4, <2>5
    <2>7. [rect[r] EXCEPT !.legs = Tail(legs)] \in MapRect
      <3> HIDE DEF legs
      <3> QED
        BY <1>1, <2>1 DEF MapRect
    <2>8. rect' \in [Reader -> MapRect]
      BY <1>3, <2>7 DEF TypeOK
    <2> QED
      BY <1>3, <2>6, <2>8 DEF RectGetItem, TypeOK, RouteOK, Typed
  <1> QED
    BY <1>2, <1>3 DEF RectGetItem

LEMMA RectDestroyType ==
  ASSUME TypeOK, NEW r \in Reader, RectDestroy(r)
  PROVE  RouteOK' /\ rect' \in [Reader -> MapRect]
  <1>1. rect' \in [Reader -> MapRect]
    BY DEF RectDestroy, TypeOK, MapRect, Closed
  <1>2. CASE rect[r].legs = <<>>
    BY <1>1, <1>2 DEF RectDestroy, TypeOK, RouteOK, Typed
  <1>3. CASE rect[r].legs # <<>>
    <2> DEFINE l == Head(rect[r].legs)
               h == [leg EXCEPT ![l] = Dropped(@)]
    <2>1. l \in LegId
      BY <1>3 DEF TypeOK, MapRect
    <2>2. h \in [LegId -> RoutePath]
      BY <2>1, LegTypes DEF TypeOK
    <2>3. Inputs
      BY <1>1 DEF RectDestroy, TypeOK, Inputs
    <2>4. CASE /\ leg' = Reachable(h, path2)
               /\ UNCHANGED <<current_dst, graph, path2, route_status, fault>>
      <3>1. leg' \in [LegId -> RoutePath]
        BY <2>2, <2>4, HeapTypes DEF TypeOK
      <3> QED
        BY <1>1, <2>4, <3>1 DEF RectDestroy, TypeOK, RouteOK, Typed
    <2>5. CASE /\ h[l].update_required # 0
               /\ UpdateDone(graph, path2, h, current_dst,
                             h[l].update_required - 1, FALSE)
      <3>1. h[l].update_required \in 0..2
        BY <2>1, <2>2 DEF RoutePath
      <3>2. h[l].update_required - 1 \in {0, 1}
        BY <2>5, <3>1
      <3>3. Typed(graph, path2, h, current_dst, destinations')
        BY <2>2 DEF RectDestroy, TypeOK, Typed
      <3> QED
        BY <1>1, <2>3, <2>5, <3>2, <3>3, UpdateDoneType
           DEF RouteOK, Inputs, TypeOK
    <2> QED
      BY <1>3, <2>4, <2>5 DEF RectDestroy
  <1> QED
    BY <1>2, <1>3

-----------------------------------------------------------------------------
(* Every variable of the route keeps its type: in particular current_dst   *)
(* never points beyond the list of destinations, although that list is     *)
(* shortened and replaced while graphs are built and updates are put off.  *)
THEOREM TypeCorrect == Spec => []TypeOK
  <1>1. Init => TypeOK
    <2> SUFFICES ASSUME Init PROVE TypeOK
      OBVIOUS
    <2>1. NoGraph \in RouteGraph
      BY DEF NoGraph, RouteGraph
    <2>2. Closed \in MapRect
      BY DEF Closed, MapRect
    <2>3. /\ leg \in [LegId -> RoutePath]
          /\ rect \in [Reader -> MapRect]
      BY <2>2, NoLegType DEF Init
    <2>4. /\ destinations \in Seq(Street) /\ path2 \in Seq(LegId)
          /\ current_dst \in 0..Len(destinations)
      BY DEF Init
    <2>5. /\ route_status \in Status /\ stage \in Stage
          /\ pos \in Place \cup {None} /\ vehicleprofile \in Profile
          /\ fault \in BOOLEAN /\ graph \in RouteGraph
      BY <2>1 DEF Init, Status, Stage
    <2> QED
      BY <2>3, <2>4, <2>5 DEF TypeOK
  <1>2. TypeOK /\ [Next]_vars => TypeOK'
    <2> SUFFICES ASSUME TypeOK, [Next]_vars PROVE TypeOK'
      OBVIOUS
    <2>1. ASSUME NEW p \in Place, SetPosition(p) PROVE TypeOK'
      BY <2>1, SetPositionType, RouteOKType
         DEF SetPosition, TypeOK, Stage, Redraw, Resume
    <2>2. ASSUME NEW p \in Place, NEW tracking \in BOOLEAN,
                 VehicleUpdate(p, tracking)
          PROVE TypeOK'
      BY <2>2, SetPositionType, RouteOKType DEF VehicleUpdate, TypeOK, Stage
    <2>3. ASSUME NEW ds \in Itinerary, NEW dropped \in BOOLEAN,
                 \/ \E async \in BOOLEAN : SetDestinations(ds, dropped, async)
                 \/ SetDestinationAttr(ds, dropped)
          PROVE TypeOK'
      <3>1. ds \in Seq(Street)
        BY RouteAssumption DEF Itinerary
      <3>2. RouteSetDestinations(ds, dropped) /\ UNCHANGED rect
        BY <2>3 DEF SetDestinations, SetDestinationAttr
      <3>3. stage' \in Stage
        BY <2>3 DEF SetDestinations, SetDestinationAttr, TypeOK, Stage, Redraw,
                    Resume
      <3> QED
        BY <3>1, <3>2, <3>3, SetDestinationsType, RouteOKType DEF TypeOK
    <2>4. ASSUME NEW v \in Profile, SetProfile(v) PROVE TypeOK'
      BY <2>4, SetProfileType, RouteOKType DEF SetProfile, TypeOK
    <2>5. ASSUME BuildIdle PROVE TypeOK'
      <3>1. stage' \in Stage /\ UNCHANGED rect
        BY <2>5 DEF BuildIdle, TypeOK, Stage, Redraw, Resume
      <3> QED
        BY <2>5, <3>1, BuildIdleType, RouteOKType DEF TypeOK
    <2>6. ASSUME CheckDestination PROVE TypeOK'
      <3>1. CASE fault' = TRUE /\ UNCHANGED <<routeVars, rect, stage>>
        BY <3>1 DEF TypeOK, routeVars
      <3>2. CASE /\ Reached /\ Len(destinations) > 1 /\ UNCHANGED rect
                 /\ stage' = Resume /\ RouteRemoveWaypoint
        BY <3>2, RemoveWaypointType, RouteOKType DEF TypeOK, Stage, Resume
      <3>3. CASE /\ UNCHANGED rect /\ stage' = Redraw
                 /\ RouteSetDestinations(<<>>, FALSE)
        <4>1. <<>> \in Seq(Street) /\ stage' \in Stage
          BY <3>3 DEF Stage, Redraw, Resume
        <4> QED
          BY <3>3, <4>1, SetDestinationsType, RouteOKType DEF TypeOK
      <3>4. CASE stage' = Resume /\ UNCHANGED <<routeVars, rect, fault>>
        BY <3>4 DEF TypeOK, routeVars, Stage, Resume
      <3> QED
        BY <2>6, <3>1, <3>2, <3>3, <3>4 DEF CheckDestination
    <2>7. ASSUME NEW r \in Reader, stage' \in Stage,
                 RectNew(r) \/ RectGetItem(r) \/ RectDestroy(r)
          PROVE TypeOK'
      BY <2>7, RectNewType, RectGetItemType, RectDestroyType, RouteOKType
    <2>8. ASSUME "draw" \in Reader, DrawOpen \/ DrawNext \/ DrawClose
          PROVE TypeOK'
      <3>1. stage' \in Stage
        BY <2>8 DEF DrawOpen, DrawNext, DrawClose, TypeOK, Stage, Resume
      <3> QED
        BY <2>7, <2>8, <3>1 DEF DrawOpen, DrawNext, DrawClose
    <2>9. ASSUME "demo" \in Reader, DemoOpen \/ DemoNext \/ DemoClose
          PROVE TypeOK'
      <3>1. stage' \in Stage
        BY <2>9 DEF DemoOpen, DemoNext, DemoClose, TypeOK, Stage
      <3> QED
        BY <2>7, <2>9, <3>1 DEF DemoOpen, DemoNext, DemoClose
    <2>10. CASE UNCHANGED vars
      BY <2>10 DEF vars, routeVars, TypeOK
    <2> QED
      BY <2>1, <2>2, <2>3, <2>4, <2>5, <2>6, <2>8, <2>9, <2>10, RouteAssumption
         DEF Next
  <1> QED
    BY <1>1, <1>2, PTL DEF Spec

-----------------------------------------------------------------------------
(***************************************************************************)
(* The path of Route is sound in every reachable state.  The three safety  *)
(* properties proved here need one another: linking a leg relies on the    *)
(* flood, removing a waypoint on the order of the legs, freeing a leg on   *)
(* its holders.  Sound is their conjunction, strengthened by the two facts *)
(* that make it inductive: no leg is linked twice, and a closed rectangle  *)
(* holds nothing.                                                          *)
(***************************************************************************)

(* FloodLeadsToCurrent, for graph g, destination index c, destinations d *)
FloodOK(g, c, d) ==
  g.phase = "idle" => /\ c \in 1..Len(d)
                      /\ g.flooded # None
                      /\ g.flooded[2] = d[c]

(* A path p needs an idle graph g that leads to the first destination *)
OwnerOK(g, p, c) == p # <<>> => g.phase = "idle" /\ c = 1

(* The legs of p in heap h visit d in order, without a leg being used twice *)
LinkedOK(p, h, d) ==
  /\ Len(p) <= Len(d)
  /\ \A i \in 1..Len(p) : /\ h[p[i]].to = d[i]
                          /\ i > 1 => h[p[i]].from = d[i - 1]
  /\ \A i, j \in 1..Len(p) : p[i] = p[j] => i = j

(* The legs of p count their holders among the rectangles rs *)
HeldOK(p, h, rs) == \A i \in 1..Len(p) : h[p[i]].in_use = Holders(rs, p[i])

Good(g, p, h, c, d, rs) ==
  /\ FloodOK(g, c, d)
  /\ OwnerOK(g, p, c)
  /\ LinkedOK(p, h, d)
  /\ HeldOK(p, h, rs)

Sound ==
  /\ Good(graph, path2, leg, current_dst, destinations, rect)
  /\ \A r \in Reader : ~rect[r].open => rect[r].legs = <<>>

(* What the rectangles after a step stand on was referred to before it, so *)
(* that no new leg is found under a reader                                 *)
NothingNewHeld ==
  \A r \in Reader : rect'[r].legs # <<>> => Head(rect'[r].legs) \in Referenced

-----------------------------------------------------------------------------
LEMMA FloodedLeads ==
  ASSUME NEW g \in RouteGraph, NEW i, Inputs, i \in 1..Len(destinations')
  PROVE  FloodOK(Flooded(g, i), i, destinations')
  <1>1. CASE g.phase = "idle"
    <2>1. Flooded(g, i).flooded = <<vehicleprofile', destinations'[i]>>
      BY <1>1 DEF Flooded, RouteGraph
    <2>2. <<vehicleprofile', destinations'[i]>> \in Profile \X Place
      BY DEF Inputs, Street
    <2>3. Flooded(g, i).flooded # None
      BY <2>1, <2>2, RouteAssumption
    <2> QED
      BY <2>1, <2>3 DEF FloodOK
  <1>2. CASE g.phase # "idle"
    BY <1>2 DEF Flooded, FloodOK
  <1> QED
    BY <1>1, <1>2

(* An empty path is sound on any graph that is flooded as it should be *)
LEMMA EmptyGood ==
  ASSUME NEW g, NEW h, NEW c, NEW d \in Seq(Street), NEW rs, FloodOK(g, c, d)
  PROVE  Good(g, <<>>, h, c, d, rs)
  BY DEF Good, OwnerOK, LinkedOK, HeldOK

LEMMA DeferGood ==
  ASSUME NEW g, NEW p, NEW h, NEW c, NEW new \in {0, 1}, Inputs,
         Typed(g, p, h, c, destinations'),
         Good(g, p, h, c, destinations', rect'), Defer(g, p, h, c, new)
  PROVE  Good(graph', path2', leg', current_dst', destinations', rect')
  <1>1. Head(p) \in LegId /\ path2' = p /\ graph' = g /\ current_dst' = c
    BY DEF Typed, Defer, IsDeferred
  <1>2. \A l \in LegId : h[l] \in RoutePath
    BY DEF Typed
  <1>3. leg' = [h EXCEPT ![Head(p)] =
                           [h[Head(p)] EXCEPT !.update_required = 1 + new]]
    BY DEF Defer
  <1>4. \A l \in LegId : /\ leg'[l].to = h[l].to
                         /\ leg'[l].from = h[l].from
                         /\ leg'[l].in_use = h[l].in_use
    BY <1>1, <1>2, <1>3 DEF Typed, RoutePath
  <1>5. \A i \in 1..Len(p) : p[i] \in LegId
    BY DEF Typed
  <1> QED
    BY <1>1, <1>4, <1>5 DEF Good, LinkedOK, HeldOK

LEMMA LoseGood ==
  ASSUME NEW g, NEW p, NEW h, NEW c, NEW i, Inputs,
         Typed(g, p, h, c, destinations'), i \in 0..c, BreaksAt(g, c, i),
         FloodOK(g, c, destinations'), Lose(p, h, c, i),
         graph' = (IF i = c THEN g ELSE Flooded(g, i)) \/ graph'.phase = "busy"
  PROVE  Good(graph', path2', leg', current_dst', destinations', rect')
  <1>1. path2' = <<>> /\ current_dst' = i
    BY DEF Lose
  <1>2. CASE graph'.phase = "busy"
    BY <1>1, <1>2, EmptyGood DEF FloodOK, Inputs
  <1>3. CASE graph' = (IF i = c THEN g ELSE Flooded(g, i))
    <2>1. i = c \/ i \in 1..Len(destinations')
      BY DEF BreaksAt, Gaps, Typed, Inputs
    <2>2. FloodOK(graph', i, destinations')
      BY <1>3, <2>1, FloodedLeads DEF Typed
    <2> QED
      BY <1>1, <2>2, EmptyGood DEF Inputs
  <1> QED
    BY <1>2, <1>3

LEMMA RelinkGood ==
  ASSUME NEW g, NEW p, NEW h, NEW c, NEW new \in {0, 1}, Inputs, NothingNewHeld,
         Typed(g, p, h, c, destinations'), ToSet(p) \subseteq Referenced,
         Good(g, p, h, c, destinations', rect'), Relink(g, p, h, c, new)
  PROVE  Good(graph', path2', leg', current_dst', destinations', rect')
  <1> DEFINE d    == destinations'
             ids  == CHOOSE f \in Allocations(c) : TRUE
             rest == IF p = <<>> THEN <<>> ELSE Tail(p)
             kept == IF p = <<>> THEN h ELSE DestroyLeg(h, Head(p))
  <1>1. Len(d) \in Nat /\ c \in 1..Len(d) /\ p \in Seq(LegId)
    <2>1. Len(d) \in Nat /\ c \in 0..Len(d) /\ p \in Seq(LegId)
      BY DEF Inputs, Typed
    <2>2. c > 0
      BY DEF Relink
    <2> QED
      BY <2>1, <2>2
  <1>2. /\ ids \in Seq(LegId) /\ Len(ids) = c
        /\ \A i \in 1..c : ids[i] \in LegId \ Referenced
        /\ \A i, j \in 1..c : ids[i] = ids[j] => i = j
    <2>1. Allocations(c) # {} /\ c \in Nat
      BY <1>1 DEF Relink
    <2> QED
      BY <2>1, AllocationType
  <1>3. g.phase = "idle"
    <2>1. c \notin Gaps(g, c)
      BY <1>1 DEF Relink
    <2>2. Connects(g, c)
      BY <1>1, <2>1 DEF Gaps
    <2> QED
      BY <2>2 DEF Connects
  <1>4. /\ path2' = ids \o rest
        /\ leg' = [l \in LegId |->
               IF \E i \in 1..c : ids[i] = l
               THEN NewLeg(CHOOSE i \in 1..c : ids[i] = l) ELSE kept[l]]
        /\ current_dst' = 1
        /\ graph' = IF c = 1 THEN g ELSE Flooded(g, 1)
    BY DEF Relink
  <1> HIDE DEF ids
  <1>5. p # <<>> => c = 1
    BY DEF Good, OwnerOK
  <1>6. /\ \A i \in 1..Len(path2') :
             \/ i \in 1..c /\ path2'[i] = ids[i]
             \/ i \in 2..Len(p) /\ path2'[i] = p[i]
        /\ Len(path2') <= Len(d)
    <2>1. CASE p = <<>>
      BY <1>1, <1>2, <1>4, <2>1
    <2>2. CASE p # <<>>
      <3>1. /\ rest \in Seq(LegId) /\ Len(rest) = Len(p) - 1
            /\ \A i \in 1..Len(rest) : rest[i] = p[i + 1]
        BY <1>1, <2>2
      <3>2. /\ Len(path2') = Len(p)
            /\ path2'[1] = ids[1]
            /\ \A i \in 2..Len(p) : path2'[i] = p[i]
        <4> HIDE DEF rest
        <4>1. /\ Len(path2') = Len(ids) + Len(rest)
              /\ \A i \in 1..Len(ids) + Len(rest) :
                   path2'[i] = IF i <= Len(ids) THEN ids[i] ELSE rest[i - Len(ids)]
          BY <1>2, <1>4, <3>1
        <4>2. Len(ids) = 1 /\ Len(p) \in Nat /\ Len(p) >= 1
          BY <1>1, <1>2, <1>5, <2>2
        <4>3. Len(path2') = Len(p)
          BY <3>1, <4>1, <4>2
        <4>4. path2'[1] = ids[1]
          BY <3>1, <4>1, <4>2
        <4>5. ASSUME NEW i \in 2..Len(p) PROVE path2'[i] = p[i]
          <5>1. i - 1 \in 1..Len(rest) /\ ~(i <= Len(ids))
            BY <3>1, <4>2
          <5>2. path2'[i] = rest[i - 1]
            BY <3>1, <4>1, <4>2, <5>1
          <5> QED
            BY <3>1, <4>2, <5>1, <5>2
        <4> QED
          BY <4>3, <4>4, <4>5
      <3> QED
        BY <1>1, <1>5, <2>2, <3>2 DEF Good, LinkedOK
    <2> QED
      BY <2>1, <2>2
  <1>7. ASSUME NEW i \in 1..c
        PROVE  /\ leg'[ids[i]].in_use = 1
               /\ leg'[ids[i]].to = d[i]
               /\ leg'[ids[i]].from = Previous(i)
    <2>1. leg'[ids[i]] = NewLeg(i)
      BY <1>2, <1>4
    <2> QED
      BY <2>1 DEF NewLeg
  <1>8. \A i \in 2..Len(p) : p[i] \in Referenced /\ leg'[p[i]] = h[p[i]]
    <2> SUFFICES ASSUME NEW i \in 2..Len(p)
                 PROVE  p[i] \in Referenced /\ leg'[p[i]] = h[p[i]]
      OBVIOUS
    <2>1. p[i] \in LegId /\ p[i] \in Referenced /\ p # <<>>
      BY <1>1 DEF ToSet
    <2>2. p[i] # Head(p)
      BY <1>1, <2>1 DEF Good, LinkedOK
    <2>3. kept[p[i]] = h[p[i]]
      BY <2>1, <2>2 DEF DestroyLeg, Typed
    <2>4. ~\E j \in 1..c : ids[j] = p[i]
      BY <1>2, <2>1
    <2> QED
      BY <1>4, <2>1, <2>3, <2>4
  <1>9. FloodOK(graph', current_dst', d)
    <2>1. FloodOK(g, c, d) /\ FloodOK(Flooded(g, 1), 1, d)
      BY <1>1, FloodedLeads DEF Good, Typed
    <2> QED
      BY <1>1, <1>4, <2>1
  <1>10. OwnerOK(graph', path2', current_dst')
    BY <1>3, <1>4 DEF OwnerOK, Flooded, Typed, RouteGraph
  <1>11. LinkedOK(path2', leg', d)
    <2>1. ASSUME NEW i \in 1..Len(path2')
          PROVE  /\ leg'[path2'[i]].to = d[i]
                 /\ i > 1 => leg'[path2'[i]].from = d[i - 1]
      <3>1. CASE i \in 1..c /\ path2'[i] = ids[i]
        BY <1>1, <1>7, <3>1 DEF Previous
      <3>2. CASE i \in 2..Len(p) /\ path2'[i] = p[i]
        BY <1>1, <1>8, <3>2, SMTT(30) DEF Good, LinkedOK
      <3> QED
        BY <1>6, <2>1, <3>1, <3>2
    <2>2. \A i, j \in 1..Len(path2') : path2'[i] = path2'[j] => i = j
      BY <1>1, <1>2, <1>6, <1>8 DEF Good, LinkedOK
    <2> QED
      BY <1>6, <2>1, <2>2 DEF LinkedOK
  <1>12. HeldOK(path2', leg', rect')
    <2> SUFFICES ASSUME NEW i \in 1..Len(path2')
                 PROVE  leg'[path2'[i]].in_use = Holders(rect', path2'[i])
      BY DEF HeldOK
    <2>1. CASE i \in 1..c /\ path2'[i] = ids[i]
      <3>1. leg'[path2'[i]].in_use = 1
        BY <1>7, <2>1
      <3>2. \A r : Stands(rect', r, path2'[i]) = 0
        BY <1>2, <2>1 DEF Stands, NothingNewHeld
      <3> QED
        BY <3>1, <3>2 DEF Holders
    <2>2. CASE i \in 2..Len(p) /\ path2'[i] = p[i]
      BY <1>1, <1>8, <2>2 DEF Good, HeldOK
    <2> QED
      BY <1>6, <2>1, <2>2
  <1> QED
    BY <1>9, <1>10, <1>11, <1>12 DEF Good

LEMMA UpdateDoneGood ==
  ASSUME NEW g, NEW p, NEW h, NEW c, NEW new \in {0, 1},
         NEW rebuild \in BOOLEAN, Inputs, NothingNewHeld,
         Typed(g, p, h, c, destinations'), ToSet(p) \subseteq Referenced,
         Good(g, p, h, c, destinations', rect'), UpdateDone(g, p, h, c, new, rebuild)
  PROVE  Good(graph', path2', leg', current_dst', destinations', rect')
  <1>1. CASE Defer(g, p, h, c, new)
    BY <1>1, DeferGood
  <1>2. CASE Crash(g, p, h, c)
    BY <1>2 DEF Crash
  <1>3. CASE Relink(g, p, h, c, new)
    BY <1>3, RelinkGood
  <1>4. CASE \E i \in 0..c :
               /\ BreaksAt(g, c, i)
               /\ Lose(p, h, c, i)
               /\ \/ graph' = IF i = c THEN g ELSE Flooded(g, i)
                  \/ GraphUpdate
    BY <1>4, LoseGood DEF Good, GraphUpdate
  <1> QED
    BY <1>1, <1>2, <1>3, <1>4 DEF UpdateDone

LEMMA PathUpdateGood ==
  ASSUME NEW cancel \in BOOLEAN, NEW g \in RouteGraph, NEW c \in Nat,
         NEW status, TypeOK, Inputs, NothingNewHeld, c <= Len(destinations'),
         FloodOK(g, c, destinations'),
         ~cancel => Good(g, path2, leg, c, destinations', rect'),
         PathUpdate(cancel, g, c, status)
  PROVE  Good(graph', path2', leg', current_dst', destinations', rect')
  <1>1. /\ Typed(g, path2, leg, c, destinations')
        /\ ToSet(path2) \subseteq Referenced
        /\ destinations' \in Seq(Street)
    BY DEF TypeOK, Typed, Inputs, Referenced
  <1>2. CASE path2' = <<>> /\ graph' = g /\ current_dst' = c
    BY <1>1, <1>2, EmptyGood
  <1>3. CASE path2' = <<>> /\ GraphUpdate
    <2>1. FloodOK(graph', current_dst', destinations')
      BY <1>3 DEF GraphUpdate, FloodOK
    <2> QED
      BY <1>1, <1>3, <2>1, EmptyGood
  <1>4. CASE /\ ~cancel /\ graph' = g /\ current_dst' = c
             /\ UNCHANGED <<path2, leg>>
    BY <1>4
  <1>5. CASE ~cancel /\ UpdateDone(g, path2, leg, c, 0, TRUE)
    BY <1>1, <1>5, UpdateDoneGood
  <1> QED
    BY <1>2, <1>3, <1>4, <1>5 DEF PathUpdate, DropPath

-----------------------------------------------------------------------------
(* The operations of the route; none of them touches a rectangle           *)

LEMMA SameRects ==
  ASSUME TypeOK, UNCHANGED rect
  PROVE  NothingNewHeld
  <1> SUFFICES ASSUME NEW r \in Reader, rect[r].legs # <<>>
               PROVE  Head(rect[r].legs) \in Referenced
    BY DEF NothingNewHeld
  <1>1. rect[r].legs \in Seq(LegId)
    BY DEF TypeOK, MapRect
  <1>2. Head(rect[r].legs) \in ToSet(rect[r].legs)
    BY <1>1 DEF ToSet
  <1> QED
    BY <1>2 DEF Referenced

LEMMA SetPositionGood ==
  ASSUME TypeOK, Sound, UNCHANGED rect, NEW p \in Place,
         RouteSetPosition(p) \/ RouteSetPositionFromTracking(p)
  PROVE  Sound'
  <1>1. CASE UNCHANGED <<destinations, current_dst, graph, path2, leg>>
    BY <1>1 DEF Sound
  <1>2. CASE /\ pos' = p
             /\ UNCHANGED <<destinations, vehicleprofile>>
             /\ PathUpdate(FALSE, graph, current_dst, route_status)
    <2>1. Inputs /\ NothingNewHeld
      BY <1>2, SameRects DEF TypeOK, Inputs
    <2>2. current_dst \in Nat /\ current_dst <= Len(destinations')
      BY <1>2 DEF TypeOK
    <2>3. Good(graph, path2, leg, current_dst, destinations', rect')
      BY <1>2 DEF Sound
    <2> QED
      BY <1>2, <2>1, <2>2, <2>3, PathUpdateGood DEF TypeOK, Sound, Good
  <1> QED
    BY <1>1, <1>2 DEF RouteSetPosition, RouteSetPositionFromTracking

LEMMA SetDestinationsGood ==
  ASSUME TypeOK, Sound, UNCHANGED rect, NEW ds \in Seq(Street),
         NEW dropped \in BOOLEAN, RouteSetDestinations(ds, dropped)
  PROVE  Sound'
  <1> DEFINE status == IF ds = <<>> /\ ~dropped THEN "no_destination"
                                               ELSE "destination_set"
  <1>1. Inputs /\ Len(ds) \in Nat /\ Len(ds) <= Len(destinations')
    BY DEF RouteSetDestinations, TypeOK, Inputs
  <1>2. NoGraph \in RouteGraph /\ FloodOK(NoGraph, Len(ds), destinations')
    BY DEF NoGraph, RouteGraph, FloodOK
  <1>3. PathUpdate(TRUE, NoGraph, Len(ds), status)
    BY DEF RouteSetDestinations
  <1> HIDE DEF status
  <1>4. Good(graph', path2', leg', current_dst', destinations', rect')
    BY <1>1, <1>2, <1>3, SameRects, PathUpdateGood
  <1> QED
    BY <1>4 DEF Sound

LEMMA SetProfileGood ==
  ASSUME TypeOK, Sound, NEW v \in Profile, SetProfile(v)
  PROVE  Sound'
  <1>1. /\ Inputs /\ UNCHANGED <<rect, destinations>>
        /\ current_dst \in Nat /\ current_dst <= Len(destinations')
    BY DEF SetProfile, TypeOK, Inputs
  <1>2. PathUpdate(TRUE, graph, current_dst, route_status)
    BY DEF SetProfile
  <1>3. FloodOK(graph, current_dst, destinations')
    BY <1>1 DEF Sound, Good
  <1>4. Good(graph', path2', leg', current_dst', destinations', rect')
    BY <1>1, <1>2, <1>3, SameRects, PathUpdateGood DEF TypeOK
  <1> QED
    BY <1>1, <1>4 DEF Sound

LEMMA BuildIdleGood ==
  ASSUME TypeOK, Sound, BuildIdle
  PROVE  Sound'
  <1> DEFINE built == [graph EXCEPT !.phase = "idle"]
             fl == Flooded(built, current_dst)
  <1>1. Inputs /\ UNCHANGED <<destinations, rect>> /\ NothingNewHeld
    BY SameRects DEF BuildIdle, TypeOK, Inputs
  <1>2. path2 = <<>>
    BY DEF BuildIdle, Sound, Good, OwnerOK
  <1>3. CASE current_dst = 0
    BY <1>1, <1>3 DEF BuildIdle, Crash, Sound
  <1>4. CASE current_dst # 0
    <2>1. built \in RouteGraph
      BY DEF TypeOK, RouteGraph
    <2>2. current_dst \in 1..Len(destinations')
      BY <1>1, <1>4 DEF TypeOK
    <2>3. fl \in RouteGraph /\ FloodOK(fl, current_dst, destinations')
      BY <1>1, <2>1, <2>2, FloodedType, FloodedLeads DEF Inputs
    <2>4. UpdateDone(fl, path2, leg, current_dst, 1, FALSE)
      BY <1>4 DEF BuildIdle
    <2> HIDE DEF fl
    <2>5. Good(fl, path2, leg, current_dst, destinations', rect')
      BY <1>1, <1>2, <2>3, EmptyGood DEF Inputs
    <2>6. Typed(fl, path2, leg, current_dst, destinations')
      BY <1>1, <2>3 DEF Typed, TypeOK
    <2>7. ToSet(path2) \subseteq Referenced
      BY DEF Referenced
    <2>8. Good(graph', path2', leg', current_dst', destinations', rect')
      BY <1>1, <2>4, <2>5, <2>6, <2>7, UpdateDoneGood
    <2> QED
      BY <1>1, <2>8 DEF Sound
  <1> QED
    BY <1>3, <1>4

(* The first leg and the first destination go together: what remains of    *)
(* the path still visits what remains of the destinations                  *)
(* What route_remove_waypoint hands to the update: the path without its    *)
(* first leg, whose others are untouched                                   *)
LEMMA RemoveWaypointReady ==
  ASSUME TypeOK, Sound, UNCHANGED rect, Reached, Len(destinations) > 1,
         RouteRemoveWaypoint
  PROVE  LET fl == Flooded(graph, 1)
             p  == Tail(path2)
             h  == DestroyLeg(leg, Head(path2))
         IN /\ Inputs /\ NothingNewHeld /\ fl.phase = "idle"
            /\ Typed(fl, p, h, 1, destinations')
            /\ Good(fl, p, h, 1, destinations', rect')
            /\ ToSet(p) \subseteq Referenced /\ ToSet(p) \subseteq ToSet(path2)
            /\ Len(p) = Len(path2) - 1
            /\ \A i \in 1..Len(p) : /\ p[i] \in LegId
                                   /\ i + 1 \in 1..Len(path2)
                                   /\ p[i] = path2[i + 1]
                                   /\ h[p[i]] = leg[p[i]]
            /\ UpdateDone(fl, p, h, 1, 1, FALSE)
  <1> DEFINE p  == Tail(path2)
             h  == DestroyLeg(leg, Head(path2))
             d  == destinations'
             fl == Flooded(graph, 1)
  <1>1. /\ path2 \in Seq(LegId) /\ path2 # <<>> /\ Len(path2) \in Nat \ {0}
        /\ destinations \in Seq(Street)
    BY DEF Reached, TypeOK
  <1>2. /\ d \in Seq(Street) /\ Len(d) = Len(destinations) - 1
        /\ \A i \in 1..Len(d) : d[i] = destinations[i + 1]
    BY <1>1 DEF RouteRemoveWaypoint
  <1>3. /\ p \in Seq(LegId) /\ Len(p) = Len(path2) - 1
        /\ \A i \in 1..Len(p) : p[i] = path2[i + 1]
    BY <1>1
  <1>4. Inputs /\ NothingNewHeld
    BY <1>2, SameRects DEF RouteRemoveWaypoint, TypeOK, Inputs
  <1>5. Head(path2) \in LegId /\ Head(path2) = path2[1]
    BY <1>1
  <1>6. h \in [LegId -> RoutePath]
    BY <1>5, DestroyLegType DEF TypeOK
  <1>7. Len(d) \in Nat /\ 1 \in 1..Len(d)
    BY <1>1, <1>2
  <1>8. /\ fl \in RouteGraph /\ FloodOK(fl, 1, d)
        /\ fl.phase = "idle"
    <2>1. graph \in RouteGraph /\ graph.phase = "idle"
      BY <1>1 DEF TypeOK, Sound, Good, OwnerOK
    <2>2. fl \in RouteGraph /\ FloodOK(fl, 1, d)
      BY <1>4, <1>7, <2>1, FloodedType, FloodedLeads DEF Inputs
    <2>3. fl.phase = "idle"
      BY <2>1 DEF Flooded, RouteGraph
    <2> QED
      BY <2>2, <2>3
  <1>9. UpdateDone(fl, p, h, 1, 1, FALSE)
    BY DEF RouteRemoveWaypoint
  <1> HIDE DEF p, h, d, fl
  <1>10. Typed(fl, p, h, 1, destinations')
    BY <1>3, <1>6, <1>7, <1>8 DEF Typed, d
  <1>11. \A i \in 1..Len(p) : /\ p[i] \in LegId
                              /\ i + 1 \in 1..Len(path2)
                              /\ p[i] = path2[i + 1]
                              /\ h[p[i]] = leg[p[i]]
    <2> SUFFICES ASSUME NEW i \in 1..Len(p)
                 PROVE  /\ p[i] \in LegId
                        /\ i + 1 \in 1..Len(path2)
                        /\ p[i] = path2[i + 1]
                        /\ h[p[i]] = leg[p[i]]
      OBVIOUS
    <2>1. i + 1 \in 1..Len(path2) /\ p[i] = path2[i + 1] /\ p[i] \in LegId
      BY <1>1, <1>3
    <2>2. path2[i + 1] # path2[1]
      BY <1>1, <2>1 DEF Sound, Good, LinkedOK
    <2>3. h[p[i]] = leg[p[i]]
      BY <1>5, <2>1, <2>2 DEF h, DestroyLeg, TypeOK
    <2> QED
      BY <2>1, <2>3
  <1>12. LinkedOK(p, h, d)
    <2>1. Len(p) <= Len(d)
      BY <1>1, <1>2, <1>3 DEF Sound, Good, LinkedOK
    <2>2. ASSUME NEW i \in 1..Len(p)
          PROVE  h[p[i]].to = d[i] /\ (i > 1 => h[p[i]].from = d[i - 1])
      <3>1. /\ leg[path2[i + 1]].to = destinations[i + 1]
            /\ leg[path2[i + 1]].from = destinations[i]
        BY <1>11 DEF Sound, Good, LinkedOK
      <3>2. i \in 1..Len(d) /\ (i > 1 => i - 1 \in 1..Len(d))
        BY <1>1, <1>3, <1>7, <2>1
      <3>3. d[i] = destinations[i + 1] /\ (i > 1 => d[i - 1] = destinations[i])
        BY <1>2, <3>2
      <3> QED
        BY <1>11, <3>1, <3>3
    <2>3. ASSUME NEW i \in 1..Len(p), NEW j \in 1..Len(p), p[i] = p[j]
          PROVE  i = j
      <3>1. path2[i + 1] = path2[j + 1]
        BY <1>11, <2>3
      <3>2. i + 1 = j + 1
        BY <1>11, <3>1 DEF Sound, Good, LinkedOK
      <3> QED
        BY <3>2
    <2> QED
      BY <2>1, <2>2, <2>3 DEF LinkedOK
  <1>13. HeldOK(p, h, rect')
    BY <1>11 DEF Sound, Good, HeldOK
  <1>14. Good(fl, p, h, 1, destinations', rect')
    BY <1>8, <1>12, <1>13 DEF Good, OwnerOK, d
  <1>15. ToSet(p) \subseteq ToSet(path2)
    <2>1. ToSet(p) = {p[i] : i \in 1..Len(p)}
      BY <1>3 DEF ToSet
    <2>2. ToSet(path2) = {path2[i] : i \in 1..Len(path2)}
      BY <1>1 DEF ToSet
    <2> QED
      BY <1>11, <2>1, <2>2
  <1>16. ToSet(p) \subseteq Referenced
    BY <1>15 DEF Referenced
  <1> QED
    BY <1>3, <1>4, <1>8, <1>9, <1>10, <1>11, <1>14, <1>15, <1>16
       DEF p, h, d, fl

LEMMA RemoveWaypointGood ==
  ASSUME TypeOK, Sound, UNCHANGED rect, Reached, Len(destinations) > 1,
         RouteRemoveWaypoint
  PROVE  Sound'
  <1>1. Good(graph', path2', leg', current_dst', destinations', rect')
    BY RemoveWaypointReady, UpdateDoneGood
  <1> QED
    BY <1>1 DEF Sound

-----------------------------------------------------------------------------
(* The map rectangles; none of them touches what the route is made of      *)

(* A rectangle's next leg is counted, and only it                          *)
LEMMA RectNewGood ==
  ASSUME TypeOK, Sound, NEW r \in Reader, RectNew(r)
  PROVE  Sound'
  <1>1. /\ path2 \in Seq(LegId) /\ leg \in [LegId -> RoutePath]
        /\ rect \in [Reader -> MapRect] /\ rect[r].legs = <<>>
        /\ r = "draw" \/ r = "demo"
    BY RouteAssumption DEF TypeOK, Sound, RectNew
  <1>2. /\ rect' = [rect EXCEPT ![r] = [open |-> TRUE, legs |-> path2]]
        /\ UNCHANGED <<destinations, current_dst, graph, path2>>
    BY DEF RectNew
  <1>3. \A s \in Reader : ~rect'[s].open => rect'[s].legs = <<>>
    BY <1>1, <1>2 DEF Sound
  <1>4. CASE path2 = <<>>
    <2>1. FloodOK(graph', current_dst', destinations') /\ path2' = <<>>
      BY <1>2, <1>4 DEF Sound, Good
    <2>2. destinations' \in Seq(Street)
      BY <1>2 DEF TypeOK
    <2> QED
      BY <1>3, <2>1, <2>2, EmptyGood DEF Sound
  <1>5. CASE path2 # <<>>
    <2>1. leg' = [leg EXCEPT ![Head(path2)] = Held(leg[Head(path2)])]
      BY <1>5 DEF RectNew
    <2>2. /\ Head(path2) \in LegId /\ Head(path2) = path2[1]
          /\ \A i \in 1..Len(path2) : path2[i] \in LegId
      BY <1>1, <1>5
    <2>3. \A l \in LegId : /\ leg'[l].to = leg[l].to
                           /\ leg'[l].from = leg[l].from
                           /\ leg'[l].in_use =
                                leg[l].in_use + (IF l = path2[1] THEN 1 ELSE 0)
      BY <1>1, <2>1, <2>2 DEF Held, RoutePath
    <2>4. LinkedOK(path2, leg', destinations)
      BY <2>2, <2>3 DEF Sound, Good, LinkedOK
    <2>5. \A l \in LegId : Stands(rect', r, l) = IF l = path2[1] THEN 1 ELSE 0
      BY <1>1, <1>2, <1>5, <2>2 DEF Stands
    <2>6. \A l \in LegId : Stands(rect, r, l) = 0
      BY <1>1 DEF Stands
    <2>7. \A l, s : s # r => Stands(rect', s, l) = Stands(rect, s, l)
      BY <1>1, <1>2 DEF Stands
    <2>8. HeldOK(path2, leg', rect')
      <3> SUFFICES ASSUME NEW i \in 1..Len(path2)
                   PROVE  leg'[path2[i]].in_use = Holders(rect', path2[i])
        BY DEF HeldOK
      <3>1. leg[path2[i]].in_use = Holders(rect, path2[i])
        BY DEF Sound, Good, HeldOK
      <3>2. Holders(rect', path2[i]) =
              Holders(rect, path2[i]) + (IF path2[i] = path2[1] THEN 1 ELSE 0)
        BY <1>1, <2>2, <2>5, <2>6, <2>7, SMTT(30) DEF Holders, Stands
      <3> QED
        BY <2>2, <2>3, <3>1, <3>2
    <2> QED
      BY <1>2, <1>3, <2>4, <2>8 DEF Sound, Good
  <1> QED
    BY <1>4, <1>5

(* A leg that the route owns and a rectangle stands on is not freed when   *)
(* the rectangle leaves it                                                 *)
LEMMA LeaveLeg ==
  ASSUME TypeOK, Sound, NEW r \in Reader, rect[r].legs # <<>>,
         NEW i \in 1..Len(path2), path2[i] = Head(rect[r].legs)
  PROVE  LET x == leg[path2[i]]
         IN /\ Dropped(x).to = x.to
            /\ Dropped(x).from = x.from
            /\ Dropped(x).update_required = x.update_required
            /\ Dropped(x).in_use = x.in_use - 1
  <1>1. leg[path2[i]] \in RoutePath /\ r \in {"draw", "demo"}
    BY RouteAssumption DEF TypeOK
  <1>2. Stands(rect, r, path2[i]) = 1
    BY DEF Stands
  <1>3. \A s : Stands(rect, s, path2[i]) \in {0, 1}
    BY DEF Stands
  <1>4. leg[path2[i]].in_use = Holders(rect, path2[i])
    BY DEF Sound, Good, HeldOK
  <1>5. Holders(rect, path2[i]) \in {2, 3}
    BY <1>1, <1>2, <1>3 DEF Holders
  <1> QED
    BY <1>1, <1>4, <1>5 DEF Dropped, RoutePath

LEMMA RectGetItemGood ==
  ASSUME TypeOK, Sound, NEW r \in Reader, RectGetItem(r)
  PROVE  Sound'
  <1> DEFINE a == Head(rect[r].legs)
             b == Head(Tail(rect[r].legs))
  <1>1. UNCHANGED <<destinations, current_dst, graph, path2>>
    BY DEF RectGetItem
  <1>2. CASE UNCHANGED <<leg, rect>>
    BY <1>1, <1>2 DEF Sound
  <1>3. CASE /\ Len(rect[r].legs) > 1
             /\ LET h == [leg EXCEPT ![rect[r].legs[1]] = Dropped(@)]
                IN leg' = [h EXCEPT ![rect[r].legs[2]] = Held(@)]
             /\ rect' = [rect EXCEPT ![r].legs = Tail(@)]
    <2>1. /\ rect[r] \in MapRect /\ rect[r].legs \in Seq(LegId)
          /\ leg \in [LegId -> RoutePath] /\ path2 \in Seq(LegId)
          /\ rect \in [Reader -> MapRect] /\ r \in {"draw", "demo"}
      BY RouteAssumption DEF TypeOK, MapRect
    <2>2. /\ a = rect[r].legs[1] /\ b = rect[r].legs[2]
          /\ a \in LegId /\ b \in LegId
          /\ rect[r].legs # <<>> /\ Tail(rect[r].legs) # <<>>
      <3> DEFINE ls == rect[r].legs
      <3>1. ls \in Seq(LegId) /\ Len(ls) > 1
        BY <1>3, <2>1
      <3> HIDE DEF ls
      <3>2. /\ Head(ls) = ls[1] /\ ls[1] \in LegId /\ ls[2] \in LegId
            /\ Tail(ls) # <<>> /\ Head(Tail(ls)) = ls[2] /\ ls # <<>>
        <4>1. /\ Tail(ls) \in Seq(LegId) /\ Len(Tail(ls)) = Len(ls) - 1
              /\ Tail(ls)[1] = ls[2]
          BY <3>1
        <4>2. Tail(ls) # <<>>
          <5>1. Len(<<>>) = 0 /\ Len(Tail(ls)) # 0
            BY <3>1, <4>1
          <5> QED
            BY <5>1, Zenon
        <4>3. Head(Tail(ls)) = Tail(ls)[1]
          BY <4>1, <4>2
        <4>4. ls # <<>> /\ Head(ls) = ls[1] /\ ls[1] \in LegId /\ ls[2] \in LegId
          BY <3>1
        <4> QED
          BY <4>1, <4>2, <4>3, <4>4
      <3> QED
        BY <3>2 DEF ls
    <2> HIDE DEF a, b
    <2> DEFINE h == [leg EXCEPT ![a] = Dropped(leg[a])]
    <2>3. leg' = [h EXCEPT ![b] = Held(h[b])] /\ h \in [LegId -> RoutePath]
      BY <1>3, <2>1, <2>2, LegTypes
    <2>4. ASSUME NEW i \in 1..Len(path2)
          PROVE  /\ path2[i] \in LegId
                 /\ h[path2[i]].to = leg[path2[i]].to
                 /\ h[path2[i]].from = leg[path2[i]].from
                 /\ h[path2[i]].in_use =
                      leg[path2[i]].in_use - (IF path2[i] = a THEN 1 ELSE 0)
      <3>1. path2[i] \in LegId /\ leg[path2[i]] \in RoutePath
        BY <2>1
      <3>2. CASE path2[i] = a
        BY <2>1, <2>2, <3>1, <3>2, LeaveLeg DEF a
      <3>3. CASE path2[i] # a
        BY <2>1, <2>2, <3>1, <3>3 DEF RoutePath
      <3> QED
        BY <3>1, <3>2, <3>3
    <2> HIDE DEF h
    <2>5. ASSUME NEW l \in LegId
          PROVE  /\ leg'[l].to = h[l].to
                 /\ leg'[l].from = h[l].from
                 /\ leg'[l].in_use = h[l].in_use + (IF l = b THEN 1 ELSE 0)
      <3>1. h[l] \in RoutePath
        BY <2>3
      <3> QED
        BY <2>2, <2>3, <3>1 DEF Held, RoutePath
    <2>6. LinkedOK(path2, leg', destinations)
      BY <2>4, <2>5 DEF Sound, Good, LinkedOK
    <2>7. /\ rect'[r].legs = Tail(rect[r].legs)
          /\ rect'[r].open = rect[r].open
          /\ \A s \in Reader : s # r => rect'[s] = rect[s]
      BY <1>3, <2>1 DEF MapRect
    <2>8. ASSUME NEW l \in LegId
          PROVE  /\ Stands(rect, r, l) = IF l = a THEN 1 ELSE 0
                 /\ Stands(rect', r, l) = IF l = b THEN 1 ELSE 0
                 /\ \A s : s # r => Stands(rect', s, l) = Stands(rect, s, l)
                 /\ \A s : Stands(rect, s, l) \in {0, 1}
      BY <2>2, <2>7 DEF Stands, a, b
    <2>9. HeldOK(path2, leg', rect')
      <3> SUFFICES ASSUME NEW i \in 1..Len(path2)
                   PROVE  leg'[path2[i]].in_use = Holders(rect', path2[i])
        BY DEF HeldOK
      <3>1. leg[path2[i]].in_use = Holders(rect, path2[i]) /\ path2[i] \in LegId
        BY <2>4 DEF Sound, Good, HeldOK
      <3>2. Holders(rect', path2[i]) = Holders(rect, path2[i])
                                         - (IF path2[i] = a THEN 1 ELSE 0)
                                         + (IF path2[i] = b THEN 1 ELSE 0)
        BY <2>1, <2>8, <3>1 DEF Holders
      <3>3. Holders(rect, path2[i]) \in Int
        BY <2>8, <3>1 DEF Holders
      <3> QED
        BY <2>4, <2>5, <3>1, <3>2, <3>3
    <2>10. \A s \in Reader : ~rect'[s].open => rect'[s].legs = <<>>
      BY <2>2, <2>7 DEF Sound
    <2> QED
      BY <1>1, <2>6, <2>9, <2>10 DEF Sound, Good
  <1> QED
    BY <1>2, <1>3 DEF RectGetItem

(* A holder more or less never leaves a leg without holders *)
LEMMA HoldersType ==
  ASSUME NEW rs, NEW l
  PROVE  Holders(rs, l) \in 1..3
  BY DEF Holders, Stands

(* One reader's step changes the holders of a leg by where it stands *)
LEMMA HoldersChange ==
  ASSUME NEW r \in Reader, NEW l, NEW rs, NEW ks,
         \A q \in Reader : q # r => ks[q] = rs[q]
  PROVE  Holders(ks, l) - Stands(ks, r, l) = Holders(rs, l) - Stands(rs, r, l)
  <1>1. r \in {"draw", "demo"}
    BY RouteAssumption
  <1>2. \A q : q # r => Stands(ks, q, l) = Stands(rs, q, l)
    BY DEF Stands
  <1>3. \A q : Stands(ks, q, l) \in {0, 1} /\ Stands(rs, q, l) \in {0, 1}
    BY DEF Stands
  <1> QED
    BY <1>1, <1>2, <1>3 DEF Holders

(* Leaving a leg takes one holder from it and nothing else                 *)
LEMMA RectLeaves ==
  ASSUME TypeOK, Sound, NEW r \in Reader, rect[r].legs # <<>>,
         rect' = [rect EXCEPT ![r] = Closed]
  PROVE  LET a == Head(rect[r].legs)
             h == [leg EXCEPT ![a] = Dropped(@)]
         IN /\ a \in LegId /\ h \in [LegId -> RoutePath]
            /\ LinkedOK(path2, h, destinations)
            /\ HeldOK(path2, h, rect')
  <1>1. /\ rect \in [Reader -> MapRect] /\ r \in {"draw", "demo"}
        /\ path2 \in Seq(LegId) /\ leg \in [LegId -> RoutePath]
    BY RouteAssumption DEF TypeOK
  <1>2. /\ rect'[r].legs = <<>>
        /\ \A s \in Reader : s # r => rect'[s] = rect[s]
    BY <1>1 DEF Closed
  <1> DEFINE a == Head(rect[r].legs)
             h == [leg EXCEPT ![a] = Dropped(@)]
  <1>3. a \in LegId /\ h \in [LegId -> RoutePath]
    BY <1>1, LegTypes DEF MapRect
  <1>4. ASSUME NEW i \in 1..Len(path2)
        PROVE  /\ path2[i] \in LegId
               /\ h[path2[i]].to = leg[path2[i]].to
               /\ h[path2[i]].from = leg[path2[i]].from
               /\ h[path2[i]].in_use =
                    leg[path2[i]].in_use - (IF path2[i] = a THEN 1 ELSE 0)
    <2>1. path2[i] \in LegId /\ leg[path2[i]] \in RoutePath
      BY <1>1
    <2>2. CASE path2[i] = a
      BY <1>1, <1>3, <2>1, <2>2, LeaveLeg
    <2>3. CASE path2[i] # a
      BY <1>1, <1>3, <2>1, <2>3 DEF RoutePath
    <2> QED
      BY <2>1, <2>2, <2>3
  <1>5. LinkedOK(path2, h, destinations)
    BY <1>4 DEF Sound, Good, LinkedOK
  <1>6. ASSUME NEW l \in LegId
        PROVE  /\ Stands(rect, r, l) = IF l = a THEN 1 ELSE 0
               /\ Stands(rect', r, l) = 0
               /\ \A s : s # r => Stands(rect', s, l) = Stands(rect, s, l)
               /\ \A s : Stands(rect, s, l) \in {0, 1}
    BY <1>2 DEF Stands
  <1>7. ASSUME NEW l \in LegId
        PROVE  Holders(rect', l) - Stands(rect', r, l)
                 = Holders(rect, l) - Stands(rect, r, l)
    <2> DEFINE ks == rect'
    <2>1. \A q \in Reader : q # r => ks[q] = rect[q]
      BY <1>2
    <2> HIDE DEF ks
    <2>2. Holders(ks, l) - Stands(ks, r, l)
            = Holders(rect, l) - Stands(rect, r, l)
      BY <2>1, HoldersChange
    <2> QED
      BY <2>2 DEF ks
  <1> HIDE DEF a, h
  <1>8. HeldOK(path2, h, rect')
    <2> SUFFICES ASSUME NEW i \in 1..Len(path2)
                 PROVE  h[path2[i]].in_use = Holders(rect', path2[i])
      BY DEF HeldOK
    <2>1. leg[path2[i]].in_use = Holders(rect, path2[i]) /\ path2[i] \in LegId
      BY <1>4 DEF Sound, Good, HeldOK
    <2>2. Holders(rect', path2[i]) = Holders(rect, path2[i])
                                       - (IF path2[i] = a THEN 1 ELSE 0)
      <3>1. Stands(rect, r, path2[i]) = IF path2[i] = a THEN 1 ELSE 0
        BY <1>6, <2>1
      <3>2. Stands(rect', r, path2[i]) = 0
        BY <1>6, <2>1
      <3>3. /\ Holders(rect', path2[i]) \in 1..3
            /\ Holders(rect, path2[i]) \in 1..3
        BY HoldersType
      <3>4. Holders(rect', path2[i]) - Stands(rect', r, path2[i])
              = Holders(rect, path2[i]) - Stands(rect, r, path2[i])
        BY <1>7, <2>1
      <3> QED
        BY <3>1, <3>2, <3>3, <3>4
    <2> QED
      BY <1>4, <2>1, <2>2
  <1> QED
    BY <1>3, <1>5, <1>8 DEF a, h

(* The route's legs survive the closing of a rectangle, and the update it  *)
(* sets off starts from a sound path                                       *)
LEMMA RectDestroyGood ==
  ASSUME TypeOK, Sound, NEW r \in Reader, RectDestroy(r)
  PROVE  Sound'
  <1>1. /\ rect \in [Reader -> MapRect] /\ r \in {"draw", "demo"}
        /\ path2 \in Seq(LegId) /\ leg \in [LegId -> RoutePath]
        /\ rect' = [rect EXCEPT ![r] = Closed]
        /\ UNCHANGED <<pos, destinations, vehicleprofile>>
    BY RouteAssumption DEF RectDestroy, TypeOK
  <1>2. /\ rect'[r].legs = <<>>
        /\ \A s \in Reader : s # r => rect'[s] = rect[s]
        /\ rect' \in [Reader -> MapRect]
    BY <1>1 DEF Closed, MapRect
  <1>3. \A s \in Reader : ~rect'[s].open => rect'[s].legs = <<>>
    BY <1>2 DEF Sound
  <1>4. CASE /\ rect[r].legs = <<>>
             /\ UNCHANGED <<current_dst, graph, path2, leg>>
    <2>1. \A l, s : Stands(rect', s, l) = Stands(rect, s, l)
      BY <1>2, <1>4 DEF Stands
    <2>2. HeldOK(path2, leg, rect')
      BY <2>1 DEF Sound, Good, HeldOK, Holders
    <2> QED
      BY <1>1, <1>3, <1>4, <2>2 DEF Sound, Good
  <1>5. CASE rect[r].legs # <<>>
    <2> DEFINE a == Head(rect[r].legs)
               h == [leg EXCEPT ![a] = Dropped(@)]
    <2>1. /\ a \in LegId /\ h \in [LegId -> RoutePath]
          /\ LinkedOK(path2, h, destinations)
          /\ HeldOK(path2, h, rect')
      BY <1>1, <1>5, RectLeaves
    <2>2. \A i \in 1..Len(path2) : path2[i] \in LegId
      BY <1>1
    <2> HIDE DEF a, h
    <2>6. Good(graph, path2, h, current_dst, destinations', rect')
      BY <1>1, <2>1 DEF Sound, Good
    <2>7. CASE /\ leg' = Reachable(h, path2)
               /\ UNCHANGED <<current_dst, graph, path2>>
      <3>1. \A i \in 1..Len(path2) : leg'[path2[i]] = h[path2[i]]
        BY <1>1, <2>2, <2>7 DEF Reachable, ToSet
      <3>2. Good(graph, path2, leg', current_dst, destinations', rect')
        BY <2>6, <3>1 DEF Good, LinkedOK, HeldOK
      <3> QED
        BY <1>3, <2>7, <3>2 DEF Sound
    <2>8. CASE /\ h[a].update_required # 0
               /\ UpdateDone(graph, path2, h, current_dst,
                             h[a].update_required - 1, FALSE)
      <3>1. h[a].update_required \in 0..2
        BY <2>1 DEF RoutePath
      <3>2. h[a].update_required - 1 \in {0, 1}
        BY <2>8, <3>1
      <3>3. Inputs /\ Typed(graph, path2, h, current_dst, destinations')
        BY <1>1, <1>2, <2>1 DEF Inputs, Typed, TypeOK
      <3>4. NothingNewHeld
        <4> SUFFICES ASSUME NEW s \in Reader, rect'[s].legs # <<>>
                     PROVE  Head(rect'[s].legs) \in Referenced
          BY DEF NothingNewHeld
        <4>1. rect'[s].legs = rect[s].legs /\ rect[s].legs \in Seq(LegId)
          BY <1>1, <1>2 DEF MapRect
        <4>2. Head(rect[s].legs) \in ToSet(rect[s].legs)
          BY <4>1 DEF ToSet
        <4> QED
          BY <4>1, <4>2 DEF Referenced
      <3>5. ToSet(path2) \subseteq Referenced
        BY DEF Referenced
      <3>6. Good(graph', path2', leg', current_dst', destinations', rect')
        BY <2>6, <2>8, <3>2, <3>3, <3>4, <3>5, UpdateDoneGood
      <3> QED
        BY <1>3, <3>6 DEF Sound
    <2> QED
      BY <1>5, <2>7, <2>8 DEF RectDestroy, a, h
  <1> QED
    BY <1>4, <1>5 DEF RectDestroy

-----------------------------------------------------------------------------
(* Sound holds in every reachable state, whatever the places, the map, the *)
(* profiles, the number of legs and the readers                            *)
THEOREM PathSound == Spec => []Sound
  <1>1. Init => Sound
    <2> SUFFICES ASSUME Init PROVE Sound
      OBVIOUS
    <2>1. FloodOK(graph, current_dst, destinations)
      BY DEF Init, NoGraph, FloodOK
    <2>2. destinations \in Seq(Street) /\ path2 = <<>>
      BY DEF Init
    <2>3. \A r \in Reader : rect[r].legs = <<>>
      BY DEF Init, Closed
    <2> QED
      BY <2>1, <2>2, <2>3, EmptyGood DEF Sound
  <1>2. TypeOK /\ Sound /\ [Next]_vars => Sound'
    <2> SUFFICES ASSUME TypeOK, Sound, [Next]_vars PROVE Sound'
      OBVIOUS
    <2>1. ASSUME NEW p \in Place, SetPosition(p) PROVE Sound'
      BY <2>1, SetPositionGood DEF SetPosition
    <2>2. ASSUME NEW p \in Place, NEW tracking \in BOOLEAN,
                 VehicleUpdate(p, tracking)
          PROVE Sound'
      BY <2>2, SetPositionGood DEF VehicleUpdate
    <2>3. ASSUME NEW ds \in Itinerary, NEW dropped \in BOOLEAN,
                 \/ \E async \in BOOLEAN : SetDestinations(ds, dropped, async)
                 \/ SetDestinationAttr(ds, dropped)
          PROVE Sound'
      <3>1. ds \in Seq(Street)
        BY RouteAssumption DEF Itinerary
      <3>2. RouteSetDestinations(ds, dropped) /\ UNCHANGED rect
        BY <2>3 DEF SetDestinations, SetDestinationAttr
      <3> QED
        BY <3>1, <3>2, SetDestinationsGood
    <2>4. ASSUME NEW v \in Profile, SetProfile(v) PROVE Sound'
      BY <2>4, SetProfileGood
    <2>5. ASSUME BuildIdle PROVE Sound'
      BY <2>5, BuildIdleGood
    <2>6. ASSUME CheckDestination PROVE Sound'
      <3>1. CASE UNCHANGED <<routeVars, rect>>
        BY <3>1 DEF Sound, routeVars
      <3>2. CASE /\ Reached /\ Len(destinations) > 1 /\ UNCHANGED rect
                 /\ RouteRemoveWaypoint
        BY <3>2, RemoveWaypointGood
      <3>3. CASE UNCHANGED rect /\ RouteSetDestinations(<<>>, FALSE)
        <4>1. <<>> \in Seq(Street)
          OBVIOUS
        <4> QED
          BY <3>3, <4>1, SetDestinationsGood
      <3> QED
        BY <2>6, <3>1, <3>2, <3>3 DEF CheckDestination
    <2>7. ASSUME "draw" \in Reader, DrawOpen \/ DrawNext \/ DrawClose
          PROVE Sound'
      BY <2>7, RectNewGood, RectGetItemGood, RectDestroyGood
         DEF DrawOpen, DrawNext, DrawClose
    <2>8. ASSUME "demo" \in Reader, DemoOpen \/ DemoNext \/ DemoClose
          PROVE Sound'
      BY <2>8, RectNewGood, RectGetItemGood, RectDestroyGood
         DEF DemoOpen, DemoNext, DemoClose
    <2>9. CASE UNCHANGED vars
      BY <2>9 DEF vars, routeVars, Sound
    <2> QED
      BY <2>1, <2>2, <2>3, <2>4, <2>5, <2>6, <2>7, <2>8, <2>9, RouteAssumption
         DEF Next
  <1> QED
    BY <1>1, <1>2, TypeCorrect, PTL DEF Spec

(* A finished graph is always flooded towards the destination that is to   *)
(* be linked next, through every replacement of destinations, removal of   *)
(* waypoints and failure to link.                                          *)
COROLLARY FloodCorrect == Spec => []FloodLeadsToCurrent
  <1>1. Sound => FloodLeadsToCurrent
    BY DEF Sound, Good, FloodOK, FloodLeadsToCurrent
  <1> QED
    BY <1>1, PathSound, PTL

(* As long as there is a path, the graph the code dereferences exists, is  *)
(* finished, and leads to the first destination.                           *)
COROLLARY GraphPresent == Spec => []PathNeedsGraph
  <1>1. TypeOK /\ Sound => PathNeedsGraph
    BY DEF TypeOK, Sound, Good, FloodOK, OwnerOK, PathNeedsGraph
  <1> QED
    BY <1>1, TypeCorrect, PathSound, PTL

(* The path visits the destinations in their order and skips none of them. *)
COROLLARY OrderKept == Spec => []VisitsInOrder
  <1>1. Sound => VisitsInOrder
    BY DEF Sound, Good, LinkedOK, VisitsInOrder
  <1> QED
    BY <1>1, PathSound, PTL

(* in_use is the number of holders of a leg, so that the leg is freed when *)
(* the last one leaves it and not before.                                  *)
COROLLARY HoldersCounted == Spec => []InUseCounts
  <1>1. Sound => InUseCounts
    BY DEF Sound, Good, HeldOK, InUseCounts
  <1> QED
    BY <1>1, PathSound, PTL

-----------------------------------------------------------------------------
(* What the listeners of Route may rely on: that a path belongs to the     *)
(* position and to the profile of the moment, that the announced status    *)
(* tells whether there is one, and that nothing is dereferenced that is    *)
(* not there.  Fresh strengthens these to an invariant.                    *)
(*                                                                         *)
(* Most theorems assume StreetsKnown, that a position set by the user or   *)
(* by a vehicle without tracking has a street: otherwise route_set_        *)
(* position clears the position and leaves the path, and they are false.   *)

StreetsKnown == Untracked \cap NoStreet = {}

(* Graph g was selected and flooded with profile v *)
ProfileOK(g, v) ==
  /\ g.phase # "none" => g.profile = v
  /\ g.flooded # None => g.flooded[1] = v

(* Path p in heap h starts at x, unless its update was put off *)
StartOK(p, h, x) ==
  p # <<>> /\ h[Head(p)].update_required = 0 => h[Head(p)].from = x

(* Without a position x or a destination in d no graph is kept *)
Wanted(g, x, d) == x = None \/ d = <<>> => g = NoGraph

Fresh ==
  /\ ProfileOK(graph, vehicleprofile)
  /\ StartOK(path2, leg, pos)
  /\ Wanted(graph, pos, destinations)
  /\ StatusTellsPath

-----------------------------------------------------------------------------
(* UpdateDone and PathUpdate *)

LEMMA FloodedFresh ==
  ASSUME NEW g \in RouteGraph, NEW i, NEW x, NEW d,
         ProfileOK(g, vehicleprofile'), Wanted(g, x, d)
  PROVE  ProfileOK(Flooded(g, i), vehicleprofile') /\ Wanted(Flooded(g, i), x, d)
  <1>1. CASE g.phase = "idle"
    <2>1. Flooded(g, i).phase = g.phase /\ Flooded(g, i).profile = g.profile
      BY DEF Flooded, RouteGraph
    <2>2. Flooded(g, i).flooded = <<vehicleprofile', destinations'[i]>>
      BY <1>1 DEF Flooded, RouteGraph
    <2>3. ~(x = None \/ d = <<>>)
      BY <1>1 DEF Wanted, NoGraph
    <2> QED
      BY <2>1, <2>2, <2>3 DEF ProfileOK, Wanted
  <1>2. CASE g.phase # "idle"
    BY <1>2 DEF Flooded
  <1> QED
    BY <1>1, <1>2

LEMMA GraphUpdateFresh ==
  ASSUME GraphUpdate, pos' # None, destinations' # <<>>, path2' = <<>>
  PROVE  Fresh'
  BY DEF GraphUpdate, Fresh, ProfileOK, StartOK, Wanted, StatusTellsPath, Done

(* A finished graph that is wanted lets nothing be missed *)
LEMMA NothingMissing ==
  ASSUME NEW g, NEW c, Inputs, g.phase = "idle", FloodOK(g, c, destinations'),
         Wanted(g, pos', destinations')
  PROVE  ~Crashes(g, c) /\ pos' # None /\ c # 0
  <1>1. pos' # None /\ destinations' # <<>>
    BY DEF Wanted, NoGraph
  <1>2. c # 0
    BY DEF FloodOK, Inputs
  <1> QED
    BY <1>1, <1>2 DEF Crashes

(* What UpdateDone is given by each of its callers *)
Updatable(g, p, h, c) ==
  /\ Typed(g, p, h, c, destinations')
  /\ FloodOK(g, c, destinations')
  /\ OwnerOK(g, p, c)
  /\ ProfileOK(g, vehicleprofile')
  /\ Wanted(g, pos', destinations')
  /\ p # <<>> => Done
  /\ p = <<>> /\ Done => g.phase = "idle"

LEMMA RelinkFresh ==
  ASSUME NEW g, NEW p, NEW h, NEW c, NEW new \in {0, 1}, Inputs,
         Updatable(g, p, h, c), Relink(g, p, h, c, new)
  PROVE  Fresh' /\ pos' \in Street
  <1> DEFINE ids  == CHOOSE f \in Allocations(c) : TRUE
             rest == IF p = <<>> THEN <<>> ELSE Tail(p)
             kept == IF p = <<>> THEN h ELSE DestroyLeg(h, Head(p))
  <1>1. c \in Nat /\ c > 0 /\ Gaps(g, c) = {} /\ Allocations(c) # {}
    BY DEF Updatable, Typed, Inputs, Relink
  <1>2. /\ ids \in Seq(LegId) /\ Len(ids) = c
        /\ \A i, j \in 1..c : ids[i] = ids[j] => i = j
    BY <1>1, AllocationType
  <1>3. /\ path2' = ids \o rest
        /\ leg' = [l \in LegId |->
               IF \E i \in 1..c : ids[i] = l
               THEN NewLeg(CHOOSE i \in 1..c : ids[i] = l) ELSE kept[l]]
        /\ graph' = IF c = 1 THEN g ELSE Flooded(g, 1)
    BY DEF Relink
  <1>4. rest \in Seq(LegId)
    BY DEF Updatable, Typed
  <1> HIDE DEF ids, rest, kept
  <1>5. path2' # <<>> /\ Head(path2') = ids[1] /\ ids[1] \in LegId
    <2>1. path2' \in Seq(LegId) /\ Len(path2') > 0
      BY <1>1, <1>2, <1>3, <1>4
    <2>2. path2'[1] = ids[1]
      BY <1>1, <1>2, <1>3, <1>4
    <2> QED
      BY <1>1, <1>2, <2>1, <2>2
  <1>6. leg'[ids[1]] = NewLeg(1)
    BY <1>1, <1>2, <1>3, <1>5
  <1>7. StartOK(path2', leg', pos')
    BY <1>5, <1>6 DEF StartOK, NewLeg, Previous
  <1>8. ProfileOK(graph', vehicleprofile') /\ Wanted(graph', pos', destinations')
    BY <1>3, FloodedFresh DEF Updatable, Typed
  <1>9. StatusTellsPath'
    BY <1>5 DEF Relink, StatusTellsPath, Done
  <1>10. pos' \in Street
    <2>1. 1 \in 1..c
      BY <1>1
    <2>2. \E gg : Connects(gg, 1)
      BY <1>1, <2>1 DEF Gaps
    <2>3. pos' \notin NoStreet
      BY <2>2 DEF Connects, Previous
    <2>4. g.phase = "idle"
      <3>1. c \in 1..c
        BY <1>1
      <3>2. Connects(g, c)
        BY <1>1, <3>1 DEF Gaps
      <3> QED
        BY <3>2 DEF Connects
    <2>5. pos' # None
      BY <2>4 DEF Updatable, Wanted, NoGraph
    <2> QED
      BY <2>3, <2>5 DEF Inputs, Street
  <1> QED
    BY <1>7, <1>8, <1>9, <1>10 DEF Fresh

LEMMA UpdateDoneFresh ==
  ASSUME NEW g, NEW p, NEW h, NEW c, NEW new \in {0, 1},
         NEW rebuild \in BOOLEAN, Inputs, Updatable(g, p, h, c),
         rebuild => pos' # None /\ destinations' # <<>>,
         UpdateDone(g, p, h, c, new, rebuild)
  PROVE  Fresh'
  <1>1. CASE Defer(g, p, h, c, new)
    <2>1. /\ p # <<>> /\ path2' = p /\ graph' = g
          /\ route_status' = route_status
          /\ Head(p) \in LegId /\ h \in [LegId -> RoutePath]
      BY <1>1 DEF Defer, IsDeferred, Updatable, Typed
    <2>2. leg'[Head(p)].update_required # 0
      BY <1>1, <2>1 DEF Defer, RoutePath
    <2> QED
      BY <2>1, <2>2
         DEF Updatable, Fresh, StartOK, StatusTellsPath, Done
  <1>2. CASE Crashes(g, c) /\ Crash(g, p, h, c)
    <2>1. g.phase # "idle"
      BY <1>2, NothingMissing DEF Updatable
    <2>2. p = <<>> /\ ~Done
      BY <2>1 DEF Updatable, OwnerOK
    <2> QED
      BY <1>2, <2>2
         DEF Crash, Updatable, Fresh, StartOK, StatusTellsPath, Done
  <1>3. CASE Relink(g, p, h, c, new)
    BY <1>3, RelinkFresh
  <1>4. CASE \E i \in 0..c :
               /\ Lose(p, h, c, i)
               /\ IF rebuild THEN GraphUpdate
                  ELSE /\ graph' = IF i = c THEN g ELSE Flooded(g, i)
                       /\ route_status' = "not_found"
    <2>1. PICK i \in 0..c :
               /\ Lose(p, h, c, i)
               /\ IF rebuild THEN GraphUpdate
                  ELSE /\ graph' = IF i = c THEN g ELSE Flooded(g, i)
                       /\ route_status' = "not_found"
      BY <1>4
    <2>2. path2' = <<>>
      BY <2>1 DEF Lose
    <2>3. CASE rebuild
      BY <2>1, <2>2, <2>3, GraphUpdateFresh
    <2>4. CASE ~rebuild
      <3>1. /\ ProfileOK(graph', vehicleprofile')
            /\ Wanted(graph', pos', destinations')
        BY <2>1, <2>4, FloodedFresh DEF Updatable, Typed
      <3> QED
        BY <2>1, <2>2, <2>4, <3>1 DEF Fresh, StartOK, StatusTellsPath, Done
    <2> QED
      BY <2>3, <2>4
  <1> QED
    BY <1>1, <1>2, <1>3, <1>4 DEF UpdateDone

LEMMA PathUpdateFresh ==
  ASSUME NEW cancel \in BOOLEAN, NEW g \in RouteGraph, NEW c \in Nat,
         NEW status, TypeOK, Inputs, c <= Len(destinations'),
         Wanted(g, pos', destinations'), StatusTellsPath,
         ~cancel => /\ FloodOK(g, c, destinations')
                    /\ OwnerOK(g, path2, c)
                    /\ ProfileOK(g, vehicleprofile')
                    /\ status = route_status,
         pos' = None \/ destinations' = <<>> =>
           status \notin {"path_done_new", "path_done_incremental"},
         PathUpdate(cancel, g, c, status)
  PROVE  Fresh'
  <1> DEFINE able == pos' # None /\ destinations' # <<>>
  <1>1. Typed(g, path2, leg, c, destinations')
    BY DEF TypeOK, Typed, Inputs
  <1>2. CASE ~able /\ path2' = <<>> /\ graph' = g /\ route_status' = status
    <2>1. graph' = NoGraph
      BY <1>2 DEF Wanted
    <2>2. ~Done'
      BY <1>2 DEF Done
    <2> QED
      BY <1>2, <2>1, <2>2
         DEF Fresh, ProfileOK, NoGraph, StartOK, Wanted, StatusTellsPath
  <1>3. CASE able /\ path2' = <<>> /\ GraphUpdate
    BY <1>3, GraphUpdateFresh
  <1>4. CASE /\ ~cancel /\ g.phase = "busy" /\ graph' = g
             /\ route_status' = status /\ UNCHANGED <<path2, leg>>
    BY <1>4 DEF OwnerOK, Fresh, StartOK, StatusTellsPath, Done
  <1>5. CASE /\ able /\ ~cancel /\ g.phase = "idle"
             /\ UpdateDone(g, path2, leg, c, 0, TRUE)
    <2>1. Updatable(g, path2, leg, c)
      BY <1>1, <1>5 DEF Updatable, StatusTellsPath
    <2> QED
      BY <1>5, <2>1, UpdateDoneFresh
  <1> QED
    BY <1>2, <1>3, <1>4, <1>5 DEF PathUpdate, DropPath

-----------------------------------------------------------------------------
(* The operations of the route *)

(* Without a position or a destination nothing has been announced as done  *)
LEMMA Unwanted ==
  ASSUME TypeOK, Sound, Fresh
  PROVE  /\ graph.phase # "idle" => path2 = <<>> /\ ~Done
         /\ pos = None \/ destinations = <<>> =>
              path2 = <<>> /\ ~Done /\ graph = NoGraph
  BY DEF Sound, Good, OwnerOK, Fresh, Wanted, StatusTellsPath, NoGraph

LEMMA SetPositionFresh ==
  ASSUME TypeOK, Sound, Fresh, UNCHANGED rect, NEW p \in Place,
         \/ RouteSetPosition(p) /\ p \notin NoStreet
         \/ RouteSetPositionFromTracking(p)
  PROVE  Fresh'
  <1>1. UNCHANGED <<destinations, vehicleprofile>> /\ pos' = p /\ pos' # None
    BY RouteAssumption DEF RouteSetPosition, RouteSetPositionFromTracking
  <1>2. CASE /\ destinations = <<>>
             /\ UNCHANGED <<graph, path2, leg, route_status>>
    BY <1>1, <1>2, Unwanted
       DEF Fresh, ProfileOK, NoGraph, StartOK, Wanted, StatusTellsPath, Done
  <1>3. CASE PathUpdate(FALSE, graph, current_dst, route_status)
    <2>1. Inputs /\ current_dst \in Nat /\ current_dst <= Len(destinations')
      BY <1>1 DEF TypeOK, Inputs
    <2>2. Wanted(graph, pos', destinations') /\ StatusTellsPath
      BY <1>1 DEF Fresh, Wanted
    <2>3. /\ FloodOK(graph, current_dst, destinations')
          /\ OwnerOK(graph, path2, current_dst)
          /\ ProfileOK(graph, vehicleprofile')
      BY <1>1 DEF Sound, Good, Fresh
    <2>4. destinations' = <<>> =>
            route_status \notin {"path_done_new", "path_done_incremental"}
      BY <1>1, Unwanted DEF Done
    <2> QED
      BY <1>1, <1>3, <2>1, <2>2, <2>3, <2>4, PathUpdateFresh DEF TypeOK
  <1> QED
    BY <1>2, <1>3 DEF RouteSetPosition, RouteSetPositionFromTracking, Street

LEMMA SetDestinationsFresh ==
  ASSUME TypeOK, Fresh, UNCHANGED rect, NEW ds \in Seq(Street),
         NEW dropped \in BOOLEAN, RouteSetDestinations(ds, dropped)
  PROVE  Fresh'
  <1> DEFINE status == IF ds = <<>> /\ ~dropped THEN "no_destination"
                                               ELSE "destination_set"
  <1>1. Inputs /\ Len(ds) \in Nat /\ Len(ds) <= Len(destinations')
    BY DEF RouteSetDestinations, TypeOK, Inputs
  <1>2. NoGraph \in RouteGraph /\ Wanted(NoGraph, pos', destinations')
    BY DEF NoGraph, RouteGraph, Wanted
  <1>3. PathUpdate(TRUE, NoGraph, Len(ds), status)
    BY DEF RouteSetDestinations
  <1>4. status \notin {"path_done_new", "path_done_incremental"}
    OBVIOUS
  <1> HIDE DEF status
  <1> QED
    BY <1>1, <1>2, <1>3, <1>4, PathUpdateFresh DEF Fresh

LEMMA SetProfileFresh ==
  ASSUME TypeOK, Sound, Fresh, NEW v \in Profile, SetProfile(v)
  PROVE  Fresh'
  <1>1. /\ Inputs /\ UNCHANGED <<pos, destinations>>
        /\ current_dst \in Nat /\ current_dst <= Len(destinations')
    BY DEF SetProfile, TypeOK, Inputs
  <1>2. PathUpdate(TRUE, graph, current_dst, route_status)
    BY DEF SetProfile
  <1>3. Wanted(graph, pos', destinations')
    BY <1>1 DEF Fresh, Wanted
  <1>4. pos' = None \/ destinations' = <<>> =>
          route_status \notin {"path_done_new", "path_done_incremental"}
    BY <1>1, Unwanted DEF Done
  <1> QED
    BY <1>1, <1>2, <1>3, <1>4, PathUpdateFresh DEF TypeOK, Fresh

LEMMA BuildIdleFresh ==
  ASSUME TypeOK, Sound, Fresh, BuildIdle
  PROVE  Fresh'
  <1> DEFINE built == [graph EXCEPT !.phase = "idle"]
             fl == Flooded(built, current_dst)
  <1>1. Inputs /\ UNCHANGED <<pos, destinations, vehicleprofile>>
    BY DEF BuildIdle, TypeOK, Inputs
  <1>2. path2 = <<>> /\ ~Done
    BY Unwanted DEF BuildIdle
  <1>3. CASE current_dst = 0
    BY <1>1, <1>2, <1>3
       DEF BuildIdle, Crash, Fresh, StartOK, StatusTellsPath, Done
  <1>4. CASE current_dst # 0
    <2>1. /\ built \in RouteGraph
          /\ ProfileOK(built, vehicleprofile')
          /\ Wanted(built, pos', destinations')
      <3>1. graph \in RouteGraph /\ graph.phase = "busy"
        BY DEF TypeOK, BuildIdle
      <3>2. ~(pos' = None \/ destinations' = <<>>)
        BY <1>1, <3>1 DEF Fresh, Wanted, NoGraph
      <3> QED
        BY <1>1, <3>1, <3>2 DEF RouteGraph, Fresh, ProfileOK, Wanted
    <2>2. current_dst \in 1..Len(destinations')
      BY <1>1, <1>4 DEF TypeOK
    <2>3. /\ fl \in RouteGraph
          /\ FloodOK(fl, current_dst, destinations')
          /\ ProfileOK(fl, vehicleprofile')
          /\ Wanted(fl, pos', destinations')
      BY <1>1, <2>1, <2>2, FloodedType, FloodedLeads, FloodedFresh DEF Inputs
    <2>4. UpdateDone(fl, path2, leg, current_dst, 1, FALSE)
      BY <1>4 DEF BuildIdle
    <2> HIDE DEF fl
    <2>5. Updatable(fl, path2, leg, current_dst)
      BY <1>1, <1>2, <2>3 DEF Updatable, Typed, TypeOK, OwnerOK
    <2> QED
      BY <1>1, <2>4, <2>5, UpdateDoneFresh
  <1> QED
    BY <1>3, <1>4

(* The waypoint is removed on a finished graph, flooded again *)
LEMMA RemoveWaypointUpdates ==
  ASSUME TypeOK, Sound, Fresh, UNCHANGED rect, Reached,
         Len(destinations) > 1, RouteRemoveWaypoint
  PROVE  LET fl == Flooded(graph, 1)
             h  == DestroyLeg(leg, Head(path2))
         IN /\ Inputs /\ destinations' # <<>> /\ fl.phase = "idle"
            /\ Updatable(fl, Tail(path2), h, 1)
            /\ UpdateDone(fl, Tail(path2), h, 1, 1, FALSE)
  <1> DEFINE fl == Flooded(graph, 1)
             p  == Tail(path2)
             h  == DestroyLeg(leg, Head(path2))
  <1>1. /\ path2 \in Seq(LegId) /\ path2 # <<>> /\ destinations \in Seq(Street)
        /\ graph \in RouteGraph /\ graph.phase = "idle" /\ Done
    BY DEF Reached, TypeOK, Sound, Good, OwnerOK, Fresh, StatusTellsPath
  <1>2. /\ UNCHANGED <<pos, vehicleprofile>>
        /\ destinations' = Tail(destinations)
        /\ UpdateDone(fl, p, h, 1, 1, FALSE)
    BY DEF RouteRemoveWaypoint
  <1>3. Inputs /\ destinations' # <<>> /\ 1 \in 1..Len(destinations')
    <2>1. /\ destinations' \in Seq(Street)
          /\ Len(destinations') = Len(destinations) - 1
      BY <1>1, <1>2
    <2>2. Len(destinations') \in Nat /\ Len(destinations') # 0
      <3>1. Len(destinations) \in Nat
        BY <1>1
      <3> QED
        BY <2>1, <3>1, SMTT(30)
    <2>3. destinations' # <<>> /\ 1 \in 1..Len(destinations')
      BY <2>2
    <2>4. Inputs
      BY <1>2, <2>1 DEF TypeOK, Inputs
    <2> QED
      BY <2>3, <2>4
  <1>4. /\ ProfileOK(graph, vehicleprofile')
        /\ Wanted(graph, pos', destinations')
    BY <1>1, <1>2, <1>3 DEF Fresh, Wanted, NoGraph
  <1>5. /\ fl \in RouteGraph /\ fl.phase = "idle"
        /\ FloodOK(fl, 1, destinations')
        /\ ProfileOK(fl, vehicleprofile')
        /\ Wanted(fl, pos', destinations')
    <2>1. fl.phase = "idle"
      BY <1>1 DEF Flooded, RouteGraph
    <2> QED
      BY <1>1, <1>3, <1>4, <2>1, FloodedType, FloodedLeads, FloodedFresh
         DEF Inputs
  <1>6. h \in [LegId -> RoutePath] /\ p \in Seq(LegId)
    BY <1>1, DestroyLegType DEF TypeOK
  <1> HIDE DEF fl, p, h
  <1>7. Updatable(fl, p, h, 1)
    <2>1. Typed(fl, p, h, 1, destinations')
      BY <1>3, <1>5, <1>6 DEF Typed
    <2> QED
      BY <1>1, <1>5, <2>1 DEF Updatable, OwnerOK
  <1> QED
    BY <1>2, <1>3, <1>5, <1>7 DEF fl, p, h

-----------------------------------------------------------------------------
(* The map rectangles *)

(* Opening and reading leave the start of the path and its update alone    *)
LEMMA RectReadFresh ==
  ASSUME TypeOK, Sound, Fresh, NEW r \in Reader, RectNew(r) \/ RectGetItem(r)
  PROVE  Fresh'
  <1>1. UNCHANGED <<pos, destinations, vehicleprofile, graph, path2,
                    route_status>>
    BY DEF RectNew, RectGetItem
  <1>2. SUFFICES ASSUME path2 # <<>>
                 PROVE  /\ leg'[Head(path2)].from = leg[Head(path2)].from
                        /\ leg'[Head(path2)].update_required =
                             leg[Head(path2)].update_required
    BY <1>1 DEF Fresh, StartOK, StatusTellsPath, Done
  <1>3. /\ path2 \in Seq(LegId) /\ leg \in [LegId -> RoutePath]
        /\ Head(path2) \in LegId /\ Head(path2) = path2[1]
        /\ 1 \in 1..Len(path2) /\ rect[r].legs \in Seq(LegId)
    BY <1>2 DEF TypeOK, MapRect
  <1>4. CASE leg' = leg
    BY <1>4
  <1>5. CASE leg' = [leg EXCEPT ![Head(path2)] = Held(@)]
    BY <1>3, <1>5 DEF Held, RoutePath
  <1>6. CASE /\ Len(rect[r].legs) > 1
             /\ LET h == [leg EXCEPT ![rect[r].legs[1]] = Dropped(@)]
                IN leg' = [h EXCEPT ![rect[r].legs[2]] = Held(@)]
    <2> DEFINE a == rect[r].legs[1]
               h == [leg EXCEPT ![a] = Dropped(@)]
    <2>1. /\ a \in LegId /\ rect[r].legs[2] \in LegId
          /\ rect[r].legs # <<>> /\ a = Head(rect[r].legs)
      BY <1>3, <1>6
    <2>2. h \in [LegId -> RoutePath]
      BY <1>3, <2>1, LegTypes
    <2>3. /\ h[Head(path2)].from = leg[Head(path2)].from
          /\ h[Head(path2)].update_required = leg[Head(path2)].update_required
      <3>1. CASE Head(path2) = a
        BY <1>3, <2>1, <3>1, LeaveLeg
      <3>2. CASE Head(path2) # a
        BY <1>3, <2>1, <3>2
      <3> QED
        BY <3>1, <3>2
    <2>4. leg' = [h EXCEPT ![rect[r].legs[2]] = Held(@)]
      BY <1>6
    <2> HIDE DEF h
    <2> QED
      BY <1>3, <2>1, <2>2, <2>3, <2>4 DEF Held, RoutePath
  <1> QED
    BY <1>2, <1>4, <1>5, <1>6 DEF RectNew, RectGetItem

(* Closing may run the update that was put off, also when the path it was  *)
(* put off for is gone and there is no graph or an unfinished one          *)
LEMMA RectDestroyFresh ==
  ASSUME TypeOK, Sound, Fresh, NEW r \in Reader, RectDestroy(r)
  PROVE  Fresh'
  <1>1. /\ UNCHANGED <<pos, destinations, vehicleprofile>>
        /\ rect' = [rect EXCEPT ![r] = Closed]
        /\ path2 \in Seq(LegId) /\ leg \in [LegId -> RoutePath]
    BY DEF RectDestroy, TypeOK
  <1>2. Inputs
    BY <1>1 DEF TypeOK, Inputs, Closed, MapRect
  <1>3. CASE UNCHANGED <<graph, path2, leg, route_status>>
    BY <1>1, <1>3 DEF Fresh, StartOK, StatusTellsPath, Done
  <1>4. CASE rect[r].legs # <<>>
    <2> DEFINE a == Head(rect[r].legs)
               h == [leg EXCEPT ![a] = Dropped(@)]
    <2>1. a \in LegId /\ h \in [LegId -> RoutePath]
      BY <1>1, <1>4, LegTypes DEF TypeOK, MapRect
    <2>2. CASE /\ leg' = Reachable(h, path2)
               /\ UNCHANGED <<graph, path2, route_status>>
      <3>1. SUFFICES ASSUME path2 # <<>>
                     PROVE  /\ leg'[Head(path2)].from = leg[Head(path2)].from
                            /\ leg'[Head(path2)].update_required =
                                 leg[Head(path2)].update_required
        BY <1>1, <2>2 DEF Fresh, StartOK, StatusTellsPath, Done
      <3>2. /\ Head(path2) \in LegId /\ Head(path2) = path2[1]
            /\ 1 \in 1..Len(path2) /\ Head(path2) \in ToSet(path2)
        BY <1>1, <3>1 DEF ToSet
      <3>3. leg'[Head(path2)] = h[Head(path2)]
        BY <2>2, <3>2 DEF Reachable
      <3>4. CASE Head(path2) = a
        BY <1>1, <1>4, <2>1, <3>2, <3>3, <3>4, LeaveLeg
      <3>5. CASE Head(path2) # a
        BY <1>1, <2>1, <3>2, <3>3, <3>5
      <3> QED
        BY <3>4, <3>5
    <2>3. CASE /\ h[a].update_required # 0
               /\ UpdateDone(graph, path2, h, current_dst,
                             h[a].update_required - 1, FALSE)
      <3>1. h[a].update_required \in 0..2
        BY <2>1 DEF RoutePath
      <3>2. h[a].update_required - 1 \in {0, 1}
        BY <2>3, <3>1
      <3>3. /\ Typed(graph, path2, h, current_dst, destinations')
            /\ FloodOK(graph, current_dst, destinations')
            /\ OwnerOK(graph, path2, current_dst)
        BY <1>1, <2>1 DEF Typed, TypeOK, Sound, Good
      <3>4. /\ ProfileOK(graph, vehicleprofile')
            /\ Wanted(graph, pos', destinations')
            /\ path2 # <<>> <=> Done
        BY <1>1 DEF Fresh, StatusTellsPath
      <3>5. Updatable(graph, path2, h, current_dst)
        BY <3>3, <3>4 DEF Updatable
      <3> HIDE DEF h
      <3> QED
        BY <1>2, <2>3, <3>2, <3>5, UpdateDoneFresh
    <2> QED
      BY <1>4, <2>2, <2>3 DEF RectDestroy
  <1> QED
    BY <1>3, <1>4 DEF RectDestroy

-----------------------------------------------------------------------------
(* Fresh is an invariant when streets are known *)
LEMMA FreshAlways ==
  ASSUME StreetsKnown
  PROVE  Spec => []Fresh
  <1>1. Init => Fresh
    BY DEF Init, Fresh, ProfileOK, NoGraph, StartOK, Wanted, StatusTellsPath, Done
  <1>2. TypeOK /\ Sound /\ Fresh /\ [Next]_vars => Fresh'
    <2> SUFFICES ASSUME TypeOK, Sound, Fresh, [Next]_vars PROVE Fresh'
      OBVIOUS
    <2>1. ASSUME NEW p \in Untracked, SetPosition(p) \/ VehicleUpdate(p, FALSE)
          PROVE  Fresh'
      <3>1. /\ p \in Place /\ p \notin NoStreet
            /\ RouteSetPosition(p) /\ UNCHANGED rect
        BY <2>1, RouteAssumption DEF SetPosition, VehicleUpdate, StreetsKnown
      <3> QED
        BY <3>1, SetPositionFresh
    <2>2. ASSUME NEW p \in Tracked, VehicleUpdate(p, TRUE)
          PROVE  Fresh'
      <3>1. /\ p \in Place
            /\ RouteSetPositionFromTracking(p) /\ UNCHANGED rect
        BY <2>2, RouteAssumption DEF VehicleUpdate
      <3> QED
        BY <3>1, SetPositionFresh
    <2>3. ASSUME NEW ds \in Itinerary, NEW dropped \in BOOLEAN,
                 \/ \E async \in BOOLEAN : SetDestinations(ds, dropped, async)
                 \/ SetDestinationAttr(ds, dropped)
          PROVE Fresh'
      <3>1. ds \in Seq(Street)
        BY RouteAssumption DEF Itinerary
      <3>2. RouteSetDestinations(ds, dropped) /\ UNCHANGED rect
        BY <2>3 DEF SetDestinations, SetDestinationAttr
      <3> QED
        BY <3>1, <3>2, SetDestinationsFresh
    <2>4. ASSUME NEW v \in Profile, SetProfile(v) PROVE Fresh'
      BY <2>4, SetProfileFresh
    <2>5. ASSUME BuildIdle PROVE Fresh'
      BY <2>5, BuildIdleFresh
    <2>6. ASSUME CheckDestination PROVE Fresh'
      <3>1. CASE UNCHANGED routeVars
        BY <3>1 DEF routeVars, Fresh, StartOK, StatusTellsPath, Done
      <3>2. CASE /\ Reached /\ Len(destinations) > 1 /\ UNCHANGED rect
                 /\ RouteRemoveWaypoint
        BY <3>2, RemoveWaypointUpdates, UpdateDoneFresh
      <3>3. CASE UNCHANGED rect /\ RouteSetDestinations(<<>>, FALSE)
        <4>1. <<>> \in Seq(Street)
          OBVIOUS
        <4> QED
          BY <3>3, <4>1, SetDestinationsFresh
      <3> QED
        BY <2>6, <3>1, <3>2, <3>3 DEF CheckDestination
    <2>7. ASSUME "draw" \in Reader, DrawOpen \/ DrawNext \/ DrawClose
          PROVE Fresh'
      BY <2>7, RectReadFresh, RectDestroyFresh DEF DrawOpen, DrawNext, DrawClose
    <2>8. ASSUME "demo" \in Reader, DemoOpen \/ DemoNext \/ DemoClose
          PROVE Fresh'
      BY <2>8, RectReadFresh, RectDestroyFresh DEF DemoOpen, DemoNext, DemoClose
    <2>9. CASE UNCHANGED vars
      BY <2>9 DEF vars, routeVars, Fresh, StartOK, StatusTellsPath, Done
    <2> QED
      BY <2>1, <2>2, <2>3, <2>4, <2>5, <2>6, <2>7, <2>8, <2>9 DEF Next
  <1> QED
    BY <1>1, <1>2, TypeCorrect, PathSound, PTL DEF Spec

(* A path starts at the position of the moment and was made for the        *)
(* profile of the moment, unless a reader has put its update off.          *)
THEOREM UpToDate ==
  ASSUME StreetsKnown
  PROVE  Spec => []PathUpToDate
  <1>1. Sound /\ Fresh => PathUpToDate
    BY DEF Sound, Good, FloodOK, OwnerOK, Fresh, ProfileOK, StartOK, PathUpToDate
  <1> QED
    BY <1>1, PathSound, FreshAlways, PTL

(* Listeners are told of a finished path exactly as long as there is one,  *)
(* through every rebuilding of the graph and every update put off.         *)
THEOREM StatusTrue ==
  ASSUME StreetsKnown
  PROVE  Spec => []StatusTellsPath
  <1>1. Fresh => StatusTellsPath
    BY DEF Fresh
  <1> QED
    BY <1>1, FreshAlways, PTL

-----------------------------------------------------------------------------
(* A new position leaves the segments of a leg somebody stands on alone:   *)
(* a path in use is not touched, and legs behind the first are never freed *)
LEMMA UpdateDoneSpares ==
  ASSUME TypeOK, Sound, Inputs, UNCHANGED <<rect, destinations>>,
         NEW r \in Reader, rect[r].legs # <<>>,
         UpdateDone(graph, path2, leg, current_dst, 0, TRUE)
  PROVE  leg'[Head(rect[r].legs)].segs = leg[Head(rect[r].legs)].segs
  <1> DEFINE l == Head(rect[r].legs)
             kept == IF path2 = <<>> THEN leg ELSE DestroyLeg(leg, Head(path2))
  <1>1. /\ l \in LegId /\ l \in Referenced /\ l \in ToSet(rect[r].legs)
        /\ r \in {"draw", "demo"}
        /\ leg \in [LegId -> RoutePath] /\ path2 \in Seq(LegId)
    <2>1. /\ rect[r].legs \in Seq(LegId) /\ r \in {"draw", "demo"}
          /\ leg \in [LegId -> RoutePath] /\ path2 \in Seq(LegId)
      BY RouteAssumption DEF TypeOK, MapRect
    <2>2. l \in LegId /\ l \in ToSet(rect[r].legs)
      BY <2>1 DEF ToSet
    <2> QED
      BY <2>1, <2>2 DEF Referenced
  <1>2. ASSUME ~IsDeferred(path2, leg), path2 # <<>>
        PROVE  l # Head(path2)
    <2> SUFFICES ASSUME l = Head(path2) PROVE FALSE
      OBVIOUS
    <2>1. 1 \in 1..Len(path2) /\ Head(path2) = path2[1]
      BY <1>1, <1>2
    <2>2. leg[path2[1]].in_use = Holders(rect, path2[1])
      BY <2>1 DEF Sound, Good, HeldOK
    <2>3. /\ Stands(rect, r, path2[1]) = 1
          /\ \A s : Stands(rect, s, path2[1]) \in {0, 1}
      BY <2>1 DEF Stands
    <2>4. Holders(rect, path2[1]) > 1
      BY <1>1, <2>3 DEF Holders
    <2> QED
      BY <1>2, <2>1, <2>2, <2>4 DEF IsDeferred
  <1>3. ~IsDeferred(path2, leg) => kept[l] = leg[l]
    BY <1>1, <1>2 DEF DestroyLeg
  <1> HIDE DEF l, kept
  <1>4. CASE Defer(graph, path2, leg, current_dst, 0)
    <2>1. /\ leg' = [leg EXCEPT ![Head(path2)].update_required = 1 + 0]
          /\ Head(path2) \in LegId
      BY <1>1, <1>4 DEF Defer, IsDeferred
    <2> QED
      BY <1>1, <2>1 DEF l, RoutePath
  <1>5. CASE leg' = leg
    BY <1>5
  <1>6. CASE /\ ~IsDeferred(path2, leg)
             /\ Relink(graph, path2, leg, current_dst, 0)
    <2> DEFINE ids == CHOOSE f \in Allocations(current_dst) : TRUE
    <2>1. current_dst \in Nat /\ Allocations(current_dst) # {}
      BY <1>6 DEF TypeOK, Relink
    <2>2. \A i \in 1..current_dst : ids[i] # l
      BY <1>1, <2>1, AllocationType
    <2>3. leg' = [k \in LegId |->
               IF \E i \in 1..current_dst : ids[i] = k
               THEN NewLeg(CHOOSE i \in 1..current_dst : ids[i] = k)
               ELSE kept[k]]
      BY <1>6 DEF Relink, kept
    <2> HIDE DEF ids
    <2> QED
      BY <1>1, <1>3, <1>6, <2>2, <2>3 DEF l
  <1>7. CASE /\ ~IsDeferred(path2, leg)
             /\ \E i \in 0..current_dst : Lose(path2, leg, current_dst, i)
    <2>1. \/ leg' = Reachable(leg, <<>>)
          \/ leg' = Reachable(kept, <<>>)
      BY <1>7 DEF Lose, kept
    <2>2. l \in UNION {ToSet(rect'[s].legs) : s \in Reader}
      BY <1>1
    <2> QED
      BY <1>1, <1>3, <1>7, <2>1, <2>2 DEF Reachable, l
  <1> QED
    BY <1>4, <1>5, <1>6, <1>7 DEF UpdateDone, Crash, l

(* A position, tracked or not, with a street or without, and wherever the  *)
(* readers stand, never frees the segments under a reader.                 *)
THEOREM ReadersSpared == Spec => PositionSparesReaders
  <1> DEFINE Spared ==
        \A r \in Reader :
          rect[r].legs # <<>> =>
            leg'[Head(rect[r].legs)].segs = leg[Head(rect[r].legs)].segs
  <1>1. ASSUME TypeOK, Sound, NEW p \in Place, UNCHANGED rect,
               RouteSetPosition(p) \/ RouteSetPositionFromTracking(p)
        PROVE  Spared
    <2> SUFFICES ASSUME NEW r \in Reader, rect[r].legs # <<>>
                 PROVE  leg'[Head(rect[r].legs)].segs =
                          leg[Head(rect[r].legs)].segs
      OBVIOUS
    <2>1. CASE leg' = leg
      BY <2>1
    <2>2. CASE /\ pos' = p
               /\ PathUpdate(FALSE, graph, current_dst, route_status)
      <3>1. /\ UNCHANGED <<destinations, vehicleprofile>>
            /\ pos' # None
        BY <1>1, <2>2, RouteAssumption
           DEF RouteSetPosition, RouteSetPositionFromTracking
      <3>2. Inputs
        BY <1>1, <2>2, <3>1 DEF TypeOK, Inputs
      <3>3. CASE DropPath /\ path2 = <<>>
        BY <1>1, <3>3 DEF DropPath, DestroyPath, ToSet, TypeOK
      <3>4. CASE UpdateDone(graph, path2, leg, current_dst, 0, TRUE)
        BY <1>1, <3>1, <3>2, <3>4, UpdateDoneSpares
      <3>5. destinations = <<>> \/ graph.phase = "none" => path2 = <<>>
        BY <1>1 DEF TypeOK, Sound, Good, OwnerOK, LinkedOK
      <3> QED
        BY <2>1, <2>2, <3>1, <3>3, <3>4, <3>5 DEF PathUpdate
    <2> QED
      BY <1>1, <2>1, <2>2 DEF RouteSetPosition, RouteSetPositionFromTracking
  <1>2. ASSUME TypeOK, Sound, [Next]_vars, stage' = "reached",
               stage # "reached"
        PROVE  Spared
    <2>1. PICK p \in Place, tracking \in BOOLEAN : VehicleUpdate(p, tracking)
      BY <1>2, RouteAssumption
         DEF Next, vars, SetPosition, SetDestinations, SetDestinationAttr,
             SetProfile, BuildIdle, CheckDestination, DrawOpen, DrawNext,
             DrawClose, DemoOpen, DemoNext, DemoClose, Redraw, Resume
    <2> QED
      BY <1>1, <1>2, <2>1 DEF VehicleUpdate
  <1>3. TypeOK /\ Sound /\ [Next]_vars =>
          [stage' = "reached" /\ stage # "reached" =>
             \A r \in Reader :
               LET l == Head(rect[r].legs)
               IN rect[r].legs # <<>> /\ leg[l].segs => leg'[l].segs]_vars
    BY <1>2
  <1> QED
    BY <1>3, TypeCorrect, PathSound, PTL DEF Spec, PositionSparesReaders

-----------------------------------------------------------------------------
(***************************************************************************)
(* Where a pointer can be misused.  A reader keeps the legs that followed  *)
(* the one it was opened on.  Steady says that from every leg that still   *)
(* has its segments on, these are either the end of the path or legs the   *)
(* route has forgotten as they were, so that reading on is safe from       *)
(* there; Aimed, that a graph is only built or finished for a destination. *)
(* Neither needs to hold once a pointer was misused: nothing happens then. *)
(***************************************************************************)

(* From its n-th leg on, s is the end of the path p *)
EndOf(s, n, p) ==
  \E k \in 1..Len(p) : /\ Len(s) - n = Len(p) - k
                       /\ \A j \in n..Len(s) : s[j] = p[k + j - n]

(* From its n-th leg on, s is no part of p and lacks no holder *)
Forgotten(s, n, p, h, rs) ==
  \A j \in n..Len(s) : s[j] \notin ToSet(p) /\ h[s[j]].in_use = Holders(rs, s[j])

(* What reader legs s may rely on beside a path p *)
Readable(s, p, h, rs) ==
  /\ \A i, j \in 1..Len(s) : s[i] = s[j] => i = j
  /\ \A n \in 1..Len(s) :
       h[s[n]].segs => EndOf(s, n, p) \/ Forgotten(s, n, p, h, rs)

Steady(p, h, rs) ==
  /\ \A i \in 1..Len(p) : h[p[i]].segs
  /\ \A r \in Reader : Readable(rs[r].legs, p, h, rs)

Aimed ==
  /\ destinations # <<>> => current_dst # 0
  /\ graph.phase = "busy" => destinations # <<>>

(* A leg destroyed has no segments *)
LEMMA DestroyedEmpty ==
  ASSUME NEW x \in RoutePath
  PROVE  ~Destroyed(x).segs
  BY DEF Destroyed, Dropped, NoLeg, RoutePath

(* Beside the same path, legs s stay readable as long as none gets its      *)
(* segments back and those forgotten keep the count of their holders       *)
LEMMA StillReadable ==
  ASSUME NEW s, NEW p, NEW h, NEW rs, NEW k, NEW ks,
         Readable(s, p, h, rs),
         \A j \in 1..Len(s) : k[s[j]].segs => h[s[j]].segs,
         \A j \in 1..Len(s) :
           s[j] \notin ToSet(p) /\ h[s[j]].in_use = Holders(rs, s[j]) =>
             k[s[j]].in_use = Holders(ks, s[j])
  PROVE  Readable(s, p, k, ks)
  <1>1. ASSUME NEW n \in 1..Len(s), Forgotten(s, n, p, h, rs), Len(s) \in Nat
        PROVE  Forgotten(s, n, p, k, ks)
    BY <1>1 DEF Forgotten
  <1> QED
    BY <1>1 DEF Readable

(* The end of a path consists of its legs; behind its head, the head is    *)
(* none of them                                                            *)
LEMMA EndInPath ==
  ASSUME NEW p \in Seq(LegId), NEW s \in Seq(LegId), NEW n \in 1..Len(s),
         EndOf(s, n, p),
         \A i, j \in 1..Len(p) : p[i] = p[j] => i = j
  PROVE  \A j \in n..Len(s) : \E i \in 1..Len(p) :
           s[j] = p[i] /\ (s[n] # p[1] => i > 1)
  <1>1. PICK k \in 1..Len(p) : /\ Len(s) - n = Len(p) - k
                               /\ \A j \in n..Len(s) : s[j] = p[k + j - n]
    BY DEF EndOf
  <1>2. Len(s) \in Nat /\ Len(p) \in Nat /\ n \in n..Len(s) /\ k + n - n = k
    OBVIOUS
  <1>3. s[n] # p[1] => k > 1
    BY <1>1, <1>2
  <1>4. ASSUME NEW j \in n..Len(s)
        PROVE  k + j - n \in 1..Len(p) /\ (k > 1 => k + j - n > 1)
    BY <1>1, <1>2
  <1> QED
    BY <1>1, <1>3, <1>4

-----------------------------------------------------------------------------
(* An update leaves the readers where they can read on *)

LEMMA DeferSteady ==
  ASSUME NEW g, NEW p, NEW h, NEW c, NEW new \in {0, 1}, Inputs,
         Typed(g, p, h, c, destinations'), Steady(p, h, rect'),
         Defer(g, p, h, c, new)
  PROVE  Steady(path2', leg', rect')
  <1>1. /\ path2' = p /\ Head(p) \in LegId /\ p \in Seq(LegId)
        /\ h \in [LegId -> RoutePath] /\ rect' \in [Reader -> MapRect]
    BY DEF Typed, Defer, IsDeferred, Inputs
  <1>2. \A l \in LegId : leg'[l].segs = h[l].segs /\ leg'[l].in_use = h[l].in_use
    BY <1>1 DEF Defer, RoutePath
  <1>3. ASSUME NEW r \in Reader
        PROVE  Readable(rect'[r].legs, path2', leg', rect')
    <2>1. rect'[r].legs \in Seq(LegId)
      BY <1>1 DEF MapRect
    <2>2. \A j \in 1..Len(rect'[r].legs) : rect'[r].legs[j] \in LegId
      BY <2>1
    <2>3. Readable(rect'[r].legs, p, h, rect')
      BY DEF Steady
    <2> QED
      BY <1>1, <1>2, <2>2, <2>3, StillReadable
  <1>4. \A i \in 1..Len(p) : p[i] \in LegId
    BY <1>1
  <1> QED
    BY <1>1, <1>2, <1>3, <1>4 DEF Steady

(* Legs that are lost go on being counted for those who read them *)
LEMMA LoseSteady ==
  ASSUME NEW g, NEW p, NEW h, NEW c, NEW i, Inputs,
         Typed(g, p, h, c, destinations'), LinkedOK(p, h, destinations'),
         HeldOK(p, h, rect'), Steady(p, h, rect'), Lose(p, h, c, i)
  PROVE  Steady(path2', leg', rect')
  <1> DEFINE kept == IF i < c /\ p # <<>> THEN DestroyLeg(h, Head(p)) ELSE h
  <1>1. /\ path2' = <<>> /\ leg' = Reachable(kept, <<>>)
        /\ p \in Seq(LegId) /\ h \in [LegId -> RoutePath]
        /\ rect' \in [Reader -> MapRect]
    BY DEF Lose, Typed, Inputs
  <1>2. SUFFICES ASSUME NEW r \in Reader
                 PROVE  Readable(rect'[r].legs, path2', leg', rect')
    BY <1>1 DEF Steady
  <1> DEFINE s == rect'[r].legs
  <1>3. s \in Seq(LegId) /\ Readable(s, p, h, rect')
    BY <1>1 DEF MapRect, Steady
  <1>4. \A j \in 1..Len(s) : s[j] \in LegId /\ leg'[s[j]] = kept[s[j]]
    <2>1. \A j \in 1..Len(s) : s[j] \in LegId /\ s[j] \in ToSet(s)
      BY <1>3 DEF ToSet
    <2> QED
      BY <1>1, <2>1 DEF Reachable
  <1>5. \A l \in LegId : /\ kept[l].segs => h[l].segs
                         /\ kept[l].segs /\ p # <<>> /\ l = Head(p) => kept[l] = h[l]
                         /\ p = <<>> \/ l # Head(p) => kept[l] = h[l]
    BY <1>1, DestroyedEmpty DEF DestroyLeg
  <1> HIDE DEF kept
  <1> SUFFICES ASSUME NEW n \in 1..Len(s), leg'[s[n]].segs
               PROVE  Forgotten(s, n, <<>>, leg', rect')
    BY <1>1, <1>3 DEF Readable
  <1>6. h[s[n]].segs /\ kept[s[n]].segs
    BY <1>4, <1>5
  <1>7. ASSUME Forgotten(s, n, p, h, rect')
        PROVE  \A j \in n..Len(s) : leg'[s[j]].in_use = Holders(rect', s[j])
    <2> SUFFICES ASSUME NEW j \in n..Len(s)
                 PROVE  leg'[s[j]].in_use = Holders(rect', s[j])
      OBVIOUS
    <2>1. j \in 1..Len(s) /\ s[j] \notin ToSet(p)
      BY <1>3, <1>7 DEF Forgotten
    <2>2. p = <<>> \/ s[j] # Head(p)
      BY <1>1, <2>1 DEF ToSet
    <2> QED
      BY <1>4, <1>5, <1>7, <2>1, <2>2 DEF Forgotten
  <1>8. ASSUME EndOf(s, n, p)
        PROVE  \A j \in n..Len(s) : leg'[s[j]].in_use = Holders(rect', s[j])
    <2> SUFFICES ASSUME NEW j \in n..Len(s)
                 PROVE  leg'[s[j]].in_use = Holders(rect', s[j])
      OBVIOUS
    <2>1. PICK m \in 1..Len(p) : s[j] = p[m] /\ (s[n] # p[1] => m > 1)
      <3>1. \A m, l \in 1..Len(p) : p[m] = p[l] => m = l
        BY DEF LinkedOK
      <3>2. n \in 1..Len(s) /\ s \in Seq(LegId) /\ p \in Seq(LegId)
        BY <1>1, <1>3
      <3> HIDE DEF s
      <3>3. \A q \in n..Len(s) : \E m \in 1..Len(p) :
              s[q] = p[m] /\ (s[n] # p[1] => m > 1)
        BY <1>8, <3>1, <3>2, EndInPath
      <3> QED
        BY <3>3
    <2>2. h[s[j]].in_use = Holders(rect', s[j])
      BY <2>1 DEF HeldOK
    <2>3. j \in 1..Len(s) /\ p # <<>> /\ Head(p) = p[1] /\ 1 \in 1..Len(p)
      BY <1>1, <1>3, <2>1
    <2>4. kept[s[j]] = h[s[j]]
      <3>1. CASE s[n] = p[1] /\ kept = h
        BY <3>1
      <3>2. CASE s[n] = p[1] /\ kept # h
        BY <1>1, <1>4, <1>6, <2>3, <3>2, DestroyedEmpty DEF kept, DestroyLeg
      <3>3. CASE s[n] # p[1]
        BY <1>4, <1>5, <2>1, <2>3, <3>3 DEF LinkedOK
      <3> QED
        BY <3>1, <3>2, <3>3
    <2> QED
      BY <1>4, <2>2, <2>3, <2>4
  <1> QED
    BY <1>3, <1>6, <1>7, <1>8 DEF Readable, Forgotten, ToSet

(* Two sequences of legs in a row *)
LEMMA JoinedSequences ==
  ASSUME NEW a \in Seq(LegId), NEW b \in Seq(LegId)
  PROVE  /\ Len(a \o b) = Len(a) + Len(b)
         /\ \A i \in 1..Len(a) : (a \o b)[i] = a[i]
         /\ \A i \in 1..Len(b) : (a \o b)[Len(a) + i] = b[i]
  OBVIOUS

(* New legs are linked in front of what followed the old head, on which    *)
(* nobody stands                                                           *)
LEMMA RelinkSteady ==
  ASSUME NEW g, NEW p, NEW h, NEW c, NEW new \in {0, 1}, Inputs,
         Typed(g, p, h, c, destinations'), LinkedOK(p, h, destinations'),
         Steady(p, h, rect'), ToSet(p) \subseteq Referenced,
         \A r \in Reader : ToSet(rect'[r].legs) \subseteq Referenced,
         Relink(g, p, h, c, new)
  PROVE  Steady(path2', leg', rect')
  <1> DEFINE ids  == CHOOSE f \in Allocations(c) : TRUE
             rest == IF p = <<>> THEN <<>> ELSE Tail(p)
             kept == IF p = <<>> THEN h ELSE DestroyLeg(h, Head(p))
  <1>1. /\ p \in Seq(LegId) /\ h \in [LegId -> RoutePath]
        /\ rect' \in [Reader -> MapRect]
        /\ c \in Nat /\ c > 0 /\ Allocations(c) # {}
    BY DEF Typed, Inputs, Relink
  <1>2. /\ ids \in Seq(LegId) /\ Len(ids) = c
        /\ \A i \in 1..c : ids[i] \in LegId \ Referenced
        /\ \A i, j \in 1..c : ids[i] = ids[j] => i = j
    BY <1>1, AllocationType
  <1>3. /\ rest \in Seq(LegId)
        /\ Len(rest) = IF p = <<>> THEN 0 ELSE Len(p) - 1
        /\ \A i \in 1..Len(rest) : i + 1 \in 1..Len(p) /\ rest[i] = p[i + 1]
    BY <1>1
  <1>4. /\ path2' = ids \o rest
        /\ leg' = [l \in LegId |->
             IF \E i \in 1..c : ids[i] = l
             THEN NewLeg(CHOOSE i \in 1..c : ids[i] = l) ELSE kept[l]]
    BY DEF Relink
  <1> HIDE DEF ids, rest
  <1>5. \A l \in Referenced \cap LegId : leg'[l] = kept[l]
    BY <1>2, <1>4
  <1>6. /\ \A l \in LegId : /\ kept[l].segs => h[l].segs
                            /\ p = <<>> \/ l # Head(p) => kept[l] = h[l]
        /\ p # <<>> => ~kept[Head(p)].segs
    BY <1>1, DestroyedEmpty DEF DestroyLeg
  <1> HIDE DEF kept
  <1>7. ASSUME NEW i \in 1..Len(p)
        PROVE  p[i] \in LegId /\ p[i] \in Referenced /\ p # <<>> /\ Head(p) = p[1]
    BY <1>1 DEF ToSet
  <1>8. /\ Len(path2') = c + Len(rest)
        /\ \A i \in 1..c : path2'[i] = ids[i]
        /\ \A i \in 1..Len(rest) : path2'[c + i] = rest[i]
    <2>1. path2' = ids \o rest /\ ids \in Seq(LegId) /\ rest \in Seq(LegId)
      BY <1>2, <1>3, <1>4
    <2>2. Len(ids) = c
      BY <1>2
    <2> QED
      BY <2>1, <2>2, JoinedSequences
  <1>9. ASSUME NEW m \in 1..Len(path2')
        PROVE  /\ path2'[m] \in LegId \ Referenced \/ path2'[m] \in ToSet(p)
               /\ leg'[path2'[m]].segs
    <2>1. CASE m \in 1..c
      BY <1>2, <1>4, <1>8, <2>1 DEF NewLeg
    <2>2. CASE m \notin 1..c
      <3>1. m - c \in 1..Len(rest)
        BY <1>1, <1>3, <1>8, <2>2
      <3>2. path2'[m] = p[m - c + 1] /\ m - c + 1 \in 1..Len(p)
        <4>1. c + (m - c) = m /\ path2'[c + (m - c)] = rest[m - c]
          BY <1>1, <1>8, <3>1
        <4> QED
          BY <1>3, <3>1, <4>1
      <3>3. p[m - c + 1] # Head(p)
        BY <1>7, <3>1, <3>2 DEF LinkedOK
      <3> QED
        BY <1>5, <1>6, <1>7, <3>2, <3>3 DEF Steady, ToSet
    <2> QED
      BY <2>1, <2>2
  <1>10. SUFFICES ASSUME NEW r \in Reader
                  PROVE  Readable(rect'[r].legs, path2', leg', rect')
    BY <1>9 DEF Steady
  <1> DEFINE s == rect'[r].legs
  <1>11. s \in Seq(LegId) /\ Readable(s, p, h, rect')
    BY <1>1 DEF MapRect, Steady
  <1>12. \A j \in 1..Len(s) : /\ s[j] \in LegId /\ s[j] \in Referenced
                              /\ leg'[s[j]] = kept[s[j]]
    BY <1>5, <1>11 DEF ToSet
  <1> SUFFICES ASSUME NEW n \in 1..Len(s), leg'[s[n]].segs
               PROVE  \/ EndOf(s, n, path2')
                      \/ Forgotten(s, n, path2', leg', rect')
    BY <1>11 DEF Readable
  <1>13. h[s[n]].segs /\ (p # <<>> => s[n] # Head(p))
    BY <1>6, <1>12
  <1>14. CASE EndOf(s, n, p)
    <2>1. PICK k \in 1..Len(p) : /\ Len(s) - n = Len(p) - k
                                 /\ \A j \in n..Len(s) : s[j] = p[k + j - n]
      BY <1>14 DEF EndOf
    <2>2. k > 1
      BY <1>7, <1>13, <2>1
    <2> DEFINE k2 == c + k - 1
    <2>3. /\ k2 \in 1..Len(path2')
          /\ Len(s) - n = Len(path2') - k2
      <3>1. Len(rest) = Len(p) - 1 /\ Len(p) \in Nat /\ Len(s) \in Nat
        BY <1>1, <1>3, <1>11, <2>1
      <3>2. Len(path2') = c + Len(p) - 1
        BY <1>1, <1>8, <3>1
      <3> QED
        BY <1>1, <2>1, <2>2, <3>1, <3>2
    <2>4. ASSUME NEW j \in n..Len(s)
          PROVE  s[j] = path2'[k2 + j - n]
      <3>1. (k - 1) + j - n \in 1..Len(rest)
        BY <1>1, <1>3, <1>11, <2>1, <2>2
      <3>2. rest[(k - 1) + j - n] = p[k + j - n]
        <4>1. ((k - 1) + j - n) + 1 = k + j - n
          BY <1>1, <1>11, <2>1
        <4>2. rest[(k - 1) + j - n] = p[((k - 1) + j - n) + 1]
          BY <1>3, <3>1
        <4> QED
          BY <4>1, <4>2
      <3>3. path2'[c + ((k - 1) + j - n)] = rest[(k - 1) + j - n]
        BY <1>8, <3>1
      <3>4. c + ((k - 1) + j - n) = k2 + j - n
        BY <1>1, <1>11, <2>1
      <3> QED
        BY <2>1, <3>2, <3>3, <3>4
    <2> HIDE DEF k2
    <2> QED
      BY <2>3, <2>4 DEF EndOf
  <1>15. CASE Forgotten(s, n, p, h, rect')
    <2> SUFFICES ASSUME NEW j \in n..Len(s)
                 PROVE  /\ s[j] \notin ToSet(path2')
                        /\ leg'[s[j]].in_use = Holders(rect', s[j])
      BY DEF Forgotten
    <2>1. j \in 1..Len(s) /\ s[j] \notin ToSet(p)
      BY <1>11, <1>15 DEF Forgotten
    <2>2. p = <<>> \/ s[j] # Head(p)
      BY <1>1, <2>1 DEF ToSet
    <2>3. leg'[s[j]] = h[s[j]]
      BY <1>6, <1>12, <2>1, <2>2
    <2>4. s[j] \notin ToSet(path2')
      BY <1>9, <1>12, <2>1 DEF ToSet
    <2> QED
      BY <1>15, <2>3, <2>4 DEF Forgotten
  <1> QED
    BY <1>11, <1>13, <1>14, <1>15 DEF Readable

LEMMA UpdateDoneSteady ==
  ASSUME NEW g, NEW p, NEW h, NEW c, NEW new \in {0, 1},
         NEW rebuild \in BOOLEAN, Inputs,
         Typed(g, p, h, c, destinations'), LinkedOK(p, h, destinations'),
         HeldOK(p, h, rect'), Steady(p, h, rect'), ToSet(p) \subseteq Referenced,
         \A r \in Reader : ToSet(rect'[r].legs) \subseteq Referenced,
         UpdateDone(g, p, h, c, new, rebuild), ~fault'
  PROVE  Steady(path2', leg', rect')
  <1>1. CASE Defer(g, p, h, c, new)
    BY <1>1, DeferSteady
  <1>2. CASE Relink(g, p, h, c, new)
    BY <1>2, RelinkSteady
  <1>3. CASE \E i \in 0..c : Lose(p, h, c, i)
    BY <1>3, LoseSteady
  <1> QED
    BY <1>1, <1>2, <1>3 DEF UpdateDone, Crash

(* After an update of a route with a current destination there is one *)
LEMMA UpdateDoneAimed ==
  ASSUME NEW g, NEW p, NEW h, NEW c, NEW new \in {0, 1},
         NEW rebuild \in BOOLEAN, Inputs, Typed(g, p, h, c, destinations'),
         UpdateDone(g, p, h, c, new, rebuild), ~fault', c # 0
  PROVE  current_dst' # 0
  <1>1. CASE \E i \in 0..c : BreaksAt(g, c, i) /\ Lose(p, h, c, i)
    BY <1>1 DEF BreaksAt, Gaps, Lose, Typed, Inputs
  <1>2. CASE Relink(g, p, h, c, new) \/ Defer(g, p, h, c, new)
    BY <1>2 DEF Relink, Defer
  <1> QED
    BY <1>1, <1>2 DEF UpdateDone, Crash

(* An update that does not rebuild the graph leaves its phase *)
LEMMA UpdateDoneKeepsPhase ==
  ASSUME NEW g \in RouteGraph, NEW p, NEW h, NEW c, NEW new,
         UpdateDone(g, p, h, c, new, FALSE)
  PROVE  graph'.phase = g.phase
  <1>1. \A i : Flooded(g, i).phase = g.phase
    BY DEF Flooded, RouteGraph
  <1> QED
    BY <1>1 DEF UpdateDone, Defer, Crash, Relink

(* The path is dropped: whoever stood on it finds no segments any more *)
LEMMA DropPathSteady ==
  ASSUME TypeOK, Steady(path2, leg, rect), UNCHANGED rect, DropPath
  PROVE  Steady(path2', leg', rect')
  <1>1. /\ path2' = <<>> /\ path2 \in Seq(LegId) /\ leg \in [LegId -> RoutePath]
        /\ rect \in [Reader -> MapRect]
        /\ \A l \in LegId : leg'[l] = IF l \in ToSet(path2) THEN Destroyed(leg[l])
                                                            ELSE leg[l]
    BY DEF DropPath, TypeOK, DestroyPath
  <1>2. SUFFICES ASSUME NEW r \in Reader
                 PROVE  Readable(rect'[r].legs, path2', leg', rect')
    BY <1>1 DEF Steady
  <1> DEFINE s == rect[r].legs
  <1>3. /\ s \in Seq(LegId) /\ Readable(s, path2, leg, rect)
        /\ rect'[r].legs = s
    BY <1>1 DEF MapRect, Steady
  <1> SUFFICES ASSUME NEW n \in 1..Len(s), leg'[s[n]].segs
               PROVE  Forgotten(s, n, path2', leg', rect')
    BY <1>3 DEF Readable
  <1>4. leg[s[n]].segs /\ s[n] \notin ToSet(path2)
    BY <1>1, <1>3, DestroyedEmpty
  <1>5. CASE EndOf(s, n, path2)
    BY <1>3, <1>4, <1>5 DEF EndOf, ToSet
  <1>6. CASE Forgotten(s, n, path2, leg, rect)
    <2> SUFFICES ASSUME NEW j \in n..Len(s)
                 PROVE  /\ s[j] \notin ToSet(path2')
                        /\ leg'[s[j]].in_use = Holders(rect', s[j])
      BY DEF Forgotten
    <2>1. s[j] \in LegId /\ s[j] \notin ToSet(path2)
      BY <1>3, <1>6 DEF Forgotten
    <2>2. leg'[s[j]].in_use = Holders(rect', s[j])
      BY <1>1, <1>6, <2>1 DEF Forgotten
    <2> QED
      BY <1>1, <2>2 DEF ToSet
  <1> QED
    BY <1>3, <1>4, <1>5, <1>6 DEF Readable

LEMMA PathUpdateSteady ==
  ASSUME NEW cancel \in BOOLEAN, NEW g \in RouteGraph, NEW c \in Nat,
         NEW status, TypeOK, Sound, Steady(path2, leg, rect), UNCHANGED rect,
         Inputs, c <= Len(destinations'), destinations' # <<>> => c # 0,
         g.phase = "busy" => destinations' # <<>>,
         ~cancel => g = graph /\ c = current_dst /\ UNCHANGED destinations,
         PathUpdate(cancel, g, c, status), ~fault'
  PROVE  Steady(path2', leg', rect') /\ Aimed'
  <1>1. CASE /\ DropPath /\ current_dst' = c
             /\ graph' = g \/ (destinations' # <<>> /\ GraphUpdate)
    BY <1>1, DropPathSteady DEF Aimed
  <1>2. CASE graph' = g /\ current_dst' = c /\ UNCHANGED <<path2, leg>>
    BY <1>2 DEF Aimed
  <1>3. CASE /\ ~cancel /\ destinations' # <<>> /\ c # 0
             /\ UpdateDone(g, path2, leg, c, 0, TRUE)
    <2>1. /\ Typed(g, path2, leg, c, destinations')
          /\ LinkedOK(path2, leg, destinations') /\ HeldOK(path2, leg, rect')
      BY <1>3 DEF TypeOK, Typed, Inputs, Sound, Good
    <2>2. /\ ToSet(path2) \subseteq Referenced
          /\ \A r \in Reader : ToSet(rect'[r].legs) \subseteq Referenced
      BY DEF Referenced
    <2>3. Steady(path2, leg, rect')
      OBVIOUS
    <2>4. Steady(path2', leg', rect')
      BY <1>3, <2>1, <2>2, <2>3, UpdateDoneSteady
    <2>5. current_dst' # 0
      BY <1>3, <2>1, UpdateDoneAimed
    <2> QED
      BY <1>3, <2>4, <2>5 DEF Aimed
  <1> QED
    BY <1>1, <1>2, <1>3 DEF PathUpdate

-----------------------------------------------------------------------------
(* The operations of the route *)

(* What the steps keep as long as no pointer was misused *)
Calm == Steady(path2, leg, rect) /\ Aimed

LEMMA SetPositionCalm ==
  ASSUME TypeOK, Sound, Calm, UNCHANGED rect, NEW p \in Place, ~fault',
         RouteSetPosition(p) \/ RouteSetPositionFromTracking(p)
  PROVE  Calm'
  <1>1. UNCHANGED <<destinations, vehicleprofile>>
    BY DEF RouteSetPosition, RouteSetPositionFromTracking
  <1>2. CASE UNCHANGED <<current_dst, graph, path2, leg>>
    BY <1>1, <1>2 DEF Calm, Aimed
  <1>3. CASE pos' = p /\ PathUpdate(FALSE, graph, current_dst, route_status)
    <2>1. /\ Inputs /\ graph \in RouteGraph
          /\ current_dst \in Nat /\ current_dst <= Len(destinations')
      BY <1>1, <1>3 DEF TypeOK, Inputs
    <2> QED
      BY <1>1, <1>3, <2>1, PathUpdateSteady DEF Calm, Aimed
  <1> QED
    BY <1>2, <1>3 DEF RouteSetPosition, RouteSetPositionFromTracking

LEMMA SetDestinationsCalm ==
  ASSUME TypeOK, Sound, Calm, UNCHANGED rect, NEW ds \in Seq(Street),
         NEW dropped \in BOOLEAN, RouteSetDestinations(ds, dropped), ~fault'
  PROVE  Calm'
  <1> DEFINE status == IF ds = <<>> /\ ~dropped THEN "no_destination"
                                               ELSE "destination_set"
  <1>1. /\ Inputs /\ Len(ds) \in Nat /\ Len(ds) <= Len(destinations')
        /\ destinations' # <<>> => Len(ds) # 0
    BY DEF RouteSetDestinations, TypeOK, Inputs
  <1>2. NoGraph \in RouteGraph /\ NoGraph.phase # "busy"
    BY DEF NoGraph, RouteGraph
  <1>3. PathUpdate(TRUE, NoGraph, Len(ds), status)
    BY DEF RouteSetDestinations
  <1> HIDE DEF status
  <1> QED
    BY <1>1, <1>2, <1>3, PathUpdateSteady DEF Calm

LEMMA SetProfileCalm ==
  ASSUME TypeOK, Sound, Calm, NEW v \in Profile, SetProfile(v), ~fault'
  PROVE  Calm'
  <1>1. /\ Inputs /\ UNCHANGED <<destinations, rect>> /\ graph \in RouteGraph
        /\ current_dst \in Nat /\ current_dst <= Len(destinations')
    BY DEF SetProfile, TypeOK, Inputs
  <1>2. PathUpdate(TRUE, graph, current_dst, route_status)
    BY DEF SetProfile
  <1> QED
    BY <1>1, <1>2, PathUpdateSteady DEF Calm, Aimed

LEMMA BuildIdleCalm ==
  ASSUME TypeOK, Sound, Calm, BuildIdle, ~fault'
  PROVE  Calm'
  <1> DEFINE built == [graph EXCEPT !.phase = "idle"]
             fl == Flooded(built, current_dst)
  <1>0. current_dst # 0 /\ UpdateDone(fl, path2, leg, current_dst, 1, FALSE)
    BY DEF BuildIdle, Crash
  <1>1. /\ Inputs /\ UNCHANGED <<destinations, rect>>
        /\ current_dst # 0 /\ current_dst \in 1..Len(destinations')
        /\ UpdateDone(fl, path2, leg, current_dst, 1, FALSE)
    <2>1. Inputs /\ UNCHANGED <<destinations, rect>>
      BY DEF BuildIdle, TypeOK, Inputs
    <2>2. current_dst \in 1..Len(destinations')
      BY <1>0, <2>1 DEF TypeOK
    <2> HIDE DEF fl
    <2> QED
      BY <1>0, <2>1, <2>2
  <1>2. built \in RouteGraph /\ built.phase = "idle"
    BY DEF TypeOK, RouteGraph
  <1>3. fl \in RouteGraph /\ fl.phase = "idle"
    <2>1. fl.phase = "idle"
      BY <1>2 DEF Flooded, RouteGraph
    <2> QED
      BY <1>1, <1>2, <2>1, FloodedType DEF Inputs
  <1> HIDE DEF fl
  <1>4. /\ Typed(fl, path2, leg, current_dst, destinations')
        /\ LinkedOK(path2, leg, destinations') /\ HeldOK(path2, leg, rect')
    BY <1>1, <1>3 DEF TypeOK, Typed, Sound, Good
  <1>5. /\ ToSet(path2) \subseteq Referenced
        /\ \A r \in Reader : ToSet(rect'[r].legs) \subseteq Referenced
        /\ Steady(path2, leg, rect')
    BY <1>1 DEF Referenced, Calm
  <1>6. Steady(path2', leg', rect')
    BY <1>1, <1>4, <1>5, UpdateDoneSteady
  <1>7. current_dst' # 0 /\ graph'.phase = fl.phase
    BY <1>1, <1>3, <1>4, UpdateDoneAimed, UpdateDoneKeepsPhase
  <1> QED
    BY <1>1, <1>3, <1>6, <1>7 DEF Calm, Aimed

LEMMA RemoveWaypointCalm ==
  ASSUME TypeOK, Sound, Calm, UNCHANGED rect, Reached, Len(destinations) > 1,
         RouteRemoveWaypoint, ~fault'
  PROVE  Calm'
  <1> DEFINE fl == Flooded(graph, 1)
             p  == Tail(path2)
             h  == DestroyLeg(leg, Head(path2))
  <1>1. /\ Inputs /\ fl.phase = "idle" /\ Typed(fl, p, h, 1, destinations')
        /\ LinkedOK(p, h, destinations') /\ HeldOK(p, h, rect')
        /\ ToSet(p) \subseteq Referenced /\ ToSet(p) \subseteq ToSet(path2)
        /\ Len(p) = Len(path2) - 1
        /\ \A i \in 1..Len(p) : /\ p[i] \in LegId
                                /\ i + 1 \in 1..Len(path2)
                                /\ p[i] = path2[i + 1]
                                /\ h[p[i]] = leg[p[i]]
        /\ UpdateDone(fl, p, h, 1, 1, FALSE)
    BY RemoveWaypointReady DEF Good
  <1>2. /\ path2 \in Seq(LegId) /\ Head(path2) = path2[1] /\ Head(path2) \in LegId
        /\ Len(path2) \in Nat /\ Head(path2) \in ToSet(path2)
        /\ rect \in [Reader -> MapRect] /\ leg \in [LegId -> RoutePath]
    BY DEF Reached, TypeOK, ToSet
  <1>3. \A l \in LegId : /\ h[l].segs => leg[l].segs /\ l # Head(path2)
                         /\ l # Head(path2) => h[l] = leg[l]
    BY <1>2, DestroyedEmpty DEF DestroyLeg
  <1> HIDE DEF fl, p, h
  <1>4. Steady(p, h, rect')
    <2>1. \A i \in 1..Len(p) : h[p[i]].segs
      BY <1>1 DEF Calm, Steady
    <2>2. SUFFICES ASSUME NEW r \in Reader
                   PROVE  Readable(rect[r].legs, p, h, rect')
      BY <2>1 DEF Steady
    <2> DEFINE s == rect[r].legs
    <2>3. s \in Seq(LegId) /\ Readable(s, path2, leg, rect)
      BY <1>2 DEF MapRect, Calm, Steady
    <2> SUFFICES ASSUME NEW n \in 1..Len(s), h[s[n]].segs
                 PROVE  EndOf(s, n, p) \/ Forgotten(s, n, p, h, rect')
      BY <2>3 DEF Readable
    <2>4. s[n] \in LegId /\ leg[s[n]].segs /\ s[n] # path2[1]
      BY <1>2, <1>3, <2>3
    <2>5. CASE EndOf(s, n, path2)
      <3>1. PICK k \in 1..Len(path2) :
                   /\ Len(s) - n = Len(path2) - k
                   /\ \A j \in n..Len(s) : s[j] = path2[k + j - n]
        BY <2>5 DEF EndOf
      <3>2. k > 1
        BY <2>4, <3>1
      <3>3. k - 1 \in 1..Len(p) /\ Len(s) - n = Len(p) - (k - 1)
        BY <1>1, <1>2, <2>3, <3>1, <3>2
      <3>4. ASSUME NEW j \in n..Len(s) PROVE s[j] = p[(k - 1) + j - n]
        <4>1. (k - 1) + j - n \in 1..Len(p)
          BY <1>1, <1>2, <2>3, <3>1, <3>2
        <4>2. p[(k - 1) + j - n] = path2[(k - 1) + j - n + 1]
          BY <1>1, <4>1
        <4>3. (k - 1) + j - n + 1 = k + j - n
          BY <2>3, <3>1
        <4> QED
          BY <3>1, <4>2, <4>3
      <3> QED
        BY <3>3, <3>4 DEF EndOf
    <2>6. CASE Forgotten(s, n, path2, leg, rect)
      <3> SUFFICES ASSUME NEW j \in n..Len(s)
                   PROVE  s[j] \notin ToSet(p) /\ h[s[j]].in_use = Holders(rect', s[j])
        BY DEF Forgotten
      <3>1. s[j] \in LegId /\ s[j] \notin ToSet(path2)
        BY <2>3, <2>6 DEF Forgotten
      <3> QED
        BY <1>1, <1>2, <1>3, <2>6, <3>1 DEF Forgotten
    <2> QED
      BY <2>3, <2>4, <2>5, <2>6 DEF Readable
  <1>5. \A r \in Reader : ToSet(rect'[r].legs) \subseteq Referenced
    BY DEF Referenced
  <1>6. Steady(path2', leg', rect')
    BY <1>1, <1>4, <1>5, UpdateDoneSteady
  <1>7. graph'.phase = "idle"
    BY <1>1, UpdateDoneKeepsPhase DEF Typed
  <1>8. current_dst' # 0
    <2>1. 1 # 0
      OBVIOUS
    <2> QED
      BY <1>1, <2>1, UpdateDoneAimed
  <1> QED
    BY <1>6, <1>7, <1>8 DEF Calm, Aimed

-----------------------------------------------------------------------------
(* The map rectangles *)

(* A leg with a holder to spare keeps its segments when one leaves it *)
LEMMA LeavingSpares ==
  ASSUME NEW x \in RoutePath
  PROVE  /\ Dropped(x).segs => x.segs
         /\ x.in_use \in 2..3 => /\ Dropped(x).segs = x.segs
                                 /\ Dropped(x).in_use = x.in_use - 1
         /\ Held(x).segs = x.segs /\ Held(x).in_use = x.in_use + 1
  <1>1. Held(x).segs = x.segs /\ Held(x).in_use = x.in_use + 1
    BY DEF Held, RoutePath
  <1>2. CASE x.in_use = 1
    <2>1. Dropped(x) = NoLeg /\ ~NoLeg.segs
      BY <1>2 DEF Dropped, NoLeg
    <2>2. x.in_use \notin 2..3
      BY <1>2
    <2> QED
      BY <1>1, <2>1, <2>2
  <1>3. CASE x.in_use # 1
    <2>1. Dropped(x) = [x EXCEPT !.in_use = @ - 1]
      BY <1>3 DEF Dropped
    <2>2. Dropped(x).segs = x.segs /\ Dropped(x).in_use = x.in_use - 1
      BY <2>1 DEF RoutePath
    <2> QED
      BY <1>1, <2>2
  <1> QED
    BY <1>2, <1>3

LEMMA RectNewCalm ==
  ASSUME TypeOK, Sound, Calm, NEW r \in Reader, RectNew(r)
  PROVE  Calm'
  <1>1. /\ path2 \in Seq(LegId) /\ leg \in [LegId -> RoutePath]
        /\ rect \in [Reader -> MapRect] /\ rect[r].legs = <<>>
        /\ rect'[r].legs = path2 /\ path2' = path2
        /\ \A q \in Reader : q # r => rect'[q] = rect[q]
    BY DEF RectNew, TypeOK, Sound
  <1>2. \A l \in LegId :
          /\ leg'[l].segs = leg[l].segs
          /\ l \notin ToSet(path2) => leg'[l] = leg[l]
    <2>1. CASE path2 = <<>>
      BY <2>1 DEF RectNew
    <2>2. CASE path2 # <<>>
      <3>1. Head(path2) \in LegId /\ Head(path2) \in ToSet(path2)
        BY <1>1, <2>2 DEF ToSet
      <3>2. leg' = [leg EXCEPT ![Head(path2)] = Held(@)]
        BY <2>2 DEF RectNew
      <3> QED
        BY <1>1, <3>1, <3>2, LeavingSpares
    <2> QED
      BY <2>1, <2>2
  <1>3. ASSUME NEW q \in Reader, q # r
        PROVE  Readable(rect'[q].legs, path2, leg', rect')
    <2> DEFINE s == rect[q].legs
    <2>1. s \in Seq(LegId) /\ Readable(s, path2, leg, rect)
      BY <1>1 DEF MapRect, Calm, Steady
    <2>2. ASSUME NEW j \in 1..Len(s), s[j] \notin ToSet(path2)
          PROVE  Holders(rect', s[j]) = Holders(rect, s[j])
      <3>1. Stands(rect', r, s[j]) = 0 /\ Stands(rect, r, s[j]) = 0
        BY <1>1, <2>2 DEF Stands, ToSet
      <3>2. /\ Holders(rect', s[j]) \in 1..3 /\ Holders(rect, s[j]) \in 1..3
        BY HoldersType
      <3>3. Holders(rect', s[j]) - Stands(rect', r, s[j])
              = Holders(rect, s[j]) - Stands(rect, r, s[j])
        BY <1>1, HoldersChange
      <3> QED
        BY <3>1, <3>2, <3>3
    <2>3. \A j \in 1..Len(s) : s[j] \in LegId
      BY <2>1
    <2>4. Readable(s, path2, leg', rect')
      BY <1>2, <2>1, <2>2, <2>3, StillReadable
    <2> QED
      BY <1>1, <1>3, <2>4
  <1>4. Readable(path2, path2, leg', rect')
    <2>1. \A n \in 1..Len(path2) : EndOf(path2, n, path2)
      BY <1>1 DEF EndOf
    <2> QED
      BY <2>1 DEF Readable, Sound, Good, LinkedOK
  <1>5. \A i \in 1..Len(path2) : leg'[path2[i]].segs
    BY <1>1, <1>2 DEF Calm, Steady
  <1>6. Steady(path2', leg', rect')
    BY <1>1, <1>3, <1>4, <1>5 DEF Steady
  <1> QED
    BY <1>6 DEF RectNew, Calm, Aimed

(* What a reader has read is no part of what it may still read *)
LEMMA TailReadable ==
  ASSUME NEW s \in Seq(LegId), s # <<>>, NEW p, NEW h, NEW rs,
         Len(p) \in Nat, Readable(s, p, h, rs)
  PROVE  Readable(Tail(s), p, h, rs)
  <1> DEFINE t == Tail(s)
  <1>1. /\ Len(t) = Len(s) - 1 /\ Len(t) \in Nat /\ Len(s) \in Nat
        /\ \A j \in 1..Len(t) : j + 1 \in 1..Len(s) /\ t[j] = s[j + 1]
    OBVIOUS
  <1> HIDE DEF t
  <1>2. \A i, j \in 1..Len(t) : t[i] = t[j] => i = j
    <2> SUFFICES ASSUME NEW i \in 1..Len(t), NEW j \in 1..Len(t), t[i] = t[j]
                 PROVE  i = j
      OBVIOUS
    <2>1. i + 1 = j + 1
      BY <1>1 DEF Readable
    <2> QED
      BY <2>1
  <1>3. ASSUME NEW n \in 1..Len(t), EndOf(s, n + 1, p)
        PROVE  EndOf(t, n, p)
    <2>1. PICK k \in 1..Len(p) :
                 /\ Len(s) - (n + 1) = Len(p) - k
                 /\ \A j \in (n + 1)..Len(s) : s[j] = p[k + j - (n + 1)]
      BY <1>3 DEF EndOf
    <2>2. Len(t) - n = Len(p) - k
      BY <1>1, <2>1
    <2>3. ASSUME NEW j \in n..Len(t) PROVE t[j] = p[k + j - n]
      <3>1. j \in 1..Len(t) /\ j + 1 \in (n + 1)..Len(s)
        BY <1>1
      <3>2. s[j + 1] = p[k + (j + 1) - (n + 1)]
        BY <2>1, <3>1
      <3>3. k + (j + 1) - (n + 1) = k + j - n
        BY <1>1, <2>1
      <3> QED
        BY <1>1, <3>1, <3>2, <3>3
    <2> QED
      BY <2>2, <2>3 DEF EndOf
  <1>4. ASSUME NEW n \in 1..Len(t), Forgotten(s, n + 1, p, h, rs)
        PROVE  Forgotten(t, n, p, h, rs)
    <2> SUFFICES ASSUME NEW j \in n..Len(t)
                 PROVE  t[j] \notin ToSet(p) /\ h[t[j]].in_use = Holders(rs, t[j])
      BY DEF Forgotten
    <2>1. j \in 1..Len(t) /\ j + 1 \in (n + 1)..Len(s)
      BY <1>1
    <2> QED
      BY <1>1, <1>4, <2>1 DEF Forgotten
  <1>5. ASSUME NEW n \in 1..Len(t), h[t[n]].segs
        PROVE  EndOf(s, n + 1, p) \/ Forgotten(s, n + 1, p, h, rs)
    BY <1>1, <1>5 DEF Readable
  <1> QED
    BY <1>2, <1>3, <1>4, <1>5 DEF Readable, t

LEMMA NextLeg ==
  ASSUME NEW s \in Seq(LegId), Len(s) > 1
  PROVE  Head(s) = s[1] /\ Tail(s) # <<>> /\ Head(Tail(s)) = s[2]
  <1>1. /\ Tail(s) \in Seq(LegId) /\ Len(Tail(s)) = Len(s) - 1
        /\ Len(s) \in Nat /\ s # <<>>
    OBVIOUS
  <1>2. Len(Tail(s)) # 0 /\ 1 \in 1..Len(Tail(s))
    BY <1>1
  <1>3. Tail(s) # <<>>
    BY <1>1, <1>2, EmptySeq
  <1> QED
    BY <1>1, <1>2, <1>3

LEMMA RectGetItemCalm ==
  ASSUME TypeOK, Sound, Calm, NEW r \in Reader, RectGetItem(r), ~fault'
  PROVE  Calm'
  <1> DEFINE s == rect[r].legs
             a == s[1]
             b == s[2]
             h == [leg EXCEPT ![a] = Dropped(@)]
  <1>1. /\ path2 \in Seq(LegId) /\ leg \in [LegId -> RoutePath]
        /\ rect \in [Reader -> MapRect] /\ s \in Seq(LegId) /\ s # <<>>
        /\ Len(s) > 1 /\ a \in LegId /\ b \in LegId
    BY DEF RectGetItem, TypeOK, MapRect
  <1>2. /\ leg' = [h EXCEPT ![b] = Held(@)]
        /\ rect'[r].legs = Tail(s) /\ path2' = path2
        /\ \A q \in Reader : q # r => rect'[q] = rect[q]
    <2>1. /\ leg' = [h EXCEPT ![b] = Held(@)] /\ path2' = path2
          /\ rect' = [rect EXCEPT ![r].legs = Tail(@)]
      BY <1>1 DEF RectGetItem
    <2>2. rect'[r].legs = Tail(s) /\ \A q \in Reader : q # r => rect'[q] = rect[q]
      BY <1>1, <2>1 DEF MapRect
    <2> QED
      BY <2>1, <2>2
  <1>3. Readable(s, path2, leg, rect) /\ a # b
    BY <1>1 DEF Calm, Steady, Readable
  <1>4. ASSUME NEW l \in LegId
        PROVE  /\ leg'[l].segs => leg[l].segs
               /\ leg[l].in_use = Holders(rect, l) =>
                    leg'[l].segs = leg[l].segs /\ leg'[l].in_use = Holders(rect', l)
    <2>1. leg'[l] = IF l = a THEN Dropped(leg[l])
                    ELSE IF l = b THEN Held(leg[l]) ELSE leg[l]
      BY <1>1, <1>2, <1>3
    <2>2. leg[l] \in RoutePath
      BY <1>1
    <2>3. /\ Stands(rect, r, l) = (IF l = a THEN 1 ELSE 0)
          /\ Stands(rect', r, l) = (IF l = b THEN 1 ELSE 0)
      <3>1. Head(s) = a /\ Tail(s) # <<>> /\ Head(Tail(s)) = b
        BY <1>1, NextLeg
      <3> HIDE DEF a, b
      <3> QED
        BY <1>1, <1>2, <3>1 DEF Stands
    <2>4. Holders(rect', l) \in 1..3 /\ Holders(rect, l) \in 1..3
      BY HoldersType
    <2>5. Holders(rect', l) - Stands(rect', r, l)
            = Holders(rect, l) - Stands(rect, r, l)
      BY <1>2, HoldersChange
    <2>6. l = a => Holders(rect, l) \in 2..3
      BY <1>3, <2>3, <2>4, <2>5
    <2> QED
      BY <1>3, <2>1, <2>2, <2>3, <2>4, <2>5, <2>6, LeavingSpares
  <1> HIDE DEF h
  <1>5. ASSUME NEW q \in Reader
        PROVE  Readable(rect[q].legs, path2, leg', rect')
    <2>1. rect[q].legs \in Seq(LegId) /\ Readable(rect[q].legs, path2, leg, rect)
      BY <1>1 DEF MapRect, Calm, Steady
    <2>2. \A j \in 1..Len(rect[q].legs) : rect[q].legs[j] \in LegId
      BY <2>1
    <2> QED
      BY <1>4, <2>1, <2>2, StillReadable
  <1>6. \A i \in 1..Len(path2) : leg'[path2[i]].segs
    BY <1>1, <1>4 DEF Calm, Steady, Sound, Good, HeldOK
  <1>7. \A q \in Reader : Readable(rect'[q].legs, path2, leg', rect')
    <2>1. Readable(Tail(s), path2, leg', rect')
      BY <1>1, <1>5, TailReadable
    <2> QED
      BY <1>2, <1>5, <2>1
  <1>8. Steady(path2', leg', rect')
    BY <1>2, <1>6, <1>7 DEF Steady
  <1> QED
    BY <1>8 DEF RectGetItem, Calm, Aimed

LEMMA RectDestroyCalm ==
  ASSUME TypeOK, Sound, Calm, NEW r \in Reader, RectDestroy(r), ~fault'
  PROVE  Calm'
  <1>1. /\ path2 \in Seq(LegId) /\ leg \in [LegId -> RoutePath]
        /\ rect \in [Reader -> MapRect] /\ rect' = [rect EXCEPT ![r] = Closed]
        /\ rect'[r].legs = <<>> /\ rect' \in [Reader -> MapRect]
        /\ \A q \in Reader : q # r => rect'[q] = rect[q]
        /\ UNCHANGED <<pos, destinations, vehicleprofile>>
    BY DEF RectDestroy, TypeOK, Closed, MapRect
  <1>2. \A l : Stands(rect', r, l) = 0
    BY <1>1 DEF Stands
  <1>3. ASSUME NEW l
        PROVE  Holders(rect', l) = Holders(rect, l) - Stands(rect, r, l)
    <2>1. Holders(rect', l) - Stands(rect', r, l)
            = Holders(rect, l) - Stands(rect, r, l)
      BY <1>1, HoldersChange
    <2>2. Holders(rect', l) \in 1..3
      BY HoldersType
    <2> QED
      BY <1>2, <2>1, <2>2
  (* It is enough that the heap has one holder less where r stood *)
  <1>4. ASSUME NEW h \in [LegId -> RoutePath],
               \A l \in LegId :
                 /\ h[l].segs => leg[l].segs
                 /\ leg[l].in_use = Holders(rect, l) =>
                      h[l].segs = leg[l].segs /\ h[l].in_use = Holders(rect', l)
        PROVE  Steady(path2, h, rect')
    <2>1. \A i \in 1..Len(path2) : h[path2[i]].segs
      BY <1>1, <1>4 DEF Calm, Steady, Sound, Good, HeldOK
    <2>2. ASSUME NEW q \in Reader
          PROVE  Readable(rect'[q].legs, path2, h, rect')
      <3>1. CASE q = r
        BY <1>1, <3>1 DEF Readable
      <3>2. CASE q # r
        <4>1. /\ rect[q].legs \in Seq(LegId) /\ rect'[q].legs = rect[q].legs
              /\ Readable(rect[q].legs, path2, leg, rect)
          BY <1>1, <3>2 DEF MapRect, Calm, Steady
        <4>2. \A j \in 1..Len(rect[q].legs) : rect[q].legs[j] \in LegId
          BY <4>1
        <4> QED
          BY <1>4, <4>1, <4>2, StillReadable
      <3> QED
        BY <3>1, <3>2
    <2> QED
      BY <2>1, <2>2 DEF Steady
  <1>5. CASE rect[r].legs = <<>>
    <2>1. \A l : Stands(rect, r, l) = 0
      BY <1>5 DEF Stands
    <2>2. \A l : Holders(rect', l) = Holders(rect, l)
      BY <1>3, <2>1, HoldersType
    <2>3. Steady(path2, leg, rect')
      BY <1>1, <1>4, <2>2
    <2> QED
      BY <1>5, <2>3 DEF RectDestroy, Calm, Aimed
  <1>6. CASE rect[r].legs # <<>>
    <2> DEFINE a == Head(rect[r].legs)
               h == [leg EXCEPT ![a] = Dropped(@)]
    <2>1. /\ a \in LegId /\ h \in [LegId -> RoutePath]
          /\ LinkedOK(path2, h, destinations)
          /\ HeldOK(path2, h, rect')
      BY <1>1, <1>6, RectLeaves
    <2>2. ASSUME NEW l \in LegId
          PROVE  /\ h[l].segs => leg[l].segs
                 /\ leg[l].in_use = Holders(rect, l) =>
                      h[l].segs = leg[l].segs /\ h[l].in_use = Holders(rect', l)
      <3>1. h[l] = IF l = a THEN Dropped(leg[l]) ELSE leg[l]
        BY <1>1, <2>1
      <3>2. Stands(rect, r, l) = (IF l = a THEN 1 ELSE 0)
        BY <1>6 DEF Stands
      <3>3. Holders(rect', l) \in 1..3 /\ Holders(rect, l) \in 1..3
        BY HoldersType
      <3>4. Holders(rect', l) = Holders(rect, l) - (IF l = a THEN 1 ELSE 0)
        BY <1>3, <3>2
      <3>5. leg[l] \in RoutePath
        BY <1>1
      <3> HIDE DEF h, a
      <3> QED
        BY <3>1, <3>3, <3>4, <3>5, LeavingSpares
    <2> HIDE DEF h, a
    <2>3. Steady(path2, h, rect')
      BY <1>4, <2>1, <2>2
    <2>4. CASE /\ leg' = Reachable(h, path2)
               /\ UNCHANGED <<current_dst, graph, path2>>
      <3>1. \A i \in 1..Len(path2) : path2[i] \in LegId /\ leg'[path2[i]] = h[path2[i]]
        BY <1>1, <2>4 DEF Reachable, ToSet
      <3>2. ASSUME NEW q \in Reader
            PROVE  Readable(rect'[q].legs, path2, leg', rect')
        <4>1. rect'[q].legs \in Seq(LegId) /\ Readable(rect'[q].legs, path2, h, rect')
          BY <1>1, <2>3 DEF MapRect, Steady
        <4>2. \A j \in 1..Len(rect'[q].legs) :
                leg'[rect'[q].legs[j]] = h[rect'[q].legs[j]]
          <5>1. \A j \in 1..Len(rect'[q].legs) :
                  /\ rect'[q].legs[j] \in LegId
                  /\ rect'[q].legs[j] \in ToSet(rect'[q].legs)
            BY <4>1 DEF ToSet
          <5> QED
            BY <2>4, <5>1 DEF Reachable
        <4> QED
          BY <4>1, <4>2, StillReadable
      <3>3. Steady(path2', leg', rect')
        BY <2>3, <2>4, <3>1, <3>2 DEF Steady
      <3> QED
        BY <1>1, <2>4, <3>3 DEF Calm, Aimed
    <2>5. CASE /\ h[a].update_required # 0
               /\ UpdateDone(graph, path2, h, current_dst,
                             h[a].update_required - 1, FALSE)
      <3>1. h[a].update_required - 1 \in {0, 1}
        BY <2>1, <2>5 DEF RoutePath
      <3>2. Inputs /\ Typed(graph, path2, h, current_dst, destinations')
        BY <1>1, <2>1 DEF Inputs, Typed, TypeOK
      <3>3. /\ ToSet(path2) \subseteq Referenced
            /\ \A q \in Reader : ToSet(rect'[q].legs) \subseteq Referenced
        <4> SUFFICES ASSUME NEW q \in Reader
                     PROVE  ToSet(rect'[q].legs) \subseteq Referenced
          BY DEF Referenced
        <4>1. CASE q = r
          BY <1>1, <4>1 DEF ToSet
        <4>2. CASE q # r
          BY <1>1, <4>2 DEF Referenced
        <4> QED
          BY <4>1, <4>2
      <3>4. Steady(path2', leg', rect')
        BY <1>1, <2>1, <2>3, <2>5, <3>1, <3>2, <3>3, UpdateDoneSteady
      <3>5. /\ current_dst # 0 => current_dst' # 0
            /\ graph'.phase = graph.phase
        BY <2>5, <3>1, <3>2, UpdateDoneAimed, UpdateDoneKeepsPhase DEF Typed
      <3> QED
        BY <1>1, <3>4, <3>5 DEF Calm, Aimed
    <2> QED
      BY <1>6, <2>4, <2>5 DEF RectDestroy, h, a
  <1> QED
    BY <1>5, <1>6

-----------------------------------------------------------------------------
(* Whoever reads on from a leg of the path, or of a path forgotten as it   *)
(* was, finds the next leg in use                                          *)
LEMMA ReadingSafe ==
  ASSUME TypeOK, Sound, Calm, NEW r \in Reader, RectGetItem(r), fault'
  PROVE  fault \/ Stale(r)
  <1> DEFINE s == rect[r].legs
  <1>1. /\ rect \in [Reader -> MapRect] /\ s \in Seq(LegId) /\ s # <<>>
        /\ Head(s) = s[1] /\ path2 \in Seq(LegId)
    BY DEF RectGetItem, TypeOK, MapRect
  <1>2. CASE ~leg[s[1]].segs
    <2>1. s[1] \notin ToSet(path2)
      BY <1>1, <1>2 DEF Calm, Steady, ToSet
    <2> QED
      BY <1>1, <1>2, <2>1 DEF Stale
  <1>3. CASE leg[s[1]].segs /\ Len(s) > 1 /\ leg[s[2]].in_use = 0
    <2>1. Len(s) \in Nat /\ 1 \in 1..Len(s) /\ 2 \in 1..Len(s) /\ 2 \in 1..Len(s)
      BY <1>1, <1>3
    <2>2. EndOf(s, 1, path2) \/ Forgotten(s, 1, path2, leg, rect)
      BY <1>3, <2>1 DEF Calm, Steady, Readable
    <2>3. Holders(rect, s[2]) # 0
      BY HoldersType
    <2>4. ~Forgotten(s, 1, path2, leg, rect)
      BY <1>3, <2>1, <2>3 DEF Forgotten
    <2>5. PICK i \in 1..Len(path2) : s[2] = path2[i]
      BY <1>1, <2>1, <2>2, <2>4, EndInPath DEF Sound, Good, LinkedOK
    <2>6. leg[s[2]].in_use = Holders(rect, s[2])
      BY <2>5 DEF Sound, Good, HeldOK
    <2> QED
      BY <1>3, <2>3, <2>6
  <1> QED
    BY <1>1, <1>2, <1>3 DEF RectGetItem

(* An update that was put off finds its graph and its destination as long  *)
(* as the leg it was put off for is part of the path                       *)
LEMMA ClosingSafe ==
  ASSUME TypeOK, Sound, Calm, NEW r \in Reader, RectDestroy(r), fault'
  PROVE  fault \/ pos = None \/ Stale(r)
  <1> SUFFICES ASSUME ~fault, pos # None
               PROVE  Stale(r)
    OBVIOUS
  <1> DEFINE a == Head(rect[r].legs)
             h == [leg EXCEPT ![a] = Dropped(@)]
  <1>1. /\ leg \in [LegId -> RoutePath] /\ path2 \in Seq(LegId)
        /\ UNCHANGED <<pos, destinations, vehicleprofile>>
        /\ rect[r].legs # <<>> /\ a \in LegId
        /\ h[a].update_required # 0
        /\ UpdateDone(graph, path2, h, current_dst, h[a].update_required - 1,
                      FALSE)
    <2>1. /\ leg \in [LegId -> RoutePath] /\ path2 \in Seq(LegId)
          /\ UNCHANGED <<pos, destinations, vehicleprofile>>
          /\ rect[r].legs \in Seq(LegId)
      BY DEF RectDestroy, TypeOK, MapRect
    <2>2. rect[r].legs # <<>>
      BY DEF RectDestroy
    <2>3. /\ h[a].update_required # 0
          /\ UpdateDone(graph, path2, h, current_dst, h[a].update_required - 1,
                        FALSE)
      BY <2>2 DEF RectDestroy
    <2>4. a \in LegId
      BY <2>1, <2>2
    <2> HIDE DEF h, a
    <2> QED
      BY <2>1, <2>2, <2>3, <2>4
  <1>2. leg[a].update_required # 0
    BY <1>1 DEF Dropped, NoLeg, RoutePath
  <1>3. Crashes(graph, current_dst)
    BY <1>1 DEF UpdateDone, Defer, Relink, Lose
  <1>4. graph.phase # "idle"
    BY <1>1, <1>3 DEF Sound, Good, FloodOK, Crashes, TypeOK
  <1>5. path2 = <<>>
    BY <1>4 DEF Sound, Good, OwnerOK
  <1>6. a \notin ToSet(path2)
    BY <1>5 DEF ToSet
  <1> HIDE DEF h
  <1> QED
    BY <1>1, <1>2, <1>6 DEF Stale

(* Every other operation finds the graph and the destination it needs      *)
LEMMA UpdateSafe ==
  ASSUME NEW g, NEW p, NEW h, NEW c, NEW new, NEW rebuild,
         destinations' \in Seq(Street), FloodOK(g, c, destinations'),
         g.phase = "idle", pos' # None, UpdateDone(g, p, h, c, new, rebuild)
  PROVE  UNCHANGED fault
  <1>1. c # 0 /\ ~Crashes(g, c)
    BY DEF FloodOK, Crashes
  <1> QED
    BY <1>1 DEF UpdateDone, Defer, Relink, Lose

LEMMA PathUpdateSafe ==
  ASSUME NEW cancel, NEW g, NEW c, NEW status, destinations' \in Seq(Street),
         ~cancel => FloodOK(g, c, destinations'),
         PathUpdate(cancel, g, c, status)
  PROVE  UNCHANGED fault
  BY UpdateSafe DEF PathUpdate

(* Whatever the places, the map, the readers and the order of their steps: *)
(* a NULL pointer or freed memory is only dereferenced when the position   *)
(* is unknown, when a position off every street is compared with the       *)
(* destination, or by a reader of a leg the route has let go of.           *)
THEOREM FaultsExplained == Spec => FaultsOnlyThere
  <1>1. Init => fault \/ Calm
    <2> SUFFICES ASSUME Init PROVE Calm
      OBVIOUS
    <2>1. \A r \in Reader : rect[r].legs = <<>>
      BY DEF Init, Closed
    <2>2. path2 = <<>> /\ destinations = <<>> /\ graph.phase = "none"
      BY DEF Init, NoGraph
    <2> QED
      BY <2>1, <2>2 DEF Calm, Steady, Readable, Aimed
  <1>2. TypeOK /\ Sound /\ (fault \/ Calm) /\ [Next]_vars => (fault \/ Calm)'
    <2> SUFFICES ASSUME TypeOK, Sound, fault \/ Calm, [Next]_vars, ~fault'
                 PROVE  Calm'
      OBVIOUS
    <2>0. CASE UNCHANGED vars
      BY <2>0 DEF vars, routeVars, Calm, Aimed
    <2> SUFFICES ASSUME Next PROVE Calm'
      BY <2>0
    <2>1. Calm
      BY DEF Next, SetPosition, VehicleUpdate, SetDestinations,
             SetDestinationAttr, SetProfile, BuildIdle, CheckDestination,
             DrawOpen, DrawNext, DrawClose, DemoOpen, DemoNext, DemoClose
    <2>2. ASSUME NEW p \in Place, NEW tracking \in BOOLEAN,
                 SetPosition(p) \/ VehicleUpdate(p, tracking)
          PROVE  Calm'
      BY <2>1, <2>2, SetPositionCalm DEF SetPosition, VehicleUpdate
    <2>3. ASSUME NEW ds \in Itinerary, NEW dropped \in BOOLEAN,
                 \/ \E async \in BOOLEAN : SetDestinations(ds, dropped, async)
                 \/ SetDestinationAttr(ds, dropped)
          PROVE Calm'
      <3>1. ds \in Seq(Street)
        BY RouteAssumption DEF Itinerary
      <3>2. RouteSetDestinations(ds, dropped) /\ UNCHANGED rect
        BY <2>3 DEF SetDestinations, SetDestinationAttr
      <3> QED
        BY <2>1, <3>1, <3>2, SetDestinationsCalm
    <2>4. ASSUME NEW v \in Profile, SetProfile(v) PROVE Calm'
      BY <2>1, <2>4, SetProfileCalm
    <2>5. ASSUME BuildIdle PROVE Calm'
      BY <2>1, <2>5, BuildIdleCalm
    <2>6. ASSUME CheckDestination PROVE Calm'
      <3>1. CASE UNCHANGED <<routeVars, rect>>
        BY <2>1, <3>1 DEF routeVars, Calm, Aimed
      <3>2. CASE /\ Reached /\ Len(destinations) > 1 /\ UNCHANGED rect
                 /\ RouteRemoveWaypoint
        BY <2>1, <3>2, RemoveWaypointCalm
      <3>3. CASE UNCHANGED rect /\ RouteSetDestinations(<<>>, FALSE)
        <4>1. <<>> \in Seq(Street)
          OBVIOUS
        <4> QED
          BY <2>1, <3>3, <4>1, SetDestinationsCalm
      <3> QED
        BY <2>6, <3>1, <3>2, <3>3 DEF CheckDestination
    <2>7. ASSUME "draw" \in Reader, DrawOpen \/ DrawNext \/ DrawClose
          PROVE Calm'
      BY <2>1, <2>7, RectNewCalm, RectGetItemCalm, RectDestroyCalm
         DEF DrawOpen, DrawNext, DrawClose
    <2>8. ASSUME "demo" \in Reader, DemoOpen \/ DemoNext \/ DemoClose
          PROVE Calm'
      BY <2>1, <2>8, RectNewCalm, RectGetItemCalm, RectDestroyCalm
         DEF DemoOpen, DemoNext, DemoClose
    <2> QED
      BY <2>2, <2>3, <2>4, <2>5, <2>6, <2>7, <2>8, RouteAssumption DEF Next
  <1>3. TypeOK /\ TypeOK' /\ Sound /\ (fault \/ Calm) /\ [Next]_vars =>
          [~fault /\ fault' =>
             \/ pos = None
             \/ stage = "reached" /\ pos \in NoStreet
             \/ \E r \in Reader : Stale(r)]_vars
    <2> SUFFICES ASSUME TypeOK, TypeOK', Sound, Calm, Next, ~fault, fault',
                        pos # None, ~(stage = "reached" /\ pos \in NoStreet)
                 PROVE  \E r \in Reader : Stale(r)
      BY DEF vars
    <2>1. destinations' \in Seq(Street) /\ FloodOK(graph, current_dst, destinations)
      BY DEF TypeOK, Sound, Good
    <2>2. ASSUME NEW p \in Place, NEW tracking \in BOOLEAN,
                 SetPosition(p) \/ VehicleUpdate(p, tracking)
          PROVE  FALSE
      BY <2>1, <2>2, PathUpdateSafe
         DEF SetPosition, VehicleUpdate, RouteSetPosition,
             RouteSetPositionFromTracking
    <2>3. ASSUME NEW ds, NEW dropped, RouteSetDestinations(ds, dropped)
          PROVE  FALSE
      BY <2>1, <2>3, PathUpdateSafe DEF RouteSetDestinations
    <2>4. ASSUME NEW v \in Profile, SetProfile(v) PROVE FALSE
      BY <2>1, <2>4, PathUpdateSafe DEF SetProfile
    <2>5. ASSUME BuildIdle PROVE FALSE
      <3> DEFINE built == [graph EXCEPT !.phase = "idle"]
                 fl == Flooded(built, current_dst)
      <3>1. destinations # <<>> /\ current_dst # 0
        BY <2>5 DEF BuildIdle, Calm, Aimed
      <3>2. /\ UNCHANGED <<pos, destinations, vehicleprofile>> /\ Inputs
            /\ current_dst \in 1..Len(destinations')
        <4>1. UNCHANGED <<pos, destinations, vehicleprofile, rect>>
          BY <2>5 DEF BuildIdle
        <4> QED
          BY <3>1, <4>1 DEF TypeOK, Inputs
      <3>3. built \in RouteGraph /\ built.phase = "idle"
        BY DEF TypeOK, RouteGraph
      <3>4. FloodOK(fl, current_dst, destinations') /\ fl.phase = "idle"
        BY <3>2, <3>3, FloodedLeads DEF Flooded, RouteGraph
      <3>5. UpdateDone(fl, path2, leg, current_dst, 1, FALSE)
        BY <2>5, <3>1 DEF BuildIdle
      <3> HIDE DEF fl
      <3> QED
        BY <2>1, <3>2, <3>4, <3>5, UpdateSafe
    <2>6. ASSUME CheckDestination PROVE FALSE
      <3>1. CASE Reached /\ Len(destinations) > 1 /\ UNCHANGED rect /\ RouteRemoveWaypoint
        <4>1. UNCHANGED pos
          BY <3>1 DEF RouteRemoveWaypoint
        <4> QED
          BY <2>1, <3>1, <4>1, RemoveWaypointReady, UpdateSafe DEF Good
      <3> QED
        BY <2>3, <2>6, <3>1 DEF CheckDestination
    <2>7. ASSUME NEW r \in Reader, RectNew(r) \/ RectGetItem(r) \/ RectDestroy(r)
          PROVE  Stale(r)
      BY <2>7, ReadingSafe, ClosingSafe DEF RectNew
    <2>8. ASSUME "draw" \in Reader, DrawOpen \/ DrawNext \/ DrawClose
          PROVE \E r \in Reader : Stale(r)
      BY <2>7, <2>8 DEF DrawOpen, DrawNext, DrawClose
    <2>9. ASSUME "demo" \in Reader, DemoOpen \/ DemoNext \/ DemoClose
          PROVE \E r \in Reader : Stale(r)
      BY <2>7, <2>9 DEF DemoOpen, DemoNext, DemoClose
    <2> QED
      BY <2>2, <2>3, <2>4, <2>5, <2>6, <2>8, <2>9, RouteAssumption
         DEF Next, SetDestinations, SetDestinationAttr
  <1> QED
    BY <1>1, <1>2, <1>3, TypeCorrect, PathSound, PTL DEF Spec, FaultsOnlyThere

=============================================================================
