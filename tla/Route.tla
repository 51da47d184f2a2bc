------------------------------- MODULE Route -------------------------------
(***************************************************************************)
(* The life cycle of struct route (navit/route.c): position, destinations, *)
(* the routing graph that is built in idle time, the legs of the path that *)
(* lead from the position through every waypoint, and the map rectangles   *)
(* through which drawing code and the demo vehicle read those legs.        *)
(*                                                                         *)
(* Navit is single threaded: an action is one callback run by the main     *)
(* loop, except where the code calls out to foreign code in the middle of  *)
(* one; "stage" then says what the interrupted callback still has to do.   *)
(*                                                                         *)
(* Data is abstracted to what route.c decides upon.  A Place is a          *)
(* coordinate together with its nearest street; two coordinates that the   *)
(* code would treat alike are one Place.                                   *)
(***************************************************************************)
EXTENDS Integers, FiniteSets, SequencesExt

CONSTANTS
  Place,           \* coordinates a position or a destination may have
  NoStreet,        \* the places without a street close enough to be used
  Near,            \* <<p, q>>: a graph selected around p holds q's street
  Profile,         \* vehicle profiles
  Tracked,         \* places a vehicle reports while tracking is on
  Untracked,       \* places set by the user or reported without tracking
  Way,             \* <<v, p, q>>: with profile v a permitted way leads p to q
  LegId,           \* identities of struct route_path
  Reader,          \* who opens map rectangles on the route map
  MaxDestinations, \* bound: destinations of one request
  None             \* the NULL pointer

ASSUME RouteAssumption ==
  /\ NoStreet \subseteq Place
  /\ Tracked \subseteq Place /\ Untracked \subseteq Place
  /\ Near \subseteq Place \X Place
  /\ Way \subseteq Profile \X Place \X Place
  /\ Reader \subseteq {"draw", "demo"}
  /\ MaxDestinations \in Nat
  /\ None \notin Place \cup Profile \cup (Profile \X Place)

VARIABLES
  pos,             \* route->pos: a Place, or None
  destinations,    \* route->destinations
  current_dst,     \* route->current_dst, as its index in destinations; 0: NULL
  vehicleprofile,  \* route->vehicleprofile
  graph,           \* route->graph
  path2,           \* route->path2 and its next pointers: sequence of LegId
  leg,             \* the struct route_path objects
  route_status,    \* route->route_status
  rect,            \* the map rectangles the readers hold
  stage,           \* where the synchronous call in progress stands
  fault            \* TRUE once a NULL or freed pointer was dereferenced

routeVars == <<pos, destinations, current_dst, vehicleprofile, graph, path2,
               leg, route_status>>
vars == <<routeVars, rect, stage, fault>>

Street == Place \ NoStreet
Itinerary == UNION {[1..n -> Street] : n \in 0..MaxDestinations}

NoGraph == [phase |-> "none", area |-> {}, profile |-> None, flooded |-> None]
NoLeg == [in_use |-> 0, update_required |-> 0, segs |-> FALSE,
          from |-> None, to |-> None]
Closed == [open |-> FALSE, legs |-> <<>>]

(* struct route_graph, struct route_path, struct map_rect_priv *)
RouteGraph ==
  [phase : {"none", "busy", "idle"}, area : SUBSET Place,
   profile : Profile \cup {None}, flooded : (Profile \X Street) \cup {None}]
RoutePath ==
  [in_use : Int, update_required : 0..2, segs : BOOLEAN,
   from : Place \cup {None}, to : Street \cup {None}]
MapRect == [open : BOOLEAN, legs : Seq(LegId)]
Status == {"no_destination", "destination_set", "not_found", "building_graph",
           "path_done_new", "path_done_incremental"}
Stage == {"loop", "timer", "reached", "close", "build", "redraw"}

TypeOK ==
  /\ pos \in Place \cup {None}
  /\ destinations \in Seq(Street)
  /\ current_dst \in 0..Len(destinations)
  /\ vehicleprofile \in Profile
  /\ graph \in RouteGraph
  /\ path2 \in Seq(LegId)
  /\ leg \in [LegId -> RoutePath]
  /\ route_status \in Status
  /\ rect \in [Reader -> MapRect]
  /\ stage \in Stage
  /\ fault \in BOOLEAN

(* route_new, after navit_init has given the route its profile *)
Init ==
  /\ pos = None
  /\ destinations = <<>>
  /\ current_dst = 0
  /\ vehicleprofile \in Profile
  /\ graph = NoGraph
  /\ path2 = <<>>
  /\ leg = [l \in LegId |-> NoLeg]
  /\ route_status = "no_destination"
  /\ rect = [r \in Reader |-> Closed]
  /\ stage = "loop"
  /\ fault = FALSE

-----------------------------------------------------------------------------
(* The path objects.  in_use counts the owner (the route) and the map      *)
(* rectangles that stand on the leg; at 0 the struct itself is freed.      *)

(* Mutant of Held: a reader takes a leg without counting itself *)
HeldUncounted(x) == x

(* One holder more *)
Held(x) == [x EXCEPT !.in_use = @ + 1]

(* One holder less; the last one frees the struct *)
Dropped(x) == IF x.in_use = 1 THEN NoLeg ELSE [x EXCEPT !.in_use = @ - 1]

(* route_path_destroy: the segments are freed whoever stands on them *)
Destroyed(x) ==
  Dropped([x EXCEPT !.segs = FALSE, !.from = None, !.to = None])
DestroyLeg(h, l) == [h EXCEPT ![l] = Destroyed(@)]
DestroyPath(h, p) ==
  [l \in LegId |-> IF l \in ToSet(p) THEN Destroyed(h[l]) ELSE h[l]]

(* What is left of heap h when the route owns path p: a path the code      *)
(* forgets without freeing it can no longer be told from free memory.      *)
Reachable(h, p) ==
  LET held == ToSet(p) \cup UNION {ToSet(rect'[r].legs) : r \in Reader}
  IN [l \in LegId |-> IF l \in held THEN h[l] ELSE NoLeg]

Referenced == ToSet(path2) \cup UNION {ToSet(rect[r].legs) : r \in Reader}

(* Where g_new0 may place n legs: any identities nothing refers to.  The   *)
(* code never compares addresses, so that one choice stands for all; a     *)
(* step that finds LegId exhausted is not taken (bound).                   *)
Allocations(n) == {f \in [1..n -> LegId \ Referenced] : IsInjective(f)}

-----------------------------------------------------------------------------
(* The operators below speak of a route whose position, destinations and   *)
(* profile are already those after the step.                               *)

(* route_previous_destination, for the destination of index i *)
Previous(i) == IF i <= 1 THEN pos' ELSE destinations'[i - 1]

(* route_graph_flood towards destination i, on a finished graph *)
Flooded(g, i) ==
  IF g.phase = "idle"
  THEN [g EXCEPT !.flooded = <<vehicleprofile', destinations'[i]>>]
  ELSE g

(* route_path_new finds a way to destination i on a graph flooded for it *)
Connects(g, i) ==
  /\ g.phase = "idle"
  /\ Previous(i) \in g.area \ NoStreet
  /\ destinations'[i] \in g.area
  /\ g.flooded # None
  /\ g.flooded[2] = destinations'[i]
  /\ \A v \in {g.profile, g.flooded[1]} :
       <<v, Previous(i), destinations'[i]>> \in Way

(* What route_path_new makes of it *)
NewLeg(i) == [in_use |-> 1, update_required |-> 0, segs |-> TRUE,
              from |-> Previous(i), to |-> destinations'[i]]

(* The indices at which linking the legs from destination c back to the    *)
(* position breaks off; every leg but the first is tried on a new flood    *)
Gaps(g, c) ==
  {i \in 1..c : ~Connects(IF i = c THEN g ELSE Flooded(g, i), i)}

(* Mutant of IsDeferred: paths are updated whoever reads them *)
NeverDeferred(p, h) == FALSE

(* route_path_update_done returns early: a map rectangle is on the leg *)
IsDeferred(p, h) == p # <<>> /\ h[Head(p)].in_use > 1

(* Mutant of Defer: the update is dropped instead of being put off *)
DeferForgotten(g, p, h, c, new) ==
  /\ p # <<>> /\ h[Head(p)].in_use > 1
  /\ leg' = h /\ path2' = p /\ graph' = g /\ current_dst' = c
  /\ UNCHANGED <<route_status, fault>>

Defer(g, p, h, c, new) ==
  /\ IsDeferred(p, h)
  /\ leg' = [h EXCEPT ![Head(p)].update_required = 1 + new]
  /\ path2' = p
  /\ graph' = g
  /\ current_dst' = c
  /\ UNCHANGED <<route_status, fault>>

(* route_path_new would dereference a missing destination, graph or        *)
(* position; without a street it returns before it gets that far           *)
Crashes(g, c) ==
  \/ (c = 0 \/ g.phase = "none") /\ Previous(c) \notin NoStreet
  \/ pos' = None /\ Gaps(g, c) = {1}

Crash(g, p, h, c) ==
  /\ fault' = TRUE
  /\ path2' = p
  /\ leg' = h
  /\ current_dst' = c
  /\ graph' = g
  /\ UNCHANGED route_status

(* Every leg is found: the chain is linked in front of what followed the   *)
(* old head, which is destroyed.                                           *)
Relink(g, p, h, c, new) ==
  /\ c > 0
  /\ Gaps(g, c) = {}
  /\ Allocations(c) # {}
  /\ LET  ids == CHOOSE f \in Allocations(c) : TRUE
           rest == IF p = <<>> THEN <<>> ELSE Tail(p)
           kept == IF p = <<>> THEN h ELSE DestroyLeg(h, Head(p))
       IN /\ path2' = ids \o rest
          /\ leg' = [l \in LegId |->
               IF \E i \in 1..c : ids[i] = l
               THEN NewLeg(CHOOSE i \in 1..c : ids[i] = l)
               ELSE kept[l]]
  /\ current_dst' = 1
  /\ graph' = IF c = 1 THEN g ELSE Flooded(g, 1)
  /\ \/ route_status' = "path_done_new"
     \/ /\ new = 0 /\ c = 1 /\ p # <<>>
        /\ route_status' = "path_done_incremental"
  /\ UNCHANGED fault

(* The destination at which linking ends without a way.  From then on the  *)
(* legs linked so far, and the old path if the first attempt fails, are    *)
(* no longer reached from path2, and the graph stays flooded towards i.    *)
BreaksAt(g, c, i) ==
  \/ c = 0 /\ i = 0
  \/ i \in Gaps(g, c) /\ \A j \in Gaps(g, c) : j <= i

Lose(p, h, c, i) ==
  /\ path2' = <<>>
  /\ leg' = Reachable(IF i < c /\ p # <<>> THEN DestroyLeg(h, Head(p)) ELSE h,
                      <<>>)
  /\ current_dst' = i
  /\ UNCHANGED fault

-----------------------------------------------------------------------------
(* Mutant of GraphUpdate: nobody is told *)
GraphUpdateUntold ==
  /\ graph' = [phase |-> "busy", profile |-> vehicleprofile', flooded |-> None,
               area |-> {q \in Place : \E p \in {pos'} \cup ToSet(destinations') :
                                          <<p, q>> \in Near}]
  /\ UNCHANGED route_status

(* route_graph_update: start building a graph around all coordinates *)
GraphUpdate ==
  /\ graph' = [phase |-> "busy", profile |-> vehicleprofile', flooded |-> None,
               area |-> {q \in Place : \E p \in {pos'} \cup ToSet(destinations') :
                                          <<p, q>> \in Near}]
  /\ route_status' = "building_graph"

(* route_path_update_done; without a way, route_path_update rebuilds the    *)
(* graph                                                                   *)
UpdateDone(g, p, h, c, new, rebuild) ==
  \/ Defer(g, p, h, c, new)
  \/ ~IsDeferred(p, h) /\ Crashes(g, c) /\ Crash(g, p, h, c)
  \/ ~IsDeferred(p, h) /\ ~Crashes(g, c) /\ Relink(g, p, h, c, new)
  \/ /\ ~IsDeferred(p, h) /\ ~Crashes(g, c)
     /\ \E i \in 0..c :
          /\ BreaksAt(g, c, i)
          /\ Lose(p, h, c, i)
          /\ IF rebuild THEN GraphUpdate
             ELSE /\ graph' = IF i = c THEN g ELSE Flooded(g, i)
                  /\ route_status' = "not_found"

(* Mutant of DropPath: the path outlives its graph *)
KeepPath == UNCHANGED <<path2, leg>>

DropPath == path2' = <<>> /\ leg' = DestroyPath(leg, path2)

(* route_path_update(this, cancel, async) on a graph g; "status" is what   *)
(* the caller has already announced                                        *)
PathUpdate(cancel, g, c, status) ==
  LET able == pos' # None /\ destinations' # <<>>
  IN \/ /\ ~able
        /\ DropPath
        /\ graph' = g
        /\ current_dst' = c
        /\ route_status' = status
        /\ UNCHANGED fault
     \/ /\ able /\ (cancel \/ g.phase = "none")
        /\ DropPath
        /\ current_dst' = c
        /\ GraphUpdate
        /\ UNCHANGED fault
     \/ /\ able /\ ~cancel /\ g.phase = "busy"
        /\ graph' = g
        /\ current_dst' = c
        /\ route_status' = status
        /\ UNCHANGED <<path2, leg, fault>>
     \/ /\ able /\ ~cancel /\ g.phase = "idle"
        /\ UpdateDone(g, path2, leg, c, 0, TRUE)

-----------------------------------------------------------------------------
(* route_set_position: without a street nearby the position is cleared and *)
(* nothing else happens                                                    *)
RouteSetPosition(p) ==
  /\ UNCHANGED <<destinations, vehicleprofile>>
  /\ \/ /\ p \in NoStreet
        /\ pos' = None
        /\ UNCHANGED <<current_dst, graph, path2, leg, route_status, fault>>
     \/ /\ p \in Street
        /\ pos' = p
        /\ PathUpdate(FALSE, graph, current_dst, route_status)

(* Mutant of RouteSetPositionFromTracking: a vehicle that has not moved     *)
(* updates nothing                                                         *)
FromTrackingIfMoved(p) ==
  /\ UNCHANGED <<destinations, vehicleprofile>>
  /\ pos' = p
  /\ IF destinations = <<>> \/ p = pos
     THEN UNCHANGED <<current_dst, graph, path2, leg, route_status, fault>>
     ELSE PathUpdate(FALSE, graph, current_dst, route_status)

(* route_set_position_from_tracking: the position is kept off the street *)
RouteSetPositionFromTracking(p) ==
  /\ UNCHANGED <<destinations, vehicleprofile>>
  /\ pos' = p
  /\ IF destinations = <<>>
     THEN UNCHANGED <<current_dst, graph, path2, leg, route_status, fault>>
     ELSE PathUpdate(FALSE, graph, current_dst, route_status)

(* Mutant of RouteSetDestinations: a current_dst that is set is left as it *)
(* was                                                                     *)
SetDestinationsKeepCurrent(ds, dropped) ==
  /\ UNCHANGED <<pos, vehicleprofile>>
  /\ destinations' = ds
  /\ PathUpdate(TRUE, NoGraph, IF current_dst = 0 THEN Len(ds) ELSE current_dst,
                "destination_set")

(* Mutant of RouteSetDestinations: no destination becomes the current one *)
SetDestinationsNoCurrent(ds, dropped) ==
  /\ UNCHANGED <<pos, vehicleprofile>>
  /\ destinations' = ds
  /\ PathUpdate(TRUE, NoGraph, 0, "destination_set")

(* route_set_destinations: coordinates without a street are dropped *)
RouteSetDestinations(ds, dropped) ==
  /\ UNCHANGED <<pos, vehicleprofile>>
  /\ destinations' = ds
  /\ PathUpdate(TRUE, NoGraph, Len(ds),
                IF ds = <<>> /\ ~dropped THEN "no_destination"
                                         ELSE "destination_set")

-----------------------------------------------------------------------------
(* The main loop's events *)

(* What is left to do when a call that redraws the map, or the demo        *)
(* vehicle's report, has been dealt with                                   *)
Open(r) == r \in Reader /\ rect[r].open
Resume == IF Open("demo") THEN "close" ELSE "loop"
Redraw == IF Open("draw") THEN "redraw" ELSE Resume

(* navit_set_position: navit_draw, at its end, cancels a draw in progress *)
SetPosition(p) ==
  /\ ~fault /\ stage = "loop"
  /\ UNCHANGED rect
  /\ stage' = Redraw
  /\ RouteSetPosition(p)

(* navit_set_destinations; async = 0 builds the graph before it redraws *)
SetDestinations(ds, dropped, async) ==
  /\ ~fault /\ stage = "loop"
  /\ UNCHANGED rect
  /\ RouteSetDestinations(ds, dropped)
  /\ stage' = IF ~async /\ graph'.phase = "busy" THEN "build" ELSE Redraw

(* route_set_attr of the destination: no redraw *)
SetDestinationAttr(ds, dropped) ==
  /\ ~fault /\ stage = "loop"
  /\ UNCHANGED <<rect, stage>>
  /\ RouteSetDestinations(ds, dropped)

(* Mutant of SetProfile: the graph of the old profile is kept *)
SetProfileKeepGraph(v) ==
  /\ ~fault /\ stage = "loop"
  /\ v # vehicleprofile
  /\ vehicleprofile' = v
  /\ UNCHANGED <<pos, destinations, rect, stage>>
  /\ PathUpdate(FALSE, graph, current_dst, route_status)

(* route_set_profile *)
SetProfile(v) ==
  /\ ~fault /\ stage = "loop"
  /\ v # vehicleprofile
  /\ vehicleprofile' = v
  /\ UNCHANGED <<pos, destinations, rect, stage>>
  /\ PathUpdate(TRUE, graph, current_dst, route_status)

(* The call of route_graph_build_idle that reads the last item: the graph  *)
(* is finished, flooded for current_dst, and the path is made from it.     *)
BuildIdle ==
  /\ ~fault /\ stage \in {"loop", "build"}
  /\ graph.phase = "busy"
  /\ UNCHANGED <<pos, destinations, vehicleprofile, rect>>
  /\ stage' = IF stage = "build" THEN Redraw ELSE stage
  /\ IF current_dst = 0
     THEN Crash(graph, path2, leg, current_dst)
     ELSE UpdateDone(Flooded([graph EXCEPT !.phase = "idle"], current_dst),
                     path2, leg, current_dst, 1, FALSE)

(* navit_vehicle_update, up to the test whether a destination is reached *)
VehicleUpdate(p, tracking) ==
  /\ ~fault /\ stage \in {"loop", "timer"}
  /\ UNCHANGED rect
  /\ stage' = "reached"
  /\ IF tracking THEN RouteSetPositionFromTracking(p) ELSE RouteSetPosition(p)

(* Mutant of RouteRemoveWaypoint: the first leg stays *)
RemoveWaypointOnly ==
  /\ destinations' = Tail(destinations)
  /\ UNCHANGED <<pos, vehicleprofile>>
  /\ UpdateDone(Flooded(graph, 1), path2, leg, 1, 1, FALSE)

(* Mutant of RouteRemoveWaypoint: the graph is not flooded again *)
RemoveWaypointUnflooded ==
  /\ destinations' = Tail(destinations)
  /\ UNCHANGED <<pos, vehicleprofile>>
  /\ UpdateDone(graph, Tail(path2), DestroyLeg(leg, Head(path2)), 1, 1, FALSE)

(* route_remove_waypoint *)
RouteRemoveWaypoint ==
  /\ destinations' = Tail(destinations)
  /\ UNCHANGED <<pos, vehicleprofile>>
  /\ UpdateDone(Flooded(graph, 1), Tail(path2), DestroyLeg(leg, Head(path2)),
                1, 1, FALSE)

(* route_destination_reached needs a path, a position on a street and that *)
(* position to be at the next destination                                  *)
Reached ==
  /\ pos # None /\ destinations # <<>> /\ path2 # <<>>
  /\ pos = Head(destinations)

(* The rest of navit_vehicle_update *)
CheckDestination ==
  /\ ~fault /\ stage = "reached"
  /\ \/ /\ pos \in NoStreet /\ destinations # <<>> /\ path2 # <<>>
        /\ fault' = TRUE
        /\ UNCHANGED <<routeVars, rect, stage>>
     \/ /\ Reached /\ Len(destinations) > 1
        /\ UNCHANGED rect
        /\ stage' = Resume
        /\ RouteRemoveWaypoint
     \/ /\ Reached /\ Len(destinations) = 1
        /\ UNCHANGED rect
        /\ stage' = Redraw
        /\ RouteSetDestinations(<<>>, FALSE)
     \/ /\ ~Reached
        /\ ~(pos \in NoStreet /\ destinations # <<>> /\ path2 # <<>>)
        /\ stage' = Resume
        /\ UNCHANGED <<routeVars, rect, fault>>

-----------------------------------------------------------------------------
(* Map rectangles on the route map *)

(* rm_rect_new *)
RectNew(r) ==
  /\ ~rect[r].open
  /\ rect' = [rect EXCEPT ![r] = [open |-> TRUE, legs |-> path2]]
  /\ leg' = IF path2 = <<>> THEN leg
            ELSE [leg EXCEPT ![Head(path2)] = Held(@)]
  /\ UNCHANGED <<pos, destinations, current_dst, vehicleprofile, graph, path2,
                 route_status, fault>>

(* rm_get_item: within a leg it only moves on, unless the segments are     *)
(* gone; behind the last segment it takes hold of the next leg             *)
RectGetItem(r) ==
  /\ rect[r].legs # <<>>
  /\ \/ /\ ~leg[rect[r].legs[1]].segs
        /\ fault' = TRUE
        /\ UNCHANGED <<leg, rect>>
     \/ /\ Len(rect[r].legs) > 1
        /\ IF leg[rect[r].legs[2]].in_use = 0
           THEN fault' = TRUE /\ UNCHANGED <<leg, rect>>
           ELSE /\ LET h == [leg EXCEPT ![rect[r].legs[1]] = Dropped(@)]
                   IN leg' = [h EXCEPT ![rect[r].legs[2]] = Held(@)]
                /\ rect' = [rect EXCEPT ![r].legs = Tail(@)]
                /\ UNCHANGED fault
  /\ UNCHANGED <<pos, destinations, current_dst, vehicleprofile, graph, path2,
                 route_status>>

(* rm_rect_destroy: the reader that leaves the leg to its owner runs the   *)
(* update that was put off                                                 *)
RectDestroy(r) ==
  /\ rect[r].open
  /\ rect' = [rect EXCEPT ![r] = Closed]
  /\ UNCHANGED <<pos, destinations, vehicleprofile>>
  /\ IF rect[r].legs = <<>>
     THEN UNCHANGED <<current_dst, graph, path2, leg, route_status, fault>>
     ELSE LET l == Head(rect[r].legs)
              h == [leg EXCEPT ![l] = Dropped(@)]
          IN IF h[l].update_required # 0 /\ h[l].in_use = 1
             THEN UpdateDone(graph, path2, h, current_dst,
                             h[l].update_required - 1, FALSE)
             ELSE /\ leg' = Reachable(h, path2)
                  /\ UNCHANGED <<current_dst, graph, path2, route_status, fault>>

(* do_draw: the rectangle stays open from one idle call to the next; a     *)
(* redraw cancels it, also from inside the callbacks of a new path         *)
DrawOpen == ~fault /\ stage = "loop" /\ RectNew("draw") /\ UNCHANGED stage
DrawNext == ~fault /\ stage = "loop" /\ RectGetItem("draw") /\ UNCHANGED stage
DrawClose ==
  /\ ~fault /\ stage \in {"loop", "reached", "close", "redraw"}
  /\ RectDestroy("draw")
  /\ stage' = IF stage = "redraw" THEN Resume ELSE stage

(* vehicle_demo_timer: reads ahead, reports the new position from inside   *)
(* the read, then closes the rectangle                                     *)
DemoOpen == ~fault /\ stage = "loop" /\ RectNew("demo") /\ stage' = "timer"
DemoNext == ~fault /\ stage = "timer" /\ RectGetItem("demo") /\ UNCHANGED stage
DemoClose ==
  /\ ~fault /\ stage \in {"timer", "close"}
  /\ RectDestroy("demo")
  /\ stage' = "loop"

Next ==
  \/ \E p \in Untracked : SetPosition(p) \/ VehicleUpdate(p, FALSE)
  \/ \E p \in Tracked : VehicleUpdate(p, TRUE)
  \/ \E ds \in Itinerary, dropped \in {NoStreet # {}, FALSE} :
       \/ \E async \in BOOLEAN : SetDestinations(ds, dropped, async)
       \/ Len(ds) < 2 /\ SetDestinationAttr(ds, dropped)
  \/ \E v \in Profile : SetProfile(v)
  \/ BuildIdle
  \/ CheckDestination
  \/ "draw" \in Reader /\ (DrawOpen \/ DrawNext \/ DrawClose)
  \/ "demo" \in Reader /\ (DemoOpen \/ DemoNext \/ DemoClose)

Spec == Init /\ [][Next]_vars

(* Every callback returns, and the main loop comes back, again and again,  *)
(* to the point where no event is pending and the idle callbacks run.  A   *)
(* graph takes many idle calls of up to 1000 items, and a change of the    *)
(* destinations or of the profile starts it anew; a new position does not. *)
(* Only without such changes the last of these calls is certain to come.   *)
FairSpec ==
  /\ Spec
  /\ <>[][FALSE]_<<destinations, vehicleprofile>> => SF_vars(BuildIdle)
  /\ WF_vars(CheckDestination)
  /\ WF_vars(stage = "redraw" /\ DrawClose)

-----------------------------------------------------------------------------
(* Safety *)

(* Whenever there is a path there is a finished graph, flooded towards the *)
(* next destination: route_remove_waypoint, the deferred update in         *)
(* rm_rect_destroy and the graph map dereference route->graph without a    *)
(* test because of it.                                                     *)
PathNeedsGraph ==
  path2 # <<>> => /\ graph.phase = "idle"
                  /\ current_dst = 1
                  /\ graph.flooded # None
                  /\ graph.flooded[2] = Head(destinations)

(* The legs lead from waypoint to waypoint in the order of the             *)
(* destinations, without skipping one, whatever mixture of linking,        *)
(* replacing the first leg and removing waypoints produced them.           *)
VisitsInOrder ==
  /\ Len(path2) <= Len(destinations)
  /\ \A i \in 1..Len(path2) :
       /\ leg[path2[i]].to = destinations[i]
       /\ i > 1 => leg[path2[i]].from = destinations[i - 1]

(* A flooded graph leads to the destination being linked; route_set_       *)
(* destinations destroys the graph for that reason.                        *)
FloodLeadsToCurrent ==
  graph.phase = "idle" => /\ current_dst \in 1..Len(destinations)
                          /\ graph.flooded # None
                          /\ graph.flooded[2] = destinations[current_dst]

(* Unless an update was put off, the path starts at the position and was   *)
(* made on a graph selected and flooded with the current profile.          *)
PathUpToDate ==
  path2 # <<>> /\ leg[Head(path2)].update_required = 0 =>
    /\ leg[Head(path2)].from = pos
    /\ graph.profile = vehicleprofile
    /\ graph.flooded[1] = vehicleprofile

Done == route_status \in {"path_done_new", "path_done_incremental"}

(* Listeners are told that the path is done exactly while there is one     *)
StatusTellsPath == Done <=> path2 # <<>>

(* No NULL pointer and no freed memory is ever dereferenced *)
NoFault == ~fault

(* A pointer is misused in these cases only: the position is unknown, a    *)
(* vehicle off every street is compared with its destination, or a reader  *)
(* stands on a leg that the route has let go of, whose segments are gone   *)
(* or for which an update is still put off.                                *)
Stale(r) ==
  /\ rect[r].legs # <<>>
  /\ LET l == Head(rect[r].legs)
     IN l \notin ToSet(path2) /\ (~leg[l].segs \/ leg[l].update_required # 0)

FaultsOnlyThere ==
  [][~fault /\ fault' =>
       \/ pos = None
       \/ stage = "reached" /\ pos \in NoStreet
       \/ \E r \in Reader : Stale(r)]_vars

(* in_use is the number of holders: the route, and every rectangle that    *)
(* stands on the leg. Too low frees a struct in use, too high blocks       *)
(* updates for ever.                                                       *)
Stands(rs, r, l) ==
  IF r \in Reader /\ rs[r].legs # <<>> /\ Head(rs[r].legs) = l THEN 1 ELSE 0

Holders(rs, l) == 1 + Stands(rs, "draw", l) + Stands(rs, "demo", l)

InUseCounts ==
  \A i \in 1..Len(path2) : leg[path2[i]].in_use = Holders(rect, path2[i])

(* The leg under a rectangle that may read on keeps its segments *)
ReaderSafe ==
  stage = "loop" =>
    \A r \in Reader : rect[r].legs # <<>> => leg[Head(rect[r].legs)].segs

(* New positions never take the segments from under a rectangle *)
PositionSparesReaders ==
  [][stage' = "reached" /\ stage # "reached" =>
       \A r \in Reader :
         LET l == Head(rect[r].legs)
         IN rect[r].legs # <<>> /\ leg[l].segs => leg'[l].segs]_vars

(* Settled: the inputs of the route stop changing, and have a way *)
AllConnected(v) ==
  \A i \in 1..Len(destinations) :
    <<v, IF i = 1 THEN pos ELSE destinations[i - 1], destinations[i]>> \in Way

Settled ==
  /\ <>[](pos \in Street /\ destinations # <<>> /\ AllConnected(vehicleprofile))
  /\ <>[][FALSE]_<<pos, destinations, vehicleprofile>>

(* If the vehicle keeps reporting, a route whose inputs have settled gets  *)
(* its path, whatever graph was being built when they changed.             *)
Recovers ==
  /\ Settled
  /\ []<><<\E p \in Tracked : VehicleUpdate(p, TRUE)>>_vars
  => []<>Done

=============================================================================
