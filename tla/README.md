# Navit: specifications of routing, guidance and what is kept on disk

TLA+ modules that model the logic of Navit: the route (`route.c` and the code
that drives it), the search in the routing graph and the building of that
graph, the guidance along the route (`navigation.c`), the cache of map blocks
(`cache.c`), the bookmarks and the track logs. TLC runs check them on small
instances, TLAPS proves theorems about each of them for all values of the
constants. File names without a directory are in `src/navit/navit/`.

## The system

Navit is a single-threaded program around a main loop (`event.c`,
`event_glib.c`): vehicle reports, timers, idle callbacks and user commands are
callbacks run one after the other. Long work (building the routing graph,
drawing the map) is cut into pieces run from idle callbacks, so that other
callbacks run in between; that, and callbacks called from inside callbacks, is
where its concurrency comes from. What is on disk is written without locks and
may be cut off at any step. There is no unit test of any of it in the
repository.

| Component | State it keeps | Operations | What makes it correct | Module |
|---|---|---|---|---|
| route, life cycle (`route.c`) | position, destinations, current destination, profile, graph, legs of the path, status | set position, destinations, profile; remove waypoint; build graph in idle time; update path | graph, flood, legs and status belong together; nothing freed is read; a path comes in the end | `Route` |
| route, search (`route.c`, `fib-1.1/`) | cost and next segment of every graph point, heap | flood, make a path | least costs; a path arrives and has the cost it was chosen for | `RouteSearch` |
| route, graph (`route.c`) | points, segments | add streets, distortions; resolve turn restrictions | exactly the permitted turns are possible | `RouteGraph` |
| route map, graph map (`route.c`) | open rectangles | open, next item, close | a reader never stands on freed segments | `Route` |
| navit (`navit.c`) | vehicles, profile, the flags of pending draws | vehicle update, set destination, draw | the route is told every change, once | `Route` |
| graphics (`graphics.c`) | display list, draw in progress | draw in pieces, cancel | a cancelled draw leaves nothing open | `Route` |
| demo vehicle (`vehicle/demo/`) | its position | timer | reads the path and moves the position from inside the read | `Route` |
| navigation (`navigation.c`) | items, commands, last announcement level, delay | update on status, call callbacks | no announcement is lost or said twice | `Navigation` |
| cache (`cache.c`, `file.c`) | four lists, target, use counts | lookup, insert, release, flush | bounded, never evicts what is in use | `Cache`, `Lending` |
| bookmarks (`bookmarks.c`) | tree of entries, clipboard, file and working file | add, cut, copy, paste, rename, delete, store | at most one name is lost each time the program is killed | `Bookmarks` |
| log (`log.c`, `vehicle.c`) | buffer, file, position in it | write, flush, change file | header once, a trailer for each program that ended, nothing that was written is lost | `Log` |
| tracking (`track.c`) | lines around the vehicle, current line | update | the position is on the likeliest street | |
| callbacks (`callback.c`), attributes (`attr.c`) | lists of callbacks | add, remove, call | each is called once, also if the list changes meanwhile | |
| event loop (`event.c`, `event_glib.c`) | timeouts, idle events | add, remove, run | nothing fires after its removal | |
| messages (`messages.c`) | list of messages | add, delete, expire | newest first, bounded in number and age | |
| maps (`mapset.c`, `map.c`, `map/*`) | map data | iterate items | file formats | |
| search, vehicles, speech, command, xmlconfig | | | parsing and queries | |
| gui, osd, bindings, maptool, android, overlay renderer | | | presentation, interfaces, tools | |

How they interact: a vehicle calls `navit_vehicle_update`, which calls the
route (`route_set_position...`), then asks `route_destination_reached` and
removes a waypoint or the destination. The route builds its graph from idle
callbacks (reading the maps through the cache), floods it, makes the legs of
the path and announces `route_status` to its listeners: navigation reads the
path and speaks, navit redraws. Drawing code and the demo vehicle read the
path through map rectangles, which keep a leg from being updated by counting
`in_use`. The vehicle also writes its track logs; the user's bookmarks become
destinations.

The modules are composed along these calls, not by one module of everything:
`Route` announces the statuses that are the actions of `Navigation`
(`route_status_path_done_new` and `_incremental`, `no_destination`); what
`RouteGraph` builds is what `RouteSearch` floods (its instance is a block with
a restriction resolved the way `RouteGraph` does it), and what `RouteSearch`
promises of paths of one flood, that they follow the same pointers, is the
assumption `EachStreetOnce` under which `Navigation` works.

`PROJECT.json` lists, under "hazards", what is hard to test in this code, line
by line, with the properties that cover it or the reason why none does.

## Modules

| Module | What it is |
|---|---|
| `Route` | life cycle of `struct route`, with the vehicle, the user and the readers of the path |
| `MCRoute` | places, ways and profiles of the small instances |
| `RouteProofs` | types, the inductive invariant of `Route` and the safety theorems; that path, status and profile agree, what readers are spared, and where pointers are misused |
| `RouteSearch` | `route_graph_flood` and `route_path_new` on a finished graph |
| `MCRouteSearch` | a street network |
| `RouteSearchProofs` | what the flood has dealt with stays, no segment is cheaper than the ones it chose, and a path arrives and costs what was expected |
| `RouteGraph` | reading the maps' items into a graph and resolving turn restrictions |
| `MCRouteGraph` | a street network |
| `RouteGraphProofs` | points and segments fit together, no street is there twice, copies are hardly longer, the turns are the allowed ones |
| `Navigation` | items, commands and announcements along changing paths |
| `MCNavigation` | a small town |
| `NavigationProofs` | items follow the path, commands are those ahead; nothing is said twice or too late |
| `Lending` | abstract: what a cache promises to its callers |
| `Cache` | the adaptive replacement cache that implements it |
| `MCCache` | block sizes |
| `CacheProofs` | lists, hash table, sizes and use counts agree, room is made, and the refinement |
| `Bookmarks` | the tree of bookmarks and its file, with a program that is killed |
| `MCBookmarks` | symmetry of the names |
| `BookmarksProofs` | what a kill can cost, and operations do what they are asked |
| `Log` | buffer and file of the track logs, with a program that is killed |
| `MCLog` | extends `Log` |
| `LogProofs` | what was logged stays |
| `LogFilesProofs` | and can be read: header, trailer and order |

Definitions called "Mutant of ..." are plausible slips of the code; nothing
uses them, they are there to see that each property of a run can fail.

Loops of the code over a list are recursive functions in the modules
(`f[n \in 0..Len(s)]`: the state after n rounds), which TLC evaluates and the
provers can reason about.

### Route

One variable per field of `struct route` (`pos`, `destinations`, `current_dst`,
`vehicleprofile`, `graph`, `path2`, `route_status`), the heap objects `leg`
(`struct route_path`), the readers' rectangles `rect`, `stage` (how far a
callback has come that called foreign code in its middle) and `fault` (a NULL
or freed pointer was dereferenced; nothing happens after that).

| Action | Code |
|---|---|
| `SetPosition` | `navit_set_position`, `route_set_position` |
| `VehicleUpdate`, `CheckDestination` | `navit_vehicle_update` before and from `route_destination_reached` on, with `route_set_position_from_tracking`, `route_remove_waypoint` |
| `SetDestinations`, `SetDestinationAttr` | `navit_set_destinations`, `route_set_attr`, both `route_set_destinations` |
| `SetProfile` | `route_set_profile` |
| `BuildIdle` | the last `route_graph_build_idle` of a graph, `route_graph_flood`, `route_path_update_done` |
| `DrawOpen/Next/Close` | `do_draw`: `rm_rect_new`, `rm_get_item`, `rm_rect_destroy`; also the cancelling of a draw by `navit_draw` |
| `DemoOpen/Next/Close` | `vehicle_demo_timer` |

`PathUpdate` is `route_path_update`, `UpdateDone` is `route_path_update_done`
with all its recursion through `route_graph_flood_done_cb`: when it succeeds
for the last destination it floods for the one before and starts again with
`link_path` set, until it reaches the position. None of these rounds returns
to the main loop, so the module gives their outcome at once: `Relink` when
every leg is found, `Lose` at the first (`BreaksAt`) that is not, `Defer` when
somebody reads the first leg. The attribute `link_path` is therefore 0 at
every state.

Abstractions: a place is a coordinate with its nearest street; `Near` says
which streets a graph selected around a coordinate holds, `Way` between which
streets a profile has a way (`RouteSearch` looks inside). A graph remembers the
profile it was built and flooded with. A leg remembers the places it leads
between and whether its segments are still there. The code leaks legs in
`Lose` (the legs already linked) and when a detached rectangle takes the last
hold; the model treats what nothing refers to any more as free memory. Reading
within a leg is one step that only looks at its segments. The path of a status
that is announced and overtaken within one callback is not kept.

Assumptions on the environment: a tracked position may be off the street
(`Tracked` and `NoStreet`), an untracked one is looked up by
`route_find_nearest_street`; an itinerary has at most `MaxDestinations` stops
(bound); at most `LegId` legs live at a time (bound, large enough that it is
not reached: `RouteCore` and `RouteReaders` have exactly the same states with
more of them).

### RouteSearch

`Seed` and `Extract` are the two loops of `route_graph_flood`, `Depart` and
`Follow` the beginning and the loop of `route_path_new`. A segment has a cost
for each direction, or `Infinity` (INT_MAX): profile, one-way flags, speeds,
restrictions and distortions (`route_value_seg`, `route_time_seg`) end up in
that number. Every segment has numbers of its own, also the clones made for a
turn restriction: their new point is made without `RP_TRAFFIC_DISTORTION`
(`route.c:1143`), so that a distortion which slows the original down leaves the
clone alone, and the clone may be the cheaper one though it is longer. Not in
the number are the ban on turning round and the penalty of through traffic
limits, which depend on the search and are modelled. `Added` orders the
segments as the lists of the graph do (the newest first). The Fibonacci heap is
modelled by what it returns: an entry with the least key, any of them on a tie.
Entries that their point no longer refers to (`live`) stay in it, as in the
code, where several segments of the destination's street may end at one point.

Such segments are entered one after the other and the last one decides, also
when it costs more (`route.c:2044-2054`). `Undistorted` says that it does not:
without a lost distortion on the street of the destination the last one, its
original, is the shortest. `ValueIsCost` and `OnCourse` are about that case;
`LeastCost` is about all, and says for the street of the destination no more
than the code does, that no segment *entered last* is cheaper. What is not so
with a lost distortion is shown by `RouteSearchSeeds`.

### RouteGraph

The state is the graph under construction (`graph`: points and segments in the
order they were made, from which the lists of a point follow, newest first),
the items the maps have not given yet (`unread`) or may give a second time
(`again`), and the points with a turn restriction that are still to be
resolved.

| Action | Code |
|---|---|
| `Read` | one round of `route_graph_build_idle`: `route_process_street_graph`, `route_process_traffic_distortion`, `route_process_turn_restriction` |
| `BuildDone` | `route_graph_build_done` up to `route_graph_process_restrictions` |
| `Resolve` | `route_graph_process_restriction_point` for one point |

`BuildDone` and the rounds of `Resolve` are one call in the code; they are
steps so that TLC tries every order, since the points stand in the order of a
hash table of addresses and the items in that of the maps' tiles.
`ProcessSegment` copies a segment as the code does while the two lists it
walks grow at their heads: the loops (`OverSegments`) see the lists as they
were, the latest segment first.

Of the code this leaves out: items that become several segments
(`AF_SEGMENTED`), the selections of tiles, and restrictions with four
coordinates (a way over two points), which the code drops.

The property compares what the graph lets one drive with what the maps say,
three streets at a time: two would not show how copies of neighbouring
restricted points are joined. It does not speak of ways that start at a
restricted point, where the copy that stands for the way one has come is
unknown.

### Navigation

`path` is what the route map shows; `itm`, `hash` and `cmd` are the lists and
the hash table of `struct navigation`, the other variables its fields.
`heard` and `said` remember what was spoken.

| Action | Code |
|---|---|
| `New` | `navigation_update` for `route_status_path_done_new`: flush, items, manoeuvres, callbacks |
| `Incremental` (`Follow`, `StartAnew`) | the same for `route_status_path_done_incremental`: the street is found and what lies before it is removed (`navigation_destroy_itms_cmds`), or everything is made anew |
| `Flush` | `navigation_flush` for no destination and not found |

Each comes to `CallCallbacks` (`navigation_call_callbacks`) with its three
cases: to say that one has to turn round, to guide, or not to decide yet. When
it speaks, `Outcomes` says which commands `show_next_maneuvers` may join to
the first and which one makes the text too long, whatever the texts are.

Constants stand for `maneuver_required2` (geometry), the announce distances,
speeds and roundabouts. Time is what `speed_distance` makes of it. A path is
one of those of the latest flood: where two paths of a flood meet they go on
together (`EachStreetOnce`; `RouteSearch` shows why, the segments to follow
belong to the points). It excludes a street with a waypoint in its middle, of
which the hash table knows the last part only. Items of off-road lines and of
streets that cannot be read are left out.

### Lending and Cache

`Lending` is the promise: a block that is lent stays in memory until it has
been given back or is discarded. `Cache` is the adaptive replacement cache as
`file.c` uses it; `mem` holds the lists `t1`, `b1`, `t2`, `b2` with their
sizes and the hash table. `Promise == INSTANCE Lending WITH cached <- Resident`
is the refinement mapping, checked by TLC and proved.

| Action | Code |
|---|---|
| `Read` | `file_data_read`: `cache_lookup`, and for a block that is not there `cache_insert` (`Hit`, `Ghost`, `Miss`) |
| `ReadFails` | the same for a block the file ends before |
| `Return` | `file_data_free`: `cache_entry_destroy` |
| `DataRemove`, `Flush` | `file_data_remove`, `file_data_flush` (also before `file_data_write`): `cache_flush_data`, `cache_flush` |

`cache_lookup` leaves the list for the next insertion in the cache itself; as
both calls come right after each other in every caller, one action stands for
both. The pointers that callers hold are handles; one whose block is discarded
becomes invalid and is not used again, except to be forgotten. That a caller
gives back a pointer after its block was flushed is left out:
`cache_entry_destroy` would decrement a word of memory that was freed
(`cache.c:205`), and what that hits depends on the allocator. Only the download
code of `map/binfile` flushes at all, between reads of its own.

### Bookmarks

The tree is the list of entries with their full names (the code's tree, its
hash table and `current` are all found from the names); `file` and `work` are
`bookmark.txt` and the working file, `pc` the step of the operation in
progress.

| Action | Code |
|---|---|
| `AddBookmark`, `DeleteBookmark`, `RenameBookmark`, `CutBookmark`, `CopyBookmark`, `PasteBookmark` | the `bookmarks_*_bookmark` functions up to the opening of the working file |
| `MoveRoot`, `MoveUp`, `MoveDown` | the functions of the same names |
| `Store`, `Unlink`, `Rename` | the rest of `bookmarks_store_bookmarks_to_file`, with `bookmarks_clear_hash` and `bookmarks_load_hash` after the last |
| `Kill`, `Restart` | the end of the program at any step, some lines and a part of the next one written (`CutOff`); `bookmarks_new` |

`names` is what the user knows to be there, `stray` what a killed program has
left in the working file. The lines go through a buffer that is written when it
is full, so that a kill leaves whole lines and mostly a part of one (`part`).
The next operation opens the working file with "a+" and goes on in that part.
`Joined` is what the line becomes when it is read again (`textfile.c`,
`attr.c`): nothing, when it has no known type; or an entry with the type and
the coordinates of the first, under the name of the second or under a name in
which the first is cut and the second begins (`Garble`: some of the folders of
the first, a label in which the lines meet, `Garbled`, and what follows the
first folder of the second). The second line is then no entry of its own: its
name is `swallowed`. A line is taken to fit into the 512 characters that
`textfile.c` reads at a time, a garbled label stands for all of them, and the
user does not type one. A file can always be opened.

### Log

A file is a sequence of cells: header, the two halves of the trailer, a
record, the length word of a binfile item. `log` is `struct log`, `pending`
the `log_write` in progress. Of the four types, gpx has a header
and a trailer, textfile a header, nmea and binfile neither, and the items of
binfile have a length in front.

| Action | Code |
|---|---|
| `LogLine` | `vehicle_log_gpx`, `vehicle_log_nmea`, `vehicle_log_textfile` |
| `LogPoint`, `LogPointAgain` | a round of the loop of `vehicle_log_binfile`; which points `transform_douglas_peucker` keeps is open |
| `WriteChange`, `WriteBuffer`, `WriteFlush` | `log_write`: `log_change`, the buffer, `log_flush` |
| `Timer`, `Destroy` | `log_timer`, `log_destroy` |
| `Tick`, `Kill`, `KillInFlush`, `Restart` | the clock in the file's name; the end of the program, in the middle of a flush with some cells written or the file just cut; `log_new` |

## Runs

| Run | Instance | States | What it shows |
|---|---|---|---|
| `RouteCore` | places, two profiles, itineraries, no readers, fair scheduling | 13,585 | with no reader, all safety properties, `NoFault` too, as its untracked positions have a street; a settled route gets its path |
| `RouteReaders` | the draw and the demo vehicle read, tracked positions on and off the streets | 77,300 | legs in order, holders counted, position updates put off, and when a step misuses a pointer |
| `RouteSearch` | the block of three streets with a resolved restriction, every combination of costs 0, 8 and blocked for originals and clones | 81,252 | costs are explained and least, arrival, termination |
| `RouteGraph` | five items, two neighbouring restrictions of both kinds, a one-way street, one street given twice | 50,643 | exactly the allowed ways, in every order of reading and resolving |
| `Cache` | four blocks of two sizes, two pointers, room for five units | 609,001 | lists, sizes and use counts; `Lending` is implemented; room is made |
| `Navigation` | a town with two floods, with and without a delay | 40,842 | items and commands match the path; announcements come in time and not twice |
| `Bookmarks` | two names, two levels, two kills, anywhere in a line | 6,231,557 | at most one name is lost for each kill, each operation does what it is asked |
| `Log` | four types with every configuration, five records, two names of the clock, two ends of the program | 775,597 | files are well-formed; what was written stays |
| `RouteInUse`, `RouteNoStreet`, `RouteSearchSeeds`, `NavigationTold` | small | | what the code says of itself and does not do, see below |

Bounds. In `Route` two or three places are enough for a position, a waypoint
and a destination to be pairwise different, and for a way to be missing between
two of them for one profile; two destinations make linking take a second flood,
and with it everything that can go wrong half way (`RouteCore` has three, so
that one waypoint can be passed and another still lie ahead). One reader that
stays over idle calls and one that calls back into the route are the two kinds
there are. In `RouteReaders` they meet tracked positions off every street; the
remaining case of a misused pointer, that the position is unknown, is what
`RouteNoStreet` shows. In `RouteSearch` five points, three of them at one
crossing, give points with several entries in the heap, values that are
improved after they were entered, ties, a way round the block and a U-turn;
cost 0 is what a short street rounds to, and a single percentage puts position
and destination of one street at one place. In `RouteGraph` the two restricted
points are the ends of one street, so that copies are copied again; more
restrictions at one point multiply the copies but meet the same loops. In
`Cache` large and small blocks make one insertion push out less or more than it
needs, and two pointers of one block or two blocks pin either list as a whole;
lists that weigh twice the size of the cache do not occur with four blocks,
only in the theorems. In `Navigation` there is a street driven in both
directions (the waypoint's lane), a roundabout, a street two paths take in
opposite directions, and distances in which all four levels occur. In
`Bookmarks` two entries in the list (`MaxEntries`, before folders that loading
adds) give a folder with a place, a name that is there twice and a folder
without an entry; two kills let the second meet what the first has left, also a
part of a line that it continues. In `Log` five records fill a binfile item,
simplify it, and begin the next one (`limit` 3), and overflow the buffer of
text records twice. `MaxDestinations`, `MaxEntries`, `MaxDepth`, `MaxKills`,
`MaxRecords` and `MaxNow` are the bounds that the guards of the modules state;
the number of legs (`LegId`) is never reached.

Fairness. `FairSpec` of `Route` assumes that a callback in progress goes on to
its end, and that the main loop comes back to its idle callbacks. A graph takes
many of those, of up to 1000 items each, and a change of the destinations or of
the profile begins a new graph: only when such changes have come to an end is
the last idle call of a build (`BuildIdle`) certain, so its strong fairness is
assumed under that premise alone (strong, since a foreign callback may be in
progress whenever another event comes first; positions do not restart a build).
That vehicles report is not assumed but a premise of `Recovers`. In
`RouteSearch` both loops run to their end within one call, so weak fairness of
`Next` says no more than that the processor goes on. `RouteGraph`, `Cache`,
`Navigation`, `Bookmarks` and `Log` state no fairness: what happens next there
is up to maps, vehicle or user.

`CHECK_DEADLOCK FALSE` stands where the system may stop: a finished graph or
search, a program that faulted or found all destinations passed. The other
modules never stop.

`Recovers` is worth its run because `route_path_update` throws a position away
while a graph is being built: only later reports repair that. `MakesRoom` says
what the size of a cache means when some of it is in use. `InTime` says that
no level is missed, which depends on the last level, the last item, the delay
and the turn-around counter of all earlier updates. `OneLostPerKill` and
`RecordsKept` need that the bookmarks' working file is opened to append and
that a log flushes before it changes its file: both look like accidents and
are what makes them hold.

### What the code does otherwise than it says

* `RouteInUse`: "The path is in use and can not be updated" (`route.c:212`),
  but a new destination or profile frees its segments under a reader.
* `RouteNoStreet`: "If there is no nearest street, bail out" (`route.c:836`)
  leaves the building of the graph going, which ends in a dereference of the
  position.
* `RouteSearchSeeds`: `seg` is to lead to the destination "at least costs"
  (`route.c:91`), but of several segments of the destination's street at one
  point the last one is kept, and where a clone has lost the distortion of its
  original that one costs more.
* `NavigationTold`: `told` "indicates if this item's announcement has been told
  earlier" (`navigation.c:267`), but a manoeuvre that was cut off a joined
  announcement is marked, too, and is then never announced when it is close.

Read off the code while it was modelled, without a run of their own:

* Route: after linking has failed at a waypoint, a later position makes a path
  that ends at that waypoint, announced as done (`route.c:746`), and the legs
  already linked are leaked (`route.c:745`). A reader that moves on to the
  next leg does not make the update that was put off (`route.c:3358`), though
  the comment at `route.c:213` says it is needed.
* Search: where a distortion was lost, a point is also taken out of the heap
  early, and others get values over it before its way changes to one on which
  the through traffic penalty is due: those values are then not "the stated
  costs" of `route.c:2025`. The ban on turning round also forbids going
  straight on between two segments of one item, as some map formats have them
  (`route.c:2068`). There is no route when position and destination are on the
  same one-way street with the destination ahead (`route.c:2261`).
* Graph: copies of points lose the mark of a traffic distortion (which is what
  `RouteSearchSeeds` comes from); pedestrian
  profiles disregard the one-way flags by which copies are told apart. One
  cannot depart from a restricted point on a street from which no turn is
  allowed there. A street that ends where it starts is copied more often.
* Navigation: a flush leaves the last level and the last item; a new route with
  the same next manoeuvre begins without an announcement. Guidance starts only
  when `turn_around` has come down to its lower limit.
* Cache: a block whose read failed stays in the cache, so that a later lookup
  returns it (`file.c:370`). Compressed and encrypted blocks that cannot be read
  are given to `g_free` though they lie inside an entry (`file.c:559`).
* Bookmarks: after a kill between `unlink` and `rename` they are not shown
  until the next change, which brings them back and may double names. A program
  killed while it writes mostly leaves a part of a line; the next change
  appends to it, and one name is lost or garbled. Deleting a folder keeps what
  is in it. Pasting a copied folder with children frees these twice
  (`asked.twice` in the model). A full disk is not noticed, and a working file
  that cannot be opened leaves a list that has been freed.
* Log: a gpx log without a number in its name that is opened again has its
  trailer in the middle (`IsGpx` allows one for each program that ended);
  killed between cutting and rewriting, a binfile log loses its last item; the
  loop of `vehicle_log_binfile` has no end while a log cannot be opened; one
  write of more than 16384 bytes outgrows the buffer.
* Elsewhere: the element of a callback list is freed while the list is walked
  (`callback.c:220`), `callback_set_arg` takes an index one too large
  (`callback.c:103`), a single-shot timeout is freed after its callback, which
  may have freed it (`event_glib.c:100`).

## Proofs

Assumptions are those on constants that the modules state and TLC evaluates on
every run (`RouteAssumption`, `SearchAssumption`, `GraphAssumption`,
`CacheAssumption`, `NavigationAssumption`, `BookmarksAssumption`,
`LogAssumption`: the constants are of the right kinds, handles are finitely
many, `None` is none of them; `NoneAssumption`: nor is it a list of entries).
Four hypotheses of some theorems come on top, each evaluated by TLC for the
instance of the run as well: `StreetsKnown` for `UpToDate` and `StatusTrue` of
`Route`, `EachStreetOnce` for `ItemsFollowPath` alone, and
`StreetsAreSimple` for `FloodCheapest` alone: a street is one
segment and its clones, and no ring. Streets without `AF_SEGMENTED` that do
not end where they start satisfy it; for others the flood does not find the
least cost, since it never goes from a segment to one of the same item.
`PlainNetwork` is for `WaysAreAllowedWays` of `RouteGraph`: no street is a ring,
and the three coordinates of a restriction are different. The second is needed:
a restriction from a over b back to a also has a segment that ends at a and one
that starts there, so that `is_turn_allowed` applies it at a as well, once
another restriction makes a point to resolve; TLC finds the property violated by
such a network. The first is what the proof rests on, which tells the segments
that lead to a copied point from those that leave it by the street they stand
for; a ring is both, and no network tried with one violates the property.

`RouteProofs` proves `TypeCorrect == Spec => []TypeOK` with a lemma for each
operation, and that `Sound` is inductive. `TypeOK` and the
properties are not: that the path is in order after `route_remove_waypoint`
needs that the graph was flooded for the next destination, that needs that a
path implies a finished graph, and both need that no reader's bookkeeping
frees a leg of the path. `Sound` says so together:

* `FloodOK`: a finished graph is flooded for `current_dst`, and only then can
  there be a path, with `current_dst` the first destination;
* `OwnerOK` and `LinkedOK`: the legs of the path are different objects, each
  leading from the stop before it to its own;
* `HeldOK`: `in_use` counts the route and the rectangles on the leg; closed
  rectangles hold nothing.

`PathSound` (`[]Sound`) then gives `FloodCorrect`, `GraphPresent`, `OrderKept`
and `HoldersCounted`, the invariants `FloodLeadsToCurrent`, `PathNeedsGraph`,
`VisitsInOrder` and `InUseCounts` of the runs, for any places, ways, profiles,
readers and number of destinations.

The rest builds on it. `ReadersSpared` (`PositionSparesReaders`) is
a step from `Sound`: a position update that frees the first leg found nobody
but the route on it, by `HeldOK`, and no other leg is freed. `UpToDate`
(`PathUpToDate`) and `StatusTrue` (`StatusTellsPath`) need `Fresh`: the graph,
too, has the current profile, the status agrees with the path, and there is no
graph without a position and a destination. They assume `StreetsKnown`, that a
position set without tracking has a street; the code does not check it, and
`RouteNoStreet` shows what follows when it is false.

`FaultsExplained` (`FaultsOnlyThere`) is about the cases in which the code does
misuse a pointer, and assumes nothing of readers or streets: a step does so
only when the position is unknown, when a vehicle off every street is compared
with its destination, or when a reader stands on a leg that the route has let
go of and that is empty or waits for its update. The reader keeps its pointer
over idle calls, so its invariant is about the legs it still has before it
(`Calm`): from each one that has its segments they are the end of the path, or
legs the route has forgotten with nobody counted twice (`Readable`, `Steady`);
and a graph is only built or finished for a destination (`Aimed`).
`ReadingSafe` and `ClosingSafe` are the two steps at which that is used.

`RouteSearchProofs` proves `PermanentAlways` (`Permanent`) for any graph, costs,
restrictions and destination. Dijkstra's argument, that the entry taken out is
the cost of its point, fails here: where several segments of the destination's
street end at one point, `route_graph_point.el` is overwritten while the graph
is seeded, the entry of the first value stays in the heap, and the point is
taken out with a key that is not its value. `Ordered`, the inductive part of
`SearchOrdered`, speaks of values instead: a point whose current value has no
entry (`Final`) costs no more than any entry and improves no other point, so
that a stale entry finds nothing to do, or finds a point that is still to come.

That the path arrives (`SearchArrives`) is a fact about the segments stored at
the points: they must not lead in a circle, also where costs are 0. `Shape`
says that values fall along them, strictly or towards a point that was dealt
with earlier (`FlowsDown`), from which `NoLoop` follows by taking a least
value; `Walking` says that the path follows them and which points are left.
`SearchTyped` is a consequence, since the sum that becomes `estimate` starts
with `INT_MAX` and only falls.

`FloodExplained` (`ValueIsCost`) is about graphs in which no distortion was
lost on the destination's street (`Undistorted`). There `Costs` is kept: the
newest segment of the street decides (`NewestFirst`, `Seeded`), keys are never
below values (`KeysAbove`), and each value is the cost of its segment and the
value at the other end, or of the part of the destination's street
(`Explained`). `KeysAbove` is what fails elsewhere, and with it `StatedCosts`.
`FloodCheapest` (`LeastCost`) does without: when the flood is done every value
has been dealt with (`Ordered`), so no segment improves any, and `LastCounts`
keeps a value at or below that of the segment entered last. `PathOnCourse`
(`OnCourse`) compares two sums of which one loses at its front what the other
gains at its end; the sum is a recursive function, and what is needed of it is
again shown by a least index at which it fails. It, too, is about
`Undistorted`, since the cost a path was chosen for comes from the values.

`RouteGraphProofs` proves `TypesHold` (`TypeOK`), `OnceOnly` (`NothingTwice`),
`HardlyLonger` (`CopiesBarelyLonger`) and `AllowedWays`
(`WaysAreAllowedWays`). `Sound` holds for each intermediate
graph of the nested loops: a segment of a street lies between points at its
ends, no two are twins, and it is longer than its street by no more than one
for each end that is a copy of a restricted point (`Copied`). `LeaveRound` is
one round of the inner loops: a copy of a segment has the new point at one end,
where only copies made in this call can be, and `Left` remembers of which
segments these are. `Left` says so exactly, also that each segment on which the
turn is allowed has its copy. `Fresh` is what holds while items are read: there
is one point for each coordinate, so that `route_graph_segment_is_duplicate`
finds what was read before.

For `AllowedWays` the graph is seen as ways (`Way`): street, direction, and the
points it leads from and to. `TurnIs` says that `is_turn_allowed` answers what
the maps say (`Permitted`) once the restrictions stand where they belong
(`Restr`). `OneCopied` says what a call of
`route_graph_process_restriction_segment` does to the ways: those over the
segment also lead to the new point, which one leaves exactly by the allowed
turns. `Grown` is kept by the loops over all segments of a point: each new way
is an old one with the point replaced by a copy of it, and everyone who came to
the point comes to a copy (`Came`). The invariant `Resolving`, for the points
that are still open, then has two halves: at points that are not to be resolved
no two ways meet whose turn is not permitted (`TurnsLegal`), and where one turn
is permitted a way goes on to a point that is open or can be left
(`TurnsKept`, `OutOf`). The second half is where neighbouring restricted points
matter: a way into an open point may end dead when that point is resolved, but
then a copy of the way leads to one of the copies. `Gathered` is the invariant
of reading: streets have the flags of the maps, and each restriction that was
read leads over a marked point.

`LogProofs` proves `NothingLoggedIsLost` (`RecordsKept`) for every type of log,
every configuration, size of the buffer and number of kills. That each record is
somewhere is not inductive: what lies behind `log->fpos` is written over by the
next flush and cut by the next kill. `IInv` (`RecordsSecure`) therefore counts
a record as kept (`Covered`) only in front of that pointer, in another file, or
in the buffer (`Kept`), and adds that a binfile log, which alone takes records
back from its buffer, gives them again with the next write (`Collecting`). Each
of `log_open`, `log_flush`, `log_close`, `log_change` and `log_new` has a lemma
of what it keeps. `ChangeKeeps` is where it matters that the name of the new
file has another time than the old one: opened with "w" it would otherwise
lose what has just been flushed.

`LogFilesProofs` proves `FilesStayWhole` (`FilesAreWhole`): a file no crash has
torn begins with its header, ends with its trailer and has its records in
order. The form of a file is not kept by the single writes of a flush, so
`FilesSorted` describes a file as a front, up to the pointer, the buffer and
the trailer; trailers in the middle are counted by the programs that ended. A
flush writes over everything behind the pointer (`Over`), since
the new data with its trailer is not shorter than the old trailer; the front
has the form of a file without its end; and every record of the front comes
before those of the buffer, and these before the one that is being written
(`Precedes`). A file opened anew has a new name because the clock only goes on
(`Dated`), so its front is empty.

`CacheProofs` proves for any blocks, sizes and pointers that the lists match
the hash table (`ListsAlwaysMatchHash`), that use counts count
(`UsageAlwaysCounts`) and that `Cache` implements `Lending`
(`KeepsPromiseAlways`). Within one operation a block is off every list and
still known to the hash table, so the lemmas about lists are stated with
`Sound(m, x)`: the lists of `m` are disjoint and without repetition, and the
table knows what is on them and the blocks `x` that have just been taken off.
Each list operation has a lemma of this form (`Removed`, `LruRemoved`,
`Inserted`, ...); `Spares` says that evicting leaves alone what is used. The
invariant `IInv` is `Sound(mem, {})` with `UsageCounts` and the types of use
counts and pointers; the step of the refinement needs both, as a block is
spared because its count is not 0.

`SizesAlwaysAddUp` (`SizesAddUp`), `TypesAlwaysOK` and `AlwaysMakesRoom`
(`MakesRoom`) carry the sums over the lists through the same operations:
`Sized` says that `list->size` is the sum of the sizes of its blocks (`HasSum`,
which is additive for concatenation), one lemma for each operation that moves a
block. It is needed for the types, too: `t1_target` is changed by a quotient of
two sizes, and the divisor is not 0 because the ghost that was found lies on
that list. `Evicts` says that a full cache gives something up unless all it
could give up is in use.

`NavigationProofs` proves that items follow the path for any streets, paths and
number of updates (`ItemsFollowPath`). `FollowsPath` is not inductive: what is
kept by the next update is found through the hash table, so `IInv` adds
`HashMatches` (behind each street there is one item of it) and that the path
belongs to the flood. `CommandsAlwaysAhead` (`CommandsLieAhead`) needs `CInv`:
the commands are those of the items still ahead, in their order, so that taking
commands off the head until one is ahead removes exactly those of the items
that were passed. `NothingIsSaidTwice` needs `TInv`: without a delay the latest
announcement of a turn was about `item_last`, at `level_last`. `AlwaysInTime`
(`InTime`) adds `LInv`: the level stored belongs to the next manoeuvre, and is
the one its distance calls for or a nearer one. `TypesKept` (`TypeOK`) is
`YInv`.

`BookmarksProofs` proves `TypesStay` (`TypeOK`), `LostOnlyTorn`
(`OneLostPerKill`) and `DoneAsAsked` (`AsAsked`) for all labels, depths, sizes
and numbers of kills, wherever in a line they come. Two lemmas turn lists into
sets of names: loading a file gives its names and the folders they lie in, each
after its own folders (`LoadAdds`), and the lines of a list have the names of
the list (`LinesKeep`). `AppendedTells`, `AppendedKeeps` and `CutOffKeeps` say
the same of lines that are appended to a part of one: all names but the first
are there, and what is new is garbled (`GarbledAre`, `JoinedIs`). `Inv` then
says where what the user keeps is: between operations the list is what loading
the file gives; while the list is being stored it is in the file, or, when
there is none, in the working file or swallowed; from `unlink` on in the
working file or swallowed. `Counted` gives each part of a line and each
swallowed name a kill of its own, as a part turns into a swallowed name only by
being continued. Names that nobody asked for are among those a killed program
has left there (`stray`), or garbled with no other folders than those
(`Garbles`). That a second change after a kill brings back what only the
working file had is the step where this is needed.

Only model-checked: that the theorems' hypotheses hold of what the other modules
make (`EachStreetOnce` of paths of `RouteSearch`, for example); and liveness
(`Recovers`, `Terminates`), which is out of the prover's reach.

## Not modelled

Of the modelled components: the off-road modes of vehicle profiles
(`route_path_new_offroad`), the destruction of a route, an empty mapset, calls
back into the route between two announcements of one update, the attributes of
the items of the route map; 32-bit overflow of costs; items of several
segments and restrictions of four coordinates in the graph; the wording of
announcements; the statistics of the cache; the files of former destinations
and of the map's centre, which `bookmarks.c` writes too; log files that cannot
be opened or written.

Whole components: tracking matches positions to streets by geometry, and its
result is an input of `Route`. Callback lists, the event loop and attributes
are what the interleaving of the other modules stands for; their errors listed
above are errors of memory management whose effect depends on the allocator.
Maps, map drivers, search for towns, profiles, speech, commands and
configuration are formats, parsing and queries. The user interfaces, displays,
bindings, the map compiler and the overlay renderer of this fork present what
is modelled or work offline; `support/` and `fib-1.1/` are third-party code.

## Plan

Done, in this order: `Route` with its runs and theorems, `RouteSearch`,
`RouteGraph`, `Lending` and `Cache` with the refinement and its proof,
`Navigation`, `Bookmarks` and `Log`; then the theorems that every safety
property of the runs holds for all values of the constants.

Left: an abstract specification of `Route` (either no path or one along all
destinations from a position it was given), which `RouteInUse` and a failed link
contradict today; the list of callbacks as an abstract list called while it
changes.
