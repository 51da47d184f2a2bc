----------------------------- MODULE Navigation -----------------------------
(***************************************************************************)
(* Guidance along the route (navit/navigation.c).  Whenever the route      *)
(* announces a path, navigation_update brings its list of items, one for   *)
(* each street of the path, and its list of commands, one for each         *)
(* manoeuvre, up to date: it keeps what lies behind the street the vehicle *)
(* is on, or starts anew.  navigation_call_callbacks then decides whether  *)
(* something is said, from what has been said before.                      *)
(*                                                                         *)
(* Route tells when a path is announced, RouteSearch which path it is.     *)
(***************************************************************************)
EXTENDS Integers, FiniteSets, SequencesExt, Functions

CONSTANTS
  Street,      \* streets: items of the maps
  End,         \* way.item of the item behind the last street
  Flood,       \* floods of the graph: what paths have in common
  PathsOf,     \* the paths of each: sequences of legs [item, dir, len]
  Manoeuvre,   \* pairs of legs between which maneuver_required2 wants one
  Roundabout,  \* streets with AF_ROUNDABOUT
  Announce,    \* the three distances of each street's type
  Speed,       \* the speed on each street
  Delays,      \* values of the attribute delay
  turn_around_limit

Leg == [item : Street, dir : {1, -1}, len : Nat]
Turn(l) == <<l.item, l.dir>>
SameTurn(l, m) == Turn(l) = Turn(m)

(* Paths of one flood follow the same pointers from where they meet: a     *)
(* path that starts on a street of another one is the rest of it, if no    *)
(* path takes a street twice in the same direction.                        *)
EachStreetOnce ==
  \A f \in Flood : \A p, q \in PathsOf[f] : \A i \in DOMAIN p :
    SameTurn(p[i], q[1]) => /\ Len(q) = Len(p) - i + 1
                            /\ \A k \in 2..Len(q) : q[k] = p[i + k - 1]

ASSUME NavigationAssumption ==
  /\ End \notin Street
  /\ PathsOf \in [Flood -> SUBSET (Seq(Leg) \ {<<>>})]
  /\ Roundabout \subseteq Street
  /\ Announce \in [Street -> [1..3 -> Int]]
  /\ Speed \in [Street -> Nat]
  /\ Delays \subseteq Nat
  /\ turn_around_limit \in Nat

VARIABLES
  flood,         \* the flood of the latest path
  path,          \* the streets of the route map, <<>> when there are none
  itm,           \* first .. last
  hash,          \* street -> dest_count of an item
  cmd,           \* cmd_first .. cmd_last, by the dest_count of their items
  level_last, item_last, turn_around, distance_turn, curr_delay, delay,
  said,          \* the latest announcement
  heard          \* dest_counts of the commands that were spoken

items == <<itm, hash, cmd>>
telling == <<level_last, item_last, turn_around, distance_turn, curr_delay>>
vars == <<flood, path, items, telling, delay, said, heard>>

(* struct navigation_itm *)
Itm == [item : Street \cup {End}, dir : {1, -1, 0}, len : Nat, told : BOOLEAN]

(* What was said: how far ahead, about the turn into which item; beat      *)
(* changes with each announcement                                          *)
Said == [what : {"nothing", "turn", "around"}, item : Street \cup {End},
         level : -1..4, beat : BOOLEAN]

TypeOK ==
  /\ path \in Seq(Leg) /\ itm \in Seq(Itm)
  /\ hash \in [DOMAIN hash -> 1..Len(itm)] /\ DOMAIN hash \subseteq Street
  /\ cmd \in Seq([at : 0..Len(itm), length : Nat])
  /\ level_last \in -2..4
  /\ turn_around \in (1 - turn_around_limit)..turn_around_limit \cup {0}
  /\ distance_turn \in Nat /\ (distance_turn = 50 \/ distance_turn >= 500)
  /\ curr_delay \in 0..delay
  /\ said \in Said
  /\ heard \subseteq 0..Len(itm)

(* navigation_new *)
Init ==
  /\ flood \in Flood /\ path = <<>>
  /\ itm = <<>> /\ hash = <<>> /\ cmd = <<>>
  /\ level_last = -2 /\ item_last = End /\ turn_around = 0
  /\ distance_turn = 50 /\ curr_delay = 0 /\ delay \in Delays
  /\ said = [what |-> "nothing", item |-> End, level |-> 4, beat |-> FALSE]
  /\ heard = {}

-----------------------------------------------------------------------------
(* Items.  The dest_count of an item is the number of items behind it; it  *)
(* stays the same when items are removed from the front.                   *)
Count(s, i) == Len(s) - i
At(s, n) == Len(s) - n
LenBetween(s, i, j) ==
  LET sum[n \in 0..(j - i)] == IF n = 0 THEN 0 ELSE sum[n - 1] + s[i + n - 1].len
  IN sum[j - i]

(* navigation_itm_new for the streets of a path, and for the end of it *)
ItemsOf(p) ==
  Append([i \in DOMAIN p |-> [item |-> p[i].item, dir |-> p[i].dir,
                              len |-> p[i].len, told |-> FALSE]],
         [item |-> End, dir |-> 0, len |-> 0, told |-> FALSE])

(* item_hash_insert for each of them: the last one remains *)
Rank(p, s) == CHOOSE i \in DOMAIN p :
  p[i].item = s /\ \A j \in DOMAIN p : p[j].item = s => j <= i
HashOf(p) ==
  [s \in {p[i].item : i \in DOMAIN p} |-> Len(p) + 1 - Rank(p, s)]

(* navigation_destroy_itms_cmds up to item i: what is left of the items,   *)
(* of the hash, and of the commands                                        *)
ItemsFrom(i) == SubSeq(itm, i, Len(itm))
HashFrom(i) ==
  Restrict(hash, DOMAIN hash \ {itm[j].item : j \in 1..(i - 1)})

CommandsFrom(i) ==
  LET left[j \in 1..i] ==
        IF j = 1 THEN cmd
        ELSE LET c == left[j - 1]
             IN IF c # <<>> /\ Head(c).at = Count(itm, j) THEN Tail(c) ELSE c
  IN left[i]

(* command_new: behind a roundabout, the way through it and 50 m *)
RoundaboutLength(s, i) ==
  IF s[i - 1].item \in Roundabout /\ s[i].item \notin Roundabout
  THEN LET in == {j \in 1..(i - 1) : \A k \in j..(i - 1) : s[k].item \in Roundabout}
       IN LenBetween(s, Min(in), i) + 50
  ELSE 0

(* make_maneuvers *)
Needed(s) ==
  {i \in 2..Len(s) : \/ <<Turn(s[i - 1]), Turn(s[i])>> \in Manoeuvre
                     \/ i = Len(s)}

(* The members of a set of numbers, from the least on *)
Nth(S, k) == CHOOSE i \in S : Cardinality({j \in S : j <= i}) = k

(* Mutant of MakeManeuvers: "last" is taken for "last_itm" *)
MakeManeuversFromFirst(s) ==
  LET need == {i \in 2..Len(s) : <<Turn(s[1]), Turn(s[i])>> \in Manoeuvre \/ i = Len(s)}
  IN [k \in 1..Cardinality(need) |-> [at |-> Count(s, Nth(need, k)),
                                      length |-> RoundaboutLength(s, Nth(need, k))]]

MakeManeuvers(s) ==
  [k \in 1..Cardinality(Needed(s)) |->
     [at |-> Count(s, Nth(Needed(s), k)),
      length |-> RoundaboutLength(s, Nth(Needed(s), k))]]

-----------------------------------------------------------------------------
(* What is said.  Here s are the items, c the commands, h the commands     *)
(* heard so far and turns the value of turn_around, after the update.      *)

(* round_distance *)
RoundTo(d, n) == ((d + n \div 2) \div n) * n
RoundDistance(d) ==
  IF d < 100 THEN RoundTo(d, 10)
  ELSE IF d < 250 THEN ((d + 13) \div 25) * 25
  ELSE IF d < 500 THEN RoundTo(d, 50)
  ELSE IF d < 5000 THEN RoundTo(d, 100)
  ELSE IF d < 100000 THEN RoundTo(d, 1000)
  ELSE RoundTo(d, 10000)

(* navigation_get_announce_level *)
Level(street, dist) ==
  LET near == {i \in 0..2 : dist <= Announce[street][i + 1]}
  IN IF near = {} THEN 3 ELSE Min(near)

(* navigation_get_announce_level_cmd *)
LevelCmd(s, c, dist) ==
  Max({Level(s[1].item, dist), Level(s[At(s, c[1].at) - 1].item, dist)})

Distance(s, c) == LenBetween(s, 1, At(s, c[1].at))
LevelNow(s, c) == LevelCmd(s, c, RoundDistance(Distance(s, c)) - c[1].length)
NextItem(s, c) == s[At(s, c[1].at)].item

(* The first conditions of navigation_call_callbacks *)
TurnsAround(turns) == turn_around_limit # 0 /\ turns = turn_around_limit
Guides(turns) == turn_around_limit = 0 \/ turns = 1 - turn_around_limit

(* The loop that raises distance_turn until it reaches the distance: an    *)
(* int can be doubled 22 times from 500                                    *)
Farther(d) == IF d >= 500 THEN 2 * d ELSE 500
TurnDistance(d, dist) ==
  LET raised[n \in 0..23] ==
        IF n = 0 THEN d
        ELSE LET r == raised[n - 1] IN IF dist > r THEN Farther(r) ELSE r
  IN raised[23]

(* The level holds for more than three seconds *)
Holds(s, c) ==
  LET d == RoundDistance(Distance(s, c)) - c[1].length
      speed_distance == (Speed[s[1].item] * 30) \div 36
  IN d < speed_distance \/ LevelCmd(s, c, d - speed_distance) = LevelNow(s, c)

(* Mutant of Nearer: the same level is told again *)
NearerOrSame(s, c) == LevelNow(s, c) <= level_last /\ Holds(s, c)

Nearer(s, c) == LevelNow(s, c) < level_last /\ Holds(s, c)
NewTurn(s, c) == NextItem(s, c) # item_last

(* Mutant of ForceSpeech: a new turn is told when the level falls only *)
ForceIfNearer(s, c) == Nearer(s, c) \/ (curr_delay = 1 /\ ~NewTurn(s, c))

ForceSpeech(s, c) ==
  \/ Nearer(s, c)
  \/ NewTurn(s, c) /\ delay = 0
  \/ ~NewTurn(s, c) /\ curr_delay = 1
DelayLeft(s, c) ==
  IF NewTurn(s, c) THEN IF delay # 0 THEN delay ELSE curr_delay
  ELSE IF curr_delay # 0 THEN curr_delay - 1 ELSE 0

(* show_next_maneuvers.  The commands at 2 and 3 are joined to the first   *)
(* announcement unless they come much later; the announcement is cut again *)
(* when it takes longer than the way to the first of them.  "gap" tells    *)
(* how soon each comes, "cut" which one made it too long.                  *)
Gaps == [2..3 -> {"apart", "later", "close"}]
Joined(c, gap, cut) ==
  {k \in 2..3 : k <= Len(c) /\ \A j \in 2..k : gap[j] # "apart" /\ (j < k => cut # j)}
Close(s, c) == Level(s[1].item, Distance(s, c) - c[1].length) <= 1
First(s, c) == s[At(s, c[1].at)]

ToldTogether(s, c, gap, cut) ==
  IF Close(s, c) /\ ~First(s, c).told
  THEN {c[k].at : k \in {j \in Joined(c, gap, cut) : gap[j] = "close"}} ELSE {}
Spoken(s, c, gap, cut) ==
  IF ~Close(s, c) THEN {c[1].at}
  ELSE IF First(s, c).told THEN {}
  ELSE {c[1].at} \cup {c[k].at : k \in Joined(c, gap, cut) \ {cut}}

Outcomes(s, c) ==
  {[told |-> ToldTogether(s, c, gap, cut), spoken |-> Spoken(s, c, gap, cut)] :
     gap \in Gaps, cut \in {0, 2, 3}}

Told(s, told) ==
  [i \in DOMAIN s |-> [s[i] EXCEPT !.told = @ \/ Count(s, i) \in told]]

(* The call of the speech callbacks *)
Speak(s, c, h, what, level) ==
  \E o \in Outcomes(s, c) :
    /\ itm' = Told(s, o.told)
    /\ heard' = h \cup (IF what = "turn" THEN o.spoken ELSE {})
    /\ said' = [what |-> what, item |-> NextItem(s, c), level |-> level,
                beat |-> ~said.beat]
Silent(s, h) ==
  /\ itm' = s /\ heard' = h
  /\ UNCHANGED said

(* navigation_call_callbacks *)
TurnAround(s, c, h, turns) ==
  /\ TurnsAround(turns)
  /\ LET dist == RoundDistance(Distance(s, c))
     IN /\ distance_turn' = TurnDistance(distance_turn, dist)
        /\ IF dist > distance_turn
           THEN /\ level_last' = 4 /\ curr_delay' = 0
                /\ Speak(s, c, h, "around", 4)
           ELSE UNCHANGED <<level_last, curr_delay>> /\ Silent(s, h)
  /\ UNCHANGED item_last

Guide(s, c, h, turns) ==
  /\ ~TurnsAround(turns) /\ Guides(turns)
  /\ distance_turn' = 50
  /\ item_last' = NextItem(s, c)
  /\ IF ForceSpeech(s, c)
     THEN /\ level_last' = LevelNow(s, c) /\ curr_delay' = 0
          /\ Speak(s, c, h, "turn", LevelNow(s, c))
     ELSE /\ curr_delay' = DelayLeft(s, c)
          /\ UNCHANGED level_last /\ Silent(s, h)

Undecided(s, h, turns) ==
  /\ ~TurnsAround(turns) /\ ~Guides(turns)
  /\ Silent(s, h)
  /\ UNCHANGED <<level_last, item_last, distance_turn, curr_delay>>

CallCallbacks(s, c, h, turns) ==
  \/ TurnAround(s, c, h, turns)
  \/ Guide(s, c, h, turns)
  \/ Undecided(s, h, turns)

-----------------------------------------------------------------------------
(* Mutant of Turns: going forward is counted without end *)
TurnsOn(reverse) ==
  IF reverse THEN IF turn_around < turn_around_limit THEN turn_around + 1 ELSE turn_around
  ELSE turn_around - 1

(* navigation_update.  "reverse": the route map starts with                *)
(* type_route_start_reverse.                                               *)
Turns(reverse) ==
  IF reverse THEN IF turn_around < turn_around_limit THEN turn_around + 1 ELSE turn_around
  ELSE IF turn_around > 1 - turn_around_limit THEN turn_around - 1 ELSE turn_around

(* Mutant of OnTrack: the direction is not compared *)
OnTrackAnyWay(p, i) == p[1].item \in DOMAIN hash /\ i = At(itm, hash[p[1].item])

(* The path starts on the street of item i *)
OnTrack(p, i) ==
  /\ p[1].item \in DOMAIN hash /\ i = At(itm, hash[p[1].item])
  /\ itm[i].dir = p[1].dir

(* The street is found: what lies before it is removed *)
Follow(p, reverse, i) ==
  /\ OnTrack(p, i)
  /\ hash' = HashFrom(i)
  /\ cmd' = CommandsFrom(i)
  /\ turn_around' = Turns(reverse)
  /\ CallCallbacks([ItemsFrom(i) EXCEPT ![1].len = p[1].len], cmd',
                   {n \in heard : n <= Count(itm, i)}, turn_around')

(* It is not: everything is made anew *)
StartAnew(p, reverse) ==
  /\ hash' = HashOf(p)
  /\ cmd' = MakeManeuvers(ItemsOf(p))
  /\ turn_around' = Turns(reverse)
  /\ CallCallbacks(ItemsOf(p), cmd', {}, turn_around')

(* route_status_path_done_incremental *)
Incremental(p, reverse) ==
  /\ path # <<>>
  /\ p \in PathsOf[flood]
  /\ path' = p
  /\ \/ \E i \in DOMAIN itm : Follow(p, reverse, i)
     \/ (\A i \in DOMAIN itm : ~OnTrack(p, i)) /\ StartAnew(p, reverse)
  /\ UNCHANGED <<flood, delay>>

(* route_status_path_done_new: navigation_flush comes first *)
New(f, p, reverse) ==
  /\ p \in PathsOf[f]
  /\ flood' = f /\ path' = p
  /\ StartAnew(p, reverse)
  /\ UNCHANGED delay

(* navigation_flush for route_status_no_destination and not_found *)
Flush ==
  /\ path # <<>>
  /\ path' = <<>> /\ itm' = <<>> /\ hash' = <<>> /\ cmd' = <<>> /\ heard' = {}
  /\ UNCHANGED <<flood, telling, delay, said>>

Next ==
  \/ \E f \in Flood : \E p \in PathsOf[f], reverse \in BOOLEAN : New(f, p, reverse)
  \/ \E p \in PathsOf[flood], reverse \in BOOLEAN : Incremental(p, reverse)
  \/ Flush

Spec == Init /\ [][Next]_vars

-----------------------------------------------------------------------------
(* The items are the streets of the path with what is left of them, ahead  *)
(* of the vehicle, and the distance to the destination is that of the      *)
(* path, however the items came about; also after streets that are driven  *)
(* in both directions, of which the hash only knows one.  (It takes        *)
(* EachStreetOnce: of a street with a waypoint in the middle the hash only *)
(* knows what lies behind the waypoint.)                                   *)
FollowsPath ==
  /\ path = <<>> => itm = <<>>
  /\ path # <<>> =>
       /\ Len(itm) = Len(path) + 1
       /\ \A i \in DOMAIN path :
            [item |-> itm[i].item, dir |-> itm[i].dir, len |-> itm[i].len] = path[i]

(* The commands that were kept are those that would be made for the path   *)
(* that is left: none is passed, none is missing, and the distance to each *)
(* is positive.                                                            *)
CommandsLieAhead ==
  itm # <<>> =>
    LET at == [k \in DOMAIN cmd |-> At(itm, cmd[k].at)]
    IN /\ Range(at) = Needed(itm)
       /\ \A j, k \in DOMAIN at : j < k => at[j] < at[k]

(* While the vehicle is guided and no delay runs, the next manoeuvre is    *)
(* the one that was told last, and no level of it has been missed: what    *)
(* was told is at least as near as what is ahead, but for levels that hold *)
(* for less than three seconds.                                            *)
InTime ==
  (cmd # <<>> /\ Guides(turn_around) /\ curr_delay = 0 /\ level_last # -2) =>
    /\ item_last = NextItem(itm, cmd)
    /\ said.what = "turn" => said.item = item_last \/ delay # 0
    /\ Holds(itm, cmd) => level_last <= LevelNow(itm, cmd)

(* Without a delay no manoeuvre is told twice in a row at the same level:  *)
(* each time the same one is told again it is nearer.                      *)
NothingSaidTwice ==
  [][/\ said' # said /\ delay = 0
     /\ said.what = "turn" /\ said'.what = "turn" /\ said'.item = said.item
     => said'.level < said.level]_vars

(* navigation.c says of "told": "Indicates if this item's announcement has *)
(* been told earlier and should not be told again".                        *)
ToldMeansHeard ==
  \A i \in DOMAIN itm : itm[i].told => Count(itm, i) \in heard

=============================================================================
