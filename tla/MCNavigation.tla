---------------------------- MODULE MCNavigation ----------------------------
(* A small town for Navigation *)
EXTENDS Navigation, TLC

CONSTANTS main, market, circle, quay, lane, direct, detour

(* Along the main street, over the market and through a roundabout to the  *)
(* quay; with a waypoint in a lane off the market, which is left the way   *)
(* it was entered.  Each path also starts later and farther on.            *)
L(i, d, n) == [item |-> i, dir |-> d, len |-> n]
Shorter(p) == {[p EXCEPT ![1].len = n] : n \in {p[1].len, (p[1].len * 2) \div 5}}
Starts(p) == Shorter(p) \cup {SubSeq(p, i, Len(p)) : i \in 2..Len(p)}

Straight == <<L(main, 1, 400), L(market, 1, 90), L(circle, 1, 40), L(quay, 1, 60)>>
Back == <<L(main, -1, 300), L(circle, 1, 40), L(quay, 1, 60)>>
Waypoint == <<L(market, 1, 120), L(lane, 1, 200), L(lane, -1, 200), L(quay, -1, 90)>>

Paths == (direct :> Starts(Straight) \cup {Back}) @@ (detour :> Starts(Waypoint))
ASSUME EachStreetOnce

Corners == {<<<<main, 1>>, <<market, 1>>>>, <<<<circle, 1>>, <<quay, 1>>>>,
            <<<<market, 1>>, <<lane, 1>>>>, <<<<lane, 1>>, <<lane, -1>>>>,
            <<<<main, -1>>, <<circle, 1>>>>}
Distances == [s \in Street |-> IF s = main THEN <<50, 200, 300>> ELSE <<25, 100, 200>>]
Speeds == [s \in Street |-> IF s = main THEN 60 ELSE 30]

=============================================================================
