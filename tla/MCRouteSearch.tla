--------------------------- MODULE MCRouteSearch ---------------------------
(* Small street networks for RouteSearch *)
EXTENDS RouteSearch

CONSTANTS a, b, c, b1, b2, ab, bc, ca, ab1, ab2, b1c, b2c

(* Three streets around a block *)
BlockStart   == (ab :> a) @@ (bc :> b) @@ (ca :> c)
BlockEnd     == (ab :> b) @@ (bc :> c) @@ (ca :> a)
BlockAdded   == (ab :> 1) @@ (bc :> 2) @@ (ca :> 3)

(* The block with a turn restriction at b that forbids nothing here,       *)
(* resolved by route_graph_process_restriction_point: one comes to b1 from *)
(* a and leaves it to c, one comes to b2 from c and leaves it to a, and b  *)
(* itself one can only come to; ca is one-way                              *)
TurnStart   == BlockStart @@ (ab1 :> a) @@ (ab2 :> a) @@ (b1c :> b1) @@ (b2c :> b2)
TurnEnd     == BlockEnd @@ (ab1 :> b1) @@ (ab2 :> b2) @@ (b1c :> c) @@ (b2c :> c)
TurnItem    == [s \in Segment |-> CASE s \in {ab1, ab2} -> ab
                                    [] s \in {b1c, b2c} -> bc
                                    [] OTHER -> s]
TurnAt      == [p \in Point |-> IF p \in {b1, b2} THEN b ELSE p]
TurnAdded   == BlockAdded @@ (b2c :> 4) @@ (ab2 :> 5) @@ (ab1 :> 6) @@ (b1c :> 7)
TurnBlocked == {<<ab, -1>>, <<bc, 1>>, <<ab1, -1>>, <<b1c, -1>>,
                <<ab2, 1>>, <<b2c, 1>>, <<ca, -1>>}

ASSUME StreetsAreSimple
=============================================================================
