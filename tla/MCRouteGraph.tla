---------------------------- MODULE MCRouteGraph ----------------------------
(* Small street networks for RouteGraph *)
EXTENDS RouteGraph, TLC

CONSTANTS a, b, c, d, ab, bc, bd, cd, jam, notAbc, onlyBcd

(* From a over b to c and d, and from c to d.  Whoever comes from a may    *)
(* not turn to c, and whoever comes from b to c must go on to d.           *)
Start == (ab :> a) @@ (bc :> b) @@ (bd :> b) @@ (cd :> c) @@ (jam :> b)
End == (ab :> b) @@ (bc :> c) @@ (bd :> d) @@ (cd :> d) @@ (jam :> c)
OneWay == [i \in Street |-> IF i = bd THEN {"AF_ONEWAYREV"} ELSE {}]
Kinds == [r \in Restriction |-> IF r = notAbc THEN "no" ELSE "only"]
Corners == [r \in Restriction |-> IF r = notAbc THEN <<a, b, c>> ELSE <<b, c, d>>]

ASSUME PlainNetwork

=============================================================================
