------------------------------ MODULE MCRoute ------------------------------
(* Small instances of Route for TLC *)
EXTENDS Route, TLC

CONSTANTS p1, p2, p3, off, car, foot

(* A graph holds the streets of the coordinates it was selected around *)
OnlyAround == {<<p, p>> : p \in Place}

(* A car gets everywhere; on foot there is no way from p1 to p3 *)
Ways == {<<v, p, q>> \in Profile \X Street \X Street :
           v = car \/ p # p1 \/ q # p3}

=============================================================================
