------------------------------ MODULE MCCache ------------------------------
(* Small instances of Cache for TLC *)
EXTENDS Cache

CONSTANTS a, b, c, d, e, h1, h2

(* Small blocks and large ones *)
Sizes == [id \in Id |-> IF id \in {d, e} THEN 3 ELSE 1]

=============================================================================
