------------------------------- MODULE MCLog --------------------------------
(* A short track for Log *)
EXTENDS Log, TLC

=============================================================================
