------------------------------ MODULE MCClient ------------------------------
(* Instances of Client for TLC: one thread or two.                         *)
EXTENDS Client
=============================================================================
