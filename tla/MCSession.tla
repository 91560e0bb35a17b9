------------------------------ MODULE MCSession -----------------------------
(* A small instance of Session for TLC: the configuration names its         *)
(* clients and descriptors.                                                 *)
EXTENDS Session
=============================================================================
