------------------------------ MODULE MCEvents ------------------------------
(* Small instances of Events for TLC.                                      *)
EXTENDS Events, TLC

EventsSymmetry == Permutations(Thread) \cup Permutations(Client)
=============================================================================
