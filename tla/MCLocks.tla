------------------------------- MODULE MCLocks ------------------------------
(***************************************************************************)
(* Small instances of Locks for TLC: a column of cells, numbered from the  *)
(* top, where a cell is near the one above and the one below.              *)
(***************************************************************************)
EXTENDS Locks, TLC

Column == { e \in Cell \X Cell : e[1] - e[2] \in {1, -1} }

LocksSymmetry == Permutations(Red) \cup Permutations(Blue)
=============================================================================
