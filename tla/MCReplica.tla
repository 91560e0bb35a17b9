------------------------------ MODULE MCReplica -----------------------------
(* Small maps and instances of Replica for TLC.  A corner of every map is  *)
(* a wall, as in the map files.                                            *)
EXTENDS MCGame, Replica

(* A cell between a home and a wall that a shovel can break.              *)
DigMap == <<
  <<W, J, W, W, W, H>>,
  <<H, W, W, W, W, H>>,
  <<H, o, W, W, W, H>>,
  <<H, W, W, W, J, W>> >>

(* Two teams within reach of each other.                                   *)
MeetMap == <<
  <<W, J, o, H>>,
  <<H, o, J, o>> >>

OneShovel == {RedShovel}
DigFlags == [t \in Team |-> IF t = TEAM_BLUE THEN {<<1, 2>>} ELSE {}]
MeetFlags == [t \in Team |-> {<<1, 1>>}]
=============================================================================
