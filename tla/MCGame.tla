------------------------------- MODULE MCGame -------------------------------
(***************************************************************************)
(* Small maps and instances of Game for TLC.  A map is a tuple of rows,    *)
(* each a tuple of the characters of the map file.                         *)
(***************************************************************************)
EXTENDS Game, TLC

CONSTANT MapRows

MCColumns == Len(MapRows[1])
MCRows    == Len(MapRows)
MCGlyph   == [c \in (0 .. MCColumns - 1) \X (0 .. MCRows - 1) |->
                MapRows[c[2] + 1][c[1] + 1]]

H == "h"
J == "j"
W == "#"
o == " "

(* The red home and the blue jail have two cells, so that one of two red    *)
(* players can rescue the other.  The border of walls of the map files is   *)
(* left out: nobody ever stands there.                                      *)
TagMap == <<
  <<H, J, o, J>>,
  <<H, o, H, J>> >>

(* One cell for every home and jail: searches fail early.                  *)
TinyMap == <<
  <<H, J, o, H>>,
  <<W, o, J, o>> >>

RedFlag    == <<TEAM_RED, "flag">>
BlueFlag   == <<TEAM_BLUE, "flag">>
RedShovel  == <<TEAM_RED, "shovel">>
BlueShovel == <<TEAM_BLUE, "shovel">>

NoObjects      == {}
FlagAndShovel  == {BlueFlag, RedShovel}
OneFlag        == {BlueFlag}
TwoFlags       == {RedFlag, BlueFlag}
NoPlaces   == [t \in Team |-> {}]
FlagsApart     == [t \in Team |-> IF t = TEAM_RED THEN {<<1, 1>>} ELSE {<<2, 0>>}]
FlagsMiddle    == [t \in Team |-> {<<1, 1>>}]

Quiet      == {{}}
(* Another request may hold the home of the blue team while one searches.  *)
Contended  == {{}, HomeCells[TEAM_BLUE]}
NoTeleport == {FALSE}

FdSymmetry == Permutations(Fd)
=============================================================================
