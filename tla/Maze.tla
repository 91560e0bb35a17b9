-------------------------------- MODULE Maze --------------------------------
(***************************************************************************)
(* The map of the game as game_commons.c builds it from the characters of  *)
(* a map file: the type, turf and mutability of every cell, the windows    *)
(* that hold the homes and the jails, the adjacency test of a move, and    *)
(* the order in which the server probes home cells, jail cells and the     *)
(* cells near a player.  Nothing here changes while the server runs; the   *)
(* walls that players break are a variable of module Game.                 *)
(***************************************************************************)
EXTENDS Integers, Sequences, FiniteSetsExt

CONSTANTS
  Columns,    \* maze.max.x
  Rows,       \* maze.max.y
  Glyph       \* the map file: a character for every cell <<x, y>>

Cell == (0 .. Columns - 1) \X (0 .. Rows - 1)

TEAM_RED  == 0
TEAM_BLUE == 1
Team == {TEAM_RED, TEAM_BLUE}
OppositeTeam(t) == IF t = TEAM_RED THEN TEAM_BLUE ELSE TEAM_RED

(* maze_calculate_cell_type; a character it does not know is a wall.       *)
CellType == [c \in Cell |->
  CASE Glyph[c] \in {"h", "H"} -> "home"
    [] Glyph[c] \in {"j", "J"} -> "jail"
    [] Glyph[c] = " "          -> "floor"
    [] OTHER                   -> "wall"]

Turf == [c \in Cell |-> IF c[1] < Columns \div 2 THEN TEAM_RED ELSE TEAM_BLUE]

(* The columns of the half of the map that belongs to team t.  With an odd *)
(* number of columns the last one is in no half, as in the code.           *)
Half(t) == { c \in Cell : /\ c[1] >= t * (Columns \div 2)
                          /\ c[1] < (t + 1) * (Columns \div 2) }

(* The smallest rectangle around the cells of type ty in the half of t;    *)
(* max is exclusive.                                                       *)
Window(t, ty) ==
  LET S == { c \in Half(t) : CellType[c] = ty }
  IN  [min |-> <<Min({ c[1] : c \in S }), Min({ c[2] : c \in S })>>,
       max |-> <<Max({ c[1] : c \in S }) + 1, Max({ c[2] : c \in S }) + 1>>]

HomeWindow == [t \in Team |-> Window(t, "home")]
JailWindow == [t \in Team |-> Window(t, "jail")]

InWindow(c, w) == /\ w.min[1] <= c[1] /\ c[1] < w.max[1]
                  /\ w.min[2] <= c[2] /\ c[2] < w.max[2]

HomeCells == [t \in Team |-> { c \in Cell : InWindow(c, HomeWindow[t]) }]
JailCells == [t \in Team |-> { c \in Cell : InWindow(c, JailWindow[t]) }]

Width(w)  == w.max[1] - w.min[1]
Height(w) == w.max[2] - w.min[2]

(* A cell of the window, or one of the ring of cells around it.            *)
InRing(c, w) == /\ w.min[1] - 1 <= c[1] /\ c[1] <= w.max[1]
                /\ w.min[2] - 1 <= c[2] /\ c[2] <= w.max[2]

OnBorder(c) == c[1] \in {0, Columns - 1} \/ c[2] \in {0, Rows - 1}

(* The walls a shovel can break: not the border and not the walls around   *)
(* a home or a jail.                                                       *)
MutableWalls ==
  { c \in Cell : /\ Glyph[c] = "#"
                 /\ ~OnBorder(c)
                 /\ \A t \in Team : /\ ~InRing(c, HomeWindow[t])
                                    /\ ~InRing(c, JailWindow[t]) }

(* plist->max: one player per home cell, ten fewer in a home of fifty.     *)
MaxPlayers ==
  [t \in Team |-> LET size == Width(HomeWindow[t]) * Height(HomeWindow[t])
                  IN  IF size >= 50 THEN size - 10 ELSE size]

Player == UNION { { <<t, i>> : i \in 0 .. MaxPlayers[t] - 1 } : t \in Team }

(* cell_is_near: the four neighbours; a cell is not near itself.           *)
IsNear(c, n) == \/ c[1] = n[1] /\ n[2] \in {c[2] + 1, c[2] - 1}
                \/ c[2] = n[2] /\ n[1] \in {c[1] + 1, c[1] - 1}

(* server_home_hash and server_jail_hash: the cell of window w a key       *)
(* stands for.                                                             *)
WindowHash(w, key) == <<w.min[1] + (key % Width(w)),
                        w.min[2] + ((key \div Width(w)) % Height(w))>>

(* The cells the two searches try, in order, from a seed: twice as many    *)
(* keys as the window has cells.                                           *)
WindowProbe(w, seed) ==
  [k \in 1 .. 2 * Width(w) * Height(w) |-> WindowHash(w, seed + k - 1)]

HomeProbe(t, seed) == WindowProbe(HomeWindow[t], seed)
JailProbe(t, seed) == WindowProbe(JailWindow[t], seed)

(* _server_action_find_nearby_and_lock: dx > dy never holds, so only dy    *)
(* grows and the search walks down the column of the cell, round and round *)
(* (one round is enough: the next one meets the same cells).               *)
NearbyProbe(c) == [k \in 1 .. Rows |-> <<c[1], (c[2] + k) % Rows>>]

(* The shovel of a team starts in the last corner of its home.             *)
ShovelStart == [t \in Team |-> <<HomeWindow[t].max[1] - 1, HomeWindow[t].max[2] - 1>>]

(* A flag starts on a random floor cell: red on a column below half the    *)
(* map, blue on any column (the draw is over size + team * size columns).  *)
FlagStarts == [t \in Team |->
  { c \in Cell : CellType[c] = "floor" /\ c[1] < (t + 1) * (Columns \div 2) }]

-----------------------------------------------------------------------------
(* What the two map files satisfy: both halves hold a home and a jail,     *)
(* their windows hold no other cells, and no two jails touch.              *)
Windows == [min : Nat \X Nat, max : Nat \X Nat]

ASSUME MapAssumption ==
  /\ Columns \in Nat /\ Rows \in Nat
  /\ \A t \in Team : \A w \in {HomeWindow[t], JailWindow[t]} :
       w \in Windows /\ Width(w) > 0 /\ Height(w) > 0
  /\ \A t \in Team :
       /\ \A c \in HomeCells[t] : CellType[c] = "home" /\ Turf[c] = t
       /\ \A c \in JailCells[t] : CellType[c] = "jail" /\ Turf[c] = t
       /\ \A c \in JailCells[t], n \in Cell :
            IsNear(c, n) /\ CellType[n] = "jail" => n \in JailCells[t]
=============================================================================
