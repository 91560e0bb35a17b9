-------------------------------- MODULE Game --------------------------------
(***************************************************************************)
(* The rules of the game as game_server.c applies them.  A step is one     *)
(* complete request of one connection, from the plist lookup to the        *)
(* recalculated game state that its event announces; the locks that make   *)
(* the requests atomic are the subject of module Locks, and the delivery   *)
(* of the events that of module Events.                                    *)
(*                                                                         *)
(* Other threads show here in one way: the searches for a home cell, a     *)
(* jail cell or a cell to drop a flag on use trylock and skip a cell that  *)
(* some other request holds.  "busy" is the set of those cells, chosen     *)
(* from BusySets when the request runs.                                    *)
(***************************************************************************)
EXTENDS Maze

CONSTANTS
  None,          \* the null pointer, and a free fd (-1)
  Fd,            \* the file descriptors of the RPC connections
  Object,        \* the objects followed: pairs <<team, "flag" or "shovel">>
  FlagPlaces,    \* the initial cells of each flag that a run starts from
  BusySets,      \* the sets of cells other threads may hold during a search
  TestModes,     \* the values the shell gives to the teleport switch
  CounterBound   \* bound on the home counters, which drift (see README)

VARIABLES
  fd,            \* player->fd
  count,         \* plist->count
  lastTeam,      \* maze->last_team
  playerCell,    \* player->cell
  cellPlayer,    \* cell->player
  jailed,        \* player->state = PLAYER_JAILED
  obj,           \* the object references, see ObjType
  homeCount,     \* home->count
  homeFlags,     \* home->flags
  broken,        \* the walls broken so far: maze->wall
  testMode,      \* the teleport switch of the server shell
  announced,     \* the game state in the last event
  up             \* the server process has not crashed

registry == <<fd, count, lastTeam>>
places   == <<playerCell, cellPlayer, jailed>>
homes    == <<homeCount, homeFlags>>
vars == <<registry, places, obj, homes, broken, testMode, announced, up>>

GameState == {"waiting", "active", "red_win", "blue_win"}
Wins      == [t \in Team |-> IF t = TEAM_RED THEN "red_win" ELSE "blue_win"]

(* object->cell, object->player, cell->object, player->flag, ->shovel      *)
ObjType == [cell   : [Object -> Cell],
            player : [Object -> Player \cup {None}],
            on     : [Cell -> Object \cup {None}],
            flag   : [Player -> Object \cup {None}],
            shovel : [Player -> Object \cup {None}]]

ASSUME GameAssumption ==
  /\ None \notin Cell \cup Player \cup Object \cup Fd
  /\ Object \subseteq Team \X {"flag", "shovel"}
  /\ BusySets \subseteq SUBSET Cell
  /\ TestModes \subseteq BOOLEAN /\ FALSE \in TestModes
  /\ \A t \in Team : FlagPlaces[t] \subseteq FlagStarts[t]
  /\ CounterBound \in Nat

-----------------------------------------------------------------------------
TypeOf(c)    == IF c \in broken THEN "floor" ELSE CellType[c]
TeamOf(p)    == p[1]
IdOf(p)      == p[2]
Occupied(c)  == cellPlayer[c] # None

(* Mutant: the look-up of a new connection on one team only.               *)
RegisteredOnTeam(f) == \E i \in Player : i[1] = OppositeTeam(lastTeam) /\ fd[i] = f

Registered(f) == \E p \in Player : fd[p] = f

(* server_game_recalculate_state.                                          *)
Recalculated(cnt, hc, hf) ==
  IF cnt[TEAM_RED] > 0 /\ cnt[TEAM_BLUE] > 0
  THEN IF cnt[TEAM_RED] = hc[TEAM_RED] /\ hf[TEAM_RED] = 2 THEN "red_win"
       ELSE IF cnt[TEAM_BLUE] = hc[TEAM_BLUE] /\ hf[TEAM_BLUE] = 2 THEN "blue_win"
       ELSE "active"
  ELSE "waiting"

(* The event of a request that succeeded carries the state recalculated    *)
(* from the counters the request leaves behind.                            *)
Announce == announced' = Recalculated(count', homeCount', homeFlags')

(* The first cell of a probe sequence that is in good, or nothing.         *)
FirstIn(probe, good) ==
  { probe[k] : k \in { i \in DOMAIN probe :
                         /\ probe[i] \in good
                         /\ \A j \in 1 .. i - 1 : probe[j] \notin good } }
Found(probe, good) == LET hit == FirstIn(probe, good)
                      IN  IF hit = {} THEN {None} ELSE hit

Free(held)       == { c \in Cell : ~Occupied(c) } \ held
NotHolding(o, held) == { c \in Cell : o.on[c] = None } \ held
-----------------------------------------------------------------------------
(* Mutant: the player keeps the reference to what was dropped.             *)
PutDownKept(o, x, p, c) ==
  [cell |-> [o.cell EXCEPT ![x] = c], player |-> [o.player EXCEPT ![x] = None],
   on |-> [o.on EXCEPT ![c] = x], flag |-> o.flag, shovel |-> o.shovel]

(* Object x leaves the hands of p and lies on cell c: object->cell,        *)
(* object->player, cell->object and player->flag or ->shovel.              *)
PutDown(o, x, p, c) ==
  [cell   |-> [o.cell EXCEPT ![x] = c],
   player |-> [o.player EXCEPT ![x] = None],
   on     |-> [o.on EXCEPT ![c] = x],
   flag   |-> IF x[2] = "flag" THEN [o.flag EXCEPT ![p] = None] ELSE o.flag,
   shovel |-> IF x[2] = "flag" THEN o.shovel ELSE [o.shovel EXCEPT ![p] = None]]

(* Mutant: the cell keeps the reference to what was picked up.             *)
PickedUpKept(o, x, p, c) ==
  [cell |-> [o.cell EXCEPT ![x] = c], player |-> [o.player EXCEPT ![x] = p],
   on |-> o.on, flag |-> [o.flag EXCEPT ![p] = x], shovel |-> o.shovel]

PickedUp(o, x, p, c) ==
  [cell   |-> [o.cell EXCEPT ![x] = c],
   player |-> [o.player EXCEPT ![x] = p],
   on     |-> [o.on EXCEPT ![c] = None],
   flag   |-> IF x[2] = "flag" THEN [o.flag EXCEPT ![p] = x] ELSE o.flag,
   shovel |-> IF x[2] = "flag" THEN o.shovel ELSE [o.shovel EXCEPT ![p] = x]]

(* _server_action_player_reset_shovel: p's shovel goes back to a home cell *)
(* of its team.  The cell p stands on then holds nothing, whatever lay     *)
(* there.  A search that fails leaves everything as it was.                *)
Vacated(o, c) == [o EXCEPT !.on = [o.on EXCEPT ![c] = None]]
ResetShovel(o, p, held) ==
  LET s == o.shovel[p]
  IN  IF s = None THEN {o}
      ELSE { IF d = None THEN o ELSE Vacated(PutDown(o, s, p, d), playerCell[p])
             : d \in Found(HomeProbe(s[1], 0), NotHolding(o, held)) }

(* _server_action_drop_flag: on p's cell, or else on the first cell down   *)
(* the column that holds nothing.  No outcome when there is none: the      *)
(* search of the code then never ends.                                     *)
DropFlag(o, p, held) ==
  LET c == playerCell[p]
      spots == IF o.on[c] = None THEN {c}
               ELSE FirstIn(NearbyProbe(c),
                            { d \in NotHolding(o, held) : TypeOf(d) # "wall" })
  IN  IF o.flag[p] = None THEN {o} ELSE { PutDown(o, o.flag[p], p, d) : d \in spots }

(* What a tagged or a leaving player does: the shovel first, then the flag.*)
Strip(o, p, held) ==
  UNION { DropFlag(r, p, held) : r \in ResetShovel(o, p, held) }

(* Mutant: the shovel stays behind.                                        *)
CarryFlagOnly(o, p, c) ==
  [o EXCEPT !.cell = [x \in Object |-> IF x = o.flag[p] THEN c ELSE o.cell[x]]]

(* _server_action_update_player: what p carries moves with p to cell c.    *)
Carry(o, p, c) ==
  [o EXCEPT !.cell = [x \in Object |->
     IF x \in {o.flag[p], o.shovel[p]} THEN c ELSE o.cell[x]]]

(* Mutant: leaving the other team's home counts as leaving one's own.      *)
CrossHomeAnyTurf(p, c, n, o) ==
  /\ homeCount' = [homeCount EXCEPT ![TeamOf(p)] = @ +
       (IF TypeOf(c) # "home" /\ TypeOf(n) = "home" /\ Turf[n] = TeamOf(p) THEN 1
        ELSE IF TypeOf(c) = "home" /\ TypeOf(n) # "home" THEN -1 ELSE 0)]
  /\ UNCHANGED homeFlags

(* _server_game_state_update: the counters of p's home when p crosses its  *)
(* border from cell c to cell n, carrying what o says.                     *)
CrossHome(p, c, n, o) ==
  LET t == TeamOf(p)
      step == IF TypeOf(c) # "home" /\ TypeOf(n) = "home" /\ Turf[n] = t THEN 1
              ELSE IF TypeOf(c) = "home" /\ TypeOf(n) # "home" /\ Turf[c] = t
              THEN -1 ELSE 0
  IN  /\ homeCount' = [homeCount EXCEPT ![t] = @ + step]
      /\ homeFlags' = [homeFlags EXCEPT ![t] =
                         IF o.flag[p] = None THEN @ ELSE @ + step]

(* Mutant: the old cell still refers to the player.                        *)
MovePlayerGhost(p, n) ==
  /\ playerCell' = [playerCell EXCEPT ![p] = n]
  /\ cellPlayer' = [cellPlayer EXCEPT ![n] = p]

(* _server_action_move_player.                                             *)
MovePlayer(p, n) ==
  /\ playerCell' = [playerCell EXCEPT ![p] = n]
  /\ cellPlayer' = [cellPlayer EXCEPT ![playerCell[p]] = None, ![n] = p]
-----------------------------------------------------------------------------
(* server_game_add_player.  The team changes at every hello, refused or    *)
(* not; the slot is the first free one.                                    *)
NextTeam == OppositeTeam(lastTeam)
FirstSlot(p) == /\ TeamOf(p) = NextTeam
                /\ fd[p] = None
                /\ \A q \in Player :
                     TeamOf(q) = NextTeam /\ fd[q] = None => IdOf(p) <= IdOf(q)

HelloRefused(f) ==
  /\ Registered(f) \/ count[NextTeam] = MaxPlayers[NextTeam]
  /\ lastTeam' = NextTeam
  /\ UNCHANGED <<fd, count, places, obj, homes, broken, testMode, announced, up>>

(* server_plist_add_player: player_init clears the slot.                   *)
Enlist(f, p) ==
  /\ ~Registered(f) /\ count[NextTeam] # MaxPlayers[NextTeam] /\ FirstSlot(p)
  /\ lastTeam' = NextTeam
  /\ fd' = [fd EXCEPT ![p] = f]
  /\ count' = [count EXCEPT ![NextTeam] = @ + 1]
  /\ jailed' = [jailed EXCEPT ![p] = FALSE]
  /\ obj' = [cell |-> obj.cell, player |-> obj.player, on |-> obj.on,
             flag   |-> [obj.flag EXCEPT ![p] = None],
             shovel |-> [obj.shovel EXCEPT ![p] = None]]

(* server_player_spawn puts the new player on an empty home cell.          *)
Hello(f, p, busy) ==
  /\ Enlist(f, p)
  /\ \E c \in Found(HomeProbe(NextTeam, IdOf(p)), Free(busy)) \ {None} :
       /\ playerCell' = [playerCell EXCEPT ![p] = c]
       /\ cellPlayer' = [cellPlayer EXCEPT ![c] = p]
  /\ homeCount' = [homeCount EXCEPT ![NextTeam] = @ + 1]
  /\ UNCHANGED <<homeFlags, broken, testMode, up>>
  /\ Announce

(* The spawn fails: hello answers -3 but the slot stays taken, without a   *)
(* cell and without an event.                                              *)
HelloUnplaced(f, p, busy) ==
  /\ Enlist(f, p)
  /\ Found(HomeProbe(NextTeam, IdOf(p)), Free(busy)) = {None}
  /\ playerCell' = [playerCell EXCEPT ![p] = None]
  /\ UNCHANGED <<cellPlayer, homes, broken, testMode, announced, up>>

(* server_game_drop_player, on a goodbye or a lost connection.  The event  *)
(* is made before the player is removed; the branch that decrements the    *)
(* home counter is never taken, since the player has no cell any more.     *)
Leave(p, busy) ==
  LET c == playerCell[p]
  IN  /\ c # None
      /\ announced' = Recalculated(count, homeCount, homeFlags)
      /\ obj' \in Strip(obj, p, busy \cup {c})
      /\ cellPlayer' = [cellPlayer EXCEPT ![c] = None]
      /\ playerCell' = [playerCell EXCEPT ![p] = None]
      /\ fd' = [fd EXCEPT ![p] = None]
      /\ count' = [count EXCEPT ![TeamOf(p)] = @ - 1]
      /\ UNCHANGED <<lastTeam, jailed, homes, broken, testMode, up>>

(* A request or a disconnection of a registered player without a cell:     *)
(* server_maze_lock_by_player reads the position of a null cell.           *)
Crash(p) ==
  /\ playerCell[p] = None
  /\ up' = FALSE
  /\ UNCHANGED <<registry, places, obj, homes, broken, testMode, announced>>
-----------------------------------------------------------------------------
(* server_game_action: the cells that pass the check of ACTION_MOVE.       *)
Neighbours == [c \in Cell |-> { n \in Cell : IsNear(c, n) }]
TargetsAnywhere(p) == Cell   \* mutant: a move is not checked to be near
Targets(p) == IF testMode THEN Cell ELSE Neighbours[playerCell[p]]

(* A request that succeeds and changes nothing still has an event: NOOP,   *)
(* dropping what one does not carry, a prisoner moving to an occupied jail *)
(* cell.                                                                   *)
Idle(p) ==
  /\ UNCHANGED <<registry, places, obj, homes, broken, testMode, up>>
  /\ Announce

Noop(p) == Idle(p)

DropNothing(p, kind) ==
  /\ IF kind = "flag" THEN obj.flag[p] = None
     ELSE obj.on[playerCell[p]] = None /\ obj.shovel[p] = None
  /\ Idle(p)

JailedBump(p, n) ==
  /\ jailed[p] /\ TypeOf(n) = "jail" /\ Occupied(n)
  /\ Idle(p)

(* Mutant: a prisoner may walk out.                                        *)
JailedMoveOut(p, n) ==
  /\ jailed[p] /\ TypeOf(n) # "wall" /\ ~Occupied(n)
  /\ MovePlayer(p, n)
  /\ obj' = Carry(obj, p, n)
  /\ CrossHome(p, playerCell[p], n, obj)
  /\ UNCHANGED <<registry, jailed, broken, testMode, up>>
  /\ Announce

(* A prisoner may walk about the jail.                                     *)
JailedMove(p, n) ==
  /\ jailed[p] /\ TypeOf(n) = "jail" /\ ~Occupied(n)
  /\ MovePlayer(p, n)
  /\ obj' = Carry(obj, p, n)
  /\ CrossHome(p, playerCell[p], n, obj)
  /\ UNCHANGED <<registry, jailed, broken, testMode, up>>
  /\ Announce

(* Mutant: every wall can be broken.                                       *)
WallMoveAny(p, n, busy) ==
  /\ TypeOf(n) = "wall" /\ obj.shovel[p] # None
  /\ \E o \in ResetShovel(obj, p, busy \cup {playerCell[p], n}) : obj' = Carry(o, p, n)
  /\ broken' = broken \cup {n}
  /\ MovePlayer(p, n)
  /\ CrossHome(p, playerCell[p], n, obj)
  /\ UNCHANGED <<registry, jailed, testMode, up>>
  /\ Announce

(* _server_game_wall_move: break a wall and step into the hole.            *)
WallMove(p, n, busy) ==
  LET c == playerCell[p]
  IN  /\ TypeOf(n) = "wall" /\ n \in MutableWalls
      /\ obj.shovel[p] # None
      /\ \E o \in ResetShovel(obj, p, busy \cup {c, n}) :
           /\ o.shovel[p] = None
           /\ obj' = Carry(o, p, n)
      /\ broken' = broken \cup {n}
      /\ MovePlayer(p, n)
      /\ CrossHome(p, c, n, obj)
      /\ UNCHANGED <<registry, jailed, testMode, up>>
      /\ Announce

(* Mutant: the other jail is opened.                                       *)
FreedFromOwn(t, c, n) ==
  { q \in Player : jailed[q] /\ playerCell[q] \in JailCells[OppositeTeam(t)] \ {c, n} }

(* Mutant: the loop stops before the last row of the jail.                 *)
FreedButLast(t, c, n) ==
  { q \in Player : /\ jailed[q]
                   /\ playerCell[q] \in { d \in JailCells[t] \ {c, n} :
                                            d[2] + 1 < JailWindow[t].max[2] } }

(* _server_action_jailbreak frees the prisoners of team t's jail, the      *)
(* cells c and n excepted.                                                 *)
Freed(t, c, n) == { q \in Player : /\ jailed[q]
                                   /\ playerCell[q] \in JailCells[t] \ {c, n}
                                   /\ cellPlayer[playerCell[q]] = q }

(* _server_game_floor_move to a cell nobody is on.                         *)
FloorMove(p, n) ==
  LET c == playerCell[p]
      t == TeamOf(p)
      freed == IF TypeOf(n) = "jail" /\ TypeOf(c) # "jail" /\ Turf[n] # t
               THEN Freed(OppositeTeam(t), c, n) ELSE {}
  IN  /\ ~jailed[p] /\ TypeOf(n) # "wall" /\ ~Occupied(n)
      /\ jailed' = [q \in Player |-> jailed[q] /\ q \notin freed]
      /\ MovePlayer(p, n)
      /\ obj' = Carry(obj, p, n)
      /\ CrossHome(p, c, n, obj)
      /\ UNCHANGED <<registry, broken, testMode, up>>
      /\ Announce

(* p walks into an opponent on the opponent's turf and is jailed.          *)
WalkIntoTagger(p, n, busy) ==
  LET c == playerCell[p]
      t == TeamOf(p)
      q == cellPlayer[n]
  IN  /\ ~jailed[p] /\ TypeOf(n) # "wall" /\ Occupied(n)
      /\ TeamOf(q) # t /\ ~jailed[q] /\ Turf[n] # t
      /\ \E cell \in Found(JailProbe(OppositeTeam(t), IdOf(p)),
                           Free(busy \cup {c, n})) \ {None} :
           /\ \E o \in Strip(obj, p, busy \cup {c, n, cell}) :
                /\ obj' = Carry(o, p, cell)
                /\ CrossHome(p, c, n, o)
           /\ MovePlayer(p, cell)
      /\ jailed' = [jailed EXCEPT ![p] = TRUE]
      /\ UNCHANGED <<registry, broken, testMode, up>>
      /\ Announce

(* p walks into an opponent on its own turf: the opponent is jailed and p  *)
(* takes the cell.                                                         *)
Tag(p, n, busy) ==
  LET c == playerCell[p]
      t == TeamOf(p)
      q == cellPlayer[n]
  IN  /\ ~jailed[p] /\ TypeOf(n) # "wall" /\ Occupied(n)
      /\ TeamOf(q) # t /\ ~jailed[q] /\ Turf[n] = t
      /\ \E cell \in Found(JailProbe(t, IdOf(q)), Free(busy \cup {c, n})) \ {None} :
           /\ \E o \in Strip(obj, q, busy \cup {c, n, cell}) :
                obj' = Carry(Carry(o, q, cell), p, n)
           /\ playerCell' = [playerCell EXCEPT ![q] = cell, ![p] = n]
           /\ cellPlayer' = [cellPlayer EXCEPT ![c] = None, ![n] = p, ![cell] = q]
      /\ jailed' = [jailed EXCEPT ![q] = TRUE]
      /\ CrossHome(p, c, n, obj)
      /\ UNCHANGED <<registry, broken, testMode, up>>
      /\ Announce
-----------------------------------------------------------------------------
(* The object actions.  They lock the player's cell and the cell in the    *)
(* request, which the client leaves at <<0, 0>>.                           *)
DropFlagHere(p, busy) ==
  /\ obj.flag[p] # None
  /\ obj' \in DropFlag(obj, p, busy \cup {playerCell[p], <<0, 0>>})
  /\ UNCHANGED <<registry, places, homes, broken, testMode, up>>
  /\ Announce

(* _server_action_drop_shovel: only on a cell that holds nothing.          *)
DropShovelHere(p) ==
  LET c == playerCell[p]
      s == obj.shovel[p]
  IN  /\ obj.on[c] = None /\ s # None
      /\ obj' = PutDown(obj, s, p, c)
      /\ UNCHANGED <<registry, places, homes, broken, testMode, up>>
      /\ Announce

(* _server_action_pickup_object: of the kind asked for, one at a time.     *)
PickUp(p, kind) ==
  LET c == playerCell[p]
      x == obj.on[c]
  IN  /\ x # None /\ x[2] = kind
      /\ IF kind = "flag" THEN obj.flag[p] = None ELSE obj.shovel[p] = None
      /\ obj' = PickedUp(obj, x, p, c)
      /\ UNCHANGED <<registry, places, homes, broken, testMode, up>>
      /\ Announce

(* The "teleport" command of the server shell.                             *)
Teleport ==
  /\ (~testMode) \in TestModes
  /\ testMode' = ~testMode
  /\ UNCHANGED <<registry, places, obj, homes, broken, announced, up>>
-----------------------------------------------------------------------------
(* object_init draws a floor cell for a flag and puts a shovel in the last *)
(* corner of the home.  The red objects are placed before the blue ones: a *)
(* flag that lands on the cell of the other one takes its place there.     *)
Starts == { s \in [Object -> Cell] :
              \A x \in Object : IF x[2] = "shovel" THEN s[x] = ShovelStart[x[1]]
                                ELSE s[x] \in FlagPlaces[x[1]] }
OnAt(start) ==
  [c \in Cell |-> LET here == { x \in Object : start[x] = c }
                  IN  IF here = {} THEN None
                      ELSE CHOOSE x \in here : \A y \in here : x[1] >= y[1]]

Init ==
  /\ fd = [p \in Player |-> None]
  /\ count = [t \in Team |-> 0]
  /\ lastTeam = TEAM_RED
  /\ playerCell = [p \in Player |-> None]
  /\ cellPlayer = [c \in Cell |-> None]
  /\ jailed = [p \in Player |-> FALSE]
  /\ \E start \in Starts :
       obj = [cell   |-> start,
              player |-> [x \in Object |-> None],
              on     |-> OnAt(start),
              flag   |-> [p \in Player |-> None],
              shovel |-> [p \in Player |-> None]]
  /\ homeCount = [t \in Team |-> 0]
  /\ homeFlags = [t \in Team |-> 0]
  /\ broken = {}
  /\ testMode = FALSE
  /\ announced = "waiting"
  /\ up = TRUE

Join(f, p, busy) == Hello(f, p, busy) \/ HelloUnplaced(f, p, busy)

Move(p, n, busy) ==
  \/ JailedBump(p, n)
  \/ JailedMove(p, n)
  \/ WallMove(p, n, busy)
  \/ FloorMove(p, n)
  \/ WalkIntoTagger(p, n, busy)
  \/ Tag(p, n, busy)

Handle(p, kind, busy) ==
  \/ Noop(p)
  \/ DropNothing(p, kind)
  \/ DropFlagHere(p, busy)
  \/ DropShovelHere(p)
  \/ PickUp(p, kind)

Request(p, busy) ==
  /\ playerCell[p] # None
  /\ \/ \E n \in Targets(p) : Move(p, n, busy)
     \/ \E kind \in {"flag", "shovel"} : Handle(p, kind, busy)

Connected(p) == fd[p] # None

Next ==
  /\ up
  /\ \/ \E f \in Fd : HelloRefused(f)
     \/ \E f \in Fd, p \in Player, busy \in BusySets : Join(f, p, busy)
     \/ \E p \in Player, busy \in BusySets : Connected(p) /\ Leave(p, busy)
     \/ \E p \in Player, busy \in BusySets : Connected(p) /\ Request(p, busy)
     \/ \E p \in Player : Connected(p) /\ Crash(p)
     \/ Teleport
  /\ \A t \in Team : /\ homeCount'[t] \in -CounterBound .. CounterBound
                     /\ homeFlags'[t] \in -CounterBound .. CounterBound

Spec == Init /\ [][Next]_vars

-----------------------------------------------------------------------------
(* Every variable has its type.                                            *)
TypeOK ==
  /\ fd \in [Player -> Fd \cup {None}]
  /\ count \in [Team -> Int]
  /\ lastTeam \in Team
  /\ playerCell \in [Player -> Cell \cup {None}]
  /\ cellPlayer \in [Cell -> Player \cup {None}]
  /\ jailed \in [Player -> BOOLEAN]
  /\ obj \in ObjType
  /\ homeCount \in [Team -> Int]
  /\ homeFlags \in [Team -> Int]
  /\ broken \subseteq MutableWalls
  /\ testMode \in TestModes
  /\ announced \in GameState
  /\ up \in BOOLEAN

(* player->cell and cell->player are each other's inverse, whatever tags,  *)
(* rescues, walls, teleports and departures do; only a connected player    *)
(* stands anywhere, and never in a wall.                                   *)
OccupancyOK ==
  /\ \A p \in Player : playerCell[p] # None =>
       /\ cellPlayer[playerCell[p]] = p
       /\ fd[p] # None
       /\ TypeOf(playerCell[p]) # "wall"
  /\ \A c \in Cell : cellPlayer[c] # None => playerCell[cellPlayer[c]] = c

(* plist->count is the number of slots in use, and a connection has one    *)
(* slot on one team.                                                       *)
RosterOK ==
  /\ \A t \in Team :
       count[t] = Cardinality({ p \in Player : TeamOf(p) = t /\ fd[p] # None })
  /\ \A p, q \in Player : fd[p] # None /\ fd[p] = fd[q] => p = q

(* As long as the shell leaves teleportation off, a prisoner is on a cell  *)
(* of the other team's jail: no move, wall or rescue lets one out that is  *)
(* still marked as jailed.                                                 *)
JailedInEnemyJail ==
  \A p \in Player : jailed[p] /\ fd[p] # None =>
    playerCell[p] \in JailCells[OppositeTeam(TeamOf(p))]

(* The references between objects, players and cells agree: a carried      *)
(* object is where its one carrier is, an object lying on a cell is        *)
(* carried by nobody, and nothing is carried by a player who left.         *)
LinksOK ==
  /\ \A x \in Object, p \in Player : obj.player[x] = p =>
       /\ x = IF x[2] = "flag" THEN obj.flag[p] ELSE obj.shovel[p]
       /\ fd[p] # None /\ obj.cell[x] = playerCell[p]
  /\ \A p \in Player : /\ obj.flag[p] # None => obj.player[obj.flag[p]] = p
                       /\ obj.shovel[p] # None => obj.player[obj.shovel[p]] = p
  /\ \A c \in Cell : obj.on[c] # None =>
       obj.cell[obj.on[c]] = c /\ obj.player[obj.on[c]] = None

(* game_server.c:640 "The cell is the root of all the objects": an object  *)
(* that nobody carries is found on its cell.                               *)
ObjectReachable ==
  \A x \in Object : obj.player[x] = None => obj.on[obj.cell[x]] = x

(* server-test.c:1081 "not indicate win state unless flags count is 2":    *)
(* when a win is announced, both flags are in the home of the winner.      *)
WinNeedsFlags ==
  \A t \in Team : announced = Wins[t] =>
    \A x \in Object : x[2] = "flag" => obj.cell[x] \in HomeCells[t]

AtHome(t) == { p \in Player : TeamOf(p) = t /\ playerCell[p] \in HomeCells[t] }

(* The home counter never misses a player who is at home: it can only be   *)
(* too high (a player who leaves the game at home stays counted).          *)
HomeCountCovers == \A t \in Team : homeCount[t] >= Cardinality(AtHome(t))

(* Nobody is jailed but by contact with a free opponent, and only when one *)
(* of the two stands on the opponent's turf.                               *)
TaggedInContact ==
  [][\A q \in Player : ~jailed[q] /\ jailed'[q] =>
       \E p \in Player :
         /\ TeamOf(p) # TeamOf(q) /\ ~jailed[p] /\ ~jailed'[p]
         /\ playerCell[p] # None /\ IsNear(playerCell[p], playerCell[q])
         /\ TeamOf(p) \in {Turf[playerCell[p]], Turf[playerCell[q]]}]_vars

(* server-test.c:1029 "correctly free jailed players when moving into      *)
(* enemy jail cell while free": whoever enters the enemy jail as a free    *)
(* player leaves no prisoner of its team behind, wherever they went in it. *)
RescueComplete ==
  [][\A p \in Player :
       LET there == JailCells[OppositeTeam(TeamOf(p))]
       IN  /\ playerCell[p] \in Cell \ there /\ playerCell'[p] \in there
           /\ ~jailed'[p]
           => \A q \in Player : TeamOf(q) = TeamOf(p) /\ fd'[q] # None
                                => ~jailed'[q]]_vars

(* An object that lies somewhere stays there until it is picked up, and    *)
(* one that is carried never passes directly to another player.            *)
MovedByHand ==
  [][\A x \in Object :
       /\ obj.player[x] = None => obj'.cell[x] = obj.cell[x]
       /\ obj.player[x] # None => obj'.player[x] \in {obj.player[x], None}]_vars

(* What the clients of the game rely on, with the positions left out: who  *)
(* is in the game and who is in jail (module Rules).                       *)
Status == [p \in Player |-> IF fd[p] = None THEN "out"
                            ELSE IF jailed[p] THEN "jailed" ELSE "free"]
R == INSTANCE Rules WITH status <- Status
RulesSpec == R!Spec
=============================================================================
