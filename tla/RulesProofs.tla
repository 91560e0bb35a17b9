----------------------------- MODULE RulesProofs ----------------------------
(***************************************************************************)
(* While the shell leaves teleportation off, prisoners stay in the enemy   *)
(* jail, and therefore the game implements module Rules: a rescue frees    *)
(* all the prisoners of the rescuer's team and nobody else.  With          *)
(* teleportation a prisoner may move to the other jail, out of reach of    *)
(* the rescue, and both facts fail.                                        *)
(***************************************************************************)
EXTENDS GameProofs

TeleportOff == TestModes = {FALSE}

(* The inductive invariant of this module.                                 *)
JailInv == TypeOK /\ OccupancyOK /\ JailedInEnemyJail

LEMMA Opposite ==
  ASSUME NEW t \in Team
  PROVE  /\ OppositeTeam(t) \in Team /\ OppositeTeam(t) # t
         /\ OppositeTeam(OppositeTeam(t)) = t
         /\ \A u \in Team : u # t => u = OppositeTeam(t)
BY DEF OppositeTeam, Team, TEAM_RED, TEAM_BLUE

(* The four cells near a cell of a window are in the ring around it, so no *)
(* wall that a shovel can break touches a jail.                            *)
LEMMA NearJailNoWall ==
  ASSUME NEW t \in Team, NEW c \in JailCells[t], NEW n \in Cell, IsNear(c, n)
  PROVE  n \notin MutableWalls
<1>1. JailWindow[t] \in Windows
  BY MapAssumption
<1>2. c \in Cell /\ InWindow(c, JailWindow[t])
  BY DEF JailCells
<1>3. c[1] \in Int /\ c[2] \in Int /\ n[1] \in Int /\ n[2] \in Int
  BY <1>2, MapAssumption DEF Cell
<1>4. InRing(n, JailWindow[t])
  BY <1>1, <1>2, <1>3 DEF InRing, InWindow, IsNear, Windows
<1>. QED
  BY <1>4 DEF MutableWalls

(* A prisoner who moves within the jail type stays in the same jail.       *)
LEMMA NearJailSameJail ==
  ASSUME NEW t \in Team, NEW c \in JailCells[t], NEW n \in Cell, IsNear(c, n),
         TypeOf(n) = "jail"
  PROVE  n \in JailCells[t]
<1>1. CellType[n] = "jail"
  BY DEF TypeOf
<1>. QED
  BY <1>1, MapAssumption

LEMMA JailsApart ==
  ASSUME NEW t \in Team, NEW c \in JailCells[t]
  PROVE  c \in Cell /\ c \notin JailCells[OppositeTeam(t)]
<1>1. c \in Cell
  BY DEF JailCells
<1>. QED
  BY <1>1, Opposite, MapAssumption

LEMMA TargetNear ==
  ASSUME TypeOK, TeleportOff, NEW p \in Player, NEW n \in Targets(p), playerCell[p] # None
  PROVE  n \in Cell /\ IsNear(playerCell[p], n)
<1>1. testMode = FALSE
  BY DEF TypeOK, TeleportOff
<1>2. playerCell[p] \in Cell
  BY DEF TypeOK
<1>. QED
  BY <1>1, <1>2 DEF Targets, Neighbours

LEMMA StillJailed ==
  ASSUME JailedInEnemyJail, UNCHANGED <<fd, playerCell, jailed>>
  PROVE  JailedInEnemyJail'
BY DEF JailedInEnemyJail

LEMMA RequestJailed ==
  ASSUME JailInv, TeleportOff, NEW p \in Player, NEW busy \in BusySets,
         Connected(p), Request(p, busy)
  PROVE  JailedInEnemyJail'
<1>. USE DEF registry, places, homes, JailInv
<1>1. playerCell[p] \in Cell /\ TeamOf(p) \in Team /\ IdOf(p) \in Nat
  BY PlayerShape DEF Request, TypeOK
<1>2. ASSUME Idle(p) PROVE JailedInEnemyJail'
  BY <1>2, StillJailed DEF Idle
<1>3. ASSUME NEW n \in Targets(p), Move(p, n, busy) PROVE JailedInEnemyJail'
  <2>1. n \in Cell /\ IsNear(playerCell[p], n)
    BY <1>1, TargetNear, GameAssumption
  <2>2. CASE JailedBump(p, n)
    BY <1>2, <2>2 DEF JailedBump
  <2>3. CASE JailedMove(p, n)
    <3>1. playerCell[p] \in JailCells[OppositeTeam(TeamOf(p))]
      BY <2>3 DEF JailedMove, JailedInEnemyJail, Connected
    <3>2. TypeOf(n) = "jail"
      BY <2>3 DEF JailedMove
    <3>3. n \in JailCells[OppositeTeam(TeamOf(p))]
      BY <1>1, <2>1, <3>1, <3>2, Opposite, NearJailSameJail
    <3>. QED
      BY <2>3, <3>3 DEF JailedMove, MovePlayer, JailedInEnemyJail, TypeOK
  <2>4. CASE WallMove(p, n, busy)
    <3>1. ~jailed[p]
      BY <1>1, <2>1, <2>4, Opposite, NearJailNoWall
         DEF WallMove, JailedInEnemyJail, Connected
    <3>. QED
      BY <2>4, <3>1 DEF WallMove, MovePlayer, JailedInEnemyJail, TypeOK
  <2>5. CASE FloorMove(p, n)
    <3>1. \A q \in Player : jailed'[q] => jailed[q] /\ q # p
      BY <2>5 DEF FloorMove
    <3>. QED
      BY <2>5, <3>1 DEF FloorMove, MovePlayer, JailedInEnemyJail, TypeOK
  <2>6. CASE WalkIntoTagger(p, n, busy)
    <3>1. PICK cell \in Found(JailProbe(OppositeTeam(TeamOf(p)), IdOf(p)),
                              Free(busy \cup {playerCell[p], n})) \ {None} :
            MovePlayer(p, cell)
      BY <2>6 DEF WalkIntoTagger
    <3>2. cell \in JailCells[OppositeTeam(TeamOf(p))]
      BY <1>1, <3>1, Opposite, JailSpot DEF Free
    <3>3. UNCHANGED fd /\ jailed' = [jailed EXCEPT ![p] = TRUE]
      BY <2>6 DEF WalkIntoTagger
    <3>. QED
      BY <3>1, <3>2, <3>3 DEF MovePlayer, JailedInEnemyJail, TypeOK
  <2>7. CASE Tag(p, n, busy)
    <3>. DEFINE q == cellPlayer[n]
    <3>1. PICK cell \in Found(JailProbe(TeamOf(p), IdOf(q)),
                              Free(busy \cup {playerCell[p], n})) \ {None} :
            playerCell' = [playerCell EXCEPT ![q] = cell, ![p] = n]
      BY <2>7 DEF Tag
    <3>2. q \in Player /\ IdOf(q) \in Nat /\ TeamOf(q) \in Team /\ TeamOf(q) # TeamOf(p)
      BY <2>1, <2>7, PlayerShape DEF Tag, Occupied, TypeOK
    <3>3. cell \in JailCells[TeamOf(p)]
      BY <1>1, <3>1, <3>2, JailSpot DEF Free
    <3>4. OppositeTeam(TeamOf(q)) = TeamOf(p)
      BY <1>1, <3>2, Opposite
    <3>5. UNCHANGED fd /\ jailed' = [jailed EXCEPT ![q] = TRUE] /\ ~jailed[p]
      BY <2>7 DEF Tag
    <3>. QED
      BY <3>1, <3>2, <3>3, <3>4, <3>5 DEF JailedInEnemyJail, TypeOK
  <2>. QED
    BY <1>3, <2>2, <2>3, <2>4, <2>5, <2>6, <2>7 DEF Move
<1>4. ASSUME NEW kind \in {"flag", "shovel"}, Handle(p, kind, busy) PROVE JailedInEnemyJail'
  BY <1>2, <1>4, StillJailed
     DEF Handle, Noop, DropNothing, DropFlagHere, DropShovelHere, PickUp
<1>. QED
  BY <1>3, <1>4 DEF Request

LEMMA JoinJailed ==
  ASSUME JailInv, NEW f \in Fd, NEW p \in Player, NEW busy \in BusySets, Join(f, p, busy)
  PROVE  JailedInEnemyJail'
<1>1. fd' = [fd EXCEPT ![p] = f] /\ jailed' = [jailed EXCEPT ![p] = FALSE]
  BY DEF Join, Hello, HelloUnplaced, Enlist
<1>2. \A q \in Player : q # p => playerCell'[q] = playerCell[q]
  BY DEF Join, Hello, HelloUnplaced, JailInv, TypeOK
<1>. QED
  BY <1>1, <1>2 DEF JailInv, JailedInEnemyJail, TypeOK

LEMMA LeaveJailed ==
  ASSUME JailInv, NEW p \in Player, NEW busy \in BusySets, Leave(p, busy)
  PROVE  JailedInEnemyJail'
BY DEF Leave, JailInv, JailedInEnemyJail, TypeOK

LEMMA NextJailed ==
  ASSUME JailInv, TeleportOff, [Next]_vars
  PROVE  JailInv'
<1>. USE DEF JailInv
<1>1. TypeOK' /\ OccupancyOK'
  BY NextInv DEF Inv
<1>2. JailedInEnemyJail'
  <2>1. CASE UNCHANGED vars
    BY <2>1, StillJailed DEF vars, registry, places
  <2>2. CASE \/ \E f \in Fd : HelloRefused(f)
             \/ \E p \in Player : Crash(p)
             \/ Teleport
    BY <2>2, StillJailed DEF HelloRefused, Crash, Teleport, registry, places
  <2>3. CASE \E f \in Fd, p \in Player, busy \in BusySets : Join(f, p, busy)
    BY <2>3, JoinJailed
  <2>4. CASE \E p \in Player, busy \in BusySets : Connected(p) /\ Leave(p, busy)
    BY <2>4, LeaveJailed
  <2>5. CASE \E p \in Player, busy \in BusySets : Connected(p) /\ Request(p, busy)
    BY <2>5, RequestJailed
  <2>. QED
    BY <2>1, <2>2, <2>3, <2>4, <2>5 DEF Next
<1>. QED
  BY <1>1, <1>2

LEMMA InitJailed == Init => JailInv
<1>1. Init => JailedInEnemyJail
  BY DEF Init, JailedInEnemyJail
<1>. QED
  BY <1>1, InitInv DEF Inv, JailInv

LEMMA AlwaysJailInv == TeleportOff /\ Spec => []JailInv
<1>. SUFFICES ASSUME TeleportOff PROVE Spec => []JailInv
  OBVIOUS
<1>1. JailInv /\ [Next]_vars => JailInv'
  BY NextJailed
<1>. QED
  BY <1>1, InitJailed, PTL DEF Spec

(* Without teleports, whoever is marked as jailed stands in the jail of    *)
(* the other team: the walls around it cannot be broken, a move out of it  *)
(* is refused, and a tag puts its victim nowhere else.                     *)
THEOREM PrisonersStayInJail == TeleportOff /\ Spec => []JailedInEnemyJail
<1>. SUFFICES ASSUME TeleportOff PROVE Spec => []JailedInEnemyJail
  OBVIOUS
<1>1. JailInv => JailedInEnemyJail
  BY DEF JailInv
<1>. QED
  BY <1>1, AlwaysJailInv, PTL
-----------------------------------------------------------------------------
(* The refinement.  Every step but a join, a departure, a tag and a rescue *)
(* leaves Status as it is.                                                 *)
LEMMA StillStatus ==
  ASSUME UNCHANGED <<fd, jailed>>
  PROVE  UNCHANGED Status
BY DEF Status

LEMMA StatusIs ==
  ASSUME NEW p \in Player
  PROVE  Status[p] = IF fd[p] = None THEN "out" ELSE IF jailed[p] THEN "jailed" ELSE "free"
BY DEF Status

(* When p steps onto an empty cell n, the prisoners that a rescue from     *)
(* there frees are those of the team of p.                                 *)
LEMMA FreedTeam ==
  ASSUME JailInv, NEW p \in Player, NEW n \in Cell, playerCell[p] # None, ~jailed[p],
         ~Occupied(n), NEW q \in Player, fd[q] # None, jailed[q]
  PROVE  q \in Freed(OppositeTeam(TeamOf(p)), playerCell[p], n) <=> TeamOf(q) = TeamOf(p)
<1>. USE DEF JailInv
<1>. DEFINE t == TeamOf(p)
            c == playerCell[p]
<1>0. c \in Cell /\ t \in Team
  BY PlayerShape DEF TypeOK
<1>1. TeamOf(q) \in Team /\ playerCell[q] \in JailCells[OppositeTeam(TeamOf(q))]
  BY PlayerShape DEF JailedInEnemyJail
<1>2. playerCell[q] \in Cell
  BY <1>1, Opposite, JailsApart
<1>3. cellPlayer[playerCell[q]] = q
  BY <1>2, GameAssumption DEF OccupancyOK
<1>4. playerCell[q] # c /\ playerCell[q] # n
  BY <1>0, <1>2, <1>3, GameAssumption DEF OccupancyOK, Occupied
<1>5. CASE TeamOf(q) = t
  BY <1>1, <1>3, <1>4, <1>5 DEF Freed
<1>6. CASE TeamOf(q) # t
  <2>1. OppositeTeam(TeamOf(q)) = t
    BY <1>0, <1>1, <1>6, Opposite
  <2>2. playerCell[q] \notin JailCells[OppositeTeam(t)]
    BY <1>0, <1>1, <2>1, JailsApart
  <2>. QED
    BY <1>6, <2>2 DEF Freed
<1>. QED
  BY <1>5, <1>6

LEMMA FloorStatus ==
  ASSUME JailInv, NEW p \in Player, NEW n \in Cell, Connected(p), playerCell[p] # None,
         FloorMove(p, n)
  PROVE  UNCHANGED Status \/ R!Rescue(p)
<1>. USE DEF JailInv
<1>. DEFINE t == TeamOf(p)
            c == playerCell[p]
            rescue == TypeOf(n) = "jail" /\ TypeOf(c) # "jail" /\ Turf[n] # t
<1>1. c \in Cell /\ t \in Team /\ UNCHANGED fd /\ ~jailed[p] /\ ~Occupied(n)
  BY PlayerShape DEF FloorMove, TypeOK, registry
<1>2. CASE ~rescue
  <2>1. jailed' = jailed
    BY <1>2 DEF FloorMove, TypeOK
  <2>. QED
    BY <1>1, <2>1, StillStatus
<1>3. CASE rescue
  <2>1. jailed' = [q \in Player |-> jailed[q] /\ q \notin Freed(OppositeTeam(t), c, n)]
    BY <1>3 DEF FloorMove
  <2>2. ASSUME NEW q \in Player, fd[q] # None, jailed[q]
        PROVE  q \in Freed(OppositeTeam(t), c, n) <=> TeamOf(q) = t
    BY <1>1, <2>2, FreedTeam
  <2>3. Status[p] = "free"
    BY <1>1, StatusIs DEF Connected
  <2>4. ASSUME NEW q \in Player
        PROVE  Status'[q] = IF R!SameTeam(p, q) /\ Status[q] = "jailed"
                            THEN "free" ELSE Status[q]
    <3>1. R!SameTeam(p, q) <=> TeamOf(q) = t
      BY DEF R!SameTeam, TeamOf
    <3>2. Status'[q] = IF fd[q] = None THEN "out" ELSE IF jailed'[q] THEN "jailed" ELSE "free"
      BY <1>1 DEF Status
    <3>3. jailed'[q] <=> jailed[q] /\ q \notin Freed(OppositeTeam(t), c, n)
      BY <2>1
    <3>. QED
      BY <2>2, <3>1, <3>2, <3>3, StatusIs
  <2>5. Status' = [q \in Player |-> IF R!SameTeam(p, q) /\ Status[q] = "jailed"
                                    THEN "free" ELSE Status[q]]
    BY <2>4 DEF Status
  <2>. QED
    BY <2>3, <2>5 DEF R!Rescue
<1>. QED
  BY <1>2, <1>3

(* The one step that takes a free player into the enemy jail is a floor    *)
(* move from outside, and it is a rescue.                                  *)
LEMMA MoveRescues ==
  ASSUME JailInv, TeleportOff, NEW r \in Player, NEW busy \in BusySets, Connected(r),
         playerCell[r] # None, NEW n \in Targets(r), Move(r, n, busy),
         NEW p \in Player,
         playerCell[p] \in Cell \ JailCells[OppositeTeam(TeamOf(p))],
         playerCell'[p] \in JailCells[OppositeTeam(TeamOf(p))], ~jailed'[p],
         NEW q \in Player, TeamOf(q) = TeamOf(p), fd'[q] # None
  PROVE  ~jailed'[q]
<1>. USE DEF registry, places, JailInv
<1>. DEFINE t == TeamOf(p)
            jail == JailCells[OppositeTeam(t)]
            c == playerCell[p]
<1>1. /\ n \in Cell /\ IsNear(playerCell[r], n) /\ playerCell[r] \in Cell
      /\ t \in Team /\ OppositeTeam(t) \in Team /\ OppositeTeam(t) # t
  BY TargetNear, PlayerShape, Opposite DEF TypeOK
<1>2. playerCell'[p] # c
  OBVIOUS
<1>3. jailed \in [Player -> BOOLEAN]
  BY DEF TypeOK
<1>4. \A d \in jail : d \in Cell /\ CellType[d] = "jail" /\ Turf[d] = OppositeTeam(t)
  BY <1>1, MapAssumption DEF JailCells
<1>5. CASE JailedBump(r, n)
  BY <1>2, <1>5 DEF JailedBump, Idle
<1>6. CASE JailedMove(r, n)
  <2>1. r = p /\ jailed[r] /\ UNCHANGED jailed
    BY <1>1, <1>2, <1>6 DEF JailedMove, MovePlayer, TypeOK
  <2>. QED
    BY <2>1
<1>7. CASE WallMove(r, n, busy)
  <2>1. r = p /\ playerCell'[p] = n
    BY <1>1, <1>2, <1>7 DEF WallMove, MovePlayer, TypeOK
  <2>2. Glyph[n] = "#" => CellType[n] = "wall"
    BY <1>1 DEF CellType
  <2>. QED
    BY <1>4, <1>7, <2>1, <2>2 DEF WallMove, MutableWalls
<1>8. CASE WalkIntoTagger(r, n, busy)
  <2>1. jailed' = [jailed EXCEPT ![r] = TRUE] /\ \E cell : MovePlayer(r, cell)
    BY <1>8 DEF WalkIntoTagger
  <2>2. r = p
    BY <1>2, <2>1 DEF MovePlayer, TypeOK
  <2>. QED
    BY <1>3, <2>1, <2>2
<1>9. CASE Tag(r, n, busy)
  <2>. DEFINE u == cellPlayer[n]
  <2>1. /\ jailed' = [jailed EXCEPT ![u] = TRUE] /\ Turf[n] = TeamOf(r)
        /\ \E cell : playerCell' = [playerCell EXCEPT ![u] = cell, ![r] = n]
    BY <1>9 DEF Tag
  <2>2. p # u
    BY <1>3, <2>1
  <2>3. p = r /\ playerCell'[p] = n
    BY <1>2, <2>1, <2>2 DEF TypeOK
  <2>. QED
    BY <1>1, <1>4, <2>1, <2>3
<1>10. CASE FloorMove(r, n)
  <2>1. r = p /\ playerCell'[p] = n /\ UNCHANGED fd /\ ~jailed[p] /\ ~Occupied(n)
    BY <1>1, <1>2, <1>10 DEF FloorMove, MovePlayer, TypeOK
  <2>2. CellType[n] = "jail" /\ Turf[n] # t
    BY <1>1, <1>4, <2>1
  <2>3. TypeOf(n) = "jail"
    BY <1>1, <2>2, JailIsNoWall
  <2>4. IsNear(n, c)
    BY <1>1, <2>1, MapAssumption DEF IsNear, Cell
  <2>5. TypeOf(c) # "jail"
    BY <1>1, <2>1, <2>4, NearJailSameJail
  <2>6. jailed' = [s \in Player |-> jailed[s] /\ s \notin Freed(OppositeTeam(t), c, n)]
    BY <1>10, <2>1, <2>2, <2>3, <2>5 DEF FloorMove
  <2>7. jailed[q] => q \in Freed(OppositeTeam(t), c, n)
    BY <1>1, <2>1, FreedTeam, GameAssumption
  <2>. QED
    BY <2>6, <2>7
<1>. QED
  BY <1>5, <1>6, <1>7, <1>8, <1>9, <1>10 DEF Move

LEMMA TagStatus ==
  ASSUME NEW p \in Player, NEW q \in Player, R!SameTeam(p, q) = FALSE,
         jailed \in [Player -> BOOLEAN], fd[p] # None, fd[q] # None,
         ~jailed[p], ~jailed[q], UNCHANGED fd, jailed' = [jailed EXCEPT ![q] = TRUE]
  PROVE  R!Tag(p, q)
<1>1. Status[p] = "free" /\ Status[q] = "free"
  BY StatusIs
<1>2. ASSUME NEW r \in Player
      PROVE  Status'[r] = IF r = q THEN "jailed" ELSE Status[r]
  BY DEF Status
<1>3. Status' = [Status EXCEPT ![q] = "jailed"]
  BY <1>2 DEF Status
<1>. QED
  BY <1>1, <1>3 DEF R!Tag

LEMMA MoveStatus ==
  ASSUME JailInv, TeleportOff, NEW p \in Player, NEW busy \in BusySets, Connected(p),
         playerCell[p] # None, NEW n \in Targets(p), Move(p, n, busy)
  PROVE  UNCHANGED Status \/ R!Next
<1>. USE DEF registry, places, JailInv
<1>1. n \in Cell /\ IsNear(playerCell[p], n) /\ TeamOf(p) \in Team /\ fd[p] # None
  BY TargetNear, PlayerShape DEF Connected
<1>2. CASE JailedBump(p, n) \/ JailedMove(p, n) \/ WallMove(p, n, busy)
  BY <1>2, StillStatus DEF JailedBump, Idle, JailedMove, WallMove
<1>3. CASE FloorMove(p, n)
  BY <1>1, <1>3, FloorStatus DEF R!Next
<1>4. CASE WalkIntoTagger(p, n, busy) \/ Tag(p, n, busy)
  <2>. DEFINE q == cellPlayer[n]
  <2>1. q \in Player /\ TeamOf(q) # TeamOf(p) /\ ~jailed[p] /\ ~jailed[q] /\ UNCHANGED fd
    BY <1>1, <1>4 DEF WalkIntoTagger, Tag, Occupied, TypeOK
  <2>2. fd[q] # None
    BY <1>1, <2>1, GameAssumption DEF OccupancyOK
  <2>3. R!SameTeam(p, q) = FALSE /\ R!SameTeam(q, p) = FALSE
    BY <2>1 DEF R!SameTeam, TeamOf
  <2>4. jailed \in [Player -> BOOLEAN]
    BY DEF TypeOK
  <2>5. CASE WalkIntoTagger(p, n, busy)
    <3>1. jailed' = [jailed EXCEPT ![p] = TRUE]
      BY <2>5 DEF WalkIntoTagger
    <3>2. R!Tag(q, p)
      BY <1>1, <2>1, <2>2, <2>3, <2>4, <3>1, TagStatus
    <3>. QED
      BY <2>1, <3>2 DEF R!Next
  <2>6. CASE Tag(p, n, busy)
    <3>1. jailed' = [jailed EXCEPT ![q] = TRUE]
      BY <2>6 DEF Tag
    <3>2. R!Tag(p, q)
      BY <1>1, <2>1, <2>2, <2>3, <2>4, <3>1, TagStatus
    <3>. QED
      BY <2>1, <3>2 DEF R!Next
  <2>. QED
    BY <1>4, <2>5, <2>6
<1>. QED
  BY <1>2, <1>3, <1>4 DEF Move

LEMMA JoinStatus ==
  ASSUME JailInv, NEW f \in Fd, NEW p \in Player, NEW busy \in BusySets, Join(f, p, busy)
  PROVE  R!Enter(p)
<1>1. /\ fd[p] = None /\ f # None
      /\ fd' = [fd EXCEPT ![p] = f] /\ jailed' = [jailed EXCEPT ![p] = FALSE]
  BY GameAssumption DEF Join, Hello, HelloUnplaced, Enlist, FirstSlot
<1>2. ASSUME NEW q \in Player
      PROVE  Status'[q] = IF q = p THEN "free" ELSE Status[q]
  <2>1. CASE q = p
    BY <1>1, <2>1 DEF Status, JailInv, TypeOK
  <2>2. CASE q # p
    BY <1>1, <2>2 DEF Status, JailInv, TypeOK
  <2>. QED
    BY <2>1, <2>2
<1>3. Status' = [Status EXCEPT ![p] = "free"]
  BY <1>2 DEF Status
<1>. QED
  BY <1>1, <1>3, StatusIs DEF R!Enter

LEMMA LeaveStatus ==
  ASSUME JailInv, NEW p \in Player, NEW busy \in BusySets, Connected(p), Leave(p, busy)
  PROVE  R!Leave(p)
<1>1. fd' = [fd EXCEPT ![p] = None] /\ UNCHANGED jailed
  BY DEF Leave
<1>2. ASSUME NEW q \in Player
      PROVE  Status'[q] = IF q = p THEN "out" ELSE Status[q]
  BY <1>1 DEF Status, JailInv, TypeOK
<1>3. Status' = [Status EXCEPT ![p] = "out"]
  BY <1>2 DEF Status
<1>4. Status[p] # "out"
  BY StatusIs DEF Connected
<1>. QED
  BY <1>3, <1>4 DEF R!Leave

LEMMA StepImplements ==
  ASSUME JailInv, TeleportOff, [Next]_vars
  PROVE  [R!Next]_Status
<1>. USE DEF registry, places
<1>1. CASE UNCHANGED vars
  BY <1>1, StillStatus DEF vars
<1>2. CASE \/ \E f \in Fd : HelloRefused(f)
           \/ \E p \in Player : Crash(p)
           \/ Teleport
  BY <1>2, StillStatus DEF HelloRefused, Crash, Teleport
<1>3. CASE \E f \in Fd, p \in Player, busy \in BusySets : Join(f, p, busy)
  BY <1>3, JoinStatus DEF R!Next
<1>4. CASE \E p \in Player, busy \in BusySets : Connected(p) /\ Leave(p, busy)
  BY <1>4, LeaveStatus DEF R!Next
<1>5. CASE \E p \in Player, busy \in BusySets : Connected(p) /\ Request(p, busy)
  <2>1. PICK p \in Player, busy \in BusySets : Connected(p) /\ Request(p, busy)
    BY <1>5
  <2>2. CASE \E n \in Targets(p) : Move(p, n, busy)
    BY <2>1, <2>2, MoveStatus DEF Request
  <2>3. CASE \E kind \in {"flag", "shovel"} : Handle(p, kind, busy)
    BY <2>3, StillStatus
       DEF Handle, Noop, DropNothing, Idle, DropFlagHere, DropShovelHere, PickUp
  <2>. QED
    BY <2>1, <2>2, <2>3 DEF Request
<1>. QED
  BY <1>1, <1>2, <1>3, <1>4, <1>5 DEF Next

LEMMA InitImplements == Init => R!Init
BY DEF Init, R!Init, Status

(* Without teleports, and on every map, the server keeps the rules: a free *)
(* opponent jails, one rescue frees the whole team, nobody else changes.   *)
THEOREM GameKeepsRules == TeleportOff /\ Spec => RulesSpec
<1>. SUFFICES ASSUME TeleportOff PROVE Spec => RulesSpec
  OBVIOUS
<1>1. JailInv /\ [Next]_vars => [R!Next]_Status
  BY StepImplements
<1>. QED
  BY <1>1, InitImplements, AlwaysJailInv, PTL DEF Spec, RulesSpec, R!Spec

LEMMA StepRescues ==
  ASSUME JailInv, TeleportOff, [Next]_vars,
         NEW p \in Player,
         playerCell[p] \in Cell \ JailCells[OppositeTeam(TeamOf(p))],
         playerCell'[p] \in JailCells[OppositeTeam(TeamOf(p))], ~jailed'[p],
         NEW q \in Player, TeamOf(q) = TeamOf(p), fd'[q] # None
  PROVE  ~jailed'[q]
<1>. USE DEF registry, places, JailInv
<1>0. playerCell'[p] # playerCell[p] /\ playerCell[p] # None /\ playerCell'[p] # None
  BY PlayerShape, Opposite, JailsApart, GameAssumption
<1>1. CASE UNCHANGED vars
  BY <1>0, <1>1 DEF vars
<1>2. CASE \/ \E f \in Fd : HelloRefused(f)
           \/ \E r \in Player : Crash(r)
           \/ Teleport
  BY <1>0, <1>2 DEF HelloRefused, Crash, Teleport
<1>3. CASE \E f \in Fd, r \in Player, busy \in BusySets : Join(f, r, busy)
  <2>1. PICK f \in Fd, r \in Player, busy \in BusySets : Join(f, r, busy)
    BY <1>3
  <2>2. fd[r] = None /\ \E c : playerCell' = [playerCell EXCEPT ![r] = c]
    BY <2>1 DEF Join, Hello, HelloUnplaced, Enlist, FirstSlot
  <2>3. r # p
    BY <1>0, <2>2 DEF OccupancyOK
  <2>. QED
    BY <1>0, <2>2, <2>3 DEF TypeOK
<1>4. CASE \E r \in Player, busy \in BusySets : Connected(r) /\ Leave(r, busy)
  BY <1>0, <1>4 DEF Leave, TypeOK
<1>5. CASE \E r \in Player, busy \in BusySets : Connected(r) /\ Request(r, busy)
  <2>1. PICK r \in Player, busy \in BusySets : Connected(r) /\ Request(r, busy)
    BY <1>5
  <2>2. CASE \E n \in Targets(r) : Move(r, n, busy)
    BY <2>1, <2>2, MoveRescues DEF Request
  <2>3. CASE \E kind \in {"flag", "shovel"} : Handle(r, kind, busy)
    BY <1>0, <2>3
       DEF Handle, Noop, DropNothing, Idle, DropFlagHere, DropShovelHere, PickUp
  <2>. QED
    BY <2>1, <2>2, <2>3 DEF Request
<1>. QED
  BY <1>1, <1>2, <1>3, <1>4, <1>5 DEF Next

(* Without teleports, a free player who enters the enemy jail leaves no    *)
(* prisoner of its team behind (_server_action_jailbreak).                 *)
THEOREM RescuesAreComplete == TeleportOff /\ Spec => RescueComplete
<1>. DEFINE A == \A p \in Player :
                   LET there == JailCells[OppositeTeam(TeamOf(p))]
                   IN  /\ playerCell[p] \in Cell \ there /\ playerCell'[p] \in there
                       /\ ~jailed'[p]
                       => \A q \in Player : TeamOf(q) = TeamOf(p) /\ fd'[q] # None
                                            => ~jailed'[q]
<1>. SUFFICES ASSUME TeleportOff PROVE Spec => RescueComplete
  OBVIOUS
<1>1. JailInv /\ [Next]_vars => [A]_vars
  BY StepRescues
<1>. QED
  BY <1>1, AlwaysJailInv, PTL DEF Spec, RescueComplete
-----------------------------------------------------------------------------
(* Who is jailed has met an opponent (TaggedInContact).                    *)
Contact(p, q) ==
  /\ TeamOf(p) # TeamOf(q) /\ ~jailed[p] /\ ~jailed'[p]
  /\ playerCell[p] # None /\ IsNear(playerCell[p], playerCell[q])
  /\ TeamOf(p) \in {Turf[playerCell[p]], Turf[playerCell[q]]}

LEMMA NearBothWays ==
  ASSUME NEW c \in Cell, NEW n \in Cell, IsNear(c, n)
  PROVE  IsNear(n, c)
<1>1. c[1] \in Int /\ c[2] \in Int /\ n[1] \in Int /\ n[2] \in Int
  BY MapAssumption DEF Cell
<1>. QED
  BY <1>1 DEF IsNear

(* The player on the cell that p walks to is connected and stands there.   *)
LEMMA MoveTags ==
  ASSUME TypeOK, OccupancyOK, TeleportOff, NEW p \in Player, NEW busy \in BusySets,
         playerCell[p] # None, NEW n \in Targets(p), Move(p, n, busy),
         NEW q \in Player, ~jailed[q], jailed'[q]
  PROVE  \E r \in Player : Contact(r, q)
<1>1. n \in Cell /\ playerCell[p] \in Cell /\ IsNear(playerCell[p], n)
  BY TargetNear DEF TypeOK
<1>2. CASE JailedBump(p, n) \/ JailedMove(p, n) \/ WallMove(p, n, busy) \/ FloorMove(p, n)
  BY <1>2 DEF JailedBump, Idle, places, JailedMove, WallMove, FloorMove
<1>. DEFINE r == cellPlayer[n]
<1>3. ASSUME Occupied(n) PROVE r \in Player /\ playerCell[r] = n /\ n # None
  BY <1>1, <1>3, GameAssumption DEF Occupied, OccupancyOK, TypeOK
<1>4. CASE WalkIntoTagger(p, n, busy)
  <2>1. /\ Occupied(n) /\ TeamOf(r) # TeamOf(p) /\ ~jailed[r] /\ Turf[n] # TeamOf(p)
        /\ jailed' = [jailed EXCEPT ![p] = TRUE]
    BY <1>4 DEF WalkIntoTagger
  <2>2. q = p /\ ~jailed'[r]
    BY <1>3, <2>1 DEF TypeOK
  <2>3. IsNear(n, playerCell[p])
    BY <1>1, NearBothWays
  <2>4. Turf[n] = TeamOf(r)
    <3>1. Turf[n] \in Team
      BY <1>1 DEF Turf, Team
    <3>. QED
      BY <1>3, <2>1, <3>1, PlayerShape DEF Team
  <2>. QED
    BY <1>3, <2>1, <2>2, <2>3, <2>4 DEF Contact
<1>5. CASE Tag(p, n, busy)
  <2>1. /\ Occupied(n) /\ TeamOf(r) # TeamOf(p) /\ ~jailed[p] /\ Turf[n] = TeamOf(p)
        /\ jailed' = [jailed EXCEPT ![r] = TRUE]
    BY <1>5 DEF Tag
  <2>2. q = r /\ ~jailed'[p]
    BY <1>3, <2>1 DEF TypeOK
  <2>. QED
    BY <1>1, <1>3, <2>1, <2>2 DEF Contact
<1>. QED
  BY <1>2, <1>4, <1>5 DEF Move

LEMMA StepTags ==
  ASSUME TypeOK, OccupancyOK, TeleportOff, [Next]_vars,
         NEW q \in Player, ~jailed[q], jailed'[q]
  PROVE  \E p \in Player : Contact(p, q)
<1>1. CASE \/ UNCHANGED vars
           \/ \E f \in Fd : HelloRefused(f)
           \/ \E p \in Player, busy \in BusySets : Connected(p) /\ Leave(p, busy)
           \/ \E p \in Player : Connected(p) /\ Crash(p)
           \/ Teleport
  BY <1>1 DEF vars, places, HelloRefused, Leave, Crash, Teleport
<1>2. CASE \E f \in Fd, p \in Player, busy \in BusySets : Join(f, p, busy)
  BY <1>2 DEF Join, Hello, HelloUnplaced, Enlist, TypeOK
<1>3. CASE \E p \in Player, busy \in BusySets : Connected(p) /\ Request(p, busy)
  <2>1. PICK p \in Player, busy \in BusySets : Connected(p) /\ Request(p, busy)
    BY <1>3
  <2>2. CASE \E n \in Targets(p) : Move(p, n, busy)
    BY <2>1, <2>2, MoveTags DEF Request
  <2>3. CASE \E kind \in {"flag", "shovel"} : Handle(p, kind, busy)
    BY <2>3
    DEF Handle, Noop, DropNothing, Idle, DropFlagHere, DropShovelHere, PickUp, places
  <2>. QED
    BY <2>1, <2>2, <2>3 DEF Request
<1>. QED
  BY <1>1, <1>2, <1>3 DEF Next

(* Without teleports, nobody is jailed but by a free opponent next to it,  *)
(* one of the two standing on the opponent's turf (_server_game_floor_move *)
(* and _server_action_jail_player).                                        *)
THEOREM TagsAreContacts == TeleportOff /\ Spec => TaggedInContact
<1>. DEFINE A == \A q \in Player : ~jailed[q] /\ jailed'[q] =>
                   \E p \in Player :
                     /\ TeamOf(p) # TeamOf(q) /\ ~jailed[p] /\ ~jailed'[p]
                     /\ playerCell[p] # None /\ IsNear(playerCell[p], playerCell[q])
                     /\ TeamOf(p) \in {Turf[playerCell[p]], Turf[playerCell[q]]}
<1>. SUFFICES ASSUME TeleportOff PROVE Spec => TaggedInContact
  OBVIOUS
<1>1. Inv /\ [Next]_vars => [A]_vars
  BY StepTags DEF Contact, Inv
<1>2. Spec => []Inv
  BY InitInv, NextInv, PTL DEF Spec
<1>. QED
  BY <1>1, <1>2, PTL DEF Spec, TaggedInContact
-----------------------------------------------------------------------------
(* The home counters.  As on the map files, every home cell of a team's    *)
(* turf is in the window of its home, and no two homes touch: a player     *)
(* leaves one home before it enters another.                               *)
HomesApart ==
  \A c \in Cell : CellType[c] = "home" =>
    /\ c \in HomeCells[Turf[c]]
    /\ \A n \in Cell : IsNear(c, n) /\ CellType[n] = "home" => Turf[n] = Turf[c]

(* The players at home are finitely many, as they come one by one.         *)
HomeInv == HomeCountCovers /\ \A t \in Team : IsFiniteSet(AtHome(t))

LEMMA HomeIsHome ==
  ASSUME TypeOK, HomesApart, NEW c \in Cell, NEW t \in Team
  PROVE  /\ TypeOf(c) = "home" <=> CellType[c] = "home"
         /\ c \in HomeCells[t] <=> CellType[c] = "home" /\ Turf[c] = t
<1>1. Glyph[c] = "#" => CellType[c] = "wall"
  BY DEF CellType
<1>2. TypeOf(c) = "home" <=> CellType[c] = "home"
  BY <1>1 DEF TypeOK, TypeOf, MutableWalls
<1>. QED
  BY <1>2, MapAssumption DEF HomesApart

(* Counting the players at home before and after p comes or goes.          *)
LEMMA CountHome ==
  ASSUME NEW S, IsFiniteSet(S), NEW p, NEW k \in Int, k >= Cardinality(S)
  PROVE  /\ IsFiniteSet(S \cup {p}) /\ IsFiniteSet(S \ {p})
         /\ k + 1 >= Cardinality(S \cup {p}) /\ k >= Cardinality(S \ {p})
         /\ p \in S => k - 1 >= Cardinality(S \ {p})
<1>1. Cardinality(S) \in Nat
  BY FS_CardinalityType
<1>2. /\ IsFiniteSet(S \cup {p})
      /\ Cardinality(S \cup {p}) = IF p \in S THEN Cardinality(S) ELSE Cardinality(S) + 1
  BY FS_AddElement
<1>3. /\ IsFiniteSet(S \ {p})
      /\ Cardinality(S \ {p}) = IF p \in S THEN Cardinality(S) - 1 ELSE Cardinality(S)
  BY FS_RemoveElement
<1>. QED
  BY <1>1, <1>2, <1>3

(* A player that leaves the cell of a home for one that is no home cell of *)
(* its own, or never was at home.                                          *)
LEMMA GoneFromHome ==
  ASSUME TypeOK, HomeInv, NEW p \in Player, NEW k \in [Team -> Int],
         \A t \in Team : k[t] >= homeCount[t] \/ (t = TeamOf(p) /\ p \in AtHome(t)
                                                   /\ k[t] = homeCount[t] - 1),
         homeCount' = k, \A t \in Team : AtHome(t)' = AtHome(t) \ {p}
  PROVE  HomeInv'
<1>1. ASSUME NEW t \in Team
      PROVE  homeCount'[t] >= Cardinality(AtHome(t)') /\ IsFiniteSet(AtHome(t)')
  <2>1. homeCount[t] \in Int /\ homeCount[t] >= Cardinality(AtHome(t)) /\ IsFiniteSet(AtHome(t))
    BY DEF HomeInv, HomeCountCovers, TypeOK
  <2>2. /\ IsFiniteSet(AtHome(t) \ {p}) /\ homeCount[t] >= Cardinality(AtHome(t) \ {p})
        /\ p \in AtHome(t) => homeCount[t] - 1 >= Cardinality(AtHome(t) \ {p})
    BY <2>1, CountHome
  <2>3. Cardinality(AtHome(t) \ {p}) \in Nat /\ k[t] \in Int
    BY <2>2, FS_CardinalityType
  <2>4. AtHome(t)' = AtHome(t) \ {p} /\ homeCount'[t] = k[t]
    OBVIOUS
  <2>5. k[t] >= Cardinality(AtHome(t) \ {p})
    BY <2>1, <2>2, <2>3
  <2>. QED
    BY <2>2, <2>4, <2>5, Zenon
<1>. QED
  BY <1>1 DEF HomeInv, HomeCountCovers

(* A player that steps from one cell to the next, while nobody else comes  *)
(* home or leaves home.                                                    *)
LEMMA StepHome ==
  ASSUME TypeOK, OccupancyOK, HomesApart, HomeInv, NEW p \in Player, NEW n \in Cell,
         playerCell[p] \in Cell, IsNear(playerCell[p], n), playerCell'[p] = n,
         \A t \in Team : AtHome(t) \ {p} = AtHome(t)' \ {p},
         NEW o, CrossHome(p, playerCell[p], n, o)
  PROVE  HomeInv'
<1>. DEFINE c == playerCell[p]
            u == TeamOf(p)
            step == IF TypeOf(c) # "home" /\ TypeOf(n) = "home" /\ Turf[n] = u THEN 1
                    ELSE IF TypeOf(c) = "home" /\ TypeOf(n) # "home" /\ Turf[c] = u
                    THEN -1 ELSE 0
<1>1. u \in Team
  BY PlayerShape
<1>2. homeCount' = [homeCount EXCEPT ![u] = @ + step]
  BY DEF CrossHome
<1>3. /\ c \in HomeCells[u] <=> TypeOf(c) = "home" /\ Turf[c] = u
      /\ n \in HomeCells[u] <=> TypeOf(n) = "home" /\ Turf[n] = u
      /\ TypeOf(c) = "home" /\ TypeOf(n) = "home" => Turf[n] = Turf[c]
  BY <1>1, HomeIsHome DEF HomesApart
<1>4. \A t \in Team : t # u => p \notin AtHome(t) /\ p \notin AtHome(t)'
  BY DEF AtHome
<1>5. \A t \in Team : t # u => AtHome(t)' = AtHome(t)
  BY <1>4
<1>6. p \in AtHome(u) <=> c \in HomeCells[u]
  BY DEF AtHome
<1>7. CASE n \in HomeCells[u]
  <2>1. AtHome(u)' = AtHome(u) \cup {p}
    <3>1. p \in AtHome(u)'
      BY <1>7 DEF AtHome
    <3>. QED
      BY <1>1, <3>1
  <2>2. step = IF c \in HomeCells[u] THEN 0 ELSE 1
    BY <1>3, <1>7
  <2>3. homeCount[u] \in Int /\ homeCount[u] >= Cardinality(AtHome(u)) /\ IsFiniteSet(AtHome(u))
    BY <1>1 DEF HomeInv, HomeCountCovers, TypeOK
  <2>4. homeCount'[u] = homeCount[u] + step
        /\ \A t \in Team : t # u => homeCount'[t] = homeCount[t]
    BY <1>1, <1>2 DEF TypeOK
  <2>. HIDE DEF step, u
  <2>5. homeCount'[u] >= Cardinality(AtHome(u) \cup {p}) /\ IsFiniteSet(AtHome(u) \cup {p})
    <3>1. CASE p \in AtHome(u)
      <4>1. AtHome(u) \cup {p} = AtHome(u)
        BY <3>1
      <4>2. homeCount'[u] = homeCount[u]
        BY <1>6, <2>2, <2>3, <2>4, <3>1
      <4>. QED
        BY <2>3, <4>1, <4>2, Zenon
    <3>2. CASE p \notin AtHome(u)
      <4>1. homeCount'[u] = homeCount[u] + 1
        BY <1>6, <2>2, <2>4, <3>2
      <4>2. homeCount[u] + 1 >= Cardinality(AtHome(u) \cup {p}) /\ IsFiniteSet(AtHome(u) \cup {p})
        BY <2>3, CountHome
      <4>. QED
        BY <4>1, <4>2
    <3>. QED
      BY <3>1, <3>2
  <2>6. ASSUME NEW t \in Team
        PROVE  homeCount'[t] >= Cardinality(AtHome(t)') /\ IsFiniteSet(AtHome(t)')
    <3>1. CASE t = u
      BY <2>1, <2>5, <3>1, Zenon
    <3>2. CASE t # u
      <4>1. AtHome(t)' = AtHome(t)
        BY <1>5, <3>2, Zenon
      <4>2. homeCount'[t] = homeCount[t]
        BY <2>4, <3>2
      <4>3. homeCount[t] >= Cardinality(AtHome(t)) /\ IsFiniteSet(AtHome(t))
        BY DEF HomeInv, HomeCountCovers
      <4>. QED
        BY <4>1, <4>2, <4>3, Zenon
    <3>. QED
      BY <3>1, <3>2
  <2>. QED
    BY <2>6 DEF HomeInv, HomeCountCovers
<1>8. CASE n \notin HomeCells[u]
  <2>1. \A t \in Team : AtHome(t)' = AtHome(t) \ {p}
    <3>1. p \notin AtHome(u)'
      BY <1>8 DEF AtHome
    <3>. QED
      BY <1>4, <3>1
  <2>2. step = IF c \in HomeCells[u] /\ TypeOf(n) # "home" THEN -1 ELSE 0
    BY <1>3, <1>8
  <2>3. homeCount' \in [Team -> Int]
    BY <1>1, CrossType
  <2>4. homeCount'[u] = homeCount[u] + step
        /\ \A t \in Team : t # u => homeCount'[t] = homeCount[t]
    BY <1>1, <1>2 DEF TypeOK
  <2>5. \A t \in Team : homeCount'[t] >= homeCount[t]
                        \/ (t = TeamOf(p) /\ p \in AtHome(t) /\ homeCount'[t] = homeCount[t] - 1)
    <3>1. CASE step = 0
      BY <2>4, <3>1 DEF TypeOK
    <3>2. CASE step # 0
      <4>1. step = -1 /\ p \in AtHome(u)
        BY <1>6, <2>2, <3>2
      <4>. QED
        BY <2>4, <4>1 DEF TypeOK
    <3>. QED
      BY <3>1, <3>2
  <2>. QED
    BY <2>1, <2>3, <2>5, GoneFromHome
<1>. QED
  BY <1>7, <1>8

LEMMA MoveHome ==
  ASSUME TypeOK, OccupancyOK, HomesApart, HomeInv, NEW p \in Player, NEW n \in Cell,
         playerCell[p] \in Cell, IsNear(playerCell[p], n),
         MovePlayer(p, n), NEW o, CrossHome(p, playerCell[p], n, o)
  PROVE  HomeInv'
<1>1. playerCell'[p] = n /\ \A r \in Player \ {p} : playerCell'[r] = playerCell[r]
  BY DEF MovePlayer, TypeOK
<1>2. \A t \in Team : AtHome(t) \ {p} = AtHome(t)' \ {p}
  BY <1>1 DEF AtHome
<1>. QED
  BY <1>1, <1>2, StepHome

LEMMA StillHome ==
  ASSUME HomeInv, UNCHANGED <<homeCount, playerCell>>
  PROVE  HomeInv'
<1>1. \A t \in Team : AtHome(t)' = AtHome(t)
  BY DEF AtHome
<1>. QED
  BY <1>1 DEF HomeInv, HomeCountCovers

LEMMA RequestHome ==
  ASSUME TeleportOff, TypeOK, OccupancyOK, HomesApart, HomeInv, NEW p \in Player,
         NEW busy \in BusySets, Request(p, busy)
  PROVE  HomeInv'
<1>. USE DEF registry, places, homes
<1>1. playerCell[p] \in Cell /\ TeamOf(p) \in Team /\ IdOf(p) \in Nat
  BY PlayerShape DEF Request, TypeOK
<1>2. ASSUME Idle(p) PROVE HomeInv'
  BY <1>2, StillHome DEF Idle
<1>3. ASSUME NEW n \in Targets(p), Move(p, n, busy) PROVE HomeInv'
  <2>1. n \in Cell /\ IsNear(playerCell[p], n)
    BY <1>1, TargetNear, GameAssumption
  <2>2. CASE JailedBump(p, n)
    BY <1>2, <2>2 DEF JailedBump
  <2>3. CASE JailedMove(p, n)
    BY <1>1, <2>1, <2>3, MoveHome DEF JailedMove
  <2>4. CASE WallMove(p, n, busy)
    BY <1>1, <2>1, <2>4, MoveHome DEF WallMove
  <2>5. CASE FloorMove(p, n)
    BY <1>1, <2>1, <2>5, MoveHome DEF FloorMove
  <2>6. CASE WalkIntoTagger(p, n, busy)
    <3>. DEFINE c == playerCell[p]
                u == TeamOf(p)
    <3>1. PICK cell \in Found(JailProbe(OppositeTeam(u), IdOf(p)),
                              Free(busy \cup {c, n})) \ {None} :
            /\ \E o : CrossHome(p, c, n, o)
            /\ MovePlayer(p, cell)
      BY <2>6 DEF WalkIntoTagger
    <3>2. cell \in Cell /\ CellType[cell] = "jail"
      BY <1>1, <3>1, Opposite, JailSpot DEF Free
    <3>3. PICK o : CrossHome(p, c, n, o)
      BY <3>1
    <3>4. playerCell' = [playerCell EXCEPT ![p] = cell]
      BY <3>1 DEF MovePlayer
    <3>5. \A t \in Team : AtHome(t)' = AtHome(t) \ {p}
      BY <3>2, <3>4, HomeIsHome DEF AtHome, TypeOK
    <3>6. homeCount' \in [Team -> Int]
      BY <1>1, <3>3, CrossType
    <3>7. \A t \in Team : homeCount'[t] >= homeCount[t]
                          \/ (t = u /\ p \in AtHome(t) /\ homeCount'[t] = homeCount[t] - 1)
      <4>1. TypeOf(c) = "home" /\ Turf[c] = u => p \in AtHome(u)
        BY <1>1, HomeIsHome DEF AtHome
      <4>. QED
        BY <1>1, <3>3, <4>1 DEF CrossHome, TypeOK
    <3>. QED
      BY <3>5, <3>6, <3>7, GoneFromHome
  <2>7. CASE Tag(p, n, busy)
    <3>. DEFINE q == cellPlayer[n]
                    <3>1. PICK cell \in Found(JailProbe(TeamOf(p), IdOf(q)),
                              Free(busy \cup {playerCell[p], n})) \ {None} :
            playerCell' = [playerCell EXCEPT ![q] = cell, ![p] = n]
      BY <2>7 DEF Tag
    <3>2. q \in Player /\ IdOf(q) \in Nat /\ TeamOf(q) \in Team /\ TeamOf(q) # TeamOf(p)
          /\ playerCell[q] = n
      BY <2>1, <2>7, PlayerShape DEF Tag, Occupied, TypeOK, OccupancyOK
    <3>3. cell \in Cell /\ CellType[cell] = "jail"
      BY <1>1, <3>1, <3>2, JailSpot DEF Free
    <3>4. \A t \in Team : q \notin AtHome(t) /\ q \notin AtHome(t)'
      BY <2>1, <2>7, <3>1, <3>2, <3>3, HomeIsHome DEF AtHome, Tag, TypeOK
    <3>5. CrossHome(p, playerCell[p], n, obj)
      BY <2>7 DEF Tag
    <3>6. \A r \in Player \ {p, q} : playerCell'[r] = playerCell[r]
      BY <3>1 DEF TypeOK
    <3>7. \A t \in Team : AtHome(t) \ {p} = AtHome(t)' \ {p}
      BY <3>4, <3>6 DEF AtHome
    <3>8. playerCell'[p] = n
      BY <3>1, <3>2 DEF TypeOK
    <3>. QED
      BY <1>1, <2>1, <3>5, <3>7, <3>8, StepHome
  <2>. QED
    BY <1>3, <2>2, <2>3, <2>4, <2>5, <2>6, <2>7 DEF Move
<1>4. ASSUME NEW kind \in {"flag", "shovel"}, Handle(p, kind, busy) PROVE HomeInv'
  BY <1>2, <1>4, StillHome
     DEF Handle, Noop, DropNothing, DropFlagHere, DropShovelHere, PickUp
<1>. QED
  BY <1>3, <1>4 DEF Request

LEMMA JoinHome ==
  ASSUME TypeOK, OccupancyOK, HomesApart, HomeInv, NEW f \in Fd, NEW p \in Player,
         NEW busy \in BusySets, Join(f, p, busy)
  PROVE  HomeInv'
<1>1. fd[p] = None /\ TeamOf(p) = NextTeam
  BY DEF Join, Hello, HelloUnplaced, Enlist, FirstSlot
<1>2. playerCell[p] = None
  BY <1>1 DEF OccupancyOK
<1>3. CASE HelloUnplaced(f, p, busy)
  <2>1. UNCHANGED <<homeCount, playerCell>>
    BY <1>2, <1>3 DEF HelloUnplaced, TypeOK, homes
  <2>. QED
    BY <2>1, StillHome
<1>4. CASE Hello(f, p, busy)
  <2>1. PICK c \in Found(HomeProbe(NextTeam, IdOf(p)), Free(busy)) \ {None} :
          playerCell' = [playerCell EXCEPT ![p] = c]
    BY <1>4 DEF Hello
  <2>2. \A r \in Player \ {p} : playerCell'[r] = playerCell[r]
    BY <2>1 DEF TypeOK
  <2>3. NextTeam \in Team
    BY DEF NextTeam, OppositeTeam, Team
  <2>4. homeCount'[NextTeam] = homeCount[NextTeam] + 1
        /\ \A t \in Team : t # NextTeam => homeCount'[t] = homeCount[t]
    BY <1>4, <2>3 DEF Hello, TypeOK
  <2>5. ASSUME NEW t \in Team
        PROVE  homeCount'[t] >= Cardinality(AtHome(t)') /\ IsFiniteSet(AtHome(t)')
    <3>1. /\ homeCount[t] \in Int /\ homeCount[t] >= Cardinality(AtHome(t))
          /\ IsFiniteSet(AtHome(t))
      BY DEF HomeInv, HomeCountCovers, TypeOK
    <3>2. /\ IsFiniteSet(AtHome(t) \cup {p}) /\ IsFiniteSet(AtHome(t) \ {p})
          /\ homeCount[t] + 1 >= Cardinality(AtHome(t) \cup {p})
          /\ homeCount[t] >= Cardinality(AtHome(t) \ {p})
      BY <3>1, CountHome
    <3>3. CASE t # NextTeam
      <4>1. AtHome(t)' = AtHome(t) \ {p}
        BY <1>1, <2>2, <3>3 DEF AtHome
      <4>. QED
        BY <2>4, <3>2, <3>3, <4>1, Zenon
    <3>4. CASE t = NextTeam
      <4>1. homeCount'[t] = homeCount[t] + 1
        BY <2>4, <3>4
      <4>2. CASE p \in AtHome(t)'
        <5>1. AtHome(t)' = AtHome(t) \cup {p}
          BY <2>2, <4>2 DEF AtHome
        <5>. QED
          BY <3>2, <4>1, <5>1, Zenon
      <4>3. CASE p \notin AtHome(t)'
        <5>1. AtHome(t)' = AtHome(t) \ {p}
          BY <2>2, <4>3 DEF AtHome
        <5>2. Cardinality(AtHome(t) \ {p}) \in Int
          BY <3>2, FS_CardinalityType
        <5>3. homeCount[t] + 1 >= Cardinality(AtHome(t) \ {p})
          BY <3>1, <3>2, <5>2
        <5>. QED
          BY <3>2, <4>1, <5>1, <5>3, Zenon
      <4>. QED
        BY <4>2, <4>3
    <3>. QED
      BY <3>3, <3>4
  <2>. QED
    BY <2>5 DEF HomeInv, HomeCountCovers
<1>. QED
  BY <1>3, <1>4 DEF Join

LEMMA LeaveHome ==
  ASSUME TypeOK, HomeInv, NEW p \in Player, NEW busy \in BusySets, Leave(p, busy)
  PROVE  HomeInv'
<1>1. UNCHANGED homeCount /\ playerCell' = [playerCell EXCEPT ![p] = None]
  BY DEF Leave, homes
<1>2. None \notin Cell
  BY GameAssumption
<1>3. \A t \in Team : AtHome(t)' = AtHome(t) \ {p}
  BY <1>1, <1>2 DEF AtHome, TypeOK, HomeCells
<1>4. homeCount' \in [Team -> Int] /\ \A t \in Team : homeCount'[t] >= homeCount[t]
  BY <1>1 DEF TypeOK
<1>. QED
  BY <1>3, <1>4, GoneFromHome

LEMMA InitHome == Init => HomeInv
<1>. SUFFICES ASSUME Init PROVE HomeInv
  OBVIOUS
<1>1. \A t \in Team : AtHome(t) = {} /\ homeCount[t] = 0
  BY GameAssumption DEF Init, AtHome, HomeCells
<1>2. IsFiniteSet({}) /\ Cardinality({}) = 0
  BY FS_EmptySet
<1>3. \A t \in Team : homeCount[t] >= Cardinality(AtHome(t)) /\ IsFiniteSet(AtHome(t))
  BY <1>1, <1>2
<1>. QED
  BY <1>3 DEF HomeInv, HomeCountCovers

LEMMA NextHome ==
  ASSUME TeleportOff, HomesApart, Inv, HomeInv, [Next]_vars
  PROVE  HomeInv'
<1>. USE DEF Inv
<1>1. CASE \E f \in Fd, p \in Player, busy \in BusySets : Join(f, p, busy)
  BY <1>1, JoinHome
<1>2. CASE \E p \in Player, busy \in BusySets : Connected(p) /\ Leave(p, busy)
  BY <1>2, LeaveHome
<1>3. CASE \E p \in Player, busy \in BusySets : Connected(p) /\ Request(p, busy)
  BY <1>3, RequestHome
<1>4. CASE \/ UNCHANGED vars \/ \E f \in Fd : HelloRefused(f)
           \/ \E p \in Player : Connected(p) /\ Crash(p)
           \/ Teleport
  <2>1. UNCHANGED <<homeCount, playerCell>>
    BY <1>4 DEF vars, places, homes, HelloRefused, Crash, Teleport
  <2>. QED
    BY <2>1, StillHome
<1>. QED
  BY <1>1, <1>2, <1>3, <1>4 DEF Next

(* Without teleports and with the homes apart, the counter that decides    *)
(* the win never misses a player at home, over joins, moves, walls, tags,  *)
(* rescues and departures: it is exact or too high.                        *)
THEOREM HomeIsCounted == TeleportOff /\ HomesApart /\ Spec => []HomeCountCovers
<1>. SUFFICES ASSUME TeleportOff, HomesApart PROVE Spec => []HomeCountCovers
  OBVIOUS
<1>1. Spec => []Inv
  BY InitInv, NextInv, PTL DEF Spec
<1>2. Inv /\ HomeInv /\ [Next]_vars => HomeInv'
  BY NextHome
<1>3. Spec => []HomeInv
  BY <1>1, <1>2, InitHome, PTL DEF Spec
<1>. QED
  BY <1>3, PTL DEF HomeInv
=============================================================================
