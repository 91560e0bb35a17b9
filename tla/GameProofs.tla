----------------------------- MODULE GameProofs -----------------------------
(***************************************************************************)
(* Proofs about module Game, for every map that satisfies MapAssumption,   *)
(* every set of connections and every pattern of contention.               *)
(***************************************************************************)
EXTENDS Game, FiniteSetTheorems, NaturalsInduction, WellFoundedInduction, TLAPS

(* A window hash never leaves its window: the searches for a home cell and *)
(* a jail cell try cells of that home and that jail only.                  *)
LEMMA HashInWindow ==
  ASSUME NEW w \in Windows, Width(w) > 0, Height(w) > 0, NEW key \in Nat
  PROVE  InWindow(WindowHash(w, key), w)
<1>1. Width(w) \in Nat \ {0} /\ Height(w) \in Nat \ {0}
  BY DEF Windows, Width, Height
<1>2. key % Width(w) \in 0 .. Width(w) - 1
  BY <1>1
<1>3. key \div Width(w) \in Nat
  BY <1>1
<1>4. (key \div Width(w)) % Height(w) \in 0 .. Height(w) - 1
  BY <1>1, <1>3
<1>. QED
  BY <1>1, <1>2, <1>4 DEF InWindow, WindowHash, Windows, Width, Height

(* What a search finds is nothing, or a cell of the probe that is good.    *)
LEMMA FoundIsGood ==
  ASSUME NEW probe, NEW good, NEW c \in Found(probe, good), c # None
  PROVE  c \in good /\ \E k \in DOMAIN probe : c = probe[k]
BY DEF Found, FirstIn

LEMMA PlayerShape ==
  ASSUME NEW p \in Player
  PROVE  TeamOf(p) \in Team /\ IdOf(p) \in Nat
BY DEF Player, TeamOf, IdOf

LEMMA FoundInWindow ==
  ASSUME NEW w \in Windows, Width(w) > 0, Height(w) > 0, NEW seed \in Nat,
         NEW good \in SUBSET Cell, NEW c \in Found(WindowProbe(w, seed), good), c # None
  PROVE  c \in good /\ InWindow(c, w)
<1>1. c \in good /\ \E k \in DOMAIN WindowProbe(w, seed) : c = WindowProbe(w, seed)[k]
  BY FoundIsGood
<1>2. PICK k \in DOMAIN WindowProbe(w, seed) : c = WindowProbe(w, seed)[k]
  BY <1>1
<1>3. k \in Nat /\ k >= 1 /\ c = WindowHash(w, seed + k - 1)
  BY <1>2 DEF WindowProbe, Windows, Width, Height
<1>4. seed + k - 1 \in Nat
  BY <1>3
<1>. QED
  BY <1>1, <1>3, <1>4, HashInWindow

(* A search of the homes or the jails ends at a free cell of that home or  *)
(* jail, never at a cell of the map's other parts.                         *)
LEMMA HomeSpot ==
  ASSUME NEW t \in Team, NEW seed \in Nat, NEW good \in SUBSET Cell,
         NEW c \in Found(HomeProbe(t, seed), good), c # None
  PROVE  c \in good /\ c \in Cell /\ CellType[c] = "home"
<1>1. c \in good /\ InWindow(c, HomeWindow[t])
  BY FoundInWindow, MapAssumption DEF HomeProbe
<1>2. c \in HomeCells[t]
  BY <1>1 DEF HomeCells
<1>. QED
  BY <1>1, <1>2, MapAssumption

LEMMA JailSpot ==
  ASSUME NEW t \in Team, NEW seed \in Nat, NEW good \in SUBSET Cell,
         NEW c \in Found(JailProbe(t, seed), good), c # None
  PROVE  c \in good /\ c \in Cell /\ c \in JailCells[t] /\ CellType[c] = "jail"
<1>1. c \in good /\ InWindow(c, JailWindow[t])
  BY FoundInWindow, MapAssumption DEF JailProbe
<1>2. c \in JailCells[t]
  BY <1>1 DEF JailCells
<1>. QED
  BY <1>1, <1>2, MapAssumption
-----------------------------------------------------------------------------
(* The object operators keep the type of the object references.            *)
LEMMA PutDownType ==
  ASSUME NEW o \in ObjType, NEW x \in Object, NEW p \in Player, NEW c \in Cell
  PROVE  PutDown(o, x, p, c) \in ObjType /\ PickedUp(o, x, p, c) \in ObjType
BY DEF PutDown, PickedUp, ObjType

LEMMA ObjRecord ==
  ASSUME NEW cell \in [Object -> Cell], NEW player \in [Object -> Player \cup {None}],
         NEW on \in [Cell -> Object \cup {None}],
         NEW flag \in [Player -> Object \cup {None}],
         NEW shovel \in [Player -> Object \cup {None}]
  PROVE  [cell |-> cell, player |-> player, on |-> on, flag |-> flag, shovel |-> shovel]
           \in ObjType
BY DEF ObjType

LEMMA VacatedType ==
  ASSUME NEW o \in ObjType, NEW c \in Cell
  PROVE  Vacated(o, c) \in ObjType
BY DEF Vacated, ObjType

LEMMA ResetType ==
  ASSUME NEW o \in ObjType, NEW p \in Player, playerCell[p] \in Cell,
         NEW held, NEW r \in ResetShovel(o, p, held)
  PROVE  r \in ObjType
<1>1. CASE o.shovel[p] = None
  BY <1>1 DEF ResetShovel
<1>2. CASE o.shovel[p] # None
  <2>1. PICK d \in Found(HomeProbe(o.shovel[p][1], 0), NotHolding(o, held)) :
          r = IF d = None THEN o ELSE Vacated(PutDown(o, o.shovel[p], p, d), playerCell[p])
    BY <1>2 DEF ResetShovel
  <2>2. d # None => d \in Cell
    BY FoundIsGood DEF NotHolding
  <2>3. o.shovel[p] \in Object
    BY <1>2 DEF ObjType
  <2>. QED
    BY <2>1, <2>2, <2>3, PutDownType, VacatedType
<1>. QED
  BY <1>1, <1>2

LEMMA DropType ==
  ASSUME NEW o \in ObjType, NEW p \in Player, playerCell[p] \in Cell,
         NEW held, NEW r \in DropFlag(o, p, held)
  PROVE  r \in ObjType
<1>1. CASE o.flag[p] = None
  BY <1>1 DEF DropFlag
<1>2. CASE o.flag[p] # None
  <2>1. PICK d \in Cell : r = PutDown(o, o.flag[p], p, d)
    BY <1>2 DEF DropFlag, FirstIn, NotHolding
  <2>2. o.flag[p] \in Object
    BY <1>2 DEF ObjType
  <2>. QED
    BY <2>1, <2>2, PutDownType
<1>. QED
  BY <1>1, <1>2

LEMMA StripType ==
  ASSUME NEW o \in ObjType, NEW p \in Player, playerCell[p] \in Cell,
         NEW held, NEW r \in Strip(o, p, held)
  PROVE  r \in ObjType
<1>1. PICK q \in ResetShovel(o, p, held) : r \in DropFlag(q, p, held)
  BY DEF Strip
<1>2. q \in ObjType
  BY ResetType
<1>. QED
  BY <1>1, <1>2, DropType

LEMMA CarryType ==
  ASSUME NEW o \in ObjType, NEW p \in Player, NEW c \in Cell
  PROVE  Carry(o, p, c) \in ObjType
BY DEF Carry, ObjType
-----------------------------------------------------------------------------
(* Type correctness.                                                       *)
LEMMA CrossType ==
  ASSUME TypeOK, NEW p \in Player, NEW c, NEW n, NEW o, CrossHome(p, c, n, o)
  PROVE  homeCount' \in [Team -> Int] /\ homeFlags' \in [Team -> Int]
BY PlayerShape DEF TypeOK, CrossHome

LEMMA MoveType ==
  ASSUME TypeOK, NEW p \in Player, NEW n \in Cell, MovePlayer(p, n)
  PROVE  /\ playerCell' \in [Player -> Cell \cup {None}]
         /\ cellPlayer' \in [Cell -> Player \cup {None}]
BY DEF TypeOK, MovePlayer

LEMMA RecalculatedType ==
  ASSUME NEW cnt, NEW hc, NEW hf
  PROVE  Recalculated(cnt, hc, hf) \in GameState
BY DEF Recalculated, GameState

LEMMA TargetType ==
  ASSUME TypeOK, NEW p \in Player, NEW n \in Targets(p), playerCell[p] # None
  PROVE  n \in Cell /\ playerCell[p] \in Cell
BY DEF TypeOK, Targets, Neighbours

LEMMA EnlistType ==
  ASSUME TypeOK, NEW f \in Fd, NEW p \in Player, Enlist(f, p)
  PROVE  /\ lastTeam' \in Team /\ fd' \in [Player -> Fd \cup {None}]
         /\ count' \in [Team -> Int] /\ jailed' \in [Player -> BOOLEAN]
         /\ obj' \in ObjType /\ NextTeam \in Team /\ IdOf(p) \in Nat
<1>1. NextTeam \in Team
  BY DEF NextTeam, OppositeTeam, Team
<1>2. obj' \in ObjType
  BY DEF TypeOK, Enlist, ObjType
<1>. QED
  BY <1>1, <1>2, PlayerShape DEF TypeOK, Enlist

(* A step of a connected player that stands on a cell.                     *)
LEMMA RequestType ==
  ASSUME TypeOK, OccupancyOK, NEW p \in Player, NEW busy \in BusySets, Request(p, busy)
  PROVE  TypeOK'
<1>. USE DEF registry, places, homes
<1>1. playerCell[p] \in Cell /\ TeamOf(p) \in Team /\ IdOf(p) \in Nat
  BY PlayerShape DEF Request, TypeOK
<1>2. Announce => announced' \in GameState
  BY RecalculatedType DEF Announce
<1>3. obj \in ObjType
  BY DEF TypeOK
<1>4. ASSUME Idle(p) PROVE TypeOK'
  BY <1>2, <1>4 DEF Idle, TypeOK
<1>5. ASSUME NEW n \in Targets(p), Move(p, n, busy) PROVE TypeOK'
  <2>1. n \in Cell
    BY <1>1, TargetType, GameAssumption
  <2>2. CASE JailedBump(p, n)
    BY <1>4, <2>2 DEF JailedBump
  <2>3. CASE JailedMove(p, n)
    <3>1. obj' \in ObjType
      BY <1>3, <2>1, <2>3, CarryType DEF JailedMove
    <3>. QED
      BY <3>1, <1>2, <2>1, <2>3, CrossType, MoveType DEF JailedMove, TypeOK
  <2>4. CASE WallMove(p, n, busy)
    <3>1. PICK o \in ResetShovel(obj, p, busy \cup {playerCell[p], n}) : obj' = Carry(o, p, n)
      BY <2>4 DEF WallMove
    <3>2. o \in ObjType
      BY <3>1, <1>1, <1>3, ResetType
    <3>3. obj' \in ObjType
      BY <3>1, <3>2, <2>1, CarryType
    <3>4. broken' \subseteq MutableWalls
      BY <2>4 DEF WallMove, TypeOK
    <3>. QED
      BY <3>3, <3>4, <1>2, <2>1, <2>4, CrossType, MoveType DEF WallMove, TypeOK
  <2>5. CASE FloorMove(p, n)
    <3>1. obj' \in ObjType
      BY <1>3, <2>1, <2>5, CarryType DEF FloorMove
    <3>. QED
      BY <3>1, <1>2, <2>1, <2>5, CrossType, MoveType DEF FloorMove, TypeOK
  <2>6. CASE WalkIntoTagger(p, n, busy)
    <3>. DEFINE c == playerCell[p]
                good == Free(busy \cup {c, n})
    <3>1. PICK cell \in Found(JailProbe(OppositeTeam(TeamOf(p)), IdOf(p)), good) \ {None} :
             /\ \E o \in Strip(obj, p, busy \cup {c, n, cell}) :
                  obj' = Carry(o, p, cell) /\ CrossHome(p, c, n, o)
             /\ MovePlayer(p, cell)
      BY <2>6 DEF WalkIntoTagger
    <3>2. cell \in Cell
      BY <3>1, FoundIsGood DEF Free
    <3>3. PICK o \in Strip(obj, p, busy \cup {c, n, cell}) :
             obj' = Carry(o, p, cell) /\ CrossHome(p, c, n, o)
      BY <3>1
    <3>4. o \in ObjType
      BY <3>3, <1>1, <1>3, StripType
    <3>5. obj' \in ObjType
      BY <3>2, <3>3, <3>4, CarryType
    <3>. QED
      BY <3>1, <3>2, <3>3, <3>5, <1>2, <2>6, CrossType, MoveType DEF WalkIntoTagger, TypeOK
  <2>7. CASE Tag(p, n, busy)
    <3>. DEFINE c == playerCell[p]
                q == cellPlayer[n]
                good == Free(busy \cup {c, n})
    <3>1. PICK cell \in Found(JailProbe(TeamOf(p), IdOf(q)), good) \ {None} :
             /\ \E o \in Strip(obj, q, busy \cup {c, n, cell}) :
                  obj' = Carry(Carry(o, q, cell), p, n)
             /\ playerCell' = [playerCell EXCEPT ![q] = cell, ![p] = n]
             /\ cellPlayer' = [cellPlayer EXCEPT ![c] = None, ![n] = p, ![cell] = q]
      BY <2>7 DEF Tag
    <3>2. cell \in Cell /\ q \in Player
      BY <3>1, <2>1, <2>7, FoundIsGood DEF Free, Tag, Occupied, TypeOK
    <3>3. playerCell[q] \in Cell
      BY <2>1, <2>7 DEF Tag, Occupied, OccupancyOK
    <3>4. obj' \in ObjType
      <4>1. PICK o \in Strip(obj, q, busy \cup {c, n, cell}) :
               obj' = Carry(Carry(o, q, cell), p, n)
        BY <3>1
      <4>2. o \in ObjType
        BY <4>1, <1>3, <3>2, <3>3, StripType
      <4>. QED
        BY <4>1, <4>2, <3>2, <2>1, CarryType
    <3>. QED
      BY <3>1, <3>2, <3>4, <1>1, <1>2, <2>1, <2>7, CrossType DEF Tag, TypeOK
  <2>. QED
    BY <1>5, <2>2, <2>3, <2>4, <2>5, <2>6, <2>7 DEF Move
<1>6. ASSUME NEW kind \in {"flag", "shovel"}, Handle(p, kind, busy) PROVE TypeOK'
  <2>1. CASE Noop(p) \/ DropNothing(p, kind)
    BY <1>4, <2>1 DEF Noop, DropNothing
  <2>2. CASE DropFlagHere(p, busy)
    <3>1. obj' \in ObjType
      BY <1>1, <1>3, <2>2, DropType DEF DropFlagHere
    <3>. QED
      BY <3>1, <1>2, <2>2 DEF DropFlagHere, TypeOK
  <2>3. CASE DropShovelHere(p)
    <3>1. obj.shovel[p] \in Object
      BY <1>3, <2>3 DEF DropShovelHere, ObjType
    <3>2. PutDown(obj, obj.shovel[p], p, playerCell[p]) \in ObjType
      BY <1>1, <1>3, <3>1, PutDownType
    <3>3. obj' \in ObjType
      BY <2>3, <3>2 DEF DropShovelHere
    <3>. QED
      BY <3>3, <1>2, <2>3 DEF DropShovelHere, TypeOK
  <2>4. CASE PickUp(p, kind)
    <3>1. obj.on[playerCell[p]] \in Object
      BY <1>1, <1>3, <2>4 DEF PickUp, ObjType
    <3>2. PickedUp(obj, obj.on[playerCell[p]], p, playerCell[p]) \in ObjType
      BY <1>1, <1>3, <3>1, PutDownType
    <3>3. obj' \in ObjType
      BY <2>4, <3>2 DEF PickUp
    <3>. QED
      BY <3>3, <1>2, <2>4 DEF PickUp, TypeOK
  <2>. QED
    BY <1>6, <2>1, <2>2, <2>3, <2>4 DEF Handle
<1>. QED
  BY <1>5, <1>6 DEF Request

LEMMA LeaveType ==
  ASSUME TypeOK, NEW p \in Player, NEW busy \in BusySets, Leave(p, busy)
  PROVE  TypeOK'
<1>. USE DEF registry, places, homes
<1>1. playerCell[p] \in Cell /\ TeamOf(p) \in Team
  BY PlayerShape DEF Leave, TypeOK
<1>2. obj \in ObjType
  BY DEF TypeOK
<1>3. obj' \in ObjType
  BY <1>1, <1>2, StripType DEF Leave
<1>4. announced' \in GameState
  BY RecalculatedType DEF Leave
<1>. QED
  BY <1>1, <1>3, <1>4 DEF Leave, TypeOK

LEMMA JoinType ==
  ASSUME TypeOK, NEW f \in Fd, NEW p \in Player, NEW busy \in BusySets, Join(f, p, busy)
  PROVE  TypeOK'
<1>. USE DEF registry, places, homes
<1>1. Enlist(f, p)
  BY DEF Join, Hello, HelloUnplaced
<1>2. /\ lastTeam' \in Team /\ fd' \in [Player -> Fd \cup {None}]
      /\ count' \in [Team -> Int] /\ jailed' \in [Player -> BOOLEAN]
      /\ obj' \in ObjType /\ NextTeam \in Team
  BY <1>1, EnlistType
<1>3. Announce => announced' \in GameState
  BY RecalculatedType DEF Announce
<1>4. CASE Hello(f, p, busy)
  <2>1. PICK c \in Found(HomeProbe(NextTeam, IdOf(p)), Free(busy)) \ {None} :
          /\ playerCell' = [playerCell EXCEPT ![p] = c]
          /\ cellPlayer' = [cellPlayer EXCEPT ![c] = p]
    BY <1>4 DEF Hello
  <2>2. c \in Cell
    BY <2>1, FoundIsGood DEF Free
  <2>. QED
    BY <1>2, <1>3, <1>4, <2>1, <2>2 DEF Hello, TypeOK
<1>5. CASE HelloUnplaced(f, p, busy)
  BY <1>2, <1>5 DEF HelloUnplaced, TypeOK
<1>. QED
  BY <1>4, <1>5 DEF Join

LEMMA OtherType ==
  ASSUME TypeOK, \/ \E f \in Fd : HelloRefused(f)
                 \/ \E p \in Player : Crash(p)
                 \/ Teleport
  PROVE  TypeOK'
BY DEF TypeOK, HelloRefused, Crash, Teleport, NextTeam, OppositeTeam, Team,
       registry, places, homes

LEMMA OnAtType == \A start : OnAt(start) \in [Cell -> Object \cup {None}]
<1>. SUFFICES ASSUME NEW start PROVE OnAt(start) \in [Cell -> Object \cup {None}]
  OBVIOUS
<1>. DEFINE Here(c) == { x \in Object : start[x] = c }
            Top(S) == IF S = {} THEN None ELSE CHOOSE x \in S : \A y \in S : x[1] >= y[1]
<1>1. ASSUME NEW S \in SUBSET Object PROVE Top(S) \in Object \cup {None}
  <2>1. \A x \in S : x[1] \in {0, 1}
    BY GameAssumption DEF Team, TEAM_RED, TEAM_BLUE
  <2>2. S # {} => \E x \in S : \A y \in S : x[1] >= y[1]
    <3>1. CASE \E x \in S : x[1] = 1
      BY <2>1, <3>1
    <3>2. CASE \A x \in S : x[1] = 0
      BY <2>1, <3>2
    <3>. QED
      BY <2>1, <3>1, <3>2
  <2>. QED
    BY <2>2
<1>2. OnAt(start) = [c \in Cell |-> Top(Here(c))]
  BY DEF OnAt
<1>3. \A c \in Cell : Here(c) \in SUBSET Object
  OBVIOUS
<1>. QED
  BY <1>1, <1>2, <1>3

LEMMA InitType == Init => TypeOK
<1>. SUFFICES ASSUME Init PROVE TypeOK
  OBVIOUS
<1>1. obj \in ObjType
  <2>1. PICK start \in Starts :
          obj = [cell   |-> start,
                 player |-> [x \in Object |-> None],
                 on     |-> OnAt(start),
                 flag   |-> [p \in Player |-> None],
                 shovel |-> [p \in Player |-> None]]
    BY DEF Init
  <2>2. OnAt(start) \in [Cell -> Object \cup {None}] /\ start \in [Object -> Cell]
    BY OnAtType DEF Starts
  <2>3. /\ [x \in Object |-> None] \in [Object -> Player \cup {None}]
        /\ [p \in Player |-> None] \in [Player -> Object \cup {None}]
    OBVIOUS
  <2>. QED
    BY <2>1, <2>2, <2>3, ObjRecord
<1>2. /\ fd = [p \in Player |-> None]
      /\ count = [t \in Team |-> 0]
      /\ lastTeam = TEAM_RED
      /\ playerCell = [p \in Player |-> None]
      /\ cellPlayer = [c \in Cell |-> None]
      /\ jailed = [p \in Player |-> FALSE]
      /\ homeCount = [t \in Team |-> 0]
      /\ homeFlags = [t \in Team |-> 0]
      /\ broken = {} /\ testMode = FALSE
      /\ announced = "waiting" /\ up = TRUE
  BY DEF Init
<1>3. testMode \in TestModes
  BY <1>2, GameAssumption, Zenon
<1>4. broken \subseteq MutableWalls /\ announced \in GameState /\ lastTeam \in Team
  BY <1>2 DEF GameState, Team
<1>. QED
  BY <1>1, <1>2, <1>3, <1>4 DEF TypeOK
-----------------------------------------------------------------------------
(* Occupancy.  A broken wall stays broken, so no cell becomes a wall under *)
(* the player who stands on it.                                            *)
LEMMA MoveOccupancy ==
  ASSUME TypeOK, OccupancyOK, NEW p \in Player, NEW n \in Cell, MovePlayer(p, n),
         playerCell[p] # None, ~Occupied(n), UNCHANGED fd,
         broken \subseteq broken', CellType[n] # "wall" \/ n \in broken'
  PROVE  OccupancyOK'
<1>1. playerCell[p] \in Cell
  BY DEF TypeOK
<1>2. \A c \in Cell : TypeOf(c) # "wall" => TypeOf(c)' # "wall"
  BY DEF TypeOf
<1>3. TypeOf(n)' # "wall"
  BY DEF TypeOf
<1>4. ASSUME NEW r \in Player, playerCell'[r] # None
      PROVE  /\ cellPlayer'[playerCell'[r]] = r
             /\ fd'[r] # None
             /\ TypeOf(playerCell[r])' # "wall"
  <2>1. CASE r = p
    BY <1>1, <1>3, <2>1 DEF MovePlayer, TypeOK, OccupancyOK
  <2>2. CASE r # p
    <3>1. playerCell'[r] = playerCell[r] /\ playerCell[r] \in Cell
      BY <1>4, <2>2 DEF MovePlayer, TypeOK
    <3>2. playerCell[r] # playerCell[p] /\ playerCell[r] # n
      BY <1>1, <2>2, <3>1, GameAssumption DEF OccupancyOK, Occupied
    <3>. QED
      BY <1>2, <3>1, <3>2, GameAssumption DEF MovePlayer, TypeOK, OccupancyOK
  <2>. QED
    BY <2>1, <2>2
<1>5. ASSUME NEW c \in Cell, cellPlayer'[c] # None
      PROVE  playerCell'[cellPlayer'[c]] = c
  BY <1>1, <1>5 DEF MovePlayer, TypeOK, OccupancyOK
<1>. QED
  BY <1>4, <1>5 DEF OccupancyOK

(* A tag moves two players: the prisoner q to the free cell d of the jail, *)
(* and the tagger p to the cell n that q leaves.                           *)
LEMMA TagOccupancy ==
  ASSUME TypeOK, OccupancyOK, NEW p \in Player, NEW q \in Player, p # q,
         NEW n \in Cell, NEW d \in Cell, playerCell[p] # None, cellPlayer[n] = q,
         ~Occupied(d), TypeOf(d) # "wall", UNCHANGED <<fd, broken>>,
         playerCell' = [playerCell EXCEPT ![q] = d, ![p] = n],
         cellPlayer' = [cellPlayer EXCEPT ![playerCell[p]] = None, ![n] = p, ![d] = q]
  PROVE  OccupancyOK'
<1>1. playerCell[p] \in Cell /\ playerCell[q] = n
  BY GameAssumption DEF TypeOK, OccupancyOK
<1>2. TypeOf(n) # "wall" /\ fd[p] # None /\ fd[q] # None
  BY <1>1, GameAssumption DEF OccupancyOK
<1>3. d # n /\ d # playerCell[p] /\ n # playerCell[p]
  BY <1>1, GameAssumption DEF Occupied, OccupancyOK
<1>4. ASSUME NEW r \in Player, playerCell'[r] # None
      PROVE  /\ cellPlayer'[playerCell'[r]] = r
             /\ fd'[r] # None
             /\ TypeOf(playerCell[r])' # "wall"
  <2>1. CASE r = p
    BY <1>1, <1>2, <1>3, <2>1 DEF TypeOK, TypeOf
  <2>2. CASE r = q
    BY <1>1, <1>2, <1>3, <2>2 DEF TypeOK, TypeOf
  <2>3. CASE r # p /\ r # q
    <3>1. playerCell'[r] = playerCell[r] /\ playerCell[r] \in Cell
      BY <1>4, <2>3 DEF TypeOK
    <3>2. playerCell[r] # playerCell[p] /\ playerCell[r] # n /\ playerCell[r] # d
      BY <1>1, <2>3, <3>1, GameAssumption DEF OccupancyOK, Occupied
    <3>. QED
      BY <3>1, <3>2, GameAssumption DEF TypeOK, OccupancyOK, TypeOf
  <2>. QED
    BY <2>1, <2>2, <2>3
<1>5. ASSUME NEW c \in Cell, cellPlayer'[c] # None
      PROVE  playerCell'[cellPlayer'[c]] = c
  <2>1. CASE c = d \/ c = n \/ c = playerCell[p]
    BY <1>1, <1>3, <1>5, <2>1 DEF TypeOK
  <2>2. CASE c # d /\ c # n /\ c # playerCell[p]
    BY <1>1, <1>5, <2>2 DEF TypeOK, OccupancyOK
  <2>. QED
    BY <2>1, <2>2
<1>. QED
  BY <1>4, <1>5 DEF OccupancyOK

(* Steps that move nobody.                                                 *)
LEMMA StillOccupancy ==
  ASSUME OccupancyOK, UNCHANGED <<fd, playerCell, cellPlayer, broken>>
  PROVE  OccupancyOK'
BY DEF OccupancyOK, TypeOf

(* What a search for a jail cell finds is a jail cell: no wall was ever    *)
(* there to break.                                                         *)
LEMMA JailIsNoWall ==
  ASSUME TypeOK, NEW c \in Cell, CellType[c] = "jail"
  PROVE  TypeOf(c) = "jail"
<1>1. Glyph[c] = "#" => CellType[c] = "wall"
  BY DEF CellType
<1>. QED
  BY <1>1 DEF TypeOK, TypeOf, MutableWalls

LEMMA WallIsMapWall ==
  ASSUME TypeOK, NEW c \in Cell, TypeOf(c) # "wall"
  PROVE  CellType[c] # "wall" \/ c \in broken
BY DEF TypeOf

LEMMA RequestOccupancy ==
  ASSUME TypeOK, OccupancyOK, NEW p \in Player, NEW busy \in BusySets, Request(p, busy)
  PROVE  OccupancyOK'
<1>. USE DEF registry, places, homes
<1>1. playerCell[p] \in Cell /\ TeamOf(p) \in Team /\ IdOf(p) \in Nat
  BY PlayerShape DEF Request, TypeOK
<1>2. ASSUME Idle(p) PROVE OccupancyOK'
  BY <1>2, StillOccupancy DEF Idle
<1>3. ASSUME NEW n \in Targets(p), Move(p, n, busy) PROVE OccupancyOK'
  <2>1. n \in Cell
    BY <1>1, TargetType, GameAssumption
  <2>2. CASE JailedBump(p, n)
    BY <1>2, <2>2 DEF JailedBump
  <2>3. CASE JailedMove(p, n)
    <3>1. TypeOf(n) # "wall"
      BY <2>3 DEF JailedMove
    <3>. QED
      BY <1>1, <2>1, <2>3, <3>1, GameAssumption, MoveOccupancy, WallIsMapWall DEF JailedMove
  <2>4. CASE WallMove(p, n, busy)
    <3>1. ~Occupied(n)
      BY <2>1, <2>4, GameAssumption DEF WallMove, Occupied, OccupancyOK, TypeOK
    <3>. QED
      BY <1>1, <2>1, <2>4, <3>1, GameAssumption, MoveOccupancy DEF WallMove
  <2>5. CASE FloorMove(p, n)
    BY <1>1, <2>1, <2>5, GameAssumption, MoveOccupancy, WallIsMapWall DEF FloorMove
  <2>6. CASE WalkIntoTagger(p, n, busy)
    <3>1. PICK cell \in Found(JailProbe(OppositeTeam(TeamOf(p)), IdOf(p)),
                              Free(busy \cup {playerCell[p], n})) \ {None} :
            MovePlayer(p, cell)
      BY <2>6 DEF WalkIntoTagger
    <3>2. OppositeTeam(TeamOf(p)) \in Team
      BY DEF OppositeTeam, Team
    <3>3. cell \in Cell /\ ~Occupied(cell) /\ CellType[cell] = "jail"
      BY <1>1, <3>1, <3>2, JailSpot DEF Free
    <3>4. UNCHANGED fd /\ UNCHANGED broken
      BY <2>6 DEF WalkIntoTagger
    <3>. QED
      BY <1>1, <3>1, <3>3, <3>4, GameAssumption, MoveOccupancy
  <2>7. CASE Tag(p, n, busy)
    <3>. DEFINE q == cellPlayer[n]
    <3>1. PICK cell \in Found(JailProbe(TeamOf(p), IdOf(q)),
                              Free(busy \cup {playerCell[p], n})) \ {None} :
             /\ playerCell' = [playerCell EXCEPT ![q] = cell, ![p] = n]
             /\ cellPlayer' = [cellPlayer EXCEPT ![playerCell[p]] = None, ![n] = p, ![cell] = q]
      BY <2>7 DEF Tag
    <3>2. q \in Player /\ IdOf(q) \in Nat /\ p # q
      BY <2>1, <2>7, PlayerShape DEF Tag, Occupied, TypeOK
    <3>3. cell \in Cell /\ ~Occupied(cell) /\ CellType[cell] = "jail"
      BY <1>1, <3>1, <3>2, JailSpot DEF Free
    <3>4. UNCHANGED <<fd, broken>>
      BY <2>7 DEF Tag
    <3>5. TypeOf(cell) # "wall"
      BY <3>3, JailIsNoWall
    <3>. QED
      BY <1>1, <2>1, <3>1, <3>2, <3>3, <3>4, <3>5, GameAssumption, TagOccupancy
  <2>. QED
    BY <1>3, <2>2, <2>3, <2>4, <2>5, <2>6, <2>7 DEF Move
<1>4. ASSUME NEW kind \in {"flag", "shovel"}, Handle(p, kind, busy) PROVE OccupancyOK'
  BY <1>2, <1>4, StillOccupancy
     DEF Handle, Noop, DropNothing, DropFlagHere, DropShovelHere, PickUp
<1>. QED
  BY <1>3, <1>4 DEF Request

LEMMA LeaveOccupancy ==
  ASSUME TypeOK, OccupancyOK, NEW p \in Player, NEW busy \in BusySets, Leave(p, busy)
  PROVE  OccupancyOK'
<1>. USE DEF registry, places, homes
<1>1. playerCell[p] \in Cell
  BY DEF Leave, TypeOK
<1>2. ASSUME NEW r \in Player, playerCell'[r] # None
      PROVE  /\ cellPlayer'[playerCell'[r]] = r
             /\ fd'[r] # None
             /\ TypeOf(playerCell[r])' # "wall"
  <2>1. r # p /\ playerCell'[r] = playerCell[r]
    BY <1>2 DEF Leave, TypeOK
  <2>2. playerCell[r] # playerCell[p] /\ playerCell[r] \in Cell
    BY <1>1, <1>2, <2>1, GameAssumption DEF OccupancyOK, TypeOK
  <2>. QED
    BY <1>2, <2>1, <2>2 DEF Leave, TypeOK, OccupancyOK, TypeOf
<1>3. ASSUME NEW c \in Cell, cellPlayer'[c] # None
      PROVE  playerCell'[cellPlayer'[c]] = c
  BY <1>1, <1>3 DEF Leave, TypeOK, OccupancyOK
<1>. QED
  BY <1>2, <1>3 DEF OccupancyOK

LEMMA JoinOccupancy ==
  ASSUME TypeOK, OccupancyOK, NEW f \in Fd, NEW p \in Player, NEW busy \in BusySets,
         Join(f, p, busy)
  PROVE  OccupancyOK'
<1>1. fd[p] = None /\ fd' = [fd EXCEPT ![p] = f] /\ f # None
  BY GameAssumption DEF Join, Hello, HelloUnplaced, Enlist, FirstSlot
<1>2. playerCell[p] = None
  BY <1>1 DEF OccupancyOK
<1>3. CASE Hello(f, p, busy)
  <2>1. PICK c \in Found(HomeProbe(NextTeam, IdOf(p)), Free(busy)) \ {None} :
          /\ playerCell' = [playerCell EXCEPT ![p] = c]
          /\ cellPlayer' = [cellPlayer EXCEPT ![c] = p]
    BY <1>3 DEF Hello
  <2>2. NextTeam \in Team /\ IdOf(p) \in Nat
    BY PlayerShape DEF NextTeam, OppositeTeam, Team
  <2>3. c \in Cell /\ ~Occupied(c) /\ CellType[c] = "home"
    BY <2>1, <2>2, HomeSpot DEF Free
  <2>4. UNCHANGED broken
    BY <1>3 DEF Hello
  <2>5. ASSUME NEW r \in Player, playerCell'[r] # None
        PROVE  /\ cellPlayer'[playerCell'[r]] = r
               /\ fd'[r] # None
               /\ TypeOf(playerCell[r])' # "wall"
    <3>1. CASE r = p
      BY <1>1, <2>1, <2>3, <2>4, <3>1 DEF TypeOK, TypeOf
    <3>2. CASE r # p
      <4>1. playerCell'[r] = playerCell[r] /\ playerCell[r] \in Cell /\ playerCell[r] # c
        BY <2>1, <2>3, <2>5, <3>2, GameAssumption DEF TypeOK, OccupancyOK, Occupied
      <4>. QED
        BY <1>1, <2>1, <2>4, <2>5, <3>2, <4>1 DEF TypeOK, TypeOf, OccupancyOK
    <3>. QED
      BY <3>1, <3>2
  <2>6. ASSUME NEW d \in Cell, cellPlayer'[d] # None
        PROVE  playerCell'[cellPlayer'[d]] = d
    BY <1>2, <2>1, <2>3, <2>6, GameAssumption DEF TypeOK, OccupancyOK
  <2>. QED
    BY <2>5, <2>6 DEF OccupancyOK
<1>4. CASE HelloUnplaced(f, p, busy)
  <2>1. UNCHANGED <<playerCell, cellPlayer, broken>>
    BY <1>2, <1>4 DEF HelloUnplaced, TypeOK
  <2>. QED
    BY <1>1, <1>2, <2>1 DEF OccupancyOK, TypeOf, TypeOK
<1>. QED
  BY <1>3, <1>4 DEF Join

(* The joint invariant: a tag moves the player found on a cell, so the     *)
(* types survive it only because that player is known to stand there.      *)
Inv == TypeOK /\ OccupancyOK

LEMMA InitInv == Init => Inv
<1>1. Init => OccupancyOK
  BY DEF Init, OccupancyOK
<1>. QED
  BY <1>1, InitType DEF Inv

LEMMA NextInv == Inv /\ [Next]_vars => Inv'
<1>. SUFFICES ASSUME Inv, [Next]_vars PROVE Inv'
  OBVIOUS
<1>. USE DEF Inv
<1>1. CASE UNCHANGED vars
  <2>1. TypeOK'
    BY <1>1 DEF vars, TypeOK, registry, places, homes
  <2>. QED
    BY <1>1, <2>1, StillOccupancy DEF vars, registry, places
<1>2. CASE Next
  <2>1. CASE \/ \E f \in Fd : HelloRefused(f)
             \/ \E p \in Player : Crash(p)
             \/ Teleport
    <3>1. UNCHANGED <<fd, playerCell, cellPlayer, broken>>
      BY <2>1 DEF HelloRefused, Crash, Teleport, registry, places
    <3>. QED
      BY <2>1, <3>1, OtherType, StillOccupancy
  <2>2. CASE \E f \in Fd, p \in Player, busy \in BusySets : Join(f, p, busy)
    BY <2>2, JoinType, JoinOccupancy
  <2>3. CASE \E p \in Player, busy \in BusySets : Connected(p) /\ Leave(p, busy)
    BY <2>3, LeaveType, LeaveOccupancy
  <2>4. CASE \E p \in Player, busy \in BusySets : Connected(p) /\ Request(p, busy)
    BY <2>4, RequestType, RequestOccupancy
  <2>. QED
    BY <1>2, <2>1, <2>2, <2>3, <2>4 DEF Next
<1>. QED
  BY <1>1, <1>2

(* Every variable always has its type.                                     *)
THEOREM TypeCorrect == Spec => []TypeOK
<1>1. Spec => []Inv
  BY InitInv, NextInv, PTL DEF Spec
<1>. QED
  BY <1>1, PTL DEF Inv

(* On every map, with any pattern of busy cells and with teleports: the    *)
(* two directions of the player-cell reference agree, nobody is inside a   *)
(* wall and only connected players are on the map.                         *)
THEOREM Occupancy == Spec => []OccupancyOK
<1>1. Spec => []Inv
  BY InitInv, NextInv, PTL DEF Spec
<1>. QED
  BY <1>1, PTL DEF Inv
-----------------------------------------------------------------------------
(* The player lists: the count of a list is the number of its slots in     *)
(* use, through refused and unplaced hellos, departures and crashes, and a *)
(* connection has one slot.                                                *)
InUse(t) == { p \in Player : TeamOf(p) = t /\ fd[p] # None }

(* The slots in use are finitely many, as they are taken one by one: the   *)
(* length of a list is not needed.                                         *)
RosterInv == RosterOK /\ \A t \in Team : IsFiniteSet(InUse(t))

LEMMA CountInUse == RosterOK => \A t \in Team : count[t] = Cardinality(InUse(t))
  BY DEF RosterOK, InUse

LEMMA InitRoster == Init => RosterInv
<1>. SUFFICES ASSUME Init PROVE RosterInv
  OBVIOUS
<1>1. \A t \in Team : InUse(t) = {} /\ count[t] = 0
  BY DEF Init, InUse
<1>2. \A t \in Team : IsFiniteSet(InUse(t)) /\ count[t] = Cardinality(InUse(t))
  BY <1>1, FS_EmptySet
<1>3. \A p \in Player : fd[p] = None
  BY DEF Init
<1>. QED
  BY <1>2, <1>3 DEF RosterInv, RosterOK, InUse

LEMMA StillRoster ==
  ASSUME RosterInv, UNCHANGED <<fd, count>>
  PROVE  RosterInv'
<1>1. \A t \in Team : InUse(t)' = InUse(t)
  BY DEF InUse
<1>. QED
  BY <1>1 DEF RosterInv, RosterOK, InUse

(* A hello takes a free slot of the next team, for a connection that has   *)
(* none.                                                                   *)
LEMMA JoinRoster ==
  ASSUME TypeOK, RosterInv, NEW f \in Fd, NEW p \in Player, NEW busy \in BusySets,
         Join(f, p, busy)
  PROVE  RosterInv'
<1>1. Enlist(f, p)
  BY DEF Join, Hello, HelloUnplaced
<1>2. /\ fd' = [fd EXCEPT ![p] = f] /\ fd[p] = None /\ f # None /\ TeamOf(p) = NextTeam
      /\ count' = [count EXCEPT ![NextTeam] = @ + 1] /\ NextTeam \in Team
      /\ \A q \in Player : fd[q] # f
  BY <1>1, GameAssumption
  DEF Enlist, FirstSlot, Registered, NextTeam, OppositeTeam, Team
<1>3. ASSUME NEW t \in Team
      PROVE  IsFiniteSet(InUse(t)') /\ count'[t] = Cardinality(InUse(t)')
  <2>1. IsFiniteSet(InUse(t)) /\ count[t] = Cardinality(InUse(t))
    BY CountInUse DEF RosterInv
  <2>2. CASE t = NextTeam
    <3>1. InUse(t)' = InUse(t) \cup {p} /\ p \notin InUse(t)
      BY <1>2, <2>2 DEF InUse, TypeOK
    <3>2. count'[t] = count[t] + 1
      BY <1>2, <2>2 DEF TypeOK
    <3>. QED
      BY <2>1, <3>1, <3>2, FS_AddElement
  <2>3. CASE t # NextTeam
    <3>1. InUse(t)' = InUse(t) /\ count'[t] = count[t]
      BY <1>2, <2>3 DEF InUse, TypeOK
    <3>. QED
      BY <2>1, <3>1
  <2>. QED
    BY <2>2, <2>3
<1>4. ASSUME NEW q \in Player, NEW r \in Player, fd'[q] # None, fd'[q] = fd'[r]
      PROVE  q = r
  BY <1>2, <1>4 DEF RosterInv, RosterOK, TypeOK
<1>. QED
  BY <1>3, <1>4 DEF RosterInv, RosterOK, InUse

(* A departure gives back a slot that was in use.                          *)
LEMMA LeaveRoster ==
  ASSUME TypeOK, RosterInv, NEW p \in Player, NEW busy \in BusySets,
         Connected(p), Leave(p, busy)
  PROVE  RosterInv'
<1>1. /\ fd' = [fd EXCEPT ![p] = None] /\ fd[p] # None
      /\ count' = [count EXCEPT ![TeamOf(p)] = @ - 1] /\ TeamOf(p) \in Team
  BY PlayerShape DEF Leave, Connected
<1>2. ASSUME NEW t \in Team
      PROVE  IsFiniteSet(InUse(t)') /\ count'[t] = Cardinality(InUse(t)')
  <2>1. IsFiniteSet(InUse(t)) /\ count[t] = Cardinality(InUse(t))
    BY CountInUse DEF RosterInv
  <2>2. CASE t = TeamOf(p)
    <3>1. InUse(t)' = InUse(t) \ {p} /\ p \in InUse(t)
      BY <1>1, <2>2 DEF InUse, TypeOK
    <3>2. count'[t] = count[t] - 1
      BY <1>1, <2>2 DEF TypeOK
    <3>. QED
      BY <2>1, <3>1, <3>2, FS_RemoveElement
  <2>3. CASE t # TeamOf(p)
    <3>1. InUse(t)' = InUse(t) /\ count'[t] = count[t]
      BY <1>1, <2>3 DEF InUse, TypeOK
    <3>. QED
      BY <2>1, <3>1
  <2>. QED
    BY <2>2, <2>3
<1>3. ASSUME NEW q \in Player, NEW r \in Player, fd'[q] # None, fd'[q] = fd'[r]
      PROVE  q = r
  BY <1>1, <1>3 DEF RosterInv, RosterOK, TypeOK
<1>. QED
  BY <1>2, <1>3 DEF RosterInv, RosterOK, InUse

(* Nothing else changes the lists.                                         *)
LEMMA RequestKeepsLists ==
  ASSUME NEW p \in Player, NEW busy \in BusySets, Request(p, busy)
  PROVE  UNCHANGED <<fd, count>>
<1>1. ASSUME NEW n \in Targets(p), Move(p, n, busy) PROVE UNCHANGED <<fd, count>>
  BY <1>1 DEF Move, JailedBump, JailedMove, WallMove, FloorMove, WalkIntoTagger, Tag, Idle,
              registry
<1>2. ASSUME NEW kind \in {"flag", "shovel"}, Handle(p, kind, busy)
      PROVE  UNCHANGED <<fd, count>>
  BY <1>2 DEF Handle, Noop, DropNothing, DropFlagHere, DropShovelHere, PickUp, Idle, registry
<1>. QED
  BY <1>1, <1>2 DEF Request

LEMMA NextRoster == Inv /\ RosterInv /\ [Next]_vars => RosterInv'
<1>. SUFFICES ASSUME TypeOK, RosterInv, [Next]_vars PROVE RosterInv'
  BY DEF Inv
<1>1. CASE \E f \in Fd, p \in Player, busy \in BusySets : Join(f, p, busy)
  BY <1>1, JoinRoster
<1>2. CASE \E p \in Player, busy \in BusySets : Connected(p) /\ Leave(p, busy)
  BY <1>2, LeaveRoster
<1>3. CASE \E p \in Player, busy \in BusySets : Connected(p) /\ Request(p, busy)
  BY <1>3, RequestKeepsLists, StillRoster
<1>4. CASE \/ UNCHANGED vars \/ \E f \in Fd : HelloRefused(f)
           \/ \E p \in Player : Connected(p) /\ Crash(p)
           \/ Teleport
  <2>1. UNCHANGED <<fd, count>>
    BY <1>4 DEF vars, registry, HelloRefused, Crash, Teleport
  <2>. QED
    BY <2>1, StillRoster
<1>. QED
  BY <1>1, <1>2, <1>3, <1>4 DEF Next

(* The counts of the two player lists, which decide who may join and       *)
(* whether the game is on, never drift, and no connection plays twice.     *)
THEOREM RosterIsKept == Spec => []RosterOK
<1>1. Spec => []Inv
  BY InitInv, NextInv, PTL DEF Spec
<1>2. Spec => []RosterInv
  BY <1>1, InitRoster, NextRoster, PTL DEF Spec
<1>. QED
  BY <1>2, PTL DEF RosterInv
-----------------------------------------------------------------------------
(* Objects: the references between objects, players and cells.             *)

(* A set of numbers has a least one.                                       *)
LEMMA LeastOf ==
  ASSUME NEW S \in SUBSET Nat, S # {}
  PROVE  \E n \in S : \A m \in S : n <= m
<1>1. IsWellFoundedOn(OpToRel(<, Nat), Nat)
  BY NatLessThanWellFounded
<1>2. PICK n \in S : \A y \in S : ~(<<y, n>> \in OpToRel(<, Nat))
  BY <1>1, WFMin
<1>3. \A y \in S : y \in Nat /\ n \in Nat /\ ~(y < n)
  BY <1>2 DEF OpToRel
<1>. QED
  BY <1>3

(* Division with remainder, by a width.                                    *)
LEMMA DivMod ==
  ASSUME NEW a \in Nat, NEW b \in Nat, NEW W \in Nat, a < W
  PROVE  (b * W + a) \div W = b /\ (b * W + a) % W = a
<1>. DEFINE k == b * W + a
            q == k \div W
            r == k % W
<1>0. k \in Nat /\ W > 0
  OBVIOUS
<1>. HIDE DEF k
<1>1. q \in Nat /\ r \in 0 .. W - 1 
  BY <1>0
<1>2. k = W * q + r
  BY <1>0
<1>3. k = W * b + a
  BY DEF k
<1>. HIDE DEF q, r
<1>4. ~(q > b)
  <2>1. q >= b + 1 => W * q >= W * (b + 1)
    BY <1>1
  <2>2. W * (b + 1) = W * b + W /\ W * b \in Nat /\ W * q \in Nat
    BY <1>1
  <2>. QED
    BY <1>1, <1>2, <1>3, <2>1, <2>2
<1>5. ~(b > q)
  <2>1. b >= q + 1 => W * b >= W * (q + 1)
    BY <1>1
  <2>2. W * (q + 1) = W * q + W /\ W * b \in Nat /\ W * q \in Nat
    BY <1>1
  <2>. QED
    BY <1>1, <1>2, <1>3, <2>1, <2>2
<1>6. q = b
  BY <1>1, <1>4, <1>5
<1>7. r = a
  BY <1>1, <1>2, <1>3, <1>6
<1>. QED
  BY <1>6, <1>7 DEF q, r, k

(* Every cell of a window is the hash of a key below the window's size.    *)
LEMMA KeyOf ==
  ASSUME NEW w \in Windows, Width(w) > 0, Height(w) > 0, NEW c \in Cell, InWindow(c, w)
  PROVE  \E key \in 0 .. Width(w) * Height(w) - 1 : c = WindowHash(w, key)
<1>. DEFINE a == c[1] - w.min[1]
            b == c[2] - w.min[2]
            W == Width(w)
            N == Height(w)
            key == b * W + a
<1>1. W \in Nat /\ N \in Nat /\ c[1] \in Int /\ c[2] \in Int /\ w.min[1] \in Int /\ w.min[2] \in Int
      /\ a \in Nat /\ b \in Nat /\ a < W /\ b < N /\ c = <<c[1], c[2]>>
  BY MapAssumption DEF Windows, Width, Height, InWindow, Cell
<1>2. c = <<w.min[1] + a, w.min[2] + b>>
  BY <1>1
<1>. HIDE DEF a, b, W, N
<1>3. key \in Nat /\ b * W <= (N - 1) * W
  BY <1>1
<1>4. key < N * W
  BY <1>1, <1>3
<1>5. key \div W = b /\ key % W = a
  BY <1>1, DivMod
<1>6. b % N = b
  BY <1>1
<1>7. \A k : WindowHash(w, k) = <<w.min[1] + (k % W), w.min[2] + ((k \div W) % N)>>
  BY Zenon DEF WindowHash, W, N
<1>8. N * W = Width(w) * Height(w)
  BY <1>1 DEF W, N
<1>9. c = WindowHash(w, key) /\ key \in 0 .. Width(w) * Height(w) - 1
  <2>1. Width(w) * Height(w) \in Nat
    BY <1>1, <1>8
  <2>2. WindowHash(w, key) = <<w.min[1] + (key % W), w.min[2] + ((key \div W) % N)>>
    BY <1>7
  <2>3. c = WindowHash(w, key)
    BY <1>2, <1>5, <1>6, <2>2
  <2>. QED
    BY <1>1, <1>3, <1>4, <1>8, <2>1, <2>3
<1>. HIDE DEF key
<1>. QED
  BY <1>9
(* A search of a window from key 0 tries every cell of it: it fails only   *)
(* when no cell will do.                                                   *)
LEMMA SearchEndsWell ==
  ASSUME NEW w \in Windows, Width(w) > 0, Height(w) > 0, NEW good,
         NEW c \in Cell, InWindow(c, w), c \in good, None \notin good
  PROVE  None \notin Found(WindowProbe(w, 0), good)
<1>. DEFINE probe == WindowProbe(w, 0)
            S == { k \in DOMAIN probe : probe[k] \in good }
<1>1. Width(w) \in Nat /\ Height(w) \in Nat /\ 2 * Width(w) * Height(w) \in Nat
      /\ Width(w) * Height(w) <= 2 * Width(w) * Height(w)
  <2>1. \A a, b \in Nat : 2 * a * b \in Nat /\ a * b <= 2 * a * b
    OBVIOUS
  <2>2. Width(w) \in Nat /\ Height(w) \in Nat
    BY DEF Windows, Width, Height
  <2>. QED
    BY <2>1, <2>2
<1>2. PICK key \in 0 .. Width(w) * Height(w) - 1 : c = WindowHash(w, key)
  BY KeyOf
<1>3. DOMAIN probe = 1 .. 2 * Width(w) * Height(w)
      /\ \A k \in DOMAIN probe : probe[k] = WindowHash(w, k - 1)
  BY <1>1 DEF WindowProbe
<1>4. key + 1 \in DOMAIN probe /\ (key + 1) - 1 = key /\ DOMAIN probe \subseteq Nat
  <2>1. Width(w) * Height(w) \in Nat
    BY <1>1
  <2>. QED
    BY <1>1, <1>2, <1>3, <2>1
<1>5. probe[key + 1] = c
  BY <1>2, <1>3, <1>4
<1>. HIDE DEF probe
<1>6. S # {} /\ S \in SUBSET Nat
  BY <1>4, <1>5
<1>7. PICK n \in S : \A m \in S : n <= m
  BY <1>6, LeastOf
<1>8. \A j \in 1 .. n - 1 : probe[j] \notin good
  <2>. TAKE j \in 1 .. n - 1
  <2>1. j \in DOMAIN probe /\ j < n
    BY <1>1, <1>3, <1>6, <1>7
  <2>. QED
    BY <1>6, <1>7, <2>1
<1>9. FirstIn(probe, good) # {}
  BY <1>7, <1>8 DEF FirstIn
<1>10. Found(probe, good) = FirstIn(probe, good)
  BY <1>9 DEF Found
<1>11. None \notin FirstIn(probe, good)
  BY DEF FirstIn
<1>. QED
  BY <1>10, <1>11 DEF probe
-----------------------------------------------------------------------------
(* The links between objects, players and cells, for references o, players *)
(* connected as who says and standing where at says.                       *)
Links(o, who, at) ==
  /\ \A x \in Object, p \in Player : o.player[x] = p =>
       /\ x = IF x[2] = "flag" THEN o.flag[p] ELSE o.shovel[p]
       /\ who[p] # None /\ o.cell[x] = at[p]
  /\ \A p \in Player : /\ o.flag[p] # None => o.player[o.flag[p]] = p
                       /\ o.shovel[p] # None => o.player[o.shovel[p]] = p
  /\ \A c \in Cell : o.on[c] # None =>
       o.cell[o.on[c]] = c /\ o.player[o.on[c]] = None

(* A hand holds the kind of object it is for: putting down what is in the  *)
(* flag hand empties that hand.                                            *)
Kinds(o) == \A p \in Player : /\ o.flag[p] # None => o.flag[p][2] = "flag"
                              /\ o.shovel[p] # None => o.shovel[p][2] = "shovel"

Linked(o, who, at) == Links(o, who, at) /\ Kinds(o)

LinksInv == Linked(obj, fd, playerCell)

LEMMA LinksAreOK == Links(obj, fd, playerCell) <=> LinksOK
  BY DEF Links, LinksOK

(* What is put down was in the hands of p, and the cell held nothing.      *)
LEMMA PutDownLinks ==
  ASSUME NEW o \in ObjType, NEW who, NEW at, Linked(o, who, at), NEW p \in Player,
         NEW x \in Object, x \in {o.flag[p], o.shovel[p]},
         NEW c \in Cell, o.on[c] = None
  PROVE  Linked(PutDown(o, x, p, c), who, at)
<1>. DEFINE r == PutDown(o, x, p, c)
<1>1. o.player[x] = p /\ p # None /\ x # None /\ x[2] \in {"flag", "shovel"}
      /\ (x[2] = "flag" <=> x = o.flag[p]) /\ (x[2] # "flag" <=> x = o.shovel[p])
  BY GameAssumption DEF Linked, Links, Kinds
<1>2. /\ r.cell = [o.cell EXCEPT ![x] = c]
      /\ r.player = [o.player EXCEPT ![x] = None]
      /\ r.on = [o.on EXCEPT ![c] = x]
      /\ r.flag = IF x[2] = "flag" THEN [o.flag EXCEPT ![p] = None] ELSE o.flag
      /\ r.shovel = IF x[2] = "flag" THEN o.shovel ELSE [o.shovel EXCEPT ![p] = None]
  BY DEF PutDown
<1>. HIDE DEF r
<1>3. ASSUME NEW y \in Object, NEW q \in Player, r.player[y] = q
      PROVE  /\ y = IF y[2] = "flag" THEN r.flag[q] ELSE r.shovel[q]
             /\ who[q] # None /\ r.cell[y] = at[q]
  <2>1. y # x /\ o.player[y] = q
    BY <1>2, <1>3, GameAssumption DEF ObjType
  <2>2. /\ y = IF y[2] = "flag" THEN o.flag[q] ELSE o.shovel[q]
        /\ who[q] # None /\ o.cell[y] = at[q]
    BY <2>1 DEF Linked, Links
  <2>3. r.cell[y] = o.cell[y]
    BY <1>2, <2>1 DEF ObjType
  <2>4. y[2] = "flag" => r.flag[q] = o.flag[q]
    BY <1>1, <1>2, <2>1, <2>2 DEF ObjType
  <2>5. y[2] # "flag" => r.shovel[q] = o.shovel[q]
    BY <1>1, <1>2, <2>1, <2>2 DEF ObjType
  <2>. QED
    BY <2>2, <2>3, <2>4, <2>5
<1>4. ASSUME NEW q \in Player
      PROVE  /\ r.flag[q] # None => r.player[r.flag[q]] = q /\ r.flag[q][2] = "flag"
             /\ r.shovel[q] # None => r.player[r.shovel[q]] = q /\ r.shovel[q][2] = "shovel"
  <2>1. r.flag[q] \in {o.flag[q], None} /\ r.shovel[q] \in {o.shovel[q], None}
    BY <1>2 DEF ObjType
  <2>2. r.flag[q] # None => r.flag[q] # x /\ r.flag[q] = o.flag[q]
    BY <1>1, <1>2, <2>1 DEF ObjType, Linked, Links, Kinds
  <2>3. r.shovel[q] # None => r.shovel[q] # x /\ r.shovel[q] = o.shovel[q]
    BY <1>1, <1>2, <2>1 DEF ObjType, Linked, Links, Kinds
  <2>4. \A y \in Object : y # x => r.player[y] = o.player[y]
    BY <1>2 DEF ObjType
  <2>5. o.flag[q] \in Object \cup {None} /\ o.shovel[q] \in Object \cup {None}
    BY DEF ObjType
  <2>. QED
    BY <2>2, <2>3, <2>4, <2>5 DEF Linked, Links, Kinds
<1>5. ASSUME NEW d \in Cell, r.on[d] # None
      PROVE  r.cell[r.on[d]] = d /\ r.player[r.on[d]] = None
  <2>1. CASE d = c
    BY <1>2, <2>1 DEF ObjType
  <2>2. CASE d # c
    <3>1. r.on[d] = o.on[d] /\ o.on[d] \in Object
      BY <1>2, <1>5, <2>2 DEF ObjType
    <3>2. o.cell[o.on[d]] = d /\ o.player[o.on[d]] = None
      BY <1>5, <3>1 DEF Linked, Links
    <3>. QED
      BY <1>1, <1>2, <3>1, <3>2 DEF ObjType
  <2>. QED
    BY <2>1, <2>2
<1>6. Links(r, who, at)
  BY <1>3, <1>4, <1>5 DEF Links
<1>7. Kinds(r)
  BY <1>4 DEF Kinds
<1>. QED
  BY <1>6, <1>7 DEF Linked, r

LEMMA VacatedLinks ==
  ASSUME NEW o \in ObjType, NEW who, NEW at, Linked(o, who, at), NEW c \in Cell
  PROVE  Linked(Vacated(o, c), who, at)
<1>. DEFINE r == Vacated(o, c)
<1>1. /\ r.cell = o.cell /\ r.player = o.player
      /\ r.on = [o.on EXCEPT ![c] = None]
      /\ r.flag = o.flag /\ r.shovel = o.shovel
  BY DEF Vacated, ObjType
<1>. HIDE DEF r
<1>2. \A d \in Cell : r.on[d] # None => r.on[d] = o.on[d]
  BY <1>1 DEF ObjType
<1>3. Links(r, who, at)
  BY <1>1, <1>2 DEF Linked, Links
<1>4. Kinds(r)
  BY <1>1 DEF Linked, Kinds
<1>. QED
  BY <1>3, <1>4 DEF Linked, r

(* What p carries goes with p.                                             *)
LEMMA CarryLinks ==
  ASSUME NEW o \in ObjType, NEW who, NEW at, Linked(o, who, at),
         NEW p \in Player, NEW c \in Cell, p \in DOMAIN at
  PROVE  Linked(Carry(o, p, c), who, [at EXCEPT ![p] = c])
<1>. DEFINE r == Carry(o, p, c)
            now == [at EXCEPT ![p] = c]
<1>1. /\ r.cell = [x \in Object |-> IF x \in {o.flag[p], o.shovel[p]} THEN c ELSE o.cell[x]]
      /\ r.player = o.player /\ r.on = o.on
      /\ r.flag = o.flag /\ r.shovel = o.shovel
  BY DEF Carry, ObjType
<1>2. \A x \in Object : x \in {o.flag[p], o.shovel[p]} <=> o.player[x] = p
  BY GameAssumption DEF Linked, Links
<1>. HIDE DEF r
<1>3. ASSUME NEW x \in Object, NEW q \in Player, r.player[x] = q
      PROVE  r.cell[x] = now[q]
  <2>1. o.player[x] = q /\ o.cell[x] = at[q]
    BY <1>1, <1>3 DEF Linked, Links
  <2>2. CASE q = p
    BY <1>1, <1>2, <2>1, <2>2
  <2>3. CASE q # p
    BY <1>1, <1>2, <2>1, <2>3
  <2>. QED
    BY <2>2, <2>3
<1>4. ASSUME NEW d \in Cell, r.on[d] # None
      PROVE  r.cell[r.on[d]] = d /\ r.player[r.on[d]] = None
  <2>1. r.on[d] = o.on[d] /\ o.on[d] \in Object /\ o.player[o.on[d]] = None
        /\ o.cell[o.on[d]] = d
    BY <1>1, <1>4 DEF Linked, Links, ObjType
  <2>2. p # None
    BY GameAssumption
  <2>. QED
    BY <1>1, <1>2, <2>1, <2>2
<1>5. Links(r, who, now)
  BY <1>1, <1>3, <1>4 DEF Linked, Links
<1>6. Kinds(r)
  BY <1>1 DEF Linked, Kinds
<1>. QED
  BY <1>5, <1>6 DEF Linked, r

LEMMA PickedUpLinks ==
  ASSUME NEW o \in ObjType, NEW who, NEW at, Linked(o, who, at),
         NEW p \in Player, NEW c \in Cell, who[p] # None, at[p] = c,
         NEW x \in Object, o.on[c] = x,
         IF x[2] = "flag" THEN o.flag[p] = None ELSE o.shovel[p] = None
  PROVE  Linked(PickedUp(o, x, p, c), who, at)
<1>. DEFINE r == PickedUp(o, x, p, c)
<1>1. o.player[x] = None /\ o.cell[x] = c /\ p # None /\ x # None
      /\ x[2] \in {"flag", "shovel"}
  BY GameAssumption DEF Linked, Links
<1>2. /\ r.cell = [o.cell EXCEPT ![x] = c]
      /\ r.player = [o.player EXCEPT ![x] = p]
      /\ r.on = [o.on EXCEPT ![c] = None]
      /\ r.flag = IF x[2] = "flag" THEN [o.flag EXCEPT ![p] = x] ELSE o.flag
      /\ r.shovel = IF x[2] = "flag" THEN o.shovel ELSE [o.shovel EXCEPT ![p] = x]
  BY DEF PickedUp
<1>. HIDE DEF r
<1>3. ASSUME NEW y \in Object, NEW q \in Player, r.player[y] = q
      PROVE  /\ y = IF y[2] = "flag" THEN r.flag[q] ELSE r.shovel[q]
             /\ who[q] # None /\ r.cell[y] = at[q]
  <2>1. CASE y = x
    <3>1. q = p /\ r.cell[y] = c
      BY <1>2, <1>3, <2>1 DEF ObjType
    <3>2. y = IF y[2] = "flag" THEN r.flag[q] ELSE r.shovel[q]
      BY <1>2, <2>1, <3>1 DEF ObjType
    <3>. QED
      BY <3>1, <3>2
  <2>2. CASE y # x
    <3>1. o.player[y] = q /\ r.cell[y] = o.cell[y]
      BY <1>2, <1>3, <2>2 DEF ObjType
    <3>2. /\ y = IF y[2] = "flag" THEN o.flag[q] ELSE o.shovel[q]
          /\ who[q] # None /\ o.cell[y] = at[q]
      BY <3>1 DEF Linked, Links
    <3>3. y[2] = "flag" => r.flag[q] = o.flag[q]
      BY <1>1, <1>2, <3>2, GameAssumption DEF ObjType
    <3>4. y[2] # "flag" => r.shovel[q] = o.shovel[q]
      BY <1>1, <1>2, <3>2, GameAssumption DEF ObjType
    <3>. QED
      BY <3>1, <3>2, <3>3, <3>4
  <2>. QED
    BY <2>1, <2>2
<1>4. ASSUME NEW q \in Player
      PROVE  /\ r.flag[q] # None => r.player[r.flag[q]] = q /\ r.flag[q][2] = "flag"
             /\ r.shovel[q] # None => r.player[r.shovel[q]] = q /\ r.shovel[q][2] = "shovel"
  <2>1. r.player[x] = p /\ \A y \in Object \ {x} : r.player[y] = o.player[y]
    BY <1>2 DEF ObjType
  <2>2. o.flag[q] \in Object \cup {None} /\ o.shovel[q] \in Object \cup {None}
    BY DEF ObjType
  <2>3. o.flag[q] # x /\ o.shovel[q] # x
    BY <1>1, GameAssumption DEF Linked, Links
  <2>4. \/ r.flag[q] = o.flag[q]
        \/ q = p /\ r.flag[q] = x /\ x[2] = "flag"
    BY <1>2 DEF ObjType
  <2>5. \/ r.shovel[q] = o.shovel[q]
        \/ q = p /\ r.shovel[q] = x /\ x[2] = "shovel"
    BY <1>1, <1>2 DEF ObjType
  <2>. QED
    BY <2>1, <2>2, <2>3, <2>4, <2>5 DEF Linked, Links, Kinds
<1>5. ASSUME NEW d \in Cell, r.on[d] # None
      PROVE  r.cell[r.on[d]] = d /\ r.player[r.on[d]] = None
  <2>1. d # c /\ r.on[d] = o.on[d] /\ o.on[d] \in Object
    BY <1>2, <1>5 DEF ObjType
  <2>2. o.cell[o.on[d]] = d /\ o.player[o.on[d]] = None
    BY <2>1, GameAssumption DEF Linked, Links
  <2>3. o.on[d] # x
    BY <1>1, <2>1, <2>2
  <2>. QED
    BY <1>2, <2>1, <2>2, <2>3 DEF ObjType
<1>6. Links(r, who, at)
  BY <1>3, <1>4, <1>5 DEF Links
<1>7. Kinds(r)
  BY <1>4 DEF Kinds
<1>. QED
  BY <1>6, <1>7 DEF Linked, r
-----------------------------------------------------------------------------
(* From references o to r no object changed hands, and none that lay       *)
(* somewhere was moved or picked up.                                       *)
NoHandOver(o, r) ==
  \A x \in Object :
    /\ o.player[x] = None => r.cell[x] = o.cell[x] /\ r.player[x] = None
    /\ o.player[x] # None => r.player[x] \in {o.player[x], None}

LEMMA NoHandOverTwice ==
  ASSUME NEW o, NEW r, NEW s, NoHandOver(o, r), NoHandOver(r, s)
  PROVE  NoHandOver(o, s)
BY DEF NoHandOver

LEMMA PutDownKeeps ==
  ASSUME NEW o \in ObjType, NEW who, NEW at, Linked(o, who, at), NEW p \in Player,
         NEW x \in Object, x \in {o.flag[p], o.shovel[p]}, NEW c \in Cell
  PROVE  NoHandOver(o, PutDown(o, x, p, c))
<1>1. o.player[x] = p /\ p # None
  BY GameAssumption DEF Linked, Links
<1>. QED
  BY <1>1 DEF NoHandOver, PutDown, ObjType

LEMMA CarryKeeps ==
  ASSUME NEW o \in ObjType, NEW who, NEW at, Linked(o, who, at), NEW p \in Player, NEW c
  PROVE  NoHandOver(o, Carry(o, p, c))
<1>1. \A x \in Object : x \in {o.flag[p], o.shovel[p]} => o.player[x] # None
  BY GameAssumption DEF Linked, Links
<1>. QED
  BY <1>1 DEF NoHandOver, Carry, ObjType

(* A search for a home cell, whatever it finds.                            *)
LEMMA ResetLinks ==
  ASSUME NEW o \in ObjType, NEW who, Linked(o, who, playerCell), NEW p \in Player,
         playerCell[p] \in Cell, NEW held, NEW r \in ResetShovel(o, p, held)
  PROVE  Linked(r, who, playerCell) /\ NoHandOver(o, r)
<1>1. NoHandOver(o, o)
  BY DEF NoHandOver
<1>2. CASE o.shovel[p] = None
  BY <1>1, <1>2 DEF ResetShovel
<1>3. CASE o.shovel[p] # None
  <2>. DEFINE s == o.shovel[p]
  <2>1. PICK d \in Found(HomeProbe(s[1], 0), NotHolding(o, held)) :
          r = IF d = None THEN o ELSE Vacated(PutDown(o, s, p, d), playerCell[p])
    BY <1>3 DEF ResetShovel
  <2>2. CASE d = None
    BY <1>1, <2>1, <2>2
  <2>3. CASE d # None
    <3>1. d \in Cell /\ o.on[d] = None /\ s \in Object
      BY <1>3, <2>3, FoundIsGood DEF NotHolding, ObjType
    <3>2. PutDown(o, s, p, d) \in ObjType
      BY <3>1, PutDownType
    <3>3. Linked(PutDown(o, s, p, d), who, playerCell) /\ NoHandOver(o, PutDown(o, s, p, d))
      BY <3>1, PutDownLinks, PutDownKeeps
    <3>4. NoHandOver(PutDown(o, s, p, d), r)
      BY <2>1, <2>3, <3>2 DEF NoHandOver, Vacated, ObjType
    <3>. QED
      BY <2>1, <2>3, <3>2, <3>3, <3>4, VacatedLinks, NoHandOverTwice
  <2>. QED
    BY <2>2, <2>3
<1>. QED
  BY <1>2, <1>3

LEMMA DropLinks ==
  ASSUME NEW o \in ObjType, NEW who, Linked(o, who, playerCell), NEW p \in Player,
         playerCell[p] \in Cell, NEW held, NEW r \in DropFlag(o, p, held)
  PROVE  /\ Linked(r, who, playerCell) /\ NoHandOver(o, r)
         /\ r.flag[p] = None /\ r.shovel[p] = o.shovel[p]
<1>1. NoHandOver(o, o)
  BY DEF NoHandOver
<1>2. CASE o.flag[p] = None
  BY <1>1, <1>2 DEF DropFlag
<1>3. CASE o.flag[p] # None
  <2>1. PICK d \in Cell : o.on[d] = None /\ r = PutDown(o, o.flag[p], p, d)
    BY <1>3 DEF DropFlag, FirstIn, NotHolding
  <2>2. o.flag[p] \in Object /\ o.flag[p][2] = "flag"
    BY <1>3 DEF ObjType, Linked, Kinds
  <2>3. r.flag[p] = None /\ r.shovel[p] = o.shovel[p]
    BY <2>1, <2>2 DEF PutDown, ObjType
  <2>. QED
    BY <2>1, <2>2, <2>3, PutDownLinks, PutDownKeeps
<1>. QED
  BY <1>2, <1>3

LEMMA StripLinks ==
  ASSUME NEW o \in ObjType, NEW who, Linked(o, who, playerCell), NEW p \in Player,
         playerCell[p] \in Cell, NEW held, NEW r \in Strip(o, p, held)
  PROVE  Linked(r, who, playerCell) /\ NoHandOver(o, r) /\ r.flag[p] = None
<1>1. PICK q \in ResetShovel(o, p, held) : r \in DropFlag(q, p, held)
  BY DEF Strip
<1>2. q \in ObjType /\ Linked(q, who, playerCell) /\ NoHandOver(o, q)
  BY ResetType, ResetLinks
<1>. QED
  BY <1>1, <1>2, DropLinks, NoHandOverTwice
-----------------------------------------------------------------------------
(* The home of a shovel has a cell to spare for it: more cells than there  *)
(* are objects, besides those that other requests hold at once.  The homes *)
(* of the map files have 190 cells each, and there are four objects.       *)
RoomAtHome ==
  \A x \in Object, busy \in BusySets :
    x[2] = "shovel" => Cardinality(HomeCells[x[1]] \ busy) > Cardinality(Object)

LEMMA FiniteSets ==
  IsFiniteSet(Object) /\ IsFiniteSet(Cell) /\ \A t \in Team : IsFiniteSet(HomeCells[t])
<1>1. IsFiniteSet({"flag", "shovel"}) /\ IsFiniteSet(Team)
  <2>1. IsFiniteSet({"flag"} \cup {"shovel"}) /\ IsFiniteSet({TEAM_RED} \cup {TEAM_BLUE})
    BY FS_Singleton, FS_AddElement
  <2>2. {"flag", "shovel"} = {"flag"} \cup {"shovel"} /\ Team = {TEAM_RED} \cup {TEAM_BLUE}
    BY DEF Team
  <2>. QED
    BY <2>1, <2>2
<1>2. IsFiniteSet(Team \X {"flag", "shovel"})
  BY <1>1, FS_Product
<1>3. IsFiniteSet(Object)
  BY <1>2, FS_Subset, GameAssumption
<1>4. IsFiniteSet(0 .. Columns - 1) /\ IsFiniteSet(0 .. Rows - 1)
  BY MapAssumption, FS_Interval
<1>5. IsFiniteSet(Cell)
  BY <1>4, FS_Product DEF Cell
<1>6. \A t \in Team : HomeCells[t] \in SUBSET Cell
  BY DEF HomeCells
<1>. QED
  BY <1>3, <1>5, <1>6, FS_Subset

(* Each object lies on one cell at most, so they cannot fill a home.       *)
LEMMA SpareHomeCell ==
  ASSUME RoomAtHome, NEW o \in ObjType, NEW who, NEW at, Linked(o, who, at),
         NEW s \in Object, o.player[s] # None, s[2] = "shovel",
         NEW t \in Team, t = s[1], NEW busy \in BusySets, NEW c
  PROVE  \E d \in HomeCells[t] \ (busy \cup {c}) : o.on[d] = None
<1>. DEFINE spare == (HomeCells[t] \ busy) \ {c}
            lying == Object \ {s}
<1>. SUFFICES ASSUME \A d \in spare : o.on[d] # None PROVE FALSE
  OBVIOUS
<1>0. spare \subseteq Cell
  BY DEF HomeCells
<1>1. IsFiniteSet(HomeCells[t] \ busy) /\ IsFiniteSet(Object) /\ IsFiniteSet(HomeCells[t])
  BY FiniteSets, FS_Difference
<1>3. /\ IsFiniteSet(spare) /\ Cardinality(spare) >= Cardinality(HomeCells[t] \ busy) - 1
      /\ Cardinality(spare) \in Int
  <2>1. Cardinality(HomeCells[t] \ busy) \in Nat
    BY <1>1, FS_CardinalityType
  <2>2. /\ IsFiniteSet((HomeCells[t] \ busy) \ {c})
        /\ \/ Cardinality((HomeCells[t] \ busy) \ {c}) = Cardinality(HomeCells[t] \ busy) - 1
           \/ Cardinality((HomeCells[t] \ busy) \ {c}) = Cardinality(HomeCells[t] \ busy)
    BY <1>1, FS_RemoveElement
  <2>. QED
    BY <2>1, <2>2
<1>4. /\ IsFiniteSet(lying) /\ Cardinality(lying) = Cardinality(Object) - 1
      /\ Cardinality(lying) \in Int
  <2>1. Cardinality(Object) \in Nat
    BY <1>1, FS_CardinalityType
  <2>. QED
    BY <1>1, <2>1, FS_RemoveElement
<1>5. Cardinality(lying) < Cardinality(spare)
  <2>1. Cardinality(HomeCells[t] \ busy) > Cardinality(Object)
    BY DEF RoomAtHome
  <2>2. Cardinality(HomeCells[t] \ busy) \in Nat /\ Cardinality(Object) \in Nat
    BY <1>1, FS_CardinalityType
  <2>. QED
    BY <1>3, <1>4, <2>1, <2>2
<1>6. \A d \in spare : o.on[d] \in lying /\ o.cell[o.on[d]] = d
  BY <1>0 DEF Linked, Links, ObjType
<1>7. [d \in spare |-> o.on[d]] \in [spare -> lying]
  BY <1>6
<1>. HIDE DEF spare, lying
<1>8. PICK d, e \in spare : d # e /\ [b \in spare |-> o.on[b]][d] = [b \in spare |-> o.on[b]][e]
  <2>. DEFINE f == [b \in spare |-> o.on[b]]
  <2>1. f \in [spare -> lying]
    BY <1>7
  <2>. HIDE DEF f
  <2>2. \E d, e \in spare : d # e /\ f[d] = f[e]
    BY <1>3, <1>4, <1>5, <2>1, FS_PigeonHole
  <2>. QED
    BY <2>2 DEF f
<1>. QED
  BY <1>6, <1>8

(* A player who leaves leaves everything behind.                           *)
LEMMA StripEmpties ==
  ASSUME RoomAtHome, NEW o \in ObjType, NEW who, Linked(o, who, playerCell),
         NEW p \in Player, playerCell[p] \in Cell, NEW busy \in BusySets,
         NEW r \in Strip(o, p, busy \cup {playerCell[p]})
  PROVE  r.flag[p] = None /\ r.shovel[p] = None
<1>. DEFINE c == playerCell[p]
            held == busy \cup {c}
<1>1. PICK q \in ResetShovel(o, p, held) : r \in DropFlag(q, p, held)
  BY DEF Strip
<1>2. q \in ObjType /\ Linked(q, who, playerCell)
  BY ResetType, ResetLinks
<1>3. r.flag[p] = None /\ r.shovel[p] = q.shovel[p]
  BY <1>1, <1>2, DropLinks
<1>4. CASE o.shovel[p] = None
  BY <1>1, <1>3, <1>4 DEF ResetShovel
<1>5. CASE o.shovel[p] # None
  <2>. DEFINE s == o.shovel[p]
              good == NotHolding(o, held)
  <2>1. s \in Object /\ s[1] \in Team /\ s[2] = "shovel" /\ o.player[s] # None
    BY <1>5, GameAssumption DEF ObjType, Linked, Links, Kinds
  <2>2. PICK d \in Found(HomeProbe(s[1], 0), good) :
          q = IF d = None THEN o ELSE Vacated(PutDown(o, s, p, d), c)
    BY <1>1, <1>5 DEF ResetShovel
  <2>3. PICK e \in HomeCells[s[1]] \ held : o.on[e] = None
    <3>1. ASSUME NEW x \in Object, o.player[x] # None, x[1] \in Team, x[2] = "shovel"
          PROVE  \E e \in HomeCells[x[1]] \ held : o.on[e] = None
      BY <3>1, SpareHomeCell
    <3>. QED
      BY <2>1, <3>1
  <2>4. e \in Cell /\ InWindow(e, HomeWindow[s[1]]) /\ e \in good
    BY <2>1, <2>3 DEF HomeCells, NotHolding
  <2>5. None \notin good
    BY GameAssumption DEF NotHolding
  <2>6. HomeWindow[s[1]] \in Windows /\ Width(HomeWindow[s[1]]) > 0 /\ Height(HomeWindow[s[1]]) > 0
    BY <2>1, MapAssumption
  <2>. HIDE DEF good
  <2>7. d # None
    BY <2>4, <2>5, <2>6, SearchEndsWell DEF HomeProbe
  <2>8. q.shovel = [o.shovel EXCEPT ![p] = None]
    BY <2>1, <2>2, <2>7 DEF Vacated, PutDown
  <2>. QED
    BY <1>3, <2>8 DEF ObjType
<1>. QED
  BY <1>4, <1>5
-----------------------------------------------------------------------------
(* What a step does to the objects: an object is picked up where it lies,  *)
(* into an empty hand, and nothing else changes hands then.                *)
PickedAlone(x) ==
  \A y \in Object \ {x} : /\ obj'.player[y] = obj.player[y]
                          /\ y[2] = x[2] => obj.player[y] # obj'.player[x]

ByHand == \A x \in Object :
            /\ obj.player[x] = None => /\ obj'.cell[x] = obj.cell[x]
                                       /\ obj'.player[x] = None \/ PickedAlone(x)
            /\ obj.player[x] # None => obj'.player[x] \in {obj.player[x], None}

LEMMA StillLinks ==
  ASSUME LinksInv, UNCHANGED <<obj, fd, playerCell>>
  PROVE  LinksInv' /\ ByHand
BY DEF LinksInv, ByHand

LEMMA MoveLinks ==
  ASSUME TypeOK, LinksInv, NEW p \in Player, NEW n \in Cell, NEW o \in ObjType,
         Linked(o, fd, playerCell), NoHandOver(obj, o),
         MovePlayer(p, n), obj' = Carry(o, p, n), UNCHANGED fd
  PROVE  LinksInv' /\ ByHand
<1>1. Linked(Carry(o, p, n), fd, [playerCell EXCEPT ![p] = n])
  BY CarryLinks DEF TypeOK
<1>2. NoHandOver(obj, Carry(o, p, n))
  BY CarryKeeps, NoHandOverTwice
<1>3. playerCell' = [playerCell EXCEPT ![p] = n] /\ fd' = fd
  BY DEF MovePlayer
<1>. QED
  BY <1>1, <1>2, <1>3 DEF LinksInv, NoHandOver, ByHand

LEMMA RequestLinks ==
  ASSUME TypeOK, OccupancyOK, LinksInv, NEW p \in Player, NEW busy \in BusySets,
         Request(p, busy)
  PROVE  LinksInv' /\ ByHand
<1>. USE DEF registry, places, homes
<1>1. playerCell[p] \in Cell /\ TeamOf(p) \in Team /\ IdOf(p) \in Nat
  BY PlayerShape DEF Request, TypeOK
<1>2. obj \in ObjType /\ Linked(obj, fd, playerCell) /\ NoHandOver(obj, obj)
  BY DEF TypeOK, LinksInv, NoHandOver
<1>3. ASSUME Idle(p) PROVE LinksInv' /\ ByHand
  BY <1>3, StillLinks DEF Idle
<1>4. ASSUME NEW n \in Targets(p), Move(p, n, busy) PROVE LinksInv' /\ ByHand
  <2>1. n \in Cell
    BY <1>1, TargetType, GameAssumption
  <2>2. CASE JailedBump(p, n)
    BY <1>3, <2>2 DEF JailedBump
  <2>3. CASE JailedMove(p, n)
    BY <1>2, <2>1, <2>3, MoveLinks DEF JailedMove
  <2>4. CASE WallMove(p, n, busy)
    <3>1. PICK o \in ResetShovel(obj, p, busy \cup {playerCell[p], n}) : obj' = Carry(o, p, n)
      BY <2>4 DEF WallMove
    <3>2. o \in ObjType /\ Linked(o, fd, playerCell) /\ NoHandOver(obj, o)
      BY <1>1, <1>2, ResetType, ResetLinks
    <3>. QED
      BY <2>1, <2>4, <3>1, <3>2, MoveLinks DEF WallMove
  <2>5. CASE FloorMove(p, n)
    BY <1>2, <2>1, <2>5, MoveLinks DEF FloorMove
  <2>6. CASE WalkIntoTagger(p, n, busy)
    <3>. DEFINE c == playerCell[p]
                good == Free(busy \cup {c, n})
    <3>1. PICK cell \in Found(JailProbe(OppositeTeam(TeamOf(p)), IdOf(p)), good) \ {None} :
             /\ \E o \in Strip(obj, p, busy \cup {c, n, cell}) : obj' = Carry(o, p, cell)
             /\ MovePlayer(p, cell)
      BY <2>6 DEF WalkIntoTagger
    <3>2. cell \in Cell
      BY <3>1, FoundIsGood DEF Free
    <3>3. PICK o \in Strip(obj, p, busy \cup {c, n, cell}) : obj' = Carry(o, p, cell)
      BY <3>1
    <3>4. o \in ObjType /\ Linked(o, fd, playerCell) /\ NoHandOver(obj, o)
      BY <1>1, <1>2, StripType, StripLinks
    <3>. QED
      BY <2>6, <3>1, <3>2, <3>3, <3>4, MoveLinks DEF WalkIntoTagger
  <2>7. CASE Tag(p, n, busy)
    <3>. DEFINE c == playerCell[p]
                q == cellPlayer[n]
                good == Free(busy \cup {c, n})
    <3>1. PICK cell \in Found(JailProbe(TeamOf(p), IdOf(q)), good) \ {None} :
             /\ \E o \in Strip(obj, q, busy \cup {c, n, cell}) :
                  obj' = Carry(Carry(o, q, cell), p, n)
             /\ playerCell' = [playerCell EXCEPT ![q] = cell, ![p] = n]
      BY <2>7 DEF Tag
    <3>2. cell \in Cell /\ q \in Player
      BY <3>1, <2>1, <2>7, FoundIsGood DEF Free, Tag, Occupied, TypeOK
    <3>3. playerCell[q] \in Cell
      BY <2>1, <2>7 DEF Tag, Occupied, OccupancyOK
    <3>4. PICK o \in Strip(obj, q, busy \cup {c, n, cell}) :
             obj' = Carry(Carry(o, q, cell), p, n)
      BY <3>1
    <3>5. o \in ObjType /\ Linked(o, fd, playerCell) /\ NoHandOver(obj, o)
      BY <1>2, <3>2, <3>3, StripType, StripLinks
    <3>. DEFINE mid == [playerCell EXCEPT ![q] = cell]
                r == Carry(o, q, cell)
    <3>6. r \in ObjType /\ Linked(r, fd, mid) /\ NoHandOver(obj, r)
      BY <3>2, <3>5, CarryType, CarryLinks, CarryKeeps, NoHandOverTwice DEF TypeOK
    <3>7. p \in DOMAIN mid /\ playerCell' = [mid EXCEPT ![p] = n]
      BY <3>1, <3>2 DEF TypeOK
    <3>. HIDE DEF mid
    <3>8. Linked(Carry(r, p, n), fd, [mid EXCEPT ![p] = n]) /\ NoHandOver(obj, Carry(r, p, n))
      BY <2>1, <3>6, <3>7, CarryLinks, CarryKeeps, NoHandOverTwice
    <3>9. UNCHANGED fd
      BY <2>7 DEF Tag
    <3>. QED
      BY <3>4, <3>7, <3>8, <3>9 DEF LinksInv, NoHandOver, ByHand
  <2>. QED
    BY <1>4, <2>2, <2>3, <2>4, <2>5, <2>6, <2>7 DEF Move
<1>5. ASSUME NEW kind \in {"flag", "shovel"}, Handle(p, kind, busy)
      PROVE  LinksInv' /\ ByHand
  <2>1. CASE Noop(p) \/ DropNothing(p, kind)
    BY <1>3, <2>1 DEF Noop, DropNothing
  <2>2. CASE DropFlagHere(p, busy)
    <3>1. Linked(obj', fd, playerCell) /\ NoHandOver(obj, obj')
      BY <1>1, <1>2, <2>2, DropLinks DEF DropFlagHere
    <3>. QED
      BY <2>2, <3>1 DEF DropFlagHere, LinksInv, NoHandOver, ByHand
  <2>3. CASE DropShovelHere(p)
    <3>1. obj.shovel[p] \in Object /\ obj.on[playerCell[p]] = None
          /\ obj' = PutDown(obj, obj.shovel[p], p, playerCell[p])
      BY <1>2, <2>3 DEF DropShovelHere, ObjType
    <3>2. Linked(obj', fd, playerCell) /\ NoHandOver(obj, obj')
      BY <1>1, <1>2, <3>1, PutDownLinks, PutDownKeeps
    <3>. QED
      BY <2>3, <3>2 DEF DropShovelHere, LinksInv, NoHandOver, ByHand
  <2>4. CASE PickUp(p, kind)
    <3>. DEFINE c == playerCell[p]
                x == obj.on[c]
    <3>1. x \in Object /\ obj' = PickedUp(obj, x, p, c) /\ fd[p] # None
          /\ (IF x[2] = "flag" THEN obj.flag[p] = None ELSE obj.shovel[p] = None)
      BY <1>1, <1>2, <2>4, GameAssumption DEF PickUp, ObjType, OccupancyOK
    <3>2. Linked(PickedUp(obj, x, p, c), fd, playerCell)
      BY <1>1, <1>2, <3>1, PickedUpLinks
    <3>3. obj.cell[x] = c /\ obj.player[x] = None
      BY <1>1, <1>2, <3>1, GameAssumption DEF Linked, Links
    <3>4. obj'.player = [obj.player EXCEPT ![x] = p] /\ obj'.cell = [obj.cell EXCEPT ![x] = c]
      BY <3>1 DEF PickedUp
    <3>5. ASSUME NEW y \in Object, y[2] = x[2] PROVE obj.player[y] # p
      BY <1>2, <3>1, <3>5, GameAssumption DEF Linked, Links
    <3>6. \A y \in Object \ {x} : /\ obj'.player[y] = obj.player[y]
                                 /\ obj'.cell[y] = obj.cell[y]
      BY <1>2, <3>1, <3>4 DEF ObjType
    <3>7. obj'.player[x] = p /\ obj'.cell[x] = c
      BY <1>2, <3>1, <3>4 DEF ObjType
    <3>. HIDE DEF x, c
    <3>8. PickedAlone(x)
      BY <3>5, <3>6, <3>7 DEF PickedAlone
    <3>9. ByHand
      BY <3>3, <3>6, <3>7, <3>8 DEF ByHand
    <3>10. UNCHANGED <<fd, playerCell>>
      BY <2>4 DEF PickUp
    <3>. QED
      BY <3>1, <3>2, <3>9, <3>10 DEF LinksInv
  <2>. QED
    BY <1>5, <2>1, <2>2, <2>3, <2>4 DEF Handle
<1>. QED
  BY <1>4, <1>5 DEF Request

(* A hello takes a slot whose last player left everything behind.          *)
LEMMA JoinLinks ==
  ASSUME TypeOK, OccupancyOK, LinksInv, NEW f \in Fd, NEW p \in Player,
         NEW busy \in BusySets, Join(f, p, busy)
  PROVE  LinksInv' /\ ByHand
<1>1. Enlist(f, p)
  BY DEF Join, Hello, HelloUnplaced
<1>2. fd[p] = None /\ f # None /\ fd' = [fd EXCEPT ![p] = f]
  BY <1>1, GameAssumption DEF Enlist, FirstSlot
<1>3. \A x \in Object : obj.player[x] # p
  BY <1>2 DEF LinksInv, Linked, Links
<1>4. obj.flag[p] = None /\ obj.shovel[p] = None
  BY <1>3 DEF LinksInv, Linked, Links, TypeOK, ObjType
<1>5. obj'.cell = obj.cell /\ obj'.player = obj.player /\ obj'.on = obj.on
      /\ obj'.flag = [obj.flag EXCEPT ![p] = None]
      /\ obj'.shovel = [obj.shovel EXCEPT ![p] = None]
  BY <1>1 DEF Enlist
<1>6. obj'.flag = obj.flag /\ obj'.shovel = obj.shovel
  BY <1>4, <1>5 DEF TypeOK, ObjType
<1>7. \A q \in Player \ {p} : playerCell'[q] = playerCell[q] /\ fd'[q] = fd[q]
  BY <1>2 DEF Join, Hello, HelloUnplaced, TypeOK
<1>8. Links(obj', fd', playerCell')
  <2>1. ASSUME NEW x \in Object, NEW q \in Player, obj'.player[x] = q
        PROVE  /\ x = IF x[2] = "flag" THEN obj'.flag[q] ELSE obj'.shovel[q]
               /\ fd'[q] # None /\ obj'.cell[x] = playerCell'[q]
    <3>1. q # p /\ obj.player[x] = q
      BY <1>3, <1>5, <2>1
    <3>. QED
      BY <1>5, <1>6, <1>7, <3>1 DEF LinksInv, Linked, Links
  <2>2. /\ \A q \in Player : /\ obj'.flag[q] # None => obj'.player[obj'.flag[q]] = q
                             /\ obj'.shovel[q] # None => obj'.player[obj'.shovel[q]] = q
        /\ \A c \in Cell : obj'.on[c] # None =>
             obj'.cell[obj'.on[c]] = c /\ obj'.player[obj'.on[c]] = None
    BY <1>5, <1>6 DEF LinksInv, Linked, Links
  <2>. QED
    BY <2>1, <2>2 DEF Links
<1>9. Kinds(obj')
  BY <1>6 DEF LinksInv, Linked, Kinds
<1>10. ByHand
  BY <1>5 DEF ByHand
<1>. QED
  BY <1>8, <1>9, <1>10 DEF LinksInv, Linked

LEMMA LeaveLinks ==
  ASSUME RoomAtHome, TypeOK, OccupancyOK, LinksInv, NEW p \in Player,
         NEW busy \in BusySets, Leave(p, busy)
  PROVE  LinksInv' /\ ByHand
<1>1. playerCell[p] \in Cell /\ obj' \in Strip(obj, p, busy \cup {playerCell[p]})
      /\ playerCell' = [playerCell EXCEPT ![p] = None] /\ fd' = [fd EXCEPT ![p] = None]
  BY DEF Leave, TypeOK
<1>2. obj \in ObjType /\ Linked(obj, fd, playerCell)
  BY DEF TypeOK, LinksInv
<1>3. Linked(obj', fd, playerCell) /\ NoHandOver(obj, obj')
  BY <1>1, <1>2, StripLinks
<1>4. obj'.flag[p] = None /\ obj'.shovel[p] = None
  BY <1>1, <1>2, StripEmpties
<1>5. \A x \in Object : obj'.player[x] # p
  BY <1>3, <1>4, GameAssumption DEF Linked, Links
<1>6. \A q \in Player \ {p} : playerCell'[q] = playerCell[q] /\ fd'[q] = fd[q]
  BY <1>1 DEF TypeOK
<1>7. Links(obj', fd', playerCell')
  BY <1>3, <1>5, <1>6 DEF Linked, Links
<1>. QED
  BY <1>3, <1>7 DEF LinksInv, Linked, NoHandOver, ByHand

LEMMA InitLinks == Init => LinksInv
<1>. SUFFICES ASSUME Init PROVE LinksInv
  OBVIOUS
<1>1. PICK start \in Starts :
        obj = [cell   |-> start,
               player |-> [x \in Object |-> None],
               on     |-> OnAt(start),
               flag   |-> [p \in Player |-> None],
               shovel |-> [p \in Player |-> None]]
  BY DEF Init
<1>2. /\ obj.cell = start /\ obj.player = [x \in Object |-> None]
      /\ obj.on = OnAt(start)
      /\ obj.flag = [p \in Player |-> None] /\ obj.shovel = [p \in Player |-> None]
  BY <1>1
<1>3. obj \in ObjType
  BY InitType DEF TypeOK
<1>4. ASSUME NEW c \in Cell, obj.on[c] # None PROVE obj.cell[obj.on[c]] = c
  <2>. DEFINE here == { x \in Object : start[x] = c }
  <2>1. OnAt(start)[c] = IF here = {} THEN None
                         ELSE CHOOSE x \in here : \A y \in here : x[1] >= y[1]
    BY DEF OnAt
  <2>2. here # {}
    BY <1>2, <1>4, <2>1
  <2>3. \E x \in here : \A y \in here : x[1] >= y[1]
    <3>1. \A x \in here : x[1] \in {0, 1}
      BY GameAssumption DEF Team, TEAM_RED, TEAM_BLUE
    <3>2. CASE \E x \in here : x[1] = 1
      BY <3>1, <3>2
    <3>3. CASE \A x \in here : x[1] = 0
      BY <2>2, <3>1, <3>3
    <3>. QED
      BY <3>1, <3>2, <3>3
  <2>. HIDE DEF here
  <2>4. obj.on[c] \in here
    BY <1>2, <2>1, <2>2, <2>3
  <2>. QED
    BY <1>2, <2>4 DEF here
<1>5. \A c \in Cell : obj.on[c] # None => obj.on[c] \in Object
  BY <1>3 DEF ObjType
<1>6. \A x \in Object : obj.player[x] = None
  BY <1>2
<1>7. \A p \in Player : obj.flag[p] = None /\ obj.shovel[p] = None /\ p # None
  BY <1>2, GameAssumption
<1>8. Links(obj, fd, playerCell)
  BY <1>4, <1>5, <1>6, <1>7 DEF Links
<1>9. Kinds(obj)
  BY <1>7 DEF Kinds
<1>. QED
  BY <1>8, <1>9 DEF LinksInv, Linked

LEMMA NextLinks ==
  ASSUME RoomAtHome, Inv, LinksInv, [Next]_vars
  PROVE  LinksInv' /\ ByHand
<1>. USE DEF Inv
<1>1. CASE \E f \in Fd, p \in Player, busy \in BusySets : Join(f, p, busy)
  BY <1>1, JoinLinks
<1>2. CASE \E p \in Player, busy \in BusySets : Connected(p) /\ Leave(p, busy)
  BY <1>2, LeaveLinks
<1>3. CASE \E p \in Player, busy \in BusySets : Connected(p) /\ Request(p, busy)
  BY <1>3, RequestLinks
<1>4. CASE \/ UNCHANGED vars \/ \E f \in Fd : HelloRefused(f)
           \/ \E p \in Player : Connected(p) /\ Crash(p)
           \/ Teleport
  <2>1. UNCHANGED <<obj, fd, playerCell>>
    BY <1>4 DEF vars, registry, places, HelloRefused, Crash, Teleport
  <2>. QED
    BY <2>1, StillLinks
<1>. QED
  BY <1>1, <1>2, <1>3, <1>4 DEF Next

(* When no home is ever taken up by other requests: whatever players do,   *)
(* and however they leave, the references between objects, players and     *)
(* cells agree.                                                            *)
THEOREM LinksAreKept == RoomAtHome /\ Spec => []LinksOK
<1>. SUFFICES ASSUME RoomAtHome PROVE Spec => []LinksOK
  OBVIOUS
<1>1. Spec => []Inv
  BY InitInv, NextInv, PTL DEF Spec
<1>2. Inv /\ LinksInv /\ [Next]_vars => LinksInv'
  BY NextLinks
<1>3. Spec => []LinksInv
  BY <1>1, <1>2, InitLinks, PTL DEF Spec
<1>4. LinksInv => LinksOK
  BY LinksAreOK DEF LinksInv, Linked
<1>. QED
  BY <1>3, <1>4, PTL

(* Under the same condition, an object changes place only in the hands of  *)
(* a player, and hands only by lying on the ground in between.             *)
THEOREM ObjectsMoveByHand == RoomAtHome /\ Spec => MovedByHand
<1>. SUFFICES ASSUME RoomAtHome PROVE Spec => MovedByHand
  OBVIOUS
<1>1. Spec => []Inv
  BY InitInv, NextInv, PTL DEF Spec
<1>2. Inv /\ LinksInv /\ [Next]_vars => LinksInv'
  BY NextLinks
<1>3. Spec => []LinksInv
  BY <1>1, <1>2, InitLinks, PTL DEF Spec
<1>4. Inv /\ LinksInv /\ [Next]_vars
      => [\A x \in Object :
            /\ obj.player[x] = None => obj'.cell[x] = obj.cell[x]
            /\ obj.player[x] # None => obj'.player[x] \in {obj.player[x], None}]_vars
  BY NextLinks DEF ByHand
<1>. QED
  BY <1>1, <1>3, <1>4, PTL DEF Spec, MovedByHand
=============================================================================
