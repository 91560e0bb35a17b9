----------------------------- MODULE ReplicaProofs ----------------------------
(***************************************************************************)
(* The client's copy of the game: its types, the players it draws, and     *)
(* what it knows once it has caught up.  The parts are what each word that *)
(* is applied does to the copy, what a sequence of events does to it, what *)
(* the event of each request tells, and how a step of the client or of the *)
(* server keeps the two in agreement.                                      *)
(***************************************************************************)
EXTENDS Replica, CodecProofs, GameProofs

(* What a word tells of: the player, the object and its carrier, the cell. *)
PlayerIn(w) == <<DecompressPlayer(w).team, DecompressPlayer(w).id>>
ObjectIn(w) == <<DecompressObject(w).team,
                 IF DecompressObject(w).type = 0 THEN "flag" ELSE "shovel">>
HolderIn(w) == LET d == DecompressObject(w)
               IN  IF d.held = 1 THEN <<d.holderTeam, d.id>> ELSE None
CellIn(d)   == <<d.x, d.y>>

Letter == [told : BOOLEAN, bits : Int]

LEMMA Bounds ==
  /\ \A c \in Cell : c[1] \in 0 .. 255 /\ c[2] \in 0 .. 255 /\ c = <<c[1], c[2]>>
  /\ \A p \in Player : /\ IdOf(p) \in 0 .. 255 /\ TeamOf(p) \in 0 .. 1
                       /\ p = <<TeamOf(p), IdOf(p)>>
<1>1. ASSUME NEW c \in Cell
      PROVE  c[1] \in 0 .. 255 /\ c[2] \in 0 .. 255 /\ c = <<c[1], c[2]>>
  BY MapAssumption, ReplicaAssumption DEF Cell
<1>2. ASSUME NEW p \in Player
      PROVE  /\ IdOf(p) \in 0 .. 255 /\ TeamOf(p) \in 0 .. 1
             /\ p = <<TeamOf(p), IdOf(p)>>
  <2>1. p[2] < 256 /\ p[2] \in Nat /\ p[1] \in Team
    BY PlayerShape, ReplicaAssumption DEF IdOf, TeamOf
  <2>2. p = <<p[1], p[2]>>
    BY DEF Player
  <2>. QED
    BY <2>1, <2>2 DEF IdOf, TeamOf, Team, TEAM_RED, TEAM_BLUE
<1>. QED
  BY <1>1, <1>2

LEMMA WordIsLetter == Word \subseteq Letter
  BY DEF Word, Letter

(* A client reads in the word of a player who and where it is.             *)
LEMMA PlayerWordReads ==
  ASSUME NEW p \in Player, NEW c \in Cell, NEW j \in BOOLEAN, NEW u \in 0 .. 3
  PROVE  LET w == PlayerWord(p, c, j, u)
             d == DecompressPlayer(w)
         IN  /\ w \in Letter /\ w.told
             /\ PlayerIn(w) = p /\ CellIn(d) = c
             /\ d.state = (IF j THEN 1 ELSE 0) /\ d.update = u
<1>. DEFINE f == [y |-> c[2], x |-> c[1], id |-> IdOf(p),
                  state |-> IF j THEN 1 ELSE 0, team |-> TeamOf(p), update |-> u]
<1>1. f \in PlayerFacts
  BY Bounds DEF PlayerFacts
<1>2. PlayerWord(p, c, j, u) = CompressPlayer(f)
  BY DEF PlayerWord
<1>. HIDE DEF f
<1>3. DecompressPlayer(CompressPlayer(f)) = f /\ CompressPlayer(f) \in Word
  BY <1>1, PlayerRoundTrip
<1>4. CompressPlayer(f).told /\ CompressPlayer(f) \in Letter
  BY <1>3, WordIsLetter DEF CompressPlayer
<1>5. /\ <<f.team, f.id>> = p /\ <<f.x, f.y>> = c
      /\ f.state = (IF j THEN 1 ELSE 0) /\ f.update = u
  BY Bounds DEF f
<1>. QED
  BY <1>2, <1>3, <1>4, <1>5 DEF PlayerIn, CellIn

(* A client reads in the word of an object which it is, where it is and    *)
(* who carries it.                                                         *)
LEMMA ObjectWordReads ==
  ASSUME NEW o \in ObjType, NEW x \in Object
  PROVE  LET w == ObjectWord(x, o)
         IN  /\ w \in Letter /\ w.told
             /\ ObjectIn(w) = x /\ CellIn(DecompressObject(w)) = o.cell[x]
             /\ HolderIn(w) = o.player[x]
<1>. DEFINE p == o.player[x]
            f == [y |-> o.cell[x][2], x |-> o.cell[x][1],
                  id |-> IF p = None THEN 0 ELSE IdOf(p),
                  holderTeam |-> IF p = None THEN 0 ELSE TeamOf(p),
                  held |-> IF p = None THEN 0 ELSE 1,
                  type |-> IF x[2] = "flag" THEN 0 ELSE 1, team |-> x[1]]
<1>1. o.cell[x] \in Cell /\ p \in Player \cup {None} /\ x[1] \in 0 .. 1
      /\ x[2] \in {"flag", "shovel"} /\ x = <<x[1], x[2]>>
  BY GameAssumption DEF ObjType, Team, TEAM_RED, TEAM_BLUE
<1>2. f \in ObjectFacts
  BY <1>1, Bounds DEF ObjectFacts
<1>3. ObjectWord(x, o) = CompressObject(f)
  BY DEF ObjectWord
<1>4. /\ <<f.team, IF f.type = 0 THEN "flag" ELSE "shovel">> = x
      /\ <<f.x, f.y>> = o.cell[x]
      /\ (IF f.held = 1 THEN <<f.holderTeam, f.id>> ELSE None) = o.player[x]
  BY <1>1, Bounds
<1>. HIDE DEF f
<1>5. DecompressObject(CompressObject(f)) =
        [y |-> f.y, x |-> f.x, type |-> f.type, team |-> f.team, held |-> f.held,
         id |-> IF f.held = 1 THEN f.id ELSE 0,
         holderTeam |-> IF f.held = 1 THEN f.holderTeam ELSE 0]
  BY <1>2, ObjectRoundTrip
<1>6. CompressObject(f).told /\ CompressObject(f) \in Letter
  BY <1>2, ObjectRoundTrip, WordIsLetter DEF CompressObject
<1>. QED
  BY <1>3, <1>4, <1>5, <1>6 DEF ObjectIn, CellIn, HolderIn

LEMMA WallWordType ==
  ASSUME NEW c \in (0 .. 255) \X (0 .. 255)
  PROVE  CompressWall(Ignored, c) \in Word
<1>. DEFINE n == (0 \div 65536) * 65536 + (c[2] % 256) + (c[1] % 256) * 256
<1>1. c[2] \in 0 .. 255 /\ c[1] \in 0 .. 255
  BY SMT
<1>2. 0 \div 65536 = 0
  <2>1. (0 * 65536 + 0) \div 65536 = 0
    BY DivMod
  <2>2. 0 * 65536 + 0 = 0
    BY SMT
  <2>. QED
    BY <2>1, <2>2
<1>3. n \in Nat /\ n <= MaxBits
  <2>1. c[2] % 256 \in 0 .. 255 /\ c[1] % 256 \in 0 .. 255
    BY <1>1, SMT
  <2>. DEFINE y == c[2] % 256
              x == c[1] % 256
              k == 0 \div 65536
  <2>2. n = k * 65536 + y + x * 256 /\ k = 0
    BY <1>2
  <2>. HIDE DEF n, x, y, k
  <2>3. n = y + x * 256 /\ x \in 0 .. 255 /\ y \in 0 .. 255
    BY <2>1, <2>2, SMT DEF x, y
  <2>. QED
    BY <2>3, SMT DEF MaxBits
<1>4. CompressWall(Ignored, c) = [told |-> TRUE, bits |-> n]
  BY DEF CompressWall, Ignored, Bit8, Bit16
<1>. HIDE DEF n
<1>. QED
  BY <1>3, <1>4, SMT DEF Word

(* The first word of an event gives the game state and the broken wall.    *)
LEMMA GameWordReads ==
  ASSUME NEW s \in GameState, NEW walls \in SUBSET Cell
  PROVE  LET w == GameWord(s, walls)
         IN  /\ w \in Letter
             /\ DecompressState(w) = GameCode[s]
             /\ w.told <=> walls # {}
             /\ w.told => DecompressWall(w) \in walls
<1>. DEFINE c == CHOOSE d \in walls : TRUE
            v == IF walls = {} THEN Ignored ELSE CompressWall(Ignored, c)
<1>1. GameCode[s] \in 0 .. 5
  BY DEF GameCode, GameState
<1>2. Ignored \in Word /\ ~Ignored.told
  BY DEF Ignored, Word, MaxBits
<1>3. ASSUME walls # {} PROVE /\ v.told /\ DecompressWall(v) = c
                              /\ v \in Word /\ c \in walls
  <2>1. c \in walls /\ c \in (0 .. 255) \X (0 .. 255)
    BY <1>3, Bounds, MapAssumption, ReplicaAssumption DEF Cell
  <2>2. CompressWall(Ignored, c) \in Word
    BY <2>1, WallWordType
  <2>. QED
    BY <1>2, <1>3, <2>1, <2>2, WallKeepsState
<1>4. v \in Word /\ (v.told <=> walls # {})
  BY <1>2, <1>3
<1>5. GameWord(s, walls) = CompressState(v, GameCode[s])
  BY DEF GameWord
<1>. HIDE DEF v
<1>6. LET w == CompressState(v, GameCode[s])
      IN  /\ DecompressState(w) = GameCode[s]
          /\ w.told = v.told /\ DecompressWall(w) = DecompressWall(v)
  BY <1>1, <1>4, StateKeepsWall
<1>7. CompressState(v, GameCode[s]) \in Letter
  <2>. DEFINE f == Field(v.bits, Bit16, 8)
              n == v.bits - f * Bit16 + (GameCode[s] % 8) * Bit16
  <2>1. v.bits \in Int /\ v.told \in BOOLEAN /\ v = [told |-> v.told, bits |-> v.bits]
    BY <1>4 DEF Word
  <2>2. f \in Int /\ GameCode[s] % 8 \in Int /\ Bit16 \in Int
    BY <1>1, <2>1 DEF Field, Bit16
  <2>. HIDE DEF f
  <2>3. n \in Int
    BY <2>1, <2>2
  <2>4. CompressState(v, GameCode[s]) = [v EXCEPT !.bits = n]
    BY DEF CompressState, f
  <2>. HIDE DEF n
  <2>. QED
    BY <2>1, <2>3, <2>4 DEF Letter
<1>. QED
  BY <1>3, <1>4, <1>5, <1>6, <1>7

-----------------------------------------------------------------------------
(* What applying a word does to the replica.                               *)
IsPlayerWord(w) ==
  w.told => PlayerIn(w) \in Player /\ CellIn(DecompressPlayer(w)) \in Cell
IsObjectWord(w) ==
  w.told => /\ ObjectIn(w) \in Object /\ CellIn(DecompressObject(w)) \in Cell
            /\ HolderIn(w) \in Player \cup {None}
IsGameWord(w) ==
  /\ \E s \in GameState : GameCode[s] = DecompressState(w)
  /\ w.told => DecompressWall(w) \in Cell
AreObjectWords(ws) ==
  \A i \in 1 .. 4 : /\ IsObjectWord(ws[i])
                    /\ ws[i].told => ObjectIn(ws[i]) = ObjectAt[i]
IsEvent(e) == /\ IsGameWord(e.game) /\ IsPlayerWord(e.a) /\ IsPlayerWord(e.b)
              /\ AreObjectWords(e.objs)

(* No cell of the replica r refers to a player that r has elsewhere.       *)
Ghostless(r) == \A c \in Cell : r.who[c] # None => r.pos[r.who[c]] = c

LEMMA VacateIs ==
  ASSUME NEW r \in RepType, NEW c \in Cell
  PROVE  LET v == VacateCell(r, c)
         IN  /\ v \in RepType
             /\ v.who = [r.who EXCEPT ![c] = None]
             /\ v.pos = r.pos /\ v.jailed = r.jailed /\ v.at = r.at
             /\ v.holder = r.holder /\ v.floor = r.floor
             /\ v.flag = r.flag /\ v.shovel = r.shovel /\ v.on = r.on
<1>. DEFINE s == IF r.on[c] = None THEN "empty" ELSE "holding"
            v == [r EXCEPT !.who = [r.who EXCEPT ![c] = None],
                           !.state = [r.state EXCEPT ![c] = s]]
<1>1. VacateCell(r, c) = v
  BY DEF VacateCell, RepType
<1>2. s \in CellState
  BY DEF CellState
<1>. HIDE DEF s
<1>3. [r.state EXCEPT ![c] = s] \in [Cell -> CellState]
  BY <1>2 DEF RepType
<1>4. [r.who EXCEPT ![c] = None] \in [Cell -> Player \cup {None}]
  BY DEF RepType
<1>. QED
  BY <1>1, <1>3, <1>4 DEF RepType

LEMMA PlaceIs ==
  ASSUME NEW r \in RepType, NEW p \in Player, NEW c \in Cell
  PROVE  LET v == Place(r, p, c)
         IN  /\ v \in RepType
             /\ v.pos = [r.pos EXCEPT ![p] = c]
             /\ v.who = [r.who EXCEPT ![r.pos[p]] = None, ![c] = p]
             /\ v.jailed = r.jailed /\ v.at = r.at /\ v.holder = r.holder
             /\ v.floor = r.floor /\ v.flag = r.flag /\ v.shovel = r.shovel
<1>. DEFINE u == VacateCell(r, r.pos[p])
            s == IF u.on[c] = None THEN "occupied" ELSE "occupied_holding"
            v == [u EXCEPT !.pos = [u.pos EXCEPT ![p] = c],
                           !.who = [u.who EXCEPT ![c] = p],
                           !.state = [u.state EXCEPT ![c] = s]]
<1>1. r.pos[p] \in Cell
  BY DEF RepType
<1>2. /\ u \in RepType
      /\ u.who = [r.who EXCEPT ![r.pos[p]] = None]
      /\ u.pos = r.pos /\ u.jailed = r.jailed /\ u.at = r.at
      /\ u.holder = r.holder /\ u.floor = r.floor
      /\ u.flag = r.flag /\ u.shovel = r.shovel
  BY <1>1, VacateIs
<1>. HIDE DEF u
<1>3. Place(r, p, c) = v
  BY <1>2 DEF Place, u, RepType
<1>4. s \in CellState
  BY DEF CellState
<1>. HIDE DEF s
<1>5. /\ [u.state EXCEPT ![c] = s] \in [Cell -> CellState]
      /\ [u.who EXCEPT ![c] = p] \in [Cell -> Player \cup {None}]
      /\ [u.pos EXCEPT ![p] = c] \in [Player -> Cell]
  BY <1>2, <1>4 DEF RepType
<1>6. v \in RepType
  BY <1>2, <1>5 DEF RepType
<1>7. /\ v.pos = [u.pos EXCEPT ![p] = c] /\ v.who = [u.who EXCEPT ![c] = p]
      /\ v.jailed = u.jailed /\ v.at = u.at /\ v.holder = u.holder
      /\ v.floor = u.floor /\ v.flag = u.flag /\ v.shovel = u.shovel
  BY <1>2 DEF RepType
<1>8. v.who = [r.who EXCEPT ![r.pos[p]] = None, ![c] = p]
  BY <1>2, <1>7
<1>. QED
  BY <1>2, <1>3, <1>6, <1>7, <1>8

LEMMA ForgetIs ==
  ASSUME NEW r \in RepType, NEW p \in Player
  PROVE  LET v == Forget(r, p)
         IN  /\ v \in RepType
             /\ v.pos = [r.pos EXCEPT ![p] = Nowhere]
             /\ v.who = [r.who EXCEPT ![r.pos[p]] = None]
             /\ v.jailed = [r.jailed EXCEPT ![p] = FALSE]
             /\ v.flag = [r.flag EXCEPT ![p] = None]
             /\ v.shovel = [r.shovel EXCEPT ![p] = None]
             /\ v.at = r.at /\ v.holder = r.holder /\ v.floor = r.floor
<1>. DEFINE u == VacateCell(r, r.pos[p])
            v == [u EXCEPT !.pos = [u.pos EXCEPT ![p] = Nowhere],
                           !.jailed = [u.jailed EXCEPT ![p] = FALSE],
                           !.flag = [u.flag EXCEPT ![p] = None],
                           !.shovel = [u.shovel EXCEPT ![p] = None]]
<1>1. r.pos[p] \in Cell /\ Nowhere \in Cell
  BY ReplicaAssumption DEF RepType
<1>2. /\ u \in RepType
      /\ u.who = [r.who EXCEPT ![r.pos[p]] = None]
      /\ u.pos = r.pos /\ u.jailed = r.jailed /\ u.at = r.at
      /\ u.holder = r.holder /\ u.floor = r.floor
      /\ u.flag = r.flag /\ u.shovel = r.shovel
  BY <1>1, VacateIs
<1>. HIDE DEF u
<1>3. Forget(r, p) = v
  BY <1>2 DEF Forget, u, RepType
<1>4. /\ [u.pos EXCEPT ![p] = Nowhere] \in [Player -> Cell]
      /\ [u.jailed EXCEPT ![p] = FALSE] \in [Player -> BOOLEAN]
      /\ [u.flag EXCEPT ![p] = None] \in [Player -> Object \cup {None}]
      /\ [u.shovel EXCEPT ![p] = None] \in [Player -> Object \cup {None}]
  BY <1>1, <1>2 DEF RepType
<1>5. v \in RepType
  BY <1>2, <1>4 DEF RepType
<1>6. /\ v.pos = [u.pos EXCEPT ![p] = Nowhere]
      /\ v.jailed = [u.jailed EXCEPT ![p] = FALSE]
      /\ v.flag = [u.flag EXCEPT ![p] = None]
      /\ v.shovel = [u.shovel EXCEPT ![p] = None]
      /\ v.who = u.who /\ v.at = u.at /\ v.holder = u.holder /\ v.floor = u.floor
  BY <1>2 DEF RepType
<1>. QED
  BY <1>2, <1>3, <1>5, <1>6

PlayerApplied(r, v, w) ==
  LET p == PlayerIn(w)
      d == DecompressPlayer(w)
  IN  /\ v \in RepType
      /\ v.at = r.at /\ v.holder = r.holder /\ v.floor = r.floor
      /\ ~w.told => v = r
      /\ w.told /\ d.update = UPDATE_DROPPED
         => /\ v.pos = [r.pos EXCEPT ![p] = Nowhere]
            /\ v.jailed = [r.jailed EXCEPT ![p] = FALSE]
            /\ v.flag = [r.flag EXCEPT ![p] = None]
            /\ v.shovel = [r.shovel EXCEPT ![p] = None]
      /\ w.told /\ d.update # UPDATE_DROPPED
         => /\ v.pos = [r.pos EXCEPT ![p] = CellIn(d)]
            /\ v.jailed = [r.jailed EXCEPT ![p] = (d.state = 1)]
            /\ v.flag = r.flag /\ v.shovel = r.shovel
      /\ Ghostless(r) => Ghostless(v)

LEMMA ApplyPlayerIs ==
  ASSUME NEW r \in RepType, NEW w, IsPlayerWord(w)
  PROVE  PlayerApplied(r, ApplyPlayer(r, w), w)
<1>. DEFINE v == ApplyPlayer(r, w)
            p == PlayerIn(w)
            d == DecompressPlayer(w)
            c == CellIn(d)
            j == d.state = 1
<1>1. CASE ~w.told
  BY <1>1 DEF ApplyPlayer, PlayerApplied
<1>2. CASE w.told /\ d.update = UPDATE_DROPPED
  <2>1. p \in Player /\ v = Forget(r, p)
    BY <1>2 DEF IsPlayerWord, ApplyPlayer, PlayerIn
  <2>. HIDE DEF v, p, d
  <2>2. /\ v \in RepType
        /\ v.pos = [r.pos EXCEPT ![p] = Nowhere]
        /\ v.who = [r.who EXCEPT ![r.pos[p]] = None]
        /\ v.jailed = [r.jailed EXCEPT ![p] = FALSE]
        /\ v.flag = [r.flag EXCEPT ![p] = None]
        /\ v.shovel = [r.shovel EXCEPT ![p] = None]
        /\ v.at = r.at /\ v.holder = r.holder /\ v.floor = r.floor
    BY <2>1, ForgetIs
  <2>3. Ghostless(r) => Ghostless(v)
    BY <2>1, <2>2 DEF Ghostless, RepType
  <2>. QED
    BY <1>2, <2>2, <2>3 DEF v, p, d, PlayerApplied
<1>3. CASE w.told /\ d.update # UPDATE_DROPPED
  <2>1. /\ p \in Player /\ c \in Cell
        /\ v = [Place(r, p, c) EXCEPT !.jailed = [Place(r, p, c).jailed EXCEPT ![p] = j]]
    <3>1. p \in Player /\ c \in Cell
      BY <1>3 DEF IsPlayerWord
    <3>2. v = [Place(r, p, c) EXCEPT !.jailed[p] = j]
      BY <1>3 DEF ApplyPlayer, PlayerIn, CellIn
    <3>. HIDE DEF v, p, c, j
    <3>. QED
      BY <3>1, <3>2
  <2>. DEFINE u == Place(r, p, c)
  <2>. HIDE DEF v, p, c, j, d
  <2>2. /\ u \in RepType
        /\ u.pos = [r.pos EXCEPT ![p] = c]
        /\ u.who = [r.who EXCEPT ![r.pos[p]] = None, ![c] = p]
        /\ u.jailed = r.jailed /\ u.at = r.at /\ u.holder = r.holder
        /\ u.floor = r.floor /\ u.flag = r.flag /\ u.shovel = r.shovel
    BY <2>1, PlaceIs
  <2>3. v = [u EXCEPT !.jailed = [u.jailed EXCEPT ![p] = j]]
    BY <2>1
  <2>4. j \in BOOLEAN
    BY DEF j
  <2>. HIDE DEF u
  <2>5. [u.jailed EXCEPT ![p] = j] \in [Player -> BOOLEAN]
    BY <2>2, <2>4 DEF RepType
  <2>6. v \in RepType
    BY <2>2, <2>3, <2>5 DEF RepType
  <2>7. /\ v.jailed = [u.jailed EXCEPT ![p] = j]
        /\ v.pos = u.pos /\ v.who = u.who /\ v.at = u.at /\ v.holder = u.holder
        /\ v.floor = u.floor /\ v.flag = u.flag /\ v.shovel = u.shovel
    BY <2>2, <2>3 DEF RepType
  <2>8. Ghostless(r) => Ghostless(v)
    BY <2>1, <2>2, <2>7 DEF Ghostless, RepType
  <2>9. v.jailed = [r.jailed EXCEPT ![p] = j]
    BY <2>2, <2>7
  <2>. QED
    BY <1>3, <2>2, <2>6, <2>7, <2>8, <2>9 DEF v, p, c, j, d, PlayerApplied
<1>. QED
  BY <1>1, <1>2, <1>3

(* What a hand of every player holds when an object passes from "was" to   *)
(* "now", either of which may be nobody.                                   *)
HandAfter(hand, x, was, now) ==
  IF was # None /\ now = None THEN [hand EXCEPT ![was] = None]
  ELSE IF was = None /\ now # None THEN [hand EXCEPT ![now] = x]
  ELSE hand

LEMMA InHandIs ==
  ASSUME NEW r \in RepType, NEW p \in Player, NEW x \in Object,
         NEW held \in Object \cup {None}
  PROVE  LET v == InHand(r, p, x, held)
         IN  /\ v \in RepType
             /\ v.flag = IF x[2] = "flag" THEN [r.flag EXCEPT ![p] = held] ELSE r.flag
             /\ v.shovel = IF x[2] = "flag" THEN r.shovel
                           ELSE [r.shovel EXCEPT ![p] = held]
             /\ v.pos = r.pos /\ v.who = r.who /\ v.jailed = r.jailed
             /\ v.at = r.at /\ v.holder = r.holder /\ v.floor = r.floor
             /\ v.on = r.on /\ v.state = r.state
<1>1. /\ [r.flag EXCEPT ![p] = held] \in [Player -> Object \cup {None}]
      /\ [r.shovel EXCEPT ![p] = held] \in [Player -> Object \cup {None}]
  BY DEF RepType
<1>2. CASE x[2] = "flag"
  <2>1. InHand(r, p, x, held) = [r EXCEPT !.flag = [r.flag EXCEPT ![p] = held]]
    BY <1>2 DEF InHand, RepType
  <2>. QED
    BY <1>1, <1>2, <2>1 DEF RepType
<1>3. CASE x[2] # "flag"
  <2>1. InHand(r, p, x, held) = [r EXCEPT !.shovel = [r.shovel EXCEPT ![p] = held]]
    BY <1>3 DEF InHand, RepType
  <2>. QED
    BY <1>1, <1>3, <2>1 DEF RepType
<1>. QED
  BY <1>2, <1>3

(* The branch of UpdateObject that is taken.                               *)
Moved(r, x, p, c, cur) ==
  IF r.holder[x] # None /\ p = None THEN LayDown(r, x, c)
  ELSE IF r.holder[x] = None /\ p # None THEN TakeUp(r, x, p, cur, c)
  ELSE IF p = None THEN Relocate(r, x, cur, c)
  ELSE r

LEMMA ApplyObjectUpdates ==
  ASSUME NEW r, NEW w, NEW sync
  PROVE  LET x == ObjectIn(w)
         IN  ApplyObject(r, w, sync) =
               IF ~w.told THEN r
               ELSE UpdateObject(r, x, HolderIn(w), CellIn(DecompressObject(w)),
                                 IF sync THEN r.start[x] ELSE r.at[x])
BY Zenon DEF ApplyObject, ObjectIn, HolderIn, CellIn

LEMMA UpdateObjectIs ==
  ASSUME NEW r \in RepType, NEW x \in Object, NEW p \in Player \cup {None},
         NEW c \in Cell, NEW cur \in Cell
  PROVE  LET v == UpdateObject(r, x, p, c, cur)
         IN  /\ v \in RepType
             /\ v.pos = r.pos /\ v.who = r.who /\ v.jailed = r.jailed
             /\ v.floor = r.floor
             /\ v.at = [r.at EXCEPT ![x] = c]
             /\ v.holder = [r.holder EXCEPT ![x] = p]
             /\ v.flag = IF x[2] = "flag"
                         THEN HandAfter(r.flag, x, r.holder[x], p) ELSE r.flag
             /\ v.shovel = IF x[2] = "flag" THEN r.shovel
                           ELSE HandAfter(r.shovel, x, r.holder[x], p)
<1>. DEFINE q == r.holder[x]
            u == Moved(r, x, p, c, cur)
            v == [u EXCEPT !.at = [u.at EXCEPT ![x] = c],
                           !.holder = [u.holder EXCEPT ![x] = p]]
            Same(s) == /\ s \in RepType
                       /\ s.pos = r.pos /\ s.who = r.who /\ s.jailed = r.jailed
                       /\ s.floor = r.floor /\ s.at = r.at /\ s.holder = r.holder
<1>1. /\ q \in Player \cup {None} /\ None \notin Player /\ None \notin Object
      /\ UpdateObject(r, x, p, c, cur) = [u EXCEPT !.at[x] = c, !.holder[x] = p]
      /\ u = IF q # None /\ p = None THEN LayDown(r, x, c)
             ELSE IF q = None /\ p # None THEN TakeUp(r, x, p, cur, c)
             ELSE IF p = None THEN Relocate(r, x, cur, c)
             ELSE r
  BY GameAssumption DEF RepType, UpdateObject, Moved
<1>. HIDE DEF u
<1>2. /\ Same(u)
      /\ u.flag = IF x[2] = "flag" THEN HandAfter(r.flag, x, q, p) ELSE r.flag
      /\ u.shovel = IF x[2] = "flag" THEN r.shovel ELSE HandAfter(r.shovel, x, q, p)
  <2>1. CASE q # None /\ p = None
    <3>. DEFINE i == InHand(r, q, x, None)
                s == IF r.pos[q] = c THEN "occupied_holding" ELSE "holding"
    <3>1. /\ i \in RepType
          /\ i.flag = IF x[2] = "flag" THEN [r.flag EXCEPT ![q] = None] ELSE r.flag
          /\ i.shovel = IF x[2] = "flag" THEN r.shovel ELSE [r.shovel EXCEPT ![q] = None]
          /\ i.pos = r.pos /\ i.who = r.who /\ i.jailed = r.jailed
          /\ i.at = r.at /\ i.holder = r.holder /\ i.floor = r.floor
          /\ i.on = r.on /\ i.state = r.state
      BY <1>1, <2>1, InHandIs
    <3>2. s \in CellState
      BY DEF CellState
    <3>3. LayDown(r, x, c) = [i EXCEPT !.state[c] = s, !.on[c] = x]
      BY DEF LayDown, q
    <3>. HIDE DEF i, s
    <3>4. LayDown(r, x, c) = [i EXCEPT !.state = [i.state EXCEPT ![c] = s],
                                       !.on = [i.on EXCEPT ![c] = x]]
      BY <3>1, <3>3 DEF RepType
    <3>5. /\ [i.state EXCEPT ![c] = s] \in [Cell -> CellState]
          /\ [i.on EXCEPT ![c] = x] \in [Cell -> Object \cup {None}]
      BY <1>1, <3>1, <3>2 DEF RepType
    <3>6. u = LayDown(r, x, c)
      BY <1>1, <2>1
    <3>7. Same(u) /\ u.flag = i.flag /\ u.shovel = i.shovel
      BY <3>1, <3>4, <3>5, <3>6 DEF RepType
    <3>. QED
      BY <2>1, <3>1, <3>7 DEF HandAfter
  <2>2. CASE q = None /\ p # None
    <3>. DEFINE i == InHand(r, p, x, x)
                on == [r.on EXCEPT ![cur] = None, ![c] = None]
    <3>1. /\ i \in RepType
          /\ i.flag = IF x[2] = "flag" THEN [r.flag EXCEPT ![p] = x] ELSE r.flag
          /\ i.shovel = IF x[2] = "flag" THEN r.shovel ELSE [r.shovel EXCEPT ![p] = x]
          /\ i.pos = r.pos /\ i.who = r.who /\ i.jailed = r.jailed
          /\ i.at = r.at /\ i.holder = r.holder /\ i.floor = r.floor
          /\ i.on = r.on /\ i.state = r.state
      BY <1>1, <2>2, InHandIs
    <3>2. TakeUp(r, x, p, cur, c) = [i EXCEPT !.on = on, !.state[c] = "occupied"]
      BY DEF TakeUp
    <3>3. "occupied" \in CellState /\ on \in [Cell -> Object \cup {None}]
      BY <1>1 DEF CellState, RepType
    <3>. HIDE DEF i, on
    <3>4. TakeUp(r, x, p, cur, c) =
            [i EXCEPT !.on = on, !.state = [i.state EXCEPT ![c] = "occupied"]]
      BY <3>1, <3>2 DEF RepType
    <3>5. [i.state EXCEPT ![c] = "occupied"] \in [Cell -> CellState]
      BY <1>1, <3>1, <3>3 DEF RepType
    <3>6. u = TakeUp(r, x, p, cur, c)
      BY <1>1, <2>2
    <3>7. Same(u) /\ u.flag = i.flag /\ u.shovel = i.shovel
      BY <3>1, <3>3, <3>4, <3>5, <3>6 DEF RepType
    <3>. QED
      BY <2>2, <3>1, <3>7 DEF HandAfter
  <2>3. CASE q = None /\ p = None
    <3>. DEFINE on == [r.on EXCEPT ![cur] = None, ![c] = x]
                s == IF r.who[c] = None THEN "holding" ELSE "occupied_holding"
    <3>1. s \in CellState /\ on \in [Cell -> Object \cup {None}]
      BY <1>1 DEF CellState, RepType
    <3>2. u = [r EXCEPT !.state[c] = s, !.on = on]
      BY <1>1, <2>3 DEF Relocate
    <3>. HIDE DEF s, on
    <3>3. u = [r EXCEPT !.state = [r.state EXCEPT ![c] = s], !.on = on]
      BY <3>2 DEF RepType
    <3>4. [r.state EXCEPT ![c] = s] \in [Cell -> CellState]
      BY <1>1, <3>1 DEF RepType
    <3>5. Same(u) /\ u.flag = r.flag /\ u.shovel = r.shovel
      BY <3>1, <3>3, <3>4 DEF RepType
    <3>. QED
      BY <2>3, <3>5 DEF HandAfter
  <2>4. CASE q # None /\ p # None
    <3>1. u = r
      BY <1>1, <2>4
    <3>. QED
      BY <2>4, <3>1 DEF HandAfter
  <2>. QED
    BY <2>1, <2>2, <2>3, <2>4
<1>3. UpdateObject(r, x, p, c, cur) = v
  BY <1>1, <1>2 DEF RepType
<1>4. /\ [u.at EXCEPT ![x] = c] \in [Object -> Cell]
      /\ [u.holder EXCEPT ![x] = p] \in [Object -> Player \cup {None}]
  BY <1>2 DEF RepType
<1>5. v \in RepType
  BY <1>2, <1>4 DEF RepType
<1>6. /\ v.at = [u.at EXCEPT ![x] = c] /\ v.holder = [u.holder EXCEPT ![x] = p]
      /\ v.pos = u.pos /\ v.who = u.who /\ v.jailed = u.jailed /\ v.floor = u.floor
      /\ v.flag = u.flag /\ v.shovel = u.shovel
  BY <1>2 DEF RepType
<1>. HIDE DEF v
<1>7. v.at = [r.at EXCEPT ![x] = c] /\ v.holder = [r.holder EXCEPT ![x] = p]
  BY <1>2, <1>6
<1>. QED
  BY <1>2, <1>3, <1>5, <1>6, <1>7 DEF q

ObjectApplied(r, v, w) ==
  LET x == ObjectIn(w)
      p == HolderIn(w)
  IN  /\ v \in RepType
      /\ v.pos = r.pos /\ v.who = r.who /\ v.jailed = r.jailed
      /\ v.floor = r.floor
      /\ ~w.told => v = r
      /\ w.told
         => /\ v.at = [r.at EXCEPT ![x] = CellIn(DecompressObject(w))]
            /\ v.holder = [r.holder EXCEPT ![x] = p]
            /\ v.flag = IF x[2] = "flag"
                        THEN HandAfter(r.flag, x, r.holder[x], p) ELSE r.flag
            /\ v.shovel = IF x[2] = "flag" THEN r.shovel
                          ELSE HandAfter(r.shovel, x, r.holder[x], p)

LEMMA ApplyObjectIs ==
  ASSUME NEW r \in RepType, NEW w, IsObjectWord(w), NEW sync \in BOOLEAN
  PROVE  ObjectApplied(r, ApplyObject(r, w, sync), w)
<1>1. CASE ~w.told
  BY <1>1, ApplyObjectUpdates DEF ObjectApplied
<1>2. CASE w.told
  <2>. DEFINE x   == ObjectIn(w)
              p   == HolderIn(w)
              c   == CellIn(DecompressObject(w))
              cur == IF sync THEN r.start[x] ELSE r.at[x]
  <2>1. x \in Object /\ c \in Cell /\ p \in Player \cup {None}
    BY <1>2 DEF IsObjectWord
  <2>2. cur \in Cell
    BY <2>1 DEF RepType
  <2>3. ApplyObject(r, w, sync) = UpdateObject(r, x, p, c, cur)
    BY <1>2, ApplyObjectUpdates
  <2>. HIDE DEF x, p, c, cur
  <2>. QED
    BY <1>2, <2>1, <2>2, <2>3, UpdateObjectIs DEF ObjectApplied, x, p, c
<1>. QED
  BY <1>1, <1>2

LEMMA ObjectAtIs ==
  /\ \A x \in Object : \E i \in 1 .. 4 : x = ObjectAt[i]
  /\ \A i, j \in 1 .. 4 : ObjectAt[i] = ObjectAt[j] => i = j
<1>1. /\ ObjectAt[1] = <<0, "flag">> /\ ObjectAt[2] = <<1, "flag">>
      /\ ObjectAt[3] = <<0, "shovel">> /\ ObjectAt[4] = <<1, "shovel">>
  BY DEF ObjectAt, TEAM_RED, TEAM_BLUE
<1>2. ASSUME NEW x \in Object PROVE \E i \in 1 .. 4 : x = ObjectAt[i]
  <2>1. x = <<x[1], x[2]>> /\ x[1] \in {0, 1} /\ x[2] \in {"flag", "shovel"}
    BY GameAssumption DEF Team, TEAM_RED, TEAM_BLUE
  <2>. QED
    BY <1>1, <2>1
<1>3. ASSUME NEW i \in 1 .. 4, NEW j \in 1 .. 4, ObjectAt[i] = ObjectAt[j]
      PROVE  i = j
  BY <1>1, <1>3
<1>. QED
  BY <1>2, <1>3

(* Of the words ws, the first k have been applied to r, which gave v.      *)
Written(r, v, ws, k) ==
  \A i \in 1 .. 4 :
    LET x == ObjectAt[i]
    IN  x \in Object =>
          IF i <= k /\ ws[i].told
          THEN v.at[x] = CellIn(DecompressObject(ws[i])) /\ v.holder[x] = HolderIn(ws[i])
          ELSE v.at[x] = r.at[x] /\ v.holder[x] = r.holder[x]

SameElsewhere(r, v) == /\ v.pos = r.pos /\ v.who = r.who
                       /\ v.jailed = r.jailed /\ v.floor = r.floor

LEMMA ApplyNext ==
  ASSUME NEW r \in RepType, NEW u \in RepType, NEW ws, AreObjectWords(ws),
         NEW k \in 1 .. 4, NEW sync \in BOOLEAN,
         Written(r, u, ws, k - 1), SameElsewhere(r, u)
  PROVE  LET v == ApplyObject(u, ws[k], sync)
         IN  v \in RepType /\ Written(r, v, ws, k) /\ SameElsewhere(r, v)
<1>. DEFINE w == ws[k]
            x == ObjectIn(w)
            v == ApplyObject(u, w, sync)
            c == CellIn(DecompressObject(w))
            p == HolderIn(w)
<1>0. IsObjectWord(w)
  BY DEF AreObjectWords
<1>1. /\ v \in RepType
      /\ v.pos = u.pos /\ v.who = u.who /\ v.jailed = u.jailed /\ v.floor = u.floor
      /\ ~w.told => v = u
      /\ w.told => /\ v.at = [u.at EXCEPT ![x] = c]
                   /\ v.holder = [u.holder EXCEPT ![x] = p]
  BY <1>0, ApplyObjectIs DEF ObjectApplied
<1>2. w.told => x = ObjectAt[k]
  BY DEF AreObjectWords
<1>. HIDE DEF v, x, c, p, w
<1>3. ASSUME NEW i \in 1 .. 4, ObjectAt[i] \in Object
      PROVE  IF i <= k /\ ws[i].told
             THEN /\ v.at[ObjectAt[i]] = CellIn(DecompressObject(ws[i]))
                  /\ v.holder[ObjectAt[i]] = HolderIn(ws[i])
             ELSE v.at[ObjectAt[i]] = r.at[ObjectAt[i]]
                  /\ v.holder[ObjectAt[i]] = r.holder[ObjectAt[i]]
  <2>1. IF i <= k - 1 /\ ws[i].told
        THEN /\ u.at[ObjectAt[i]] = CellIn(DecompressObject(ws[i]))
             /\ u.holder[ObjectAt[i]] = HolderIn(ws[i])
        ELSE u.at[ObjectAt[i]] = r.at[ObjectAt[i]]
             /\ u.holder[ObjectAt[i]] = r.holder[ObjectAt[i]]
    BY <1>3 DEF Written
  <2>2. CASE i # k
    <3>1. w.told => x # ObjectAt[i]
      BY <1>2, <2>2, ObjectAtIs
    <3>2. /\ v.at[ObjectAt[i]] = u.at[ObjectAt[i]]
          /\ v.holder[ObjectAt[i]] = u.holder[ObjectAt[i]]
      BY <1>1, <1>3, <3>1 DEF RepType
    <3>3. i <= k - 1 <=> i <= k
      BY <2>2
    <3>. QED
      BY <2>1, <3>2, <3>3
  <2>3. CASE i = k
    <3>1. ~(i <= k - 1) /\ i <= k
      BY <2>3
    <3>2. CASE w.told
      <4>1. v.at[x] = c /\ v.holder[x] = p /\ x = ObjectAt[i]
        BY <1>1, <1>2, <1>3, <2>3, <3>2 DEF RepType
      <4>. QED
        BY <2>3, <3>1, <3>2, <4>1 DEF w, c, p
    <3>3. CASE ~w.told
      BY <1>1, <2>1, <2>3, <3>1, <3>3 DEF w
    <3>. QED
      BY <3>2, <3>3
  <2>. QED
    BY <2>2, <2>3
<1>4. SameElsewhere(r, v)
  BY <1>1 DEF SameElsewhere
<1>5. Written(r, v, ws, k)
  BY <1>3 DEF Written
<1>. QED
  BY <1>1, <1>4, <1>5 DEF v, w

LEMMA ApplyObjectsIs ==
  ASSUME NEW r \in RepType, NEW ws, AreObjectWords(ws), NEW sync \in BOOLEAN
  PROVE  LET v == ApplyObjects(r, ws, sync)
         IN  v \in RepType /\ Written(r, v, ws, 4) /\ SameElsewhere(r, v)
<1>. DEFINE r1 == ApplyObject(r, ws[1], sync)
            r2 == ApplyObject(r1, ws[2], sync)
            r3 == ApplyObject(r2, ws[3], sync)
            r4 == ApplyObject(r3, ws[4], sync)
<1>0. Written(r, r, ws, 0) /\ SameElsewhere(r, r) /\ ApplyObjects(r, ws, sync) = r4
  BY DEF Written, SameElsewhere, ApplyObjects
<1>. HIDE DEF r1, r2, r3, r4
<1>1. r1 \in RepType /\ Written(r, r1, ws, 1) /\ SameElsewhere(r, r1)
  BY <1>0, ApplyNext, 1 - 1 = 0 DEF r1
<1>2. r2 \in RepType /\ Written(r, r2, ws, 2) /\ SameElsewhere(r, r2)
  BY <1>1, ApplyNext, 2 - 1 = 1 DEF r2
<1>3. r3 \in RepType /\ Written(r, r3, ws, 3) /\ SameElsewhere(r, r3)
  BY <1>2, ApplyNext, 3 - 1 = 2 DEF r3
<1>4. r4 \in RepType /\ Written(r, r4, ws, 4) /\ SameElsewhere(r, r4)
  BY <1>3, ApplyNext, 4 - 1 = 3 DEF r4
<1>. QED
  BY <1>0, <1>4

LEMMA ApplyGameIs ==
  ASSUME NEW r \in RepType, NEW w, IsGameWord(w)
  PROVE  LET v == ApplyGame(r, w)
         IN  /\ v \in RepType
             /\ v.pos = r.pos /\ v.who = r.who /\ v.jailed = r.jailed
             /\ v.at = r.at /\ v.holder = r.holder
             /\ v.flag = r.flag /\ v.shovel = r.shovel
             /\ v.floor = r.floor \cup (IF w.told THEN {DecompressWall(w)} ELSE {})
<1>. DEFINE s == CHOOSE t \in GameState : GameCode[t] = DecompressState(w)
            f == IF w.told THEN r.floor \cup {DecompressWall(w)} ELSE r.floor
<1>1. s \in GameState
  BY DEF IsGameWord
<1>2. f \in SUBSET Cell
  BY DEF IsGameWord, RepType
<1>3. ApplyGame(r, w) = [r EXCEPT !.game = s, !.floor = f]
  BY DEF ApplyGame, RepType
<1>4. f = r.floor \cup (IF w.told THEN {DecompressWall(w)} ELSE {})
  OBVIOUS
<1>. HIDE DEF s, f
<1>. QED
  BY <1>1, <1>2, <1>3, <1>4 DEF RepType

(* The replica v shows what the word w of a player says.                   *)
Shown(v, w) ==
  LET d == DecompressPlayer(w)
      p == PlayerIn(w)
  IN  w.told => IF d.update = UPDATE_DROPPED THEN v.pos[p] = Nowhere
                ELSE v.pos[p] = CellIn(d) /\ v.jailed[p] = (d.state = 1)

(* Applying an event shows what it says of its players, objects and wall   *)
(* and leaves the picture of everything else alone.                        *)
LEMMA ApplyEventIs ==
  ASSUME NEW r \in RepType, NEW e, IsEvent(e)
  PROVE  LET v == ApplyEvent(r, e)
             about == Subjects(e)
         IN  /\ v \in RepType
             /\ Ghostless(r) => Ghostless(v)
             /\ Shown(v, e.b)
             /\ (e.a.told /\ e.b.told => PlayerIn(e.a) # PlayerIn(e.b)) => Shown(v, e.a)
             /\ \A q \in Player \ about.players :
                  v.pos[q] = r.pos[q] /\ v.jailed[q] = r.jailed[q]
             /\ Written(r, v, e.objs, 4)
             /\ v.floor = r.floor \cup about.walls
<1>. DEFINE g == ApplyGame(r, e.game)
            s == ApplyPlayer(g, e.a)
            t == ApplyPlayer(s, e.b)
            v == ApplyObjects(t, e.objs, FALSE)
            about == Subjects(e)
<1>0. /\ IsGameWord(e.game) /\ IsPlayerWord(e.a) /\ IsPlayerWord(e.b)
      /\ AreObjectWords(e.objs)
      /\ ApplyEvent(r, e) = v
  BY DEF IsEvent, ApplyEvent
<1>1. /\ about.players = { PlayerIn(w) : w \in { u \in {e.a, e.b} : u.told } }
      /\ about.walls = IF e.game.told THEN {DecompressWall(e.game)} ELSE {}
  BY DEF Subjects, PlayerIn
<1>. HIDE DEF g, s, t, v, about
<1>2. /\ g \in RepType
      /\ g.pos = r.pos /\ g.who = r.who /\ g.jailed = r.jailed
      /\ g.at = r.at /\ g.holder = r.holder
      /\ g.floor = r.floor \cup (IF e.game.told THEN {DecompressWall(e.game)} ELSE {})
  BY <1>0, ApplyGameIs DEF g
<1>3. PlayerApplied(g, s, e.a)
  BY <1>0, <1>2, ApplyPlayerIs DEF s
<1>4. PlayerApplied(s, t, e.b)
  BY <1>0, <1>3, ApplyPlayerIs DEF t, PlayerApplied
<1>5. v \in RepType /\ Written(t, v, e.objs, 4) /\ SameElsewhere(t, v)
  BY <1>0, <1>4, ApplyObjectsIs DEF v, PlayerApplied
<1>6. Ghostless(r) => Ghostless(v)
  <2>1. Ghostless(r) => Ghostless(g)
    BY <1>2 DEF Ghostless
  <2>2. Ghostless(t) => Ghostless(v)
    BY <1>5 DEF Ghostless, SameElsewhere
  <2>. QED
    BY <1>3, <1>4, <2>1, <2>2 DEF PlayerApplied
<1>7. v.pos = t.pos /\ v.jailed = t.jailed /\ v.floor = t.floor
  BY <1>5 DEF SameElsewhere
<1>8. Shown(v, e.b)
  BY <1>0, <1>3, <1>4, <1>7 DEF Shown, IsPlayerWord, RepType, PlayerApplied
<1>9. (e.a.told /\ e.b.told => PlayerIn(e.a) # PlayerIn(e.b)) => Shown(v, e.a)
  BY <1>0, <1>2, <1>3, <1>4, <1>7 DEF Shown, IsPlayerWord, RepType, PlayerApplied
<1>10. ASSUME NEW q \in Player \ about.players
       PROVE  v.pos[q] = r.pos[q] /\ v.jailed[q] = r.jailed[q]
  <2>1. /\ e.a.told => PlayerIn(e.a) # q
        /\ e.b.told => PlayerIn(e.b) # q
    BY <1>1, <1>10
  <2>2. s.pos[q] = r.pos[q] /\ s.jailed[q] = r.jailed[q]
    BY <1>2, <1>3, <2>1 DEF RepType, PlayerApplied
  <2>. QED
    BY <1>3, <1>4, <1>7, <2>1, <2>2 DEF RepType, PlayerApplied
<1>11. Written(r, v, e.objs, 4)
  BY <1>2, <1>3, <1>4, <1>5 DEF Written, PlayerApplied
<1>12. v.floor = r.floor \cup about.walls
  BY <1>1, <1>2, <1>3, <1>4, <1>7 DEF PlayerApplied
<1>. QED
  BY <1>0, <1>5, <1>6, <1>8, <1>9, <1>10, <1>11, <1>12 DEF about

-----------------------------------------------------------------------------
(* The replica once the events on their way are applied, one by one.       *)
Runs(g, r, es) ==
  g = [i \in 0 .. Len(es) |-> IF i = 0 THEN r ELSE ApplyEvent(g[i - 1], es[i])]

LEMMA RunExists ==
  ASSUME NEW r, NEW es, Len(es) \in Nat
  PROVE  \E g : Runs(g, r, es)
<1>. DEFINE Upto(n) == \E g : g = [i \in 0 .. n |-> IF i = 0 THEN r
                                                  ELSE ApplyEvent(g[i - 1], es[i])]
            S == { n \in Nat : n <= Len(es) /\ ~Upto(n) }
<1>1. Upto(0)
  <2>. DEFINE g == [i \in 0 .. 0 |-> r]
  <2>1. g = [i \in 0 .. 0 |-> IF i = 0 THEN r ELSE ApplyEvent(g[i - 1], es[i])]
    OBVIOUS
  <2>. QED
    BY <2>1
<1>2. ASSUME NEW n \in Nat, Upto(n) PROVE Upto(n + 1)
  <2>1. PICK g : g = [i \in 0 .. n |-> IF i = 0 THEN r ELSE ApplyEvent(g[i - 1], es[i])]
    BY <1>2
  <2>. DEFINE h == [i \in 0 .. n + 1 |-> IF i = n + 1 THEN ApplyEvent(g[n], es[n + 1])
                                         ELSE g[i]]
  <2>2. ASSUME NEW i \in 0 .. n + 1
        PROVE  h[i] = IF i = 0 THEN r ELSE ApplyEvent(h[i - 1], es[i])
    <3>1. CASE i = n + 1
      <4>1. i - 1 = n /\ n \in 0 .. n + 1 /\ n # n + 1 /\ i # 0
        BY <3>1
      <4>2. h[n] = g[n] /\ h[i] = ApplyEvent(g[n], es[n + 1])
        BY <3>1, <4>1
      <4>. HIDE DEF h
      <4>. QED
        BY <3>1, <4>1, <4>2
    <3>2. CASE i = 0
      BY <2>1, <3>2
    <3>3. CASE i # n + 1 /\ i # 0
      <4>1. i \in 0 .. n /\ i - 1 \in 0 .. n + 1 /\ i - 1 # n + 1
        BY <3>3
      <4>2. h[i] = g[i] /\ h[i - 1] = g[i - 1]
        BY <3>3, <4>1
      <4>3. g[i] = ApplyEvent(g[i - 1], es[i])
        BY <2>1, <3>3, <4>1
      <4>. HIDE DEF h
      <4>. QED
        BY <3>3, <4>2, <4>3
    <3>. QED
      BY <3>1, <3>2, <3>3
  <2>3. h = [i \in 0 .. n + 1 |-> h[i]]
    OBVIOUS
  <2>. HIDE DEF h
  <2>4. h = [i \in 0 .. n + 1 |-> IF i = 0 THEN r ELSE ApplyEvent(h[i - 1], es[i])]
    BY <2>2, <2>3
  <2>. QED
    BY <2>4
<1>. HIDE DEF Upto
<1>3. S = {}
  <2>. SUFFICES ASSUME S # {} PROVE FALSE
    OBVIOUS
  <2>1. PICK n \in S : \A m \in S : n <= m
    BY LeastOf
  <2>2. n # 0 /\ n \in Nat /\ n <= Len(es) /\ ~Upto(n)
    BY <1>1
  <2>3. n - 1 \in Nat /\ n - 1 <= Len(es) /\ ~(n <= n - 1) /\ (n - 1) + 1 = n
    BY <2>2
  <2>4. Upto(n - 1)
    BY <2>1, <2>3
  <2>. QED
    BY <1>2, <2>2, <2>3, <2>4
<1>4. Upto(Len(es))
  BY <1>3
<1>. QED
  BY <1>4 DEF Upto, Runs

(* There is one run.                                                       *)
LEMMA RunIsOne ==
  ASSUME NEW r, NEW es, Len(es) \in Nat, NEW g, Runs(g, r, es), NEW h, Runs(h, r, es)
  PROVE  g = h
<1>. DEFINE S == { n \in Nat : n <= Len(es) /\ g[n] # h[n] }
<1>1. ASSUME NEW i \in 0 .. Len(es)
      PROVE  /\ g[i] = IF i = 0 THEN r ELSE ApplyEvent(g[i - 1], es[i])
             /\ h[i] = IF i = 0 THEN r ELSE ApplyEvent(h[i - 1], es[i])
  BY DEF Runs
<1>2. S = {}
  <2>. SUFFICES ASSUME S # {} PROVE FALSE
    OBVIOUS
  <2>1. PICK n \in S : \A m \in S : n <= m
    BY LeastOf
  <2>2. n # 0 /\ n \in 0 .. Len(es) /\ g[n] # h[n]
    BY <1>1
  <2>3. n - 1 \in Nat /\ n - 1 <= Len(es) /\ ~(n <= n - 1)
    BY <2>2
  <2>4. g[n - 1] = h[n - 1]
    BY <2>1, <2>3
  <2>. QED
    BY <1>1, <2>2, <2>4
<1>3. \A i \in 0 .. Len(es) : g[i] = h[i]
  BY <1>2
<1>4. g = [i \in 0 .. Len(es) |-> g[i]] /\ h = [i \in 0 .. Len(es) |-> h[i]]
  BY DEF Runs
<1>. QED
  BY <1>3, <1>4

LEMMA ToldIsRun ==
  ASSUME NEW r, NEW es, Len(es) \in Nat, NEW g, Runs(g, r, es)
  PROVE  Told(r, es) = g[Len(es)]
<1>. DEFINE f == CHOOSE h : h = [i \in 0 .. Len(es) |-> IF i = 0 THEN r
                                                    ELSE ApplyEvent(h[i - 1], es[i])]
<1>1. Told(r, es) = f[Len(es)]
  BY Zenon DEF Told
<1>2. Runs(f, r, es)
  BY Zenon DEF Runs
<1>. HIDE DEF f
<1>3. f = g
  BY <1>2, RunIsOne
<1>. QED
  BY <1>1, <1>3

LEMMA ToldNothing ==
  ASSUME NEW r
  PROVE  Told(r, <<>>) = r
<1>. DEFINE g == [i \in 0 .. 0 |-> r]
<1>1. Len(<<>>) = 0
  OBVIOUS
<1>2. Runs(g, r, <<>>)
  BY <1>1 DEF Runs
<1>3. Told(r, <<>>) = g[Len(<<>>)]
  BY <1>1, <1>2, ToldIsRun
<1>. QED
  BY <1>1, <1>3

LEMMA ToldAppend ==
  ASSUME NEW r, NEW S, NEW es \in Seq(S), NEW e \in S
  PROVE  Told(r, Append(es, e)) = ApplyEvent(Told(r, es), e)
<1>. DEFINE n  == Len(es)
            fs == Append(es, e)
<1>1. n \in Nat /\ Len(fs) \in Nat /\ Len(fs) = n + 1 /\ fs[n + 1] = e
      /\ \A i \in 1 .. n : fs[i] = es[i]
  OBVIOUS
<1>2. PICK h : Runs(h, r, fs)
  BY <1>1, RunExists
<1>. HIDE DEF n, fs
<1>3. h = [i \in 0 .. n + 1 |-> IF i = 0 THEN r ELSE ApplyEvent(h[i - 1], fs[i])]
  BY <1>1, <1>2 DEF Runs
<1>. DEFINE k == [i \in 0 .. n |-> h[i]]
<1>4. k = [i \in 0 .. n |-> IF i = 0 THEN r ELSE ApplyEvent(k[i - 1], es[i])]
  <2>1. ASSUME NEW i \in 0 .. n
        PROVE  h[i] = IF i = 0 THEN r ELSE ApplyEvent(k[i - 1], es[i])
    <3>1. i \in 0 .. n + 1 /\ (i # 0 => i \in 1 .. n /\ i - 1 \in 0 .. n)
      BY <1>1
    <3>2. h[i] = IF i = 0 THEN r ELSE ApplyEvent(h[i - 1], fs[i])
      BY <1>3, <3>1
    <3>3. i # 0 => k[i - 1] = h[i - 1] /\ fs[i] = es[i]
      BY <1>1, <3>1
    <3>. HIDE DEF k
    <3>. QED
      BY <3>2, <3>3
  <2>2. \A i \in 0 .. n : k[i] = h[i]
    OBVIOUS
  <2>3. k = [i \in 0 .. n |-> k[i]]
    OBVIOUS
  <2>. HIDE DEF k
  <2>. QED
    BY <2>1, <2>2, <2>3
<1>5. Runs(k, r, es)
  BY <1>4 DEF Runs, n
<1>6. Told(r, es) = k[n]
  BY <1>1, <1>5, ToldIsRun DEF n
<1>7. Told(r, fs) = h[n + 1]
  BY <1>1, <1>2, ToldIsRun
<1>8. h[n + 1] = ApplyEvent(h[n], e)
  <2>1. n + 1 \in 0 .. n + 1 /\ n + 1 # 0 /\ (n + 1) - 1 = n
    BY <1>1
  <2>2. h[n + 1] = ApplyEvent(h[(n + 1) - 1], fs[n + 1])
    BY <1>3, <2>1
  <2>. QED
    BY <1>1, <2>1, <2>2
<1>9. k[n] = h[n]
  BY <1>1
<1>. QED
  BY <1>6, <1>7, <1>8, <1>9 DEF fs

LEMMA ToldHead ==
  ASSUME NEW r, NEW S, NEW es \in Seq(S), es # <<>>
  PROVE  Told(r, es) = Told(ApplyEvent(r, Head(es)), Tail(es))
<1>. DEFINE n  == Len(es)
            fs == Tail(es)
            s  == ApplyEvent(r, Head(es))
<1>1. /\ n \in Nat /\ n # 0 /\ Head(es) = es[1] /\ Len(fs) = n - 1
      /\ \A i \in 1 .. n - 1 : fs[i] = es[i + 1]
  OBVIOUS
<1>2. PICK g : Runs(g, r, es)
  BY <1>1, RunExists
<1>3. g = [i \in 0 .. n |-> IF i = 0 THEN r ELSE ApplyEvent(g[i - 1], es[i])]
  BY <1>2 DEF Runs
<1>4. Told(r, es) = g[n]
  BY <1>1, <1>2, ToldIsRun
<1>. HIDE DEF n, fs, s
<1>. DEFINE k == [i \in 0 .. n - 1 |-> g[i + 1]]
<1>5. ASSUME NEW i \in 0 .. n - 1
      PROVE  k[i] = IF i = 0 THEN s ELSE ApplyEvent(k[i - 1], fs[i])
  <2>1. /\ i + 1 \in 0 .. n /\ i + 1 # 0 /\ (i + 1) - 1 = i
        /\ i # 0 => i \in 1 .. n - 1 /\ i - 1 \in 0 .. n - 1 /\ (i - 1) + 1 = i
    BY <1>1
  <2>2. g[i + 1] = ApplyEvent(g[(i + 1) - 1], es[i + 1])
    BY <1>3, <2>1
  <2>3. k[i] = ApplyEvent(g[i], es[i + 1])
    BY <2>1, <2>2
  <2>4. i # 0 => k[i - 1] = g[i]
    BY <2>1
  <2>5. 0 \in 0 .. n /\ g[0] = r
    BY <1>1, <1>3
  <2>. HIDE DEF k
  <2>6. CASE i = 0
    <3>1. es[i + 1] = Head(es)
      BY <1>1, <2>6
    <3>. QED
      BY <2>3, <2>5, <2>6, <3>1 DEF s
  <2>7. CASE i # 0
    BY <1>1, <2>1, <2>3, <2>4, <2>7
  <2>. QED
    BY <2>6, <2>7
<1>6. k = [i \in 0 .. n - 1 |-> k[i]]
  OBVIOUS
<1>7. k[n - 1] = g[n]
  BY <1>1
<1>. HIDE DEF k
<1>8. k = [i \in 0 .. n - 1 |-> IF i = 0 THEN s ELSE ApplyEvent(k[i - 1], fs[i])]
  BY <1>5, <1>6
<1>9. Runs(k, s, fs) /\ Len(fs) \in Nat
  BY <1>1, <1>8 DEF Runs
<1>10. Told(s, fs) = k[n - 1]
  BY <1>1, <1>9, ToldIsRun
<1>. QED
  BY <1>4, <1>7, <1>10 DEF s, fs

(* The events that are on their way.                                       *)
Event == { e \in [game : Letter, a : Letter, b : Letter, objs : [1 .. 4 -> Letter]] :
             IsEvent(e) }

LEMMA ToldType ==
  ASSUME NEW r \in RepType, NEW es \in Seq(Event)
  PROVE  Told(r, es) \in RepType
<1>. DEFINE n == Len(es)
<1>1. n \in Nat /\ \A i \in 1 .. n : es[i] \in Event
  OBVIOUS
<1>2. PICK g : Runs(g, r, es)
  BY <1>1, RunExists
<1>3. \A i \in 0 .. n : g[i] = IF i = 0 THEN r ELSE ApplyEvent(g[i - 1], es[i])
  BY <1>2 DEF Runs
<1>. DEFINE B == { i \in Nat : i <= n /\ g[i] \notin RepType }
<1>. HIDE DEF n
<1>4. B = {}
  <2>. SUFFICES ASSUME B # {} PROVE FALSE
    OBVIOUS
  <2>1. PICK i \in B : \A m \in B : i <= m
    BY LeastOf
  <2>2. i # 0 /\ i \in 0 .. n /\ i \in 1 .. n /\ g[i] \notin RepType
    BY <1>1, <1>3
  <2>3. i - 1 \in Nat /\ i - 1 <= n /\ ~(i <= i - 1)
    BY <1>1, <2>2
  <2>4. g[i - 1] \in RepType
    BY <2>1, <2>3
  <2>5. IsEvent(es[i])
    BY <1>1, <2>2 DEF Event
  <2>6. ApplyEvent(g[i - 1], es[i]) \in RepType
    BY <2>4, <2>5, ApplyEventIs
  <2>. QED
    BY <1>3, <2>2, <2>6
<1>5. g[n] \in RepType
  BY <1>1, <1>4
<1>. QED
  BY <1>1, <1>2, <1>5, ToldIsRun DEF n

-----------------------------------------------------------------------------
(* What the server tells.  What the event e does, and whether the words a  *)
(* and b name every player that the request moved, jailed or dropped.      *)
Emitted(e) ==
  LET about == Subjects(e)
  IN  /\ wire' = IF subscribed THEN Append(wire, e) ELSE wire
      /\ changed' = IF Kept THEN With(changed, about) ELSE changed
      /\ stale' = IF phase # "live" THEN stale
                  ELSE IF subscribed THEN Without(stale, about) ELSE With(stale, about)

LEMMA EmitIs == \A a, b : Emit(a, b) => Emitted(EventOf(a, b))
BY DEF Emit, Emitted

(* A word says of a player what is true after the request.                 *)
TrueWord(w) ==
  LET d == DecompressPlayer(w)
      p == PlayerIn(w)
  IN  w.told => /\ p \in Player /\ CellIn(d) \in Cell
                /\ IF d.update = UPDATE_DROPPED THEN playerCell'[p] = None
                   ELSE playerCell'[p] = CellIn(d) /\ (jailed'[p] <=> d.state = 1)

Unmoved(q) == /\ playerCell'[q] = playerCell[q]
              /\ jailed'[q] => jailed[q]
              /\ fd'[q] = None => fd[q] = None

TellsPlayers(a, b) ==
  /\ a \in Letter /\ b \in Letter /\ TrueWord(a) /\ TrueWord(b)
  /\ a.told /\ b.told => PlayerIn(a) # PlayerIn(b)
  /\ \A q \in Player : ~(a.told /\ PlayerIn(a) = q) /\ ~(b.told /\ PlayerIn(b) = q)
                       => Unmoved(q)

OneWall == /\ broken \subseteq broken'
           /\ \A c, n \in broken' \ broken : c = n

TellsObjects(e) ==
  \A i \in 1 .. 4 :
    LET x == ObjectAt[i]
    IN  x \in Object =>
          IF e.objs[i].told
          THEN /\ CellIn(DecompressObject(e.objs[i])) = obj'.cell[x]
               /\ HolderIn(e.objs[i]) = obj'.player[x]
          ELSE obj'.cell[x] = obj.cell[x] /\ obj'.player[x] = obj.player[x]

Truthful(e) ==
  /\ TellsPlayers(e.a, e.b)
  /\ TellsObjects(e)
  /\ broken' = broken \cup Subjects(e).walls

LEMMA IgnoredIs == Ignored \in Letter /\ ~Ignored.told
BY DEF Ignored, Letter

LEMMA EventIsTrue ==
  ASSUME TypeOK, TypeOK', NEW a, NEW b, TellsPlayers(a, b), OneWall
  PROVE  EventOf(a, b) \in Event /\ Truthful(EventOf(a, b))
<1>. DEFINE e     == EventOf(a, b)
            walls == broken' \ broken
            tell  == { x \in Object : obj'.cell[x] # obj.cell[x]
                                      \/ obj'.player[x] # obj.player[x] }
            ws    == ObjectWords(tell, obj')
            g     == GameWord(announced', walls)
<1>1. e = [game |-> g, a |-> a, b |-> b, objs |-> ws]
  BY DEF EventOf
<1>2. walls \in SUBSET Cell /\ announced' \in GameState /\ obj' \in ObjType
  BY DEF TypeOK, MutableWalls
<1>3. /\ g \in Letter /\ DecompressState(g) = GameCode[announced']
      /\ g.told <=> walls # {}
      /\ g.told => DecompressWall(g) \in walls
  <2>. HIDE DEF walls
  <2>. QED
    BY <1>2, GameWordReads
<1>4. ASSUME NEW i \in 1 .. 4
      PROVE  LET w == ws[i]
                 x == ObjectAt[i]
             IN  /\ w \in Letter
                 /\ w.told <=> x \in tell
                 /\ w.told => /\ ObjectIn(w) = x /\ x \in Object
                              /\ CellIn(DecompressObject(w)) = obj'.cell[x]
                              /\ HolderIn(w) = obj'.player[x]
  <2>. DEFINE x == ObjectAt[i]
  <2>1. ws[i] = IF x \in tell THEN ObjectWord(x, obj') ELSE Ignored
    BY DEF ObjectWords
  <2>2. tell \subseteq Object
    OBVIOUS
  <2>. HIDE DEF tell, ws, x
  <2>3. CASE x \in tell
    BY <1>2, <2>1, <2>2, <2>3, ObjectWordReads DEF x
  <2>4. CASE x \notin tell
    BY <2>1, <2>4, IgnoredIs DEF x
  <2>. QED
    BY <2>3, <2>4
<1>5. ws \in [1 .. 4 -> Letter]
  <2>1. ws = [i \in 1 .. 4 |-> ws[i]]
    BY DEF ObjectWords
  <2>. HIDE DEF ws
  <2>. QED
    BY <1>4, <2>1
<1>. HIDE DEF ws, g
<1>6. IsGameWord(g) /\ IsPlayerWord(a) /\ IsPlayerWord(b)
  BY <1>2, <1>3 DEF IsGameWord, IsPlayerWord, TellsPlayers, TrueWord
<1>7. AreObjectWords(ws)
  <2>1. \A x \in Object : obj'.cell[x] \in Cell /\ obj'.player[x] \in Player \cup {None}
    BY <1>2 DEF ObjType
  <2>. QED
    BY <1>4, <2>1 DEF AreObjectWords, IsObjectWord
<1>8. e \in Event
  BY <1>1, <1>3, <1>5, <1>6, <1>7 DEF Event, IsEvent, TellsPlayers
<1>9. TellsObjects(e)
  <2>. SUFFICES ASSUME NEW i \in 1 .. 4, ObjectAt[i] \in Object
                PROVE  LET x == ObjectAt[i]
                       IN  IF ws[i].told
                           THEN /\ CellIn(DecompressObject(ws[i])) = obj'.cell[x]
                                /\ HolderIn(ws[i]) = obj'.player[x]
                           ELSE obj'.cell[x] = obj.cell[x] /\ obj'.player[x] = obj.player[x]
    BY <1>1 DEF TellsObjects
  <2>. QED
    BY <1>4
<1>10. broken' = broken \cup Subjects(e).walls
  <2>1. Subjects(e).walls = IF g.told THEN {DecompressWall(g)} ELSE {}
    BY <1>1 DEF Subjects
  <2>. QED
    BY <1>3, <2>1 DEF OneWall
<1>. QED
  BY <1>1, <1>8, <1>9, <1>10 DEF Truthful

LEMMA WordAfter ==
  ASSUME TypeOK', NEW p \in Player, playerCell'[p] # None,
         NEW u \in {UPDATE_UNCHANGED, UPDATE_ADDED}
  PROVE  LET w == PlayerAfter(p, u)
         IN  w \in Letter /\ w.told /\ PlayerIn(w) = p /\ TrueWord(w)
<1>1. playerCell'[p] \in Cell /\ jailed'[p] \in BOOLEAN
  BY DEF TypeOK
<1>2. u \in 0 .. 3 /\ u # UPDATE_DROPPED
  BY DEF UPDATE_UNCHANGED, UPDATE_ADDED, UPDATE_DROPPED
<1>3. LET w == PlayerWord(p, playerCell'[p], jailed'[p], u)
          d == DecompressPlayer(w)
      IN  /\ w \in Letter /\ w.told
          /\ PlayerIn(w) = p /\ CellIn(d) = playerCell'[p]
          /\ d.state = (IF jailed'[p] THEN 1 ELSE 0) /\ d.update = u
  BY <1>1, <1>2, PlayerWordReads
<1>. QED
  BY <1>1, <1>2, <1>3 DEF PlayerAfter, TrueWord

(* A request that moves nobody.                                            *)
LEMMA NobodyMoves ==
  ASSUME UNCHANGED <<fd, playerCell, jailed>>
  PROVE  TellsPlayers(Ignored, Ignored)
BY IgnoredIs DEF TellsPlayers, TrueWord, Unmoved

(* A request that moves or adds one player.                                *)
LEMMA OneMoves ==
  ASSUME TypeOK', NEW p \in Player, playerCell'[p] # None,
         NEW u \in {UPDATE_UNCHANGED, UPDATE_ADDED},
         \A q \in Player \ {p} : Unmoved(q)
  PROVE  TellsPlayers(PlayerAfter(p, u), Ignored)
<1>1. LET w == PlayerAfter(p, u)
      IN  w \in Letter /\ w.told /\ PlayerIn(w) = p /\ TrueWord(w)
  BY WordAfter
<1>. QED
  BY <1>1, IgnoredIs DEF TellsPlayers, TrueWord

(* A request that moves one player and jails another.                      *)
LEMMA TwoMove ==
  ASSUME TypeOK', NEW p \in Player, playerCell'[p] # None,
         NEW r \in Player, playerCell'[r] # None, p # r,
         \A q \in Player \ {p, r} : Unmoved(q)
  PROVE  TellsPlayers(PlayerAfter(p, UPDATE_UNCHANGED), PlayerAfter(r, UPDATE_UNCHANGED))
<1>1. LET w == PlayerAfter(p, UPDATE_UNCHANGED)
      IN  w \in Letter /\ w.told /\ PlayerIn(w) = p /\ TrueWord(w)
  BY WordAfter
<1>2. LET w == PlayerAfter(r, UPDATE_UNCHANGED)
      IN  w \in Letter /\ w.told /\ PlayerIn(w) = r /\ TrueWord(w)
  BY WordAfter
<1>. QED
  BY <1>1, <1>2 DEF TellsPlayers

LEMMA HelloTells ==
  ASSUME TypeOK, TypeOK', OccupancyOK', NEW f \in Fd, NEW p \in Player,
         NEW busy \in BusySets, Hello(f, p, busy)
  PROVE  TellsPlayers(PlayerAfter(p, UPDATE_ADDED), Ignored) /\ OneWall
<1>1. PICK c \in Found(HomeProbe(NextTeam, IdOf(p)), Free(busy)) \ {None} :
        playerCell' = [playerCell EXCEPT ![p] = c]
  BY DEF Hello
<1>2. /\ fd' = [fd EXCEPT ![p] = f] /\ jailed' = [jailed EXCEPT ![p] = FALSE]
      /\ broken' = broken
  BY DEF Hello, Enlist
<1>3. \A q \in Player \ {p} : Unmoved(q)
  BY <1>1, <1>2 DEF TypeOK, Unmoved
<1>4. playerCell'[p] # None
  BY <1>1 DEF TypeOK
<1>. QED
  BY <1>2, <1>3, <1>4, OneMoves DEF OneWall

LEMMA UnplacedTells ==
  ASSUME TypeOK, NEW f \in Fd, NEW p \in Player, NEW busy \in BusySets,
         HelloUnplaced(f, p, busy)
  PROVE  /\ \A q \in Player : \/ Unmoved(q)
                              \/ playerCell'[q] = None /\ fd'[q] # None
         /\ obj'.cell = obj.cell /\ obj'.player = obj.player /\ broken' = broken
<1>1. /\ playerCell' = [playerCell EXCEPT ![p] = None]
      /\ fd' = [fd EXCEPT ![p] = f] /\ jailed' = [jailed EXCEPT ![p] = FALSE]
      /\ obj' = [cell |-> obj.cell, player |-> obj.player, on |-> obj.on,
                 flag   |-> [obj.flag EXCEPT ![p] = None],
                 shovel |-> [obj.shovel EXCEPT ![p] = None]]
      /\ broken' = broken
  BY DEF HelloUnplaced, Enlist
<1>2. f # None
  BY GameAssumption
<1>. QED
  BY <1>1, <1>2 DEF TypeOK, Unmoved

LEMMA LeaveTells ==
  ASSUME TypeOK, NEW p \in Player, NEW busy \in BusySets, Leave(p, busy)
  PROVE  TellsPlayers(PlayerNow(p, UPDATE_DROPPED), Ignored) /\ OneWall
<1>1. /\ playerCell[p] # None
      /\ playerCell' = [playerCell EXCEPT ![p] = None]
      /\ fd' = [fd EXCEPT ![p] = None]
      /\ jailed' = jailed /\ broken' = broken
  BY DEF Leave
<1>2. playerCell[p] \in Cell /\ jailed[p] \in BOOLEAN /\ UPDATE_DROPPED \in 0 .. 3
  BY <1>1 DEF TypeOK, UPDATE_DROPPED
<1>3. LET w == PlayerNow(p, UPDATE_DROPPED)
          d == DecompressPlayer(w)
      IN  /\ w \in Letter /\ w.told
          /\ PlayerIn(w) = p /\ CellIn(d) = playerCell[p] /\ d.update = UPDATE_DROPPED
  BY <1>2, PlayerWordReads DEF PlayerNow
<1>4. playerCell'[p] = None /\ \A q \in Player \ {p} : Unmoved(q)
  BY <1>1 DEF TypeOK, Unmoved
<1>. QED
  BY <1>1, <1>2, <1>3, <1>4, IgnoredIs DEF TellsPlayers, TrueWord, OneWall

LEMMA HandleTells ==
  ASSUME NEW p \in Player, NEW kind \in {"flag", "shovel"}, NEW busy \in BusySets,
         Handle(p, kind, busy)
  PROVE  TellsPlayers(Ignored, Ignored) /\ OneWall
<1>1. UNCHANGED <<fd, playerCell, jailed, broken>>
  BY DEF Handle, Noop, DropNothing, Idle, DropFlagHere, DropShovelHere, PickUp,
         registry, places
<1>. QED
  BY <1>1, NobodyMoves DEF OneWall

(* Whom a move tells of: the player then on the target cell, and the one   *)
(* that it jailed.                                                         *)
Caught == { q \in Player : ~jailed[q] /\ jailed'[q] }
MoveTelling(n) ==
  TellsPlayers(PlayerAfter(cellPlayer'[n], UPDATE_UNCHANGED),
               IF Caught = {} THEN Ignored
               ELSE PlayerAfter(CHOOSE q \in Caught : TRUE, UPDATE_UNCHANGED))

LEMMA MoveOfOne ==
  ASSUME TypeOK', NEW p \in Player, NEW n, cellPlayer'[n] = p, playerCell'[p] # None,
         \A q \in Player \ {p} : Unmoved(q), Caught = {}
  PROVE  MoveTelling(n)
BY OneMoves DEF MoveTelling

LEMMA MoveOfTwo ==
  ASSUME TypeOK', NEW p \in Player, NEW r \in Player, NEW n, cellPlayer'[n] = p,
         playerCell'[p] # None, playerCell'[r] # None, p # r,
         \A q \in Player \ {p, r} : Unmoved(q), Caught = {r}
  PROVE  MoveTelling(n)
<1>1. (CHOOSE q \in Caught : TRUE) = r /\ Caught # {}
  OBVIOUS
<1>. QED
  BY <1>1, TwoMove DEF MoveTelling

LEMMA MoveTells ==
  ASSUME TypeOK, OccupancyOK, TypeOK', OccupancyOK', NEW p \in Player,
         playerCell[p] # None, NEW n \in Targets(p), NEW busy \in BusySets,
         Move(p, n, busy)
  PROVE  MoveTelling(n) /\ OneWall
<1>0. n \in Cell /\ playerCell[p] \in Cell
  BY TargetType
<1>1. ASSUME MovePlayer(p, n), UNCHANGED <<fd>>,
             \A q \in Player : jailed'[q] => jailed[q]
      PROVE  MoveTelling(n)
  <2>1. cellPlayer'[n] = p /\ playerCell'[p] = n /\ n # None
    BY <1>0, <1>1, GameAssumption DEF MovePlayer, TypeOK
  <2>2. \A q \in Player \ {p} : Unmoved(q)
    BY <1>1 DEF MovePlayer, TypeOK, Unmoved
  <2>3. Caught = {}
    BY <1>1 DEF Caught
  <2>. QED
    BY <2>1, <2>2, <2>3, MoveOfOne
<1>2. CASE JailedBump(p, n)
  <2>1. UNCHANGED <<fd, playerCell, cellPlayer, jailed, broken>> /\ cellPlayer[n] # None
    BY <1>2 DEF JailedBump, Idle, Occupied, registry, places
  <2>2. cellPlayer[n] \in Player /\ playerCell[cellPlayer[n]] = n /\ n # None
    BY <1>0, <2>1, GameAssumption DEF TypeOK, OccupancyOK
  <2>3. \A q \in Player : Unmoved(q)
    BY <2>1 DEF Unmoved
  <2>4. Caught = {}
    BY <2>1 DEF Caught
  <2>5. MoveTelling(n)
    BY <2>1, <2>2, <2>3, <2>4, MoveOfOne
  <2>. QED
    BY <2>1, <2>5 DEF OneWall
<1>3. CASE JailedMove(p, n)
  <2>1. MovePlayer(p, n) /\ UNCHANGED <<fd, jailed, broken>>
    BY <1>3 DEF JailedMove, registry
  <2>. QED
    BY <1>1, <2>1 DEF OneWall
<1>4. CASE WallMove(p, n, busy)
  <2>1. MovePlayer(p, n) /\ UNCHANGED <<fd, jailed>> /\ broken' = broken \cup {n}
    BY <1>4 DEF WallMove, registry
  <2>. QED
    BY <1>1, <2>1 DEF OneWall
<1>5. CASE FloorMove(p, n)
  <2>1. /\ MovePlayer(p, n) /\ UNCHANGED <<fd, broken>>
        /\ \A q \in Player : jailed'[q] => jailed[q]
    BY <1>5 DEF FloorMove, registry
  <2>. QED
    BY <1>1, <2>1 DEF OneWall
<1>6. CASE WalkIntoTagger(p, n, busy)
  <2>. DEFINE q == cellPlayer[n]
  <2>1. /\ q \in Player /\ TeamOf(q) # TeamOf(p) /\ playerCell[q] = n
    BY <1>0, <1>6 DEF WalkIntoTagger, Occupied, TypeOK, OccupancyOK
  <2>2. PICK cell \in Found(JailProbe(OppositeTeam(TeamOf(p)), IdOf(p)),
                            Free(busy \cup {playerCell[p], n})) \ {None} :
          MovePlayer(p, cell)
    BY <1>6 DEF WalkIntoTagger
  <2>3. cell \in Free(busy \cup {playerCell[p], n})
    BY <2>2, FoundIsGood
  <2>4. cell \in Cell /\ cell # n
    BY <2>3 DEF Free
  <2>5. ~jailed[p] /\ jailed' = [jailed EXCEPT ![p] = TRUE] /\ UNCHANGED <<fd, broken>>
    BY <1>6 DEF WalkIntoTagger, registry
  <2>6. p # q
    BY <2>1
  <2>7. cellPlayer'[n] = q
    <3>1. n # playerCell[p]
      BY <2>1, <2>6 DEF OccupancyOK
    <3>2. cellPlayer' = [cellPlayer EXCEPT ![playerCell[p]] = None, ![cell] = p]
      BY <2>2 DEF MovePlayer
    <3>. QED
      BY <1>0, <2>4, <3>1, <3>2 DEF TypeOK
  <2>8. playerCell'[q] = n /\ playerCell'[p] = cell /\ n # None /\ cell # None
    BY <1>0, <2>1, <2>2, <2>4, <2>6, GameAssumption DEF MovePlayer, TypeOK
  <2>9. \A s \in Player \ {q, p} : Unmoved(s)
    BY <2>2, <2>5 DEF MovePlayer, TypeOK, Unmoved
  <2>10. Caught = {p}
    BY <2>5 DEF Caught, TypeOK
  <2>. HIDE DEF q
  <2>11. MoveTelling(n)
    BY <2>1, <2>6, <2>7, <2>8, <2>9, <2>10, MoveOfTwo
  <2>. QED
    BY <2>5, <2>11 DEF OneWall
<1>7. CASE Tag(p, n, busy)
  <2>. DEFINE q == cellPlayer[n]
  <2>1. /\ q \in Player /\ TeamOf(q) # TeamOf(p) /\ playerCell[q] = n
    BY <1>0, <1>7 DEF Tag, Occupied, TypeOK, OccupancyOK
  <2>2. PICK cell \in Found(JailProbe(TeamOf(p), IdOf(q)),
                            Free(busy \cup {playerCell[p], n})) \ {None} :
          /\ playerCell' = [playerCell EXCEPT ![q] = cell, ![p] = n]
          /\ cellPlayer' = [cellPlayer EXCEPT ![playerCell[p]] = None, ![n] = p, ![cell] = q]
    BY <1>7 DEF Tag
  <2>3. cell \in Free(busy \cup {playerCell[p], n})
    BY <2>2, FoundIsGood
  <2>4. cell \in Cell /\ cell # n
    BY <2>3 DEF Free
  <2>5. ~jailed[q] /\ jailed' = [jailed EXCEPT ![q] = TRUE] /\ UNCHANGED <<fd, broken>>
    BY <1>7 DEF Tag, registry
  <2>6. p # q
    BY <2>1
  <2>. HIDE DEF q
  <2>7. cellPlayer'[n] = p
    BY <1>0, <2>2, <2>4 DEF TypeOK
  <2>8. playerCell'[q] = cell /\ playerCell'[p] = n /\ n # None /\ cell # None
    BY <1>0, <2>1, <2>2, <2>4, <2>6, GameAssumption DEF TypeOK
  <2>9. \A s \in Player \ {p, q} : Unmoved(s)
    BY <2>2, <2>5 DEF TypeOK, Unmoved
  <2>10. Caught = {q}
    BY <2>1, <2>5 DEF Caught, TypeOK
  <2>11. MoveTelling(n)
    BY <2>1, <2>6, <2>7, <2>8, <2>9, <2>10, MoveOfTwo
  <2>. QED
    BY <2>5, <2>11 DEF OneWall
<1>. QED
  BY <1>2, <1>3, <1>4, <1>5, <1>6, <1>7 DEF Move

(* The other requests change nothing that the client follows, but that an  *)
(* unplaced player is known to the server and stands nowhere.              *)
Unseen ==
  /\ \A q \in Player : Unmoved(q) \/ (playerCell'[q] = None /\ fd'[q] # None)
  /\ obj'.cell = obj.cell /\ obj'.player = obj.player /\ broken' = broken

LEMMA ServerStepIsNext == ServerStep => Next
<1>. SUFFICES ASSUME ServerStep PROVE Next
  OBVIOUS
<1>1. /\ up /\ Serve
      /\ \A t \in Team : /\ homeCount'[t] \in -CounterBound .. CounterBound
                         /\ homeFlags'[t] \in -CounterBound .. CounterBound
  BY DEF ServerStep
<1>2. \/ \E f \in Fd : HelloRefused(f)
      \/ \E f \in Fd, p \in Player, busy \in BusySets : Join(f, p, busy)
      \/ \E p \in Player, busy \in BusySets : Connected(p) /\ Leave(p, busy)
      \/ \E p \in Player, busy \in BusySets : Connected(p) /\ Request(p, busy)
      \/ \E p \in Player : Connected(p) /\ Crash(p)
      \/ Teleport
  BY <1>1 DEF Serve, Join, Request
<1>. QED
  BY <1>1, <1>2 DEF Next

LEMMA ServerTells ==
  ASSUME Inv, Inv', ServerStep
  PROVE  \/ \E e \in Event : Emitted(e) /\ Truthful(e)
         \/ Silent /\ Unseen
<1>. USE DEF Inv
<1>0. ASSUME NEW a, NEW b, Emit(a, b), TellsPlayers(a, b), OneWall
      PROVE  \E e \in Event : Emitted(e) /\ Truthful(e)
  <2>1. EventOf(a, b) \in Event /\ Truthful(EventOf(a, b))
    BY <1>0, EventIsTrue
  <2>2. Emitted(EventOf(a, b))
    BY <1>0, EmitIs
  <2>. QED
    BY <2>1, <2>2
<1>1. CASE \E f \in Fd : HelloRefused(f) /\ Silent
  <2>1. UNCHANGED <<fd, playerCell, jailed, obj, broken>> /\ Silent
    BY <1>1 DEF HelloRefused, places
  <2>. QED
    BY <2>1 DEF Unseen, Unmoved
<1>2. CASE \E f \in Fd, p \in Player, busy \in BusySets :
             Hello(f, p, busy) /\ Emit(PlayerAfter(p, UPDATE_ADDED), Ignored)
  <2>1. PICK f \in Fd, p \in Player, busy \in BusySets :
               Hello(f, p, busy) /\ Emit(PlayerAfter(p, UPDATE_ADDED), Ignored)
    BY <1>2
  <2>2. TellsPlayers(PlayerAfter(p, UPDATE_ADDED), Ignored) /\ OneWall
    BY <2>1, HelloTells
  <2>. QED
    BY <1>0, <2>1, <2>2
<1>3. CASE \E f \in Fd, p \in Player, busy \in BusySets :
             HelloUnplaced(f, p, busy) /\ Silent
  <2>1. PICK f \in Fd, p \in Player, busy \in BusySets :
               HelloUnplaced(f, p, busy) /\ Silent
    BY <1>3
  <2>2. Unseen
    BY <2>1, UnplacedTells DEF Unseen
  <2>. QED
    BY <2>1, <2>2
<1>4. CASE \E p \in Player, busy \in BusySets :
             Leave(p, busy) /\ Emit(PlayerNow(p, UPDATE_DROPPED), Ignored)
  BY <1>0, <1>4, LeaveTells
<1>5. CASE \E p \in Player, busy \in BusySets :
             /\ playerCell[p] # None
             /\ \E n \in Targets(p) : Move(p, n, busy) /\ TellMove(n)
  <2>1. PICK p \in Player, busy \in BusySets :
               /\ playerCell[p] # None
               /\ \E n \in Targets(p) : Move(p, n, busy) /\ TellMove(n)
    BY <1>5
  <2>2. PICK n \in Targets(p) : Move(p, n, busy) /\ TellMove(n)
    BY <2>1
  <2>3. MoveTelling(n) /\ OneWall
    BY <2>1, <2>2, MoveTells
  <2>4. Emit(PlayerAfter(cellPlayer'[n], UPDATE_UNCHANGED),
             IF Caught = {} THEN Ignored
             ELSE PlayerAfter(CHOOSE q \in Caught : TRUE, UPDATE_UNCHANGED))
    BY <2>2 DEF TellMove, Caught
  <2>. QED
    BY <1>0, <2>3, <2>4 DEF MoveTelling
<1>6. CASE \E p \in Player, busy \in BusySets, kind \in {"flag", "shovel"} :
             Handle(p, kind, busy) /\ Emit(Ignored, Ignored)
  <2>1. PICK p \in Player, busy \in BusySets, kind \in {"flag", "shovel"} :
               Handle(p, kind, busy) /\ Emit(Ignored, Ignored)
    BY <1>6
  <2>2. TellsPlayers(Ignored, Ignored) /\ OneWall
    BY <2>1, HandleTells
  <2>. QED
    BY <1>0, <2>1, <2>2
<1>7. CASE \/ \E p \in Player : Crash(p) /\ Silent
           \/ Teleport /\ Silent
  <2>1. UNCHANGED <<fd, playerCell, jailed, obj, broken>> /\ Silent
    BY <1>7 DEF Crash, Teleport, registry, places
  <2>. QED
    BY <2>1 DEF Unseen, Unmoved
<1>. QED
  BY <1>1, <1>2, <1>3, <1>4, <1>5, <1>6, <1>7 DEF ServerStep, Serve

-----------------------------------------------------------------------------
(* What a replica is right about before and after a step of the server.    *)
PlayerAsAfter(r, p) ==
  /\ playerCell'[p] # None => r.pos[p] = playerCell'[p] /\ (jailed'[p] => r.jailed[p])
  /\ fd'[p] = None => r.pos[p] = Nowhere
ObjectAsAfter(r, x) == r.at[x] = obj'.cell[x] /\ r.holder[x] = obj'.player[x]
WallAsAfter(r, c)   == c \in r.floor <=> c \in broken'

(* Whatever r is wrong about is excused by s.                              *)
Excused(r, s) ==
  /\ \A p \in Player : RightOnPlayer(r, p) \/ p \in s.players
  /\ \A x \in Object : RightOnObject(r, x) \/ x \in s.objects
  /\ \A c \in Cell   : RightOnWall(r, c) \/ c \in s.walls

ExcusedAfter(r, s) ==
  /\ \A p \in Player : PlayerAsAfter(r, p) \/ p \in s.players
  /\ \A x \in Object : ObjectAsAfter(r, x) \/ x \in s.objects
  /\ \A c \in Cell   : WallAsAfter(r, c) \/ c \in s.walls

LEMMA WrongIsExcused ==
  ASSUME NEW r, NEW s \in Entries
  PROVE  (LET wrong == Wrong(r) IN \A k \in DOMAIN wrong : wrong[k] \subseteq s[k])
           <=> Excused(r, s)
<1>. DEFINE wrong == Wrong(r)
<1>1. wrong = [players |-> { p \in Player : ~RightOnPlayer(r, p) },
               objects |-> { x \in Object : ~RightOnObject(r, x) },
               walls   |-> { c \in Cell : ~RightOnWall(r, c) }]
  BY DEF Wrong
<1>. HIDE DEF wrong
<1>2. DOMAIN wrong = {"players", "objects", "walls"}
  BY <1>1
<1>3. /\ wrong["players"] = { p \in Player : ~RightOnPlayer(r, p) }
      /\ wrong["objects"] = { x \in Object : ~RightOnObject(r, x) }
      /\ wrong["walls"]   = { c \in Cell : ~RightOnWall(r, c) }
  BY <1>1
<1>4. s["players"] = s.players /\ s["objects"] = s.objects /\ s["walls"] = s.walls
  BY DEF Entries
<1>5. (\A k \in DOMAIN wrong : wrong[k] \subseteq s[k])
        <=> /\ wrong["players"] \subseteq s["players"]
            /\ wrong["objects"] \subseteq s["objects"]
            /\ wrong["walls"] \subseteq s["walls"]
  BY <1>2
<1>6. /\ wrong["players"] \subseteq s["players"]
        <=> \A p \in Player : RightOnPlayer(r, p) \/ p \in s.players
      /\ wrong["objects"] \subseteq s["objects"]
        <=> \A x \in Object : RightOnObject(r, x) \/ x \in s.objects
      /\ wrong["walls"] \subseteq s["walls"]
        <=> \A c \in Cell : RightOnWall(r, c) \/ c \in s.walls
  BY <1>3, <1>4
<1>. QED
  BY <1>5, <1>6 DEF Excused, wrong

LEMMA SubjectsAre ==
  ASSUME NEW e \in Event
  PROVE  /\ Subjects(e).players = { q \in Player : \/ e.a.told /\ PlayerIn(e.a) = q
                                                   \/ e.b.told /\ PlayerIn(e.b) = q }
         /\ Subjects(e).objects = { ObjectAt[i] : i \in { j \in 1 .. 4 : e.objs[j].told } }
         /\ Subjects(e).walls = IF e.game.told THEN {DecompressWall(e.game)} ELSE {}
         /\ Subjects(e) \in Entries
<1>1. IsEvent(e)
  BY DEF Event
<1>2. Subjects(e).players = { PlayerIn(w) : w \in { v \in {e.a, e.b} : v.told } }
  BY DEF Subjects, PlayerIn
<1>3. Subjects(e).players = { q \in Player : \/ e.a.told /\ PlayerIn(e.a) = q
                                             \/ e.b.told /\ PlayerIn(e.b) = q }
  BY <1>1, <1>2 DEF IsEvent, IsPlayerWord
<1>4. /\ Subjects(e).objects = { ObjectAt[i] : i \in { j \in 1 .. 4 : e.objs[j].told } }
      /\ Subjects(e).walls = IF e.game.told THEN {DecompressWall(e.game)} ELSE {}
      /\ Subjects(e) = [players |-> Subjects(e).players, objects |-> Subjects(e).objects,
                        walls |-> Subjects(e).walls]
  BY DEF Subjects
<1>5. \A i \in 1 .. 4 : e.objs[i].told => ObjectAt[i] \in Object
  BY <1>1 DEF IsEvent, AreObjectWords, IsObjectWord
<1>6. e.game.told => DecompressWall(e.game) \in Cell
  BY <1>1 DEF IsEvent, IsGameWord
<1>. HIDE DEF Entries
<1>7. /\ Subjects(e).players \in SUBSET Player
      /\ Subjects(e).objects \in SUBSET Object
      /\ Subjects(e).walls \in SUBSET Cell
  BY <1>3, <1>4, <1>5, <1>6
<1>8. Subjects(e) \in Entries
  BY <1>4, <1>7 DEF Entries
<1>. QED
  BY <1>3, <1>4, <1>8

(* An event that tells the truth makes the replica right about what it     *)
(* tells of and leaves it right about the rest.                            *)
LEMMA TruthHelps ==
  ASSUME Inv', NEW r \in RepType, NEW s, NEW e \in Event, Truthful(e), Excused(r, s)
  PROVE  LET about == Subjects(e)
         IN  ExcusedAfter(ApplyEvent(r, e), [players |-> s.players \ about.players,
                                             objects |-> s.objects \ about.objects,
                                             walls   |-> s.walls \ about.walls])
<1>. DEFINE v     == ApplyEvent(r, e)
            about == Subjects(e)
<1>1. /\ about.players = { q \in Player : \/ e.a.told /\ PlayerIn(e.a) = q
                                          \/ e.b.told /\ PlayerIn(e.b) = q }
      /\ about.objects = { ObjectAt[i] : i \in { j \in 1 .. 4 : e.objs[j].told } }
  BY SubjectsAre
<1>2. TellsPlayers(e.a, e.b) /\ TellsObjects(e) /\ broken' = broken \cup about.walls
  BY DEF Truthful
<1>3. /\ Shown(v, e.b)
      /\ (e.a.told /\ e.b.told => PlayerIn(e.a) # PlayerIn(e.b)) => Shown(v, e.a)
      /\ \A q \in Player \ about.players :
           v.pos[q] = r.pos[q] /\ v.jailed[q] = r.jailed[q]
      /\ Written(r, v, e.objs, 4)
      /\ v.floor = r.floor \cup about.walls
  BY ApplyEventIs DEF Event
<1>. HIDE DEF v, about
<1>4. ASSUME NEW w, w \in {e.a, e.b}, w.told
      PROVE  PlayerAsAfter(v, PlayerIn(w))
  <2>1. Shown(v, w) /\ TrueWord(w)
    BY <1>2, <1>3, <1>4 DEF TellsPlayers
  <2>2. PlayerIn(w) \in Player /\ CellIn(DecompressPlayer(w)) \in Cell /\ None \notin Cell
    BY <1>4, <2>1, GameAssumption DEF TrueWord
  <2>. QED
    BY <1>4, <2>1, <2>2 DEF Shown, TrueWord, PlayerAsAfter, Inv, OccupancyOK
<1>5. ASSUME NEW p \in Player
      PROVE  PlayerAsAfter(v, p) \/ p \in s.players \ about.players
  <2>1. CASE p \in about.players
    BY <1>1, <1>4, <2>1
  <2>2. CASE p \notin about.players
    <3>1. Unmoved(p) /\ v.pos[p] = r.pos[p] /\ v.jailed[p] = r.jailed[p]
      BY <1>1, <1>2, <1>3, <2>2 DEF TellsPlayers
    <3>2. RightOnPlayer(r, p) \/ p \in s.players
      BY DEF Excused
    <3>. QED
      BY <2>2, <3>1, <3>2 DEF Unmoved, RightOnPlayer, PlayerAsAfter
  <2>. QED
    BY <2>1, <2>2
<1>6. ASSUME NEW x \in Object
      PROVE  ObjectAsAfter(v, x) \/ x \in s.objects \ about.objects
  <2>1. PICK i \in 1 .. 4 : x = ObjectAt[i]
    BY ObjectAtIs
  <2>2. x \in about.objects <=> e.objs[i].told
    BY <1>1, <2>1, ObjectAtIs
  <2>3. IF e.objs[i].told
        THEN /\ v.at[x] = CellIn(DecompressObject(e.objs[i]))
             /\ v.holder[x] = HolderIn(e.objs[i])
        ELSE v.at[x] = r.at[x] /\ v.holder[x] = r.holder[x]
    BY <1>3, <2>1 DEF Written
  <2>4. IF e.objs[i].told
        THEN /\ CellIn(DecompressObject(e.objs[i])) = obj'.cell[x]
             /\ HolderIn(e.objs[i]) = obj'.player[x]
        ELSE obj'.cell[x] = obj.cell[x] /\ obj'.player[x] = obj.player[x]
    BY <1>2, <2>1 DEF TellsObjects
  <2>5. RightOnObject(r, x) \/ x \in s.objects
    BY DEF Excused
  <2>. QED
    BY <2>2, <2>3, <2>4, <2>5 DEF RightOnObject, ObjectAsAfter
<1>7. ASSUME NEW c \in Cell
      PROVE  WallAsAfter(v, c) \/ c \in s.walls \ about.walls
  <2>1. RightOnWall(r, c) \/ c \in s.walls
    BY DEF Excused
  <2>. QED
    BY <1>2, <1>3, <2>1 DEF RightOnWall, WallAsAfter
<1>. QED
  BY <1>5, <1>6, <1>7 DEF ExcusedAfter, v, about

-----------------------------------------------------------------------------
(* Two replicas that the same events reach: they agree afterwards on what  *)
(* they agreed on before and on whatever the events tell of.               *)
SamePlayer(u, v, p) == u.pos[p] = v.pos[p] /\ u.jailed[p] = v.jailed[p]
SameObject(u, v, x) == u.at[x] = v.at[x] /\ u.holder[x] = v.holder[x]
SameWall(u, v, c)   == c \in u.floor <=> c \in v.floor

Said(es) ==
  [players |-> UNION { Subjects(es[i]).players : i \in DOMAIN es },
   objects |-> UNION { Subjects(es[i]).objects : i \in DOMAIN es },
   walls   |-> UNION { Subjects(es[i]).walls : i \in DOMAIN es }]

LEMMA PlayerAgrees ==
  ASSUME NEW r \in RepType, NEW s \in RepType, NEW u, NEW v, NEW w, IsPlayerWord(w),
         PlayerApplied(r, u, w), PlayerApplied(s, v, w), NEW p \in Player,
         SamePlayer(r, s, p) \/ (w.told /\ PlayerIn(w) = p)
  PROVE  SamePlayer(u, v, p)
<1>1. CASE ~w.told
  BY <1>1 DEF PlayerApplied
<1>2. CASE w.told
  <2>1. PlayerIn(w) \in Player
    BY <1>2 DEF IsPlayerWord
  <2>. QED
    BY <1>2, <2>1 DEF PlayerApplied, SamePlayer, RepType
<1>. QED
  BY <1>1, <1>2

LEMMA EventAgrees ==
  ASSUME NEW r \in RepType, NEW s \in RepType, NEW e \in Event
  PROVE  LET u == ApplyEvent(r, e)
             v == ApplyEvent(s, e)
             about == Subjects(e)
         IN  /\ \A p \in Player : SamePlayer(r, s, p) \/ p \in about.players
                                  => SamePlayer(u, v, p)
             /\ \A x \in Object : SameObject(r, s, x) \/ x \in about.objects
                                  => SameObject(u, v, x)
             /\ \A c \in Cell : SameWall(r, s, c) \/ c \in about.walls => SameWall(u, v, c)
<1>. DEFINE about == Subjects(e)
            u == ApplyEvent(r, e)
            v == ApplyEvent(s, e)
            r1 == ApplyGame(r, e.game)
            s1 == ApplyGame(s, e.game)
            r2 == ApplyPlayer(r1, e.a)
            s2 == ApplyPlayer(s1, e.a)
            r3 == ApplyPlayer(r2, e.b)
            s3 == ApplyPlayer(s2, e.b)
<1>0. /\ IsEvent(e) /\ IsGameWord(e.game) /\ IsPlayerWord(e.a) /\ IsPlayerWord(e.b)
      /\ AreObjectWords(e.objs)
      /\ u = ApplyObjects(r3, e.objs, FALSE) /\ v = ApplyObjects(s3, e.objs, FALSE)
  BY DEF Event, IsEvent, ApplyEvent
<1>1. /\ about.players = { q \in Player : \/ e.a.told /\ PlayerIn(e.a) = q
                                          \/ e.b.told /\ PlayerIn(e.b) = q }
      /\ about.objects = { ObjectAt[i] : i \in { j \in 1 .. 4 : e.objs[j].told } }
  BY SubjectsAre
<1>2. /\ Written(r, u, e.objs, 4) /\ u.floor = r.floor \cup about.walls
      /\ Written(s, v, e.objs, 4) /\ v.floor = s.floor \cup about.walls
  BY <1>0, ApplyEventIs
<1>. HIDE DEF r1, s1, r2, s2, r3, s3, u, v, about
<1>3. /\ r1 \in RepType /\ r1.pos = r.pos /\ r1.jailed = r.jailed
      /\ s1 \in RepType /\ s1.pos = s.pos /\ s1.jailed = s.jailed
  BY <1>0, ApplyGameIs DEF r1, s1
<1>4. PlayerApplied(r1, r2, e.a) /\ PlayerApplied(s1, s2, e.a)
  BY <1>0, <1>3, ApplyPlayerIs DEF r2, s2
<1>5. r2 \in RepType /\ s2 \in RepType
  BY <1>4 DEF PlayerApplied
<1>6. PlayerApplied(r2, r3, e.b) /\ PlayerApplied(s2, s3, e.b)
  BY <1>0, <1>5, ApplyPlayerIs DEF r3, s3
<1>7. r3 \in RepType /\ s3 \in RepType
  BY <1>6 DEF PlayerApplied
<1>8. u.pos = r3.pos /\ u.jailed = r3.jailed /\ v.pos = s3.pos /\ v.jailed = s3.jailed
  BY <1>0, <1>7, ApplyObjectsIs DEF SameElsewhere
<1>9. ASSUME NEW p \in Player, SamePlayer(r, s, p) \/ p \in about.players
      PROVE  SamePlayer(u, v, p)
  <2>1. \/ SamePlayer(r1, s1, p) \/ (e.a.told /\ PlayerIn(e.a) = p)
        \/ e.b.told /\ PlayerIn(e.b) = p
    BY <1>1, <1>3, <1>9 DEF SamePlayer
  <2>2. SamePlayer(r2, s2, p) \/ (e.b.told /\ PlayerIn(e.b) = p)
    BY <1>0, <1>3, <1>4, <2>1, PlayerAgrees
  <2>3. SamePlayer(r3, s3, p)
    BY <1>0, <1>5, <1>6, <2>2, PlayerAgrees
  <2>. QED
    BY <1>8, <2>3 DEF SamePlayer
<1>10. ASSUME NEW x \in Object, SameObject(r, s, x) \/ x \in about.objects
       PROVE  SameObject(u, v, x)
  <2>1. PICK i \in 1 .. 4 : x = ObjectAt[i]
    BY ObjectAtIs
  <2>2. x \in about.objects <=> e.objs[i].told
    BY <1>1, <2>1, ObjectAtIs
  <2>. QED
    BY <1>2, <1>10, <2>1, <2>2 DEF Written, SameObject
<1>11. ASSUME NEW c \in Cell, SameWall(r, s, c) \/ c \in about.walls
       PROVE  SameWall(u, v, c)
  BY <1>2, <1>11 DEF SameWall
<1>. QED
  BY <1>9, <1>10, <1>11 DEF u, v, about

(* What one of the events es up to the n-th tells of.                      *)
SaidPlayer(es, n, p) == \E i \in 1 .. n : p \in Subjects(es[i]).players
SaidObject(es, n, x) == \E i \in 1 .. n : x \in Subjects(es[i]).objects
SaidWall(es, n, c)   == \E i \in 1 .. n : c \in Subjects(es[i]).walls

LEMMA SaidIs ==
  ASSUME NEW es \in Seq(Event)
  PROVE  /\ Said(es) \in Entries /\ Len(es) \in Nat
         /\ \A p : p \in Said(es).players <=> SaidPlayer(es, Len(es), p)
         /\ \A x : x \in Said(es).objects <=> SaidObject(es, Len(es), x)
         /\ \A c : c \in Said(es).walls <=> SaidWall(es, Len(es), c)
<1>1. Len(es) \in Nat /\ DOMAIN es = 1 .. Len(es) /\ \A i \in 1 .. Len(es) : es[i] \in Event
  OBVIOUS
<1>. DEFINE P == UNION { Subjects(es[i]).players : i \in DOMAIN es }
            O == UNION { Subjects(es[i]).objects : i \in DOMAIN es }
            W == UNION { Subjects(es[i]).walls : i \in DOMAIN es }
<1>2. ASSUME NEW i \in 1 .. Len(es)
      PROVE  /\ Subjects(es[i]).players \in SUBSET Player
             /\ Subjects(es[i]).objects \in SUBSET Object
             /\ Subjects(es[i]).walls \in SUBSET Cell
  <2>1. Subjects(es[i]) \in Entries
    BY <1>1, SubjectsAre
  <2>. QED
    BY <2>1 DEF Entries
<1>3. P \in SUBSET Player /\ O \in SUBSET Object /\ W \in SUBSET Cell
  BY <1>1, <1>2
<1>4. /\ \A p : p \in P <=> SaidPlayer(es, Len(es), p)
      /\ \A x : x \in O <=> SaidObject(es, Len(es), x)
      /\ \A c : c \in W <=> SaidWall(es, Len(es), c)
  BY <1>1 DEF SaidPlayer, SaidObject, SaidWall
<1>5. Said(es) = [players |-> P, objects |-> O, walls |-> W]
  BY DEF Said
<1>. HIDE DEF P, O, W
<1>6. Said(es) \in Entries
  BY <1>3, <1>5 DEF Entries
<1>7. Said(es).players = P /\ Said(es).objects = O /\ Said(es).walls = W
  BY <1>5
<1>. QED
  BY <1>1, <1>4, <1>6, <1>7

LEMMA ToldAgrees ==
  ASSUME NEW r \in RepType, NEW s \in RepType, NEW es \in Seq(Event)
  PROVE  LET u == Told(r, es)
             v == Told(s, es)
         IN  /\ \A p \in Player : SamePlayer(r, s, p) \/ p \in Said(es).players
                                  => SamePlayer(u, v, p)
             /\ \A x \in Object : SameObject(r, s, x) \/ x \in Said(es).objects
                                  => SameObject(u, v, x)
             /\ \A c \in Cell : SameWall(r, s, c) \/ c \in Said(es).walls => SameWall(u, v, c)
<1>. DEFINE n == Len(es)
<1>1. n \in Nat /\ \A i \in 1 .. n : es[i] \in Event
  OBVIOUS
<1>2. PICK g : Runs(g, r, es)
  BY <1>1, RunExists
<1>3. PICK h : Runs(h, s, es)
  BY <1>1, RunExists
<1>4. ASSUME NEW i \in 0 .. n
      PROVE  /\ g[i] = IF i = 0 THEN r ELSE ApplyEvent(g[i - 1], es[i])
             /\ h[i] = IF i = 0 THEN s ELSE ApplyEvent(h[i - 1], es[i])
  BY <1>2, <1>3 DEF Runs
<1>. DEFINE Agrees(i) ==
              /\ g[i] \in RepType /\ h[i] \in RepType
              /\ \A p \in Player : SamePlayer(r, s, p) \/ SaidPlayer(es, i, p)
                                   => SamePlayer(g[i], h[i], p)
              /\ \A x \in Object : SameObject(r, s, x) \/ SaidObject(es, i, x)
                                   => SameObject(g[i], h[i], x)
              /\ \A c \in Cell : SameWall(r, s, c) \/ SaidWall(es, i, c)
                                 => SameWall(g[i], h[i], c)
            B == { i \in Nat : i <= n /\ ~Agrees(i) }
<1>. HIDE DEF n
<1>5. Agrees(0)
  <2>1. g[0] = r /\ h[0] = s
    BY <1>1, <1>4
  <2>. QED
    BY <2>1 DEF SaidPlayer, SaidObject, SaidWall
<1>6. ASSUME NEW i \in 1 .. n, Agrees(i - 1) PROVE Agrees(i)
  <2>. DEFINE about == Subjects(es[i])
              k == i - 1
  <2>1. g[i] = ApplyEvent(g[k], es[i]) /\ h[i] = ApplyEvent(h[k], es[i])
    BY <1>1, <1>4
  <2>2. es[i] \in Event /\ IsEvent(es[i]) /\ g[k] \in RepType /\ h[k] \in RepType
    BY <1>1, <1>6 DEF Event
  <2>3. /\ g[i] \in RepType /\ h[i] \in RepType
    BY <2>1, <2>2, ApplyEventIs
  <2>4. /\ \A p \in Player : SamePlayer(g[k], h[k], p) \/ p \in about.players
                             => SamePlayer(g[i], h[i], p)
        /\ \A x \in Object : SameObject(g[k], h[k], x) \/ x \in about.objects
                             => SameObject(g[i], h[i], x)
        /\ \A c \in Cell : SameWall(g[k], h[k], c) \/ c \in about.walls
                           => SameWall(g[i], h[i], c)
    BY <2>1, <2>2, EventAgrees
  <2>. HIDE DEF about
  <2>5. \A j \in 1 .. i : j \in 1 .. k \/ j = i
    BY <1>1
  <2>6. /\ \A p : SaidPlayer(es, i, p) => SaidPlayer(es, k, p) \/ p \in about.players
        /\ \A x : SaidObject(es, i, x) => SaidObject(es, k, x) \/ x \in about.objects
        /\ \A c : SaidWall(es, i, c) => SaidWall(es, k, c) \/ c \in about.walls
    BY <2>5 DEF SaidPlayer, SaidObject, SaidWall, about
  <2>7. /\ \A p \in Player : SamePlayer(r, s, p) \/ SaidPlayer(es, k, p)
                             => SamePlayer(g[k], h[k], p)
        /\ \A x \in Object : SameObject(r, s, x) \/ SaidObject(es, k, x)
                             => SameObject(g[k], h[k], x)
        /\ \A c \in Cell : SameWall(r, s, c) \/ SaidWall(es, k, c)
                           => SameWall(g[k], h[k], c)
    BY <1>6
  <2>. QED
    BY <2>3, <2>4, <2>6, <2>7
<1>. HIDE DEF Agrees
<1>7. B = {}
  <2>. SUFFICES ASSUME B # {} PROVE FALSE
    OBVIOUS
  <2>1. PICK i \in B : \A m \in B : i <= m
    BY LeastOf
  <2>2. i # 0 /\ i \in 1 .. n /\ ~Agrees(i)
    BY <1>1, <1>5
  <2>3. i - 1 \in Nat /\ i - 1 <= n /\ ~(i <= i - 1)
    BY <1>1, <2>2
  <2>4. Agrees(i - 1)
    BY <2>1, <2>3
  <2>. QED
    BY <1>6, <2>2, <2>4
<1>8. Agrees(n)
  BY <1>1, <1>7
<1>9. Told(r, es) = g[n] /\ Told(s, es) = h[n]
  BY <1>1, <1>2, <1>3, ToldIsRun DEF n
<1>10. /\ \A p : p \in Said(es).players <=> SaidPlayer(es, n, p)
       /\ \A x : x \in Said(es).objects <=> SaidObject(es, n, x)
       /\ \A c : c \in Said(es).walls <=> SaidWall(es, n, c)
  BY SaidIs DEF n
<1>. QED
  BY <1>8, <1>9, <1>10 DEF Agrees

(* The events leave alone what they do not tell of.                        *)
LEMMA ToldElsewhere ==
  ASSUME NEW r \in RepType, NEW es \in Seq(Event)
  PROVE  LET u == Told(r, es)
         IN  /\ \A p \in Player : p \in Said(es).players \/ SamePlayer(u, r, p)
             /\ \A x \in Object : x \in Said(es).objects \/ SameObject(u, r, x)
             /\ \A c \in Cell : IF c \in Said(es).walls THEN c \in u.floor ELSE SameWall(u, r, c)
<1>. DEFINE n == Len(es)
<1>1. n \in Nat /\ \A i \in 1 .. n : es[i] \in Event
  OBVIOUS
<1>2. PICK g : Runs(g, r, es)
  BY <1>1, RunExists
<1>3. ASSUME NEW i \in 0 .. n
      PROVE  g[i] = IF i = 0 THEN r ELSE ApplyEvent(g[i - 1], es[i])
  BY <1>2 DEF Runs
<1>. DEFINE Keeps(i) ==
              /\ g[i] \in RepType
              /\ \A p \in Player : SaidPlayer(es, i, p) \/ SamePlayer(g[i], r, p)
              /\ \A x \in Object : SaidObject(es, i, x) \/ SameObject(g[i], r, x)
              /\ \A c \in Cell : IF SaidWall(es, i, c) THEN c \in g[i].floor
                                 ELSE SameWall(g[i], r, c)
            B == { i \in Nat : i <= n /\ ~Keeps(i) }
<1>. HIDE DEF n
<1>4. Keeps(0)
  <2>1. g[0] = r
    BY <1>1, <1>3
  <2>. QED
    BY <2>1 DEF SaidWall, SamePlayer, SameObject, SameWall
<1>5. ASSUME NEW i \in 1 .. n, Keeps(i - 1) PROVE Keeps(i)
  <2>. DEFINE about == Subjects(es[i])
              k == i - 1
  <2>1. g[i] = ApplyEvent(g[k], es[i])
    BY <1>1, <1>3
  <2>2. es[i] \in Event /\ IsEvent(es[i]) /\ g[k] \in RepType
    BY <1>1, <1>5 DEF Event
  <2>3. /\ g[i] \in RepType
        /\ \A q \in Player \ about.players :
             g[i].pos[q] = g[k].pos[q] /\ g[i].jailed[q] = g[k].jailed[q]
        /\ Written(g[k], g[i], es[i].objs, 4)
        /\ g[i].floor = g[k].floor \cup about.walls
    BY <2>1, <2>2, ApplyEventIs
  <2>4. about.objects = { ObjectAt[j] : j \in { m \in 1 .. 4 : es[i].objs[m].told } }
    BY <2>2, SubjectsAre
  <2>. HIDE DEF about
  <2>5. \A j \in 1 .. i : j \in 1 .. k \/ j = i
    BY <1>1
  <2>6. \A j \in 1 .. k : j \in 1 .. i
    BY <1>1
  <2>7. i \in 1 .. i
    BY <1>1
  <2>8. /\ \A p : SaidPlayer(es, i, p) <=> SaidPlayer(es, k, p) \/ p \in about.players
        /\ \A x : SaidObject(es, i, x) <=> SaidObject(es, k, x) \/ x \in about.objects
        /\ \A c : SaidWall(es, i, c) <=> SaidWall(es, k, c) \/ c \in about.walls
    BY <2>5, <2>6, <2>7 DEF SaidPlayer, SaidObject, SaidWall, about
  <2>9. ASSUME NEW p \in Player PROVE SaidPlayer(es, i, p) \/ SamePlayer(g[i], r, p)
    BY <1>5, <2>3, <2>8 DEF SamePlayer
  <2>10. ASSUME NEW x \in Object PROVE SaidObject(es, i, x) \/ SameObject(g[i], r, x)
    <3>1. PICK j \in 1 .. 4 : x = ObjectAt[j]
      BY ObjectAtIs
    <3>2. SaidObject(es, k, x) \/ SameObject(g[k], r, x)
      BY <1>5
    <3>. QED
      BY <2>3, <2>4, <2>8, <3>1, <3>2 DEF SameObject, Written
  <2>11. ASSUME NEW c \in Cell
         PROVE  IF SaidWall(es, i, c) THEN c \in g[i].floor ELSE SameWall(g[i], r, c)
    <3>1. IF SaidWall(es, k, c) THEN c \in g[k].floor ELSE SameWall(g[k], r, c)
      BY <1>5
    <3>. QED
      BY <2>3, <2>8, <3>1 DEF SameWall
  <2>. QED
    BY <2>3, <2>9, <2>10, <2>11
<1>. HIDE DEF Keeps
<1>6. B = {}
  <2>. SUFFICES ASSUME B # {} PROVE FALSE
    OBVIOUS
  <2>1. PICK i \in B : \A m \in B : i <= m
    BY LeastOf
  <2>2. i # 0 /\ i \in 1 .. n /\ ~Keeps(i)
    BY <1>1, <1>4
  <2>3. i - 1 \in Nat /\ i - 1 <= n /\ ~(i <= i - 1)
    BY <1>1, <2>2
  <2>4. Keeps(i - 1)
    BY <2>1, <2>3
  <2>. QED
    BY <1>5, <2>2, <2>4
<1>7. Keeps(n)
  BY <1>1, <1>6
<1>8. Told(r, es) = g[n]
  BY <1>1, <1>2, ToldIsRun DEF n
<1>9. /\ \A p : p \in Said(es).players <=> SaidPlayer(es, n, p)
      /\ \A x : x \in Said(es).objects <=> SaidObject(es, n, x)
      /\ \A c : c \in Said(es).walls <=> SaidWall(es, n, c)
  BY SaidIs DEF n
<1>. QED
  BY <1>7, <1>8, <1>9 DEF Keeps

LEMMA SaidAppend ==
  ASSUME NEW es \in Seq(Event), NEW e \in Event
  PROVE  LET said == Said(Append(es, e))
         IN  /\ \A p : p \in said.players <=> p \in Said(es).players \/ p \in Subjects(e).players
             /\ \A x : x \in said.objects <=> x \in Said(es).objects \/ x \in Subjects(e).objects
             /\ \A c : c \in said.walls <=> c \in Said(es).walls \/ c \in Subjects(e).walls
<1>. DEFINE fs == Append(es, e)
            n  == Len(es)
            m  == Len(fs)
<1>1. /\ n \in Nat /\ m = n + 1 /\ fs \in Seq(Event)
      /\ fs[m] = e /\ \A i \in 1 .. n : fs[i] = es[i]
  OBVIOUS
<1>2. /\ \A p : p \in Said(fs).players <=> SaidPlayer(fs, m, p)
      /\ \A x : x \in Said(fs).objects <=> SaidObject(fs, m, x)
      /\ \A c : c \in Said(fs).walls <=> SaidWall(fs, m, c)
      /\ \A p : p \in Said(es).players <=> SaidPlayer(es, n, p)
      /\ \A x : x \in Said(es).objects <=> SaidObject(es, n, x)
      /\ \A c : c \in Said(es).walls <=> SaidWall(es, n, c)
  <2>. HIDE DEF fs
  <2>. QED
    BY <1>1, SaidIs
<1>. HIDE DEF fs, n, m
<1>3. \A i \in 1 .. m : i \in 1 .. n \/ i = m
  BY <1>1
<1>4. m \in 1 .. m /\ \A i \in 1 .. n : i \in 1 .. m
  BY <1>1
<1>5. /\ \A p : SaidPlayer(fs, m, p) <=> SaidPlayer(es, n, p) \/ p \in Subjects(e).players
      /\ \A x : SaidObject(fs, m, x) <=> SaidObject(es, n, x) \/ x \in Subjects(e).objects
      /\ \A c : SaidWall(fs, m, c) <=> SaidWall(es, n, c) \/ c \in Subjects(e).walls
  BY <1>1, <1>3, <1>4 DEF SaidPlayer, SaidObject, SaidWall
<1>. QED
  BY <1>2, <1>5 DEF fs

LEMMA SaidTail ==
  ASSUME NEW es \in Seq(Event), es # <<>>
  PROVE  LET said == Said(Tail(es))
         IN  /\ said.players \subseteq Said(es).players
             /\ said.objects \subseteq Said(es).objects
             /\ said.walls \subseteq Said(es).walls
<1>. DEFINE fs == Tail(es)
            n  == Len(es)
            m  == Len(fs)
<1>1. /\ n \in Nat /\ n = m + 1 /\ m \in Nat /\ fs \in Seq(Event)
      /\ \A i \in 1 .. m : fs[i] = es[i + 1]
  OBVIOUS
<1>2. /\ \A p : p \in Said(fs).players <=> SaidPlayer(fs, m, p)
      /\ \A x : x \in Said(fs).objects <=> SaidObject(fs, m, x)
      /\ \A c : c \in Said(fs).walls <=> SaidWall(fs, m, c)
      /\ \A p : p \in Said(es).players <=> SaidPlayer(es, n, p)
      /\ \A x : x \in Said(es).objects <=> SaidObject(es, n, x)
      /\ \A c : c \in Said(es).walls <=> SaidWall(es, n, c)
  <2>. HIDE DEF fs
  <2>. QED
    BY <1>1, SaidIs
<1>. HIDE DEF fs, n, m
<1>3. \A i \in 1 .. m : i + 1 \in 1 .. n
  BY <1>1
<1>4. /\ \A p : SaidPlayer(fs, m, p) => SaidPlayer(es, n, p)
      /\ \A x : SaidObject(fs, m, x) => SaidObject(es, n, x)
      /\ \A c : SaidWall(fs, m, c) => SaidWall(es, n, c)
  BY <1>1, <1>3 DEF SaidPlayer, SaidObject, SaidWall
<1>. QED
  BY <1>2, <1>4 DEF fs

LEMMA SaidNothing == Said(<<>>) = NoEntry
BY DEF Said, NoEntry

LEMMA EntriesShape ==
  ASSUME NEW s \in Entries
  PROVE  /\ DOMAIN s = {"players", "objects", "walls"}
         /\ s["players"] = s.players /\ s["objects"] = s.objects /\ s["walls"] = s.walls
         /\ s.players \in SUBSET Player /\ s.objects \in SUBSET Object
         /\ s.walls \in SUBSET Cell
BY DEF Entries

LEMMA EntryRecord ==
  ASSUME NEW a \in SUBSET Player, NEW b \in SUBSET Object, NEW c \in SUBSET Cell
  PROVE  [players |-> a, objects |-> b, walls |-> c] \in Entries
BY DEF Entries

(* With and Without, part by part.                                         *)
LEMMA WithIs ==
  ASSUME NEW a \in Entries, NEW b \in Entries
  PROVE  /\ With(a, b) \in Entries
         /\ With(a, b).players = a.players \cup b.players
         /\ With(a, b).objects = a.objects \cup b.objects
         /\ With(a, b).walls = a.walls \cup b.walls
<1>1. /\ DOMAIN a = {"players", "objects", "walls"}
      /\ a.players \in SUBSET Player /\ a.objects \in SUBSET Object /\ a.walls \in SUBSET Cell
      /\ b.players \in SUBSET Player /\ b.objects \in SUBSET Object /\ b.walls \in SUBSET Cell
  BY EntriesShape
<1>2. With(a, b) = [k \in {"players", "objects", "walls"} |-> a[k] \cup b[k]]
  BY <1>1 DEF With
<1>3. /\ With(a, b).players = a.players \cup b.players
      /\ With(a, b).objects = a.objects \cup b.objects
      /\ With(a, b).walls = a.walls \cup b.walls
  BY <1>2
<1>. DEFINE P == a.players \cup b.players
            O == a.objects \cup b.objects
            W == a.walls \cup b.walls
<1>4. With(a, b) = [players |-> P, objects |-> O, walls |-> W]
  BY <1>2
<1>5. P \in SUBSET Player /\ O \in SUBSET Object /\ W \in SUBSET Cell
  BY <1>1
<1>. HIDE DEF P, O, W
<1>6. With(a, b) \in Entries
  BY <1>4, <1>5, EntryRecord
<1>. QED
  BY <1>3, <1>6

LEMMA WithoutIs ==
  ASSUME NEW a \in Entries, NEW b \in Entries
  PROVE  /\ Without(a, b) \in Entries
         /\ Without(a, b).players = a.players \ b.players
         /\ Without(a, b).objects = a.objects \ b.objects
         /\ Without(a, b).walls = a.walls \ b.walls
<1>1. /\ DOMAIN a = {"players", "objects", "walls"}
      /\ a.players \in SUBSET Player /\ a.objects \in SUBSET Object /\ a.walls \in SUBSET Cell
  BY EntriesShape
<1>2. Without(a, b) = [k \in {"players", "objects", "walls"} |-> a[k] \ b[k]]
  BY <1>1 DEF Without
<1>3. /\ Without(a, b).players = a.players \ b.players
      /\ Without(a, b).objects = a.objects \ b.objects
      /\ Without(a, b).walls = a.walls \ b.walls
  BY <1>2
<1>. DEFINE P == a.players \ b.players
            O == a.objects \ b.objects
            W == a.walls \ b.walls
<1>4. Without(a, b) = [players |-> P, objects |-> O, walls |-> W]
  BY <1>2
<1>5. P \in SUBSET Player /\ O \in SUBSET Object /\ W \in SUBSET Cell
  BY <1>1
<1>. HIDE DEF P, O, W
<1>6. Without(a, b) \in Entries
  BY <1>4, <1>5, EntryRecord
<1>. QED
  BY <1>3, <1>6

-----------------------------------------------------------------------------
(* The types of the client, of what it has read and of the events on their *)
(* way.  A list always has a slot: the sync ends with its last word.       *)
PlayerLetter == { w \in Letter : IsPlayerWord(w) }
WallLetter   == { w \in Letter : DecompressWall(w) \in Cell }

(* The client is installing the sync or may install it again; it has not   *)
(* begun to; it has read the list of team t.                               *)
Held      == phase \in {"sent", "players"} \/ (phase = "live" /\ reply # NoReply)
Early     == phase \in {"away", "walls", "red", "blue", "objects"}
ReadOf(t) == Held \/ phase = "objects" \/ (phase = "blue" /\ t = TEAM_RED)

ReplyOK ==
  /\ reply \in [walls : SUBSET WallLetter, players : Seq(PlayerLetter), objs : Seq(Letter)]
  /\ Held => AreObjectWords(reply.objs) /\ Len(reply.objs) = 4
  /\ Held \/ phase = "objects" => Len(reply.players) > 0
  /\ IF phase = "sent" THEN installed \in 0 .. 4
     ELSE IF phase = "players" THEN installed \in 0 .. Len(reply.players) - 1
     ELSE installed = 0

RepInv == RepOK /\ Ghostless(rep) /\ wire \in Seq(Event) /\ ReplyOK

(* The copy once the events on their way are applied, and what they leave  *)
(* untold.                                                                 *)
Copy   == Told(rep, wire)
Untold == [players |-> Player \ ToBeTold.players, objects |-> Object \ ToBeTold.objects,
           walls |-> Cell \ ToBeTold.walls]

(* The copy is right about what an event on its way tells of.              *)
ToldRight == Excused(Copy, Untold)

(* What a client that is connected is wrong about is excused.              *)
Knows == phase = "live" => Excused(Copy, stale)

(* Nobody tells a client of anything before the server knows it.           *)
Unheard ==
  /\ phase = "away" => ~subscribed
  /\ ~subscribed => wire = <<>> /\ (Early => \A p \in Player : rep.pos[p] = Nowhere)

(* Who is not in the game is not drawn, unless the sync is out of date.    *)
NotDrawn ==
  \A p \in Player : fd[p] = None /\ (Early \/ (Held /\ p \notin changed.players))
                    => Copy.pos[p] = Nowhere

(* Walls only break.                                                       *)
Decoded == { DecompressWall(w) : w \in reply.walls }
OnlyFloor == Copy.floor \subseteq broken /\ Decoded \subseteq broken

(* What the reply says is true, but for what was changed since it was read.*)
SaysTrue(w) ==
  LET d == DecompressPlayer(w)
      p == PlayerIn(w)
  IN  /\ fd[p] # None /\ d.update # UPDATE_DROPPED
      /\ playerCell[p] # None => playerCell[p] = CellIn(d) /\ (jailed[p] => d.state = 1)

About(s, p) == \E i \in 1 .. Len(s) : s[i].told /\ PlayerIn(s[i]) = p

WallsTrue ==
  /\ phase \in {"away", "walls"} => reply = NoReply
  /\ phase \in {"red", "blue", "objects"} \/ Held => broken \ changed.walls \subseteq Decoded

PlayersTrue ==
  /\ phase = "red" => reply.players = <<>>
  /\ phase = "blue" => \A i \in 1 .. Len(reply.players) :
       reply.players[i].told => TeamOf(PlayerIn(reply.players[i])) = TEAM_RED
  /\ \A i \in 1 .. Len(reply.players) :
       reply.players[i].told /\ PlayerIn(reply.players[i]) \notin changed.players
       => SaysTrue(reply.players[i])
  /\ \A p \in Player : ReadOf(TeamOf(p)) /\ p \notin changed.players /\ playerCell[p] # None
                       => About(reply.players, p)

ObjectsTrue ==
  Held => \A i \in 1 .. 4 :
    LET x == ObjectAt[i]
        w == reply.objs[i]
    IN  x \in Object \ changed.objects =>
          /\ w.told
          /\ CellIn(DecompressObject(w)) = obj.cell[x] /\ HolderIn(w) = obj.player[x]

(* What the installation has not yet come to, or cannot set right.         *)
Unsettled ==
  [players |-> IF phase = "players"
               THEN { p \in Player : \/ p \in changed.players
                                     \/ \A i \in 1 .. installed :
                                          ~(reply.players[i].told
                                            /\ PlayerIn(reply.players[i]) = p) }
               ELSE Player,
   objects |-> IF phase = "players" THEN changed.objects
               ELSE { x \in Object : \/ x \in changed.objects
                                     \/ \A i \in 1 .. installed : ObjectAt[i] # x },
   walls   |-> IF phase = "players" THEN changed.walls ELSE Cell]

Progress == phase \in {"sent", "players"} => Excused(Copy, Unsettled)

SyncInv == /\ ToldRight /\ Knows /\ Unheard /\ NotDrawn /\ OnlyFloor
           /\ WallsTrue /\ PlayersTrue /\ ObjectsTrue /\ Progress
PlayInv == Inv /\ RepInv /\ SyncInv

-----------------------------------------------------------------------------
(* What a request does to what the client will know: "about" is what its   *)
(* event tells of, nothing if there is none.                               *)
Changes(about) ==
  /\ about \in Entries
  /\ \A q \in Player \ about.players : Unmoved(q) \/ (playerCell'[q] = None /\ fd'[q] # None)
  /\ \A x \in Object \ about.objects :
       obj'.cell[x] = obj.cell[x] /\ obj'.player[x] = obj.player[x]
  /\ broken' = broken \cup about.walls

Notes(about) ==
  /\ changed' \in Entries /\ stale' \in Entries
  /\ IF Kept THEN /\ changed'.players = changed.players \cup about.players
                  /\ changed'.objects = changed.objects \cup about.objects
                  /\ changed'.walls = changed.walls \cup about.walls
     ELSE changed' = changed
  /\ IF phase # "live" THEN stale' = stale
     ELSE IF subscribed
     THEN /\ stale'.players = stale.players \ about.players
          /\ stale'.objects = stale.objects \ about.objects
          /\ stale'.walls = stale.walls \ about.walls
     ELSE /\ stale'.players = stale.players \cup about.players
          /\ stale'.objects = stale.objects \cup about.objects
          /\ stale'.walls = stale.walls \cup about.walls

Reaches(about) ==
  /\ wire' \in Seq(Event)
  /\ ~subscribed => wire' = wire
  /\ subscribed => /\ ToBeTold'.players = ToBeTold.players \cup about.players
                   /\ ToBeTold'.objects = ToBeTold.objects \cup about.objects
                   /\ ToBeTold'.walls = ToBeTold.walls \cup about.walls
  /\ \A p \in Player : \/ p \notin about.players /\ Copy'.pos[p] = Copy.pos[p]
                                                 /\ Copy'.jailed[p] = Copy.jailed[p]
                       \/ p \in about.players /\ subscribed /\ PlayerAsAfter(Copy', p)
                       \/ p \in about.players /\ ~subscribed /\ Copy'.pos[p] = Copy.pos[p]
  /\ \A x \in Object : \/ x \notin about.objects /\ Copy'.at[x] = Copy.at[x]
                                                 /\ Copy'.holder[x] = Copy.holder[x]
                       \/ x \in about.objects /\ subscribed /\ ObjectAsAfter(Copy', x)
                       \/ x \in about.objects /\ ~subscribed
  /\ Copy'.floor = IF subscribed THEN Copy.floor \cup about.walls ELSE Copy.floor

LEMMA ToBeToldIs ==
  /\ ToBeTold = Said(wire)
  /\ ToBeTold' = Said(wire')
BY DEF ToBeTold, Said

LEMMA NothingChanges ==
  ASSUME Unseen, Silent, UNCHANGED rep, RepInv
  PROVE  NoEntry \in Entries /\ Changes(NoEntry) /\ Notes(NoEntry) /\ Reaches(NoEntry)
<1>1. NoEntry \in Entries /\ NoEntry.players = {} /\ NoEntry.objects = {} /\ NoEntry.walls = {}
  BY EntryRecord DEF NoEntry
<1>2. wire' = wire /\ changed' = changed /\ stale' = stale
  BY DEF Silent
<1>3. wire \in Seq(Event) /\ changed \in Entries /\ stale \in Entries
  BY DEF RepInv, RepOK
<1>4. ToBeTold' = ToBeTold
  BY <1>2, ToBeToldIs
<1>5. Copy' = Copy
  BY <1>2 DEF Copy
<1>. HIDE DEF NoEntry, Entries, ToBeTold, Copy
<1>6. Changes(NoEntry)
  BY <1>1 DEF Changes, Unseen
<1>7. Notes(NoEntry)
  BY <1>1, <1>2, <1>3 DEF Notes
<1>8. Reaches(NoEntry)
  BY <1>1, <1>2, <1>3, <1>4, <1>5 DEF Reaches
<1>. QED
  BY <1>1, <1>6, <1>7, <1>8

LEMMA EventChanges ==
  ASSUME Inv', RepInv, UNCHANGED rep, NEW e \in Event, Emitted(e), Truthful(e)
  PROVE  LET about == Subjects(e) IN Changes(about) /\ Notes(about) /\ Reaches(about)
<1>. DEFINE about == Subjects(e)
<1>1. /\ wire' = IF subscribed THEN Append(wire, e) ELSE wire
      /\ changed' = IF Kept THEN With(changed, about) ELSE changed
      /\ stale' = IF phase # "live" THEN stale
                  ELSE IF subscribed THEN Without(stale, about) ELSE With(stale, about)
  BY DEF Emitted
<1>2. /\ wire \in Seq(Event) /\ changed \in Entries /\ stale \in Entries /\ rep \in RepType
      /\ subscribed \in BOOLEAN
  BY DEF RepInv, RepOK
<1>3. /\ about.players = { q \in Player : \/ e.a.told /\ PlayerIn(e.a) = q
                                          \/ e.b.told /\ PlayerIn(e.b) = q }
      /\ about.objects = { ObjectAt[i] : i \in { j \in 1 .. 4 : e.objs[j].told } }
      /\ about \in Entries
  BY SubjectsAre
<1>4. TellsPlayers(e.a, e.b) /\ TellsObjects(e) /\ broken' = broken \cup about.walls
  BY DEF Truthful
<1>. DEFINE r == Copy
            v == ApplyEvent(r, e)
<1>5. r \in RepType
  BY <1>2, ToldType DEF Copy
<1>6. subscribed => Copy' = v
  BY <1>1, <1>2, ToldAppend DEF Copy
<1>7. ~subscribed => Copy' = r
  BY <1>1 DEF Copy
<1>8. wire' \in Seq(Event)
  BY <1>1, <1>2
<1>9. subscribed => /\ ToBeTold'.players = ToBeTold.players \cup about.players
                    /\ ToBeTold'.objects = ToBeTold.objects \cup about.objects
                    /\ ToBeTold'.walls = ToBeTold.walls \cup about.walls
  <2>. SUFFICES ASSUME subscribed
                PROVE  /\ ToBeTold'.players = ToBeTold.players \cup about.players
                       /\ ToBeTold'.objects = ToBeTold.objects \cup about.objects
                       /\ ToBeTold'.walls = ToBeTold.walls \cup about.walls
    OBVIOUS
  <2>1. ToBeTold = Said(wire) /\ ToBeTold' = Said(Append(wire, e))
    BY <1>1, ToBeToldIs
  <2>2. LET said == Said(Append(wire, e))
        IN  /\ \A p : p \in said.players <=> p \in Said(wire).players \/ p \in about.players
            /\ \A x : x \in said.objects <=> x \in Said(wire).objects \/ x \in about.objects
            /\ \A c : c \in said.walls <=> c \in Said(wire).walls \/ c \in about.walls
    BY <1>2, SaidAppend
  <2>. HIDE DEF about
  <2>. QED
    BY <2>1, <2>2
<1>10. /\ \A q \in Player \ about.players :
            v.pos[q] = r.pos[q] /\ v.jailed[q] = r.jailed[q]
       /\ Written(r, v, e.objs, 4)
       /\ v.floor = r.floor \cup about.walls
  BY <1>5, ApplyEventIs DEF Event
<1>11. ExcusedAfter(v, [players |-> Player \ about.players,
                        objects |-> Object \ about.objects,
                        walls   |-> Cell \ about.walls])
  <2>. DEFINE all == [players |-> Player, objects |-> Object, walls |-> Cell]
  <2>1. Excused(r, all)
    BY DEF Excused
  <2>2. ExcusedAfter(v, [players |-> all.players \ about.players,
                         objects |-> all.objects \ about.objects,
                         walls   |-> all.walls \ about.walls])
    <3>. HIDE DEF r, all, about
    <3>. QED
      BY <1>5, <2>1, TruthHelps DEF about
  <2>. QED
    BY <2>2
<1>12. /\ \A p \in about.players : PlayerAsAfter(v, p)
       /\ \A x \in about.objects : ObjectAsAfter(v, x)
  <2>1. about.players \subseteq Player /\ about.objects \subseteq Object
    BY <1>3 DEF Entries
  <2>. HIDE DEF v, about
  <2>. QED
    BY <1>11, <2>1 DEF ExcusedAfter
<1>. HIDE DEF v, r, about
<1>13. Changes(about)
  <2>1. ASSUME NEW q \in Player \ about.players PROVE Unmoved(q)
    BY <1>3, <1>4 DEF TellsPlayers
  <2>2. ASSUME NEW x \in Object \ about.objects
        PROVE  obj'.cell[x] = obj.cell[x] /\ obj'.player[x] = obj.player[x]
    <3>1. PICK i \in 1 .. 4 : x = ObjectAt[i]
      BY ObjectAtIs
    <3>. QED
      BY <1>3, <1>4, <3>1 DEF TellsObjects
  <2>. QED
    BY <1>3, <1>4, <2>1, <2>2 DEF Changes
<1>14. Notes(about)
  BY <1>1, <1>2, <1>3, WithIs, WithoutIs DEF Notes
<1>15. Reaches(about)
  <2>1. ASSUME NEW x \in Object, x \notin about.objects
        PROVE  v.at[x] = r.at[x] /\ v.holder[x] = r.holder[x]
    <3>1. PICK i \in 1 .. 4 : x = ObjectAt[i]
      BY ObjectAtIs
    <3>. QED
      BY <1>3, <1>10, <2>1, <3>1 DEF Written
  <2>2. CASE subscribed
    BY <1>6, <1>8, <1>9, <1>10, <1>12, <2>1, <2>2 DEF Reaches, r
  <2>3. CASE ~subscribed
    <3>1. wire' = wire
      BY <1>1, <2>3
    <3>. QED
      BY <1>2, <1>7, <1>8, <2>3, <3>1 DEF Reaches, r
  <2>. QED
    BY <2>2, <2>3
<1>. QED
  BY <1>13, <1>14, <1>15 DEF about

LEMMA ServerStory ==
  ASSUME Inv, Inv', RepInv, ServerStep
  PROVE  \E about \in Entries : Changes(about) /\ Notes(about) /\ Reaches(about)
<1>1. UNCHANGED rep
  BY DEF ServerStep
<1>2. CASE Silent /\ Unseen
  BY <1>1, <1>2, NothingChanges
<1>3. ASSUME NEW e \in Event, Emitted(e), Truthful(e)
      PROVE  \E about \in Entries : Changes(about) /\ Notes(about) /\ Reaches(about)
  BY <1>1, <1>3, EventChanges, SubjectsAre
<1>. QED
  BY <1>2, <1>3, ServerTells

(* A request keeps what the client knows, and what is known of the reply.  *)
LEMMA ExcuseAfter ==
  ASSUME NEW about \in Entries, Changes(about), Reaches(about), NEW s, NEW t,
         \A p \in Player : p \in t.players
                           \/ (p \notin s.players /\ (subscribed \/ p \notin about.players))
                           \/ (subscribed /\ p \in about.players),
         \A x \in Object : x \in t.objects
                           \/ (x \notin s.objects /\ (subscribed \/ x \notin about.objects))
                           \/ (subscribed /\ x \in about.objects),
         \A c \in Cell : c \in t.walls
                         \/ (c \notin s.walls /\ (subscribed \/ c \notin about.walls))
                         \/ (subscribed /\ c \in about.walls),
         Excused(Copy, s)
  PROVE  ExcusedAfter(Copy', t)
<1>. DEFINE r == Copy
            v == Copy'
<1>1. /\ \A p \in Player : RightOnPlayer(r, p) \/ p \in s.players
      /\ \A x \in Object : RightOnObject(r, x) \/ x \in s.objects
      /\ \A c \in Cell : RightOnWall(r, c) \/ c \in s.walls
  BY DEF Excused
<1>2. /\ \A p \in Player : \/ p \notin about.players /\ v.pos[p] = r.pos[p]
                                                     /\ v.jailed[p] = r.jailed[p]
                           \/ p \in about.players /\ subscribed /\ PlayerAsAfter(v, p)
                           \/ p \in about.players /\ ~subscribed
      /\ \A x \in Object : \/ x \notin about.objects /\ v.at[x] = r.at[x]
                                                     /\ v.holder[x] = r.holder[x]
                           \/ x \in about.objects /\ subscribed /\ ObjectAsAfter(v, x)
                           \/ x \in about.objects /\ ~subscribed
      /\ v.floor = IF subscribed THEN r.floor \cup about.walls ELSE r.floor
  BY DEF Reaches
<1>3. /\ \A q \in Player \ about.players : Unmoved(q) \/ (playerCell'[q] = None /\ fd'[q] # None)
      /\ \A x \in Object \ about.objects :
           obj'.cell[x] = obj.cell[x] /\ obj'.player[x] = obj.player[x]
      /\ broken' = broken \cup about.walls
  BY DEF Changes
<1>. HIDE DEF r, v
<1>4. ASSUME NEW p \in Player PROVE PlayerAsAfter(v, p) \/ p \in t.players
  <2>1. CASE subscribed /\ p \in about.players
    BY <1>2, <2>1
  <2>2. CASE p \notin t.players /\ p \notin s.players /\ p \notin about.players
    <3>1. RightOnPlayer(r, p)
      BY <1>1, <2>2
    <3>2. v.pos[p] = r.pos[p] /\ v.jailed[p] = r.jailed[p]
      BY <1>2, <2>2
    <3>3. Unmoved(p) \/ (playerCell'[p] = None /\ fd'[p] # None)
      BY <1>3, <2>2
    <3>. QED
      BY <3>1, <3>2, <3>3 DEF Unmoved, RightOnPlayer, PlayerAsAfter
  <2>. QED
    BY <2>1, <2>2
<1>5. ASSUME NEW x \in Object PROVE ObjectAsAfter(v, x) \/ x \in t.objects
  <2>1. CASE subscribed /\ x \in about.objects
    BY <1>2, <2>1
  <2>2. CASE x \notin t.objects /\ x \notin s.objects /\ x \notin about.objects
    <3>1. RightOnObject(r, x)
      BY <1>1, <2>2
    <3>2. v.at[x] = r.at[x] /\ v.holder[x] = r.holder[x]
      BY <1>2, <2>2
    <3>3. obj'.cell[x] = obj.cell[x] /\ obj'.player[x] = obj.player[x]
      BY <1>3, <2>2
    <3>. QED
      BY <3>1, <3>2, <3>3 DEF RightOnObject, ObjectAsAfter
  <2>. QED
    BY <2>1, <2>2
<1>6. ASSUME NEW c \in Cell PROVE WallAsAfter(v, c) \/ c \in t.walls
  <2>1. CASE subscribed /\ c \in about.walls
    BY <1>2, <1>3, <2>1 DEF WallAsAfter
  <2>2. CASE c \notin t.walls /\ c \notin s.walls /\ (subscribed \/ c \notin about.walls)
    <3>1. RightOnWall(r, c)
      BY <1>1, <2>2
    <3>. QED
      BY <1>2, <1>3, <2>2, <3>1 DEF RightOnWall, WallAsAfter
  <2>. QED
    BY <2>1, <2>2
<1>. QED
  BY <1>4, <1>5, <1>6 DEF ExcusedAfter, v

(* The copy is right after the step, in the terms of the next state.       *)
LEMMA AfterIsNext ==
  ASSUME NEW s, ExcusedAfter(Copy', s')
  PROVE  Excused(Copy, s)'
BY DEF Excused, ExcusedAfter, RightOnPlayer, RightOnObject, RightOnWall,
       PlayerAsAfter, ObjectAsAfter, WallAsAfter

LEMMA ServerKnows ==
  ASSUME RepInv, SyncInv, UNCHANGED <<rep, phase, reply, installed, subscribed>>,
         NEW about \in Entries, Changes(about), Notes(about), Reaches(about)
  PROVE  ToldRight' /\ Knows' /\ Progress'
<1>1. /\ subscribed \in BOOLEAN
      /\ about.players \in SUBSET Player /\ about.objects \in SUBSET Object
      /\ about.walls \in SUBSET Cell
  BY DEF RepInv, RepOK, Entries
<1>2. /\ ~subscribed => wire' = wire /\ wire = <<>>
      /\ subscribed => /\ ToBeTold'.players = ToBeTold.players \cup about.players
                       /\ ToBeTold'.objects = ToBeTold.objects \cup about.objects
                       /\ ToBeTold'.walls = ToBeTold.walls \cup about.walls
  BY DEF Reaches, SyncInv, Unheard
<1>3. ToldRight'
  <2>1. Excused(Copy, Untold)
    BY DEF SyncInv, ToldRight
  <2>2. CASE ~subscribed
    <3>1. ToBeTold'.players = {} /\ ToBeTold'.objects = {} /\ ToBeTold'.walls = {}
      BY <1>2, <2>2, ToBeToldIs, SaidNothing DEF NoEntry
    <3>2. Untold'.players = Player /\ Untold'.objects = Object /\ Untold'.walls = Cell
      BY <3>1 DEF Untold
    <3>3. ExcusedAfter(Copy', Untold')
      BY <3>2 DEF ExcusedAfter
    <3>. QED
      BY <3>3, AfterIsNext DEF ToldRight
  <2>3. CASE subscribed
    <3>1. /\ Untold.players = Player \ ToBeTold.players
          /\ Untold.objects = Object \ ToBeTold.objects
          /\ Untold.walls = Cell \ ToBeTold.walls
          /\ Untold'.players = Player \ (ToBeTold.players \cup about.players)
          /\ Untold'.objects = Object \ (ToBeTold.objects \cup about.objects)
          /\ Untold'.walls = Cell \ (ToBeTold.walls \cup about.walls)
      BY <1>2, <2>3 DEF Untold
    <3>. DEFINE s == Untold
                t == Untold'
    <3>. HIDE DEF s, t
    <3>2. ExcusedAfter(Copy', t)
      BY <2>1, <2>3, <3>1, ExcuseAfter DEF s, t
    <3>. QED
      BY <3>2, AfterIsNext DEF ToldRight, t
  <2>. QED
    BY <1>1, <2>2, <2>3
<1>4. Knows'
  <2>. SUFFICES ASSUME phase = "live" PROVE Excused(Copy, stale)'
    BY DEF Knows
  <2>1. Excused(Copy, stale)
    BY DEF SyncInv, Knows
  <2>2. IF subscribed
        THEN /\ stale'.players = stale.players \ about.players
             /\ stale'.objects = stale.objects \ about.objects
             /\ stale'.walls = stale.walls \ about.walls
        ELSE /\ stale'.players = stale.players \cup about.players
             /\ stale'.objects = stale.objects \cup about.objects
             /\ stale'.walls = stale.walls \cup about.walls
    BY DEF Notes
  <2>3. ExcusedAfter(Copy', stale')
    BY <1>1, <2>1, <2>2, ExcuseAfter
  <2>. QED
    BY <2>3, AfterIsNext
<1>5. Progress'
  <2>. SUFFICES ASSUME phase \in {"sent", "players"} PROVE Excused(Copy, Unsettled)'
    BY DEF Progress
  <2>1. Excused(Copy, Unsettled)
    BY DEF SyncInv, Progress
  <2>2. Kept
    BY DEF Kept
  <2>3. /\ changed'.players = changed.players \cup about.players
        /\ changed'.objects = changed.objects \cup about.objects
        /\ changed'.walls = changed.walls \cup about.walls
    BY <2>2 DEF Notes
  <2>. DEFINE s == Unsettled
              t == Unsettled'
  <2>4. s = [players |-> IF phase = "players"
                         THEN { p \in Player : \/ p \in changed.players
                                               \/ \A i \in 1 .. installed :
                                                    ~(reply.players[i].told
                                                      /\ PlayerIn(reply.players[i]) = p) }
                         ELSE Player,
             objects |-> IF phase = "players" THEN changed.objects
                         ELSE { x \in Object : \/ x \in changed.objects
                                               \/ \A i \in 1 .. installed : ObjectAt[i] # x },
             walls   |-> IF phase = "players" THEN changed.walls ELSE Cell]
    BY DEF Unsettled
  <2>5. t = [players |-> IF phase = "players"
                         THEN { p \in Player : \/ p \in changed'.players
                                               \/ \A i \in 1 .. installed :
                                                    ~(reply.players[i].told
                                                      /\ PlayerIn(reply.players[i]) = p) }
                         ELSE Player,
             objects |-> IF phase = "players" THEN changed'.objects
                         ELSE { x \in Object : \/ x \in changed'.objects
                                               \/ \A i \in 1 .. installed : ObjectAt[i] # x },
             walls   |-> IF phase = "players" THEN changed'.walls ELSE Cell]
    BY DEF Unsettled
  <2>. HIDE DEF s, t
  <2>6. /\ \A p \in Player : p \in t.players <=> p \in s.players \/ p \in about.players
        /\ \A x \in Object : x \in t.objects <=> x \in s.objects \/ x \in about.objects
        /\ \A c \in Cell : c \in t.walls <=> c \in s.walls \/ c \in about.walls
    <3>1. CASE phase = "players"
      BY <2>3, <2>4, <2>5, <3>1
    <3>2. CASE phase # "players"
      BY <2>3, <2>4, <2>5, <3>2
    <3>. QED
      BY <3>1, <3>2
  <2>7. ExcusedAfter(Copy', t)
    BY <1>1, <2>1, <2>6, ExcuseAfter DEF s
  <2>. QED
    BY <2>7, AfterIsNext DEF t
<1>. QED
  BY <1>3, <1>4, <1>5

LEMMA ServerKeepsReply ==
  ASSUME Inv, RepInv, SyncInv, UNCHANGED <<rep, phase, reply, installed, subscribed>>,
         NEW about \in Entries, Changes(about), Notes(about), Reaches(about)
  PROVE  Unheard' /\ NotDrawn' /\ OnlyFloor' /\ WallsTrue' /\ PlayersTrue' /\ ObjectsTrue'
<1>1. /\ subscribed \in BOOLEAN /\ phase \in Phase
      /\ about.players \in SUBSET Player /\ about.objects \in SUBSET Object
      /\ about.walls \in SUBSET Cell
      /\ reply.players \in Seq(PlayerLetter)
  BY DEF RepInv, RepOK, Entries, ReplyOK
<1>2. phase \in {"red", "blue", "objects"} \/ Held => Kept
  BY DEF Held, Kept
<1>3. Kept => /\ changed'.players = changed.players \cup about.players
              /\ changed'.objects = changed.objects \cup about.objects
              /\ changed'.walls = changed.walls \cup about.walls
  BY DEF Notes
<1>4. /\ \A q \in Player \ about.players : Unmoved(q) \/ (playerCell'[q] = None /\ fd'[q] # None)
      /\ \A x \in Object \ about.objects :
           obj'.cell[x] = obj.cell[x] /\ obj'.player[x] = obj.player[x]
      /\ broken' = broken \cup about.walls
  BY DEF Changes
<1>5. /\ Held' <=> Held
      /\ Early' <=> Early
      /\ \A t : ReadOf(t)' <=> ReadOf(t)
      /\ Decoded' = Decoded
  BY DEF Held, Early, ReadOf, Decoded
<1>6. Unheard'
  BY <1>5 DEF SyncInv, Unheard, Reaches
<1>7. NotDrawn'
  <2>. SUFFICES ASSUME NEW p \in Player, fd'[p] = None,
                       Early \/ (Held /\ p \notin changed'.players)
                PROVE  Copy'.pos[p] = Nowhere
    BY <1>5 DEF NotDrawn
  <2>1. \/ p \notin about.players /\ Copy'.pos[p] = Copy.pos[p]
        \/ p \in about.players /\ subscribed /\ PlayerAsAfter(Copy', p)
        \/ p \in about.players /\ ~subscribed /\ Copy'.pos[p] = Copy.pos[p]
    BY DEF Reaches
  <2>2. p \in about.players => Early
    BY <1>2, <1>3
  <2>3. CASE p \notin about.players
    <3>1. fd[p] = None
      BY <1>4, <2>3 DEF Unmoved
    <3>2. Early \/ (Held /\ p \notin changed.players)
      BY <1>2, <1>3
    <3>3. Copy.pos[p] = Nowhere
      BY <3>1, <3>2 DEF SyncInv, NotDrawn
    <3>. QED
      BY <2>1, <2>3, <3>3
  <2>4. CASE p \in about.players /\ subscribed
    BY <2>1, <2>4 DEF PlayerAsAfter
  <2>5. CASE p \in about.players /\ ~subscribed
    <3>1. wire = <<>> /\ rep.pos[p] = Nowhere
      BY <2>2, <2>5 DEF SyncInv, Unheard
    <3>2. Copy = rep
      BY <3>1, ToldNothing DEF Copy
    <3>. QED
      BY <2>1, <2>5, <3>1, <3>2
  <2>. QED
    BY <2>3, <2>4, <2>5
<1>8. OnlyFloor'
  <2>1. Copy.floor \subseteq broken /\ Decoded \subseteq broken
    BY DEF SyncInv, OnlyFloor
  <2>2. Copy'.floor = IF subscribed THEN Copy.floor \cup about.walls ELSE Copy.floor
    BY DEF Reaches
  <2>. QED
    BY <1>4, <1>5, <2>1, <2>2 DEF OnlyFloor
<1>9. WallsTrue'
  BY <1>2, <1>3, <1>4, <1>5 DEF SyncInv, WallsTrue
<1>10. PlayersTrue'
  <2>1. /\ phase = "red" => reply.players = <<>>
        /\ phase = "blue" => \A i \in 1 .. Len(reply.players) :
             reply.players[i].told => TeamOf(PlayerIn(reply.players[i])) = TEAM_RED
        /\ \A i \in 1 .. Len(reply.players) :
             reply.players[i].told /\ PlayerIn(reply.players[i]) \notin changed.players
             => SaysTrue(reply.players[i])
        /\ \A p \in Player : ReadOf(TeamOf(p)) /\ p \notin changed.players
                             /\ playerCell[p] # None => About(reply.players, p)
    BY DEF SyncInv, PlayersTrue
  <2>2. Kept \/ reply.players = <<>>
    <3>1. phase = "away" => reply = NoReply
      BY DEF SyncInv, WallsTrue
    <3>2. ~Kept => reply = NoReply
      BY <3>1 DEF Kept
    <3>. QED
      BY <3>2 DEF NoReply
  <2>3. ASSUME NEW i \in 1 .. Len(reply.players), reply.players[i].told,
               PlayerIn(reply.players[i]) \notin changed'.players
        PROVE  SaysTrue(reply.players[i])'
    <3>. DEFINE w == reply.players[i]
                p == PlayerIn(w)
    <3>1. Kept
      BY <2>2, <2>3
    <3>2. w \in PlayerLetter
      BY <1>1, <2>3
    <3>3. p \in Player /\ p \notin about.players /\ SaysTrue(w)
      BY <1>3, <2>1, <2>3, <3>1, <3>2 DEF PlayerLetter, IsPlayerWord
    <3>4. Unmoved(p) \/ (playerCell'[p] = None /\ fd'[p] # None)
      BY <1>4, <3>3
    <3>5. w' = w
      OBVIOUS
    <3>. QED
      BY <3>3, <3>4, <3>5 DEF SaysTrue, Unmoved
  <2>4. ASSUME NEW p \in Player, ReadOf(TeamOf(p)), p \notin changed'.players,
               playerCell'[p] # None
        PROVE  About(reply.players, p)
    <3>1. Kept
      BY <2>4 DEF ReadOf, Held, Kept
    <3>2. p \notin changed.players /\ p \notin about.players
      BY <1>3, <2>4, <3>1
    <3>3. playerCell[p] # None
      BY <1>4, <2>4, <3>2 DEF Unmoved
    <3>. QED
      BY <2>1, <2>4, <3>2, <3>3
  <2>5. reply' = reply /\ phase' = phase
    OBVIOUS
  <2>6. \A i \in 1 .. Len(reply.players) :
             reply.players[i].told /\ PlayerIn(reply.players[i]) \notin changed'.players
             => SaysTrue(reply.players[i])'
    BY <2>3
  <2>7. \A p \in Player : ReadOf(TeamOf(p))' /\ p \notin changed'.players
                          /\ playerCell'[p] # None => About(reply.players, p)
    BY <1>5, <2>4
  <2>. QED
    BY <2>1, <2>5, <2>6, <2>7 DEF PlayersTrue
<1>11. ObjectsTrue'
  <2>. SUFFICES ASSUME Held, NEW i \in 1 .. 4, ObjectAt[i] \in Object \ changed'.objects
                PROVE  LET x == ObjectAt[i]
                           w == reply.objs[i]
                       IN  /\ w.told
                           /\ CellIn(DecompressObject(w)) = obj'.cell[x]
                           /\ HolderIn(w) = obj'.player[x]
    BY <1>5 DEF ObjectsTrue
  <2>1. ObjectAt[i] \in Object \ changed.objects /\ ObjectAt[i] \notin about.objects
    BY <1>2, <1>3
  <2>2. LET x == ObjectAt[i]
            w == reply.objs[i]
        IN  w.told /\ CellIn(DecompressObject(w)) = obj.cell[x] /\ HolderIn(w) = obj.player[x]
    BY <2>1 DEF SyncInv, ObjectsTrue
  <2>. QED
    BY <1>4, <2>1, <2>2
<1>. QED
  BY <1>6, <1>7, <1>8, <1>9, <1>10, <1>11

(* A request.                                                              *)
LEMMA ServerKeeps == PlayInv /\ ServerStep => PlayInv'
<1>. SUFFICES ASSUME PlayInv, ServerStep PROVE PlayInv'
  OBVIOUS
<1>1. Inv /\ Inv' /\ RepInv /\ SyncInv
  BY ServerStepIsNext, NextInv DEF PlayInv
<1>2. /\ UNCHANGED <<rep, phase, reply, installed, subscribed>>
      /\ Connecting => served < Overtake
      /\ served' = IF Connecting THEN served + 1 ELSE served
      /\ overtaken' = (overtaken \/ (phase = "live" /\ ~subscribed))
  BY DEF ServerStep
<1>3. PICK about \in Entries : Changes(about) /\ Notes(about) /\ Reaches(about)
  BY <1>1, ServerStory
<1>4. RepOK /\ Ghostless(rep) /\ ReplyOK
  BY <1>1 DEF RepInv
<1>5. served' \in 0 .. Overtake /\ overtaken' \in BOOLEAN
  BY <1>2, <1>4, ReplicaAssumption DEF RepOK
<1>6. changed' \in Entries /\ stale' \in Entries /\ wire' \in Seq(Event)
  BY <1>3 DEF Notes, Reaches
<1>7. RepOK' /\ Ghostless(rep)'
  BY <1>2, <1>4, <1>5, <1>6 DEF RepOK, Ghostless
<1>8. ReplyOK'
  BY <1>2, <1>4 DEF ReplyOK, Held
<1>. QED
  BY <1>1, <1>2, <1>3, <1>6, <1>7, <1>8, ServerKnows, ServerKeepsReply
  DEF PlayInv, RepInv, SyncInv

-----------------------------------------------------------------------------
(* At first nothing is told, nothing drawn and nothing read.               *)
LEMMA PlayInitInv == PlayInit => PlayInv
<1>. SUFFICES ASSUME PlayInit PROVE PlayInv
  OBVIOUS
<1>1. Inv
  BY InitInv DEF PlayInit
<1>2. PICK start \in Starts :
        rep = [pos    |-> [p \in Player |-> Nowhere],
               jailed |-> [p \in Player |-> FALSE],
               who    |-> [c \in Cell |-> None],
               state  |-> [c \in Cell |-> "empty"],
               on     |-> OnAt(start),
               start  |-> start,
               at     |-> [x \in Object |-> Nowhere],
               holder |-> [x \in Object |-> None],
               flag   |-> [p \in Player |-> None],
               shovel |-> [p \in Player |-> None],
               floor  |-> {},
               game   |-> "waiting"]
  BY DEF PlayInit
<1>3. rep \in RepType /\ Ghostless(rep)
  <2>1. OnAt(start) \in [Cell -> Object \cup {None}]
    BY OnAtType
  <2>2. start \in [Object -> Cell]
    BY DEF Starts
  <2>3. "waiting" \in GameState /\ "empty" \in CellState /\ Nowhere \in Cell
    BY ReplicaAssumption DEF GameState, CellState
  <2>4. /\ [p \in Player |-> Nowhere] \in [Player -> Cell]
        /\ [p \in Player |-> FALSE] \in [Player -> BOOLEAN]
        /\ [c \in Cell |-> None] \in [Cell -> Player \cup {None}]
        /\ [c \in Cell |-> "empty"] \in [Cell -> CellState]
        /\ [x \in Object |-> Nowhere] \in [Object -> Cell]
        /\ [x \in Object |-> None] \in [Object -> Player \cup {None}]
        /\ [p \in Player |-> None] \in [Player -> Object \cup {None}]
    BY <2>3
  <2>5. rep \in RepType
    BY <1>2, <2>1, <2>2, <2>3, <2>4 DEF RepType
  <2>6. rep.who = [c \in Cell |-> None]
    BY <1>2
  <2>. QED
    BY <2>5, <2>6 DEF Ghostless
<1>4. rep.pos = [p \in Player |-> Nowhere] /\ rep.floor = {}
  BY <1>2
<1>5. /\ phase = "away" /\ subscribed = FALSE /\ wire = <<>> /\ served = 0
      /\ overtaken = FALSE /\ reply = NoReply /\ installed = 0
      /\ changed = NoEntry /\ stale = NoEntry
  BY DEF PlayInit
<1>6. NoEntry \in Entries
  BY EntryRecord DEF NoEntry
<1>7. ~Held /\ Early /\ \A t : ~ReadOf(t)
  BY <1>5 DEF Held, Early, ReadOf
<1>8. RepInv
  <2>1. phase \in Phase /\ subscribed \in BOOLEAN /\ overtaken \in BOOLEAN
    BY <1>5 DEF Phase
  <2>2. served \in 0 .. Overtake
    BY <1>5, ReplicaAssumption
  <2>3. RepOK
    BY <1>3, <1>5, <1>6, <2>1, <2>2 DEF RepOK
  <2>4. ReplyOK
    <3>1. <<>> \in Seq(PlayerLetter) /\ <<>> \in Seq(Letter)
      OBVIOUS
    <3>. QED
      BY <1>5, <1>7, <3>1 DEF ReplyOK, NoReply
  <2>5. wire \in Seq(Event)
    BY <1>5
  <2>. QED
    BY <1>3, <2>3, <2>4, <2>5 DEF RepInv
<1>9. Copy = rep
  BY <1>5, ToldNothing DEF Copy
<1>10. ToldRight
  <2>1. ToBeTold = NoEntry
    BY <1>5, ToBeToldIs, SaidNothing
  <2>2. Untold.players = Player /\ Untold.objects = Object /\ Untold.walls = Cell
    BY <2>1 DEF Untold, NoEntry
  <2>. QED
    BY <2>2 DEF ToldRight, Excused
<1>11. Knows /\ Progress /\ ObjectsTrue
  BY <1>5, <1>7 DEF Knows, Progress, ObjectsTrue
<1>12. Unheard /\ NotDrawn
  BY <1>4, <1>5, <1>9 DEF Unheard, NotDrawn
<1>13. reply.walls = {} /\ reply.players = <<>>
  BY <1>5 DEF NoReply
<1>14. OnlyFloor /\ WallsTrue
  BY <1>4, <1>5, <1>7, <1>9, <1>13 DEF OnlyFloor, WallsTrue, Decoded
<1>15. PlayersTrue
  BY <1>5, <1>7, <1>13 DEF PlayersTrue
<1>. QED
  BY <1>1, <1>8, <1>10, <1>11, <1>12, <1>14, <1>15 DEF PlayInv, SyncInv

-----------------------------------------------------------------------------
(* The steps of the client.  The server stands still.                      *)
ServerStill == UNCHANGED <<fd, playerCell, jailed, obj, broken>>

LEMMA ExcusedStill ==
  ASSUME ServerStill, NEW r, NEW s, Excused(r, s), Copy' = r, NEW t, t' = s
  PROVE  Excused(Copy, t)'
BY DEF ServerStill, Excused, RightOnPlayer, RightOnObject, RightOnWall

LEMMA StillTold ==
  ASSUME SyncInv, ServerStill, Copy' = Copy,
         phase' = "live" => phase = "live" /\ stale' = stale,
         ToBeTold'.players \subseteq ToBeTold.players,
         ToBeTold'.objects \subseteq ToBeTold.objects,
         ToBeTold'.walls \subseteq ToBeTold.walls
  PROVE  ToldRight' /\ Knows' /\ (OnlyFloor' <=> Decoded' \subseteq broken)
<1>1. Excused(Copy, Untold) /\ (phase' = "live" => Excused(Copy, stale))
      /\ Copy.floor \subseteq broken
  BY DEF SyncInv, ToldRight, Knows, OnlyFloor
<1>2. Knows'
  <2>. SUFFICES ASSUME phase' = "live" PROVE Excused(Copy, stale)'
    BY DEF Knows
  <2>. QED
    BY <1>1, ExcusedStill
<1>3. ToldRight'
  <2>1. /\ Untold.players \subseteq Untold'.players
        /\ Untold.objects \subseteq Untold'.objects
        /\ Untold.walls \subseteq Untold'.walls
    BY DEF Untold
  <2>2. Excused(Copy, Untold')
    BY <1>1, <2>1 DEF Excused
  <2>. DEFINE s == Untold'
  <2>3. Excused(Copy, s)
    BY <2>2
  <2>. HIDE DEF s
  <2>4. Untold' = s
    BY DEF s
  <2>5. Excused(Copy, Untold)'
    BY <2>3, <2>4, ExcusedStill
  <2>. QED
    BY <2>5 DEF ToldRight
<1>4. OnlyFloor' <=> Decoded' \subseteq broken
  BY <1>1 DEF OnlyFloor, ServerStill
<1>. QED
  BY <1>2, <1>3, <1>4

(* A step that reads the server or goes on to another phase.               *)
LEMMA NothingInstalled ==
  ASSUME RepInv, SyncInv, UNCHANGED <<vars, rep, wire, served, overtaken, stale>>,
         phase' \in Phase, subscribed' \in BOOLEAN, changed' \in Entries,
         phase' = "live" => phase = "live",
         ReplyOK', Decoded' \subseteq broken, Unheard', NotDrawn',
         WallsTrue', PlayersTrue', ObjectsTrue', Progress'
  PROVE  RepInv' /\ SyncInv'
<1>1. ServerStill
  BY DEF ServerStill, vars, registry, places
<1>2. Copy' = Copy /\ ToBeTold' = ToBeTold
  BY ToBeToldIs DEF Copy
<1>. HIDE DEF Copy, ToBeTold
<1>3. ToldRight' /\ Knows' /\ OnlyFloor'
  BY <1>1, <1>2, StillTold
<1>4. RepInv'
  BY DEF RepInv, RepOK, Ghostless
<1>. QED
  BY <1>3, <1>4 DEF SyncInv

LEMMA ConnectKeeps ==
  ASSUME RepInv, SyncInv, Connect
  PROVE  RepInv' /\ SyncInv'
<1>1. /\ UNCHANGED <<vars, rep, installed, wire, served, overtaken, stale>>
      /\ UNCHANGED <<reply, subscribed, changed>> /\ phase = "away" /\ phase' = "walls"
  BY DEF Connect, Reader
<1>2. RepOK /\ ReplyOK /\ Unheard /\ NotDrawn /\ OnlyFloor /\ WallsTrue /\ PlayersTrue
  BY DEF RepInv, SyncInv
<1>3. /\ ~Held /\ ~Held' /\ Early /\ Early' /\ (\A t : ~ReadOf(t)') /\ Decoded' = Decoded
  BY <1>1 DEF Held, Early, ReadOf, Decoded
<1>4. reply = NoReply /\ reply.players = <<>>
  BY <1>1, <1>2 DEF WallsTrue, NoReply
<1>5. ReplyOK'
  BY <1>1, <1>2, <1>3 DEF ReplyOK
<1>6. Unheard'
  BY <1>1, <1>2, <1>3 DEF Unheard
<1>7. NotDrawn'
  BY <1>1, <1>2, <1>3 DEF NotDrawn, Copy, vars, registry
<1>8. WallsTrue' /\ ObjectsTrue' /\ Progress'
  BY <1>1, <1>3, <1>4 DEF WallsTrue, ObjectsTrue, Progress
<1>9. PlayersTrue'
  BY <1>1, <1>3, <1>4 DEF PlayersTrue
<1>. QED
  BY <1>1, <1>2, <1>3, <1>5, <1>6, <1>7, <1>8, <1>9, NothingInstalled
  DEF RepOK, OnlyFloor, Phase

LEMMA SubscribeKeeps ==
  ASSUME RepInv, SyncInv, Subscribe
  PROVE  RepInv' /\ SyncInv'
<1>1. /\ UNCHANGED <<vars, rep, installed, wire, served, overtaken, stale>>
      /\ UNCHANGED <<phase, reply, changed>> /\ phase # "away" /\ subscribed' = TRUE
  BY DEF Subscribe, Reader
<1>2. /\ RepOK /\ ReplyOK /\ Unheard /\ NotDrawn /\ OnlyFloor /\ WallsTrue /\ PlayersTrue
      /\ ObjectsTrue /\ Progress
  BY DEF RepInv, SyncInv
<1>3. UNCHANGED <<fd, playerCell, jailed, obj, broken>> /\ Copy' = Copy
  BY <1>1 DEF vars, registry, places, Copy
<1>4. ReplyOK'
  BY <1>1, <1>2 DEF ReplyOK, Held
<1>5. Unheard'
  BY <1>1, <1>2 DEF Unheard
<1>6. NotDrawn'
  BY <1>1, <1>2, <1>3 DEF NotDrawn, Early, Held
<1>7. WallsTrue'
  BY <1>1, <1>2, <1>3 DEF WallsTrue, Held, Decoded
<1>8. ObjectsTrue'
  BY <1>1, <1>2, <1>3 DEF ObjectsTrue, Held
<1>9. PlayersTrue'
  BY <1>1, <1>2, <1>3 DEF PlayersTrue, SaysTrue, ReadOf, Held
<1>10. Progress'
  BY <1>1, <1>2, <1>3
  DEF Progress, Unsettled, Excused, RightOnPlayer, RightOnObject, RightOnWall
<1>. QED
  BY <1>1, <1>2, <1>4, <1>5, <1>6, <1>7, <1>8, <1>9, <1>10, NothingInstalled
  DEF RepOK, OnlyFloor, Decoded

LEMMA WallReads ==
  ASSUME NEW c \in Cell
  PROVE  CompressWall(Ignored, c) \in WallLetter /\ DecompressWall(CompressWall(Ignored, c)) = c
<1>1. c \in (0 .. 255) \X (0 .. 255)
  BY Bounds, MapAssumption, ReplicaAssumption DEF Cell
<1>2. CompressWall(Ignored, c) \in Word
  BY <1>1, WallWordType
<1>3. Ignored \in Word
  BY DEF Ignored, Word, MaxBits
<1>4. DecompressWall(CompressWall(Ignored, c)) = c
  BY <1>1, <1>3, WallKeepsState
<1>. QED
  BY <1>2, <1>4, WordIsLetter DEF WallLetter

LEMMA ReadWallsKeeps ==
  ASSUME Inv, RepInv, SyncInv, ReadWalls
  PROVE  RepInv' /\ SyncInv'
<1>. DEFINE S == { CompressWall(Ignored, c) : c \in broken }
<1>1. /\ UNCHANGED <<vars, rep, installed, wire, served, overtaken, stale>>
      /\ subscribed' = subscribed /\ phase = "walls" /\ phase' = "red"
      /\ reply' = [reply EXCEPT !.walls = S]
      /\ changed' = [changed EXCEPT !.walls = {}]
  BY DEF ReadWalls, Reader
<1>2. RepOK /\ ReplyOK /\ Unheard /\ NotDrawn /\ WallsTrue
  BY DEF RepInv, SyncInv
<1>3. ~Held' /\ Early /\ Early' /\ (\A t : ~ReadOf(t)')
  BY <1>1 DEF Held, Early, ReadOf
<1>4. reply = NoReply /\ reply.players = <<>>
  BY <1>1, <1>2 DEF WallsTrue, NoReply
<1>5. broken \subseteq Cell
  BY DEF Inv, TypeOK, MutableWalls
<1>6. S \in SUBSET WallLetter /\ { DecompressWall(w) : w \in S } = broken
  BY <1>5, WallReads
<1>. HIDE DEF S
<1>7. reply'.walls = S /\ reply'.players = <<>> /\ reply'.objs = reply.objs
  BY <1>1, <1>4 DEF NoReply
<1>8. Decoded' = broken
  BY <1>6, <1>7 DEF Decoded
<1>9. ReplyOK'
  BY <1>1, <1>2, <1>3, <1>6 DEF ReplyOK
<1>10. Unheard'
  BY <1>1, <1>2, <1>3 DEF Unheard
<1>11. NotDrawn'
  BY <1>1, <1>2, <1>3 DEF NotDrawn, Copy, vars, registry
<1>12. broken' = broken
  BY <1>1 DEF vars
<1>13. WallsTrue' /\ ObjectsTrue' /\ Progress'
  BY <1>1, <1>3, <1>8, <1>12 DEF WallsTrue, ObjectsTrue, Progress
<1>14. PlayersTrue'
  BY <1>1, <1>3, <1>7 DEF PlayersTrue
<1>15. changed' \in Entries
  <2>1. changed' = [players |-> changed.players, objects |-> changed.objects, walls |-> {}]
    BY <1>1, <1>2 DEF RepOK, Entries
  <2>. QED
    BY <1>2, <2>1 DEF RepOK, Entries
<1>. QED
  BY <1>1, <1>2, <1>8, <1>9, <1>10, <1>11, <1>13, <1>14, <1>15, NothingInstalled
  DEF RepOK, Phase

LEMMA ListSize ==
  \A t \in Team : MaxPlayers[t] \in Nat /\ MaxPlayers[t] > 0
<1>. SUFFICES ASSUME NEW t \in Team PROVE MaxPlayers[t] \in Nat /\ MaxPlayers[t] > 0
  OBVIOUS
<1>. DEFINE w == HomeWindow[t]
            size == Width(w) * Height(w)
<1>1. Width(w) \in Nat /\ Height(w) \in Nat /\ Width(w) > 0 /\ Height(w) > 0
  BY MapAssumption DEF Windows, Width, Height
<1>2. size \in Nat /\ size > 0
  <2>1. \A a, b \in Nat : a > 0 /\ b > 0 => a * b \in Nat /\ a * b > 0
    OBVIOUS
  <2>. QED
    BY <1>1, <2>1
<1>3. MaxPlayers[t] = IF size >= 50 THEN size - 10 ELSE size
  BY DEF MaxPlayers
<1>. HIDE DEF size
<1>. QED
  BY <1>2, <1>3

LEMMA ListType ==
  ASSUME TypeOK, NEW t \in Team, Placed(t)
  PROVE  /\ ListOf(t) \in Seq(PlayerLetter) /\ Len(ListOf(t)) = MaxPlayers[t]
         /\ \A i \in 1 .. MaxPlayers[t] :
              LET p == <<t, i - 1>>
              IN  /\ p \in Player
                  /\ fd[p] = None => ListOf(t)[i] = Ignored
                  /\ fd[p] # None => /\ playerCell[p] \in Cell
                                     /\ ListOf(t)[i] = PlayerNow(p, UPDATE_UNCHANGED)
<1>. DEFINE n == MaxPlayers[t]
            L == ListOf(t)
<1>1. n \in Nat
  BY ListSize
<1>2. L = [i \in 1 .. n |-> IF fd[<<t, i - 1>>] = None THEN Ignored
                            ELSE PlayerNow(<<t, i - 1>>, UPDATE_UNCHANGED)]
  BY DEF ListOf
<1>. HIDE DEF L, n
<1>3. ASSUME NEW i \in 1 .. n
      PROVE  LET p == <<t, i - 1>>
             IN  /\ p \in Player
                 /\ fd[p] = None => L[i] = Ignored
                 /\ fd[p] # None => /\ playerCell[p] \in Cell
                                    /\ L[i] = PlayerNow(p, UPDATE_UNCHANGED)
  <2>. DEFINE p == <<t, i - 1>>
  <2>1. p \in Player
    BY <1>1 DEF Player, n
  <2>2. TeamOf(p) = t
    BY DEF TeamOf
  <2>3. L[i] = IF fd[p] = None THEN Ignored ELSE PlayerNow(p, UPDATE_UNCHANGED)
    BY <1>2
  <2>. HIDE DEF p
  <2>4. fd[p] # None => playerCell[p] \in Cell
    BY <2>1, <2>2 DEF Placed, TypeOK
  <2>. QED
    BY <2>1, <2>3, <2>4 DEF p
<1>4. ASSUME NEW i \in 1 .. n PROVE L[i] \in PlayerLetter
  <2>. DEFINE p == <<t, i - 1>>
  <2>1. /\ p \in Player
        /\ fd[p] = None => L[i] = Ignored
        /\ fd[p] # None => /\ playerCell[p] \in Cell
                           /\ L[i] = PlayerNow(p, UPDATE_UNCHANGED)
    BY <1>3
  <2>. HIDE DEF p
  <2>2. CASE fd[p] = None
    BY <2>1, <2>2, IgnoredIs DEF PlayerLetter, IsPlayerWord
  <2>3. CASE fd[p] # None
    <3>1. jailed[p] \in BOOLEAN /\ UPDATE_UNCHANGED \in 0 .. 3
      BY <2>1 DEF TypeOK, UPDATE_UNCHANGED
    <3>2. LET w == PlayerWord(p, playerCell[p], jailed[p], UPDATE_UNCHANGED)
              d == DecompressPlayer(w)
          IN  w \in Letter /\ w.told /\ PlayerIn(w) = p /\ CellIn(d) = playerCell[p]
      BY <2>1, <2>3, <3>1, PlayerWordReads
    <3>. QED
      BY <2>1, <2>3, <3>2 DEF PlayerLetter, IsPlayerWord, PlayerNow
  <2>. QED
    BY <2>2, <2>3
<1>5. L \in [1 .. n -> PlayerLetter]
  BY <1>2, <1>4
<1>6. L \in Seq(PlayerLetter) /\ Len(L) = n
  BY <1>1, <1>5
<1>. QED
  BY <1>3, <1>6 DEF L, n

LEMMA AboutMore ==
  ASSUME NEW s \in Seq(PlayerLetter), NEW u \in Seq(PlayerLetter), NEW p
  PROVE  About(s, p) \/ About(u, p) => About(s \o u, p)
<1>1. /\ Len(s) \in Nat /\ Len(u) \in Nat /\ Len(s \o u) = Len(s) + Len(u)
      /\ \A i \in 1 .. Len(s) : (s \o u)[i] = s[i]
      /\ \A i \in 1 .. Len(u) : (s \o u)[Len(s) + i] = u[i]
  OBVIOUS
<1>2. ASSUME NEW i \in 1 .. Len(s), s[i].told, PlayerIn(s[i]) = p PROVE About(s \o u, p)
  <2>1. i \in 1 .. Len(s \o u)
    BY <1>1
  <2>. QED
    BY <1>1, <1>2, <2>1 DEF About
<1>3. ASSUME NEW i \in 1 .. Len(u), u[i].told, PlayerIn(u[i]) = p PROVE About(s \o u, p)
  <2>1. Len(s) + i \in 1 .. Len(s \o u)
    BY <1>1
  <2>. QED
    BY <1>1, <1>3, <2>1 DEF About
<1>. QED
  BY <1>2, <1>3 DEF About

(* A list names every connected player of its team and says of it what is  *)
(* true.                                                                   *)
LEMMA ListReads ==
  ASSUME TypeOK, NEW t \in Team, Placed(t)
  PROVE  LET L == ListOf(t)
         IN  /\ \A i \in 1 .. Len(L) : L[i].told => SaysTrue(L[i]) /\ TeamOf(PlayerIn(L[i])) = t
             /\ \A p \in Player : TeamOf(p) = t /\ fd[p] # None => About(L, p)
<1>. DEFINE n == MaxPlayers[t]
            L == ListOf(t)
<1>1. /\ L \in Seq(PlayerLetter) /\ Len(L) = n
      /\ \A i \in 1 .. n :
           LET p == <<t, i - 1>>
           IN  /\ p \in Player
               /\ fd[p] = None => L[i] = Ignored
               /\ fd[p] # None => /\ playerCell[p] \in Cell
                                  /\ L[i] = PlayerNow(p, UPDATE_UNCHANGED)
  BY ListType
<1>2. n \in Nat
  BY ListSize
<1>. HIDE DEF L, n
<1>3. ASSUME NEW i \in 1 .. n
      PROVE  LET p == <<t, i - 1>>
             IN  /\ L[i].told => SaysTrue(L[i]) /\ TeamOf(PlayerIn(L[i])) = t
                 /\ fd[p] # None => L[i].told /\ PlayerIn(L[i]) = p
  <2>. DEFINE p == <<t, i - 1>>
  <2>1. /\ p \in Player
        /\ fd[p] = None => L[i] = Ignored
        /\ fd[p] # None => /\ playerCell[p] \in Cell
                           /\ L[i] = PlayerNow(p, UPDATE_UNCHANGED)
    BY <1>1
  <2>0. TeamOf(p) = t
    BY DEF TeamOf
  <2>. HIDE DEF p
  <2>2. CASE fd[p] = None
    BY <2>1, <2>2, IgnoredIs DEF p
  <2>3. CASE fd[p] # None
    <3>1. jailed[p] \in BOOLEAN /\ UPDATE_UNCHANGED \in 0 .. 3
          /\ UPDATE_UNCHANGED # UPDATE_DROPPED
      BY <2>1 DEF TypeOK, UPDATE_UNCHANGED, UPDATE_DROPPED
    <3>2. LET w == PlayerWord(p, playerCell[p], jailed[p], UPDATE_UNCHANGED)
              d == DecompressPlayer(w)
          IN  /\ w \in Letter /\ w.told /\ PlayerIn(w) = p /\ CellIn(d) = playerCell[p]
              /\ d.state = (IF jailed[p] THEN 1 ELSE 0) /\ d.update = UPDATE_UNCHANGED
      BY <2>1, <2>3, <3>1, PlayerWordReads
    <3>3. L[i] = PlayerWord(p, playerCell[p], jailed[p], UPDATE_UNCHANGED)
      BY <2>1, <2>3 DEF PlayerNow
    <3>4. L[i].told /\ PlayerIn(L[i]) = p /\ SaysTrue(L[i])
      BY <2>3, <3>1, <3>2, <3>3 DEF SaysTrue
    <3>. QED
      BY <2>0, <3>4 DEF p
  <2>. QED
    BY <2>2, <2>3
<1>4. ASSUME NEW p \in Player, TeamOf(p) = t, fd[p] # None PROVE About(L, p)
  <2>1. p = <<t, p[2]>> /\ p[2] \in 0 .. n - 1
    BY <1>4 DEF Player, TeamOf, n
  <2>. DEFINE i == p[2] + 1
  <2>2. i \in 1 .. n /\ <<t, i - 1>> = p
    BY <1>2, <2>1
  <2>. HIDE DEF i
  <2>. QED
    BY <1>1, <1>3, <1>4, <2>2 DEF About
<1>. QED
  BY <1>1, <1>3, <1>4 DEF L

LEMMA ReadPlayersKeeps ==
  ASSUME Inv, RepInv, SyncInv, NEW t \in Team, NEW from, NEW to, ReadPlayers(t, from, to),
         \/ t = TEAM_RED /\ from = "red" /\ to = "blue"
         \/ t = TEAM_BLUE /\ from = "blue" /\ to = "objects"
  PROVE  RepInv' /\ SyncInv'
<1>. DEFINE L == ListOf(t)
            s == reply.players
            C == { p \in changed.players : TeamOf(p) # t }
<1>1. /\ UNCHANGED <<vars, rep, installed, wire, served, overtaken, stale>>
      /\ subscribed' = subscribed /\ phase = from /\ phase' = to /\ Placed(t)
      /\ reply' = [reply EXCEPT !.players = @ \o L]
      /\ changed' = [changed EXCEPT !.players = { p \in @ : TeamOf(p) # t }]
  BY DEF ReadPlayers, Reader
<1>2. RepOK /\ ReplyOK /\ Unheard /\ NotDrawn /\ OnlyFloor /\ WallsTrue /\ PlayersTrue
  BY DEF RepInv, SyncInv
<1>3. UNCHANGED <<fd, playerCell, jailed, obj, broken>> /\ Copy' = Copy
  BY <1>1 DEF vars, registry, places, Copy
<1>4. ~Held /\ ~Held' /\ Early /\ Early'
  BY <1>1 DEF Held, Early
<1>5. s \in Seq(PlayerLetter) /\ reply' = [reply EXCEPT !.players = s \o L]
      /\ changed' = [changed EXCEPT !.players = C] /\ changed.players \in SUBSET Player
  BY <1>1, <1>2 DEF ReplyOK, RepOK, Entries
<1>6. L \in Seq(PlayerLetter) /\ Len(L) \in Nat \ {0}
  BY <1>1, ListType, ListSize DEF Inv
<1>7. /\ \A i \in 1 .. Len(L) : L[i].told => SaysTrue(L[i]) /\ TeamOf(PlayerIn(L[i])) = t
      /\ \A p \in Player : TeamOf(p) = t /\ fd[p] # None => About(L, p)
  BY <1>1, ListReads DEF Inv
<1>. HIDE DEF L, s, C
<1>8. /\ s \o L \in Seq(PlayerLetter) /\ Len(s) \in Nat /\ Len(s \o L) = Len(s) + Len(L)
      /\ \A i \in 1 .. Len(s) : (s \o L)[i] = s[i]
      /\ \A i \in 1 .. Len(L) : (s \o L)[Len(s) + i] = L[i]
  BY <1>5, <1>6
<1>9. /\ reply'.players = s \o L /\ reply'.walls = reply.walls /\ reply'.objs = reply.objs
      /\ reply' \in [walls : SUBSET WallLetter, players : Seq(PlayerLetter), objs : Seq(Letter)]
      /\ changed'.players = C /\ changed'.walls = changed.walls
      /\ changed' \in Entries
  <2>1. changed' = [players |-> C, objects |-> changed.objects, walls |-> changed.walls]
    BY <1>2, <1>5 DEF RepOK, Entries
  <2>2. C \in SUBSET Player
    BY <1>5 DEF C
  <2>3. changed' \in Entries
    BY <1>2, <2>1, <2>2 DEF RepOK, Entries
  <2>. QED
    BY <1>2, <1>5, <1>8, <2>1, <2>3 DEF ReplyOK
<1>10. ReplyOK'
  <2>1. phase \in {"red", "blue"} /\ phase' \in {"blue", "objects"}
    BY <1>1
  <2>2. installed' = 0
    BY <1>1, <1>2, <2>1 DEF ReplyOK
  <2>3. Len(reply'.players) > 0
    BY <1>6, <1>8, <1>9
  <2>. QED
    BY <1>4, <1>9, <2>1, <2>2, <2>3 DEF ReplyOK
<1>11. Unheard'
  BY <1>1, <1>2, <1>4 DEF Unheard
<1>12. NotDrawn'
  BY <1>2, <1>3, <1>4 DEF NotDrawn
<1>13. Decoded' = Decoded
  BY <1>9 DEF Decoded
<1>14. WallsTrue' /\ ObjectsTrue' /\ Progress'
  BY <1>1, <1>2, <1>3, <1>4, <1>9, <1>13 DEF WallsTrue, ObjectsTrue, Progress
<1>15. PlayersTrue'
  <2>1. \A w : SaysTrue(w)' <=> SaysTrue(w)
    BY <1>3 DEF SaysTrue
  <2>2. /\ t = TEAM_RED => Len(s) = 0
        /\ t = TEAM_BLUE => \A i \in 1 .. Len(s) : s[i].told => TeamOf(PlayerIn(s[i])) = TEAM_RED
        /\ \A i \in 1 .. Len(s) : s[i].told /\ PlayerIn(s[i]) \notin changed.players
                                  => SaysTrue(s[i])
        /\ \A p \in Player : ReadOf(TeamOf(p)) /\ p \notin changed.players
                             /\ playerCell[p] # None => About(s, p)
    <3>1. TEAM_RED # TEAM_BLUE
      BY DEF TEAM_RED, TEAM_BLUE
    <3>. QED
      BY <1>1, <1>2, <3>1 DEF PlayersTrue, s
  <2>3. TEAM_RED # TEAM_BLUE
    BY DEF TEAM_RED, TEAM_BLUE
  <2>4. ASSUME NEW i \in 1 .. Len(s \o L), (s \o L)[i].told
        PROVE  /\ TeamOf(PlayerIn((s \o L)[i])) \in {t, TEAM_RED}
               /\ PlayerIn((s \o L)[i]) \notin C => SaysTrue((s \o L)[i])
    <3>1. CASE i <= Len(s)
      <4>1. i \in 1 .. Len(s) /\ (s \o L)[i] = s[i]
        BY <1>8, <3>1
      <4>2. t = TEAM_BLUE /\ TeamOf(PlayerIn(s[i])) = TEAM_RED
        BY <1>8, <2>2, <2>4, <4>1
      <4>3. PlayerIn(s[i]) \notin C => PlayerIn(s[i]) \notin changed.players
        BY <2>3, <4>2 DEF C
      <4>. QED
        BY <2>2, <2>4, <4>1, <4>2, <4>3
    <3>2. CASE ~(i <= Len(s))
      <4>1. i - Len(s) \in 1 .. Len(L) /\ Len(s) + (i - Len(s)) = i
        BY <1>6, <1>8, <3>2
      <4>2. (s \o L)[i] = L[i - Len(s)]
        BY <1>8, <4>1
      <4>. QED
        BY <1>7, <2>4, <4>1, <4>2
    <3>. QED
      BY <3>1, <3>2
  <2>5. ASSUME NEW p \in Player, ReadOf(TeamOf(p))', p \notin C, playerCell[p] # None
        PROVE  About(s \o L, p)
    <3>1. CASE TeamOf(p) = t
      <4>1. fd[p] # None
        BY <2>5 DEF Inv, OccupancyOK
      <4>. QED
        BY <1>5, <1>6, <1>7, <3>1, <4>1, AboutMore
    <3>2. CASE TeamOf(p) # t
      <4>1. TeamOf(p) = TEAM_RED \/ TeamOf(p) = TEAM_BLUE
        BY PlayerShape DEF Team
      <4>2. ReadOf(TeamOf(p))
        BY <1>1, <1>4, <2>3, <2>5, <3>2, <4>1 DEF ReadOf
      <4>3. p \notin changed.players
        BY <2>5, <3>2 DEF C
      <4>4. About(s, p)
        BY <2>2, <2>5, <4>2, <4>3
      <4>. QED
        BY <1>5, <1>6, <4>4, AboutMore
    <3>. QED
      BY <3>1, <3>2
  <2>6. phase' \in {"blue", "objects"} /\ (phase' = "blue" => t = TEAM_RED)
    BY <1>1
  <2>. QED
    BY <1>3, <1>9, <2>1, <2>4, <2>5, <2>6 DEF PlayersTrue
<1>. QED
  BY <1>1, <1>2, <1>3, <1>9, <1>10, <1>11, <1>12, <1>13, <1>14, <1>15, NothingInstalled
  DEF RepOK, OnlyFloor, Phase

LEMMA SyncWords ==
  ASSUME NEW o \in ObjType
  PROVE  LET ws == ObjectWords(Object, o)
         IN  /\ ws \in Seq(Letter) /\ AreObjectWords(ws)
             /\ \A i \in 1 .. 4 :
                  LET x == ObjectAt[i]
                  IN  x \in Object => /\ ws[i].told /\ HolderIn(ws[i]) = o.player[x]
                                      /\ CellIn(DecompressObject(ws[i])) = o.cell[x]
<1>. DEFINE ws == ObjectWords(Object, o)
<1>1. ASSUME NEW i \in 1 .. 4
      PROVE  LET w == ws[i]
                 x == ObjectAt[i]
             IN  /\ w \in Letter
                 /\ w.told <=> x \in Object
                 /\ w.told => /\ ObjectIn(w) = x /\ x \in Object
                              /\ CellIn(DecompressObject(w)) = o.cell[x]
                              /\ HolderIn(w) = o.player[x]
  <2>. DEFINE x == ObjectAt[i]
  <2>1. ws[i] = IF x \in Object THEN ObjectWord(x, o) ELSE Ignored
    BY DEF ObjectWords
  <2>. HIDE DEF ws, x
  <2>2. CASE x \in Object
    BY <2>1, <2>2, ObjectWordReads DEF x
  <2>3. CASE x \notin Object
    BY <2>1, <2>3, IgnoredIs DEF x
  <2>. QED
    BY <2>2, <2>3
<1>2. ws = [i \in 1 .. 4 |-> ws[i]]
  BY DEF ObjectWords
<1>. HIDE DEF ws
<1>3. ws \in [1 .. 4 -> Letter]
  BY <1>1, <1>2
<1>4. AreObjectWords(ws)
  <2>1. \A x \in Object : o.cell[x] \in Cell /\ o.player[x] \in Player \cup {None}
    BY DEF ObjType
  <2>. QED
    BY <1>1, <2>1 DEF AreObjectWords, IsObjectWord
<1>5. ws \in Seq(Letter)
  <2>1. \A n \in Nat : \A S : \A f \in [1 .. n -> S] : f \in Seq(S)
    OBVIOUS
  <2>2. 4 \in Nat
    OBVIOUS
  <2>. QED
    BY ONLY <1>3, <2>1, <2>2
<1>6. ASSUME NEW i \in 1 .. 4, ObjectAt[i] \in Object
      PROVE  /\ ws[i].told /\ HolderIn(ws[i]) = o.player[ObjectAt[i]]
             /\ CellIn(DecompressObject(ws[i])) = o.cell[ObjectAt[i]]
  BY <1>1, <1>6
<1>. QED
  BY <1>4, <1>5, <1>6 DEF ws

LEMMA ReadObjectsKeeps ==
  ASSUME Inv, RepInv, SyncInv, ReadObjects
  PROVE  RepInv' /\ SyncInv'
<1>. DEFINE ws == ObjectWords(Object, obj)
<1>1. /\ UNCHANGED <<vars, rep, installed, wire, served, overtaken, stale>>
      /\ subscribed' = subscribed /\ phase = "objects" /\ phase' = "sent"
      /\ reply' = [reply EXCEPT !.objs = ws]
      /\ changed' = [changed EXCEPT !.objects = {}]
  BY DEF ReadObjects, Reader
<1>2. RepOK /\ ReplyOK /\ Unheard /\ NotDrawn /\ OnlyFloor /\ WallsTrue /\ PlayersTrue
  BY DEF RepInv, SyncInv
<1>3. UNCHANGED <<fd, playerCell, jailed, obj, broken>> /\ Copy' = Copy
  BY <1>1 DEF vars, registry, places, Copy
<1>4. Held' /\ Early /\ ~Early' /\ \A t : ReadOf(t) /\ ReadOf(t)'
  BY <1>1 DEF Held, Early, ReadOf
<1>5. /\ ws \in Seq(Letter) /\ AreObjectWords(ws)
      /\ \A i \in 1 .. 4 :
           LET x == ObjectAt[i]
           IN  x \in Object => /\ ws[i].told /\ HolderIn(ws[i]) = obj.player[x]
                               /\ CellIn(DecompressObject(ws[i])) = obj.cell[x]
  BY SyncWords DEF Inv, TypeOK
<1>6. Len(ws) = 4
  BY DEF ObjectWords
<1>. HIDE DEF ws
<1>7. /\ reply'.objs = ws /\ reply'.players = reply.players /\ reply'.walls = reply.walls
      /\ reply' \in [walls : SUBSET WallLetter, players : Seq(PlayerLetter), objs : Seq(Letter)]
  BY <1>1, <1>2, <1>5 DEF ReplyOK
<1>8. /\ changed'.players = changed.players /\ changed'.walls = changed.walls
      /\ changed' \in Entries
  <2>1. changed' = [players |-> changed.players, objects |-> {}, walls |-> changed.walls]
    BY <1>1, <1>2 DEF RepOK, Entries
  <2>. QED
    BY <1>2, <2>1 DEF RepOK, Entries
<1>9. ReplyOK'
  <2>1. installed = 0 /\ Len(reply.players) > 0
    BY <1>1, <1>2 DEF ReplyOK
  <2>. QED
    BY <1>1, <1>5, <1>6, <1>7, <2>1 DEF ReplyOK
<1>10. Unheard'
  BY <1>1, <1>2, <1>4 DEF Unheard
<1>11. NotDrawn'
  BY <1>2, <1>3, <1>4 DEF NotDrawn
<1>12. Decoded' = Decoded
  BY <1>7 DEF Decoded
<1>13. WallsTrue'
  BY <1>1, <1>2, <1>3, <1>8, <1>12 DEF WallsTrue
<1>14. ObjectsTrue'
  BY <1>3, <1>5, <1>7 DEF ObjectsTrue
<1>15. PlayersTrue'
  <2>1. \A w : SaysTrue(w)' <=> SaysTrue(w)
    BY <1>3 DEF SaysTrue
  <2>. QED
    BY <1>1, <1>2, <1>3, <1>4, <1>7, <1>8, <2>1 DEF PlayersTrue
<1>16. Progress'
  <2>1. installed = 0 /\ installed' = 0
    BY <1>1, <1>2 DEF ReplyOK
  <2>2. Unsettled'.players = Player /\ Unsettled'.objects = Object /\ Unsettled'.walls = Cell
    BY <1>1, <2>1 DEF Unsettled
  <2>. QED
    BY <2>2 DEF Progress, Excused
<1>. QED
  BY <1>1, <1>2, <1>3, <1>8, <1>9, <1>10, <1>11, <1>12, <1>13, <1>14, <1>15, <1>16,
     NothingInstalled
  DEF RepOK, OnlyFloor, Phase

LEMMA AgainKeeps ==
  ASSUME Inv, RepInv, SyncInv, Again
  PROVE  RepInv' /\ SyncInv'
<1>1. /\ UNCHANGED <<vars, rep, installed, wire, served, overtaken, stale>>
      /\ UNCHANGED <<reply, subscribed, changed>>
      /\ phase = "live" /\ reply # NoReply /\ phase' = "sent"
  BY DEF Again, Reader
<1>2. /\ RepOK /\ ReplyOK /\ Unheard /\ NotDrawn /\ OnlyFloor /\ WallsTrue /\ PlayersTrue
      /\ ObjectsTrue
  BY DEF RepInv, SyncInv
<1>3. UNCHANGED <<fd, playerCell, jailed, obj, broken>> /\ Copy' = Copy
  BY <1>1 DEF vars, registry, places, Copy
<1>4. Held /\ Held' /\ ~Early' /\ (\A t : ReadOf(t)) /\ installed = 0
  BY <1>1, <1>2 DEF Held, Early, ReadOf, ReplyOK
<1>5. ReplyOK'
  BY <1>1, <1>2, <1>4 DEF ReplyOK
<1>6. Unheard'
  BY <1>1, <1>2, <1>4 DEF Unheard
<1>7. NotDrawn'
  BY <1>1, <1>2, <1>3, <1>4 DEF NotDrawn
<1>8. WallsTrue'
  BY <1>1, <1>2, <1>3, <1>4 DEF WallsTrue, Decoded
<1>9. ObjectsTrue'
  BY <1>1, <1>2, <1>3, <1>4 DEF ObjectsTrue
<1>10. PlayersTrue'
  <2>1. \A w : SaysTrue(w)' <=> SaysTrue(w)
    BY <1>3 DEF SaysTrue
  <2>. QED
    BY <1>1, <1>2, <1>3, <1>4, <2>1 DEF PlayersTrue
<1>11. Progress'
  <2>2. Unsettled'.players = Player /\ Unsettled'.objects = Object /\ Unsettled'.walls = Cell
    BY <1>1, <1>4 DEF Unsettled
  <2>. QED
    BY <2>2 DEF Progress, Excused
<1>. QED
  BY <1>1, <1>2, <1>3, <1>5, <1>6, <1>7, <1>8, <1>9, <1>10, <1>11, NothingInstalled
  DEF RepOK, OnlyFloor, Decoded, Phase

LEMMA GreetKeeps ==
  ASSUME Inv, RepInv, SyncInv, Greet
  PROVE  RepInv' /\ SyncInv'
<1>1. /\ UNCHANGED <<vars, rep, installed, wire, served, overtaken, stale>>
      /\ UNCHANGED <<phase, subscribed>>
      /\ phase = "live" /\ reply' = NoReply /\ changed' = NoEntry
  BY DEF Greet, Reader
<1>2. RepOK /\ ReplyOK /\ Unheard
  BY DEF RepInv, SyncInv
<1>3. ~Held' /\ ~Early' /\ (\A t : ~ReadOf(t)') /\ installed = 0
  BY <1>1, <1>2 DEF Held, Early, ReadOf, ReplyOK
<1>4. reply'.walls = {} /\ reply'.players = <<>>
  BY <1>1 DEF NoReply
<1>5. ReplyOK'
  <2>1. <<>> \in Seq(PlayerLetter) /\ <<>> \in Seq(Letter)
    OBVIOUS
  <2>. QED
    BY <1>1, <1>3, <2>1 DEF ReplyOK, NoReply
<1>6. Unheard' /\ NotDrawn'
  BY <1>1, <1>2, <1>3 DEF Unheard, NotDrawn
<1>7. WallsTrue' /\ ObjectsTrue' /\ PlayersTrue' /\ Progress'
  BY <1>1, <1>3, <1>4 DEF WallsTrue, ObjectsTrue, PlayersTrue, Progress
<1>8. NoEntry \in Entries
  BY EntryRecord DEF NoEntry
<1>9. Decoded' \subseteq broken
  BY <1>4 DEF Decoded
<1>. QED
  BY <1>1, <1>2, <1>5, <1>6, <1>7, <1>8, <1>9, NothingInstalled DEF RepOK

LEMMA CrashKeeps ==
  ASSUME Inv, RepInv, SyncInv, NEW t, NEW from, SyncCrash(t, from)
  PROVE  Inv' /\ RepInv' /\ SyncInv'
<1>1. /\ UNCHANGED <<rep, channel, changed, stale>> /\ up' = FALSE
      /\ UNCHANGED <<registry, places, obj, homes, broken, testMode, announced>>
  BY DEF SyncCrash
<1>2. /\ UNCHANGED <<rep, phase, reply, installed, subscribed, wire, served, overtaken,
                     changed, stale>>
      /\ UNCHANGED <<fd, playerCell, jailed, obj, broken>>
  BY <1>1 DEF channel, registry, places
<1>3. Inv'
  BY <1>1 DEF Inv, TypeOK, OccupancyOK, TypeOf, registry, places, homes
<1>4. RepInv'
  BY <1>2 DEF RepInv, RepOK, ReplyOK, Held, Ghostless
<1>5. ServerStill /\ Copy' = Copy /\ ToBeTold' = ToBeTold /\ Decoded' = Decoded
  BY <1>2, ToBeToldIs DEF ServerStill, Copy, Decoded
<1>6. /\ Knows /\ OnlyFloor /\ Unheard /\ NotDrawn /\ WallsTrue /\ PlayersTrue /\ ObjectsTrue
      /\ Progress
  BY DEF SyncInv
<1>7. ToldRight' /\ Knows' /\ OnlyFloor'
  <2>. HIDE DEF Copy, ToBeTold, Decoded
  <2>. QED
    BY <1>2, <1>5, <1>6, StillTold DEF OnlyFloor
<1>8. Unheard' /\ NotDrawn' /\ WallsTrue' /\ ObjectsTrue'
  <2>1. Held' = Held /\ Early' = Early
    BY <1>2 DEF Held, Early
  <2>2. Unheard'
    BY <1>2, <1>6, <2>1 DEF Unheard
  <2>3. NotDrawn'
    BY <1>2, <1>5, <1>6, <2>1 DEF NotDrawn
  <2>4. WallsTrue'
    BY <1>2, <1>5, <1>6, <2>1 DEF WallsTrue
  <2>5. ObjectsTrue'
    BY <1>2, <1>6, <2>1 DEF ObjectsTrue
  <2>. QED
    BY <2>2, <2>3, <2>4, <2>5
<1>9. PlayersTrue'
  BY <1>2, <1>6 DEF PlayersTrue, SaysTrue, ReadOf, Held
<1>10. Progress'
  <2>1. Unsettled' = Unsettled
    BY <1>2 DEF Unsettled
  <2>. SUFFICES ASSUME phase \in {"sent", "players"} PROVE Excused(Copy, Unsettled)'
    BY <1>2 DEF Progress
  <2>2. Excused(Copy, Unsettled)
    BY <1>6 DEF Progress
  <2>. QED
    BY <1>5, <2>1, <2>2, ExcusedStill
<1>. QED
  BY <1>3, <1>4, <1>7, <1>8, <1>9, <1>10 DEF SyncInv

(* The event thread of the client.                                         *)
LEMMA DeliverKeeps ==
  ASSUME Inv, RepInv, SyncInv, Deliver
  PROVE  RepInv' /\ SyncInv'
<1>1. /\ wire # <<>> /\ rep' = ApplyEvent(rep, Head(wire)) /\ wire' = Tail(wire)
      /\ UNCHANGED <<vars, phase, reply, installed, subscribed, served, overtaken, changed, stale>>
  BY DEF Deliver
<1>2. RepOK /\ ReplyOK /\ wire \in Seq(Event) /\ Ghostless(rep) /\ rep \in RepType
  BY DEF RepInv, RepOK
<1>3. Head(wire) \in Event /\ Tail(wire) \in Seq(Event)
  BY <1>1, <1>2
<1>4. rep' \in RepType /\ Ghostless(rep')
  BY <1>1, <1>2, <1>3, ApplyEventIs DEF Event
<1>5. Copy' = Copy
  BY <1>1, <1>2, ToldHead DEF Copy
<1>6. /\ ToBeTold'.players \subseteq ToBeTold.players
      /\ ToBeTold'.objects \subseteq ToBeTold.objects
      /\ ToBeTold'.walls \subseteq ToBeTold.walls
  BY <1>1, <1>2, ToBeToldIs, SaidTail
<1>7. UNCHANGED <<fd, playerCell, jailed, obj, broken>> /\ ServerStill /\ Decoded' = Decoded
  BY <1>1 DEF vars, registry, places, ServerStill, Decoded
<1>8. RepInv'
  BY <1>1, <1>2, <1>3, <1>4 DEF RepInv, RepOK, ReplyOK, Held
<1>9. /\ Knows /\ OnlyFloor /\ Unheard /\ NotDrawn /\ WallsTrue /\ PlayersTrue /\ ObjectsTrue
      /\ Progress
  BY DEF SyncInv
<1>. HIDE DEF Copy, ToBeTold, Decoded
<1>10. ToldRight' /\ Knows' /\ OnlyFloor'
  BY <1>1, <1>5, <1>6, <1>7, <1>9, StillTold DEF OnlyFloor
<1>11. Unheard' /\ NotDrawn' /\ WallsTrue' /\ ObjectsTrue'
  <2>1. Held' = Held /\ Early' = Early
    BY <1>1 DEF Held, Early
  <2>2. subscribed
    BY <1>1, <1>2, <1>9 DEF Unheard, RepOK
  <2>3. Unheard'
    BY <1>1, <1>9, <2>1, <2>2 DEF Unheard
  <2>4. NotDrawn'
    BY <1>1, <1>5, <1>7, <1>9, <2>1 DEF NotDrawn
  <2>5. WallsTrue'
    BY <1>1, <1>7, <1>9, <2>1 DEF WallsTrue
  <2>6. ObjectsTrue'
    BY <1>1, <1>7, <1>9, <2>1 DEF ObjectsTrue
  <2>. QED
    BY <2>3, <2>4, <2>5, <2>6
<1>12. PlayersTrue'
  BY <1>1, <1>7, <1>9 DEF PlayersTrue, SaysTrue, ReadOf, Held
<1>13. Progress'
  <2>1. Unsettled' = Unsettled
    BY <1>1 DEF Unsettled
  <2>. SUFFICES ASSUME phase \in {"sent", "players"} PROVE Excused(Copy, Unsettled)'
    BY <1>1 DEF Progress
  <2>2. Excused(Copy, Unsettled)
    BY <1>9 DEF Progress
  <2>. QED
    BY <1>5, <1>7, <2>1, <2>2, ExcusedStill
<1>. QED
  BY <1>8, <1>10, <1>11, <1>12, <1>13 DEF SyncInv

-----------------------------------------------------------------------------
(* What an installed word does to the copy: nothing where the client had   *)
(* drawn that already or where an event on its way will draw again.        *)
LEMMA CopyAgrees ==
  ASSUME RepInv, rep' \in RepType, wire' = wire
  PROVE  /\ \A p \in Player : SamePlayer(rep, rep', p) \/ p \in ToBeTold.players
                              => SamePlayer(Copy, Copy', p)
         /\ \A x \in Object : SameObject(rep, rep', x) \/ x \in ToBeTold.objects
                              => SameObject(Copy, Copy', x)
         /\ \A c \in Cell : SameWall(rep, rep', c) \/ c \in ToBeTold.walls
                            => SameWall(Copy, Copy', c)
         /\ \A p \in Player : p \in ToBeTold.players \/ SamePlayer(Copy', rep', p)
         /\ \A x \in Object : x \in ToBeTold.objects \/ SameObject(Copy', rep', x)
         /\ \A c \in Cell : IF c \in ToBeTold.walls THEN c \in Copy'.floor
                            ELSE SameWall(Copy', rep', c)
         /\ ToBeTold' = ToBeTold
<1>. DEFINE r == rep
            s == rep'
            es == wire
<1>1. r \in RepType /\ s \in RepType /\ es \in Seq(Event)
  BY DEF RepInv, RepOK
<1>2. Copy = Told(r, es) /\ Copy' = Told(s, es) /\ ToBeTold = Said(es)
  BY ToBeToldIs DEF Copy
<1>3. ToBeTold' = ToBeTold
  BY ToBeToldIs
<1>. HIDE DEF r, s, es
<1>4. LET u == Told(r, es)
          v == Told(s, es)
      IN  /\ \A p \in Player : SamePlayer(r, s, p) \/ p \in Said(es).players
                               => SamePlayer(u, v, p)
          /\ \A x \in Object : SameObject(r, s, x) \/ x \in Said(es).objects
                               => SameObject(u, v, x)
          /\ \A c \in Cell : SameWall(r, s, c) \/ c \in Said(es).walls => SameWall(u, v, c)
  BY <1>1, ToldAgrees
<1>5. LET u == Told(s, es)
      IN  /\ \A p \in Player : p \in Said(es).players \/ SamePlayer(u, s, p)
          /\ \A x \in Object : x \in Said(es).objects \/ SameObject(u, s, x)
          /\ \A c \in Cell : IF c \in Said(es).walls THEN c \in u.floor ELSE SameWall(u, s, c)
  BY <1>1, ToldElsewhere
<1>. QED
  BY <1>2, <1>3, <1>4, <1>5 DEF r, s

(* What was right and is drawn as before is still right.                   *)
LEMMA SameIsRight ==
  ASSUME ServerStill
  PROVE  /\ \A p \in Player : SamePlayer(Copy, Copy', p) /\ RightOnPlayer(Copy, p)
                              => PlayerAsAfter(Copy', p)
         /\ \A x \in Object : SameObject(Copy, Copy', x) /\ RightOnObject(Copy, x)
                              => ObjectAsAfter(Copy', x)
         /\ \A c \in Cell : SameWall(Copy, Copy', c) /\ RightOnWall(Copy, c)
                            => WallAsAfter(Copy', c)
<1>. DEFINE r == Copy
            v == Copy'
<1>. HIDE DEF r, v
<1>1. /\ \A p \in Player : SamePlayer(r, v, p) /\ RightOnPlayer(r, p) => PlayerAsAfter(v, p)
      /\ \A x \in Object : SameObject(r, v, x) /\ RightOnObject(r, x) => ObjectAsAfter(v, x)
      /\ \A c \in Cell : SameWall(r, v, c) /\ RightOnWall(r, c) => WallAsAfter(v, c)
  BY DEF ServerStill, SamePlayer, SameObject, SameWall, RightOnPlayer, RightOnObject,
         RightOnWall, PlayerAsAfter, ObjectAsAfter, WallAsAfter
<1>. QED
  BY <1>1 DEF r, v

LEMMA InstalledTold ==
  ASSUME RepInv, SyncInv, ServerStill, rep' \in RepType, wire' = wire
  PROVE  /\ ToldRight'
         /\ \A p \in ToBeTold.players : p \in Player => PlayerAsAfter(Copy', p)
         /\ \A x \in ToBeTold.objects : x \in Object => ObjectAsAfter(Copy', x)
         /\ \A c \in ToBeTold.walls : c \in Cell => WallAsAfter(Copy', c)
<1>1. Excused(Copy, Untold)
  BY DEF SyncInv, ToldRight
<1>2. /\ Untold.players = Player \ ToBeTold.players
      /\ Untold.objects = Object \ ToBeTold.objects
      /\ Untold.walls = Cell \ ToBeTold.walls
      /\ Untold' = Untold
  BY CopyAgrees DEF Untold
<1>. DEFINE t == Untold
            told == ToBeTold
<1>. HIDE DEF t, told
<1>3. /\ \A p \in told.players : p \in Player => PlayerAsAfter(Copy', p)
      /\ \A x \in told.objects : x \in Object => ObjectAsAfter(Copy', x)
      /\ \A c \in told.walls : c \in Cell => WallAsAfter(Copy', c)
  <2>1. /\ \A p \in told.players : p \in Player => RightOnPlayer(Copy, p)
        /\ \A x \in told.objects : x \in Object => RightOnObject(Copy, x)
        /\ \A c \in told.walls : c \in Cell => RightOnWall(Copy, c)
    BY <1>1, <1>2 DEF Excused, told
  <2>2. /\ \A p \in told.players : p \in Player => SamePlayer(Copy, Copy', p)
        /\ \A x \in told.objects : x \in Object => SameObject(Copy, Copy', x)
        /\ \A c \in told.walls : c \in Cell => SameWall(Copy, Copy', c)
    BY CopyAgrees DEF told
  <2>. QED
    BY <2>1, <2>2, SameIsRight
<1>4. ExcusedAfter(Copy', t)
  BY <1>2, <1>3 DEF ExcusedAfter, t, told
<1>5. ExcusedAfter(Copy', Untold')
  BY <1>2, <1>4 DEF t
<1>6. ToldRight'
  BY <1>5, AfterIsNext DEF ToldRight
<1>. QED
  BY <1>3, <1>6 DEF told

(* The word of an object.                                                  *)
LEMMA ObjectInstalled ==
  ASSUME RepInv, InstallObject
  PROVE  LET k == installed + 1
             w == reply.objs[k]
         IN  /\ k \in 1 .. 4 /\ installed \in Nat /\ phase = "sent" /\ installed' = k
             /\ UNCHANGED <<vars, phase, reply, subscribed, wire, served, overtaken, changed,
                            stale>>
             /\ AreObjectWords(reply.objs) /\ IsObjectWord(w)
             /\ rep' = ApplyObject(rep, w, TRUE)
             /\ ObjectApplied(rep, rep', w)
             /\ w.told => ObjectIn(w) = ObjectAt[k]
<1>. DEFINE k == installed + 1
            w == reply.objs[k]
<1>1. rep \in RepType /\ ReplyOK
  BY DEF RepInv, RepOK
<1>2. /\ phase = "sent" /\ installed' = k /\ rep' = ApplyObject(rep, w, TRUE)
      /\ installed < Len(reply.objs)
      /\ UNCHANGED <<vars, phase, reply, subscribed, wire, served, overtaken, changed, stale>>
  BY DEF InstallObject
<1>3. AreObjectWords(reply.objs) /\ Len(reply.objs) = 4 /\ installed \in 0 .. 4
  BY <1>1, <1>2 DEF ReplyOK, Held
<1>0. installed \in Nat
  BY <1>3
<1>4. k \in 1 .. 4
  BY <1>2, <1>3
<1>. HIDE DEF k
<1>5. IsObjectWord(w) /\ (w.told => ObjectIn(w) = ObjectAt[k])
  BY <1>3, <1>4 DEF AreObjectWords
<1>6. ObjectApplied(rep, rep', w)
  BY <1>1, <1>2, <1>5, ApplyObjectIs
<1>. QED
  BY <1>0, <1>2, <1>3, <1>4, <1>5, <1>6 DEF k

LEMMA ObjectSettled ==
  ASSUME RepInv, SyncInv, InstallObject
  PROVE  \A x \in Object : \/ ObjectAsAfter(Copy', x)
                           \/ x \in changed.objects
                           \/ \A i \in 1 .. installed + 1 : ObjectAt[i] # x
<1>. DEFINE k == installed + 1
            w == reply.objs[k]
            y == ObjectAt[k]
<1>1. /\ k \in 1 .. 4 /\ installed \in Nat /\ phase = "sent" /\ wire' = wire /\ vars' = vars
      /\ AreObjectWords(reply.objs) /\ IsObjectWord(w) /\ ObjectApplied(rep, rep', w)
      /\ w.told => ObjectIn(w) = y
  BY ObjectInstalled
<1>2. ServerStill /\ obj' = obj
  BY <1>1 DEF ServerStill, vars, registry, places
<1>3. rep \in RepType /\ rep' \in RepType
  BY <1>1 DEF RepInv, RepOK, ObjectApplied
<1>4. Held
  BY <1>1 DEF Held
<1>. HIDE DEF k, w, y
<1>. SUFFICES ASSUME NEW x \in Object, x \notin changed.objects, NEW i \in 1 .. k,
                     ObjectAt[i] = x
              PROVE  ObjectAsAfter(Copy', x)
  BY DEF k
<1>5. CASE x \in ToBeTold.objects
  BY <1>1, <1>2, <1>3, <1>5, InstalledTold
<1>6. CASE x \notin ToBeTold.objects /\ x = y
  <2>1. /\ w.told /\ CellIn(DecompressObject(w)) = obj.cell[x] /\ HolderIn(w) = obj.player[x]
    BY <1>1, <1>4, <1>6 DEF SyncInv, ObjectsTrue, w, y
  <2>2. rep'.at[x] = obj.cell[x] /\ rep'.holder[x] = obj.player[x]
    BY <1>1, <1>3, <1>6, <2>1 DEF ObjectApplied, RepType
  <2>3. SameObject(Copy', rep', x)
    BY <1>1, <1>3, <1>6, CopyAgrees
  <2>. QED
    BY <1>2, <2>2, <2>3 DEF SameObject, ObjectAsAfter
<1>7. CASE x # y
  <2>1. i \in 1 .. installed
    BY <1>1, <1>7 DEF y, k
  <2>2. RightOnObject(Copy, x)
    <3>1. x \notin Unsettled.objects
      BY <1>1, <2>1 DEF Unsettled
    <3>2. Excused(Copy, Unsettled)
      BY <1>1 DEF SyncInv, Progress
    <3>. QED
      BY <3>1, <3>2 DEF Excused
  <2>3. SameObject(rep, rep', x)
    BY <1>1, <1>3, <1>7 DEF ObjectApplied, SameObject, RepType
  <2>4. SameObject(Copy, Copy', x)
    BY <1>1, <1>3, <2>3, CopyAgrees
  <2>. QED
    BY <1>2, <2>2, <2>4, SameIsRight
<1>. QED
  BY <1>5, <1>6, <1>7

(* What a step of the installation leaves alone.                           *)
LEMMA ReplyStands ==
  ASSUME PlayersTrue, WallsTrue, ObjectsTrue,
         UNCHANGED <<fd, playerCell, jailed, obj, broken, reply, changed>>,
         Held, Held', phase \notin {"away", "walls", "red", "blue"},
         phase' \notin {"away", "walls", "red", "blue"}
  PROVE  PlayersTrue' /\ WallsTrue' /\ ObjectsTrue' /\ Decoded' = Decoded
<1>1. Decoded' = Decoded
  BY DEF Decoded
<1>2. WallsTrue'
  BY <1>1 DEF WallsTrue
<1>3. ObjectsTrue'
  BY DEF ObjectsTrue
<1>4. \A w : SaysTrue(w)' <=> SaysTrue(w)
  BY DEF SaysTrue
<1>5. \A t : ReadOf(t) /\ ReadOf(t)'
  BY DEF ReadOf
<1>6. PlayersTrue'
  BY <1>4, <1>5 DEF PlayersTrue
<1>. QED
  BY <1>1, <1>2, <1>3, <1>6

LEMMA InstallObjectKeeps ==
  ASSUME RepInv, SyncInv, InstallObject
  PROVE  RepInv' /\ SyncInv'
<1>1. LET k == installed + 1
          w == reply.objs[k]
      IN  /\ k \in 1 .. 4 /\ phase = "sent" /\ installed' = k
          /\ UNCHANGED <<vars, phase, reply, subscribed, wire, served, overtaken, changed, stale>>
          /\ ObjectApplied(rep, rep', w)
  BY ObjectInstalled
<1>2. ServerStill /\ UNCHANGED <<fd, playerCell, jailed, obj, broken>>
  BY <1>1 DEF ServerStill, vars, registry, places
<1>3. /\ rep \in RepType /\ rep' \in RepType /\ rep'.pos = rep.pos /\ rep'.who = rep.who
      /\ rep'.jailed = rep.jailed /\ rep'.floor = rep.floor /\ ReplyOK /\ RepOK
  BY <1>1 DEF RepInv, RepOK, ObjectApplied
<1>4. Held /\ Held' /\ ~Early'
  BY <1>1 DEF Held, Early
<1>5. RepInv'
  <2>1. ReplyOK'
    BY <1>1, <1>3, <1>4 DEF ReplyOK
  <2>2. Ghostless(rep)'
    BY <1>3 DEF RepInv, Ghostless
  <2>. QED
    BY <1>1, <1>3, <2>1, <2>2 DEF RepInv, RepOK
<1>6. ToldRight'
  BY <1>1, <1>2, <1>3, InstalledTold
<1>7. /\ \A p \in Player : SamePlayer(Copy, Copy', p)
      /\ \A c \in Cell : SameWall(Copy, Copy', c)
  BY <1>1, <1>3, CopyAgrees DEF SamePlayer, SameWall
<1>8. /\ Unheard /\ NotDrawn /\ OnlyFloor /\ WallsTrue /\ PlayersTrue /\ ObjectsTrue
  BY DEF SyncInv
<1>9. PlayersTrue' /\ WallsTrue' /\ ObjectsTrue' /\ Decoded' = Decoded
  BY <1>1, <1>2, <1>4, <1>8, ReplyStands
<1>10. Unheard'
  BY <1>1, <1>4, <1>8 DEF Unheard
<1>11. NotDrawn'
  BY <1>1, <1>2, <1>4, <1>7, <1>8 DEF NotDrawn, SamePlayer
<1>12. Copy.floor \subseteq Cell /\ Copy'.floor \subseteq Cell
  <2>1. Copy \in RepType /\ Copy' \in RepType
    BY <1>1, <1>3, <1>5, ToldType DEF Copy, RepInv
  <2>. QED
    BY <2>1 DEF RepType
<1>13. OnlyFloor'
  BY <1>2, <1>7, <1>8, <1>9, <1>12 DEF OnlyFloor, SameWall
<1>14. Knows'
  BY <1>1 DEF Knows
<1>15. Progress'
  <2>1. /\ Unsettled'.players = Player /\ Unsettled'.walls = Cell
        /\ Unsettled'.objects = { x \in Object : \/ x \in changed.objects
                                     \/ \A i \in 1 .. installed + 1 : ObjectAt[i] # x }
    BY <1>1 DEF Unsettled
  <2>2. ExcusedAfter(Copy', Unsettled')
    BY <2>1, ObjectSettled DEF ExcusedAfter
  <2>. QED
    BY <2>2, AfterIsNext DEF Progress
<1>. QED
  BY <1>5, <1>6, <1>9, <1>10, <1>11, <1>13, <1>14, <1>15 DEF SyncInv

LEMMA Installed ==
  ASSUME NEW r \in RepType, NEW S \in SUBSET Cell
  PROVE  LET v == [r EXCEPT !.floor = @ \cup S]
         IN  /\ v \in RepType /\ v.floor = r.floor \cup S
             /\ v.pos = r.pos /\ v.who = r.who /\ v.jailed = r.jailed
             /\ v.at = r.at /\ v.holder = r.holder
             /\ v.flag = r.flag /\ v.shovel = r.shovel
<1>. DEFINE T == r.floor \cup S
<1>1. [r EXCEPT !.floor = @ \cup S] = [r EXCEPT !.floor = T]
  BY DEF RepType
<1>2. T \in SUBSET Cell
  BY DEF RepType
<1>. HIDE DEF T
<1>3. [r EXCEPT !.floor = T] \in RepType
  BY <1>2 DEF RepType
<1>4. LET v == [r EXCEPT !.floor = T]
      IN  /\ v.floor = T
          /\ v.pos = r.pos /\ v.who = r.who /\ v.jailed = r.jailed
          /\ v.at = r.at /\ v.holder = r.holder
          /\ v.flag = r.flag /\ v.shovel = r.shovel
  BY DEF RepType
<1>. QED
  BY <1>1, <1>3, <1>4 DEF T

LEMMA WallsInstalled ==
  ASSUME RepInv, InstallWalls
  PROVE  /\ rep' \in RepType /\ rep'.floor = rep.floor \cup Decoded
         /\ rep'.pos = rep.pos /\ rep'.who = rep.who /\ rep'.jailed = rep.jailed
         /\ rep'.at = rep.at /\ rep'.holder = rep.holder
         /\ rep'.flag = rep.flag /\ rep'.shovel = rep.shovel
<1>1. rep \in RepType /\ reply.walls \in SUBSET WallLetter
  BY DEF RepInv, RepOK, ReplyOK
<1>. DEFINE S == Decoded
<1>2. S \in SUBSET Cell
  BY <1>1 DEF Decoded, WallLetter
<1>3. rep' = [rep EXCEPT !.floor = @ \cup S]
  BY DEF InstallWalls, Decoded
<1>. HIDE DEF S
<1>. QED
  BY <1>1, <1>2, <1>3, Installed DEF S

LEMMA InstallWallsKeeps ==
  ASSUME RepInv, SyncInv, InstallWalls
  PROVE  RepInv' /\ SyncInv'
<1>1. /\ phase = "sent" /\ phase' = "players" /\ installed' = 0 /\ installed = Len(reply.objs)
      /\ UNCHANGED <<vars, reply, subscribed, wire, served, overtaken, changed, stale>>
  BY DEF InstallWalls
<1>2. ServerStill /\ UNCHANGED <<fd, playerCell, jailed, obj, broken>>
  BY <1>1 DEF ServerStill, vars, registry, places
<1>3. /\ rep' \in RepType /\ rep'.floor = rep.floor \cup Decoded
      /\ rep'.pos = rep.pos /\ rep'.who = rep.who /\ rep'.jailed = rep.jailed
      /\ rep'.at = rep.at /\ rep'.holder = rep.holder
  BY WallsInstalled
<1>4. Held /\ Held' /\ ~Early'
  BY <1>1 DEF Held, Early
<1>5. rep \in RepType /\ ReplyOK /\ RepOK
  BY DEF RepInv, RepOK
<1>6. Len(reply.players) > 0 /\ installed = 4 /\ reply.players \in Seq(PlayerLetter)
  BY <1>1, <1>4, <1>5 DEF ReplyOK
<1>7. RepInv'
  <2>1. 0 \in 0 .. Len(reply.players) - 1
    <3>1. Len(reply.players) \in Nat
      BY <1>6
    <3>. QED
      BY <1>6, <3>1
  <2>2. ReplyOK'
    BY <1>1, <1>4, <1>5, <2>1 DEF ReplyOK
  <2>3. Ghostless(rep)'
    BY <1>3 DEF RepInv, Ghostless
  <2>. QED
    BY <1>1, <1>3, <1>5, <2>2, <2>3 DEF RepInv, RepOK, Phase
<1>8. ToldRight'
  BY <1>1, <1>2, <1>3, InstalledTold
<1>9. /\ \A p \in Player : SamePlayer(Copy, Copy', p)
      /\ \A x \in Object : SameObject(Copy, Copy', x)
  BY <1>1, <1>3, CopyAgrees DEF SamePlayer, SameObject
<1>10. Unheard /\ NotDrawn /\ OnlyFloor /\ WallsTrue /\ PlayersTrue /\ ObjectsTrue
  BY DEF SyncInv
<1>11. PlayersTrue' /\ WallsTrue' /\ ObjectsTrue' /\ Decoded' = Decoded
  BY <1>1, <1>2, <1>4, <1>10, ReplyStands
<1>12. Unheard'
  BY <1>1, <1>3, <1>4, <1>10 DEF Unheard
<1>13. NotDrawn'
  BY <1>1, <1>2, <1>4, <1>9, <1>10 DEF NotDrawn, SamePlayer
<1>14. /\ Copy.floor \subseteq broken /\ Decoded \subseteq broken
       /\ broken \ changed.walls \subseteq Decoded
  BY <1>4, <1>10 DEF OnlyFloor, WallsTrue
<1>15. \A c \in Cell : c \in Copy'.floor <=> c \in Copy.floor \/ c \in Decoded
  <2>. SUFFICES ASSUME NEW c \in Cell
                PROVE  c \in Copy'.floor <=> c \in Copy.floor \/ c \in Decoded
    OBVIOUS
  <2>1. CASE c \in Decoded
    <3>1. c \in rep'.floor
      BY <1>3, <2>1
    <3>2. IF c \in ToBeTold.walls THEN c \in Copy'.floor ELSE SameWall(Copy', rep', c)
      BY <1>1, <1>3, CopyAgrees
    <3>. QED
      BY <2>1, <3>1, <3>2 DEF SameWall
  <2>2. CASE c \notin Decoded
    <3>1. SameWall(rep, rep', c)
      BY <1>3, <2>2 DEF SameWall
    <3>2. SameWall(Copy, Copy', c)
      BY <1>1, <1>3, <3>1, CopyAgrees
    <3>. QED
      BY <2>2, <3>2 DEF SameWall
  <2>. QED
    BY <2>1, <2>2
<1>16. OnlyFloor'
  <2>1. Copy' \in RepType
    BY <1>3, <1>7, ToldType DEF Copy, RepInv
  <2>2. Copy'.floor \subseteq Cell
    BY <2>1 DEF RepType
  <2>. QED
    BY <1>2, <1>11, <1>14, <1>15, <2>2 DEF OnlyFloor
<1>17. Knows'
  BY <1>1 DEF Knows
<1>18. Progress'
  <2>1. /\ Unsettled'.objects = changed.objects /\ Unsettled'.walls = changed.walls
        /\ Unsettled'.players = Player
    BY <1>1 DEF Unsettled
  <2>2. ASSUME NEW x \in Object, x \notin changed.objects PROVE ObjectAsAfter(Copy', x)
    <3>1. x \notin Unsettled.objects
      BY <1>1, <1>6, <2>2, ObjectAtIs DEF Unsettled
    <3>2. Excused(Copy, Unsettled)
      BY <1>1 DEF SyncInv, Progress
    <3>3. RightOnObject(Copy, x)
      BY <3>1, <3>2 DEF Excused
    <3>. QED
      BY <1>2, <1>9, <3>3, SameIsRight
  <2>3. ASSUME NEW c \in Cell, c \notin changed.walls PROVE WallAsAfter(Copy', c)
    BY <1>2, <1>14, <1>15, <2>3 DEF WallAsAfter
  <2>4. ExcusedAfter(Copy', Unsettled')
    BY <2>1, <2>2, <2>3 DEF ExcusedAfter
  <2>. QED
    BY <2>4, AfterIsNext DEF Progress
<1>. QED
  BY <1>7, <1>8, <1>11, <1>12, <1>13, <1>16, <1>17, <1>18 DEF SyncInv

(* The word of a player.                                                   *)
LEMMA PlayerInstalled ==
  ASSUME RepInv, InstallPlayer
  PROVE  LET k == installed + 1
             n == Len(reply.players)
             w == reply.players[k]
         IN  /\ n \in Nat /\ k \in 1 .. n /\ installed \in Nat /\ phase = "players"
             /\ UNCHANGED <<vars, reply, subscribed, wire, served, changed>>
             /\ w \in PlayerLetter /\ PlayerApplied(rep, rep', w)
             /\ k < n => installed' = k /\ UNCHANGED <<phase, overtaken, stale>>
             /\ k = n => /\ phase' = "live" /\ installed' = 0
                         /\ overtaken' = (overtaken \/ served > 0)
                         /\ stale' = Without(changed, ToBeTold)
<1>. DEFINE k == installed + 1
            n == Len(reply.players)
            w == reply.players[k]
<1>1. rep \in RepType /\ ReplyOK
  BY DEF RepInv, RepOK
<1>2. /\ phase = "players" /\ rep' = ApplyPlayer(rep, w)
      /\ UNCHANGED <<vars, reply, subscribed, wire, served, changed>>
      /\ IF k < n THEN installed' = k /\ UNCHANGED <<phase, overtaken, stale>>
         ELSE /\ phase' = "live" /\ installed' = 0
              /\ overtaken' = (overtaken \/ served > 0)
              /\ stale' = Without(changed, ToBeTold)
  BY DEF InstallPlayer
<1>3. reply.players \in Seq(PlayerLetter) /\ installed \in 0 .. n - 1
  BY <1>1, <1>2 DEF ReplyOK
<1>4. n \in Nat
  BY <1>3
<1>5. k \in 1 .. n /\ installed \in Nat
  BY <1>3, <1>4
<1>. HIDE DEF n, k
<1>6. w \in PlayerLetter
  <2>1. \A s \in Seq(PlayerLetter) : \A i \in 1 .. Len(s) : s[i] \in PlayerLetter
    OBVIOUS
  <2>. QED
    BY <1>3, <1>5, <2>1 DEF n
<1>7. PlayerApplied(rep, rep', w)
  BY <1>1, <1>2, <1>6, ApplyPlayerIs DEF PlayerLetter
<1>. QED
  BY <1>2, <1>4, <1>5, <1>6, <1>7 DEF k, n

(* Whoever has a word among those installed is where the server has him,   *)
(* unless that was changed since; and so are the objects and the walls.    *)
LEMMA PlayerSettled ==
  ASSUME RepInv, SyncInv, InstallPlayer
  PROVE  /\ \A q \in Player : \/ PlayerAsAfter(Copy', q)
                              \/ q \in changed.players
                              \/ \A i \in 1 .. installed + 1 :
                                   ~(reply.players[i].told /\ PlayerIn(reply.players[i]) = q)
         /\ \A x \in Object : ObjectAsAfter(Copy', x) \/ x \in changed.objects
         /\ \A c \in Cell : WallAsAfter(Copy', c) \/ c \in changed.walls
         /\ \A c \in Cell : SameWall(Copy, Copy', c)
         /\ \A q \in Player : fd[q] = None /\ q \notin changed.players
                              => Copy'.pos[q] = Nowhere
<1>. DEFINE k == installed + 1
            s == reply.players
            w == s[k]
            p == PlayerIn(w)
<1>1. /\ Len(s) \in Nat /\ k \in 1 .. Len(s) /\ installed \in Nat /\ phase = "players"
      /\ UNCHANGED <<vars, wire, changed>>
      /\ w \in PlayerLetter /\ PlayerApplied(rep, rep', w)
  BY PlayerInstalled
<1>2. ServerStill /\ UNCHANGED <<fd, playerCell, jailed, obj, broken>>
  BY <1>1 DEF ServerStill, vars, registry, places
<1>3. rep \in RepType /\ rep' \in RepType
  BY <1>1 DEF RepInv, RepOK, PlayerApplied
<1>4. Held
  BY <1>1 DEF Held
<1>. HIDE DEF k, s, w, p
<1>5. /\ \A q \in Player : ~(w.told /\ p = q) => SamePlayer(rep, rep', q)
      /\ \A x \in Object : SameObject(rep, rep', x)
      /\ \A c \in Cell : SameWall(rep, rep', c)
  BY <1>1, <1>3 DEF PlayerApplied, SamePlayer, SameObject, SameWall, RepType, p
<1>6. /\ \A q \in Player : ~(w.told /\ p = q) => SamePlayer(Copy, Copy', q)
      /\ \A x \in Object : SameObject(Copy, Copy', x)
      /\ \A c \in Cell : SameWall(Copy, Copy', c)
  BY <1>1, <1>3, <1>5, CopyAgrees
<1>7. Excused(Copy, Unsettled)
  BY <1>1 DEF SyncInv, Progress
<1>8. /\ Unsettled.objects = changed.objects /\ Unsettled.walls = changed.walls
      /\ Unsettled.players = { q \in Player : \/ q \in changed.players
                                              \/ \A i \in 1 .. installed :
                                                   ~(s[i].told /\ PlayerIn(s[i]) = q) }
  BY <1>1 DEF Unsettled, s
<1>9. w.told /\ p \notin changed.players => SaysTrue(w) /\ p \in Player
  <2>1. \A i \in 1 .. Len(s) : s[i].told /\ PlayerIn(s[i]) \notin changed.players
                               => SaysTrue(s[i])
    BY DEF SyncInv, PlayersTrue, s
  <2>. QED
    BY <1>1, <2>1 DEF w, p, PlayerLetter, IsPlayerWord
<1>10. ASSUME NEW q \in Player, q \notin changed.players, NEW i \in 1 .. k, s[i].told,
              PlayerIn(s[i]) = q
       PROVE  PlayerAsAfter(Copy', q)
  <2>1. CASE q \in ToBeTold.players
    BY <1>1, <1>2, <1>3, <2>1, InstalledTold
  <2>2. CASE w.told /\ p = q /\ q \notin ToBeTold.players
    <3>. DEFINE d == DecompressPlayer(w)
    <3>1. /\ fd[q] # None /\ d.update # UPDATE_DROPPED
          /\ playerCell[q] # None => playerCell[q] = CellIn(d) /\ (jailed[q] => d.state = 1)
      BY <1>9, <1>10, <2>2 DEF SaysTrue, p
    <3>2. /\ rep'.pos = [rep.pos EXCEPT ![q] = CellIn(d)]
          /\ rep'.jailed = [rep.jailed EXCEPT ![q] = (d.state = 1)]
      BY <1>1, <2>2, <3>1 DEF PlayerApplied, p
    <3>3. rep'.pos[q] = CellIn(d)
      BY <1>3, <3>2 DEF RepType
    <3>4. jailed[q] /\ playerCell[q] # None => rep'.jailed[q]
      <4>1. rep.jailed \in [Player -> BOOLEAN]
        BY <1>3 DEF RepType
      <4>2. rep'.jailed[q] = (d.state = 1)
        BY <3>2, <4>1, Zenon
      <4>. QED
        BY <3>1, <4>2
    <3>5. SamePlayer(Copy', rep', q)
      BY <1>1, <1>3, <2>2, CopyAgrees
    <3>. QED
      BY <1>2, <3>1, <3>3, <3>4, <3>5 DEF SamePlayer, PlayerAsAfter
  <2>3. CASE ~(w.told /\ p = q)
    <3>1. i \in 1 .. installed
      <4>1. i # k
        BY <1>10, <2>3 DEF w, p
      <4>. QED
        BY <1>1, <4>1 DEF k
    <3>2. q \notin Unsettled.players
      BY <1>8, <1>10, <3>1
    <3>3. RightOnPlayer(Copy, q)
      BY <1>7, <3>2 DEF Excused
    <3>. QED
      BY <1>2, <1>6, <2>3, <3>3, SameIsRight
  <2>. QED
    BY <2>1, <2>2, <2>3
<1>11. ASSUME NEW x \in Object, x \notin changed.objects PROVE ObjectAsAfter(Copy', x)
  <2>1. RightOnObject(Copy, x)
    BY <1>7, <1>8, <1>11 DEF Excused
  <2>. QED
    BY <1>2, <1>6, <2>1, SameIsRight
<1>12. ASSUME NEW c \in Cell, c \notin changed.walls PROVE WallAsAfter(Copy', c)
  <2>1. RightOnWall(Copy, c)
    BY <1>7, <1>8, <1>12 DEF Excused
  <2>. QED
    BY <1>2, <1>6, <2>1, SameIsRight
<1>13. ASSUME NEW q \in Player, fd[q] = None, q \notin changed.players
       PROVE  Copy'.pos[q] = Nowhere
  <2>1. Copy.pos[q] = Nowhere
    BY <1>4, <1>13 DEF SyncInv, NotDrawn
  <2>2. ~(w.told /\ p = q)
    BY <1>9, <1>13 DEF SaysTrue, p
  <2>. QED
    BY <1>6, <2>1, <2>2 DEF SamePlayer
<1>. QED
  BY <1>6, <1>10, <1>11, <1>12, <1>13 DEF k, s

LEMMA LastPlayer ==
  ASSUME Inv, RepInv, SyncInv, InstallPlayer, installed + 1 = Len(reply.players)
  PROVE  ExcusedAfter(Copy', Without(changed, ToBeTold))
<1>. DEFINE s == reply.players
<1>1. /\ UNCHANGED <<vars, wire>> /\ phase = "players"
      /\ PlayerApplied(rep, rep', s[installed + 1])
  BY PlayerInstalled
<1>2. ServerStill /\ UNCHANGED <<fd, playerCell>>
  BY <1>1 DEF ServerStill, vars, registry, places
<1>3. rep' \in RepType
  BY <1>1 DEF PlayerApplied
<1>4. /\ \A p \in ToBeTold.players : p \in Player => PlayerAsAfter(Copy', p)
      /\ \A x \in ToBeTold.objects : x \in Object => ObjectAsAfter(Copy', x)
      /\ \A c \in ToBeTold.walls : c \in Cell => WallAsAfter(Copy', c)
  BY <1>1, <1>2, <1>3, InstalledTold
<1>5. changed \in Entries /\ ToBeTold \in Entries
  BY ToBeToldIs, SaidIs DEF RepInv, RepOK
<1>6. /\ Without(changed, ToBeTold).players = changed.players \ ToBeTold.players
      /\ Without(changed, ToBeTold).objects = changed.objects \ ToBeTold.objects
      /\ Without(changed, ToBeTold).walls = changed.walls \ ToBeTold.walls
  BY <1>5, WithoutIs
<1>. DEFINE t == Without(changed, ToBeTold)
            told == ToBeTold
<1>. HIDE DEF t, told, s
<1>7. ASSUME NEW q \in Player, q \notin changed.players PROVE PlayerAsAfter(Copy', q)
  <2>1. CASE About(s, q)
    <3>1. PICK i \in 1 .. Len(s) : s[i].told /\ PlayerIn(s[i]) = q
      BY <2>1 DEF About
    <3>. QED
      BY <1>7, <3>1, PlayerSettled DEF s
  <2>2. CASE ~About(s, q)
    <3>1. ReadOf(TeamOf(q))
      BY <1>1 DEF ReadOf, Held
    <3>2. playerCell[q] = None
      BY <1>7, <2>2, <3>1 DEF SyncInv, PlayersTrue, s
    <3>3. fd[q] = None => Copy'.pos[q] = Nowhere
      BY <1>7, PlayerSettled
    <3>. QED
      BY <1>2, <3>2, <3>3 DEF PlayerAsAfter
  <2>. QED
    BY <2>1, <2>2
<1>8. /\ \A x \in Object : ObjectAsAfter(Copy', x) \/ x \in changed.objects
      /\ \A c \in Cell : WallAsAfter(Copy', c) \/ c \in changed.walls
  BY PlayerSettled
<1>9. ExcusedAfter(Copy', t)
  BY <1>4, <1>6, <1>7, <1>8 DEF ExcusedAfter, t, told
<1>. QED
  BY <1>9 DEF t

LEMMA InstallPlayerKeeps ==
  ASSUME Inv, RepInv, SyncInv, InstallPlayer
  PROVE  RepInv' /\ SyncInv'
<1>. DEFINE k == installed + 1
            n == Len(reply.players)
<1>1. /\ n \in Nat /\ k \in 1 .. n /\ installed \in Nat /\ phase = "players"
      /\ UNCHANGED <<vars, reply, subscribed, wire, served, changed>>
      /\ PlayerApplied(rep, rep', reply.players[k])
      /\ k < n => installed' = k /\ UNCHANGED <<phase, overtaken, stale>>
      /\ k = n => /\ phase' = "live" /\ installed' = 0
                  /\ overtaken' = (overtaken \/ served > 0)
                  /\ stale' = Without(changed, ToBeTold)
  BY PlayerInstalled
<1>2. ServerStill /\ UNCHANGED <<fd, playerCell, jailed, obj, broken>>
  BY <1>1 DEF ServerStill, vars, registry, places
<1>3. /\ rep' \in RepType /\ Ghostless(rep') /\ RepOK /\ ReplyOK
  BY <1>1 DEF RepInv, PlayerApplied
<1>4. k < n \/ k = n
  BY <1>1
<1>5. Held /\ Held' /\ ~Early' /\ n > 0
  <2>1. Held /\ n > 0
    BY <1>1, <1>3 DEF Held, ReplyOK
  <2>2. reply # NoReply
    BY <2>1 DEF NoReply
  <2>. QED
    BY <1>1, <1>4, <2>1, <2>2 DEF Held, Early
<1>6. RepInv'
  <2>1. ReplyOK'
    <3>1. k < n => installed' \in 0 .. n - 1
      BY <1>1
    <3>. QED
      BY <1>1, <1>3, <1>4, <1>5, <3>1 DEF ReplyOK
  <2>2. ToBeTold \in Entries /\ changed \in Entries
    BY ToBeToldIs, SaidIs DEF RepInv, RepOK
  <2>3. stale' \in Entries
    <3>1. Without(changed, ToBeTold) \in Entries
      BY <2>2, WithoutIs
    <3>. QED
      BY <1>1, <1>3, <1>4, <3>1 DEF RepOK
  <2>4. RepOK'
    BY <1>1, <1>3, <1>4, <2>3 DEF RepOK, Phase
  <2>. QED
    BY <1>1, <1>3, <2>1, <2>4 DEF RepInv, Ghostless
<1>7. ToldRight'
  BY <1>1, <1>2, <1>3, InstalledTold
<1>8. Unheard /\ NotDrawn /\ OnlyFloor /\ WallsTrue /\ PlayersTrue /\ ObjectsTrue
  BY DEF SyncInv
<1>9. PlayersTrue' /\ WallsTrue' /\ ObjectsTrue' /\ Decoded' = Decoded
  BY <1>1, <1>2, <1>4, <1>5, <1>8, ReplyStands
<1>10. Unheard'
  BY <1>1, <1>4, <1>5, <1>8 DEF Unheard
<1>11. NotDrawn'
  BY <1>1, <1>2, <1>5, PlayerSettled DEF NotDrawn
<1>12. OnlyFloor'
  <2>1. Copy' \in RepType
    BY <1>3, <1>6, ToldType DEF Copy, RepInv
  <2>2. Copy'.floor \subseteq Cell
    BY <2>1 DEF RepType
  <2>3. \A c \in Cell : SameWall(Copy, Copy', c)
    BY PlayerSettled
  <2>. QED
    BY <1>2, <1>8, <1>9, <2>2, <2>3 DEF OnlyFloor, SameWall
<1>. HIDE DEF k, n
<1>13. Knows'
  <2>. SUFFICES ASSUME phase' = "live" PROVE Excused(Copy, stale)'
    BY DEF Knows
  <2>1. k = n /\ stale' = Without(changed, ToBeTold)
    BY <1>1, <1>4
  <2>2. ExcusedAfter(Copy', Without(changed, ToBeTold))
    BY <2>1, LastPlayer DEF k, n
  <2>3. ExcusedAfter(Copy', stale')
    BY <2>1, <2>2
  <2>. QED
    BY <2>3, AfterIsNext
<1>14. Progress'
  <2>. SUFFICES ASSUME phase' \in {"sent", "players"} PROVE Excused(Copy, Unsettled)'
    BY DEF Progress
  <2>1. k < n /\ phase' = "players" /\ installed' = installed + 1
    BY <1>1, <1>4 DEF k
  <2>2. /\ Unsettled'.objects = changed.objects /\ Unsettled'.walls = changed.walls
        /\ Unsettled'.players =
             { q \in Player : \/ q \in changed.players
                              \/ \A i \in 1 .. installed + 1 :
                                   ~(reply.players[i].told /\ PlayerIn(reply.players[i]) = q) }
    BY <1>1, <2>1 DEF Unsettled
  <2>3. ExcusedAfter(Copy', Unsettled')
    BY <2>2, PlayerSettled DEF ExcusedAfter
  <2>. QED
    BY <2>3, AfterIsNext
<1>. QED
  BY <1>6, <1>7, <1>9, <1>10, <1>11, <1>12, <1>13, <1>14 DEF SyncInv

(* The sync and the event thread keep what the client knows.               *)
LEMMA ClientKeeps == PlayInv /\ ClientStep => PlayInv'
<1>. SUFFICES ASSUME PlayInv, ClientStep PROVE PlayInv'
  OBVIOUS
<1>1. Inv /\ RepInv /\ SyncInv
  BY DEF PlayInv
<1>2. UNCHANGED vars => Inv'
  BY <1>1, NextInv
<1>3. (\E t, from : SyncCrash(t, from)) => PlayInv'
  BY <1>1, CrashKeeps DEF PlayInv
<1>4. Connect \/ Subscribe => PlayInv'
  BY <1>1, <1>2, ConnectKeeps, SubscribeKeeps DEF PlayInv, Connect, Subscribe, Reader
<1>5. ReadWalls \/ ReadObjects => PlayInv'
  BY <1>1, <1>2, ReadWallsKeeps, ReadObjectsKeeps DEF PlayInv, ReadWalls, ReadObjects, Reader
<1>6. ReadPlayers(TEAM_RED, "red", "blue") \/ ReadPlayers(TEAM_BLUE, "blue", "objects") => PlayInv'
  <2>1. TEAM_RED \in Team /\ TEAM_BLUE \in Team
    BY DEF Team
  <2>2. ASSUME ReadPlayers(TEAM_RED, "red", "blue") PROVE PlayInv'
    BY <1>1, <1>2, <2>1, <2>2, ReadPlayersKeeps DEF PlayInv, ReadPlayers, Reader
  <2>3. ASSUME ReadPlayers(TEAM_BLUE, "blue", "objects") PROVE PlayInv'
    BY <1>1, <1>2, <2>1, <2>3, ReadPlayersKeeps DEF PlayInv, ReadPlayers, Reader
  <2>. QED
    BY <2>2, <2>3
<1>7. InstallObject \/ InstallWalls \/ InstallPlayer => PlayInv'
  BY <1>1, <1>2, InstallObjectKeeps, InstallWallsKeeps, InstallPlayerKeeps
  DEF PlayInv, InstallObject, InstallWalls, InstallPlayer
<1>8. Again \/ Greet => PlayInv'
  BY <1>1, <1>2, AgainKeeps, GreetKeeps DEF PlayInv, Again, Greet, Reader
<1>9. Deliver => PlayInv'
  BY <1>1, <1>2, DeliverKeeps DEF PlayInv, Deliver
<1>. QED
  BY <1>3, <1>4, <1>5, <1>6, <1>7, <1>8, <1>9 DEF ClientStep

LEMMA NothingKeeps == PlayInv /\ UNCHANGED playVars => PlayInv'
<1>. SUFFICES ASSUME PlayInv, UNCHANGED playVars PROVE PlayInv'
  OBVIOUS
<1>1. /\ UNCHANGED <<vars, rep, phase, reply, installed, subscribed, wire, served, overtaken,
                     changed, stale>>
      /\ Inv /\ RepInv /\ SyncInv
  BY DEF playVars, channel, PlayInv
<1>2. Inv'
  BY <1>1, NextInv
<1>3. ReplyOK /\ Unheard /\ NotDrawn /\ OnlyFloor /\ WallsTrue /\ PlayersTrue
      /\ ObjectsTrue /\ Progress
  BY <1>1 DEF RepInv, SyncInv
<1>4. /\ Held' = Held /\ Early' = Early /\ Decoded' = Decoded /\ Copy' = Copy
      /\ Unsettled' = Unsettled /\ UNCHANGED <<fd, playerCell, jailed, obj, broken>>
      /\ \A t : ReadOf(t)' <=> ReadOf(t)
  BY <1>1 DEF Held, Early, Decoded, Copy, Unsettled, ReadOf, vars, registry, places
<1>5. ReplyOK' /\ Unheard' /\ NotDrawn' /\ WallsTrue' /\ ObjectsTrue'
  BY <1>1, <1>3, <1>4 DEF ReplyOK, Unheard, NotDrawn, WallsTrue, ObjectsTrue
<1>6. PlayersTrue'
  BY <1>1, <1>3, <1>4 DEF PlayersTrue, SaysTrue
<1>7. Progress'
  <2>. SUFFICES ASSUME phase \in {"sent", "players"} PROVE Excused(Copy, Unsettled)'
    BY <1>1 DEF Progress
  <2>1. Excused(Copy, Unsettled)
    BY <1>3 DEF Progress
  <2>. QED
    BY <1>4, <2>1, ExcusedStill DEF ServerStill
<1>8. RepInv' /\ SyncInv'
  BY <1>1, <1>3, <1>4, <1>5, <1>6, <1>7, NothingInstalled DEF RepInv, RepOK, OnlyFloor
<1>. QED
  BY <1>2, <1>8 DEF PlayInv

LEMMA PlayNextInv == PlayInv /\ [PlayNext]_playVars => PlayInv'
BY ServerKeeps, ClientKeeps, NothingKeeps DEF PlayNext

LEMMA Playing == PlaySpec => []PlayInv
BY PlayInitInv, PlayNextInv, PTL DEF PlaySpec

(* RepOK, type correctness of the client: the words of the server always   *)
(* name players, objects and cells of the game, whatever has happened in   *)
(* it by the time they are read.                                           *)
THEOREM ReplicaTyped == PlaySpec => []RepOK
<1>1. PlayInv => RepOK
  BY DEF PlayInv, RepInv
<1>. QED
  BY <1>1, Playing, PTL

(* NoGhost: an event or a sync never leaves a second image of a player in  *)
(* the client's maze, in whatever order the two arrive and however often   *)
(* the sync is installed.                                                  *)
THEOREM ReplicaHasNoGhost == PlaySpec => []NoGhost
<1>1. PlayInv => NoGhost
  BY DEF PlayInv, RepInv, Ghostless, NoGhost
<1>. QED
  BY <1>1, Playing, PTL

(* CaughtUp: a client that has installed the sync, once or again, and has  *)
(* applied the events on their way is right about everything but what a    *)
(* request changed between the reading of the sync and the last time it    *)
(* was installed, or before the server knew the event connection, and that *)
(* no event has told of since.                                             *)
THEOREM ReplicaCatchesUp == PlaySpec => []CaughtUp
<1>1. PlayInv => CaughtUp
  <2>. SUFFICES ASSUME PlayInv PROVE CaughtUp
    OBVIOUS
  <2>1. stale \in Entries /\ Knows
    BY DEF PlayInv, RepInv, RepOK, SyncInv
  <2>. QED
    BY <2>1, WrongIsExcused DEF Knows, CaughtUp, Copy
<1>. QED
  BY <1>1, Playing, PTL

-----------------------------------------------------------------------------
(* A client that nothing has overtaken: no request has changed anything    *)
(* since the sync was read, or an event has told of it.                    *)
QuietInv == /\ served = 0 => changed = NoEntry
            /\ phase = "live" /\ ~overtaken => stale = NoEntry

LEMMA EmptyEntry ==
  /\ NoEntry \in Entries
  /\ \A s \in Entries : s.players = {} /\ s.objects = {} /\ s.walls = {} => s = NoEntry
  /\ NoEntry.players = {} /\ NoEntry.objects = {} /\ NoEntry.walls = {}
<1>1. NoEntry \in Entries
  BY EntryRecord DEF NoEntry
<1>2. ASSUME NEW s \in Entries, s.players = {}, s.objects = {}, s.walls = {}
      PROVE  s = NoEntry
  BY <1>2 DEF Entries, NoEntry
<1>. QED
  BY <1>1, <1>2 DEF NoEntry

LEMMA QuietServer == PlayInv /\ QuietInv /\ ServerStep => QuietInv'
<1>. SUFFICES ASSUME PlayInv, QuietInv, ServerStep PROVE QuietInv'
  OBVIOUS
<1>1. Inv /\ Inv' /\ RepInv /\ RepOK
  BY ServerStepIsNext, NextInv DEF PlayInv, RepInv
<1>2. /\ phase' = phase
      /\ served' = IF Connecting THEN served + 1 ELSE served
      /\ overtaken' = (overtaken \/ (phase = "live" /\ ~subscribed))
  BY DEF ServerStep
<1>3. PICK about \in Entries : Notes(about)
  BY <1>1, ServerStory
<1>4. served \in Nat /\ overtaken \in BOOLEAN /\ stale \in Entries
  BY <1>1, ReplicaAssumption DEF RepOK
<1>5. served' = 0 => changed' = NoEntry
  <2>1. served' = 0 => served = 0 /\ ~Kept
    BY <1>2, <1>4 DEF Connecting
  <2>. QED
    BY <1>3, <2>1 DEF Notes, QuietInv
<1>6. ASSUME phase = "live", ~overtaken' PROVE stale' = NoEntry
  <2>1. ~overtaken /\ subscribed /\ stale = NoEntry
    BY <1>2, <1>4, <1>6 DEF QuietInv
  <2>2. /\ stale'.players = stale.players \ about.players
        /\ stale'.objects = stale.objects \ about.objects
        /\ stale'.walls = stale.walls \ about.walls
        /\ stale' \in Entries
    BY <1>3, <1>6, <2>1 DEF Notes
  <2>3. stale'.players = {} /\ stale'.objects = {} /\ stale'.walls = {}
    BY <2>1, <2>2, EmptyEntry
  <2>. QED
    BY <2>2, <2>3, EmptyEntry
<1>. QED
  BY <1>2, <1>5, <1>6 DEF QuietInv

LEMMA QuietClient == PlayInv /\ QuietInv /\ ClientStep => QuietInv'
<1>. SUFFICES ASSUME PlayInv, QuietInv, ClientStep PROVE QuietInv'
  OBVIOUS
<1>1. /\ served = 0 => changed = NoEntry
      /\ phase = "live" /\ ~overtaken => stale = NoEntry
      /\ served \in Nat /\ overtaken \in BOOLEAN /\ RepInv
  BY ReplicaAssumption DEF QuietInv, PlayInv, RepInv, RepOK
<1>2. ASSUME UNCHANGED <<served, overtaken, stale>>, served = 0 => changed' = NoEntry,
             phase' = "live" => phase = "live"
      PROVE  QuietInv'
  BY <1>1, <1>2 DEF QuietInv
<1>3. Connect \/ Subscribe \/ Again => QuietInv'
  BY <1>1, <1>2 DEF Connect, Subscribe, Again, Reader
<1>4. ASSUME ReadWalls \/ ReadObjects \/ (\E t, from : ReadPlayers(t, from, "blue"))
             \/ (\E t, from : ReadPlayers(t, from, "objects"))
      PROVE  QuietInv'
  <2>1. UNCHANGED <<served, overtaken, stale>> /\ phase' # "live"
    BY <1>4 DEF ReadWalls, ReadObjects, ReadPlayers, Reader
  <2>2. ASSUME served = 0 PROVE changed' = NoEntry
    <3>1. changed = [players |-> {}, objects |-> {}, walls |-> {}]
      BY <1>1, <2>2 DEF NoEntry
    <3>2. \A t : { p \in {} : TeamOf(p) # t } = {}
      OBVIOUS
    <3>3. CASE ReadWalls
      BY <3>1, <3>3 DEF ReadWalls, NoEntry
    <3>4. CASE ReadObjects
      BY <3>1, <3>4 DEF ReadObjects, NoEntry
    <3>5. ASSUME NEW t, NEW from, NEW to, ReadPlayers(t, from, to) PROVE changed' = NoEntry
      <4>1. changed' = [changed EXCEPT !.players = { p \in @ : TeamOf(p) # t }]
        BY <3>5 DEF ReadPlayers
      <4>2. changed' = [changed EXCEPT !.players = {}]
        BY <3>1, <4>1
      <4>. QED
        BY <3>1, <4>2 DEF NoEntry
    <3>. QED
      BY <1>4, <3>3, <3>4, <3>5
  <2>. QED
    BY <1>2, <2>1, <2>2
<1>5. (\E t, from : SyncCrash(t, from)) => QuietInv'
  BY <1>1, <1>2 DEF SyncCrash, channel
<1>6. InstallObject \/ InstallWalls \/ Deliver => QuietInv'
  BY <1>1, <1>2 DEF InstallObject, InstallWalls, Deliver
<1>7. Greet => QuietInv'
  BY <1>1, <1>2 DEF Greet, Reader
<1>8. ASSUME InstallPlayer PROVE QuietInv'
  <2>1. served' = served /\ changed' = changed /\ phase = "players"
    BY <1>8 DEF InstallPlayer
  <2>2. \/ UNCHANGED <<phase, overtaken, stale>>
        \/ /\ overtaken' = (overtaken \/ served > 0)
           /\ stale' = Without(changed, ToBeTold)
    BY <1>8 DEF InstallPlayer
  <2>3. ASSUME phase' = "live", ~overtaken' PROVE stale' = NoEntry
    <3>1. served = 0 /\ stale' = Without(changed, ToBeTold)
      <4>1. /\ overtaken' = (overtaken \/ served > 0)
            /\ stale' = Without(changed, ToBeTold)
        BY <2>1, <2>2, <2>3
      <4>2. ~(served > 0)
        BY <2>3, <4>1, Zenon
      <4>. QED
        BY <1>1, <4>1, <4>2
    <3>2. ToBeTold \in Entries /\ changed = NoEntry
      BY <1>1, <3>1, ToBeToldIs, SaidIs DEF RepInv
    <3>. DEFINE t == Without(changed, ToBeTold)
    <3>3. /\ t \in Entries /\ t.players = changed.players \ ToBeTold.players
          /\ t.objects = changed.objects \ ToBeTold.objects
          /\ t.walls = changed.walls \ ToBeTold.walls
      BY <3>2, WithoutIs, EmptyEntry
    <3>. HIDE DEF t
    <3>4. changed.players = {} /\ changed.objects = {} /\ changed.walls = {}
      BY <3>2, EmptyEntry
    <3>5. t.players = {} /\ t.objects = {} /\ t.walls = {}
      BY <3>3, <3>4
    <3>6. t = NoEntry
      BY <3>3, <3>5, EmptyEntry
    <3>. QED
      BY <3>1, <3>6 DEF t
  <2>. QED
    BY <1>1, <2>1, <2>3 DEF QuietInv
<1>. QED
  BY <1>3, <1>4, <1>5, <1>6, <1>7, <1>8 DEF ClientStep

LEMMA QuietStill == QuietInv /\ UNCHANGED playVars => QuietInv'
BY DEF QuietInv, playVars, channel

LEMMA QuietInit == PlayInit => QuietInv
BY DEF PlayInit, QuietInv

(* QuietSyncComplete: a sync that no request overtakes, from the moment    *)
(* the client connects to the moment that the server knows its event       *)
(* connection, leaves the client wrong about nothing, nor does installing  *)
(* it once more before the next request.                                   *)
THEOREM QuietSyncTellsAll == PlaySpec => []QuietSyncComplete
<1>1. PlayInv /\ QuietInv /\ [PlayNext]_playVars => QuietInv'
  BY QuietServer, QuietClient, QuietStill DEF PlayNext
<1>2. PlayInv /\ QuietInv => QuietSyncComplete
  <2>. SUFFICES ASSUME PlayInv, QuietInv, phase = "live", ~overtaken
                PROVE  Wrong(Copy) = NoEntry
    BY DEF QuietSyncComplete, Copy
  <2>1. Excused(Copy, stale) /\ stale = NoEntry
    BY DEF PlayInv, SyncInv, Knows, QuietInv
  <2>. DEFINE r == Copy
              P == { p \in Player : ~RightOnPlayer(r, p) }
              O == { x \in Object : ~RightOnObject(r, x) }
              W == { c \in Cell : ~RightOnWall(r, c) }
  <2>2. P = {} /\ O = {} /\ W = {}
    <3>1. Excused(r, NoEntry)
      BY <2>1
    <3>. HIDE DEF r
    <3>. QED
      BY <3>1, EmptyEntry DEF Excused
  <2>3. Wrong(Copy) = [players |-> P, objects |-> O, walls |-> W]
    BY DEF Wrong
  <2>. HIDE DEF P, O, W
  <2>. QED
    BY <2>2, <2>3 DEF NoEntry
<1>. QED
  BY <1>1, <1>2, QuietInit, Playing, PTL DEF PlaySpec

-----------------------------------------------------------------------------
(* What the players have in their hands.  The hands of one kind agree with *)
(* the carriers of the objects K of that kind, and those of the players D, *)
(* who are leaving, are empty already.                                     *)
Flags   == { x \in Object : x[2] = "flag" }
Shovels == { x \in Object : x[2] # "flag" }

Own(hand, holder, K, D) ==
  /\ \A p \in Player : hand[p] \in K \cup {None}
  /\ \A p \in Player \ D, x \in K : hand[p] = x <=> holder[x] = p
  /\ \A p \in D : hand[p] = None

HandsOwn(r, D) == /\ Own(r.flag, r.holder, Flags, D)
                  /\ Own(r.shovel, r.holder, Shovels, D)

LEMMA HandPasses ==
  ASSUME NEW hand \in [Player -> Object \cup {None}],
         NEW holder \in [Object -> Player \cup {None}],
         NEW K \in SUBSET Object, NEW D \in SUBSET Player, Own(hand, holder, K, D),
         NEW x \in K, NEW p \in Player \cup {None},
         \/ p \in {None, holder[x]}
         \/ holder[x] = None /\ p \notin D /\ \A y \in K : holder[y] # p
  PROVE  Own(HandAfter(hand, x, holder[x], p), [holder EXCEPT ![x] = p], K, D)
<1>. DEFINE now == [holder EXCEPT ![x] = p]
            q   == holder[x]
<1>0. None \notin Player /\ None \notin K /\ x \in Object /\ q \in Player \cup {None}
  BY GameAssumption
<1>1. now[x] = p /\ \A y \in K \ {x} : now[y] = holder[y]
  OBVIOUS
<1>2. /\ \A s \in Player : hand[s] \in K \cup {None}
      /\ \A s \in Player \ D, y \in K : hand[s] = y <=> holder[y] = s
      /\ \A s \in D : hand[s] = None
  BY DEF Own
<1>. HIDE DEF now, q
<1>3. CASE q # None /\ p = None
  <2>. DEFINE h == [hand EXCEPT ![q] = None]
  <2>1. HandAfter(hand, x, q, p) = h
    BY <1>3 DEF HandAfter
  <2>2. h[q] = None /\ \A s \in Player \ {q} : h[s] = hand[s]
    BY <1>0, <1>3
  <2>. HIDE DEF h
  <2>3. \A s \in Player : h[s] \in K \cup {None}
    BY <1>2, <2>2
  <2>4. \A s \in D : h[s] = None
    BY <1>2, <2>2
  <2>5. ASSUME NEW s \in Player \ D, NEW y \in K PROVE h[s] = y <=> now[y] = s
    <3>1. CASE s = q
      <4>1. hand[q] = x
        BY <1>2, <2>5, <3>1 DEF q
      <4>2. y # x => holder[y] # q
        BY <1>2, <2>5, <3>1, <4>1
      <4>. QED
        BY <1>0, <1>1, <1>3, <2>2, <3>1, <4>2
    <3>2. CASE s # q
      <4>1. hand[s] # x
        BY <1>2, <2>5, <3>2 DEF q
      <4>. QED
        BY <1>0, <1>1, <1>2, <1>3, <2>2, <3>2, <4>1
    <3>. QED
      BY <3>1, <3>2
  <2>. QED
    BY <2>1, <2>3, <2>4, <2>5 DEF Own, now, q
<1>4. CASE q = None /\ p # None
  <2>. DEFINE h == [hand EXCEPT ![p] = x]
  <2>1. HandAfter(hand, x, q, p) = h
    BY <1>4 DEF HandAfter
  <2>2. /\ p \in Player /\ p \notin D /\ \A y \in K : holder[y] # p
    BY <1>0, <1>4 DEF q
  <2>3. h[p] = x /\ \A s \in Player \ {p} : h[s] = hand[s]
    BY <2>2
  <2>. HIDE DEF h
  <2>4. \A s \in Player : h[s] \in K \cup {None}
    BY <1>2, <2>3
  <2>5. \A s \in D : h[s] = None
    BY <1>2, <2>2, <2>3
  <2>6. ASSUME NEW s \in Player \ D, NEW y \in K PROVE h[s] = y <=> now[y] = s
    <3>1. CASE s = p
      BY <1>1, <2>2, <2>3, <3>1
    <3>2. CASE s # p
      <4>1. hand[s] # x
        BY <1>0, <1>2, <1>4, <2>6 DEF q
      <4>. QED
        BY <1>1, <1>2, <2>3, <3>2, <4>1
    <3>. QED
      BY <3>1, <3>2
  <2>. QED
    BY <2>1, <2>4, <2>5, <2>6 DEF Own, now, q
<1>5. CASE p = q
  <2>1. HandAfter(hand, x, q, p) = hand
    BY <1>5 DEF HandAfter
  <2>2. now = holder
    BY <1>0, <1>5 DEF now, q
  <2>. QED
    BY <2>1, <2>2 DEF now, q
<1>. QED
  BY <1>3, <1>4, <1>5 DEF q

LEMMA OtherHand ==
  ASSUME NEW hand, NEW holder \in [Object -> Player \cup {None}],
         NEW K \in SUBSET Object, NEW D, Own(hand, holder, K, D),
         NEW x \in Object \ K, NEW p
  PROVE  Own(hand, [holder EXCEPT ![x] = p], K, D)
BY DEF Own

(* An object may pass to p if it stays where it was, or if nobody carried  *)
(* it and the hand of p for it is empty.                                   *)
LEMMA HandsStep ==
  ASSUME NEW u \in RepType, NEW w, IsObjectWord(w), NEW sync \in BOOLEAN,
         NEW D \in SUBSET Player, HandsOwn(u, D),
         LET x == ObjectIn(w)
             p == HolderIn(w)
         IN  w.told => \/ p \in {None, u.holder[x]}
                       \/ /\ u.holder[x] = None /\ p \notin D
                          /\ \A y \in Object : y[2] = x[2] => u.holder[y] # p
  PROVE  HandsOwn(ApplyObject(u, w, sync), D)
<1>. DEFINE v == ApplyObject(u, w, sync)
            x == ObjectIn(w)
            p == HolderIn(w)
<1>0. ObjectApplied(u, v, w)
  BY ApplyObjectIs
<1>. HIDE DEF v
<1>1. /\ ~w.told => v = u
      /\ w.told => /\ v.holder = [u.holder EXCEPT ![x] = p]
                   /\ v.flag = IF x[2] = "flag"
                               THEN HandAfter(u.flag, x, u.holder[x], p) ELSE u.flag
                   /\ v.shovel = IF x[2] = "flag" THEN u.shovel
                                 ELSE HandAfter(u.shovel, x, u.holder[x], p)
  BY <1>0 DEF ObjectApplied
<1>2. w.told => /\ x \in Object /\ p \in Player \cup {None}
                /\ \/ p \in {None, u.holder[x]}
                   \/ /\ u.holder[x] = None /\ p \notin D
                      /\ \A y \in Object : y[2] = x[2] => u.holder[y] # p
  BY DEF IsObjectWord
<1>3. /\ u.holder \in [Object -> Player \cup {None}]
      /\ u.flag \in [Player -> Object \cup {None}]
      /\ u.shovel \in [Player -> Object \cup {None}]
      /\ Own(u.flag, u.holder, Flags, D) /\ Own(u.shovel, u.holder, Shovels, D)
      /\ Flags \in SUBSET Object /\ Shovels \in SUBSET Object
  BY DEF RepType, HandsOwn, Flags, Shovels
<1>. HIDE DEF v, x, p
<1>4. CASE ~w.told
  BY <1>1, <1>4 DEF v
<1>5. CASE w.told /\ x[2] = "flag"
  <2>1. /\ x \in Flags /\ x \in Object \ Shovels
        /\ \/ p \in {None, u.holder[x]}
           \/ u.holder[x] = None /\ p \notin D /\ \A y \in Flags : u.holder[y] # p
    BY <1>2, <1>5 DEF Flags, Shovels
  <2>2. Own(HandAfter(u.flag, x, u.holder[x], p), [u.holder EXCEPT ![x] = p], Flags, D)
    BY <1>2, <1>3, <1>5, <2>1, HandPasses
  <2>3. Own(u.shovel, [u.holder EXCEPT ![x] = p], Shovels, D)
    BY <1>3, <2>1, OtherHand
  <2>. QED
    BY <1>1, <1>5, <2>2, <2>3 DEF HandsOwn, v
<1>6. CASE w.told /\ x[2] # "flag"
  <2>0. \A y \in Shovels : y[2] = "shovel"
    BY GameAssumption DEF Shovels
  <2>1. /\ x \in Shovels /\ x \in Object \ Flags
        /\ \/ p \in {None, u.holder[x]}
           \/ u.holder[x] = None /\ p \notin D /\ \A y \in Shovels : u.holder[y] # p
    <3>1. x \in Shovels /\ x \in Object \ Flags
      BY <1>2, <1>6 DEF Flags, Shovels
    <3>2. \A y \in Shovels : y[2] = x[2] /\ y \in Object
      BY <2>0, <3>1, <1>3
    <3>. QED
      BY <1>2, <1>6, <3>1, <3>2
  <2>2. Own(HandAfter(u.shovel, x, u.holder[x], p), [u.holder EXCEPT ![x] = p], Shovels, D)
    BY <1>2, <1>3, <1>6, <2>1, HandPasses
  <2>3. Own(u.flag, [u.holder EXCEPT ![x] = p], Flags, D)
    BY <1>3, <2>1, OtherHand
  <2>. QED
    BY <1>1, <1>6, <2>2, <2>3 DEF HandsOwn, v
<1>. QED
  BY <1>4, <1>5, <1>6

(* Every word that is told of the objects may pass its object on, seen     *)
(* from the carriers that r has and those that the other words give.       *)
Gives(r, ws, D) ==
  \A i \in 1 .. 4 :
    LET x == ObjectAt[i]
        p == HolderIn(ws[i])
    IN  ws[i].told =>
          \/ p \in {None, r.holder[x]}
          \/ /\ r.holder[x] = None /\ p \notin D
             /\ \A j \in 1 .. 4 :
                  LET y == ObjectAt[j]
                  IN  y \in Object /\ y[2] = x[2] /\ j # i
                      => r.holder[y] # p /\ (ws[j].told => HolderIn(ws[j]) # p)

LEMMA HandsNext ==
  ASSUME NEW r \in RepType, NEW u \in RepType, NEW ws, AreObjectWords(ws),
         NEW k \in 1 .. 4, NEW sync \in BOOLEAN, NEW D \in SUBSET Player,
         Written(r, u, ws, k - 1), Gives(r, ws, D), HandsOwn(u, D)
  PROVE  HandsOwn(ApplyObject(u, ws[k], sync), D)
<1>. DEFINE w == ws[k]
            x == ObjectIn(w)
            p == HolderIn(w)
<1>1. IsObjectWord(w) /\ (w.told => x = ObjectAt[k] /\ x \in Object)
  BY DEF AreObjectWords, IsObjectWord
<1>2. ASSUME NEW j \in 1 .. 4, ObjectAt[j] \in Object
      PROVE  \/ u.holder[ObjectAt[j]] = r.holder[ObjectAt[j]]
             \/ ws[j].told /\ u.holder[ObjectAt[j]] = HolderIn(ws[j]) /\ j # k
  <2>1. IF j <= k - 1 /\ ws[j].told
        THEN u.holder[ObjectAt[j]] = HolderIn(ws[j])
        ELSE u.holder[ObjectAt[j]] = r.holder[ObjectAt[j]]
    BY <1>2 DEF Written
  <2>2. j <= k - 1 => j # k
    OBVIOUS
  <2>. QED
    BY <2>1, <2>2
<1>3. w.told => \/ p \in {None, r.holder[x]}
                \/ /\ r.holder[x] = None /\ p \notin D
                   /\ \A j \in 1 .. 4 :
                        LET y == ObjectAt[j]
                        IN  y \in Object /\ y[2] = x[2] /\ j # k
                            => r.holder[y] # p /\ (ws[j].told => HolderIn(ws[j]) # p)
  BY <1>1 DEF Gives
<1>. HIDE DEF w, x, p
<1>4. w.told => u.holder[x] = r.holder[x]
  BY <1>1, <1>2
<1>5. ASSUME w.told, p \notin {None, r.holder[x]}, NEW y \in Object, y[2] = x[2]
      PROVE  u.holder[y] # p
  <2>1. PICK j \in 1 .. 4 : y = ObjectAt[j]
    BY ObjectAtIs
  <2>2. CASE j = k
    BY <1>1, <1>4, <1>5, <2>1, <2>2
  <2>3. CASE j # k
    BY <1>2, <1>3, <1>5, <2>1, <2>3
  <2>. QED
    BY <2>2, <2>3
<1>6. w.told => \/ p \in {None, u.holder[x]}
                \/ /\ u.holder[x] = None /\ p \notin D
                   /\ \A y \in Object : y[2] = x[2] => u.holder[y] # p
  BY <1>3, <1>4, <1>5
<1>. QED
  BY <1>1, <1>6, HandsStep DEF w, x, p

LEMMA HandsRun ==
  ASSUME NEW r \in RepType, NEW ws, AreObjectWords(ws), NEW sync \in BOOLEAN,
         NEW D \in SUBSET Player, Gives(r, ws, D), HandsOwn(r, D)
  PROVE  HandsOwn(ApplyObjects(r, ws, sync), D)
<1>. DEFINE r1 == ApplyObject(r, ws[1], sync)
            r2 == ApplyObject(r1, ws[2], sync)
            r3 == ApplyObject(r2, ws[3], sync)
            r4 == ApplyObject(r3, ws[4], sync)
<1>0. Written(r, r, ws, 0) /\ SameElsewhere(r, r) /\ ApplyObjects(r, ws, sync) = r4
  BY DEF Written, SameElsewhere, ApplyObjects
<1>. HIDE DEF r1, r2, r3, r4
<1>1. r1 \in RepType /\ Written(r, r1, ws, 1) /\ SameElsewhere(r, r1) /\ HandsOwn(r1, D)
  BY <1>0, ApplyNext, HandsNext, 1 - 1 = 0 DEF r1
<1>2. r2 \in RepType /\ Written(r, r2, ws, 2) /\ SameElsewhere(r, r2) /\ HandsOwn(r2, D)
  BY <1>1, ApplyNext, HandsNext, 2 - 1 = 1 DEF r2
<1>3. r3 \in RepType /\ Written(r, r3, ws, 3) /\ SameElsewhere(r, r3) /\ HandsOwn(r3, D)
  BY <1>2, ApplyNext, HandsNext, 3 - 1 = 2 DEF r3
<1>4. HandsOwn(r4, D)
  BY <1>3, HandsNext, 4 - 1 = 3 DEF r4
<1>. QED
  BY <1>0, <1>4

(* The word of a player that leaves empties its hands.                     *)
LeaverIn(w) ==
  IF w.told /\ DecompressPlayer(w).update = UPDATE_DROPPED THEN {PlayerIn(w)} ELSE {}

LEMMA HandEmptied ==
  ASSUME NEW hand \in [Player -> Object \cup {None}], NEW holder, NEW K,
         NEW D \in SUBSET Player, NEW p \in Player, Own(hand, holder, K, D)
  PROVE  Own([hand EXCEPT ![p] = None], holder, K, D \cup {p})
BY DEF Own

LEMMA HandsOfPlayer ==
  ASSUME NEW r \in RepType, NEW v, NEW w, IsPlayerWord(w), PlayerApplied(r, v, w),
         NEW D \in SUBSET Player, HandsOwn(r, D)
  PROVE  HandsOwn(v, D \cup LeaverIn(w)) /\ LeaverIn(w) \in SUBSET Player
<1>. DEFINE p == PlayerIn(w)
            d == DecompressPlayer(w)
<1>1. /\ v.holder = r.holder
      /\ ~w.told => v = r
      /\ w.told /\ d.update = UPDATE_DROPPED => /\ v.flag = [r.flag EXCEPT ![p] = None]
                                                /\ v.shovel = [r.shovel EXCEPT ![p] = None]
      /\ w.told /\ d.update # UPDATE_DROPPED => v.flag = r.flag /\ v.shovel = r.shovel
  BY DEF PlayerApplied
<1>2. /\ r.flag \in [Player -> Object \cup {None}]
      /\ r.shovel \in [Player -> Object \cup {None}]
  BY DEF RepType
<1>3. w.told => p \in Player
  BY DEF IsPlayerWord
<1>. HIDE DEF p, d
<1>4. CASE w.told /\ d.update = UPDATE_DROPPED
  <2>1. LeaverIn(w) = {p} /\ p \in Player
    BY <1>3, <1>4 DEF LeaverIn, p, d
  <2>2. /\ Own(v.flag, v.holder, Flags, D \cup {p})
        /\ Own(v.shovel, v.holder, Shovels, D \cup {p})
    BY <1>1, <1>2, <1>4, <2>1, HandEmptied DEF HandsOwn
  <2>. QED
    BY <2>1, <2>2 DEF HandsOwn
<1>5. CASE ~(w.told /\ d.update = UPDATE_DROPPED)
  <2>1. LeaverIn(w) = {} /\ D \cup LeaverIn(w) = D
    BY <1>5 DEF LeaverIn, d
  <2>. QED
    BY <1>1, <1>5, <2>1 DEF HandsOwn
<1>. QED
  BY <1>4, <1>5

(* The event of a request leaves the hands right, if they were and the     *)
(* carriers were too.                                                      *)
LEMMA HandsAfterEvent ==
  ASSUME TypeOK', LinksInv', ByHand, NEW r \in RepType, HandsOwn(r, {}),
         \A x \in Object : r.holder[x] = obj.player[x],
         NEW e \in Event, Truthful(e)
  PROVE  HandsOwn(ApplyEvent(r, e), {})
<1>. DEFINE r1 == ApplyGame(r, e.game)
            r2 == ApplyPlayer(r1, e.a)
            r3 == ApplyPlayer(r2, e.b)
            v  == ApplyObjects(r3, e.objs, FALSE)
            D1 == LeaverIn(e.a)
            D  == D1 \cup LeaverIn(e.b)
<1>1. /\ IsGameWord(e.game) /\ IsPlayerWord(e.a) /\ IsPlayerWord(e.b)
      /\ AreObjectWords(e.objs) /\ ApplyEvent(r, e) = v
  BY DEF Event, IsEvent, ApplyEvent
<1>. HIDE DEF r1, r2, r3, v, D1, D
<1>2. /\ r1 \in RepType /\ r1.holder = r.holder /\ r1.flag = r.flag /\ r1.shovel = r.shovel
  BY <1>1, ApplyGameIs DEF r1
<1>3. HandsOwn(r1, {})
  BY <1>2 DEF HandsOwn
<1>4. PlayerApplied(r1, r2, e.a)
  BY <1>1, <1>2, ApplyPlayerIs DEF r2
<1>5. HandsOwn(r2, D1) /\ D1 \in SUBSET Player /\ r2 \in RepType /\ r2.holder = r.holder
  <2>1. HandsOwn(r2, {} \cup D1) /\ D1 \in SUBSET Player
    BY <1>1, <1>2, <1>3, <1>4, HandsOfPlayer, {} \in SUBSET Player DEF D1
  <2>2. {} \cup D1 = D1
    OBVIOUS
  <2>. QED
    BY <1>2, <1>4, <2>1, <2>2 DEF PlayerApplied
<1>6. PlayerApplied(r2, r3, e.b)
  BY <1>1, <1>5, ApplyPlayerIs DEF r3
<1>7. HandsOwn(r3, D) /\ D \in SUBSET Player /\ r3 \in RepType /\ r3.holder = r.holder
  <2>1. HandsOwn(r3, D) /\ LeaverIn(e.b) \in SUBSET Player
    BY <1>1, <1>5, <1>6, HandsOfPlayer DEF D
  <2>. QED
    BY <1>5, <1>6, <2>1 DEF PlayerApplied, D
<1>8. ASSUME NEW d \in D PROVE playerCell'[d] = None /\ d \in Player
  <2>1. TrueWord(e.a) /\ TrueWord(e.b)
    BY DEF Truthful, TellsPlayers
  <2>. QED
    BY <1>8, <2>1 DEF D, D1, LeaverIn, TrueWord
<1>9. ASSUME NEW x \in Object PROVE obj'.player[x] \notin D
  <2>1. obj'.cell[x] \in Cell /\ None \notin Cell
    BY GameAssumption DEF TypeOK, ObjType
  <2>. QED
    BY <1>8, <2>1 DEF LinksInv, Linked, Links
<1>10. ASSUME NEW i \in 1 .. 4, ObjectAt[i] \in Object
       PROVE  IF e.objs[i].told THEN HolderIn(e.objs[i]) = obj'.player[ObjectAt[i]]
              ELSE obj'.player[ObjectAt[i]] = obj.player[ObjectAt[i]]
  BY <1>10 DEF Truthful, TellsObjects
<1>11. Gives(r3, e.objs, D)
  <2>1. ASSUME NEW i \in 1 .. 4, e.objs[i].told
        PROVE  LET x == ObjectAt[i]
                   p == HolderIn(e.objs[i])
               IN  \/ p \in {None, r3.holder[x]}
                   \/ /\ r3.holder[x] = None /\ p \notin D
                      /\ \A j \in 1 .. 4 :
                           LET y == ObjectAt[j]
                           IN  y \in Object /\ y[2] = x[2] /\ j # i
                               => /\ r3.holder[y] # p
                                  /\ e.objs[j].told => HolderIn(e.objs[j]) # p
    <3>. DEFINE x == ObjectAt[i]
                p == HolderIn(e.objs[i])
    <3>1. x \in Object
      BY <1>1, <2>1 DEF AreObjectWords, IsObjectWord
    <3>2. p = obj'.player[x] /\ r3.holder[x] = obj.player[x] /\ p \notin D
      BY <1>7, <1>9, <1>10, <2>1, <3>1
    <3>3. /\ obj.player[x] = None => obj'.player[x] = None \/ PickedAlone(x)
          /\ obj.player[x] # None => obj'.player[x] \in {obj.player[x], None}
      BY <3>1 DEF ByHand
    <3>. HIDE DEF x, p
    <3>4. ASSUME PickedAlone(x), NEW j \in 1 .. 4, NEW y, y = ObjectAt[j], y \in Object,
                 y[2] = x[2], j # i
          PROVE  /\ r3.holder[y] # p
                 /\ e.objs[j].told => HolderIn(e.objs[j]) # p
      <4>1. y # x
        BY <3>1, <3>4, ObjectAtIs DEF x
      <4>2. obj'.player[y] = obj.player[y] /\ obj.player[y] # obj'.player[x]
        <5>. HIDE DEF x
        <5>. QED
          BY <3>4, <4>1 DEF PickedAlone
      <4>. QED
        BY <1>7, <1>10, <3>2, <3>4, <4>2
    <3>5. CASE obj.player[x] # None \/ obj'.player[x] = None
      BY <3>2, <3>3, <3>5 DEF x, p
    <3>6. CASE obj.player[x] = None /\ obj'.player[x] # None
      BY <3>2, <3>3, <3>4, <3>6 DEF x, p
    <3>. QED
      BY <3>5, <3>6
  <2>. QED
    BY <2>1 DEF Gives
<1>12. HandsOwn(v, D)
  BY <1>1, <1>7, <1>11, HandsRun DEF v
<1>13. ASSUME NEW x \in Object PROVE v.holder[x] = obj'.player[x]
  <2>1. PICK i \in 1 .. 4 : x = ObjectAt[i]
    BY ObjectAtIs
  <2>2. Written(r3, v, e.objs, 4)
    BY <1>1, <1>7, ApplyObjectsIs DEF v
  <2>3. IF e.objs[i].told THEN v.holder[x] = HolderIn(e.objs[i])
        ELSE v.holder[x] = r3.holder[x]
    BY <2>1, <2>2 DEF Written
  <2>. QED
    BY <1>7, <1>10, <2>1, <2>3
<1>14. HandsOwn(v, {})
  BY <1>7, <1>9, <1>12, <1>13, GameAssumption DEF HandsOwn, Own, Flags, Shovels
<1>. QED
  BY <1>1, <1>14

-----------------------------------------------------------------------------
(* The hands of a client that nothing has overtaken.  As long as the sync  *)
(* is as true as when it was read, no event is on its way to the client;   *)
(* the hands are empty until the sync comes, and while it is installed, or *)
(* installed again, a carrier is either right or not yet drawn.            *)
EmptyHands ==
  /\ \A p \in Player : rep.flag[p] = None /\ rep.shovel[p] = None
  /\ \A x \in Object : rep.holder[x] = None

HandsInv ==
  /\ overtaken => served > 0
  /\ served = 0 =>
       /\ phase = "away" \/ Kept => wire = <<>>
       /\ Early => EmptyHands
       /\ phase \in {"sent", "players"} => HandsOwn(rep, {})
       /\ phase = "sent" => \A x \in Object : rep.holder[x] \in {None, obj.player[x]}
  /\ phase = "live" /\ ~overtaken => HandsOwn(Copy, {})

LEMMA HandsInit == PlayInit => HandsInv
<1>. SUFFICES ASSUME PlayInit PROVE HandsInv
  OBVIOUS
<1>1. PICK start : rep = [pos    |-> [p \in Player |-> Nowhere],
                          jailed |-> [p \in Player |-> FALSE],
                          who    |-> [c \in Cell |-> None],
                          state  |-> [c \in Cell |-> "empty"],
                          on     |-> OnAt(start),
                          start  |-> start,
                          at     |-> [x \in Object |-> Nowhere],
                          holder |-> [x \in Object |-> None],
                          flag   |-> [p \in Player |-> None],
                          shovel |-> [p \in Player |-> None],
                          floor  |-> {},
                          game   |-> "waiting"]
  BY DEF PlayInit
<1>2. phase = "away" /\ wire = <<>> /\ overtaken = FALSE
  BY DEF PlayInit
<1>3. /\ rep.flag = [p \in Player |-> None] /\ rep.shovel = [p \in Player |-> None]
      /\ rep.holder = [x \in Object |-> None]
  BY <1>1
<1>4. EmptyHands
  BY <1>3 DEF EmptyHands
<1>. QED
  BY <1>2, <1>4 DEF HandsInv

LEMMA CarriersKnown ==
  ASSUME PlayInv, QuietInv, ~overtaken, phase = "live"
  PROVE  Copy \in RepType /\ \A x \in Object : Copy.holder[x] = obj.player[x]
<1>1. rep \in RepType /\ wire \in Seq(Event) /\ Excused(Copy, stale) /\ stale = NoEntry
  BY DEF PlayInv, RepInv, RepOK, SyncInv, Knows, QuietInv
<1>2. Copy \in RepType
  BY <1>1, ToldType DEF Copy
<1>3. \A x \in Object : RightOnObject(Copy, x)
  BY <1>1, EmptyEntry DEF Excused
<1>. QED
  BY <1>2, <1>3 DEF RightOnObject

LEMMA HandsServer ==
  ASSUME PlayInv, QuietInv, HandsInv, ServerStep, TypeOK', LinksInv', ByHand
  PROVE  HandsInv'
<1>1. /\ UNCHANGED <<rep, phase, reply, installed, subscribed>>
      /\ served' = IF Connecting THEN served + 1 ELSE served
      /\ overtaken' = (overtaken \/ (phase = "live" /\ ~subscribed))
  BY DEF ServerStep
<1>2. /\ served \in Nat /\ overtaken \in BOOLEAN /\ subscribed \in BOOLEAN
      /\ wire \in Seq(Event) /\ rep \in RepType /\ phase \in Phase
  BY ReplicaAssumption DEF PlayInv, RepInv, RepOK
<1>3. served' = 0 => served = 0 /\ ~Connecting
  BY <1>1, <1>2
<1>4. Kept' <=> Kept
  BY <1>1 DEF Kept
<1>5. ASSUME served' = 0
      PROVE  /\ phase = "away" \/ Kept => wire' = <<>>
             /\ Early => EmptyHands'
             /\ phase \notin {"sent", "players"}
  <2>1. ~Kept /\ served = 0
    BY <1>3, <1>5 DEF Connecting
  <2>2. Early => phase = "away"
    BY <2>1 DEF Early, Kept
  <2>3. phase = "away" => wire = <<>> /\ ~subscribed /\ EmptyHands
    BY <2>1 DEF HandsInv, PlayInv, SyncInv, Unheard, Early
  <2>4. phase = "away" => wire' = <<>>
    <3>1. PICK about \in Entries : Reaches(about)
      BY ServerStory, ServerStepIsNext, NextInv DEF PlayInv
    <3>. QED
      BY <2>3, <3>1 DEF Reaches
  <2>5. phase = "away" => EmptyHands'
    BY <1>1, <2>3 DEF EmptyHands
  <2>. QED
    BY <2>1, <2>2, <2>4, <2>5 DEF Kept
<1>6. overtaken' => served' > 0
  <2>1. overtaken => served > 0
    BY DEF HandsInv
  <2>2. phase = "live" /\ ~subscribed => Connecting
    BY DEF Connecting
  <2>. QED
    BY <1>1, <1>2, <2>1, <2>2
<1>7. ASSUME phase = "live", ~overtaken' PROVE HandsOwn(Copy, {})'
  <2>1. ~overtaken /\ subscribed
    <3>1. ~(overtaken \/ (phase = "live" /\ ~subscribed))
      BY <1>1, <1>7, Zenon
    <3>. QED
      BY <1>7, <3>1
  <2>. DEFINE r == Copy
  <2>2. HandsOwn(r, {}) /\ r \in RepType /\ \A x \in Object : r.holder[x] = obj.player[x]
    BY <1>7, <2>1, CarriersKnown DEF HandsInv
  <2>3. CASE Silent
    <3>1. Copy' = r
      BY <1>1, <2>3 DEF Silent, Copy
    <3>. QED
      BY <2>2, <3>1 DEF HandsOwn
  <2>4. ASSUME NEW e \in Event, Emitted(e), Truthful(e) PROVE HandsOwn(Copy, {})'
    <3>1. wire' = Append(wire, e)
      BY <2>1, <2>4 DEF Emitted
    <3>2. Copy' = ApplyEvent(r, e)
      BY <1>1, <1>2, <2>4, <3>1, ToldAppend DEF Copy
    <3>. HIDE DEF r
    <3>3. HandsOwn(ApplyEvent(r, e), {})
      BY <2>2, <2>4, HandsAfterEvent
    <3>4. HandsOwn(Copy', {})
      BY <3>2, <3>3
    <3>. QED
      BY <3>4 DEF HandsOwn
  <2>. QED
    BY <2>3, <2>4, ServerTells, ServerStepIsNext, NextInv DEF PlayInv
<1>8. Early' <=> Early
  BY <1>1 DEF Early
<1>. QED
  BY <1>1, <1>4, <1>5, <1>6, <1>7, <1>8 DEF HandsInv

(* The sync gives each hand at most one object.                            *)
LEMMA HandsGiven ==
  ASSUME PlayInv, QuietInv, HandsInv, LinksInv, InstallObject, served = 0
  PROVE  HandsOwn(rep', {}) /\ \A x \in Object : rep'.holder[x] \in {None, obj.player[x]}
<1>. DEFINE k == installed + 1
            w == reply.objs[k]
            y == ObjectAt[k]
            q == HolderIn(w)
<1>1. /\ k \in 1 .. 4 /\ phase = "sent" /\ AreObjectWords(reply.objs) /\ IsObjectWord(w)
      /\ rep' = ApplyObject(rep, w, TRUE) /\ ObjectApplied(rep, rep', w)
      /\ w.told => ObjectIn(w) = y
  BY ObjectInstalled DEF PlayInv
<1>2. rep \in RepType /\ ObjectsTrue /\ TypeOK
  BY DEF PlayInv, RepInv, RepOK, SyncInv, Inv
<1>3. /\ HandsOwn(rep, {}) /\ \A x \in Object : rep.holder[x] \in {None, obj.player[x]}
      /\ changed = NoEntry
  BY <1>1 DEF HandsInv, QuietInv
<1>. HIDE DEF k, w, y, q
<1>4. w.told => y \in Object /\ q = obj.player[y]
  <2>1. Held /\ changed.objects = {}
    BY <1>1, <1>3, EmptyEntry DEF Held
  <2>2. w.told => y \in Object
    BY <1>1 DEF IsObjectWord
  <2>. QED
    BY <1>1, <1>2, <2>1, <2>2 DEF ObjectsTrue, w, y, q
<1>5. ASSUME w.told, q \notin {None, rep.holder[y]}, NEW x \in Object, x[2] = y[2]
      PROVE  rep.holder[x] # q
  <2>1. CASE x = y
    BY <1>5, <2>1
  <2>2. CASE x # y
    <3>1. obj.player[y] \in Player
      BY <1>2, <1>4, <1>5 DEF TypeOK, ObjType
    <3>2. obj.player[x] # obj.player[y]
      BY <1>4, <1>5, <2>2, <3>1 DEF LinksInv, Linked, Links
    <3>. QED
      BY <1>3, <1>4, <1>5, <3>2
  <2>. QED
    BY <2>1, <2>2
<1>6. w.told => \/ q \in {None, rep.holder[y]}
                \/ /\ rep.holder[y] = None /\ q \notin {}
                   /\ \A x \in Object : x[2] = y[2] => rep.holder[x] # q
  BY <1>3, <1>4, <1>5
<1>7. HandsOwn(rep', {})
  <2>1. {} \in SUBSET Player /\ TRUE \in BOOLEAN
    OBVIOUS
  <2>2. w.told => ObjectIn(w) = y /\ HolderIn(w) = q
    BY <1>1 DEF q
  <2>3. HandsOwn(ApplyObject(rep, w, TRUE), {})
    BY <1>1, <1>2, <1>3, <1>6, <2>1, <2>2, HandsStep
  <2>. QED
    BY <1>1, <2>3
<1>8. ASSUME NEW x \in Object PROVE rep'.holder[x] \in {None, obj.player[x]}
  <2>1. \/ rep'.holder = rep.holder
        \/ w.told /\ rep'.holder = [rep.holder EXCEPT ![y] = q]
    BY <1>1 DEF ObjectApplied, q
  <2>. QED
    BY <1>2, <1>3, <1>4, <2>1 DEF RepType
<1>. QED
  BY <1>7, <1>8

(* Nothing is taken from or put into a hand.                               *)
LEMMA SameHands ==
  ASSUME NEW r, NEW v, v.holder = r.holder, v.flag = r.flag, v.shovel = r.shovel,
         NEW D, HandsOwn(r, D)
  PROVE  HandsOwn(v, D)
BY DEF HandsOwn

LEMMA HandsClient ==
  ASSUME PlayInv, QuietInv, HandsInv, LinksInv, ClientStep
  PROVE  HandsInv'
<1>1. /\ RepInv /\ rep \in RepType /\ wire \in Seq(Event)
      /\ served \in Nat /\ overtaken \in BOOLEAN
  BY ReplicaAssumption DEF PlayInv, RepInv, RepOK
<1>2. /\ overtaken => served > 0
      /\ served = 0 => /\ phase = "away" \/ Kept => wire = <<>>
                       /\ Early => EmptyHands
                       /\ phase \in {"sent", "players"} => HandsOwn(rep, {})
                       /\ phase = "sent" =>
                            \A x \in Object : rep.holder[x] \in {None, obj.player[x]}
      /\ phase = "live" /\ ~overtaken => HandsOwn(Copy, {})
  BY DEF HandsInv
<1>3. EmptyHands /\ UNCHANGED rep => EmptyHands'
  BY DEF EmptyHands
<1>4. UNCHANGED <<rep, wire>> => Copy' = Copy
  BY DEF Copy
<1>5. ASSUME UNCHANGED <<rep, obj, wire, served, overtaken>>,
             Early' => Early, phase' \in {"sent", "players"} => phase' = phase,
             phase' = "live" => phase = "live",
             phase' = "away" \/ Kept' => phase = "away" \/ Kept
      PROVE  HandsInv'
  BY <1>2, <1>3, <1>4, <1>5 DEF HandsInv, HandsOwn
<1>6. Connect \/ Subscribe \/ Greet => HandsInv'
  BY <1>5 DEF Connect, Subscribe, Greet, Reader, vars, Early, Kept
<1>7. ReadWalls => HandsInv'
  BY <1>5 DEF ReadWalls, Reader, vars, Early, Kept
<1>8. ASSUME NEW t, NEW from, NEW to, ReadPlayers(t, from, to),
             <<from, to>> \in {<<"red", "blue">>, <<"blue", "objects">>}
      PROVE  HandsInv'
  BY <1>5, <1>8 DEF ReadPlayers, Reader, vars, Early, Kept
<1>9. (\E t, from : SyncCrash(t, from)) => HandsInv'
  BY <1>5 DEF SyncCrash, channel, Early, Kept
<1>10. ASSUME ReadObjects PROVE HandsInv'
  <2>1. /\ UNCHANGED <<rep, obj, wire, served, overtaken>>
        /\ phase = "objects" /\ phase' = "sent"
    BY <1>10 DEF ReadObjects, Reader, vars
  <2>2. Kept /\ Early /\ ~Early'
    BY <2>1 DEF Kept, Early
  <2>3. ASSUME EmptyHands
        PROVE  HandsOwn(rep, {}) /\ \A x \in Object : rep.holder[x] \in {None, obj.player[x]}
    BY <2>3, GameAssumption DEF EmptyHands, HandsOwn, Own, Flags, Shovels
  <2>. QED
    BY <1>2, <2>1, <2>2, <2>3 DEF HandsInv, HandsOwn
<1>11. ASSUME InstallObject PROVE HandsInv'
  <2>1. /\ UNCHANGED <<obj, phase, reply, wire, served, overtaken>> /\ phase = "sent"
    BY <1>11 DEF InstallObject, vars
  <2>2. Kept /\ ~Early'
    BY <2>1 DEF Kept, Early
  <2>3. served = 0 => /\ HandsOwn(rep', {})
                      /\ \A x \in Object : rep'.holder[x] \in {None, obj.player[x]}
    BY <1>11, HandsGiven
  <2>. QED
    BY <1>2, <2>1, <2>2, <2>3 DEF HandsInv, HandsOwn
<1>12. ASSUME InstallWalls PROVE HandsInv'
  <2>1. /\ UNCHANGED <<wire, served, overtaken>> /\ phase = "sent" /\ phase' = "players"
    BY <1>12 DEF InstallWalls
  <2>2. Kept /\ ~Early'
    BY <2>1 DEF Kept, Early
  <2>3. rep'.holder = rep.holder /\ rep'.flag = rep.flag /\ rep'.shovel = rep.shovel
    BY <1>1, <1>12, WallsInstalled
  <2>4. served = 0 => HandsOwn(rep', {})
    BY <1>2, <2>1, <2>3, SameHands
  <2>. QED
    BY <1>2, <2>1, <2>2, <2>4 DEF HandsInv, HandsOwn
<1>13. ASSUME InstallPlayer PROVE HandsInv'
  <2>. DEFINE k == installed + 1
              n == Len(reply.players)
              w == reply.players[k]
  <2>1. /\ n \in Nat /\ k \in 1 .. n /\ phase = "players"
        /\ UNCHANGED <<reply, wire, served>>
        /\ PlayerApplied(rep, rep', w)
        /\ k < n => UNCHANGED <<phase, overtaken>>
        /\ k = n => phase' = "live" /\ overtaken' = (overtaken \/ served > 0)
    BY <1>1, <1>13, PlayerInstalled
  <2>2. PlayersTrue /\ Kept
    BY <2>1 DEF PlayInv, SyncInv, Kept
  <2>. HIDE DEF k, n
  <2>3. ASSUME served = 0 PROVE HandsOwn(rep', {}) /\ Copy' = rep' /\ wire = <<>>
    <3>1. changed.players = {} /\ HandsOwn(rep, {}) /\ wire = <<>>
      BY <1>2, <2>1, <2>2, <2>3, EmptyEntry DEF QuietInv
    <3>2. w.told => DecompressPlayer(w).update # UPDATE_DROPPED
      BY <2>1, <2>2, <3>1 DEF PlayersTrue, SaysTrue, n
    <3>. HIDE DEF w
    <3>3. rep'.holder = rep.holder /\ rep'.flag = rep.flag /\ rep'.shovel = rep.shovel
      BY <2>1, <3>2 DEF PlayerApplied
    <3>4. Copy' = rep'
      BY <2>1, <3>1, ToldNothing DEF Copy
    <3>. QED
      BY <3>1, <3>3, <3>4, SameHands
  <2>. HIDE DEF w
  <2>4. CASE k < n
    <3>1. phase' = "players" /\ overtaken' = overtaken /\ served' = served /\ wire' = wire
      BY <2>1, <2>4
    <3>2. ~Early'
      BY <3>1 DEF Early
    <3>. QED
      BY <1>2, <2>2, <2>3, <3>1, <3>2 DEF HandsInv, HandsOwn
  <2>5. CASE k = n
    <3>1. phase' = "live" /\ served' = served /\ wire' = wire
      BY <2>1, <2>5
    <3>2. ~Early'
      BY <3>1 DEF Early
    <3>3. overtaken' => served > 0
      <4>1. overtaken' = (overtaken \/ served > 0)
        BY <2>1, <2>5
      <4>2. CASE served > 0
        BY <4>2
      <4>3. CASE ~(served > 0)
        <5>1. overtaken' => overtaken
          BY <4>1, <4>3, Zenon
        <5>. QED
          BY <1>2, <5>1
      <4>. QED
        BY <4>2, <4>3
    <3>4. ~overtaken' => served = 0
      <4>1. overtaken' = (overtaken \/ served > 0)
        BY <2>1, <2>5
      <4>2. ~overtaken' => ~(served > 0)
        BY <4>1, Zenon
      <4>. QED
        BY <1>1, <4>2
    <3>5. served = 0 => HandsOwn(Copy', {})
      BY <2>3
    <3>. QED
      BY <2>3, <3>1, <3>2, <3>3, <3>4, <3>5 DEF HandsInv, HandsOwn
  <2>. QED
    BY <2>1, <2>4, <2>5
<1>14. ASSUME Again PROVE HandsInv'
  <2>1. /\ UNCHANGED <<rep, obj, reply, wire, served, overtaken>>
        /\ phase = "live" /\ reply # NoReply /\ phase' = "sent"
    BY <1>14 DEF Again, Reader, vars
  <2>2. Kept /\ ~Early'
    BY <2>1 DEF Kept, Early
  <2>3. ASSUME served = 0
        PROVE  /\ wire = <<>> /\ HandsOwn(rep, {})
               /\ \A x \in Object : rep.holder[x] = obj.player[x]
    <3>1. ~overtaken /\ wire = <<>>
      BY <1>2, <2>2, <2>3
    <3>2. Copy = rep
      BY <3>1, ToldNothing DEF Copy
    <3>3. HandsOwn(Copy, {}) /\ \A x \in Object : Copy.holder[x] = obj.player[x]
      BY <1>2, <2>1, <3>1, CarriersKnown
    <3>. QED
      BY <3>1, <3>2, <3>3
  <2>. QED
    BY <1>2, <2>1, <2>2, <2>3 DEF HandsInv, HandsOwn
<1>15. ASSUME Deliver PROVE HandsInv'
  <2>1. /\ wire # <<>> /\ rep' = ApplyEvent(rep, Head(wire)) /\ wire' = Tail(wire)
        /\ UNCHANGED <<phase, reply, served, overtaken>>
    BY <1>15 DEF Deliver
  <2>2. Copy' = Copy
    BY <1>1, <2>1, ToldHead DEF Copy
  <2>3. served = 0 => phase = "live" /\ ~Kept /\ ~Kept' /\ ~Early'
    BY <1>2, <2>1 DEF Kept, Early
  <2>. QED
    BY <1>2, <2>1, <2>2, <2>3 DEF HandsInv, HandsOwn
<1>. QED
  BY <1>6, <1>7, <1>8, <1>9, <1>10, <1>11, <1>12, <1>13, <1>14, <1>15 DEF ClientStep

LEMMA LinksPlay ==
  ASSUME RoomAtHome, PlayInv, LinksInv, [PlayNext]_playVars
  PROVE  LinksInv' /\ (ServerStep => ByHand)
<1>1. ServerStep => LinksInv' /\ ByHand
  BY ServerStepIsNext, NextLinks DEF PlayInv
<1>2. ClientStep \/ UNCHANGED playVars => UNCHANGED <<obj, fd, playerCell>>
  BY DEF ClientStep, Connect, Subscribe, ReadWalls, ReadPlayers, SyncCrash, ReadObjects,
         InstallObject, InstallWalls, InstallPlayer, Again, Greet, Deliver, Reader,
         playVars, vars, registry, places
<1>3. UNCHANGED <<obj, fd, playerCell>> => LinksInv' /\ ByHand
  BY StillLinks
<1>. QED
  BY <1>1, <1>2, <1>3 DEF PlayNext

LEMMA HandsStill ==
  ASSUME HandsInv, UNCHANGED playVars
  PROVE  HandsInv'
<1>1. UNCHANGED <<rep, obj, phase, reply, wire, served, overtaken>>
  BY DEF playVars, vars, channel
<1>2. Copy' = Copy /\ (Early' <=> Early) /\ (Kept' <=> Kept)
  BY <1>1 DEF Copy, Early, Kept
<1>3. EmptyHands => EmptyHands'
  BY <1>1 DEF EmptyHands
<1>. QED
  BY <1>1, <1>2, <1>3 DEF HandsInv, HandsOwn

(* HandsKnown: a client that nothing overtook while it connected knows     *)
(* what is in every hand, however often it installs that sync, although no *)
(* event says so: an object word only names a carrier, and the client      *)
(* moves the object from hand to hand by what it believed before.          *)
THEOREM HandsAreKnown == RoomAtHome /\ PlaySpec => []HandsKnown
<1>. SUFFICES ASSUME RoomAtHome PROVE PlaySpec => []HandsKnown
  OBVIOUS
<1>. DEFINE All == PlayInv /\ QuietInv /\ LinksInv /\ HandsInv
<1>1. PlayInit => All
  <2>. SUFFICES ASSUME PlayInit PROVE All
    OBVIOUS
  <2>1. LinksInv
    BY InitLinks DEF PlayInit
  <2>. QED
    BY <2>1, PlayInitInv, QuietInit, HandsInit
<1>2. All /\ [PlayNext]_playVars => All'
  <2>. SUFFICES ASSUME All, [PlayNext]_playVars PROVE All'
    OBVIOUS
  <2>1. PlayInv' /\ QuietInv'
    BY PlayNextInv, QuietServer, QuietClient, QuietStill DEF PlayNext
  <2>2. LinksInv' /\ (ServerStep => ByHand)
    BY LinksPlay
  <2>3. TypeOK'
    BY <2>1 DEF PlayInv, Inv
  <2>4. HandsInv'
    BY <2>2, <2>3, HandsServer, HandsClient, HandsStill DEF PlayNext
  <2>. QED
    BY <2>1, <2>2, <2>4
<1>3. All => HandsKnown
  <2>. SUFFICES ASSUME All, phase = "live", ~overtaken, NEW p \in Player
                PROVE  /\ Copy.flag[p] = obj.flag[p]
                       /\ Copy.shovel[p] = obj.shovel[p]
    BY DEF HandsKnown, Copy
  <2>. DEFINE r == Copy
  <2>1. /\ \A x \in Object : r.holder[x] = obj.player[x]
        /\ HandsOwn(r, {}) /\ TypeOK
    BY CarriersKnown DEF HandsInv, PlayInv, Inv
  <2>. HIDE DEF r
  <2>2. /\ r.flag[p] \in Flags \cup {None} /\ r.shovel[p] \in Shovels \cup {None}
        /\ \A x \in Flags : r.flag[p] = x <=> obj.player[x] = p
        /\ \A x \in Shovels : r.shovel[p] = x <=> obj.player[x] = p
    BY <2>1 DEF HandsOwn, Own, Flags, Shovels
  <2>3. /\ obj.flag[p] \in Object \cup {None} /\ obj.shovel[p] \in Object \cup {None}
        /\ obj.flag[p] # None => obj.player[obj.flag[p]] = p /\ obj.flag[p][2] = "flag"
        /\ obj.shovel[p] # None => obj.player[obj.shovel[p]] = p /\ obj.shovel[p][2] = "shovel"
        /\ \A x \in Object : obj.player[x] = p =>
             x = IF x[2] = "flag" THEN obj.flag[p] ELSE obj.shovel[p]
    BY <2>1 DEF TypeOK, ObjType, LinksInv, Linked, Links, Kinds
  <2>4. r.flag[p] = obj.flag[p]
    BY <2>2, <2>3, GameAssumption DEF Flags
  <2>5. r.shovel[p] = obj.shovel[p]
    BY <2>2, <2>3, GameAssumption DEF Shovels
  <2>. QED
    BY <2>4, <2>5 DEF r
<1>. QED
  BY <1>1, <1>2, <1>3, PTL DEF PlaySpec
=============================================================================
