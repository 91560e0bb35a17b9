------------------------------- MODULE Replica ------------------------------
(***************************************************************************)
(* The copy of the game that a client keeps (game_client.c, client.c), fed *)
(* by the server of module Game in two ways: the reply to the sync request *)
(* that the client sends when it connects, and the event of every request  *)
(* that succeeds, which the event connection delivers in order.            *)
(*                                                                         *)
(* The sync reads the walls, the two player lists and the objects one      *)
(* after the other while requests go on, and the client installs the reply *)
(* word by word, without the lock that protects the installation of        *)
(* events.  The session keeps the reply until the answer to another        *)
(* request replaces it, and the shell processes the reply that the session *)
(* keeps after every command, one that sends no request included: until    *)
(* the client has said hello, the sync may be installed again, over events *)
(* that came after it.  The server accepts the event connection in a       *)
(* thread of its own, so the events may start before the sync is read or   *)
(* after it is installed.                                                  *)
(***************************************************************************)
EXTENDS Game, Codec

CONSTANTS
  InFlight,        \* bound on the events on their way to the client
  Overtake       \* bound on the requests served before the client settles

VARIABLES
  rep,           \* the client's maze, see RepType
  phase,         \* how far the sync has come
  reply,         \* the sync that the session keeps: walls, players, objects
  installed,     \* the words of the list at hand that are installed
  subscribed,    \* the server has accepted the event connection
  wire,          \* the events sent and not yet applied
  served,        \* the requests served since the client called connect
  overtaken,     \* one of them overtook the sync, or no event told of it
  changed,       \* what they changed since the sync read it
  stale          \* what the client may have wrong

channel == <<phase, reply, installed, subscribed, wire, served, overtaken>>
playVars == <<vars, rep, channel, changed, stale>>

(* The position that bzero gives to a player, an object or a player that   *)
(* has left; the map files have a wall there that no shovel breaks.        *)
Nowhere == <<0, 0>>

ASSUME ReplicaAssumption ==
  /\ InFlight \in Nat \ {0} /\ Overtake \in Nat
  /\ Nowhere \in Cell /\ CellType[Nowhere] = "wall" /\ Nowhere \notin MutableWalls
  /\ Columns <= 256 /\ Rows <= 256
  /\ \A p \in Player : p[2] < 256
  /\ MaxPlayers[TEAM_RED] = MaxPlayers[TEAM_BLUE]

CellState == {"empty", "occupied", "holding", "occupied_holding"}
Phase     == {"away", "walls", "red", "blue", "objects", "sent", "players", "live"}

(* client_position and state of the players, cell->player, ->cell_state    *)
(* and ->object, object->cell, ->client_position and client_player,        *)
(* player->flag and ->shovel, the walls turned into floor, the game state. *)
RepType == [pos    : [Player -> Cell],
            jailed : [Player -> BOOLEAN],
            who    : [Cell -> Player \cup {None}],
            state  : [Cell -> CellState],
            on     : [Cell -> Object \cup {None}],
            start  : [Object -> Cell],
            at     : [Object -> Cell],
            holder : [Object -> Player \cup {None}],
            flag   : [Player -> Object \cup {None}],
            shovel : [Player -> Object \cup {None}],
            floor  : SUBSET Cell,
            game   : GameState]

-----------------------------------------------------------------------------
(* The words of a player, an object, a wall and the game state.            *)
UPDATE_UNCHANGED == 0
UPDATE_ADDED     == 1
UPDATE_DROPPED   == 2

PlayerWord(p, c, isJailed, update) ==
  CompressPlayer([y |-> c[2], x |-> c[1], id |-> IdOf(p),
                  state |-> IF isJailed THEN 1 ELSE 0, team |-> TeamOf(p),
                  update |-> update])

ObjectWord(x, o) ==
  LET p == o.player[x]
  IN  CompressObject([y |-> o.cell[x][2], x |-> o.cell[x][1],
                      id |-> IF p = None THEN 0 ELSE IdOf(p),
                      holderTeam |-> IF p = None THEN 0 ELSE TeamOf(p),
                      held |-> IF p = None THEN 0 ELSE 1,
                      type |-> IF x[2] = "flag" THEN 0 ELSE 1, team |-> x[1]])

(* The places of the four objects in an event and in the reply to a sync.  *)
ObjectAt == << <<TEAM_RED, "flag">>, <<TEAM_BLUE, "flag">>,
               <<TEAM_RED, "shovel">>, <<TEAM_BLUE, "shovel">> >>
ObjectWords(tell, o) ==
  [i \in 1 .. 4 |-> IF ObjectAt[i] \in tell THEN ObjectWord(ObjectAt[i], o)
                    ELSE Ignored]

GameCode == [s \in GameState |-> CASE s = "waiting"  -> 1
                                   [] s = "active"   -> 2
                                   [] s = "red_win"  -> 3
                                   [] s = "blue_win" -> 4]

(* The first word of an event: the game state and at most one broken wall. *)
GameWord(s, walls) ==
  LET w == IF walls = {} THEN Ignored
           ELSE CompressWall(Ignored, CHOOSE c \in walls : TRUE)
  IN  CompressState(w, GameCode[s])

-----------------------------------------------------------------------------
(* update_players: a player leaves the cell where the client last saw it.  *)
VacateCell(r, c) ==
  [r EXCEPT !.who[c] = None,
            !.state[c] = IF r.on[c] = None THEN "empty" ELSE "holding"]

(* Mutant: the old cell is cleared of this player only if it is not the    *)
(* new one.                                                                *)
PlaceKept(r, p, c) ==
  [r EXCEPT !.pos[p] = c, !.who[c] = p,
            !.state[c] = IF r.on[c] = None THEN "occupied" ELSE "occupied_holding"]

Place(r, p, c) ==
  LET v == VacateCell(r, r.pos[p])
  IN  [v EXCEPT !.pos[p] = c, !.who[c] = p,
                !.state[c] = IF v.on[c] = None THEN "occupied"
                             ELSE "occupied_holding"]

(* bzero of the player: its position becomes Nowhere.                      *)
Forget(r, p) ==
  LET v == VacateCell(r, r.pos[p])
  IN  [v EXCEPT !.pos[p] = Nowhere, !.jailed[p] = FALSE,
                !.flag[p] = None, !.shovel[p] = None]

ApplyPlayer(r, w) ==
  LET d == DecompressPlayer(w)
      p == <<d.team, d.id>>
  IN  IF ~w.told THEN r
      ELSE IF d.update = UPDATE_DROPPED THEN Forget(r, p)
      ELSE [Place(r, p, <<d.x, d.y>>) EXCEPT !.jailed[p] = (d.state = 1)]

InHand(r, p, x, held) ==
  IF x[2] = "flag" THEN [r EXCEPT !.flag[p] = held] ELSE [r EXCEPT !.shovel[p] = held]

(* Mutant: what was laid down stays in the hand.                           *)
LayDownHeld(r, x, c) ==
  [r EXCEPT !.state[c] = IF r.pos[r.holder[x]] = c THEN "occupied_holding" ELSE "holding",
            !.on[c] = x]

(* update_objects for one object: it was carried and now lies on c, it lay *)
(* and is now carried, or it lies elsewhere.  "cur" is the cell it leaves. *)
LayDown(r, x, c) ==
  LET p == r.holder[x]
  IN  [InHand(r, p, x, None) EXCEPT
         !.state[c] = IF r.pos[p] = c THEN "occupied_holding" ELSE "holding",
         !.on[c] = x]

TakeUp(r, x, p, cur, c) ==
  [InHand(r, p, x, x) EXCEPT
     !.on = [r.on EXCEPT ![cur] = None, ![c] = None], !.state[c] = "occupied"]

Relocate(r, x, cur, c) ==
  [r EXCEPT !.state[c] = IF r.who[c] = None THEN "holding" ELSE "occupied_holding",
            !.on = [r.on EXCEPT ![cur] = None, ![c] = x]]

UpdateObject(r, x, p, c, cur) ==
  LET v == IF r.holder[x] # None /\ p = None THEN LayDown(r, x, c)
           ELSE IF r.holder[x] = None /\ p # None THEN TakeUp(r, x, p, cur, c)
           ELSE IF p = None THEN Relocate(r, x, cur, c)
           ELSE r
  IN  [v EXCEPT !.at[x] = c, !.holder[x] = p]

(* In a sync, which has all four objects, an object leaves the cell that   *)
(* this client drew for it when it built its maze.                         *)
ApplyObject(r, w, sync) ==
  LET d == DecompressObject(w)
      x == <<d.team, IF d.type = 0 THEN "flag" ELSE "shovel">>
      p == IF d.held = 1 THEN <<d.holderTeam, d.id>> ELSE None
  IN  IF ~w.told THEN r
      ELSE UpdateObject(r, x, p, <<d.x, d.y>>, IF sync THEN r.start[x] ELSE r.at[x])

ApplyObjects(r, ws, sync) ==
  ApplyObject(ApplyObject(ApplyObject(ApplyObject(r,
    ws[1], sync), ws[2], sync), ws[3], sync), ws[4], sync)

ApplyGame(r, w) ==
  [r EXCEPT !.game = CHOOSE s \in GameState : GameCode[s] = DecompressState(w),
            !.floor = IF w.told THEN @ \cup {DecompressWall(w)} ELSE @]

(* update_handler: the state and the wall, two players, four objects.      *)
ApplyEvent(r, e) ==
  ApplyObjects(ApplyPlayer(ApplyPlayer(ApplyGame(r, e.game), e.a), e.b), e.objs, FALSE)

(* The copy once all the events on their way are applied.                  *)
Told(r, es) ==
  LET upTo[i \in 0 .. Len(es)] ==
        IF i = 0 THEN r ELSE ApplyEvent(upTo[i - 1], es[i])
  IN  upTo[Len(es)]

-----------------------------------------------------------------------------
(* What the replica r is right about: the place and the jailing of a       *)
(* player (those freed by a rescue are not told), the place and the        *)
(* carrier of an object, whether a wall is broken.                         *)
RightOnPlayer(r, p) ==
  /\ playerCell[p] # None => r.pos[p] = playerCell[p] /\ (jailed[p] => r.jailed[p])
  /\ fd[p] = None => r.pos[p] = Nowhere

RightOnObject(r, x) == r.at[x] = obj.cell[x] /\ r.holder[x] = obj.player[x]

RightOnWall(r, c) == c \in r.floor <=> c \in broken

Entries == [players : SUBSET Player, objects : SUBSET Object, walls : SUBSET Cell]
NoEntry == [players |-> {}, objects |-> {}, walls |-> {}]
Wrong(r) == [players |-> { p \in Player : ~RightOnPlayer(r, p) },
             objects |-> { x \in Object : ~RightOnObject(r, x) },
             walls   |-> { c \in Cell : ~RightOnWall(r, c) }]

(* What an event tells of.                                                 *)
Subjects(e) ==
  [players |-> { <<DecompressPlayer(w).team, DecompressPlayer(w).id>> :
                   w \in { v \in {e.a, e.b} : v.told } },
   objects |-> { ObjectAt[i] : i \in { j \in 1 .. 4 : e.objs[j].told } },
   walls   |-> IF e.game.told THEN {DecompressWall(e.game)} ELSE {}]

With(a, b)    == [k \in DOMAIN a |-> a[k] \cup b[k]]
Without(a, b) == [k \in DOMAIN a |-> a[k] \ b[k]]

(* What the events on their way will tell of.                              *)
ToBeTold ==
  [players |-> UNION { Subjects(wire[i]).players : i \in DOMAIN wire },
   objects |-> UNION { Subjects(wire[i]).objects : i \in DOMAIN wire },
   walls   |-> UNION { Subjects(wire[i]).walls : i \in DOMAIN wire }]

(* The client is on its way through a sync or may begin the same one again.*)
NoReply == [walls |-> {}, players |-> <<>>, objs |-> <<>>]
Kept    == phase \notin {"away", "live"} \/ reply # NoReply

(* The words of an event: the state and a broken wall, two players, and the*)
(* objects that the request has touched.                                   *)
EventOf(a, b) ==
  [game |-> GameWord(announced', broken' \ broken), a |-> a, b |-> b,
   objs |-> ObjectWords({ x \in Object : obj'.cell[x] # obj.cell[x]
                                         \/ obj'.player[x] # obj.player[x] },
                        obj')]

(* The end of a request that succeeds: the event goes to the client, if    *)
(* the server knows its event connection.  (Bound by \E, the event is      *)
(* evaluated once.)                                                        *)
Emit(a, b) ==
  \E e \in {EventOf(a, b)} : \E about \in {Subjects(e)} :
    /\ wire' = IF subscribed THEN Append(wire, e) ELSE wire
    /\ changed' = IF Kept THEN With(changed, about) ELSE changed
    /\ stale' = IF phase # "live" THEN stale
                ELSE IF subscribed THEN Without(stale, about) ELSE With(stale, about)

Silent == UNCHANGED <<wire, changed, stale>>

PlayerNow(p, update)   == PlayerWord(p, playerCell[p], jailed[p], update)
PlayerAfter(p, update) == PlayerWord(p, playerCell'[p], jailed'[p], update)

(* Mutant: the event of a tag leaves out who was jailed.                   *)
TellMoveAlone(n) == Emit(PlayerAfter(cellPlayer'[n], UPDATE_UNCHANGED), Ignored)

(* A move tells of the player on the target cell, and of the one it jailed.*)
TellMove(n) ==
  LET caught == { q \in Player : ~jailed[q] /\ jailed'[q] }
  IN  Emit(PlayerAfter(cellPlayer'[n], UPDATE_UNCHANGED),
           IF caught = {} THEN Ignored
           ELSE PlayerAfter(CHOOSE q \in caught : TRUE, UPDATE_UNCHANGED))

Serve ==
  \/ \E f \in Fd : HelloRefused(f) /\ Silent
  \/ \E f \in Fd, p \in Player, busy \in BusySets :
       \/ Hello(f, p, busy) /\ Emit(PlayerAfter(p, UPDATE_ADDED), Ignored)
       \/ HelloUnplaced(f, p, busy) /\ Silent
  \/ \E p \in Player, busy \in BusySets :
       /\ Connected(p)
       /\ \/ Leave(p, busy) /\ Emit(PlayerNow(p, UPDATE_DROPPED), Ignored)
          \/ /\ playerCell[p] # None
             /\ \/ \E n \in Targets(p) : Move(p, n, busy) /\ TellMove(n)
                \/ \E kind \in {"flag", "shovel"} :
                     Handle(p, kind, busy) /\ Emit(Ignored, Ignored)
  \/ \E p \in Player : Connected(p) /\ Crash(p) /\ Silent
  \/ Teleport /\ Silent

(* The bounds: on the counters of Game, on the events on their way and on  *)
(* the requests that are served while the client connects, and after that  *)
(* until it has said hello and the server knows its event connection.      *)
Connecting == Kept \/ (phase = "live" /\ ~subscribed)

ServerStep ==
  /\ up
  /\ Len(wire) < InFlight
  /\ Connecting => served < Overtake
  /\ Serve
  /\ \A t \in Team : /\ homeCount'[t] \in -CounterBound .. CounterBound
                     /\ homeFlags'[t] \in -CounterBound .. CounterBound
  /\ served' = IF Connecting THEN served + 1 ELSE served
  /\ overtaken' = (overtaken \/ (phase = "live" /\ ~subscribed))
  /\ UNCHANGED <<rep, phase, reply, installed, subscribed>>

-----------------------------------------------------------------------------
(* The connection and the sync, as the server handles them.                *)
Reader == <<vars, rep, installed, wire, served, overtaken, stale>>

Connect ==
  /\ phase = "away" /\ phase' = "walls"
  /\ UNCHANGED <<Reader, reply, subscribed, changed>>

(* The event listener of the server accepts the connection.                *)
Subscribe ==
  /\ phase # "away" /\ ~subscribed
  /\ subscribed' = TRUE
  /\ UNCHANGED <<Reader, phase, reply, changed>>

ReadWalls ==
  /\ up /\ phase = "walls" /\ phase' = "red"
  /\ reply' = [reply EXCEPT !.walls = { CompressWall(Ignored, c) : c \in broken }]
  /\ changed' = [changed EXCEPT !.walls = {}]
  /\ UNCHANGED <<Reader, subscribed>>

(* Mutant: the first slot of the list is passed over.                      *)
ListOfButFirst(t) ==
  [i \in 1 .. MaxPlayers[t] |->
     LET p == <<t, i - 1>>
     IN  IF fd[p] = None \/ i = 1 THEN Ignored ELSE PlayerNow(p, UPDATE_UNCHANGED)]

(* server_request_plist: a word for every slot; that of a free one is 0.   *)
ListOf(t) ==
  [i \in 1 .. MaxPlayers[t] |->
     LET p == <<t, i - 1>>
     IN  IF fd[p] = None THEN Ignored ELSE PlayerNow(p, UPDATE_UNCHANGED)]

Placed(t) == \A p \in Player : TeamOf(p) = t /\ fd[p] # None => playerCell[p] # None

ReadPlayers(t, from, to) ==
  /\ up /\ phase = from /\ phase' = to
  /\ Placed(t)
  /\ reply' = [reply EXCEPT !.players = @ \o ListOf(t)]
  /\ changed' = [changed EXCEPT !.players = { p \in @ : TeamOf(p) # t }]
  /\ UNCHANGED <<Reader, subscribed>>

(* compress_player reads the position of a null cell.                      *)
SyncCrash(t, from) ==
  /\ up /\ phase = from /\ ~Placed(t)
  /\ up' = FALSE
  /\ UNCHANGED <<registry, places, obj, homes, broken, testMode, announced>>
  /\ UNCHANGED <<rep, channel, changed, stale>>

ReadObjects ==
  /\ up /\ phase = "objects" /\ phase' = "sent"
  /\ reply' = [reply EXCEPT !.objs = ObjectWords(Object, obj)]
  /\ changed' = [changed EXCEPT !.objects = {}]
  /\ UNCHANGED <<Reader, subscribed>>

(* process_sync_request installs the objects, the walls, which do nothing  *)
(* but turn cells into floor, and the players.  Then the client may have   *)
(* wrong what was changed since it was read and no event will tell of.     *)
InstallObject ==
  /\ phase = "sent" /\ installed < Len(reply.objs)
  /\ rep' = ApplyObject(rep, reply.objs[installed + 1], TRUE)
  /\ installed' = installed + 1
  /\ UNCHANGED <<vars, phase, reply, subscribed, wire, served, overtaken, changed, stale>>

InstallWalls ==
  /\ phase = "sent" /\ installed = Len(reply.objs)
  /\ rep' = [rep EXCEPT !.floor = @ \cup { DecompressWall(w) : w \in reply.walls }]
  /\ phase' = "players" /\ installed' = 0
  /\ UNCHANGED <<vars, reply, subscribed, wire, served, overtaken, changed, stale>>

InstallPlayer ==
  /\ phase = "players"
  /\ rep' = ApplyPlayer(rep, reply.players[installed + 1])
  /\ IF installed + 1 < Len(reply.players)
     THEN /\ installed' = installed + 1
          /\ UNCHANGED <<phase, overtaken, stale>>
     ELSE /\ phase' = "live" /\ installed' = 0
          /\ overtaken' = (overtaken \/ served > 0)
          /\ stale' = Without(changed, ToBeTold)
  /\ UNCHANGED <<vars, reply, subscribed, wire, served, changed>>

(* process_RPC_message after a command that has sent nothing, as an empty  *)
(* line or an unknown word: the session still has the reply to the sync.   *)
Again ==
  /\ phase = "live" /\ reply # NoReply
  /\ phase' = "sent"
  /\ UNCHANGED <<Reader, reply, subscribed, changed>>

(* The answer to the first hello (or goodbye) of the client, accepted or   *)
(* refused, takes the place of the sync in the session.                    *)
Greet ==
  /\ phase = "live" /\ reply # NoReply
  /\ reply' = NoReply /\ changed' = NoEntry
  /\ UNCHANGED <<Reader, phase, subscribed>>

(* The event thread of the client.                                         *)
Deliver ==
  /\ wire # <<>>
  /\ rep' = ApplyEvent(rep, Head(wire))
  /\ wire' = Tail(wire)
  /\ UNCHANGED <<vars, phase, reply, installed, subscribed, served, overtaken, changed, stale>>

ClientStep ==
  \/ Connect \/ Subscribe
  \/ ReadWalls
  \/ ReadPlayers(TEAM_RED, "red", "blue")
  \/ ReadPlayers(TEAM_BLUE, "blue", "objects")
  \/ SyncCrash(TEAM_RED, "red") \/ SyncCrash(TEAM_BLUE, "blue")
  \/ ReadObjects
  \/ InstallObject \/ InstallWalls \/ InstallPlayer
  \/ Again \/ Greet
  \/ Deliver

(* The client draws places for the flags of its own.                       *)
PlayInit ==
  /\ Init
  /\ \E start \in Starts :
       rep = [pos    |-> [p \in Player |-> Nowhere],
              jailed |-> [p \in Player |-> FALSE],
              who    |-> [c \in Cell |-> None],
              state  |-> [c \in Cell |-> "empty"],
              on     |-> OnAt(start),
              start  |-> start,
              at     |-> [x \in Object |-> Nowhere],
              holder |-> [x \in Object |-> None],
              flag   |-> [p \in Player |-> None],
              shovel |-> [p \in Player |-> None],
              floor  |-> {},
              game   |-> "waiting"]
  /\ phase = "away"
  /\ reply = NoReply /\ installed = 0
  /\ subscribed = FALSE
  /\ wire = <<>>
  /\ served = 0 /\ overtaken = FALSE
  /\ changed = NoEntry /\ stale = NoEntry

PlayNext == ServerStep \/ ClientStep

PlaySpec == PlayInit /\ [][PlayNext]_playVars

-----------------------------------------------------------------------------
(* What the client and its sync refer to is of the game, whatever the      *)
(* words they were read from: the type of the copy, of the phase and of    *)
(* what is noted of the two.  The kept reply is typed by its words.        *)
RepOK ==
  /\ rep \in RepType
  /\ phase \in Phase
  /\ subscribed \in BOOLEAN
  /\ served \in 0 .. Overtake /\ overtaken \in BOOLEAN
  /\ changed \in Entries /\ stale \in Entries

(* Once the events on their way are applied, a connected client knows      *)
(* where every player and object is, who carries what, who is in jail and  *)
(* which walls are broken.  The exceptions are what a request changed      *)
(* after the sync had read it and before the sync was installed for the    *)
(* last time, unless its event comes after that, and what no event told of *)
(* before the server knew the connection; the next event about it sets it  *)
(* right.                                                                  *)
CaughtUp ==
  phase = "live" => LET wrong == Wrong(Told(rep, wire))
                    IN  \A k \in DOMAIN wrong : wrong[k] \subseteq stale[k]

(* A client that no request has overtaken knows everything: the pieces of  *)
(* the sync leave nothing out, once or installed again.                    *)
QuietSyncComplete ==
  phase = "live" /\ ~overtaken => Wrong(Told(rep, wire)) = NoEntry

(* Such a client also knows what every player has in its hands: its own    *)
(* shovel decides whether it asks to break a wall.  A client that was      *)
(* overtaken may not: an event says "carried" of an object that the client *)
(* believes carried already, or the second look at an old sync lays down   *)
(* what an event had put into a hand.                                      *)
HandsKnown ==
  phase = "live" /\ ~overtaken =>
    LET r == Told(rep, wire)
    IN  \A p \in Player : playerCell[p] # None =>
          r.flag[p] = obj.flag[p] /\ r.shovel[p] = obj.shovel[p]

(* A cell of the replica refers only to a player that the replica has on   *)
(* that cell: an event never leaves a second image of a player behind,     *)
(* even if it arrives before, during or after the sync that overtook it.   *)
NoGhost == \A c \in Cell : rep.who[c] # None => rep.pos[rep.who[c]] = c
=============================================================================
