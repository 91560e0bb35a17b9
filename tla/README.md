# Verification of bogosort

bogosort is a networked capture-the-flag game in C: one server process keeps a
maze, players connect over two sockets each (one for requests, one for events),
and every client keeps a copy of the maze. Two teams move on a map with two
halves. A player who meets an opponent on the opponent's half is jailed; a free
team mate who enters the jail frees everybody in it; a team wins when all its
players and both flags are in its home.

This directory holds a TLA+ model of the program from the key that is pressed to
the copy of the maze in which its effect is seen: the server's game logic, its
cell locks and the delivery of its events, the connections, the client's copy of
the maze and its threads. With it come the TLC runs that check the model and
proofs for TLAPS. All names of files and lines refer to the repository (`src/`).

## 1. Inventory

| component | code | state | operations | how it meets the others |
|---|---|---|---|---|
| server game logic | `lib/game_server.c` | players (cell, state, flag, shovel, fd), objects, homes (count, flags), player lists, broken walls | hello, drop, action (noop, move, drop, pick up), sync | called by the handlers of `server.c`, one thread per connection; shares everything |
| map | `lib/game_commons.c` | cells (type, turf, mutability), windows of homes and jails | build from file, adjacency | read by the game logic; only breakable walls change |
| cell locks | `lib/game_server.c` 535-639 | one mutex per cell, player and object | optimistic lock of a player's cell, two-cell lock, trylock searches | make the requests atomic |
| event delivery | `server/server.c` 109-152, `lib/protocol_server.c` 95-201 | ticket counters, one event session, subscriber table | doUpdateClients, post, subscribe | each request that changed something posts one event |
| RPC dispatcher | `lib/protocol_server.c` 204-312 | a thread and a descriptor per connection | accept, receive, call handler, lost connection, close | calls the game logic, which finds a player by the descriptor |
| protocol session | `lib/protocol_session.c` | send and receive buffers, the last header | marshal, send, receive | used by every message |
| network | `lib/net.c` | none | read and write all | sockets |
| protocol client | `lib/protocol_client.c` | two sessions | connect, RPC, event thread | the client's side |
| client replica | `lib/game_client.c` | a copy of the maze | apply an event, apply a sync | changed by the event thread and the RPC thread |
| client shell, blocking helper | `client/client.c` | two update numbers, a condition | wait for the event of one's own request | event thread and RPC thread |
| user interface | `client/uistandalone.c` | the camera | keys that send requests; drawing | a second thread that sends requests over the shell's session |
| compression | `lib/game_commons.c` 585-678 | none | pack and unpack an update | server to client |
| tests, bots | `test/`, `chef.rb` | - | - | - |

What is hard in this code: every connection has a thread that works on the same
maze; a request locks two cells after having read a position without a lock;
tags move other people's players while those have requests of their own;
searches use trylock and may fail; a rescue locks a whole jail; players leave
at any moment; events must leave in the order of the changes although their
header is shared; counters are kept incrementally. On the other side, the copy
of a client is built from a sync that is read piece by piece and from events
that arrive on another connection and are interpreted by what the client
believes already; two client threads share one session, one lock and one
condition; processes end in the middle of a message and the kernel gives their
descriptors to others. `PROJECT.json` lists each of these places under "hazards"
with the property that covers it, or why none does.

What makes each component correct:

- *game logic*: players and cells refer to each other; prisoners are in the
  enemy jail and nobody is jailed without contact; a rescue frees everybody;
  objects are where their carrier is, or on their cell; counters agree with
  what they count; a win is announced only when it is one.
- *locks*: a request works on what it holds; locks are taken in one order;
  requests end.
- *events*: each update is sent once, in order, to everybody who listens, and
  none waits for ever.
- *compression*: what is unpacked is what was packed.
- *replica*: once the events on their way are applied, the copy is right.
- *client threads*: an action returns after its own update has been applied;
  nobody sleeps for an update that is there; a request returns.
- *connections*: what is handled is the request that was sent, and what is
  returned is its answer; a descriptor brings no other connection's player; a
  client that has gone is noticed.

## 2. Modules

| module | models | checked by | proofs |
|---|---|---|---|
| `Maze` | the map as functions of its characters | every run of `MCGame` and `MCReplica` | `GameProofs` (probes stay in their windows) |
| `Game` | the server's requests, one step each | `MCGame_*.cfg`, `MCReplica_*.cfg` | `GameProofs`, `RulesProofs` |
| `Rules` | abstract: who is out, free, jailed | `RulesSpec` in run tag | `RulesProofs` |
| `Codec` | the words of an update, as arithmetic | `MCReplica_*.cfg` | `CodecProofs` |
| `Replica` | `Game` and `Codec` composed with a client's copy, its sync and its event connection | `MCReplica_*.cfg` | `ReplicaProofs` |
| `Locks` | the cell locks, step by step | `MCLocks_*.cfg` | `LocksProofs` |
| `Events` | tickets, shared header, post loop | `MCEvents_*.cfg` | `EventsProofs` |
| `Turnstile` | abstract: a waiting line | `TurnstileSpec` in run turns | `EventsProofs` |
| `Client` | the threads of a client, their lock and condition | `MCClient_*.cfg` | `ClientProofs` |
| `Session` | messages, sessions, connections and descriptors, with ends and restarts of processes | `MCSession_calls.cfg` | `SessionProofs` |
| `MCGame`, `MCReplica`, `MCLocks`, `MCEvents`, `MCClient`, `MCSession` | maps and instances for TLC | | |

### Maze and Game

`Maze` computes from the characters of a map what `maze_fill_helper` computes:
types, turf, the windows of homes and jails, the walls that can be broken and
the cells that each search probes, in order. `MapAssumption` states what the two
map files satisfy: windows hold only cells of their type on the turf of their
team, and no two jails touch.

`Game` has one action per outcome of a request. Its variables are fields of the
C structures (each is commented with its field). A request that the code refuses
changes nothing and is a stuttering step. Correspondence:

| action | code |
|---|---|
| `HelloRefused`, `Hello`, `HelloUnplaced` | `server_game_add_player` |
| `Leave` | `server_game_drop_player` with `_server_drop_handler` |
| `JailedBump`, `JailedMove`, `WallMove`, `FloorMove`, `WalkIntoTagger`, `Tag` | `_server_game_move` and what it calls |
| `DropFlagHere`, `DropShovelHere`, `DropNothing`, `PickUp`, `Noop` | the other cases of `server_game_action` |
| `Teleport` | the switch of the server shell |
| `Crash` | a null cell in `server_maze_lock_by_player` |

Searches (`Found`, `Strip`) follow the probing order of the code. The cells
other threads hold at that moment are `busy`, chosen from `BusySets`: a search
skips them, as trylock does. A request's own two locked cells are always in it.

Abstractions to know:

- a request is one step; that the locks justify this, and where they do not, is
  what `Locks` is about. `server_game_add_player` takes its number and state
  after it has unlocked the spawn cell; `Game` still treats it as one step.
- a drop whose search would never end (a column that is full) has no step.
- of the event, `Game` keeps the announced game state (`announced`); the rest of
  it is in `Replica`.
- `homeCount` and `homeFlags` drift without limit (see the finding on the flag
  counter, and players who leave at home): `CounterBound` cuts the runs off.

### Codec and Replica

`Codec` is the group of `compress_*` and `decompress_*` functions. A word of 32
bits is the flag "told" (the top bit; a word without it is ignored by the
receiver) and the number of the other bits; fields are taken out with `\div` and
`%`, so that a value too large for its field is cut as the shifts and masks cut
it.

`Replica` extends `Game` and `Codec`. Its server steps are the requests of
`Game`, each with the event the handler builds (`Emit`, `TellMove`): the state
and a broken wall, up to two players, the objects that the request touched. Its
client steps are those of one client:

| action | code |
|---|---|
| `Connect`, `Subscribe` | `doConnect`; the listener of the server accepts the event connection in a thread of its own |
| `ReadWalls`, `ReadPlayers`, `ReadObjects`, `SyncCrash` | the parts of `server_sync_handler`, with requests of others between them |
| `InstallObject`, `InstallWalls`, `InstallPlayer` | `process_sync_request`, which works without the lock: a step for each object, one for the walls, a step for each player |
| `Again` | the look that `docmd` takes, after every command, at the reply the session holds (client.c:379): after a command that has sent nothing this is an old one |
| `Greet` | the answer to the first hello or goodbye, which takes the place of the sync in the session |
| `Deliver` | `update_handler`: `ApplyGame`, `ApplyPlayer`, `ApplyObjects` |

`rep` is the client's maze field by field (`RepType`). `Place`, `Forget`,
`LayDown`, `TakeUp` and `Relocate` are the branches of `update_players` and
`update_objects` (`UpdateObject`); which of them is taken depends on what the copy says already.

`reply` is the sync as the session keeps it, `installed` the number of words of
its present list that are installed. Events arrive between the words. The walls
are one step, since they only turn cells into floor, which nothing turns back.
After an empty line or an unknown word, before the first hello, the client goes
through all of it again (`Again`), over whatever events have told it meanwhile;
`process_RPC_message` knows no difference between a new reply and an old one.

The copy can therefore not always be right. What it may be wrong about is noted
from the history alone, without looking at the copy. `changed` is what requests
have changed since the sync read it, as long as the client may still install
that sync. At the end of each installation `stale` is set to `changed` less what
the events still on their way will tell of (`ToBeTold`); from then on an event
takes its subjects off it, and a request that no event tells of, as the server
does not know the event connection yet, puts them on it. `CaughtUp` says that the
copy, with the events on their way applied, is wrong about nothing else: neither
a piece of the sync nor an event nor the order in which they come loses more
than that. `served` counts the requests since the client called connect, and
`overtaken` is true once an installation has ended with one of them served, or a
request was served to a connected client that the server did not know.
`QuietSyncComplete` says that a client not overtaken is wrong about nothing, so
that `CaughtUp` is not empty either, and `HandsKnown` that it knows all hands.

The client connects once. A reconnect in the code installs a new sync over the
old copy: the words of free slots are ignored, so players who have left meanwhile
stay drawn until their slot is used again.

### Locks

`Locks` has a thread per player and a program counter per thread; the cells are
numbered in locking order. `Start` is the unlocked read of the position,
`LockFirst`/`LockSecond` are `server_maze_lock`, `Checked`/`Retry`/`GiveUp` the
outcomes of an attempt, `StepIn`, `TagOnBlue`, `Refuse`, `Rescue`..`RescueEnd`
the work, `Unlock` is `server_maze_unlock`. Finding the next cell empty
(`StepIn`, or `Rescue` before it frees anybody) and moving there (`MovePlayer`)
are separate steps, so that a request without its locks can do harm. `LockAlone`, `Drop` are a departure;
"stuck" is the thread that locks its cell twice. The locals are reset with the
unlock, since they end there in the code. All cells lie on blue turf, so only
red players are tagged; the jail cell of a tag is any open one (the order of the
search is in `Game`). The mutexes of players and objects, nested under the
cells', and the extra cell of a dropped flag are left out.

### Events

`Events` starts where a request has succeeded: `Take` is the number it takes
under its cell locks, `MarshalStamp`/`MarshalBody` write the shared header in
two parts, `Wait` is `server_update_wait` (it returns with `current_lock`),
`PostBegin`..`PostEnd` the loop of `proto_server_post_event` with one action per
outcome of a send, `Signal` is `server_update_signal`. `Subscribe` and `Refuse`
are the listener thread, `Disconnect` is a client that goes away, which the
server learns only from a failing send.

### Client

`Client` has up to two threads that issue requests (the shell, the keys of the
user interface) and the event thread. `Issue` is a command or a key; `Lock`,
`Send`, `Receive`, `Process`, `Sleep`/`Wake` and `Return` are `docmd` and
`ui_keypress` with `doRPCCmd`, `process_RPC_message` and the loop around
`client_maze_cond_wait`; `EvReceive`, `EvApply`, `EvSignal` and `EvLost` are the
event dispatcher and `update_handler`. What the code does and one may not expect
is kept: an unknown command leaves its request uninitialised on the stack and
may take it for an action (both outcomes of `Process`); a refused hello makes
the client believe it is the first red player; a command that waits unlocks the
mutex of the maze also when another thread holds it, which with this mutex type
gives the lock away (`owner' = Nobody` without a guard); the reply to a key that
picks up or drops is not looked at; a move before any hello follows a null
pointer (`NullPlayer`).

The server is reduced to what a client sees of `Events`: numbers posted in
order, the reply after the post. `own` is the number of the last update this
client caused. `EvLost` lets the event thread notice a closed connection before
it has read what is still in it, which the code need not do.

### Session

`Session` is the RPC side of both processes. A message is a header, here the two
words type and length, and a body of words; `up` and `down` are the streams of a
connection. `Whole` is what `net_readn` waits for. `Marshall`, `Send` and
`Receive` work on the buffers of a client's session, which survive a reconnect;
`Accept` to `Close` are the server's thread of a connection, and `player` says
whose player a descriptor would bring. `Kill` ends a client process with its last
words cut after half a header, after a header, or in a body; `Restart` ends the
server and cuts its answers, and starts it again with no connection and no
player. A server that has closed a connection lets the next send of the client
succeed or fail; a failed one leaves its body in the buffer, and so the message
after it would carry both. What a hello, an action and a goodbye do to the game
is in `Game`; here a hello finds a place or not, and an action succeeds or not.

## 3. Runs

Every run is finished by TLC in about two minutes or less with two workers.

| run | question | instance |
|---|---|---|
| tag | do roster, jail, counters and rules survive joins, tags, rescues, departures and contention? | eight cells, a jail of two cells, two red players and a blue one, three connections (symmetric), no objects |
| flags | do the references of a flag between two opponents agree, with teleports? | eight cells, two connections, one flag |
| objects | do the references survive picking up, dropping, breaking walls, leaving; is a watching client right about all of it, and is nobody shown twice, also if a request overtakes its sync or comes between two installations of it? | one player, a flag, a shovel, 24 cells with a breakable wall and a column to search; one event on its way, one request between the connect and the hello |
| meet | is a watching client right about two players who tag, rescue, leave and hand over a flag, and about their hands? | eight cells, two connections, one flag; one event on its way, no request between the connect and the hello |
| turns | are tickets called in order, does the post loop stay in its table, do updates end? | two threads, three clients, two slots, three updates |
| moves | do requests hold what they change, lock in order, and end? | three red players on three cells in a column |
| jail | does a prisoner ever get out, with tags, rescues, retries and departures, while the requests hold their cells? | two red players and a blue one, three cells, two of them jail |
| client | does an action return after its own update; does anybody sleep for ever? | the shell and the event thread, four updates, an event connection that holds them all |
| calls | are requests and replies whole and matched, descriptors clean, the gone noticed? | one client that may end and begin again, two connections, two descriptors, five requests, one restart of the server, four words of send buffer |
| win, order, keys | the findings below | the smallest instance that shows each |

Why these bounds are enough to show something: two players of one team and an
opponent are what a tag, a rescue and every conflict over a cell needs, and
`jail` reaches retries, exhausted attempts and the stuck departure; two slots
for three clients make the table full, and a slot is given out again after a
failed send; three updates of two threads let one overtake the other. The border
of walls is left out of the small maps: nobody stands in it and it cannot be
broken; only the corner that a client takes for "nowhere" is kept in the maps of
`MCReplica`. One client process after another on two connections puts an old
thread of the server, with its descriptor, beside a new one, which is when a
descriptor could bring the wrong player; two descriptors let the number be given
again or not. Five requests are a sync and a hello twice and an action that
follows a failed one. Three words of body (four, less the word the code keeps
free) hold the two of an action and not those of two actions. With one
event on its way the order of the wire plays no part in `meet` and `objects`
(it is a queue in code and model); what matters there is whether an event comes
before, between or after the words of a sync. `Overtake = 1` lets a request change
what the sync has read or will read, and its event arrive before, during or after
an installation that may be followed by another. Each property has a mutant in
`PROJECT.json`, a plausible bug in the mapped code that the same run detects.

`CHECK_DEADLOCK FALSE`: runs may really stop. In `Game` the server may crash, in
`Events`, `Client` and `Session` the updates or requests of a run are used up,
in `Locks` everybody may have left.

**Fairness.** `Events` assumes weak fairness of each thread that has begun an
update: nothing in `doUpdateClients` returns early, and a send ends because its
peer reads or its connection breaks. (A peer that stays and never reads stops
the server; that is outside the assumption.) `Locks` assumes strong fairness of
a thread's steps: a waiter of a mutex that is released again and again gets it.
`Client` assumes weak fairness of each thread and of the server, and strong
fairness of the three steps that take the mutex, for the same reason; nobody has
to issue a command. `Session` assumes weak fairness of the client's calls and of
the server's threads; nobody has to call, to end or to restart. `Game` and
`Replica` have no liveness property and no fairness.

### Findings

Three runs end in a violation; each checks one sentence of the code or its tests.

| run | sentence | what happens |
|---|---|---|
| win | "not indicate win state unless flags count is 2" | a flag stolen and carried home again is counted twice: a win with one flag |
| order | "to ensure correct ordering" | the shared header is written before the turn: another turn sends it, its own sends a cleared one |
| keys | "Block the RPC thread until the corresponding event channel update arrives" | a key that picks up or drops compares the result of the request with 0, which it never is, and returns before its update |

### Known problems

More of what the code says does not hold. These have no run of their own; the
definitions are in the modules, and TLC refutes each within seconds on the
instance named.

| definition | sentence | instance | what happens |
|---|---|---|---|
| `Game!ObjectReachable` | "The cell is the root of all the objects" | `MCReplica_objects.cfg` | a used shovel clears the object of the cell its player stands on, which then is on no cell |
| `Locks!LockOrder` | "first is lower x value if x equal then lower y value" | `MCLocks_jail.cfg` with `Cells = 4` | a rescuer locks jail cells while it holds later cells; with a prisoner waiting, both stop |
| `Locks!RescueFreesAll` | "correctly free jailed players" | the same | a prisoner who walks between two jail cells during a rescue is overlooked |
| `Locks!NeverFails` | "SHOULD NEVER RETURN -1" | `MCLocks_jail.cfg` | a player tagged after its position was read exhausts the ten attempts; the request goes on unlocked |
| `Locks!PrisonersInJail` | - | `MCLocks_jail.cfg` | such a request moves whoever is on the cell it read last, a prisoner too. `PrisonersStay` therefore speaks of the steps taken while `HoldsCells` is true |
| `Client!NoLostWakeup`, `Client!RequestsReturn` | - | `MCClient_keys.cfg` | with two threads on one condition, one signal wakes one of them, and the thread whose update has come may be the other; a command of the shell and a key may also take each other's reply |

Two more were met while modelling the client. The event of a tag tells of the
tagger first and of its prisoner second; the prisoner then leaves the cell it was
last seen on, where the tagger is by now, and the copy shows that cell as
occupied by nobody. Places are still right (`CaughtUp`), and no player is shown
twice (`NoGhost`), but the drawing of an occupied cell follows the reference. And
an object that is tagged away, dropped or picked up unseen while a client
connects leaves the hands of the copy wrong for good, since the next event says
"carried" of what is carried already: `HandsKnown` holds only for a client that
no request overtook.

A third concerns the time between connect and hello. A bare Enter, an unknown
word or a second `connect` makes the shell process the last reply again
(client.c:379), which still is the sync: events that were applied since are
undone, a player who has moved stands where the sync saw it, an object that was
picked up lies in its old place and the hand that held it is empty. The next
event about the same player or object sets its place right, as `CaughtUp` says,
but not the hands.

## 4. Proofs

All proofs hold for every map that satisfies `MapAssumption`, any sets of
connections, objects and busy cells (`GameAssumption`), and any number of
players, cells, threads and clients, connections, descriptors, requests and
restarts (`LocksAssumption`, `EventsAssumption`, `ClientAssumption`, `SessionAssumption`).

- `GameProofs`. The inductive invariant is `Inv == TypeOK /\ OccupancyOK`.
  `TypeOK` alone is not inductive enough for the players: that a tag writes to a
  player and not to a null pointer needs that the cell's player is connected and
  is on that cell. `OccupancyOK` needs `TypeOK` for the ranges, and the lemmas
  `HomeSpot` and `JailSpot`: what a search finds lies in its window and is free,
  hence no wall. The theorems are `TypeCorrect` and `Occupancy`.
  `RosterIsKept` is apart from them: `RosterInv` adds to `RosterOK` that the slots
  in use are finitely many. A hello adds one slot, a goodbye or a crash takes one
  away, and the count moves with them; the number of slots is not bounded.
  `LinksAreKept` is `LinksOK`: `LinksInv` adds that a hand holds the kind of
  object it is for (`Kinds`), or putting down what is in one hand would empty the
  other. One lemma for each thing that moves objects (`PutDownLinks`,
  `PickedUpLinks`, `ResetLinks`, ...) says what it does to the references; the lemma
  of a request puts them in the order of the code. `ObjectsMoveByHand` is
  `MovedByHand`: the same lemmas give `ByHand`, what a step does to the carriers
  and places. Both theorems assume `RoomAtHome`: in the home of a shovel more
  cells are free of other requests than there are objects. A reset that finds no
  cell would leave the shovel with a player who has left. The homes of the map
  files have 190 cells and there are four objects.
- `RulesProofs`, for teleportation off. `JailInv` adds `JailedInEnemyJail`. It
  needs that a prisoner who stays on jail cells stays in one jail (no two jails
  touch) and that no breakable wall is beside a jail cell (the ring of
  `maze_fill_helper`). `PrisonersStayInJail` follows. `FreedTeam` shows that a
  rescue frees exactly the rescuer's team, from which follow
  `RescuesAreComplete` and `GameKeepsRules`: `Game` implements `Rules`, step by
  step, under the mapping `Status`.
  `TagsAreContacts` follows from the guards of the tag and from `TypeOK`, once it
  is known that no other request jails anybody.
  `HomeIsCounted` is `HomeCountCovers`, and assumes besides `HomesApart`: home
  cells on a team's turf are in its window and the two homes do not touch, as on
  the map files. `HomeInv` adds that the players at home are finitely many. A
  request takes at most one player from its home and counts it down, and who comes
  home is counted up in the same step; who is tagged is on the other turf and so
  not at home. A player who leaves the game at home is not counted down, which is
  why the count covers and need not be equal.
- `EventsProofs`. `LineInv` is the typing of the tickets with `TicketsAccounted`
  and `OneTurn`: a thread that signals holds the current number, so that the
  interval of open numbers loses just that one. `LineIsTurnstile` is the safety
  part of `TurnstileSpec`.
  `TableInv` adds to `PostInBounds` that the number of live
  slots is the one the server keeps and that a thread in the post loop holds the
  lock of the table, so that no slot changes under it but the one it drops.
  `LoopStaysInTable` follows: while something is left to count there is a live
  slot from the index on. That a search finds a free slot needs that a non-empty
  set of numbers has a least element (`LeastOf`).
  Two more theorems complete the safety of `Events`. `EventsTypeCorrect`: that
  what is written into the header is a number that was handed out comes from
  `LineInv`. `EveryTurnOnce` is `OnePerTurn`: `TurnInv` says of which turn the last
  message of a live client is, the present one if the loop has passed its slot
  and else the one before; it needs that a client has one slot and that who has
  not subscribed yet has received nothing.
- `LocksProofs`, for any number of players, any cells, jail and reach of a step.
  1. *Without tags* (`Untagged`: one team only, or no jail). `LockInv` says which
     cells a thread owns at each point of its request (`OwnerOK`), and that what it
     found on them is still true (`FoundOK`): its player on the first, nobody on the
     second. Hence `lock_by_player` never tries again, `HoldsCells` and
     `OccupancyOK`.
  2. *With tags* `HoldsCells` is false, see the known problems: a request that gave
     up changes the board without locks and unlocks what others hold. `CrowdInv` is
     what is left: who owns a cell has locked it (`Owns`), who is on a cell and still
     in the game is the player of that cell (`OnOK`), and a request whose player is
     no longer on its first cell, or was jailed after the check of its way out, has
     lost that cell or will as soon as another request ends (`Touched`). No
     assumption is needed. `LocksTypeCorrect` and `CellsKnowTheirPlayers` (half of
     `OccupancyOK`) follow, and `PrisonersAreKept`: while the requests
     hold their cells nothing is `Touched`, so who steps out is free.
  3. `LocksAreOrdered` assumes that there is no jail: a rescue locks against the
     order.
- `CodecProofs`. Four round trips: a player and an object whose fields fit are
  unpacked as they were packed (`PlayerRoundTrip`, `ObjectRoundTrip`), and the
  game state and a broken wall share a word without disturbing each other
  (`StateKeepsWall`, `WallKeepsState`). The number that the fields spell is
  divided at each place; the remainder is the field (`PlayerBits`, `ObjectBits`,
  `SharedWord`, `SharedBits`). An object without a carrier is read without one.
- `ReplicaProofs`, for any map whose positions fit the fields of a word
  (`ReplicaAssumption`), any number of events on their way, of requests that
  overtake the sync and of installations of it.
  1. *Words.* `PlayerWordReads` and `ObjectWordReads` carry the round trips of
     `CodecProofs` to the words that the server writes: what is read back is the
     player, the cell, the object, the carrier.
  2. *Applying.* `PlayerApplied`, `ObjectApplied` and `Written` say which entries
     of the copy a word changes, and `Ghostless`, the same as `NoGhost`, that no
     word leaves an image behind: the player is taken off the cell where the copy
     has it, whichever cell that is.
  3. *Events on their way.* `Told` is the copy once they are applied. `ToldAppend`
     and `ToldHead` say that an event that is sent is applied last and that one
     that is delivered changes nothing: `Told` is the end of a run (`Runs`), and
     two runs that begin alike are equal.
  4. *Truth.* `EventIsTrue` and `ServerTells`: whatever a request changes of a
     player's place, of an object or of a wall is in its event (`Truthful`), and a
     request without an event changes nothing that a client sees (`Unseen`).
  5. *The sync.* `PlayInv == Inv /\ RepInv /\ SyncInv` is inductive. `RepInv` are
     the types, `Ghostless` and the form of the kept reply (`ReplyOK`). `SyncInv`
     says that the reply is true but for `changed` (`WallsTrue`, `PlayersTrue`,
     `ObjectsTrue`), that the copy is right about what an event on its way tells of
     (`ToldRight`), that who is not in the game is not drawn (`NotDrawn`) and
     nothing is drawn of a server that does not know the client (`Unheard`), that
     walls only break (`OnlyFloor`), and how far an installation has come: of what
     is neither changed nor told of, each word that is installed is right
     (`Progress`). A word that is installed over a newer event spoils only what is in
     `changed` (`InstallObjectKeeps`, `InstallWallsKeeps`, `InstallPlayerKeeps`); when
     the last one is in, `Progress` becomes `Knows`, each entry of the copy is right
     or excused by `stale`. A second look (`AgainKeeps`) begins with nothing installed,
     where `Progress` asks for nothing. Hence `ReplicaTyped`, `ReplicaHasNoGhost` and
     `ReplicaCatchesUp`. `QuietInv` adds that without a request nothing is in
     `changed`, and that `stale` is empty for a client not overtaken:
     `QuietSyncTellsAll`.
  6. *Hands.* `HandsOwn` says that the hands of the copy agree with the carriers
     of the copy. An object word keeps that if its object was where the word
     has it, or lay, with the new carrier's hand empty (`HandsStep`). In the four
     words of an event this holds because in one step at most one object is picked
     up, and then nothing else changes hands (`PickedAlone`, from `LinksInv`). In
     those of a sync it holds because no player carries two objects of a kind and
     each carrier in the copy is the right one or none yet (`HandsGiven`); `HandsInv`
     keeps this through the installation and says that no event is on its way as
     long as no request was served, so that a second look finds the same hands
     (`HandsClient`). `HandsAreKnown` follows with `LinksInv`, and so assumes
     `RoomAtHome`.
- `ClientProofs`. `ClientTypeCorrect` is for the shell alone or with the keys.
  `OwnUpdatesAreSeen` and `NoWakeupIsLost` assume `OneThread`, the client without
  a user interface; with the keys they are false. `ClientInv` adds to the types
  that events arrive in the order of their numbers (`FifoOK`), that the one
  request on its way is the one of the command (`CallOK`), and that an own update
  not applied yet is the one whose number the reply or `RPC_update_id` carries
  (`TicketOK`), which is what the loop around the condition waits for.
- `SessionProofs`. `DescriptorsAreClean`: `DescriptorInv` adds that a thread has a
  descriptor exactly from its accept to its close and that it gives its player up
  before it closes (`ServedOK`), and that connections which are not made yet have
  no thread (`UnmadeOK`). `SessionTypeCorrect`: `TypeInv` adds that every number on
  the wire is a length, the number of a request, or -1, so that the
  rest of a stream after a message never begins before it, and that who is in a
  request has a connection (`Joined`).
  `RequestsAreIntact` and `RepliesAreMatched` assume that a send buffer holds the
  two positions of an action (`Space >= 3`; the code's buffer has room for many
  more). `StageInv` says where the one request of a connection is: in the stream
  to the server (`Sent`), at its thread (`Handled`, `Answered`) or in the stream
  back (`Replied`), and that a client which waits for nothing has empty streams
  (`Quiet`) and, unless the server has closed the connection, an empty send buffer
  (`Buffered`). `FrameReceived` is the lemma on the wire: what is read of a message
  is what was sent, with nothing left; `ExactCut` is the one on a server that ends
  while it answers: an answer that is cut is not taken for one.

The assumptions `TeleportOff`, `HomesApart` and `RoomAtHome` hold on the instances
of the runs that check the same properties.

Induction over data has no theorem the provers can use; the few facts that need it
(a search finds a free slot, the events on their way are applied one after the
other) are proved from a least counterexample (`LeastOf`).

Only model-checked: of `Locks` that requests end. Out of the prover's reach, and
left to TLC: liveness (`UpdatesEnd`, `RequestsEnd`, `RequestsReturn`,
`GoneAreClosed`, `CallsReturn`, the fairness of `TurnstileSpec`).

## 5. Not modelled, and plan

The model reaches from the key to the picture. What could follow, in order:

1. A join in its real steps (list entry, spawn, unlock, number) against a sync
   and a tag. Today it is one step, so that the number a tag of the new player
   may take before it, and a sync that reads a player without a cell, are listed
   as hazards only.
2. `Locks` with the mutexes of players and objects, which the unlock of one cell
   as two releases twice, and with the second cell of a dropped flag.
3. A full event connection: the post of an update blocks with the turn held, and
   a client that waits for a reply holds the lock its event thread needs. The
   instance of `Client` has room for all its events.
4. More descriptors than the kernel gives, and connects that fail half way.

Left out for good: the set-up of sockets and polling (`lib/net.c`), drawing,
zooming and panning (`client/uistandalone.c`), parsing of the map file and dumps,
logging, prompts and debug switches, the test framework, the recipe bots. One
path of a debug flag matters to `Events` and is only listed as a hazard: a drop
that gives up without a number. A message type that no handler knows is not sent
by any client of the repository, and is listed as a hazard only.
