-------------------------------- MODULE Locks -------------------------------
(***************************************************************************)
(* The cell locks of game_server.c, step by step, under the requests that  *)
(* move players: server_maze_lock_by_player, server_maze_lock, the rescue  *)
(* that locks a whole jail, the tag that puts a player into a jail cell it *)
(* could trylock, and server_maze_unlock.  Module Game shows what complete *)
(* requests do; this one shows when they are complete.                     *)
(*                                                                         *)
(* Every thread serves one connection and therefore one player.  The cells *)
(* are numbered in the locking order (by column, then by row) and lie on   *)
(* the turf of the blue team, so that only red players are tagged, and the *)
(* jail is the blue one.  The locks of players and objects, which are      *)
(* taken and released under the cells', are left out.                      *)
(***************************************************************************)
EXTENDS Integers, FiniteSetsExt

CONSTANTS
  None,          \* the null pointer, a free lock
  Red, Blue,     \* the threads that serve red and blue players
  Cells,         \* the number of cells
  Jail,          \* the cells of the jail
  Near,          \* the pairs of cells that are near each other
  Tries          \* the locking attempts of lock_by_player (10)

VARIABLES
  at,            \* player->cell
  on,            \* cell->player
  jailed,        \* player->state = PLAYER_JAILED
  owner,         \* the thread that holds cell->lock
  pc,            \* where a thread is in its request
  from, to,      \* the local variables cell and next
  tries,         \* the attempts that are left
  scan, seen     \* jailbreak: the cell of the loop, and the player read there

board  == <<at, on, jailed>>
locals == <<from, to, tries, scan, seen>>
vars == <<board, owner, pc, locals>>

Thread == Red \cup Blue
Cell   == 0 .. Cells - 1

ASSUME LocksAssumption ==
  /\ Cells \in Nat /\ Tries \in Nat \ {0}
  /\ Jail \subseteq Cell /\ Near \subseteq Cell \X Cell
  /\ Red \cap Blue = {} /\ None \notin Cell \cup Thread

SameTeam(t, u) == t \in Red <=> u \in Red
Release(C)     == [c \in Cell |-> IF c \in C THEN None ELSE owner[c]]

(* The cells of the jail loop: all but the two that are locked already.    *)
Scanned(t) == Jail \ {from[t], to[t]}
-----------------------------------------------------------------------------
(* A request arrives; lock_by_player reads the player's cell.  A departure *)
(* locks that cell alone.                                                  *)
Start(t, target, kind) ==
  /\ pc[t] = "idle" /\ at[t] # None
  /\ from' = [from EXCEPT ![t] = at[t]]
  /\ to' = [to EXCEPT ![t] = target]
  /\ tries' = [tries EXCEPT ![t] = Tries]
  /\ pc' = [pc EXCEPT ![t] = kind]
  /\ UNCHANGED <<board, owner, scan, seen>>

Move(t)  == \E n \in Cell : Start(t, n, "first")
Leave(t) == Start(t, None, "alone")

LowerIsFrom(t) == from[t]    \* mutant: the player's cell is locked first

(* server_maze_lock takes the lower cell first.                            *)
Lower(t)  == Min({from[t], to[t]})
Higher(t) == Max({from[t], to[t]})

(* Mutant: a trylock whose result nobody looks at.                         *)
LockBlind(t, c) == owner' = [owner EXCEPT ![c] = IF @ = None THEN t ELSE @]

Lock(t, c) == owner[c] = None /\ owner' = [owner EXCEPT ![c] = t]
Goto(t, w) == pc' = [pc EXCEPT ![t] = w]

LockFirst(t) ==
  /\ pc[t] = "first" /\ Lock(t, Lower(t))
  /\ Goto(t, IF from[t] = to[t] THEN "check" ELSE "second")
  /\ UNCHANGED <<board, locals>>

(* Mutant: goes on whether or not the second lock is free.                 *)
LockSecondTry(t) ==
  /\ pc[t] = "second" /\ Goto(t, "check")
  /\ UNCHANGED <<board, owner, locals>>

LockSecond(t) ==
  /\ pc[t] = "second" /\ Lock(t, Higher(t))
  /\ Goto(t, "check")
  /\ UNCHANGED <<board, locals>>

Current(t) == at[t] = from[t] /\ on[from[t]] = t

Checked(t) ==
  /\ pc[t] = "check" /\ Current(t)
  /\ Goto(t, "act")
  /\ UNCHANGED <<board, owner, locals>>

(* Mutant: the attempts are counted but never run out.                     *)
RetryForever(t) ==
  /\ pc[t] = "check" /\ ~Current(t)
  /\ owner' = Release({from[t], to[t]})
  /\ tries' = [tries EXCEPT ![t] = @ - 1]
  /\ Goto(t, "first")
  /\ UNCHANGED <<board, from, to, scan, seen>>

(* The player is elsewhere: unlock, and lock the same two cells again.     *)
Retry(t) ==
  /\ pc[t] = "check" /\ ~Current(t) /\ tries[t] > 1
  /\ owner' = Release({from[t], to[t]})
  /\ tries' = [tries EXCEPT ![t] = @ - 1]
  /\ Goto(t, "first")
  /\ UNCHANGED <<board, from, to, scan, seen>>

(* lock_by_player returns -1 with nothing locked; server_game_action goes  *)
(* on all the same, with the cell the player is on.                        *)
GiveUp(t) ==
  /\ pc[t] = "check" /\ ~Current(t) /\ tries[t] = 1
  /\ owner' = Release({from[t], to[t]})
  /\ tries' = [tries EXCEPT ![t] = 0]
  /\ from' = [from EXCEPT ![t] = at[t]]
  /\ Goto(t, "act")
  /\ UNCHANGED <<board, to, scan, seen>>

(* A departure.  When the check fails the code locks the cell once more    *)
(* instead of unlocking it, and waits for itself for ever ("stuck").       *)
LockAlone(t) ==
  /\ pc[t] = "alone" /\ Lock(t, from[t])
  /\ Goto(t, IF Current(t) THEN "drop" ELSE "stuck")
  /\ UNCHANGED <<board, locals>>

Drop(t) ==
  /\ pc[t] = "drop"
  /\ at' = [at EXCEPT ![t] = None] /\ on' = [on EXCEPT ![from[t]] = None]
  /\ owner' = Release({from[t]})
  /\ Goto(t, "gone")
  /\ UNCHANGED <<jailed, locals>>
-----------------------------------------------------------------------------
(* _server_action_move_player: whoever is on cell c goes to cell n.        *)
Shifted(b, c, n) ==
  [at |-> [u \in Thread |-> IF u = b.on[c] THEN n ELSE b.at[u]],
   on |-> [b.on EXCEPT ![c] = None, ![n] = b.on[c]]]

Place  == [at |-> at, on |-> on]
Put(b) == at' = b.at /\ on' = b.on

IsNear(t)  == <<from[t], to[t]>> \in Near
Target(t)  == on[to[t]]
Rescues(t) == t \in Red /\ to[t] \in Jail /\ from[t] \notin Jail

(* Mutant: a prisoner may walk out.                                        *)
StepAnywhere(t) ==
  /\ pc[t] = "act" /\ IsNear(t) /\ Target(t) = None /\ ~Rescues(t)
  /\ Goto(t, "step")
  /\ UNCHANGED <<board, owner, locals>>

(* The cell is found unoccupied, and only then the player is moved.        *)
StepIn(t) ==
  /\ pc[t] = "act" /\ IsNear(t) /\ Target(t) = None
  /\ IF jailed[t] THEN to[t] \in Jail ELSE ~Rescues(t)
  /\ Goto(t, "step")
  /\ UNCHANGED <<board, owner, locals>>

(* When nobody was on the first cell the code reads a null *next->player:  *)
(* no step.                                                                *)
MovePlayer(t) ==
  /\ pc[t] = "step" /\ on[from[t]] # None
  /\ Put(Shifted(Place, from[t], to[t]))
  /\ Goto(t, "unlock")
  /\ UNCHANGED <<jailed, owner, locals>>

(* The jail cells a search can end at.                                     *)
OpenJail == { d \in Jail : owner[d] = None /\ on[d] = None }

(* t walks into the player u: whoever is red goes to jail, and a blue t    *)
(* takes the cell.  A red t's own cell may be somebody else's by now, if t *)
(* gave up its locks; a blue player there would go to the red jail, which  *)
(* this model leaves out.                                                  *)
Victim(t) == IF t \in Red THEN on[from[t]] ELSE Target(t)

TagOnBlue(t) ==
  LET u == Target(t)
      v == Victim(t) IN
  /\ pc[t] = "act" /\ IsNear(t) /\ u # None /\ ~jailed[t]
  /\ ~SameTeam(t, u) /\ ~jailed[u]
  /\ v \in Red /\ ~jailed[v]
  /\ \E d \in OpenJail :
       IF t \in Red
       THEN Put(Shifted(Place, from[t], d))
       ELSE Put(Shifted(Shifted(Place, to[t], d), from[t], to[t]))
  /\ jailed' = [jailed EXCEPT ![v] = TRUE]
  /\ Goto(t, "unlock")
  /\ UNCHANGED <<owner, locals>>

Refused(t) ==
  \/ ~IsNear(t)
  \/ jailed[t] /\ (to[t] \notin Jail \/ Target(t) # None)
  \/ /\ ~jailed[t] /\ Target(t) # None
     /\ \/ SameTeam(t, Target(t))
        \/ jailed[Target(t)]
        \/ OpenJail = {}
        \/ Victim(t) = None
        \/ Victim(t) \in Red /\ jailed[Victim(t)]

Refuse(t) ==
  /\ pc[t] = "act" /\ Refused(t)
  /\ Goto(t, "unlock")
  /\ UNCHANGED <<board, owner, locals>>

(* _server_action_jailbreak: for each cell, read the player on it, lock    *)
(* it, and free the player that was read.                                  *)
Rescue(t) ==
  /\ pc[t] = "act" /\ IsNear(t) /\ Target(t) = None /\ ~jailed[t] /\ Rescues(t)
  /\ scan' = [scan EXCEPT ![t] = 0]
  /\ Goto(t, "read")
  /\ UNCHANGED <<board, owner, from, to, tries, seen>>

ScanRead(t) ==
  LET ahead == { c \in Scanned(t) : c >= scan[t] } IN
  /\ pc[t] = "read" /\ ahead # {}
  /\ scan' = [scan EXCEPT ![t] = Min(ahead)]
  /\ seen' = [seen EXCEPT ![t] = on[Min(ahead)]]
  /\ Goto(t, "lock")
  /\ UNCHANGED <<board, owner, from, to, tries>>

ScanLock(t) ==
  /\ pc[t] = "lock" /\ Lock(t, scan[t])
  /\ jailed' = [u \in Thread |-> jailed[u] /\ u # seen[t]]
  /\ scan' = [scan EXCEPT ![t] = @ + 1]
  /\ Goto(t, "read")
  /\ UNCHANGED <<at, on, from, to, tries, seen>>

Freeing(t) == pc[t] = "read" /\ \A c \in Scanned(t) : c < scan[t]

RescueEnd(t) ==
  /\ Freeing(t)
  /\ owner' = Release(Scanned(t))
  /\ Goto(t, "step")
  /\ UNCHANGED <<board, locals>>

(* Mutant: the cell that was moved to stays locked.                        *)
UnlockOne(t) ==
  /\ pc[t] = "unlock"
  /\ owner' = Release({from[t]})
  /\ Goto(t, "idle")
  /\ from' = [from EXCEPT ![t] = None] /\ to' = [to EXCEPT ![t] = None]
  /\ UNCHANGED <<board, tries, scan, seen>>

(* server_maze_unlock of cell and next, whoever holds them.  The locals    *)
(* end with the request.                                                   *)
Unlock(t) ==
  /\ pc[t] = "unlock"
  /\ owner' = Release({from[t], to[t]})
  /\ Goto(t, "idle")
  /\ from' = [from EXCEPT ![t] = None] /\ to' = [to EXCEPT ![t] = None]
  /\ tries' = [tries EXCEPT ![t] = Tries]
  /\ scan' = [scan EXCEPT ![t] = 0] /\ seen' = [seen EXCEPT ![t] = None]
  /\ UNCHANGED board
-----------------------------------------------------------------------------
(* Any placement of the players, the prisoners in the jail.                *)
Init ==
  /\ at \in { f \in [Thread -> Cell] : \A t, u \in Thread : f[t] = f[u] => t = u }
  /\ on = [c \in Cell |-> IF \E t \in Thread : at[t] = c
                          THEN CHOOSE t \in Thread : at[t] = c ELSE None]
  /\ jailed \in { f \in [Thread -> BOOLEAN] :
                    \A t \in Thread : f[t] => t \in Red /\ at[t] \in Jail }
  /\ owner = [c \in Cell |-> None]
  /\ pc = [t \in Thread |-> "idle"]
  /\ from = [t \in Thread |-> None] /\ to = [t \in Thread |-> None]
  /\ tries = [t \in Thread |-> Tries]
  /\ scan = [t \in Thread |-> 0] /\ seen = [t \in Thread |-> None]

Proceed(t) ==
  \/ LockFirst(t) \/ LockSecond(t) \/ LockAlone(t)
  \/ Checked(t) \/ Retry(t) \/ GiveUp(t) \/ Drop(t)
  \/ StepIn(t) \/ MovePlayer(t) \/ TagOnBlue(t) \/ Refuse(t)
  \/ Rescue(t) \/ ScanRead(t) \/ ScanLock(t) \/ RescueEnd(t)
  \/ Unlock(t)

Next == \E t \in Thread : Move(t) \/ Leave(t) \/ Proceed(t)

(* A request that was begun is carried on, and a thread that waits for a   *)
(* lock gets it if the lock is free again and again.                       *)
Fairness == \A t \in Thread : SF_vars(Proceed(t))

Spec == Init /\ [][Next]_vars /\ Fairness
-----------------------------------------------------------------------------
TypeOK ==
  /\ at \in [Thread -> Cell \cup {None}]
  /\ on \in [Cell -> Thread \cup {None}]
  /\ jailed \in [Thread -> BOOLEAN]
  /\ owner \in [Cell -> Thread \cup {None}]
  /\ pc \in [Thread -> {"idle", "first", "second", "check", "act", "step", "read",
                        "lock", "unlock", "alone", "drop", "stuck", "gone"}]
  /\ from \in [Thread -> Cell \cup {None}] /\ to \in [Thread -> Cell \cup {None}]
  /\ tries \in [Thread -> 0 .. Tries]
  /\ scan \in [Thread -> 0 .. Cells] /\ seen \in [Thread -> Thread \cup {None}]

(* A request changes the board only while its thread holds both cells, and *)
(* with its player still on the first of them.                             *)
HoldsCells ==
  \A t \in Thread :
    /\ pc[t] \in {"act", "step", "read", "lock", "unlock"} =>
         owner[from[t]] = t /\ owner[to[t]] = t
    /\ pc[t] \in {"act", "step", "read", "lock", "drop"} => Current(t)

(* Whatever the interleaving, the two references between players and cells *)
(* stay each other's inverse.                                              *)
OccupancyOK ==
  /\ \A t \in Thread : at[t] # None => on[at[t]] = t
  /\ \A c \in Cell : on[c] # None => at[on[c]] = c

(* Prisoners are in the jail until they are freed or leave the game, as    *)
(* long as the requests hold their cells: only one that gave up can move   *)
(* somebody else's player out.                                             *)
PrisonersInJail == \A t \in Thread : jailed[t] => at[t] \in Jail \cup {None}
PrisonersStay   == [][PrisonersInJail /\ HoldsCells => PrisonersInJail']_vars

(* game_server.c:578 "first is lower x value if x equal then lower y       *)
(* value": a thread that waits for a cell holds only cells before it.      *)
Awaited(t) == CASE pc[t] = "first"  -> {Lower(t)}
                [] pc[t] = "second" -> {Higher(t)}
                [] pc[t] = "lock"   -> {scan[t]}
                [] pc[t] = "alone"  -> {from[t]}
                [] OTHER            -> {}
LockOrder ==
  \A t \in Thread : \A c \in Awaited(t), d \in Cell : owner[d] = t => d < c

(* game_server.c:535 "Returns -1 if cannot lock.  SHOULD NEVER RETURN -1." *)
NeverFails == \A t \in Thread : tries[t] # 0

(* server-test.c:1029 "correctly free jailed players when moving into      *)
(* enemy jail cell while free": when the loop is done, nobody of the       *)
(* rescuer's team is left in jail.                                         *)
RescueFreesAll ==
  \A t \in Thread : Freeing(t) => \A u \in Thread :
    SameTeam(t, u) /\ at[u] # None => ~jailed[u]

(* Every request that locks its cells comes to its end.                    *)
RequestsEnd ==
  \A t \in Thread : pc[t] \notin {"idle", "gone"} ~> pc[t] \in {"idle", "gone"}
=============================================================================
