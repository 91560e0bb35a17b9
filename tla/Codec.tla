-------------------------------- MODULE Codec -------------------------------
(***************************************************************************)
(* The compressed words of game_commons.c, in which the server tells its   *)
(* clients about a player, an object, a broken wall and the game state.    *)
(* A word has 32 bits: the top one says that it is not to be ignored       *)
(* ("told"), the others are the number "bits".                             *)
(***************************************************************************)
EXTENDS Integers

(* The values of the bits at which the fields start, and of all below 31.  *)
Bit8    == 256
Bit16   == 65536
Bit24   == 16777216
Bit25   == 33554432
Bit26   == 67108864
Bit27   == 134217728
MaxBits == 2147483647

Word    == { w \in [told : BOOLEAN, bits : Nat] : w.bits <= MaxBits }
Ignored == [told |-> FALSE, bits |-> 0]

(* What a word says of a player and of an object.                          *)
PlayerFacts == [y : 0 .. 255, x : 0 .. 255, id : 0 .. 255, state : 0 .. 1,
                team : 0 .. 1, update : 0 .. 3]
ObjectFacts == [y : 0 .. 255, x : 0 .. 255, id : 0 .. 255, holderTeam : 0 .. 1,
                held : 0 .. 1, type : 0 .. 1, team : 0 .. 1]

(* The field of width w (a power of two) that starts at bit value at.      *)
Field(bits, at, w) == (bits \div at) % w

PackPlayer(y, x, id, state, team, update) ==
  y + x * Bit8 + id * Bit16 + state * Bit24 + team * Bit25 + update * Bit26

CompressPlayer(p) ==
  [told |-> TRUE, bits |-> PackPlayer(p.y % 256, p.x % 256, p.id % 256,
                                      p.state % 2, p.team % 2, p.update % 4)]

DecompressPlayer(w) ==
  [y      |-> Field(w.bits, 1, 256),
   x      |-> Field(w.bits, Bit8, 256),
   id     |-> Field(w.bits, Bit16, 256),
   state  |-> Field(w.bits, Bit24, 2),
   team   |-> Field(w.bits, Bit25, 2),
   update |-> Field(w.bits, Bit26, 4)]

PackObject(y, x, id, holderTeam, held, type, team) ==
  y + x * Bit8 + id * Bit16 + holderTeam * Bit24 + held * Bit25
    + type * Bit26 + team * Bit27

(* The fields of the carrier stay clear when there is none.                *)
CompressObject(o) ==
  [told |-> TRUE,
   bits |-> PackObject(o.y % 256, o.x % 256, o.held * (o.id % 256),
                       o.held * (o.holderTeam % 2), o.held, o.type % 2, o.team % 2)]

(* The carrier is read only if the word says that there is one; the caller *)
(* has cleared the object.                                                 *)
DecompressObject(w) ==
  LET held == Field(w.bits, Bit25, 2)
  IN  [y          |-> Field(w.bits, 1, 256),
       x          |-> Field(w.bits, Bit8, 256),
       type       |-> Field(w.bits, Bit26, 2),
       team       |-> Field(w.bits, Bit27, 2),
       held       |-> held,
       id         |-> IF held = 1 THEN Field(w.bits, Bit16, 256) ELSE 0,
       holderTeam |-> IF held = 1 THEN Field(w.bits, Bit24, 2) ELSE 0]

(* Mutant: the word is started anew, without the wall.                     *)
CompressStateAlone(w, s) == [w EXCEPT !.bits = (s % 8) * Bit16]

(* The game state and a broken wall share a word: each writes its own bits *)
(* and keeps the other's.                                                  *)
CompressState(w, s) ==
  [w EXCEPT !.bits = @ - Field(@, Bit16, 8) * Bit16 + (s % 8) * Bit16]

CompressWall(w, c) ==
  [told |-> TRUE,
   bits |-> (w.bits \div Bit16) * Bit16 + (c[2] % 256) + (c[1] % 256) * Bit8]

(* Mutant: the column is not shifted down.                                 *)
DecompressWallHigh(w) == <<Field(w.bits, Bit8, 256) * Bit8, Field(w.bits, 1, 256)>>

DecompressWall(w) == <<Field(w.bits, Bit8, 256), Field(w.bits, 1, 256)>>

(* A state above GAME_STATE_ERROR is refused and nothing is read.          *)
StateValid(w)      == Field(w.bits, Bit16, 8) <= 5
DecompressState(w) == Field(w.bits, Bit16, 8)
=============================================================================
