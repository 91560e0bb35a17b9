----------------------------- MODULE CodecProofs ----------------------------
(***************************************************************************)
(* Nothing is lost between a compressed word and what is read from it, for *)
(* every value that fits its field: the proofs of module Codec.            *)
(***************************************************************************)
EXTENDS Codec, TLAPS

(* The six fields of a player's word hold these values.                   *)
PlayerReads(b, y, x, id, state, team, update) ==
  /\ b \in Nat /\ b <= MaxBits
  /\ Field(b, 1, 256) = y /\ Field(b, Bit8, 256) = x
  /\ Field(b, Bit16, 256) = id /\ Field(b, Bit24, 2) = state
  /\ Field(b, Bit25, 2) = team /\ Field(b, Bit26, 4) = update

(* The word of a player is the number that its fields spell.               *)
LEMMA PlayerBits ==
  ASSUME NEW y \in 0 .. 255, NEW x \in 0 .. 255, NEW id \in 0 .. 255,
         NEW state \in 0 .. 1, NEW team \in 0 .. 1, NEW update \in 0 .. 3
  PROVE  PlayerReads(PackPlayer(y, x, id, state, team, update),
                     y, x, id, state, team, update)
<1>0. PICK b \in Int : b = y + x * 256 + id * 65536 + state * 16777216
                          + team * 33554432 + update * 67108864
  BY SMT
<1>1. b \in Nat /\ b <= MaxBits
  BY <1>0, SMT DEF MaxBits
<1>2. Field(b, 1, 256) = y
  <2>1. b \div 1 = y + 256 * (x + id * 256 + state * 65536 + team * 131072 + update * 262144)
    BY <1>0, SMT
  <2> QED  BY <2>1, SMT DEF Field
<1>3. Field(b, Bit8, 256) = x
  <2>1. b \div 256 = x + 256 * (id + state * 256 + team * 512 + update * 1024)
    BY <1>0, SMT
  <2> QED  BY <2>1, SMT DEF Field, Bit8
<1>4. Field(b, Bit16, 256) = id
  <2>1. b \div 65536 = id + 256 * (state + team * 2 + update * 4)
    BY <1>0, SMT
  <2> QED  BY <2>1, SMT DEF Field, Bit16
<1>5. Field(b, Bit24, 2) = state
  <2>1. b \div 16777216 = state + 2 * (team + update * 2)
    BY <1>0, SMT
  <2> QED  BY <2>1, SMT DEF Field, Bit24
<1>6. Field(b, Bit25, 2) = team
  <2>1. b \div 33554432 = team + 2 * update
    BY <1>0, SMT
  <2> QED  BY <2>1, SMT DEF Field, Bit25
<1>7. Field(b, Bit26, 4) = update
  <2>1. b \div 67108864 = update
    BY <1>0, SMT
  <2> QED  BY <2>1, SMT DEF Field, Bit26
<1> QED  BY <1>0, <1>1, <1>2, <1>3, <1>4, <1>5, <1>6, <1>7, SMT
     DEF PackPlayer, PlayerReads, Bit8, Bit16, Bit24, Bit25, Bit26

(* A client reads from the word of a player what the server wrote in it:   *)
(* compress_player and decompress_player agree on every field.             *)
THEOREM PlayerRoundTrip ==
  ASSUME NEW p \in PlayerFacts
  PROVE  /\ CompressPlayer(p) \in Word
         /\ DecompressPlayer(CompressPlayer(p)) = p
<1>1. /\ p.y \in 0 .. 255 /\ p.x \in 0 .. 255 /\ p.id \in 0 .. 255
      /\ p.state \in 0 .. 1 /\ p.team \in 0 .. 1 /\ p.update \in 0 .. 3
  BY SMT DEF PlayerFacts
<1>2. /\ p.y % 256 = p.y /\ p.x % 256 = p.x /\ p.id % 256 = p.id
      /\ p.state % 2 = p.state /\ p.team % 2 = p.team /\ p.update % 4 = p.update
  BY <1>1, SMT
<1> DEFINE b == PackPlayer(p.y, p.x, p.id, p.state, p.team, p.update)
<1>3. CompressPlayer(p) = [told |-> TRUE, bits |-> b]
  BY <1>2, Zenon DEF CompressPlayer
<1>4. PlayerReads(b, p.y, p.x, p.id, p.state, p.team, p.update)
  BY <1>1, PlayerBits, Zenon
<1> HIDE DEF b
<1>5. DecompressPlayer(CompressPlayer(p)) =
        [y |-> p.y, x |-> p.x, id |-> p.id, state |-> p.state,
         team |-> p.team, update |-> p.update]
  BY <1>3, <1>4, SMT DEF DecompressPlayer, PlayerReads
<1>6. CompressPlayer(p) \in Word
  BY <1>3, <1>4, SMT DEF Word, PlayerReads
<1> QED  BY <1>5, <1>6, SMT DEF PlayerFacts

-----------------------------------------------------------------------------
(* The seven fields of an object's word hold these values.                 *)
ObjectReads(b, y, x, id, holderTeam, held, type, team) ==
  /\ b \in Nat /\ b <= MaxBits
  /\ Field(b, 1, 256) = y /\ Field(b, Bit8, 256) = x
  /\ Field(b, Bit16, 256) = id /\ Field(b, Bit24, 2) = holderTeam
  /\ Field(b, Bit25, 2) = held /\ Field(b, Bit26, 2) = type
  /\ Field(b, Bit27, 2) = team

(* The word of an object is the number that its fields spell.              *)
LEMMA ObjectBits ==
  ASSUME NEW y \in 0 .. 255, NEW x \in 0 .. 255, NEW id \in 0 .. 255,
         NEW holderTeam \in 0 .. 1, NEW held \in 0 .. 1, NEW type \in 0 .. 1,
         NEW team \in 0 .. 1
  PROVE  ObjectReads(PackObject(y, x, id, holderTeam, held, type, team),
                     y, x, id, holderTeam, held, type, team)
<1>0. PICK b \in Int : b = y + x * 256 + id * 65536 + holderTeam * 16777216
                          + held * 33554432 + type * 67108864 + team * 134217728
  BY SMT
<1>1. b \in Nat /\ b <= MaxBits
  BY <1>0, SMT DEF MaxBits
<1>2. Field(b, 1, 256) = y
  <2>1. b \div 1 = y + 256 * (x + id * 256 + holderTeam * 65536 + held * 131072
                              + type * 262144 + team * 524288)
    BY <1>0, SMT
  <2> QED  BY <2>1, SMT DEF Field
<1>3. Field(b, Bit8, 256) = x
  <2>1. b \div 256 = x + 256 * (id + holderTeam * 256 + held * 512 + type * 1024
                                + team * 2048)
    BY <1>0, SMT
  <2> QED  BY <2>1, SMT DEF Field, Bit8
<1>4. Field(b, Bit16, 256) = id
  <2>1. b \div 65536 = id + 256 * (holderTeam + held * 2 + type * 4 + team * 8)
    BY <1>0, SMT
  <2> QED  BY <2>1, SMT DEF Field, Bit16
<1>5. Field(b, Bit24, 2) = holderTeam
  <2>1. b \div 16777216 = holderTeam + 2 * (held + type * 2 + team * 4)
    BY <1>0, SMT
  <2> QED  BY <2>1, SMT DEF Field, Bit24
<1>6. Field(b, Bit25, 2) = held
  <2>1. b \div 33554432 = held + 2 * (type + team * 2)
    BY <1>0, SMT
  <2> QED  BY <2>1, SMT DEF Field, Bit25
<1>7. Field(b, Bit26, 2) = type
  <2>1. b \div 67108864 = type + 2 * team
    BY <1>0, SMT
  <2> QED  BY <2>1, SMT DEF Field, Bit26
<1>8. Field(b, Bit27, 2) = team
  <2>1. b \div 134217728 = team
    BY <1>0, SMT
  <2> QED  BY <2>1, SMT DEF Field, Bit27
<1> QED  BY <1>0, <1>1, <1>2, <1>3, <1>4, <1>5, <1>6, <1>7, <1>8, SMT
     DEF PackObject, ObjectReads, Bit8, Bit16, Bit24, Bit25, Bit26, Bit27

(* A client reads from the word of an object what the server wrote in it,  *)
(* and no carrier when there is none, whatever the fields of the carrier   *)
(* held: compress_object and decompress_object agree.                      *)
THEOREM ObjectRoundTrip ==
  ASSUME NEW o \in ObjectFacts
  PROVE  /\ CompressObject(o) \in Word
         /\ DecompressObject(CompressObject(o)) =
              [y |-> o.y, x |-> o.x, type |-> o.type, team |-> o.team,
               held |-> o.held,
               id |-> IF o.held = 1 THEN o.id ELSE 0,
               holderTeam |-> IF o.held = 1 THEN o.holderTeam ELSE 0]
<1>1. /\ o.y \in 0 .. 255 /\ o.x \in 0 .. 255 /\ o.id \in 0 .. 255
      /\ o.holderTeam \in 0 .. 1 /\ o.held \in 0 .. 1
      /\ o.type \in 0 .. 1 /\ o.team \in 0 .. 1
  BY SMT DEF ObjectFacts
<1> DEFINE id == o.held * (o.id % 256)
           ht == o.held * (o.holderTeam % 2)
           b  == PackObject(o.y, o.x, id, ht, o.held, o.type, o.team)
<1>2. /\ o.y % 256 = o.y /\ o.x % 256 = o.x
      /\ o.type % 2 = o.type /\ o.team % 2 = o.team
  BY <1>1, SMT
<1>3. /\ id = IF o.held = 1 THEN o.id ELSE 0
      /\ ht = IF o.held = 1 THEN o.holderTeam ELSE 0
  BY <1>1, SMT
<1>4. id \in 0 .. 255 /\ ht \in 0 .. 1
  BY <1>1, <1>3, SMT
<1>5. CompressObject(o) = [told |-> TRUE, bits |-> b]
  BY <1>2, Zenon DEF CompressObject
<1> HIDE DEF id, ht
<1>6. ObjectReads(b, o.y, o.x, id, ht, o.held, o.type, o.team)
  BY <1>1, <1>4, ObjectBits, Zenon
<1> HIDE DEF b
<1>7. DecompressObject(CompressObject(o)) =
        [y |-> o.y, x |-> o.x, type |-> o.type, team |-> o.team, held |-> o.held,
         id |-> IF o.held = 1 THEN o.id ELSE 0,
         holderTeam |-> IF o.held = 1 THEN o.holderTeam ELSE 0]
  BY <1>3, <1>5, <1>6, SMT DEF DecompressObject, ObjectReads
<1>8. CompressObject(o) \in Word
  BY <1>5, <1>6, SMT DEF Word, ObjectReads
<1> QED  BY <1>7, <1>8, SMT

-----------------------------------------------------------------------------
(* The word that the wall and the state share, from its four parts, the    *)
(* bits above the state being never set but never cleared either.          *)
Shared(h, s, x, y) == h * (8 * Bit16) + s * Bit16 + x * Bit8 + y
High(b) == (b \div Bit16) \div 8

(* The three fields of such a word hold these values.                      *)
SharedReads(b, s, x, y) ==
  /\ b \in Nat
  /\ Field(b, Bit16, 8) = s /\ Field(b, Bit8, 256) = x /\ Field(b, 1, 256) = y

(* Such a word is made of what is read from it.                            *)
LEMMA SharedWord ==
  ASSUME NEW b \in Nat
  PROVE  /\ High(b) \in Nat /\ Field(b, Bit16, 8) \in 0 .. 7
         /\ Field(b, Bit8, 256) \in 0 .. 255 /\ Field(b, 1, 256) \in 0 .. 255
         /\ b \div Bit16 = High(b) * 8 + Field(b, Bit16, 8)
         /\ b = Shared(High(b), Field(b, Bit16, 8), Field(b, Bit8, 256),
                       Field(b, 1, 256))
<1> DEFINE q == b \div 256
           r == b \div 65536
           h == r \div 8
<1>1. /\ q \in Nat /\ b % 256 \in 0 .. 255 /\ b = q * 256 + (b % 256)
      /\ b \div 1 = b
  BY SMTT(30)
<1>2. /\ r \in Nat /\ r = q \div 256
  BY SMTT(30)
<1> HIDE DEF q, r
<1>3. q % 256 \in 0 .. 255 /\ q = r * 256 + (q % 256)
  BY <1>1, <1>2, SMTT(30)
<1>4. h \in Nat /\ r % 8 \in 0 .. 7 /\ r = h * 8 + (r % 8)
  BY <1>2, SMTT(30)
<1>5. /\ High(b) = h /\ b \div Bit16 = r /\ Field(b, Bit16, 8) = r % 8
      /\ Field(b, Bit8, 256) = q % 256 /\ Field(b, 1, 256) = b % 256
  BY <1>1, SMTT(30) DEF q, r, High, Field, Bit8, Bit16
<1> HIDE DEF h
<1>6. q = h * 2048 + (r % 8) * 256 + (q % 256)
  BY <1>3, <1>4, SMTT(30)
<1>7. b = h * 524288 + (r % 8) * 65536 + (q % 256) * 256 + (b % 256)
  BY <1>1, <1>3, <1>4, <1>6, SMTT(30)
<1>8. b = Shared(h, r % 8, q % 256, b % 256)
  BY <1>1, <1>3, <1>4, <1>7, SMTT(30) DEF Shared, Bit8, Bit16
<1> QED  BY <1>1, <1>3, <1>4, <1>5, <1>8, SMTT(30)

(* And what is read from a word so made are its parts.                     *)
LEMMA SharedBits ==
  ASSUME NEW h \in Nat, NEW s \in 0 .. 7, NEW x \in 0 .. 255, NEW y \in 0 .. 255
  PROVE  SharedReads(Shared(h, s, x, y), s, x, y)
<1> DEFINE b == Shared(h, s, x, y)
<1>1. b \in Nat /\ b = h * 524288 + s * 65536 + x * 256 + y
  BY SMTT(30) DEF Shared, Bit8, Bit16
<1> HIDE DEF b
<1>2. b \div 65536 = h * 8 + s
  BY <1>1, SMTT(30)
<1>3. b \div 256 = x + 256 * (h * 8 + s)
  BY <1>1, SMTT(30)
<1>4. b \div 1 = y + 256 * (x + 256 * (h * 8 + s))
  BY <1>1, SMTT(30)
<1>5. (h * 8 + s) % 8 = s
  BY SMTT(30)
<1>6. /\ (x + 256 * (h * 8 + s)) % 256 = x
      /\ (y + 256 * (x + 256 * (h * 8 + s))) % 256 = y
  BY SMTT(30)
<1>7. SharedReads(b, s, x, y)
  BY <1>1, <1>2, <1>3, <1>4, <1>5, <1>6, SMTT(30) DEF SharedReads, Field, Bit8, Bit16
<1> QED  BY <1>7 DEF b

(* Writing the game state into a word that tells of a broken wall, or into *)
(* an empty one, makes the state readable and keeps the wall.              *)
THEOREM StateKeepsWall ==
  ASSUME NEW w \in Word, NEW s \in 0 .. 5
  PROVE  LET v == CompressState(w, s)
         IN  /\ StateValid(v) /\ DecompressState(v) = s
             /\ v.told = w.told /\ DecompressWall(v) = DecompressWall(w)
<1>1. w \in [told : BOOLEAN, bits : Nat]
  BY DEF Word
<1> DEFINE h  == High(w.bits)
           s0 == Field(w.bits, Bit16, 8)
           x  == Field(w.bits, Bit8, 256)
           y  == Field(w.bits, 1, 256)
           b  == Shared(h, s, x, y)
<1>2. /\ h \in Nat /\ s0 \in 0 .. 7 /\ x \in 0 .. 255 /\ y \in 0 .. 255
      /\ w.bits = Shared(h, s0, x, y)
  BY <1>1, SharedWord, SMTT(30)
<1> HIDE DEF h, s0, x, y
<1>3. s \in 0 .. 7
  BY SMT
<1>4. SharedReads(b, s, x, y)
  BY <1>2, <1>3, SharedBits, Zenon
<1>5. w.bits - s0 * Bit16 + (s % 8) * Bit16 = b
  BY <1>2, <1>3, SMTT(30) DEF Shared, Bit8, Bit16
<1> HIDE DEF b
<1>6. CompressState(w, s) = [w EXCEPT !.bits = b]
  BY <1>5, Zenon DEF CompressState, s0
<1> QED  BY <1>1, <1>2, <1>4, <1>6, SMTT(30)
         DEF SharedReads, StateValid, DecompressState, DecompressWall, x, y

(* Writing a broken wall makes it readable and keeps the game state.       *)
THEOREM WallKeepsState ==
  ASSUME NEW w \in Word, NEW c \in (0 .. 255) \X (0 .. 255)
  PROVE  LET v == CompressWall(w, c)
         IN  /\ v.told /\ DecompressWall(v) = c
             /\ DecompressState(v) = DecompressState(w)
<1>1. w \in [told : BOOLEAN, bits : Nat]
  BY DEF Word
<1> DEFINE h == High(w.bits)
           s == Field(w.bits, Bit16, 8)
           b == Shared(h, s, c[1], c[2])
<1>2. /\ h \in Nat /\ s \in 0 .. 7 /\ w.bits \div Bit16 = h * 8 + s
  BY <1>1, SharedWord, SMTT(30)
<1>3. c[1] \in 0 .. 255 /\ c[2] \in 0 .. 255 /\ c = <<c[1], c[2]>>
  BY SMT
<1> HIDE DEF h, s
<1>4. SharedReads(b, s, c[1], c[2])
  BY <1>2, <1>3, SharedBits, Zenon
<1>5. (w.bits \div Bit16) * Bit16 + (c[2] % 256) + (c[1] % 256) * Bit8 = b
  BY <1>2, <1>3, SMTT(30) DEF Shared, Bit8, Bit16
<1> HIDE DEF b
<1>6. CompressWall(w, c) = [told |-> TRUE, bits |-> b]
  BY <1>5, Zenon DEF CompressWall
<1> QED  BY <1>3, <1>4, <1>6, SMTT(30)
         DEF SharedReads, DecompressState, DecompressWall, s
=============================================================================
