----------------------------- MODULE LocksProofs ----------------------------
(***************************************************************************)
(* The cell locks of module Locks, for any number of players and any map.  *)
(* Where nobody can be tagged, a request holds both of its cells while it  *)
(* changes the board, which is what keeps players and cells in step.  With *)
(* tags that is false: a player can be tagged between the read of its cell *)
(* and the lock (lock_by_player gives up in the end).  The second half of  *)
(* the module is about that case, and about the prisoners it makes.        *)
(***************************************************************************)
EXTENDS Locks, FiniteSetTheorems, TLAPS

(* There is no opponent to tag, or no cell to put who is tagged.           *)
Untagged == Red = {} \/ Blue = {} \/ Jail = {}

Where == {"idle", "first", "second", "check", "act", "step", "read", "lock",
          "unlock", "alone", "drop", "stuck", "gone"}

(* The parts of a request: with its player still on the first cell, and    *)
(* with two cells.                                                         *)
OnFrom == {"first", "second", "check", "act", "step", "read", "lock", "alone", "drop"}
OfTwo  == {"first", "second", "check", "act", "step", "read", "lock", "unlock"}

LockType ==
  /\ at \in [Thread -> Cell \cup {None}] /\ on \in [Cell -> Thread \cup {None}]
  /\ owner \in [Cell -> Thread \cup {None}]
  /\ pc \in [Thread -> Where]
  /\ from \in [Thread -> Cell \cup {None}] /\ to \in [Thread -> Cell \cup {None}]
  /\ scan \in [Thread -> Nat]

(* The cells a thread has locked, by where it is in its request.           *)
Holds(t, c) ==
  \/ pc[t] = "second" /\ c = Lower(t)
  \/ /\ pc[t] \in {"check", "act", "step", "read", "lock", "unlock"}
     /\ c \in {from[t], to[t]}
  \/ pc[t] \in {"read", "lock"} /\ c \in Scanned(t) /\ c < scan[t]
  \/ pc[t] = "drop" /\ c = from[t]

OwnerOK == \A t \in Thread, c \in Cell : owner[c] = t <=> Holds(t, c)

(* What a request has found on its cells stays true while it holds them.   *)
Found(t) ==
  /\ pc[t] \in OnFrom => from[t] \in Cell /\ at[t] = from[t]
  /\ pc[t] \in OfTwo => from[t] \in Cell /\ to[t] \in Cell
  /\ pc[t] = "second" => from[t] # to[t]
  /\ pc[t] \in {"step", "read", "lock"} => on[to[t]] = None
  /\ pc[t] = "lock" => scan[t] \in Scanned(t)
  /\ pc[t] # "stuck"

FoundOK == \A t \in Thread : Found(t)

LockInv == LockType /\ OwnerOK /\ FoundOK /\ OccupancyOK

-----------------------------------------------------------------------------
(* The lower and the higher of the two cells.                              *)
LEMMA LowerHigher ==
  ASSUME NEW t \in Thread, from[t] \in Cell, to[t] \in Cell
  PROVE  /\ Lower(t) = IF from[t] <= to[t] THEN from[t] ELSE to[t]
         /\ Higher(t) = IF from[t] <= to[t] THEN to[t] ELSE from[t]
         /\ Lower(t) \in Cell /\ Higher(t) \in Cell
         /\ {Lower(t), Higher(t)} = {from[t], to[t]}
<1>. DEFINE a == from[t]
            b == to[t]
            S == {a, b}
            l == IF a <= b THEN a ELSE b
            h == IF a <= b THEN b ELSE a
<1>1. a \in Int /\ b \in Int
  BY LocksAssumption DEF Cell
<1>. HIDE DEF a, b
<1>2. l \in S /\ h \in S /\ \A y \in S : l <= y /\ h >= y
  BY <1>1
<1>3. \A x \in S : (\A y \in S : x <= y) => x = l
  BY <1>1
<1>4. \A x \in S : (\A y \in S : x >= y) => x = h
  BY <1>1
<1>. HIDE DEF S, l, h
<1>5. Min(S) = l
  BY <1>2, <1>3 DEF Min
<1>6. Max(S) = h
  BY <1>2, <1>4 DEF Max
<1>. USE DEF S, l, h, a, b
<1>. QED
  BY <1>5, <1>6 DEF Lower, Higher

(* A set of natural numbers has a least element.                           *)
LEMMA LeastOf ==
  ASSUME NEW S \in SUBSET Nat, S # {}
  PROVE  Min(S) \in S /\ \A y \in S : Min(S) <= y
<1>. DEFINE R == {ss \in Nat \X Nat : ss[1] < ss[2]}
<1>1. OpToRel(<, Nat) = R
  BY DEF OpToRel
<1>2. IsWellFoundedOn(R, Nat)
  BY <1>1, NatLessThanWellFounded
<1>3. PICK x \in S : \A y \in S : ~ (<<y, x>> \in R)
  BY <1>2, WFMin
<1>4. ASSUME NEW y \in S, y < x PROVE FALSE
  <2>1. <<y, x>> \in Nat \X Nat /\ <<y, x>>[1] < <<y, x>>[2]
    BY <1>4
  <2>2. <<y, x>> \in R
    BY <2>1
  <2>. QED
    BY <1>3, <2>2
<1>5. \A y \in S : x <= y
  BY <1>4
<1>. QED
  BY <1>5 DEF Min

-----------------------------------------------------------------------------
(* A step of thread t leaves the locals of the other threads alone.        *)
Local(t) == \A u \in Thread \ {t} :
  pc'[u] = pc[u] /\ from'[u] = from[u] /\ to'[u] = to[u] /\ scan'[u] = scan[u]

(* Such a step keeps track of the owners if t owns what it now holds and   *)
(* the cells of the others are not touched.                                *)
LEMMA OwnerStep ==
  ASSUME OwnerOK, NEW t \in Thread, Local(t),
         \A c \in Cell : owner'[c] = t <=> Holds(t, c)',
         \A c \in Cell, u \in Thread \ {t} : owner'[c] = u <=> owner[c] = u
  PROVE  OwnerOK'
<1>1. ASSUME NEW u \in Thread \ {t}, NEW c \in Cell
      PROVE  owner'[c] = u <=> Holds(u, c)'
  <2>1. Lower(u)' = Lower(u) /\ Scanned(u)' = Scanned(u)
    BY DEF Local, Lower, Scanned
  <2>2. Holds(u, c)' <=> Holds(u, c)
    BY <2>1 DEF Local, Holds
  <2>. QED
    BY <2>2 DEF OwnerOK
<1>. QED
  BY <1>1 DEF OwnerOK

(* A step that does not change the board but may change the locks.         *)
LEMMA StillBoard ==
  ASSUME LockInv, NEW t \in Thread, Local(t), at' = at, on' = on,
         LockType', OwnerOK', Found(t)'
  PROVE  LockInv'
<1>1. \A u \in Thread \ {t} : Found(u)'
  BY DEF LockInv, FoundOK, Found, Local, Scanned
<1>. QED
  BY <1>1 DEF LockInv, FoundOK, OccupancyOK

(* The player of a request is still on its first cell.                     *)
LEMMA StillThere ==
  ASSUME LockInv, NEW t \in Thread, pc[t] \in OnFrom
  PROVE  Current(t)
  BY LocksAssumption DEF LockInv, FoundOK, Found, OccupancyOK, Current

LEMMA StartLock ==
  ASSUME LockInv, NEW t \in Thread, Move(t) \/ Leave(t)
  PROVE  LockInv'
<1>1. PICK n \in Cell \cup {None}, kind \in {"first", "alone"} :
        Start(t, n, kind) /\ (kind = "first" => n \in Cell)
  BY DEF Move, Leave
<1>2. /\ pc[t] = "idle" /\ at[t] # None /\ from' = [from EXCEPT ![t] = at[t]]
      /\ to' = [to EXCEPT ![t] = n] /\ pc' = [pc EXCEPT ![t] = kind]
      /\ UNCHANGED <<at, on, owner, scan>>
  BY <1>1 DEF Start, board
<1>3. LockType' /\ Local(t)
  BY <1>2 DEF LockInv, LockType, Local, Where
<1>4. Found(t)'
  BY <1>1, <1>2 DEF LockInv, LockType, Found, OnFrom, OfTwo
<1>5. \A c \in Cell : ~Holds(t, c) /\ ~Holds(t, c)'
  BY <1>2 DEF LockInv, LockType, Holds
<1>6. OwnerOK'
  BY <1>2, <1>3, <1>5, OwnerStep DEF LockInv, OwnerOK
<1>. QED
  BY <1>2, <1>3, <1>4, <1>6, StillBoard

(* server_maze_lock: the lower cell, then the higher one.                  *)
LEMMA LockPair ==
  ASSUME LockInv, NEW t \in Thread, LockFirst(t) \/ LockSecond(t)
  PROVE  LockInv'
<1>1. /\ from[t] \in Cell /\ to[t] \in Cell /\ at[t] = from[t]
      /\ Lower(t) \in Cell /\ Higher(t) \in Cell
      /\ {Lower(t), Higher(t)} = {from[t], to[t]}
      /\ from[t] = to[t] => Lower(t) = from[t]
  BY LowerHigher DEF LockInv, FoundOK, Found, LockFirst, LockSecond, OnFrom, OfTwo
<1>2. UNCHANGED <<at, on, from, to, scan>> /\ pc[t] \in {"first", "second"}
  BY DEF LockFirst, LockSecond, board, locals
<1>3. Lower(t)' = Lower(t) /\ Scanned(t)' = Scanned(t)
  BY <1>2 DEF Lower, Scanned
<1>4. CASE LockFirst(t)
  <2>1. /\ pc[t] = "first" /\ owner[Lower(t)] = None /\ owner' = [owner EXCEPT ![Lower(t)] = t]
        /\ pc' = [pc EXCEPT ![t] = IF from[t] = to[t] THEN "check" ELSE "second"]
    BY <1>4 DEF LockFirst, Lock, Goto
  <2>2. LockType' /\ Local(t) /\ Found(t)'
    BY <1>1, <1>2, <2>1 DEF LockInv, LockType, Local, Where, Found, OnFrom, OfTwo
  <2>3. \A c \in Cell : Holds(t, c)' <=> c = Lower(t)
    BY <1>1, <1>2, <1>3, <2>1 DEF LockInv, LockType, Holds
  <2>4. \A c \in Cell : owner[c] # t
    BY <2>1 DEF LockInv, OwnerOK, Holds
  <2>5. OwnerOK'
    BY <1>1, <2>1, <2>2, <2>3, <2>4, LocksAssumption, OwnerStep DEF LockInv, LockType
  <2>. QED
    BY <1>2, <2>2, <2>5, StillBoard
<1>5. CASE LockSecond(t)
  <2>1. /\ pc[t] = "second" /\ owner[Higher(t)] = None
        /\ owner' = [owner EXCEPT ![Higher(t)] = t] /\ pc' = [pc EXCEPT ![t] = "check"]
    BY <1>5 DEF LockSecond, Lock, Goto
  <2>2. LockType' /\ Local(t) /\ Found(t)'
    BY <1>1, <1>2, <2>1 DEF LockInv, LockType, Local, Where, Found, OnFrom, OfTwo
  <2>3. \A c \in Cell : Holds(t, c)' <=> c \in {Lower(t), Higher(t)}
    BY <1>1, <1>2, <2>1 DEF LockInv, LockType, Holds
  <2>4. \A c \in Cell : owner[c] = t <=> c = Lower(t)
    BY <2>1 DEF LockInv, OwnerOK, Holds
  <2>5. OwnerOK'
    BY <1>1, <2>1, <2>2, <2>3, <2>4, LocksAssumption, OwnerStep DEF LockInv, LockType
  <2>. QED
    BY <1>2, <2>2, <2>5, StillBoard
<1>. QED
  BY <1>4, <1>5

(* A departure locks its one cell and takes the player off the map.        *)
LEMMA DropLock ==
  ASSUME LockInv, NEW t \in Thread, LockAlone(t) \/ Drop(t)
  PROVE  LockInv'
<1>1. /\ from[t] \in Cell /\ at[t] = from[t] /\ on[from[t]] = t
      /\ UNCHANGED <<from, to, scan>>
  BY StillThere
  DEF LockInv, FoundOK, Found, LockAlone, Drop, OnFrom, Current, locals
<1>2. CASE LockAlone(t)
  <2>1. /\ pc[t] = "alone" /\ owner[from[t]] = None /\ owner' = [owner EXCEPT ![from[t]] = t]
        /\ pc' = [pc EXCEPT ![t] = "drop"] /\ UNCHANGED <<at, on>>
    BY <1>1, <1>2 DEF LockAlone, Lock, Goto, Current, board
  <2>2. LockType' /\ Local(t) /\ Found(t)'
    BY <1>1, <2>1 DEF LockInv, LockType, Local, Where, Found, OnFrom, OfTwo
  <2>3. \A c \in Cell : (Holds(t, c)' <=> c = from[t]) /\ owner[c] # t
    BY <1>1, <2>1 DEF LockInv, LockType, OwnerOK, Holds
  <2>4. OwnerOK'
    BY <1>1, <2>1, <2>2, <2>3, LocksAssumption, OwnerStep DEF LockInv, LockType
  <2>. QED
    BY <2>1, <2>2, <2>4, StillBoard
<1>3. CASE Drop(t)
  <2>1. /\ pc[t] = "drop" /\ pc' = [pc EXCEPT ![t] = "gone"] /\ owner' = Release({from[t]})
        /\ at' = [at EXCEPT ![t] = None] /\ on' = [on EXCEPT ![from[t]] = None]
    BY <1>3 DEF Drop, Goto
  <2>2. \A c \in Cell : owner'[c] = IF c = from[t] THEN None ELSE owner[c]
    BY <2>1 DEF Release
  <2>3. LockType'
    BY <1>1, <2>1 DEF LockInv, LockType, Where, Release
  <2>4. Local(t) /\ Found(t)'
    BY <1>1, <2>1 DEF LockInv, LockType, Local, Found, OnFrom, OfTwo
  <2>5. \A c \in Cell : ~Holds(t, c)' /\ (owner[c] = t <=> c = from[t])
    BY <1>1, <2>1 DEF LockInv, LockType, OwnerOK, Holds
  <2>6. OwnerOK'
    BY <1>1, <2>2, <2>4, <2>5, LocksAssumption, OwnerStep DEF LockInv
  <2>7. OccupancyOK'
    BY <1>1, <2>1, LocksAssumption DEF LockInv, LockType, OccupancyOK
  <2>8. ASSUME NEW u \in Thread \ {t} PROVE Found(u)'
    BY <2>1, <1>1, <2>4, <2>8 DEF LockInv, LockType, FoundOK, Found, Local, Scanned,
       OnFrom, OfTwo
  <2>. QED
    BY <2>3, <2>4, <2>6, <2>7, <2>8 DEF LockInv, FoundOK
<1>. QED
  BY <1>2, <1>3

(* One player moves to the free cell its request holds.                    *)
LEMMA MoveLock ==
  ASSUME LockInv, NEW t \in Thread, MovePlayer(t)
  PROVE  LockInv'
<1>1. /\ pc[t] = "step" /\ from[t] \in Cell /\ to[t] \in Cell /\ at[t] = from[t]
      /\ on[from[t]] = t /\ on[to[t]] = None
  BY StillThere DEF LockInv, FoundOK, Found, MovePlayer, OnFrom, OfTwo, Current
<1>2. from[t] # to[t]
  BY <1>1, LocksAssumption
<1>3. /\ at' = [u \in Thread |-> IF u = t THEN to[t] ELSE at[u]]
      /\ on' = [on EXCEPT ![from[t]] = None, ![to[t]] = t]
      /\ pc' = [pc EXCEPT ![t] = "unlock"] /\ UNCHANGED <<owner, from, to, scan>>
  BY <1>1 DEF MovePlayer, Put, Shifted, Place, Goto, locals
<1>4. \A c \in Cell : on'[c] = IF c = to[t] THEN t ELSE IF c = from[t] THEN None ELSE on[c]
  BY <1>1, <1>2, <1>3 DEF LockInv, LockType
<1>5. LockType'
  BY <1>1, <1>3, <1>4 DEF LockInv, LockType, Where
<1>6. Local(t) /\ Found(t)'
  BY <1>1, <1>3 DEF LockInv, LockType, Local, Found, OnFrom, OfTwo
<1>7. \A c \in Cell : Holds(t, c)' <=> Holds(t, c)
  BY <1>3, <1>1 DEF LockInv, LockType, Holds
<1>8. OwnerOK'
  BY <1>3, <1>6, <1>7, OwnerStep DEF LockInv, OwnerOK
<1>9. OccupancyOK'
  BY <1>1, <1>2, <1>3, <1>4, LocksAssumption DEF LockInv, LockType, OccupancyOK
<1>10. ASSUME NEW u \in Thread \ {t} PROVE Found(u)'
  <2>1. owner[from[t]] = t /\ owner[to[t]] = t
    BY <1>1 DEF LockInv, OwnerOK, Holds
  <2>2. ASSUME pc[u] \in {"step", "read", "lock"} PROVE to[u] # from[t] /\ to[u] # to[t] /\ to[u] \in Cell
    <3>1. to[u] \in Cell
      BY <2>2 DEF LockInv, FoundOK, Found, OfTwo
    <3>2. owner[to[u]] = u
      BY <2>2, <3>1 DEF LockInv, OwnerOK, Holds
    <3>. QED
      BY <2>1, <3>1, <3>2
  <2>3. pc[u] \in {"step", "read", "lock"} => on'[to[u]] = None
    BY <1>4, <2>2 DEF LockInv, FoundOK, Found
  <2>. QED
    BY <1>3, <1>6, <2>3 DEF LockInv, FoundOK, Found, Local, Scanned
<1>. QED
  BY <1>5, <1>6, <1>8, <1>9, <1>10 DEF LockInv, FoundOK

(* A step that only decides how the request goes on.                       *)
LEMMA DecideLock ==
  ASSUME LockInv, NEW t \in Thread, Checked(t) \/ StepIn(t) \/ Refuse(t) \/ Rescue(t)
  PROVE  LockInv'
<1>1. PICK w \in {"act", "step", "unlock", "read"} :
        /\ pc[t] = (IF w = "act" THEN "check" ELSE "act") /\ pc' = [pc EXCEPT ![t] = w]
        /\ w \in {"step", "read"} => on[to[t]] = None
        /\ scan' = [scan EXCEPT ![t] = IF w = "read" THEN 0 ELSE @]
        /\ UNCHANGED <<at, on, owner, from, to>>
  <2>1. scan = [scan EXCEPT ![t] = scan[t]]
    BY DEF LockInv, LockType
  <2>. QED
    BY <2>1 DEF Checked, StepIn, Refuse, Rescue, Goto, Target, board, locals
<1>2. LockType' /\ Local(t)
  BY <1>1 DEF LockInv, LockType, Local, Where
<1>3. Found(t)'
  BY <1>1 DEF LockInv, LockType, FoundOK, Found, OnFrom, OfTwo
<1>4. \A c \in Cell : Holds(t, c)' <=> Holds(t, c)
  <2>1. \A c \in Cell : ~(c < 0)
    BY LocksAssumption DEF Cell
  <2>. QED
    BY <1>1, <2>1 DEF LockInv, LockType, Holds
<1>5. OwnerOK'
  BY <1>1, <1>2, <1>4, OwnerStep DEF LockInv, OwnerOK
<1>. QED
  BY <1>1, <1>2, <1>3, <1>5, StillBoard

LEMMA ScannedCells ==
  ASSUME LockInv, NEW t \in Thread
  PROVE  /\ Scanned(t) \in SUBSET Cell /\ Scanned(t) \in SUBSET Nat
         /\ from[t] \notin Scanned(t) /\ to[t] \notin Scanned(t)
<1>1. Jail \in SUBSET Cell /\ Cell \in SUBSET Nat
  BY LocksAssumption DEF Cell
<1>. QED
  BY <1>1 DEF Scanned

(* The jail loop finds the next cell, locks it, and unlocks all of them.   *)
LEMMA ScanLocks ==
  ASSUME LockInv, NEW t \in Thread, ScanRead(t) \/ ScanLock(t) \/ RescueEnd(t)
  PROVE  LockInv'
<1>1. /\ from[t] \in Cell /\ to[t] \in Cell /\ on[to[t]] = None /\ at[t] = from[t]
      /\ scan[t] \in Nat
      /\ UNCHANGED <<at, on, from, to>>
  BY DEF LockInv, LockType, FoundOK, Found, OnFrom, OfTwo, ScanRead, ScanLock, RescueEnd,
     Freeing, board, locals
<1>2. Scanned(t)' = Scanned(t)
  BY <1>1 DEF Scanned
<1>3. CASE ScanRead(t)
  <2>. DEFINE ahead == { c \in Scanned(t) : c >= scan[t] }
  <2>1. /\ pc[t] = "read" /\ ahead # {} /\ pc' = [pc EXCEPT ![t] = "lock"]
        /\ scan' = [scan EXCEPT ![t] = Min(ahead)] /\ owner' = owner
    BY <1>3 DEF ScanRead, Goto
  <2>2. Min(ahead) \in ahead /\ \A c \in ahead : Min(ahead) <= c
    BY <2>1, ScannedCells, LeastOf
  <2>3. Min(ahead) \in Scanned(t) /\ Min(ahead) \in Nat
    BY <2>2, ScannedCells
  <2>4. ASSUME NEW c \in Scanned(t) PROVE c < Min(ahead) <=> c < scan[t]
    <3>1. c \in Nat /\ Min(ahead) >= scan[t]
      BY <2>2, ScannedCells
    <3>2. c >= scan[t] => Min(ahead) <= c
      BY <2>2
    <3>. HIDE DEF ahead
    <3>. QED
      BY <1>1, <2>3, <3>1, <3>2
  <2>. HIDE DEF ahead
  <2>5. LockType' /\ Local(t)
    BY <1>1, <2>1, <2>3 DEF LockInv, LockType, Local, Where
  <2>6. Found(t)'
    BY <1>1, <1>2, <2>1, <2>3 DEF LockInv, LockType, Found, OnFrom, OfTwo
  <2>7. \A c \in Cell : Holds(t, c)' <=> Holds(t, c)
    BY <1>1, <1>2, <2>1, <2>4 DEF LockInv, LockType, Holds
  <2>8. OwnerOK'
    BY <2>1, <2>5, <2>7, OwnerStep DEF LockInv, OwnerOK
  <2>. QED
    BY <1>1, <2>5, <2>6, <2>8, StillBoard
<1>4. CASE ScanLock(t)
  <2>1. /\ pc[t] = "lock" /\ owner[scan[t]] = None /\ owner' = [owner EXCEPT ![scan[t]] = t]
        /\ pc' = [pc EXCEPT ![t] = "read"] /\ scan' = [scan EXCEPT ![t] = @ + 1]
    BY <1>4 DEF ScanLock, Goto, Lock
  <2>2. scan[t] \in Scanned(t) /\ scan[t] \in Cell
    BY <2>1, ScannedCells DEF LockInv, FoundOK, Found
  <2>3. \A c \in Scanned(t) : c < scan[t] + 1 <=> c < scan[t] \/ c = scan[t]
    BY <1>1, ScannedCells
  <2>4. LockType' /\ Local(t) /\ Found(t)'
    BY <1>1, <2>1, <2>2 DEF LockInv, LockType, Local, Where, Found, OnFrom, OfTwo
  <2>5. \A c \in Cell : Holds(t, c)' <=> Holds(t, c) \/ c = scan[t]
    BY <1>1, <1>2, <2>1, <2>2, <2>3 DEF LockInv, LockType, Holds
  <2>6. OwnerOK'
    BY <2>1, <2>2, <2>4, <2>5, LocksAssumption, OwnerStep DEF LockInv, LockType, OwnerOK
  <2>. QED
    BY <1>1, <2>4, <2>6, StillBoard
<1>5. CASE RescueEnd(t)
  <2>1. /\ pc[t] = "read" /\ \A c \in Scanned(t) : c < scan[t]
        /\ owner' = Release(Scanned(t)) /\ pc' = [pc EXCEPT ![t] = "step"] /\ scan' = scan
    BY <1>5 DEF RescueEnd, Freeing, Goto, locals
  <2>2. \A c \in Cell : owner'[c] = IF c \in Scanned(t) THEN None ELSE owner[c]
    BY <2>1 DEF Release
  <2>3. LockType' /\ Local(t) /\ Found(t)'
    BY <1>1, <2>1 DEF LockInv, LockType, Local, Where, Found, OnFrom, OfTwo, Release
  <2>4. \A c \in Scanned(t) : owner[c] = t
    BY <2>1, ScannedCells DEF LockInv, OwnerOK, Holds
  <2>5. \A c \in Cell : Holds(t, c)' <=> Holds(t, c) /\ c \notin Scanned(t)
    BY <1>1, <1>2, <2>1, ScannedCells DEF LockInv, LockType, Holds
  <2>6. OwnerOK'
    BY <2>2, <2>3, <2>4, <2>5, LocksAssumption, OwnerStep DEF LockInv, OwnerOK
  <2>. QED
    BY <1>1, <2>3, <2>6, StillBoard
<1>. QED
  BY <1>3, <1>4, <1>5

LEMMA UnlockBoth ==
  ASSUME LockInv, NEW t \in Thread, Unlock(t)
  PROVE  LockInv'
<1>1. /\ pc[t] = "unlock" /\ owner' = Release({from[t], to[t]})
      /\ pc' = [pc EXCEPT ![t] = "idle"] /\ from' = [from EXCEPT ![t] = None]
      /\ to' = [to EXCEPT ![t] = None] /\ scan' = [scan EXCEPT ![t] = 0]
      /\ UNCHANGED <<at, on>>
  BY DEF Unlock, Goto, board
<1>2. \A c \in Cell : owner'[c] = IF c \in {from[t], to[t]} THEN None ELSE owner[c]
  BY <1>1 DEF Release
<1>3. LockType' /\ Local(t) /\ Found(t)'
  BY <1>1 DEF LockInv, LockType, Local, Where, Found, OnFrom, OfTwo, Release
<1>4. \A c \in Cell : (Holds(t, c) <=> c \in {from[t], to[t]}) /\ ~Holds(t, c)'
  BY <1>1 DEF LockInv, LockType, Holds
<1>5. OwnerOK'
  BY <1>2, <1>3, <1>4, LocksAssumption, OwnerStep DEF LockInv, OwnerOK
<1>. QED
  BY <1>1, <1>3, <1>5, StillBoard

-----------------------------------------------------------------------------
LEMMA InitLock == Init => LockInv
<1>. SUFFICES ASSUME Init PROVE LockInv
  OBVIOUS
<1>1. at \in [Thread -> Cell] /\ \A t, u \in Thread : at[t] = at[u] => t = u
  BY DEF Init
<1>2. \A c \in Cell : /\ (\E t \in Thread : at[t] = c) => on[c] \in Thread /\ at[on[c]] = c
                      /\ ~(\E t \in Thread : at[t] = c) => on[c] = None
  BY DEF Init
<1>3. OccupancyOK
  BY <1>1, <1>2, LocksAssumption DEF OccupancyOK
<1>4. on \in [Cell -> Thread \cup {None}]
  <2>1. DOMAIN on = Cell /\ on = [c \in Cell |-> on[c]]
    BY DEF Init
  <2>. QED
    BY <1>2, <2>1
<1>5. LockType
  BY <1>1, <1>4 DEF Init, LockType, Where
<1>6. OwnerOK
  BY LocksAssumption DEF Init, OwnerOK, Holds
<1>7. FoundOK
  BY DEF Init, FoundOK, Found, OnFrom, OfTwo
<1>. QED
  BY <1>3, <1>5, <1>6, <1>7 DEF LockInv

LEMMA NoTags ==
  ASSUME Untagged, LockInv, NEW t \in Thread
  PROVE  ~TagOnBlue(t)
<1>. SUFFICES ASSUME TagOnBlue(t) PROVE FALSE
  OBVIOUS
<1>1. pc[t] = "act" /\ on[to[t]] # None /\ ~SameTeam(t, on[to[t]]) /\ Red # {} /\ OpenJail # {}
  BY DEF TagOnBlue, Target
<1>2. Jail # {}
  BY <1>1 DEF OpenJail
<1>3. on[to[t]] \in Thread
  BY <1>1 DEF LockInv, LockType, FoundOK, Found, OfTwo
<1>. QED
  BY <1>1, <1>2, <1>3 DEF SameTeam, Thread, Untagged

LEMMA NextLock == Untagged /\ LockInv /\ [Next]_vars => LockInv'
<1>. SUFFICES ASSUME Untagged, LockInv, [Next]_vars PROVE LockInv'
  OBVIOUS
<1>1. ASSUME NEW t \in Thread, Move(t) \/ Leave(t) PROVE LockInv'
  BY <1>1, StartLock
<1>2. ASSUME NEW t \in Thread, Proceed(t) PROVE LockInv'
  <2>1. ~Retry(t) /\ ~GiveUp(t)
    BY StillThere DEF Retry, GiveUp, OnFrom
  <2>2. ~TagOnBlue(t)
    BY NoTags
  <2>. QED
    BY <1>2, <2>1, <2>2, LockPair, DropLock, DecideLock, MoveLock, ScanLocks, UnlockBoth
    DEF Proceed
<1>3. CASE UNCHANGED vars
  BY <1>3
  DEF vars, board, locals, LockInv, LockType, OwnerOK, Holds, Lower, Scanned, FoundOK, Found,
      OccupancyOK
<1>. QED
  BY <1>1, <1>2, <1>3 DEF Next

LEMMA LocksAreKept == Untagged /\ Spec => []LockInv
<1>. SUFFICES ASSUME Untagged PROVE Spec => []LockInv
  OBVIOUS
<1>1. LockInv /\ [Next]_vars => LockInv'
  BY NextLock
<1>. QED
  BY <1>1, InitLock, PTL DEF Spec

(* Without tags, a request changes the board only while it holds both of   *)
(* its cells and its player is on the first: lock_by_player never has to   *)
(* try again.                                                              *)
THEOREM RequestsHoldTheirCells == Untagged /\ Spec => []HoldsCells
<1>1. LockInv => HoldsCells
  <2>. SUFFICES ASSUME LockInv, NEW t \in Thread
                PROVE  /\ pc[t] \in {"act", "step", "read", "lock", "unlock"} =>
                            owner[from[t]] = t /\ owner[to[t]] = t
                       /\ pc[t] \in {"act", "step", "read", "lock", "drop"} => Current(t)
    BY DEF HoldsCells
  <2>1. pc[t] \in OfTwo => from[t] \in Cell /\ to[t] \in Cell
    BY DEF LockInv, FoundOK, Found
  <2>2. pc[t] \in {"act", "step", "read", "lock", "unlock"} =>
          owner[from[t]] = t /\ owner[to[t]] = t
    BY <2>1 DEF LockInv, OwnerOK, Holds, OfTwo
  <2>3. pc[t] \in {"act", "step", "read", "lock", "drop"} => Current(t)
    BY StillThere DEF OnFrom
  <2>. QED
    BY <2>2, <2>3
<1>. QED
  BY <1>1, LocksAreKept, PTL

(* The references between players and cells stay each other's inverse when *)
(* moves, rescues and departures interleave.                               *)
THEOREM InterleavedOccupancy == Untagged /\ Spec => []OccupancyOK
  BY LocksAreKept, PTL DEF LockInv

-----------------------------------------------------------------------------
(* A request that gave up changes the board without locks, and unlocks    *)
(* what it does not hold; so of the owners only one half is left with two  *)
(* teams: who owns a cell has locked it.                                   *)
Owns(t, c) == owner[c] = t => Holds(t, c) \/ (pc[t] = "stuck" /\ c = from[t])

(* The first cell of t's request is not t's any more, or will not be as    *)
(* soon as another request ends.                                           *)
Touched(t) ==
  \/ owner[from[t]] # t
  \/ \E s \in Thread \ {t} : pc[s] = "unlock" /\ from[t] \in {from[s], to[s]}

(* What a request knows of its cells, its player and its prison.           *)
Knows(t) ==
  /\ pc[t] # "gone" => at[t] \in Cell
  /\ pc[t] \in OfTwo => from[t] \in Cell /\ to[t] \in Cell
  /\ pc[t] \in {"alone", "drop"} => from[t] \in Cell
  /\ pc[t] = "second" => from[t] # to[t]
  /\ pc[t] = "lock" => scan[t] \in Scanned(t)
  /\ pc[t] \in {"read", "lock"} => to[t] \in Jail
  /\ pc[t] \in {"act", "step", "read", "lock"} => Current(t) \/ Touched(t)
  /\ pc[t] = "step" /\ jailed[t] => to[t] \in Jail \/ Touched(t)

(* Who is on a cell and still in the game is the player of that cell.      *)
OnOK == \A c \in Cell : on[c] # None => pc[on[c]] = "gone" \/ at[on[c]] = c

CrowdInv ==
  /\ TypeOK /\ OnOK
  /\ \A t \in Thread, c \in Cell : Owns(t, c)
  /\ \A t \in Thread : Knows(t)

(* A board of players and cells, of which Place is the one there is.       *)
Board == [at : [Thread -> Cell \cup {None}], on : [Cell -> Thread \cup {None}]]

Stands(b, u, c) == b.at[u] = c /\ b.on[c] = u
Known(b)        == \A c \in Cell : b.on[c] # None => pc[b.on[c]] = "gone" \/ b.at[b.on[c]] = c

(* Who goes from c to n leaves the players on other cells where they are.  *)
LEMMA ShiftBoard ==
  ASSUME NEW b \in Board, Known(b), NEW c \in Cell, NEW n \in Cell
  PROVE  /\ Shifted(b, c, n) \in Board /\ Known(Shifted(b, c, n))
         /\ \A u \in Thread : b.at[u] \in Cell => Shifted(b, c, n).at[u] \in Cell
         /\ \A u \in Thread, f \in Cell \ {c, n} :
              pc[u] # "gone" /\ Stands(b, u, f) => Stands(Shifted(b, c, n), u, f)
<1>. DEFINE s == Shifted(b, c, n)
<1>1. /\ b.at \in [Thread -> Cell \cup {None}] /\ b.on \in [Cell -> Thread \cup {None}]
  BY DEF Board
<1>2. /\ s = [at |-> s.at, on |-> s.on]
      /\ s.at = [u \in Thread |-> IF u = b.on[c] THEN n ELSE b.at[u]]
      /\ s.on = [b.on EXCEPT ![c] = None, ![n] = b.on[c]]
  BY DEF Shifted
<1>. HIDE DEF s
<1>3. \A x \in Cell : s.on[x] = IF x = n THEN b.on[c] ELSE IF x = c THEN None ELSE b.on[x]
  BY <1>1, <1>2
<1>4. \A u \in Thread : s.at[u] = IF u = b.on[c] THEN n ELSE b.at[u]
  BY <1>2
<1>5. s \in Board
  <2>1. s.at \in [Thread -> Cell \cup {None}]
    BY <1>1, <1>2
  <2>2. s.on \in [Cell -> Thread \cup {None}]
    BY <1>1, <1>2
  <2>. QED
    BY <1>2, <2>1, <2>2 DEF Board
<1>6. Known(s)
  <2>. SUFFICES ASSUME NEW x \in Cell, s.on[x] # None, pc[s.on[x]] # "gone"
                PROVE  s.at[s.on[x]] = x
    BY DEF Known
  <2>1. s.on[x] \in Thread
    BY <1>1, <1>3
  <2>. QED
    BY <1>1, <1>3, <1>4, <2>1 DEF Known
<1>7. ASSUME NEW u \in Thread, NEW f \in Cell \ {c, n}, pc[u] # "gone", Stands(b, u, f)
      PROVE  Stands(s, u, f)
  <2>1. b.on[c] # u
    BY <1>7, LocksAssumption DEF Known, Stands, Thread
  <2>. QED
    BY <1>3, <1>4, <1>7, <2>1 DEF Stands
<1>8. \A u \in Thread : b.at[u] \in Cell => s.at[u] \in Cell
  BY <1>4
<1>. QED
  BY <1>5, <1>6, <1>7, <1>8 DEF s

(* The board after the step of a request that moves players.               *)
NextPlace == [at |-> at', on |-> on']

LEMMA PutBoard ==
  ASSUME NEW b \in Board, Put(b)
  PROVE  NextPlace = b
  BY DEF Board, Put, NextPlace

LEMMA MovedBoard ==
  ASSUME CrowdInv, NEW t \in Thread, MovePlayer(t) \/ TagOnBlue(t)
  PROVE  /\ NextPlace \in Board /\ Known(NextPlace)
         /\ \A u \in Thread : pc[u] # "gone" => at'[u] \in Cell
         /\ \A u \in Thread, f \in Cell \ {from[t], to[t]} :
              pc[u] # "gone" /\ owner[f] # None /\ Stands(Place, u, f) => Stands(NextPlace, u, f)
<1>1. Place \in Board /\ Known(Place) /\ Place.at = at /\ Place.on = on
  BY DEF CrowdInv, TypeOK, OnOK, Place, Board, Known
<1>2. from[t] \in Cell /\ to[t] \in Cell
  BY DEF CrowdInv, Knows, MovePlayer, TagOnBlue, OfTwo
<1>3. \A u \in Thread : pc[u] # "gone" => at[u] \in Cell
  BY DEF CrowdInv, Knows
<1>4. NextPlace.at = at' /\ NextPlace.on = on'
  BY DEF NextPlace
<1>. HIDE DEF NextPlace
<1>. DEFINE Good(b) ==
       /\ b \in Board /\ Known(b)
       /\ \A u \in Thread : pc[u] # "gone" => b.at[u] \in Cell
       /\ \A u \in Thread, f \in Cell \ {from[t], to[t]} :
            pc[u] # "gone" /\ owner[f] # None /\ Stands(Place, u, f) => Stands(b, u, f)
<1>5. Good(Place)
  BY <1>1, <1>3
<1>6. ASSUME NEW b, Good(b), NEW c \in Cell, NEW n \in Cell,
             \A f \in Cell \ {from[t], to[t]} : owner[f] # None => f # c /\ f # n
      PROVE  Good(Shifted(b, c, n))
  BY <1>6, ShiftBoard
<1>7. ASSUME NEW b, Good(b), Put(b) PROVE Good(NextPlace)
  BY <1>7, PutBoard
<1>8. CASE MovePlayer(t)
  <2>1. Put(Shifted(Place, from[t], to[t]))
    BY <1>8 DEF MovePlayer
  <2>2. Good(Shifted(Place, from[t], to[t]))
    <3>. HIDE DEF Good
    <3>. QED
      BY <1>2, <1>5, <1>6
  <2>3. Good(NextPlace)
    <3>. HIDE DEF Good
    <3>. QED
      BY <1>7, <2>1, <2>2
  <2>. QED
    BY <1>4, <2>3
<1>9. CASE TagOnBlue(t)
  <2>1. PICK d \in OpenJail :
          \/ Put(Shifted(Place, from[t], d))
          \/ Put(Shifted(Shifted(Place, to[t], d), from[t], to[t]))
    BY <1>9 DEF TagOnBlue
  <2>2. d \in Cell /\ owner[d] = None
    BY LocksAssumption DEF OpenJail
  <2>3. Good(Shifted(Place, from[t], d)) /\ Good(Shifted(Place, to[t], d))
    <3>. HIDE DEF Good
    <3>. QED
      BY <1>2, <1>5, <1>6, <2>2
  <2>4. Good(Shifted(Shifted(Place, to[t], d), from[t], to[t]))
    <3>. HIDE DEF Good
    <3>. QED
      BY <1>2, <1>6, <2>3
  <2>5. Good(NextPlace)
    <3>. HIDE DEF Good
    <3>. QED
      BY <1>7, <2>1, <2>3, <2>4
  <2>. QED
    BY <1>4, <2>5
<1>. QED
  BY <1>8, <1>9

-----------------------------------------------------------------------------
(* Who owns a cell after a step of t owned it before, or is t and holds it.*)
LEMMA OwnsStep ==
  ASSUME NEW t \in Thread, Local(t), \A u \in Thread, c \in Cell : Owns(u, c),
         \A c \in Cell : Owns(t, c)',
         \A c \in Cell, u \in Thread \ {t} : owner'[c] = u => owner[c] = u
  PROVE  \A u \in Thread, c \in Cell : Owns(u, c)'
<1>1. ASSUME NEW u \in Thread \ {t}, NEW c \in Cell, owner'[c] = u
      PROVE  Holds(u, c)' \/ (pc'[u] = "stuck" /\ c = from'[u])
  <2>1. Lower(u)' = Lower(u) /\ Scanned(u)' = Scanned(u)
    BY DEF Local, Lower, Scanned
  <2>2. Holds(u, c)' <=> Holds(u, c)
    BY <2>1 DEF Local, Holds
  <2>. QED
    BY <1>1, <2>2 DEF Owns, Local
<1>. QED
  BY <1>1 DEF Owns

(* A cell that another request has touched stays so until it is locked     *)
(* again.                                                                  *)
LEMMA TouchedStays ==
  ASSUME NEW t \in Thread, Local(t), NEW u \in Thread \ {t}, from[u] \in Cell,
         owner'[from[u]] = u => owner[from[u]] = u,
         pc[t] = "unlock" => \A c \in {from[t], to[t]} : owner'[c] = None,
         Touched(u)
  PROVE  Touched(u)'
<1>1. from'[u] = from[u] /\ u # None
  BY LocksAssumption DEF Local
<1>2. CASE owner[from[u]] # u
  BY <1>1, <1>2 DEF Touched
<1>3. ASSUME NEW s \in Thread \ {u}, pc[s] = "unlock", from[u] \in {from[s], to[s]}
      PROVE  Touched(u)'
  <2>1. CASE s = t
    BY <1>1, <1>3, <2>1 DEF Touched
  <2>2. CASE s # t
    BY <1>1, <1>3, <2>2 DEF Touched, Local
  <2>. QED
    BY <2>1, <2>2
<1>. QED
  BY <1>2, <1>3 DEF Touched

(* What a step that leaves the board alone needs.                          *)
LEMMA CrowdStill ==
  ASSUME CrowdInv, NEW t \in Thread, Local(t), at' = at, on' = on,
         pc[t] # "gone" /\ pc'[t] # "gone",
         TypeOK', \A u \in Thread : jailed'[u] => jailed[u],
         \A c \in Cell : Owns(t, c)', Knows(t)',
         \A c \in Cell, u \in Thread \ {t} : owner'[c] = u => owner[c] = u,
         pc[t] = "unlock" => \A c \in {from[t], to[t]} : owner'[c] = None
  PROVE  CrowdInv'
<1>1. \A u \in Thread, c \in Cell : Owns(u, c)'
  BY OwnsStep DEF CrowdInv
<1>2. OnOK'
  <2>1. \A c \in Cell : on[c] # None => on[c] \in Thread
    BY DEF CrowdInv, TypeOK
  <2>. QED
    BY <2>1 DEF CrowdInv, OnOK, Local
<1>3. ASSUME NEW u \in Thread \ {t} PROVE Knows(u)'
  <2>1. /\ Knows(u) /\ pc'[u] = pc[u] /\ from'[u] = from[u] /\ to'[u] = to[u]
        /\ scan'[u] = scan[u] /\ Scanned(u)' = Scanned(u) /\ (Current(u)' <=> Current(u))
        /\ jailed'[u] => jailed[u]
    BY DEF CrowdInv, Local, Scanned, Current
  <2>2. pc[u] \in OfTwo /\ Touched(u) => Touched(u)'
    BY TouchedStays DEF CrowdInv, Knows
  <2>3. {"act", "step", "read", "lock"} \subseteq OfTwo
    BY DEF OfTwo
  <2>. QED
    BY <2>1, <2>2, <2>3 DEF Knows
<1>. QED
  BY <1>1, <1>2, <1>3 DEF CrowdInv

LEMMA CrowdStart ==
  ASSUME CrowdInv, NEW t \in Thread, Move(t) \/ Leave(t)
  PROVE  CrowdInv'
<1>1. PICK n \in Cell \cup {None}, kind \in {"first", "alone"} :
        Start(t, n, kind) /\ (kind = "first" => n \in Cell)
  BY DEF Move, Leave
<1>2. /\ pc[t] = "idle" /\ at[t] # None /\ from' = [from EXCEPT ![t] = at[t]]
      /\ to' = [to EXCEPT ![t] = n] /\ pc' = [pc EXCEPT ![t] = kind]
      /\ tries' = [tries EXCEPT ![t] = Tries]
      /\ UNCHANGED <<at, on, jailed, owner, scan, seen>>
  BY <1>1 DEF Start, board
<1>3. TypeOK' /\ Local(t)
  BY <1>2, LocksAssumption DEF CrowdInv, TypeOK, Local
<1>4. Knows(t)'
  BY <1>1, <1>2 DEF CrowdInv, TypeOK, Knows, OfTwo
<1>5. \A c \in Cell : Owns(t, c)'
  BY <1>2 DEF CrowdInv, TypeOK, Owns, Holds
<1>6. pc[t] # "gone" /\ pc'[t] # "gone" /\ pc[t] # "unlock"
  BY <1>2 DEF CrowdInv, TypeOK
<1>. QED
  BY <1>2, <1>3, <1>4, <1>5, <1>6, CrowdStill

LEMMA CrowdPair ==
  ASSUME CrowdInv, NEW t \in Thread, LockFirst(t) \/ LockSecond(t)
  PROVE  CrowdInv'
<1>1. /\ from[t] \in Cell /\ to[t] \in Cell
      /\ Lower(t) \in Cell /\ Higher(t) \in Cell
      /\ {Lower(t), Higher(t)} = {from[t], to[t]}
      /\ from[t] = to[t] => Lower(t) = from[t]
  BY LowerHigher DEF CrowdInv, Knows, LockFirst, LockSecond, OfTwo
<1>2. UNCHANGED <<at, on, jailed, from, to, tries, scan, seen>> /\ pc[t] \in {"first", "second"}
  BY DEF LockFirst, LockSecond, board, locals
<1>3. Lower(t)' = Lower(t)
  BY <1>2 DEF Lower
<1>4. PICK x \in Cell, w \in {"second", "check"} :
        /\ owner' = [owner EXCEPT ![x] = t] /\ pc' = [pc EXCEPT ![t] = w]
        /\ pc[t] = "first" => x = Lower(t) /\ w = IF from[t] = to[t] THEN "check" ELSE "second"
        /\ pc[t] = "second" => x = Higher(t) /\ w = "check"
  BY <1>1 DEF LockFirst, LockSecond, Lock, Goto
<1>5. TypeOK' /\ Local(t)
  BY <1>2, <1>4 DEF CrowdInv, TypeOK, Local
<1>6. Knows(t)'
  BY <1>1, <1>2, <1>4 DEF CrowdInv, TypeOK, Knows, OfTwo
<1>7. \A c \in Cell : Holds(t, c)' <=> c \in {from[t], to[t]} /\ (pc'[t] = "second" => c = Lower(t))
  BY <1>1, <1>2, <1>3, <1>4 DEF CrowdInv, TypeOK, Holds
<1>8. \A c \in Cell : owner[c] = t => pc[t] = "second" /\ c = Lower(t)
  BY <1>2 DEF CrowdInv, Owns, Holds
<1>9. \A c \in Cell : Owns(t, c)'
  BY <1>1, <1>2, <1>4, <1>7, <1>8 DEF CrowdInv, TypeOK, Owns
<1>10. \A c \in Cell, u \in Thread \ {t} : owner'[c] = u => owner[c] = u
  BY <1>4 DEF CrowdInv, TypeOK
<1>11. pc[t] # "gone" /\ pc'[t] # "gone" /\ pc[t] # "unlock"
  BY <1>2, <1>4 DEF CrowdInv, TypeOK
<1>. QED
  BY <1>2, <1>5, <1>6, <1>9, <1>10, <1>11, CrowdStill

(* The check succeeds, fails, or fails for the last time.                  *)
LEMMA CrowdCheck ==
  ASSUME CrowdInv, NEW t \in Thread, Checked(t) \/ Retry(t) \/ GiveUp(t)
  PROVE  CrowdInv'
<1>1. /\ pc[t] = "check" /\ from[t] \in Cell /\ to[t] \in Cell /\ at[t] \in Cell
      /\ UNCHANGED <<at, on, jailed, to, scan, seen>>
  BY DEF CrowdInv, Knows, OfTwo, Checked, Retry, GiveUp, board, locals
<1>2. \A c \in Cell : owner[c] = t => c \in {from[t], to[t]}
  BY <1>1 DEF CrowdInv, Owns, Holds
<1>3. CASE Checked(t)
  <2>1. Current(t) /\ pc' = [pc EXCEPT ![t] = "act"] /\ UNCHANGED <<owner, from, tries>>
    BY <1>3 DEF Checked, Goto, locals
  <2>2. TypeOK' /\ Local(t) /\ Current(t)'
    BY <1>1, <2>1 DEF CrowdInv, TypeOK, Local, Current
  <2>3. Knows(t)'
    BY <1>1, <2>1, <2>2 DEF CrowdInv, TypeOK, Knows, OfTwo
  <2>4. \A c \in Cell : Owns(t, c)'
    BY <1>1, <1>2, <2>1 DEF CrowdInv, TypeOK, Owns, Holds
  <2>5. pc'[t] # "gone"
    BY <2>1 DEF CrowdInv, TypeOK
  <2>. QED
    BY <1>1, <2>1, <2>2, <2>3, <2>4, <2>5, CrowdStill
<1>4. CASE Retry(t) \/ GiveUp(t)
  <2>1. PICK w \in {"first", "act"}, n \in 0 .. Tries :
          /\ owner' = Release({from[t], to[t]}) /\ tries' = [tries EXCEPT ![t] = n]
          /\ pc' = [pc EXCEPT ![t] = w]
          /\ from' = [from EXCEPT ![t] = IF w = "act" THEN at[t] ELSE from[t]]
    <3>1. tries[t] \in 0 .. Tries /\ Tries \in Nat /\ from = [from EXCEPT ![t] = from[t]]
      BY LocksAssumption DEF CrowdInv, TypeOK
    <3>2. tries[t] > 1 => tries[t] - 1 \in 0 .. Tries
      BY <3>1
    <3>. QED
      BY <1>4, <3>1, <3>2 DEF Retry, GiveUp, Goto
  <2>2. \A c \in Cell : owner'[c] = IF c \in {from[t], to[t]} THEN None ELSE owner[c]
    BY <2>1 DEF Release
  <2>3. owner' \in [Cell -> Thread \cup {None}]
    BY <2>1 DEF CrowdInv, TypeOK, Release
  <2>4. TypeOK' /\ Local(t)
    BY <1>1, <2>1, <2>3 DEF CrowdInv, TypeOK, Local
  <2>5. \A c \in Cell : owner'[c] # t
    BY <1>2, <2>2, LocksAssumption
  <2>6. from'[t] \in Cell /\ to'[t] \in Cell
    BY <1>1, <2>1 DEF CrowdInv, TypeOK
  <2>7. Touched(t)'
    BY <2>5, <2>6 DEF Touched
  <2>8. Knows(t)'
    BY <1>1, <2>1, <2>6, <2>7 DEF CrowdInv, TypeOK, Knows, OfTwo
  <2>9. \A c \in Cell : Owns(t, c)'
    BY <2>5 DEF Owns
  <2>10. \A c \in Cell, u \in Thread \ {t} : owner'[c] = u => owner[c] = u
    BY <2>2, LocksAssumption
  <2>11. pc'[t] # "gone"
    BY <2>1 DEF CrowdInv, TypeOK
  <2>. QED
    BY <1>1, <2>4, <2>8, <2>9, <2>10, <2>11, CrowdStill
<1>. QED
  BY <1>3, <1>4

LEMMA CrowdDrop ==
  ASSUME CrowdInv, NEW t \in Thread, LockAlone(t) \/ Drop(t)
  PROVE  CrowdInv'
<1>1. from[t] \in Cell /\ UNCHANGED <<jailed, from, to, tries, scan, seen>>
  BY DEF CrowdInv, Knows, LockAlone, Drop, board, locals
<1>2. CASE LockAlone(t)
  <2>1. PICK w \in {"drop", "stuck"} :
          /\ pc[t] = "alone" /\ owner' = [owner EXCEPT ![from[t]] = t]
          /\ pc' = [pc EXCEPT ![t] = w] /\ UNCHANGED <<at, on>>
    BY <1>2 DEF LockAlone, Lock, Goto, board
  <2>2. TypeOK' /\ Local(t)
    BY <1>1, <2>1 DEF CrowdInv, TypeOK, Local
  <2>3. Knows(t)'
    BY <1>1, <2>1 DEF CrowdInv, TypeOK, Knows, OfTwo
  <2>4. \A c \in Cell : owner[c] # t
    BY <2>1 DEF CrowdInv, Owns, Holds
  <2>5. \A c \in Cell : Owns(t, c)'
    BY <1>1, <2>1, <2>4 DEF CrowdInv, TypeOK, Owns, Holds
  <2>6. \A c \in Cell, u \in Thread \ {t} : owner'[c] = u => owner[c] = u
    BY <1>1, <2>1 DEF CrowdInv, TypeOK
  <2>7. pc'[t] # "gone"
    BY <2>1 DEF CrowdInv, TypeOK
  <2>. QED
    BY <1>1, <2>1, <2>2, <2>3, <2>5, <2>6, <2>7, CrowdStill
<1>3. CASE Drop(t)
  <2>1. /\ pc[t] = "drop" /\ pc' = [pc EXCEPT ![t] = "gone"] /\ owner' = Release({from[t]})
        /\ at' = [at EXCEPT ![t] = None] /\ on' = [on EXCEPT ![from[t]] = None]
    BY <1>3 DEF Drop, Goto
  <2>2. \A c \in Cell : owner'[c] = IF c = from[t] THEN None ELSE owner[c]
    BY <2>1 DEF Release
  <2>3. owner' \in [Cell -> Thread \cup {None}]
    BY <2>1 DEF CrowdInv, TypeOK, Release
  <2>4. TypeOK' /\ Local(t)
    BY <1>1, <2>1, <2>3 DEF CrowdInv, TypeOK, Local
  <2>5. \A c \in Cell : owner'[c] # t
    <3>1. \A c \in Cell : owner[c] = t => c = from[t]
      BY <2>1 DEF CrowdInv, Owns, Holds
    <3>. QED
      BY <2>2, <3>1, LocksAssumption
  <2>6. \A u \in Thread, c \in Cell : Owns(u, c)'
    <3>1. \A c \in Cell, u \in Thread \ {t} : owner'[c] = u => owner[c] = u
      BY <2>2, LocksAssumption
    <3>2. \A c \in Cell : Owns(t, c)'
      BY <2>5 DEF Owns
    <3>. QED
      BY <2>4, <3>1, <3>2, OwnsStep DEF CrowdInv
  <2>7. OnOK'
    <3>. SUFFICES ASSUME NEW c \in Cell, on'[c] # None
                  PROVE  pc'[on'[c]] = "gone" \/ at'[on'[c]] = c
      BY DEF OnOK
    <3>1. on'[c] = on[c] /\ on[c] \in Thread
      BY <1>1, <2>1 DEF CrowdInv, TypeOK
    <3>2. pc[on[c]] = "gone" \/ at[on[c]] = c
      BY <3>1, LocksAssumption DEF CrowdInv, OnOK, Thread
    <3>. QED
      BY <2>1, <3>1, <3>2 DEF CrowdInv, TypeOK
  <2>8. ASSUME NEW u \in Thread \ {t} PROVE Knows(u)'
    <3>1. /\ Knows(u) /\ pc'[u] = pc[u] /\ from'[u] = from[u] /\ to'[u] = to[u]
          /\ scan'[u] = scan[u] /\ Scanned(u)' = Scanned(u) /\ jailed'[u] = jailed[u]
          /\ at'[u] = at[u]
      BY <1>1, <2>1, <2>4 DEF CrowdInv, TypeOK, Local, Scanned
    <3>2. pc[u] \in OfTwo /\ Touched(u) => Touched(u)'
      <4>1. pc[u] \in OfTwo => (owner'[from[u]] = u => owner[from[u]] = u)
        BY <2>2, LocksAssumption DEF CrowdInv, Knows
      <4>. QED
        BY <2>1, <2>4, <4>1, <3>1, TouchedStays DEF Knows
    <3>3. pc[u] \in OfTwo /\ Current(u) => Current(u)' \/ Touched(u)'
      <4>1. CASE from[u] = from[t]
        BY <2>2, <3>1, <4>1, <1>1, LocksAssumption DEF Touched
      <4>2. CASE from[u] # from[t]
        BY <2>1, <3>1, <4>2 DEF Current, CrowdInv, TypeOK, Knows
      <4>. QED
        BY <4>1, <4>2
    <3>4. {"act", "step", "read", "lock"} \subseteq OfTwo
      BY DEF OfTwo
    <3>. QED
      BY <3>1, <3>2, <3>3, <3>4 DEF Knows
  <2>9. Knows(t)'
    BY <2>1 DEF CrowdInv, TypeOK, Knows, OfTwo
  <2>. QED
    BY <2>4, <2>6, <2>7, <2>8, <2>9 DEF CrowdInv
<1>. QED
  BY <1>2, <1>3

(* A step that only decides how the request goes on.                       *)
LEMMA CrowdDecide ==
  ASSUME CrowdInv, NEW t \in Thread, StepIn(t) \/ Refuse(t) \/ Rescue(t)
  PROVE  CrowdInv'
<1>1. PICK w \in {"step", "unlock", "read"} :
        /\ pc[t] = "act" /\ pc' = [pc EXCEPT ![t] = w]
        /\ scan' = [scan EXCEPT ![t] = IF w = "read" THEN 0 ELSE @]
        /\ w = "step" /\ jailed[t] => to[t] \in Jail
        /\ w = "read" => to[t] \in Jail
        /\ UNCHANGED <<at, on, jailed, owner, from, to, tries, seen>>
  <2>1. scan = [scan EXCEPT ![t] = scan[t]]
    BY DEF CrowdInv, TypeOK
  <2>. QED
    BY <2>1 DEF StepIn, Refuse, Rescue, Rescues, Goto, board, locals
<1>2. TypeOK' /\ Local(t)
  <2>1. 0 \in 0 .. Cells
    BY LocksAssumption
  <2>. QED
    BY <1>1, <2>1 DEF CrowdInv, TypeOK, Local
<1>3. pc[t] # "gone" /\ pc'[t] # "gone" /\ pc'[t] = w
  BY <1>1 DEF CrowdInv, TypeOK
<1>4. Current(t) \/ Touched(t) => Current(t)' \/ Touched(t)'
  BY <1>1, <1>2 DEF Current, Touched, Local
<1>5. Knows(t)'
  BY <1>1, <1>3, <1>4 DEF CrowdInv, Knows, OfTwo
<1>6. \A c \in Cell : Owns(t, c)'
  BY <1>1, <1>3 DEF CrowdInv, Owns, Holds
<1>. QED
  BY <1>1, <1>2, <1>3, <1>5, <1>6, CrowdStill

LEMMA CrowdScan ==
  ASSUME CrowdInv, NEW t \in Thread, ScanRead(t) \/ ScanLock(t) \/ RescueEnd(t)
  PROVE  CrowdInv'
<1>1. /\ from[t] \in Cell /\ to[t] \in Cell /\ to[t] \in Jail /\ pc[t] \in {"read", "lock"}
      /\ at[t] \in Cell /\ (Current(t) \/ Touched(t))
      /\ UNCHANGED <<at, on, from, to, tries>>
  BY DEF CrowdInv, Knows, OfTwo, ScanRead, ScanLock, RescueEnd, Freeing, board, locals
<1>2. /\ Scanned(t)' = Scanned(t) /\ Scanned(t) \in SUBSET Cell
      /\ from[t] \notin Scanned(t) /\ to[t] \notin Scanned(t)
  BY <1>1, LocksAssumption DEF Scanned
<1>3. \A c \in Cell : owner[c] = t =>
        c \in {from[t], to[t]} \/ (c \in Scanned(t) /\ c < scan[t])
  BY <1>1 DEF CrowdInv, Owns, Holds
<1>4. Cell \in SUBSET Nat /\ \A c \in Cell : c \in 0 .. Cells /\ c + 1 \in 0 .. Cells
  BY LocksAssumption DEF Cell
<1>5. Current(t)' <=> Current(t)
  BY <1>1 DEF Current
<1>6. CASE ScanRead(t)
  <2>. DEFINE ahead == { c \in Scanned(t) : c >= scan[t] }
  <2>1. /\ pc[t] = "read" /\ ahead # {} /\ pc' = [pc EXCEPT ![t] = "lock"]
        /\ scan' = [scan EXCEPT ![t] = Min(ahead)] /\ seen' = [seen EXCEPT ![t] = on[Min(ahead)]]
        /\ UNCHANGED <<owner, jailed>>
    BY <1>6 DEF ScanRead, Goto, board
  <2>2. ahead \in SUBSET Nat
    BY <1>2, <1>4
  <2>3. Min(ahead) \in ahead
    <3>. HIDE DEF ahead
    <3>. QED
      BY <2>1, <2>2, LeastOf
  <2>4. Min(ahead) \in Scanned(t) /\ Min(ahead) >= scan[t]
    BY <2>3
  <2>. HIDE DEF ahead
  <2>5. Min(ahead) \in Cell /\ Min(ahead) \in 0 .. Cells
    BY <2>4, <1>2, <1>4
  <2>6. TypeOK' /\ Local(t)
    BY <1>1, <2>1, <2>5 DEF CrowdInv, TypeOK, Local
  <2>7. Touched(t) => Touched(t)'
    BY <1>1, <2>1, <2>6 DEF Touched, Local
  <2>8. scan'[t] = Min(ahead) /\ pc'[t] = "lock"
    BY <2>1 DEF CrowdInv, TypeOK
  <2>9. Knows(t)'
    BY <1>1, <1>2, <1>5, <2>4, <2>7, <2>8 DEF Knows, OfTwo
  <2>10. \A c \in Cell : c < scan[t] => c < Min(ahead)
    <3>1. scan[t] \in Nat /\ Min(ahead) \in Nat
      BY <2>5, <1>4, LocksAssumption DEF CrowdInv, TypeOK
    <3>. QED
      BY <2>4, <1>4, <3>1
  <2>11. \A c \in Cell : Owns(t, c)'
    BY <1>1, <1>2, <1>3, <2>1, <2>8, <2>10 DEF Owns, Holds
  <2>. QED
    BY <1>1, <2>1, <2>6, <2>8, <2>9, <2>11, CrowdStill
<1>7. CASE ScanLock(t)
  <2>1. /\ pc[t] = "lock" /\ owner' = [owner EXCEPT ![scan[t]] = t] /\ seen' = seen
        /\ pc' = [pc EXCEPT ![t] = "read"] /\ scan' = [scan EXCEPT ![t] = @ + 1]
        /\ jailed' = [u \in Thread |-> jailed[u] /\ u # seen[t]]
    BY <1>7 DEF ScanLock, Goto, Lock
  <2>2. scan[t] \in Scanned(t) /\ scan[t] \in Cell
    BY <1>2, <2>1 DEF CrowdInv, Knows
  <2>3. jailed' \in [Thread -> BOOLEAN] /\ \A u \in Thread : jailed'[u] => jailed[u]
    BY <2>1, Zenon
  <2>4. scan[t] + 1 \in 0 .. Cells
    BY <1>4, <2>2
  <2>5. TypeOK' /\ Local(t)
    BY <1>1, <2>1, <2>2, <2>3, <2>4 DEF CrowdInv, TypeOK, Local
  <2>6. pc'[t] = "read" /\ scan'[t] = scan[t] + 1
    BY <2>1 DEF CrowdInv, TypeOK
  <2>7. \A c \in Cell : owner'[c] = IF c = scan[t] THEN t ELSE owner[c]
    BY <2>1, <2>2 DEF CrowdInv, TypeOK
  <2>8. Touched(t) => Touched(t)'
    BY <1>1, <1>2, <2>2, <2>5, <2>7 DEF Touched, Local
  <2>9. Knows(t)'
    BY <1>1, <1>5, <2>6, <2>8 DEF Knows, OfTwo
  <2>10. scan[t] < scan[t] + 1 /\ \A c \in Cell : c < scan[t] => c < scan[t] + 1
    <3>1. \A x, y \in Nat : y < y + 1 /\ (x < y => x < y + 1)
      OBVIOUS
    <3>2. scan[t] \in Nat /\ \A c \in Cell : c \in Nat
      BY <1>4, <2>2
    <3>. QED
      BY <3>1, <3>2
  <2>11. \A c \in Cell : Owns(t, c)'
    BY <1>1, <1>2, <1>3, <2>2, <2>6, <2>7, <2>10 DEF Owns, Holds
  <2>12. \A c \in Cell, u \in Thread \ {t} : owner'[c] = u => owner[c] = u
    BY <2>7
  <2>. QED
    BY <1>1, <2>1, <2>3, <2>5, <2>6, <2>9, <2>11, <2>12, CrowdStill
<1>8. CASE RescueEnd(t)
  <2>1. /\ pc[t] = "read" /\ owner' = Release(Scanned(t)) /\ pc' = [pc EXCEPT ![t] = "step"]
        /\ UNCHANGED <<jailed, scan, seen>>
    BY <1>8 DEF RescueEnd, Freeing, Goto, locals, board
  <2>2. \A c \in Cell : owner'[c] = IF c \in Scanned(t) THEN None ELSE owner[c]
    BY <2>1 DEF Release
  <2>3. owner' \in [Cell -> Thread \cup {None}]
    BY <2>1 DEF CrowdInv, TypeOK, Release
  <2>4. TypeOK' /\ Local(t)
    BY <1>1, <2>1, <2>3 DEF CrowdInv, TypeOK, Local
  <2>5. pc'[t] = "step"
    BY <2>1 DEF CrowdInv, TypeOK
  <2>6. Touched(t) => Touched(t)'
    BY <1>1, <1>2, <2>2, <2>4 DEF Touched, Local
  <2>7. Knows(t)'
    BY <1>1, <1>5, <2>5, <2>6 DEF Knows, OfTwo
  <2>8. \A c \in Cell : Owns(t, c)'
    BY <1>1, <1>3, <2>2, <2>5, LocksAssumption DEF Owns, Holds
  <2>9. \A c \in Cell, u \in Thread \ {t} : owner'[c] = u => owner[c] = u
    BY <2>2, LocksAssumption
  <2>. QED
    BY <1>1, <2>1, <2>4, <2>5, <2>7, <2>8, <2>9, CrowdStill
<1>. QED
  BY <1>6, <1>7, <1>8

LEMMA CrowdUnlock ==
  ASSUME CrowdInv, NEW t \in Thread, Unlock(t)
  PROVE  CrowdInv'
<1>1. /\ pc[t] = "unlock" /\ owner' = Release({from[t], to[t]})
      /\ pc' = [pc EXCEPT ![t] = "idle"] /\ from' = [from EXCEPT ![t] = None]
      /\ to' = [to EXCEPT ![t] = None] /\ scan' = [scan EXCEPT ![t] = 0]
      /\ tries' = [tries EXCEPT ![t] = Tries] /\ seen' = [seen EXCEPT ![t] = None]
      /\ UNCHANGED <<at, on, jailed>>
  BY DEF Unlock, Goto, board
<1>2. \A c \in Cell : owner'[c] = IF c \in {from[t], to[t]} THEN None ELSE owner[c]
  BY <1>1 DEF Release
<1>3. owner' \in [Cell -> Thread \cup {None}]
  BY <1>1 DEF CrowdInv, TypeOK, Release
<1>4. TypeOK' /\ Local(t)
  <2>1. 0 \in 0 .. Cells /\ Tries \in 0 .. Tries
    BY LocksAssumption
  <2>. QED
    BY <1>1, <1>3, <2>1 DEF CrowdInv, TypeOK, Local
<1>5. pc'[t] = "idle" /\ from[t] \in Cell /\ to[t] \in Cell /\ at[t] \in Cell
  BY <1>1 DEF CrowdInv, TypeOK, Knows, OfTwo
<1>6. Knows(t)'
  BY <1>1, <1>5 DEF Knows, OfTwo
<1>7. \A c \in Cell : Owns(t, c)'
  <2>1. \A c \in Cell : owner[c] = t => c \in {from[t], to[t]}
    BY <1>1 DEF CrowdInv, Owns, Holds
  <2>. QED
    BY <1>2, <2>1, LocksAssumption DEF Owns
<1>8. \A c \in Cell, u \in Thread \ {t} : owner'[c] = u => owner[c] = u
  BY <1>2, LocksAssumption
<1>9. \A c \in {from[t], to[t]} : owner'[c] = None
  BY <1>2, <1>5
<1>. QED
  BY <1>1, <1>4, <1>5, <1>6, <1>7, <1>8, <1>9, CrowdStill

(* A player moves, or is tagged: who loses its cell that way has it        *)
(* touched, and who is jailed on its way out as well.                      *)
LEMMA CrowdMove ==
  ASSUME CrowdInv, NEW t \in Thread, MovePlayer(t) \/ TagOnBlue(t)
  PROVE  CrowdInv'
<1>1. /\ pc[t] \in {"step", "act"} /\ pc' = [pc EXCEPT ![t] = "unlock"]
      /\ UNCHANGED <<owner, from, to, tries, scan, seen>>
      /\ from[t] \in Cell /\ to[t] \in Cell
  BY DEF CrowdInv, Knows, OfTwo, MovePlayer, TagOnBlue, Goto, locals
<1>2. /\ NextPlace.at = at' /\ NextPlace.on = on' /\ Place.at = at /\ Place.on = on
      /\ \A u \in Thread : pc[u] # "gone" => at'[u] \in Cell
  BY MovedBoard DEF NextPlace, Place
<1>3. at' \in [Thread -> Cell \cup {None}] /\ on' \in [Cell -> Thread \cup {None}]
  <2>1. NextPlace \in Board
    BY MovedBoard
  <2>. QED
    BY <1>2, <2>1 DEF Board
<1>4. Local(t) /\ pc'[t] = "unlock" /\ pc[t] # "gone"
  BY <1>1 DEF CrowdInv, TypeOK, Local
<1>5. OnOK'
  <2>1. \A c \in Cell : on'[c] # None => pc[on'[c]] = "gone" \/ at'[on'[c]] = c
    <3>1. Known(NextPlace)
      BY MovedBoard
    <3>. QED
      BY <1>2, <3>1 DEF Known
  <2>2. \A c \in Cell : on'[c] # None => on'[c] \in Thread
    BY <1>3
  <2>. QED
    BY <1>1, <1>4, <2>1, <2>2 DEF OnOK, Local
<1>6. /\ jailed' \in [Thread -> BOOLEAN]
      /\ \A u \in Thread : jailed'[u] /\ ~jailed[u] => u \in {on[from[t]], on[to[t]]}
  <2>1. jailed \in [Thread -> BOOLEAN]
    BY DEF CrowdInv, TypeOK
  <2>2. CASE MovePlayer(t)
    BY <2>1, <2>2 DEF MovePlayer
  <2>3. CASE TagOnBlue(t)
    <3>1. jailed' = [jailed EXCEPT ![Victim(t)] = TRUE] /\ Victim(t) \in {on[from[t]], on[to[t]]}
      BY <2>3 DEF TagOnBlue, Victim, Target
    <3>. HIDE DEF Victim
    <3>. QED
      BY <2>1, <3>1
  <2>. QED
    BY <2>2, <2>3
<1>7. TypeOK'
  BY <1>1, <1>3, <1>6 DEF CrowdInv, TypeOK
<1>8. \A u \in Thread, c \in Cell : Owns(u, c)'
  <2>1. \A c \in Cell : owner[c] = t => c \in {from[t], to[t]}
    BY <1>1 DEF CrowdInv, Owns, Holds
  <2>2. \A c \in Cell : Owns(t, c)'
    BY <1>1, <1>4, <2>1 DEF Owns, Holds
  <2>. QED
    BY <1>1, <1>4, <2>2, OwnsStep DEF CrowdInv
<1>9. Knows(t)'
  BY <1>1, <1>2, <1>4 DEF Knows, OfTwo
<1>10. ASSUME NEW u \in Thread \ {t} PROVE Knows(u)'
  <2>1. /\ Knows(u) /\ pc'[u] = pc[u] /\ from'[u] = from[u] /\ to'[u] = to[u]
        /\ scan'[u] = scan[u] /\ Scanned(u)' = Scanned(u)
    BY <1>1, <1>4 DEF CrowdInv, Local, Scanned
  <2>2. pc[u] \in OfTwo /\ Touched(u) => Touched(u)'
    BY <1>1, <1>4, <2>1, TouchedStays DEF Knows
  <2>3. from[u] \in {from[t], to[t]} => Touched(u)'
    BY <1>1, <1>4, <2>1 DEF Touched
  <2>4. pc[u] \in OfTwo /\ Current(u) => Current(u)' \/ Touched(u)'
    <3>1. CASE pc[u] \in OfTwo /\ Current(u) /\ from[u] \notin {from[t], to[t]}
               /\ owner[from[u]] = u
      <4>1. Stands(Place, u, from[u]) /\ from[u] \in Cell /\ pc[u] # "gone" /\ owner[from[u]] # None
        BY <1>2, <2>1, <3>1, LocksAssumption DEF Stands, Current, Knows, OfTwo
      <4>2. Stands(NextPlace, u, from[u])
        BY <3>1, <4>1, MovedBoard
      <4>. QED
        BY <1>2, <2>1, <4>2 DEF Stands, Current
    <3>2. CASE owner[from[u]] # u
      BY <1>1, <2>1, <3>2 DEF Touched
    <3>. QED
      BY <2>3, <3>1, <3>2
  <2>5. pc[u] = "step" /\ jailed'[u] /\ ~jailed[u] => Touched(u)'
    <3>. SUFFICES ASSUME pc[u] = "step", jailed'[u], ~jailed[u] PROVE Touched(u)'
      OBVIOUS
    <3>1. Current(u) \/ Touched(u)
      BY <2>1 DEF Knows
    <3>2. PICK c \in {from[t], to[t]} : on[c] = u
      BY <1>6
    <3>3. at[u] = c
      BY <1>1, <3>2, LocksAssumption DEF CrowdInv, OnOK
    <3>4. Current(u) => from[u] = c
      BY <3>3 DEF Current
    <3>. QED
      BY <2>2, <2>3, <3>1, <3>4 DEF OfTwo
  <2>6. pc[u] \in {"act", "step", "read", "lock"} => Current(u)' \/ Touched(u)'
    BY <2>1, <2>2, <2>4 DEF Knows, OfTwo
  <2>7. pc[u] = "step" /\ jailed'[u] => to[u] \in Jail \/ Touched(u)'
    BY <2>1, <2>2, <2>5 DEF Knows, OfTwo
  <2>. QED
    BY <1>2, <2>1, <2>6, <2>7 DEF Knows
<1>. QED
  BY <1>5, <1>7, <1>8, <1>9, <1>10 DEF CrowdInv

-----------------------------------------------------------------------------
LEMMA InitCrowd == Init => CrowdInv
<1>. SUFFICES ASSUME Init PROVE CrowdInv
  OBVIOUS
<1>1. LockType /\ OccupancyOK
  BY InitLock DEF LockInv
<1>2. 0 \in 0 .. Cells /\ Tries \in 0 .. Tries
  BY LocksAssumption
<1>3. TypeOK
  BY <1>1, <1>2 DEF LockType, Init, TypeOK
<1>4. OnOK
  BY <1>1 DEF OccupancyOK, OnOK
<1>5. \A t \in Thread, c \in Cell : Owns(t, c)
  BY LocksAssumption DEF Init, Owns
<1>6. \A t \in Thread : Knows(t)
  BY DEF Init, Knows, OfTwo
<1>. QED
  BY <1>3, <1>4, <1>5, <1>6 DEF CrowdInv

LEMMA NextCrowd == CrowdInv /\ [Next]_vars => CrowdInv'
<1>. SUFFICES ASSUME CrowdInv, [Next]_vars PROVE CrowdInv'
  OBVIOUS
<1>1. ASSUME NEW t \in Thread, Move(t) \/ Leave(t) PROVE CrowdInv'
  BY <1>1, CrowdStart
<1>2. ASSUME NEW t \in Thread, Proceed(t) PROVE CrowdInv'
  BY <1>2, CrowdPair, CrowdCheck, CrowdDrop, CrowdDecide, CrowdMove, CrowdScan, CrowdUnlock
  DEF Proceed
<1>3. CASE UNCHANGED vars
  BY <1>3
  DEF vars, board, locals, CrowdInv, TypeOK, OnOK, Owns, Holds, Lower, Scanned, Knows, Current,
      Touched
<1>. QED
  BY <1>1, <1>2, <1>3 DEF Next

LEMMA CrowdIsKept == Spec => []CrowdInv
<1>1. CrowdInv /\ [Next]_vars => CrowdInv'
  BY NextCrowd
<1>. QED
  BY <1>1, InitCrowd, PTL DEF Spec

(* The variables of the locks keep their types with both teams about,      *)
(* whoever gives up its locks: a cell is a cell and a loop ends in it.     *)
THEOREM LocksTypeCorrect == Spec => []TypeOK
  BY CrowdIsKept, PTL DEF CrowdInv

(* Half of the references survive the requests that gave up (game_server.c *)
(* 279): a cell that has a player who is in the game is the player's cell; *)
(* the player's own reference may be to a cell that another one is on.     *)
THEOREM CellsKnowTheirPlayers == Spec => []OnOK
  BY CrowdIsKept, PTL DEF CrowdInv

-----------------------------------------------------------------------------
LEMMA PrisonersStep ==
  CrowdInv /\ [Next]_vars => (PrisonersInJail /\ HoldsCells => PrisonersInJail')
<1>. SUFFICES ASSUME CrowdInv, [Next]_vars, PrisonersInJail, HoldsCells
              PROVE  PrisonersInJail'
  OBVIOUS
<1>1. ASSUME NEW t \in Thread, MovePlayer(t) PROVE PrisonersInJail'
  <2>1. /\ pc[t] = "step" /\ jailed' = jailed
        /\ at' = [u \in Thread |-> IF u = on[from[t]] THEN to[t] ELSE at[u]]
    BY <1>1 DEF MovePlayer, Put, Shifted, Place
  <2>2. owner[from[t]] = t /\ on[from[t]] = t
    BY <2>1 DEF HoldsCells, Current
  <2>3. ~Touched(t)
    BY <2>2, LocksAssumption DEF Touched, HoldsCells, Thread
  <2>4. jailed[t] => to[t] \in Jail
    BY <2>1, <2>3 DEF CrowdInv, Knows
  <2>. QED
    BY <2>1, <2>2, <2>4 DEF PrisonersInJail
<1>2. ASSUME NEW t \in Thread, TagOnBlue(t) PROVE PrisonersInJail'
  <2>1. PICK d \in OpenJail :
          IF t \in Red
          THEN Put(Shifted(Place, from[t], d))
          ELSE Put(Shifted(Shifted(Place, to[t], d), from[t], to[t]))
    BY <1>2 DEF TagOnBlue
  <2>2. d \in Jail /\ d \in Cell /\ owner[d] = None
    BY LocksAssumption DEF OpenJail
  <2>3. /\ pc[t] = "act" /\ ~jailed[t] /\ ~SameTeam(t, on[to[t]])
        /\ jailed' = [jailed EXCEPT ![Victim(t)] = TRUE]
        /\ Victim(t) \in Red
    BY <1>2 DEF TagOnBlue, Target
  <2>4. /\ owner[from[t]] = t /\ on[from[t]] = t /\ from[t] \in Cell /\ to[t] \in Cell
    BY <2>3 DEF HoldsCells, Current, CrowdInv, Knows, OfTwo
  <2>5. d # from[t] /\ to[t] # from[t]
    BY <2>2, <2>3, <2>4, LocksAssumption DEF SameTeam
  <2>6. jailed \in [Thread -> BOOLEAN] /\ on \in [Cell -> Thread \cup {None}]
    BY DEF CrowdInv, TypeOK
  <2>7. CASE t \in Red
    <3>1. Victim(t) = t /\ at' = [u \in Thread |-> IF u = t THEN d ELSE at[u]]
      BY <2>1, <2>4, <2>7 DEF Victim, Put, Shifted, Place
    <3>. HIDE DEF Victim
    <3>. QED
      BY <2>2, <2>3, <2>6, <3>1 DEF PrisonersInJail
  <2>8. CASE t \notin Red
    <3>1. Victim(t) = on[to[t]] /\ on[to[t]] \in Red /\ on[to[t]] # t
      BY <2>3, <2>8 DEF Victim, Target
    <3>2. /\ Shifted(Place, to[t], d).at =
               [u \in Thread |-> IF u = on[to[t]] THEN d ELSE at[u]]
          /\ Shifted(Place, to[t], d).on[from[t]] = t
      BY <2>2, <2>4, <2>5, <2>6 DEF Shifted, Place
    <3>3. at' = [u \in Thread |-> IF u = t THEN to[t]
                                  ELSE IF u = on[to[t]] THEN d ELSE at[u]]
      <4>. DEFINE b == Shifted(Place, to[t], d)
      <4>1. at' = [u \in Thread |-> IF u = b.on[from[t]] THEN to[t] ELSE b.at[u]]
        BY <2>1, <2>8 DEF Put, Shifted
      <4>. HIDE DEF b
      <4>2. b.at = [u \in Thread |-> IF u = on[to[t]] THEN d ELSE at[u]] /\ b.on[from[t]] = t
        BY <3>2 DEF b
      <4>. QED
        BY <4>1, <4>2
    <3>. HIDE DEF Victim
    <3>4. ASSUME NEW u \in Thread, jailed'[u] PROVE at'[u] \in Jail \cup {None}
      <4>1. CASE u = on[to[t]]
        BY <2>2, <3>1, <3>3, <4>1
      <4>2. CASE u # on[to[t]]
        <5>1. jailed[u]
          BY <2>3, <2>6, <3>1, <3>4, <4>2
        <5>2. u # t
          BY <2>3, <5>1
        <5>. QED
          BY <3>3, <4>2, <5>1, <5>2 DEF PrisonersInJail
      <4>. QED
        BY <4>1, <4>2
    <3>. QED
      BY <3>4 DEF PrisonersInJail
  <2>. QED
    BY <2>7, <2>8
<1>3. ASSUME NEW t \in Thread, Drop(t) PROVE PrisonersInJail'
  BY <1>3 DEF Drop, CrowdInv, TypeOK, PrisonersInJail
<1>4. ASSUME NEW t \in Thread, ScanLock(t) PROVE PrisonersInJail'
  <2>1. at' = at /\ jailed' = [u \in Thread |-> jailed[u] /\ u # seen[t]]
    BY <1>4 DEF ScanLock
  <2>2. \A u \in Thread : jailed'[u] => jailed[u]
    BY <2>1, Zenon
  <2>. QED
    BY <2>1, <2>2 DEF PrisonersInJail
<1>5. ASSUME UNCHANGED <<at, jailed>> PROVE PrisonersInJail'
  BY <1>5 DEF PrisonersInJail
<1>6. ASSUME NEW t \in Thread, Move(t) \/ Leave(t) PROVE PrisonersInJail'
  BY <1>5, <1>6 DEF Move, Leave, Start, board
<1>7. ASSUME NEW t \in Thread, Proceed(t) PROVE PrisonersInJail'
  <2>1. \/ MovePlayer(t) \/ TagOnBlue(t) \/ Drop(t) \/ ScanLock(t)
        \/ UNCHANGED <<at, jailed>>
    BY <1>7 DEF Proceed, LockFirst, LockSecond, LockAlone, Checked, Retry, GiveUp, StepIn,
       Refuse, Rescue, ScanRead, RescueEnd, Unlock, board
  <2>. QED
    BY <1>1, <1>2, <1>3, <1>4, <1>5, <2>1
<1>8. CASE UNCHANGED vars
  BY <1>5, <1>8 DEF vars, board
<1>. QED
  BY <1>6, <1>7, <1>8 DEF Next

(* With both teams about, no step takes a prisoner out of the jail while   *)
(* the requests hold their cells, although a player may be put into it     *)
(* between the check of its way out and the step.                          *)
THEOREM PrisonersAreKept == Spec => PrisonersStay
<1>1. CrowdInv /\ [Next]_vars => [PrisonersInJail /\ HoldsCells => PrisonersInJail']_vars
  BY PrisonersStep
<1>. QED
  BY <1>1, CrowdIsKept, PTL DEF Spec, PrisonersStay

-----------------------------------------------------------------------------
(* Where there is no jail nobody is rescued, and a request locks at most   *)
(* two cells, the lower one first.                                         *)
NoRescue == \A t \in Thread : pc[t] \notin {"read", "lock"}

LEMMA NextRescue == Jail = {} /\ CrowdInv /\ NoRescue /\ [Next]_vars => NoRescue'
<1>. SUFFICES ASSUME Jail = {}, CrowdInv, NoRescue, [Next]_vars, NEW u \in Thread
              PROVE  pc'[u] \notin {"read", "lock"}
  BY DEF NoRescue
<1>1. /\ DOMAIN pc = Thread /\ pc = [t \in Thread |-> pc[t]]
      /\ pc[u] \notin {"read", "lock"}
  BY DEF CrowdInv, TypeOK, NoRescue
<1>2. ASSUME NEW t \in Thread, Move(t) \/ Leave(t) PROVE pc'[u] \notin {"read", "lock"}
  BY <1>1, <1>2 DEF Move, Leave, Start
<1>3. ASSUME NEW t \in Thread, Proceed(t) PROVE pc'[u] \notin {"read", "lock"}
  <2>1. ~Rescue(t) /\ ~ScanRead(t) /\ ~ScanLock(t)
    BY DEF Rescue, Rescues, ScanRead, ScanLock, NoRescue
  <2>. QED
    BY <1>1, <1>3, <2>1 DEF Proceed, LockFirst, LockSecond, LockAlone, Checked, Retry, GiveUp,
       Drop, StepIn, MovePlayer, TagOnBlue, Refuse, RescueEnd, Unlock, Goto
<1>4. CASE UNCHANGED vars
  BY <1>1, <1>4 DEF vars
<1>. QED
  BY <1>2, <1>3, <1>4 DEF Next

LEMMA InOrder == CrowdInv /\ NoRescue => LockOrder
<1>. SUFFICES ASSUME CrowdInv, NoRescue, NEW t \in Thread, NEW c \in Awaited(t), NEW d \in Cell,
                     owner[d] = t
              PROVE  d < c
  BY DEF LockOrder
<1>1. /\ Holds(t, d) \/ pc[t] = "stuck"
      /\ pc[t] \notin {"read", "lock"}
  BY DEF CrowdInv, Owns, NoRescue
<1>2. pc[t] = "second"
  BY <1>1 DEF Holds, Awaited
<1>3. from[t] \in Cell /\ to[t] \in Cell /\ from[t] # to[t]
  BY <1>2 DEF CrowdInv, Knows, OfTwo
<1>4. c = Higher(t) /\ d = Lower(t)
  BY <1>1, <1>2 DEF Holds, Awaited
<1>. QED
  BY <1>3, <1>4, LowerHigher, LocksAssumption DEF Cell

(* A request that waits for a cell holds only cells before it, so that     *)
(* requests which move players never wait for each other in a circle; the  *)
(* rescue is the exception, as it goes through the jail from its start.    *)
THEOREM LocksAreOrdered == Jail = {} /\ Spec => []LockOrder
<1>. SUFFICES ASSUME Jail = {} PROVE Spec => []LockOrder
  OBVIOUS
<1>1. Spec => []CrowdInv
  BY CrowdIsKept
<1>2. Init => NoRescue
  BY DEF Init, NoRescue
<1>3. CrowdInv /\ NoRescue /\ [Next]_vars => NoRescue'
  BY NextRescue
<1>4. CrowdInv /\ NoRescue => LockOrder
  BY InOrder
<1>. QED
  BY <1>1, <1>2, <1>3, <1>4, PTL DEF Spec
=============================================================================
