---------------------------- MODULE EventsProofs ----------------------------
(***************************************************************************)
(* The waiting line of module Events, for any number of threads, clients   *)
(* and slots: every outstanding number has one thread on its way, and one  *)
(* thread posts at a time, in the order of the numbers.                    *)
(***************************************************************************)
EXTENDS Events, FiniteSetTheorems, TLAPS

Where == {"idle", "stamp", "body", "wait", "turn", "post", "posted"}

(* The part of the state the waiting line consists of.  The header and the *)
(* subscribers play no role in it.                                         *)
LineType ==
  /\ next \in Nat /\ current \in Nat /\ current <= next
  /\ pc \in [Thread -> Where]
  /\ ticket \in [Thread -> Nat]

LineInv == LineType /\ TicketsAccounted /\ OneTurn

LEMMA InitLine == Init => LineInv
BY DEF Init, LineInv, LineType, Where, TicketsAccounted, OneTurn, InTurn, Busy

(* A new number goes to the thread that took it.                           *)
LEMMA TakeLine ==
  ASSUME LineInv, NEW t \in Thread, Take(t)
  PROVE  LineInv'
<1>. USE DEF LineInv
<1>1. LineType'
  BY DEF LineType, Take, Where
<1>2. /\ next' = next + 1 /\ current' = current /\ ~Busy(t) /\ ~InTurn(t)
      /\ ticket' = [ticket EXCEPT ![t] = next] /\ pc' = [pc EXCEPT ![t] = "stamp"]
  BY DEF Take, Busy, InTurn
<1>3. \A u \in Thread : /\ Busy(u)' <=> u = t \/ Busy(u)
                        /\ InTurn(u)' <=> InTurn(u)
  BY <1>2 DEF LineType, Busy, InTurn
<1>4. \A u \in Thread : ticket'[u] = IF u = t THEN next ELSE ticket[u]
  BY <1>2 DEF LineType
<1>5. \A u \in Thread : Busy(u) => ticket[u] \in current .. next - 1
  BY DEF TicketsAccounted
<1>6. current <= next
  BY DEF LineType
<1>7. TicketsAccounted'
  <2>1. ASSUME NEW u \in Thread, Busy(u)' PROVE ticket'[u] \in current' .. next' - 1
    BY <1>2, <1>3, <1>4, <1>5, <1>6, <2>1 DEF LineType
  <2>2. ASSUME NEW u \in Thread, NEW v \in Thread, Busy(u)', Busy(v)', ticket'[u] = ticket'[v]
        PROVE  u = v
    BY <1>3, <1>4, <1>5, <2>2 DEF LineType, TicketsAccounted
  <2>3. ASSUME NEW k \in current' .. next' - 1
        PROVE  \E u \in Thread : Busy(u)' /\ ticket'[u] = k
    <3>1. CASE k = next
      BY <1>3, <1>4, <3>1
    <3>2. CASE k # next
      <4>1. k \in current .. next - 1
        BY <1>2, <3>2 DEF LineType
      <4>2. PICK u \in Thread : Busy(u) /\ ticket[u] = k
        BY <4>1 DEF TicketsAccounted
      <4>. QED
        BY <1>2, <1>3, <1>4, <4>2
    <3>. QED
      BY <3>1, <3>2
  <2>. QED
    BY <2>1, <2>2, <2>3 DEF TicketsAccounted
<1>8. OneTurn'
  BY <1>2, <1>3, <1>4 DEF OneTurn
<1>. QED
  BY <1>1, <1>7, <1>8

(* A thread that goes on to its next step keeps its number.  Only the one  *)
(* whose number is called comes into the turn, and only when no other is.  *)
LEMMA AdvanceLine ==
  ASSUME LineInv, NEW t \in Thread, Busy(t), NEW w \in Where \ {"idle"},
         UNCHANGED tickets, pc' = [pc EXCEPT ![t] = w],
         w \in {"turn", "post", "posted"} =>
           \/ InTurn(t)
           \/ ticket[t] = current /\ \A u \in Thread : ~InTurn(u)
  PROVE  LineInv'
<1>. USE DEF LineInv
<1>1. LineType'
  BY DEF LineType, tickets
<1>2. \A u \in Thread : Busy(u)' <=> Busy(u)
  BY DEF LineType, Busy
<1>3. TicketsAccounted'
  BY <1>2 DEF TicketsAccounted, tickets
<1>4. \A u \in Thread : u # t => (InTurn(u)' <=> InTurn(u))
  BY DEF LineType, InTurn
<1>5. InTurn(t)' => w \in {"turn", "post", "posted"}
  BY DEF LineType, InTurn
<1>6. OneTurn'
  BY <1>4, <1>5 DEF OneTurn, tickets
<1>. QED
  BY <1>1, <1>3, <1>6

(* A signal calls the next number: the caller's own is used up.            *)
LEMMA SignalLine ==
  ASSUME LineInv, NEW t \in Thread, Signal(t)
  PROVE  LineInv'
<1>. USE DEF LineInv
<1>1. Busy(t) /\ InTurn(t) /\ current' = current + 1 /\ next' = next /\ ticket' = ticket
      /\ pc' = [pc EXCEPT ![t] = "idle"]
  BY DEF Signal, Busy, InTurn
<1>2. ticket[t] = current /\ current < next
  BY <1>1 DEF OneTurn, TicketsAccounted, LineType
<1>3. LineType'
  BY <1>1, <1>2 DEF LineType, Where
<1>4. \A u \in Thread : /\ Busy(u)' <=> u # t /\ Busy(u)
                        /\ ~InTurn(u)'
  BY <1>1 DEF LineType, Busy, InTurn, OneTurn
<1>5. TicketsAccounted'
  <2>1. ASSUME NEW u \in Thread, Busy(u)' PROVE ticket'[u] \in current' .. next' - 1
    <3>1. u # t /\ Busy(u) /\ ticket[u] \in current .. next - 1
      BY <1>4, <2>1 DEF TicketsAccounted
    <3>2. ticket[u] # current
      BY <1>1, <1>2, <3>1 DEF TicketsAccounted
    <3>. QED
      BY <1>1, <3>1, <3>2 DEF LineType
  <2>2. ASSUME NEW u \in Thread, NEW v \in Thread, Busy(u)', Busy(v)', ticket'[u] = ticket'[v]
        PROVE  u = v
    BY <1>1, <1>4, <2>2 DEF TicketsAccounted
  <2>3. ASSUME NEW k \in current' .. next' - 1
        PROVE  \E u \in Thread : Busy(u)' /\ ticket'[u] = k
    <3>1. k \in current .. next - 1 /\ k # current
      BY <1>1 DEF LineType
    <3>2. PICK u \in Thread : Busy(u) /\ ticket[u] = k
      BY <3>1 DEF TicketsAccounted
    <3>. QED
      BY <1>1, <1>2, <1>4, <3>1, <3>2
  <2>. QED
    BY <2>1, <2>2, <2>3 DEF TicketsAccounted
<1>6. OneTurn'
  BY <1>4 DEF OneTurn
<1>. QED
  BY <1>3, <1>5, <1>6

LEMMA StillLine ==
  ASSUME LineInv, UNCHANGED <<tickets, pc>>
  PROVE  LineInv'
BY DEF LineInv, LineType, TicketsAccounted, OneTurn, InTurn, Busy, tickets

LEMMA UpdateLine ==
  ASSUME LineInv, NEW t \in Thread, Update(t)
  PROVE  LineInv'
<1>1. CASE MarshalStamp(t)
  BY <1>1, AdvanceLine DEF MarshalStamp, Busy, Where
<1>2. CASE MarshalBody(t)
  BY <1>2, AdvanceLine DEF MarshalBody, Busy, Where
<1>3. CASE Wait(t)
  BY <1>3, AdvanceLine DEF Wait, Busy, Where
<1>4. CASE PostBegin(t)
  BY <1>4, AdvanceLine DEF PostBegin, Busy, InTurn, Where
<1>5. CASE SkipSlot(t) \/ SendOk(t) \/ SendLost(t) \/ SendFails(t)
  BY <1>5, StillLine DEF SkipSlot, SendOk, SendLost, SendFails
<1>6. CASE PostEnd(t)
  BY <1>6, AdvanceLine DEF PostEnd, Busy, InTurn, Where
<1>7. CASE Signal(t)
  BY <1>7, SignalLine
<1>. QED
  BY <1>1, <1>2, <1>3, <1>4, <1>5, <1>6, <1>7 DEF Update

LEMMA NextLine == LineInv /\ [Next]_vars => LineInv'
<1>. SUFFICES ASSUME LineInv, [Next]_vars PROVE LineInv'
  OBVIOUS
<1>1. CASE UNCHANGED vars
  BY <1>1, StillLine DEF vars
<1>2. CASE \E t \in Thread : Take(t) \/ Update(t)
  BY <1>2, TakeLine, UpdateLine
<1>3. CASE \E c \in Client : Subscribe(c) \/ Refuse(c) \/ Disconnect(c)
  BY <1>3, StillLine DEF Subscribe, Refuse, Disconnect
<1>. QED
  BY <1>1, <1>2, <1>3 DEF Next

(* No number is lost or held twice, for any number of handler threads: the *)
(* thread that will call the next one is always on its way.                *)
THEOREM TicketsAlwaysAccounted == Spec => []TicketsAccounted
<1>1. Spec => []LineInv
  BY InitLine, NextLine, PTL DEF Spec
<1>. QED
  BY <1>1, PTL DEF LineInv

(* At most one thread is between server_update_wait and                    *)
(* server_update_signal, and its number is the current one.                *)
THEOREM OneAtATime == Spec => []OneTurn
<1>1. Spec => []LineInv
  BY InitLine, NextLine, PTL DEF Spec
<1>. QED
  BY <1>1, PTL DEF LineInv

(* The line implements the turnstile's steps: numbers are called once each *)
(* and in order.  (That every number is called is left to TLC.)            *)
THEOREM LineIsTurnstile == Spec => T!Init /\ [][T!Next]_<<next, current>>
<1>1. Init => T!Init
  BY DEF Init, T!Init
<1>2. ASSUME LineInv, [Next]_vars PROVE [T!Next]_<<next, current>>
  <2>1. CASE \E t \in Thread : Take(t)
    BY <2>1 DEF Take, T!Next, T!Take
  <2>2. CASE \E t \in Thread : Signal(t)
    <3>1. PICK t \in Thread : Signal(t)
      BY <2>2
    <3>2. ticket[t] = current /\ ticket[t] \in current .. next - 1
      BY <1>2, <3>1 DEF Signal, InTurn, Busy, LineInv, OneTurn, TicketsAccounted
    <3>. QED
      BY <1>2, <3>1, <3>2 DEF Signal, T!Next, T!Serve, LineInv, LineType
  <2>3. CASE UNCHANGED <<next, current>>
    BY <2>3
  <2>4. CASE \/ UNCHANGED vars
             \/ \E t \in Thread : Update(t) /\ ~Signal(t)
             \/ \E c \in Client : Subscribe(c) \/ Refuse(c) \/ Disconnect(c)
    <3>1. UNCHANGED <<next, current>>
      BY <2>4 DEF vars, tickets, Update, MarshalStamp, MarshalBody, Wait, PostBegin,
                  SkipSlot, SendOk, SendLost, SendFails, PostEnd, Subscribe, Refuse,
                  Disconnect
    <3>. QED
      BY <3>1
  <2>. QED
    BY <1>2, <2>1, <2>2, <2>4 DEF Next
<1>3. LineInv /\ [Next]_vars => [T!Next]_<<next, current>>
  BY <1>2
<1>. QED
  BY <1>1, <1>3, InitLine, NextLine, PTL DEF Spec
-----------------------------------------------------------------------------
(***************************************************************************)
(* The subscribers of module Events, for any number of threads, clients    *)
(* and slots.  The post loop, which stops when it has counted as many live *)
(* slots as there were, stays inside the table while subscribers come and  *)
(* fail: TableInv adds to PostInBounds that the number of live slots is    *)
(* what EventNumSubscribers says, and that a thread in the loop holds the  *)
(* lock of the table.  And a subscriber gets one message in each turn:     *)
(* TurnInv adds to OnePerTurn which turn the last message of a client is   *)
(* of, by how far the loop has come.                                       *)
(***************************************************************************)

Ahead == { k \in Live : k >= i }

TableInv ==
  /\ pc \in [Thread -> {"idle", "stamp", "body", "wait", "turn", "post", "posted"}]
  /\ slots \in [Slot -> Client \cup {None}]
  /\ num = Cardinality(Live)
  /\ i \in Nat
  /\ \A t \in Thread : pc[t] = "post" => subLock = t
  /\ PostInBounds

(* A set of natural numbers has a least element, so SlotFor is a free slot.*)
LEMMA LeastOf ==
  ASSUME NEW S \in SUBSET Nat, S # {}
  PROVE  Min(S) \in S
<1>. DEFINE R == {ss \in Nat \X Nat : ss[1] < ss[2]}
<1>1. OpToRel(<, Nat) = R
  BY DEF OpToRel
<1>2. IsWellFoundedOn(R, Nat)
  BY <1>1, NatLessThanWellFounded
<1>3. PICK x \in S : \A y \in S : ~ (<<y, x>> \in R)
  BY <1>2, WFMin
<1>4. ASSUME NEW y \in S, y < x PROVE FALSE
  <2>1. <<y, x>> \in Nat \X Nat /\ <<y, x>>[1] < <<y, x>>[2]
    BY <1>4
  <2>2. <<y, x>> \in R
    BY <2>1
  <2>. QED
    BY <1>3, <2>2
<1>5. \A y \in S : x <= y
  BY <1>4
<1>. QED
  BY <1>5 DEF Min

LEMMA FreeSlot == FreeSlots # {} => SlotFor \in FreeSlots
<1>1. FreeSlots \in SUBSET Nat
  BY EventsAssumption DEF FreeSlots, Slot
<1>. QED
  BY <1>1, LeastOf DEF SlotFor

LEMMA LiveFinite == IsFiniteSet(Live) /\ IsFiniteSet(Ahead)
<1>1. IsFiniteSet(Slot)
  BY FS_Interval, EventsAssumption DEF Slot
<1>2. Live \in SUBSET Slot /\ Ahead \in SUBSET Live
  BY DEF Live, Ahead
<1>. QED
  BY <1>1, <1>2, FS_Subset

LEMMA InitTable == Init => TableInv
<1>. SUFFICES ASSUME Init PROVE TableInv
  OBVIOUS
<1>1. Live = {}
  BY DEF Init, Live
<1>2. num = Cardinality(Live)
  BY <1>1, FS_EmptySet DEF Init
<1>. QED
  BY <1>2 DEF Init, TableInv, PostInBounds

(* While the loop has slots to count, it looks at a slot of the table.     *)
LEMMA LoopSlot ==
  ASSUME TableInv, NEW t \in Thread, pc[t] = "post", left # 0
  PROVE  i \in Slot /\ left = Cardinality(Ahead)
<1>1. subLock = t /\ t # None
  BY EventsAssumption DEF TableInv
<1>2. left = Cardinality(Ahead)
  BY <1>1 DEF TableInv, PostInBounds, Ahead
<1>3. Ahead # {}
  BY <1>2, FS_EmptySet
<1>4. PICK k \in Ahead : TRUE
  BY <1>3
<1>5. k \in Slot /\ k >= i
  BY <1>4 DEF Ahead, Live
<1>. QED
  BY <1>2, <1>5, EventsAssumption DEF TableInv, Slot

LEMMA BeginTable ==
  ASSUME TableInv, NEW t \in Thread, PostBegin(t)
  PROVE  TableInv'
<1>1. UNCHANGED <<slots, num, last>>
  BY DEF PostBegin, table
<1>2. Live' = Live /\ Ahead' = Live
  BY <1>1 DEF Live, Ahead, PostBegin, Slot
<1>3. left' = Cardinality(Ahead')
  BY <1>2 DEF PostBegin, TableInv
<1>4. PostInBounds'
  BY <1>3 DEF PostInBounds, Ahead
<1>5. \A u \in Thread : pc'[u] = "post" => u = t
  BY EventsAssumption DEF PostBegin, TableInv
<1>6. pc' \in [Thread -> {"idle", "stamp", "body", "wait", "turn", "post", "posted"}]
  BY DEF PostBegin, TableInv
<1>. QED
  BY <1>1, <1>2, <1>4, <1>5, <1>6 DEF PostBegin, TableInv

(* The loop passes slot i: it no longer counts, alive or not.              *)
LEMMA PassSlot ==
  ASSUME TableInv, NEW t \in Thread, SkipSlot(t) \/ SendOk(t) \/ SendLost(t) \/ SendFails(t)
  PROVE  TableInv'
<1>1. /\ pc[t] = "post" /\ left # 0 /\ i' = i + 1 /\ pc' = pc /\ subLock' = subLock
  BY DEF SkipSlot, SendOk, SendLost, SendFails
<1>2. i \in Slot /\ left = Cardinality(Ahead)
  BY <1>1, LoopSlot
<1>3. slots' \in [Slot -> Client \cup {None}] /\ num' = Cardinality(Live')
  <2>1. CASE SkipSlot(t) \/ SendOk(t) \/ SendLost(t)
    BY <2>1 DEF SkipSlot, SendOk, SendLost, table, TableInv, Live
  <2>2. CASE SendFails(t)
    <3>1. slots' = [slots EXCEPT ![i] = None] /\ num' = num - 1 /\ slots[i] # None
      BY <2>2 DEF SendFails
    <3>2. Live' = Live \ {i} /\ i \in Live
      BY <1>2, <3>1 DEF Live, TableInv
    <3>. QED
      BY <3>1, <3>2, LiveFinite, FS_RemoveElement DEF TableInv
  <2>. QED
    BY <2>1, <2>2
<1>4. left' = Cardinality(Ahead')
  <2>0. i \in Nat
    BY DEF TableInv
  <2>1. Ahead' = Ahead \ {i}
    <3>1. \A k \in Slot : k # i => slots'[k] = slots[k]
      BY <1>2 DEF SkipSlot, SendOk, SendLost, SendFails, table, TableInv
    <3>2. \A k \in Slot : k >= i + 1 <=> k >= i /\ k # i
      BY <2>0, EventsAssumption DEF Slot
    <3>. QED
      BY <1>1, <3>1, <3>2 DEF Ahead, Live
  <2>2. CASE SkipSlot(t)
    <3>1. i \notin Ahead /\ left' = left
      BY <2>2 DEF SkipSlot, Ahead, Live
    <3>. QED
      BY <1>2, <2>1, <3>1, LiveFinite, FS_RemoveElement
  <2>3. CASE SendOk(t) \/ SendLost(t) \/ SendFails(t)
    <3>1. slots[i] # None /\ left' = left - 1
      BY <2>3 DEF SendOk, SendLost, SendFails
    <3>2. i \in Ahead
      BY <1>2, <2>0, <3>1 DEF Ahead, Live
    <3>. QED
      BY <1>2, <2>1, <3>1, <3>2, LiveFinite, FS_RemoveElement
  <2>. QED
    BY <2>2, <2>3
<1>5. i' \in Nat
  BY <1>1 DEF TableInv
<1>6. PostInBounds'
  BY <1>4 DEF PostInBounds, Ahead
<1>. QED
  BY <1>1, <1>3, <1>5, <1>6 DEF TableInv

(* A new subscriber is put into a free slot, while nobody posts.           *)
LEMMA SubscribeTable ==
  ASSUME TableInv, NEW c \in Client, Subscribe(c)
  PROVE  TableInv'
<1>1. /\ subLock = None /\ UNCHANGED <<subLock, i, left, pc>>
      /\ slots' = [slots EXCEPT ![SlotFor] = c] /\ num' = num + 1
  BY DEF Subscribe, loop
<1>2. SlotFor \in FreeSlots
  BY FreeSlot DEF Subscribe
<1>3. SlotFor \in Slot /\ SlotFor \notin Live /\ c # None
  BY <1>2, EventsAssumption DEF FreeSlots
<1>4. Live' = Live \cup {SlotFor}
  BY <1>1, <1>3 DEF Live, TableInv
<1>5. num' = Cardinality(Live')
  BY <1>1, <1>3, <1>4, LiveFinite, FS_AddElement DEF TableInv
<1>6. slots' \in [Slot -> Client \cup {None}]
  BY <1>1 DEF TableInv
<1>. QED
  BY <1>1, <1>5, <1>6 DEF TableInv, PostInBounds

(* Steps outside the loop.                                                 *)
LEMMA OutsideTable ==
  ASSUME TableInv, NEW t \in Thread, NEW w \in {"idle", "stamp", "body", "wait", "turn", "posted"},
         pc' = [pc EXCEPT ![t] = w], UNCHANGED <<slots, num>>,
         \/ UNCHANGED <<subLock, i, left>>
         \/ pc[t] = "post" /\ subLock' = None /\ i' = 0
  PROVE  TableInv'
<1>1. Live' = Live
  BY DEF Live
<1>2. \A u \in Thread : pc'[u] = "post" => pc[u] = "post" /\ u # t
  BY DEF TableInv
<1>3. CASE UNCHANGED <<subLock, i, left>>
  BY <1>1, <1>2, <1>3 DEF TableInv, PostInBounds
<1>4. CASE pc[t] = "post" /\ subLock' = None /\ i' = 0
  <2>1. \A u \in Thread : pc'[u] # "post"
    BY <1>2, <1>4 DEF TableInv
  <2>. QED
    BY <1>1, <1>4, <2>1 DEF TableInv, PostInBounds
<1>. QED
  BY <1>3, <1>4

LEMMA UpdateTable ==
  ASSUME TableInv, NEW t \in Thread, Take(t) \/ Update(t)
  PROVE  TableInv'
<1>1. CASE Take(t) \/ MarshalStamp(t) \/ MarshalBody(t) \/ Wait(t) \/ Signal(t)
  BY <1>1, OutsideTable DEF Take, MarshalStamp, MarshalBody, Wait, Signal, table, loop
<1>2. CASE PostBegin(t)
  BY <1>2, BeginTable
<1>3. CASE SkipSlot(t) \/ SendOk(t) \/ SendLost(t) \/ SendFails(t)
  BY <1>3, PassSlot
<1>4. CASE PostEnd(t)
  BY <1>4, OutsideTable DEF PostEnd, table
<1>. QED
  BY <1>1, <1>2, <1>3, <1>4 DEF Update

LEMMA NextTable == TableInv /\ [Next]_vars => TableInv'
<1>. SUFFICES ASSUME TableInv, [Next]_vars PROVE TableInv'
  OBVIOUS
<1>1. CASE \E t \in Thread : Take(t) \/ Update(t)
  BY <1>1, UpdateTable
<1>2. CASE \E c \in Client : Subscribe(c)
  BY <1>2, SubscribeTable
<1>3. CASE UNCHANGED vars \/ \E c \in Client : Refuse(c) \/ Disconnect(c)
  <2>1. UNCHANGED <<pc, slots, num, subLock, i, left>>
    BY <1>3 DEF vars, table, loop, Refuse, Disconnect
  <2>. QED
    BY <2>1 DEF TableInv, PostInBounds, Live
<1>. QED
  BY <1>1, <1>2, <1>3 DEF Next

(* The loop of proto_server_post_event still has to count exactly the live *)
(* slots ahead of it, however many subscribers there are and whichever of  *)
(* them have failed.                                                       *)
THEOREM LoopCountsLiveSlots == Spec => []PostInBounds
<1>1. Spec => []TableInv
  BY InitTable, NextTable, PTL DEF Spec
<1>. QED
  BY <1>1, PTL DEF TableInv

(* It therefore never reads behind the table, which nothing else prevents. *)
Reads(t) == pc[t] = "post" /\ left # 0
THEOREM LoopStaysInTable == Spec => [](\A t \in Thread : Reads(t) => i \in Slot)
<1>1. Spec => []TableInv
  BY InitTable, NextTable, PTL DEF Spec
<1>2. TableInv => \A t \in Thread : Reads(t) => i \in Slot
  BY LoopSlot DEF Reads
<1>. QED
  BY <1>1, <1>2, PTL
-----------------------------------------------------------------------------
(* The types of the variables.  That a number which is written into the    *)
(* header is one that was handed out comes from the waiting line.          *)
Message == [turn : Nat, stamp : Ticket \cup {-1}]

TypeInv == LineInv /\ TableInv /\ TypeOK

LEMMA HoldsTicket ==
  ASSUME TypeInv, NEW t \in Thread, Busy(t)
  PROVE  ticket[t] \in Ticket
<1>1. ticket[t] \in current .. next - 1 /\ next \in 0 .. Limit /\ current \in Nat
  BY DEF TypeInv, LineInv, LineType, TicketsAccounted, TypeOK
<1>. QED
  BY <1>1, EventsAssumption DEF Ticket

LEMMA InitType == Init => TypeOK
<1>. SUFFICES ASSUME Init PROVE TypeOK
  OBVIOUS
<1>1. Blank \in Header
  BY DEF Blank, Header
<1>2. received \in [Client -> Seq([turn : Nat, stamp : Ticket \cup {-1}])]
  BY DEF Init
<1>. QED
  BY <1>1, <1>2, EventsAssumption DEF Init, TypeOK

LEMMA HeaderType ==
  ASSUME TypeInv, NEW t \in Thread, MarshalStamp(t) \/ MarshalBody(t)
  PROVE  hdr' \in Header
<1>1. ticket[t] \in Ticket
  BY HoldsTicket DEF MarshalStamp, MarshalBody, Busy
<1>. QED
  BY <1>1 DEF TypeInv, TypeOK, MarshalStamp, MarshalBody, Header

LEMMA SendType ==
  ASSUME TypeInv, NEW t \in Thread, SendOk(t)
  PROVE  /\ slots[i] \in Client
         /\ received' = [received EXCEPT ![slots[i]] =
                           Append(@, [turn |-> ticket[t], stamp |-> hdr.stamp])]
         /\ [turn |-> ticket[t], stamp |-> hdr.stamp] \in Message
         /\ received' \in [Client -> Seq(Message)]
<1>1. i \in Slot
  BY LoopSlot DEF SendOk, TypeInv
<1>2. slots[i] \in Client
  BY <1>1 DEF SendOk, TypeInv, TableInv
<1>3. [turn |-> ticket[t], stamp |-> hdr.stamp] \in Message
  BY DEF TypeInv, TypeOK, Message, Header
<1>4. received \in [Client -> Seq(Message)]
  BY DEF TypeInv, TypeOK, Message
<1>5. received[slots[i]] \in Seq(Message)
  BY <1>2, <1>4
<1>6. Append(received[slots[i]], [turn |-> ticket[t], stamp |-> hdr.stamp]) \in Seq(Message)
  BY <1>3, <1>5
<1>7. received' = [received EXCEPT ![slots[i]] =
                     Append(@, [turn |-> ticket[t], stamp |-> hdr.stamp])]
  BY DEF SendOk
<1>8. received' \in [Client -> Seq(Message)]
  BY <1>2, <1>4, <1>6, <1>7
<1>. QED
  BY <1>2, <1>3, <1>7, <1>8

LEMMA NextType == TypeInv /\ [Next]_vars => TypeInv'
<1>. SUFFICES ASSUME TypeInv, [Next]_vars PROVE TypeInv'
  OBVIOUS
<1>1. LineInv' /\ TableInv'
  BY NextLine, NextTable DEF TypeInv
<1>2. /\ pc' \in [Thread -> Where] /\ ticket' \in [Thread -> Nat]
      /\ current' \in Nat /\ next' \in Nat /\ current' <= next'
      /\ slots' \in [Slot -> Client \cup {None}] /\ i' \in Nat
  BY <1>1 DEF LineInv, LineType, TableInv
<1>3. num' \in Nat
  <2>1. IsFiniteSet(Live') /\ num' = Cardinality(Live')
    <3>1. IsFiniteSet(Slot)
      BY FS_Interval, EventsAssumption DEF Slot
    <3>2. Live' \in SUBSET Slot
      BY DEF Live
    <3>. QED
      BY <1>1, <3>1, <3>2, FS_Subset DEF TableInv
  <2>. QED
    BY <2>1, FS_CardinalityType
<1>4. next' \in 0 .. Limit /\ current' \in 0 .. Limit
  <2>1. next' = next \/ (next < Limit /\ next' = next + 1)
    BY DEF Next, Update, Take, MarshalStamp, MarshalBody, Wait, PostBegin, SkipSlot,
       SendOk, SendLost, SendFails, PostEnd, Signal, Subscribe, Refuse, Disconnect,
       vars, tickets
  <2>2. next \in 0 .. Limit
    BY DEF TypeInv, TypeOK
  <2>3. next' <= Limit
    BY <2>1, <2>2, EventsAssumption
  <2>. QED
    BY <1>2, <2>3, EventsAssumption
<1>5. subLock' \in Thread \cup {None} /\ left' \in Int
  <2>1. /\ subLock' = subLock \/ subLock' \in Thread \/ subLock' = None
        /\ left' = left \/ left' = num \/ left' = left - 1 \/ left' = 0
    BY DEF Next, Update, Take, MarshalStamp, MarshalBody, Wait, PostBegin, SkipSlot,
       SendOk, SendLost, SendFails, PostEnd, Signal, Subscribe, Refuse, Disconnect,
       vars, loop
  <2>. QED
    BY <2>1 DEF TypeInv, TypeOK
<1>6. hdr' \in Header
  <2>1. CASE \E t \in Thread : MarshalStamp(t) \/ MarshalBody(t)
    BY <2>1, HeaderType
  <2>2. CASE hdr' = hdr
    BY <2>2 DEF TypeInv, TypeOK
  <2>3. CASE hdr' = Blank
    BY <2>3 DEF Blank, Header
  <2>. QED
    BY <2>1, <2>2, <2>3 DEF Next, Update, Take, Wait, PostBegin, SkipSlot, SendOk, SendLost,
       SendFails, PostEnd, Signal, Subscribe, Refuse, Disconnect, vars
<1>7. last' \in 0 .. Slots
  <2>1. CASE \E c \in Client : Subscribe(c)
    <3>1. SlotFor \in Slot /\ last' = SlotFor + 1
      BY <2>1, FreeSlot DEF Subscribe, FreeSlots
    <3>. QED
      BY <3>1, EventsAssumption DEF Slot
  <2>2. CASE last' = last
    BY <2>2 DEF TypeInv, TypeOK
  <2>. QED
    BY <2>1, <2>2 DEF Next, Update, Take, MarshalStamp, MarshalBody, Wait, PostBegin,
       SkipSlot, SendOk, SendLost, SendFails, PostEnd, Signal, Refuse, Disconnect,
       vars, table
<1>8. conn' \in [Client -> {"new", "open", "closed"}]
  BY DEF TypeInv, TypeOK, Next, Update, Take, MarshalStamp, MarshalBody,
     Wait, PostBegin, SkipSlot, SendOk, SendLost, SendFails, PostEnd, Signal,
     Subscribe, Refuse, Disconnect, vars, clients
<1>9. received' \in [Client -> Seq(Message)]
  <2>1. CASE \E t \in Thread : SendOk(t)
    BY <2>1, SendType
  <2>2. CASE received' = received
    BY <2>2 DEF TypeInv, TypeOK, Message
  <2>. QED
    BY <2>1, <2>2 DEF Next, Update, Take, MarshalStamp, MarshalBody, Wait, PostBegin,
       SkipSlot, SendLost, SendFails, PostEnd, Signal, Subscribe, Refuse, Disconnect,
       vars, clients
<1>10. TypeOK'
  <2>1. num' \in Int
    BY <1>3
  <2>. QED
    BY <1>2, <1>4, <1>5, <1>6, <1>7, <1>8, <1>9, <2>1, Zenon DEF TypeOK, Where, Message
<1>. QED
  BY <1>1, <1>10 DEF TypeInv

(* The variables of the waiting line, of the table and of the clients keep *)
(* their types, the header and the received messages included.             *)
THEOREM EventsTypeCorrect == Spec => []TypeOK
<1>1. Init => TypeInv
  BY InitLine, InitTable, InitType DEF TypeInv
<1>. QED
  BY <1>1, NextType, PTL DEF Spec, TypeInv
-----------------------------------------------------------------------------
(* What a client has received when a turn is under way: the update of this *)
(* turn if the loop has passed its slot, else that of the turn before.     *)
Passed(k)   == \E t \in Thread : pc[t] = "posted" \/ (pc[t] = "post" /\ k < i)
LastTurn(c) == received[c][Len(received[c])].turn
Served(k)   == conn[slots[k]] = "open" /\ received[slots[k]] # << >>

OneSlot == \A k, m \in Live : slots[k] = slots[m] => k = m

NewUnserved == \A c \in Client : conn[c] = "new" =>
                 received[c] = << >> /\ \A k \in Slot : slots[k] # c

UpToDate == \A k \in Live : Served(k) =>
              LastTurn(slots[k]) = IF Passed(k) THEN current ELSE current - 1

TurnInv == OneSlot /\ NewUnserved /\ UpToDate /\ OnePerTurn

LEMMA InitTurn == Init => TurnInv
<1>. SUFFICES ASSUME Init PROVE TurnInv
  OBVIOUS
<1>1. Live = {}
  BY DEF Init, Live
<1>2. \A c \in Client : received[c] = << >>
  BY DEF Init
<1>3. \A c \in Client, k \in Slot : slots[k] # c
  BY EventsAssumption DEF Init
<1>4. OnePerTurn
  BY <1>2 DEF OnePerTurn
<1>. QED
  BY <1>1, <1>2, <1>3, <1>4 DEF TurnInv, OneSlot, NewUnserved, UpToDate

(* A step that sends nothing and gives no slot out.                        *)
LEMMA QuietTurn ==
  ASSUME TypeInv, TurnInv, received' = received,
         \A k \in Slot : slots'[k] = slots[k] \/ slots'[k] = None,
         \A c \in Client : conn'[c] = conn[c] \/ conn'[c] = "closed",
         \A k \in Live' : Served(k) =>
           \/ current' = current /\ (Passed(k)' <=> Passed(k))
           \/ current' = current + 1 /\ Passed(k) /\ ~Passed(k)'
  PROVE  TurnInv'
<1>1. \A k \in Live' : k \in Live /\ slots'[k] = slots[k] /\ slots[k] \in Client
  BY DEF Live, TypeInv, TableInv
<1>2. OneSlot'
  BY <1>1 DEF TurnInv, OneSlot
<1>3. NewUnserved'
  BY EventsAssumption DEF TurnInv, NewUnserved
<1>4. ASSUME NEW k \in Live', Served(k)'
      PROVE  LastTurn(slots[k])' = IF Passed(k)' THEN current' ELSE current' - 1
  <2>1. /\ Served(k) /\ slots'[k] = slots[k] /\ k \in Live
    BY <1>1, <1>4 DEF Served
  <2>2. LastTurn(slots[k]) = IF Passed(k) THEN current ELSE current - 1
    BY <2>1 DEF TurnInv, UpToDate
  <2>3. LastTurn(slots[k])' = LastTurn(slots[k])
    BY <2>1 DEF LastTurn
  <2>4. current \in Nat
    BY DEF TypeInv, LineInv, LineType
  <2>. QED
    BY <2>1, <2>2, <2>3, <2>4
<1>5. UpToDate'
  BY <1>1, <1>4 DEF UpToDate, LastTurn
<1>6. OnePerTurn'
  BY DEF TurnInv, OnePerTurn
<1>. QED
  BY <1>2, <1>3, <1>5, <1>6 DEF TurnInv

(* The number of the turn goes to the client of slot i, and to no other.   *)
LEMMA SendTurn ==
  ASSUME TypeInv, TurnInv, NEW t \in Thread, SendOk(t)
  PROVE  TurnInv'
<1>. DEFINE c == slots[i]
            m == [turn |-> ticket[t], stamp |-> hdr.stamp]
<1>1. /\ pc[t] = "post" /\ left # 0 /\ slots[i] # None /\ conn[c] = "open"
      /\ i' = i + 1 /\ UNCHANGED <<current, pc, slots, conn>>
  BY DEF SendOk, tickets, table
<1>2. i \in Slot /\ i \in Live
  BY <1>1, LoopSlot DEF TypeInv, Live
<1>3. /\ c \in Client /\ m \in Message
      /\ received' = [received EXCEPT ![c] = Append(@, m)]
  BY SendType
<1>4. received \in [Client -> Seq(Message)] /\ received[c] \in Seq(Message)
  BY <1>3 DEF TypeInv, TypeOK, Message
<1>5. m.turn = current /\ current \in Nat
  BY <1>1 DEF TypeInv, LineInv, LineType, OneTurn, InTurn
<1>6. ~Passed(i)
  <2>1. \A u \in Thread : InTurn(u) => u = t
    BY <1>1 DEF TypeInv, LineInv, OneTurn, InTurn
  <2>2. ~(i < i)
    BY <1>2, EventsAssumption DEF Slot
  <2>. QED
    BY <1>1, <2>1, <2>2 DEF Passed, InTurn
<1>7. received[c] # << >> => LastTurn(c) = current - 1
  BY <1>1, <1>2, <1>6 DEF TurnInv, UpToDate, Served
<1>. HIDE DEF m
<1>8. /\ received'[c] = Append(received[c], m)
      /\ \A d \in Client : d # c => received'[d] = received[d]
  BY <1>3, <1>4
<1>9. /\ Len(received'[c]) = Len(received[c]) + 1
      /\ received'[c][Len(received[c]) + 1] = m
      /\ \A k \in 1 .. Len(received[c]) : received'[c][k] = received[c][k]
  BY <1>3, <1>4, <1>8
<1>10. Len(received[c]) \in Nat /\ (Len(received[c]) # 0 => received[c] # << >>)
  BY <1>4
<1>11. OnePerTurn'
  <2>1. ASSUME NEW k \in 1 .. Len(received[c])
        PROVE  received'[c][k + 1].turn = received'[c][k].turn + 1
    <3>1. CASE k = Len(received[c])
      <4>1. received'[c][k].turn = current - 1
        BY <1>7, <1>9, <1>10, <3>1 DEF LastTurn
      <4>2. received'[c][k + 1].turn = current
        BY <1>5, <1>9, <3>1
      <4>. QED
        BY <1>5, <4>1, <4>2
    <3>2. CASE k # Len(received[c])
      <4>1. k \in 1 .. Len(received[c]) - 1 /\ k + 1 \in 1 .. Len(received[c])
        BY <1>10, <3>2
      <4>2. received[c][k + 1].turn = received[c][k].turn + 1
        BY <1>3, <4>1 DEF TurnInv, OnePerTurn
      <4>. QED
        BY <1>9, <4>1, <4>2
    <3>. QED
      BY <3>1, <3>2
  <2>2. \A k \in 1 .. Len(received'[c]) - 1 : k \in 1 .. Len(received[c])
    BY <1>9, <1>10
  <2>3. ASSUME NEW d \in Client, NEW k \in 1 .. Len(received'[d]) - 1
        PROVE  received'[d][k + 1].turn = received'[d][k].turn + 1
    <3>1. CASE d = c
      BY <2>1, <2>2, <3>1
    <3>2. CASE d # c
      <4>1. received'[d] = received[d]
        BY <1>8, <3>2
      <4>. QED
        BY <4>1 DEF TurnInv, OnePerTurn
    <3>. QED
      BY <3>1, <3>2
  <2>. QED
    BY <2>3 DEF OnePerTurn
<1>12. UpToDate'
  <2>1. ASSUME NEW k \in Live, Served(k)'
        PROVE  LastTurn(slots[k])' = IF Passed(k)' THEN current ELSE current - 1
    <3>1. CASE k = i
      <4>1. Passed(k)'
        BY <1>1, <1>2, <3>1, EventsAssumption DEF Passed, Slot
      <4>2. slots'[k] = c
        BY <1>1, <3>1
      <4>3. LastTurn(slots[k])' = received'[c][Len(received'[c])].turn
        BY <4>2 DEF LastTurn
      <4>4. received'[c][Len(received'[c])].turn = current
        BY <1>5, <1>9
      <4>. QED
        BY <4>1, <4>3, <4>4
    <3>2. CASE k # i
      <4>1. slots[k] # c /\ slots[k] \in Client
        BY <1>2, <3>2 DEF TurnInv, OneSlot, TypeInv, TableInv, Live
      <4>2. received'[slots[k]] = received[slots[k]]
        BY <1>8, <4>1
      <4>3. k < i + 1 <=> k < i
        BY <1>2, <3>2, EventsAssumption DEF Live, Slot
      <4>4. Passed(k)' <=> Passed(k)
        BY <1>1, <4>3 DEF Passed
      <4>5. Served(k) /\ LastTurn(slots[k])' = LastTurn(slots[k])
        BY <1>1, <2>1, <4>2 DEF Served, LastTurn
      <4>. QED
        BY <4>4, <4>5 DEF TurnInv, UpToDate
    <3>. QED
      BY <3>1, <3>2
  <2>2. Live' = Live
    BY <1>1 DEF Live
  <2>. QED
    BY <1>1, <2>1, <2>2 DEF UpToDate, LastTurn
<1>13. OneSlot'
  BY <1>1 DEF TurnInv, OneSlot, Live
<1>14. NewUnserved'
  BY <1>1, <1>8 DEF TurnInv, NewUnserved
<1>. QED
  BY <1>11, <1>12, <1>13, <1>14 DEF TurnInv

(* A subscriber that is recorded has received nothing.                     *)
LEMMA SubscribeTurn ==
  ASSUME TypeInv, TurnInv, NEW c \in Client, Subscribe(c)
  PROVE  TurnInv'
<1>1. /\ conn[c] = "new" /\ conn' = [conn EXCEPT ![c] = "open"]
      /\ slots' = [slots EXCEPT ![SlotFor] = c]
      /\ UNCHANGED <<current, pc, i, received>>
  BY DEF Subscribe, tickets, loop
<1>2. SlotFor \in Slot /\ SlotFor \notin Live
  BY FreeSlot DEF Subscribe, FreeSlots
<1>3. received[c] = << >> /\ \A k \in Slot : slots[k] # c
  BY <1>1 DEF TurnInv, NewUnserved
<1>4. slots \in [Slot -> Client \cup {None}] /\ conn \in [Client -> {"new", "open", "closed"}]
  BY DEF TypeInv, TypeOK
<1>5. \A k \in Live' : \/ k = SlotFor /\ slots'[k] = c
                       \/ k \in Live /\ slots'[k] = slots[k]
  <2>1. \A k \in Slot : slots'[k] = IF k = SlotFor THEN c ELSE slots[k]
    BY <1>1, <1>4
  <2>. QED
    BY <2>1 DEF Live
<1>6. OneSlot'
  BY <1>3, <1>5 DEF TurnInv, OneSlot, Live
<1>7. NewUnserved'
  BY <1>1, <1>2, <1>4 DEF TurnInv, NewUnserved
<1>8. ASSUME NEW k \in Live', Served(k)'
      PROVE  LastTurn(slots[k])' = IF Passed(k)' THEN current' ELSE current' - 1
  <2>1. slots'[k] # c
    BY <1>1, <1>3, <1>8 DEF Served
  <2>2. k \in Live /\ slots'[k] = slots[k] /\ slots[k] # c /\ slots[k] \in Client
    BY <1>4, <1>5, <2>1 DEF Live
  <2>3. Served(k) /\ LastTurn(slots[k])' = LastTurn(slots[k])
    BY <1>1, <1>4, <1>8, <2>2 DEF Served, LastTurn
  <2>4. Passed(k)' <=> Passed(k)
    BY <1>1 DEF Passed
  <2>. QED
    BY <1>1, <2>2, <2>3, <2>4 DEF TurnInv, UpToDate
<1>9. UpToDate'
  BY <1>8 DEF UpToDate, LastTurn
<1>10. OnePerTurn'
  BY <1>1 DEF TurnInv, OnePerTurn
<1>. QED
  BY <1>6, <1>7, <1>9, <1>10 DEF TurnInv

(* The other steps of a thread: how far the loop is for a live slot does   *)
(* not change but at the end of the turn.                                  *)
LEMMA ThreadTurn ==
  ASSUME TypeInv, TurnInv, NEW t \in Thread, Take(t) \/ Update(t), ~SendOk(t)
  PROVE  TurnInv'
<1>. USE DEF TypeInv
<1>1. pc \in [Thread -> Where] /\ \A u \in Thread : InTurn(t) /\ InTurn(u) => u = t
  BY DEF LineInv, LineType, OneTurn
<1>2. CASE Take(t) \/ MarshalStamp(t) \/ MarshalBody(t) \/ Wait(t)
  <2>1. /\ received' = received /\ slots' = slots /\ conn' = conn /\ current' = current /\ i' = i
        /\ pc[t] \notin {"post", "posted"}
        /\ \E w \in {"stamp", "body", "wait", "turn"} : pc' = [pc EXCEPT ![t] = w]
    BY <1>2 DEF Take, MarshalStamp, MarshalBody, Wait, tickets, table, loop, clients
  <2>2. \A k \in Slot : Passed(k)' <=> Passed(k)
    BY <1>1, <2>1 DEF Passed
  <2>. QED
    BY <2>1, <2>2, QuietTurn DEF Live
<1>3. CASE PostBegin(t)
  <2>1. /\ received' = received /\ slots' = slots /\ conn' = conn /\ current' = current
        /\ i' = 0 /\ pc[t] = "turn" /\ pc' = [pc EXCEPT ![t] = "post"]
    BY <1>3 DEF PostBegin, tickets, table, clients
  <2>2. \A u \in Thread : pc[u] \notin {"post", "posted"}
    BY <1>1, <2>1 DEF InTurn
  <2>3. \A k \in Slot : ~(k < 0)
    BY EventsAssumption DEF Slot
  <2>4. \A k \in Slot : ~Passed(k)' /\ ~Passed(k)
    BY <1>1, <2>1, <2>2, <2>3 DEF Passed
  <2>. QED
    BY <2>1, <2>4, QuietTurn DEF Live
<1>4. CASE SkipSlot(t) \/ SendLost(t) \/ SendFails(t)
  <2>1. /\ received' = received /\ conn' = conn /\ current' = current
        /\ pc[t] = "post" /\ left # 0 /\ i' = i + 1 /\ pc' = pc
        /\ slots' = slots \/ slots' = [slots EXCEPT ![i] = None]
        /\ slots[i] = None \/ conn[slots[i]] = "closed"
    BY <1>4 DEF SkipSlot, SendLost, SendFails, tickets, table, clients
  <2>2. i \in Slot
    BY <2>1, LoopSlot
  <2>3. \A k \in Slot : slots'[k] = slots[k] \/ slots'[k] = None
    BY <2>1 DEF TableInv
  <2>4. \A k \in Live' : Served(k) => k # i
    BY <2>1, <2>2, <2>3 DEF Live, Served
  <2>5. \A k \in Slot : k # i => (k < i + 1 <=> k < i)
    BY <2>2, EventsAssumption DEF Slot
  <2>6. \A k \in Live' : Served(k) => (Passed(k)' <=> Passed(k))
    BY <2>1, <2>4, <2>5 DEF Passed, Live
  <2>. QED
    BY <2>1, <2>3, <2>6, QuietTurn
<1>5. CASE PostEnd(t)
  <2>1. /\ received' = received /\ slots' = slots /\ conn' = conn /\ current' = current
        /\ pc[t] = "post" /\ left = 0 /\ pc' = [pc EXCEPT ![t] = "posted"]
    BY <1>5 DEF PostEnd, tickets, table, clients
  <2>2. Ahead = {}
    <3>1. subLock # None
      BY <2>1, EventsAssumption DEF TableInv
    <3>2. Cardinality(Ahead) = 0
      BY <2>1, <3>1 DEF TableInv, PostInBounds, Ahead
    <3>. QED
      BY <3>2, LiveFinite, FS_EmptySet
  <2>3. \A k \in Live : k < i
    BY <2>2, EventsAssumption DEF Ahead, Live, Slot, TableInv
  <2>4. \A k \in Live : Passed(k)' /\ Passed(k)
    BY <1>1, <2>1, <2>3 DEF Passed
  <2>5. Live' = Live
    BY <2>1 DEF Live
  <2>. QED
    BY <2>1, <2>4, <2>5, QuietTurn
<1>6. CASE Signal(t)
  <2>1. /\ received' = received /\ slots' = slots /\ conn' = conn /\ current' = current + 1
        /\ pc[t] = "posted" /\ pc' = [pc EXCEPT ![t] = "idle"]
    BY <1>6 DEF Signal, table, clients
  <2>2. \A u \in Thread : u # t => pc[u] \notin {"post", "posted"}
    BY <1>1, <2>1 DEF InTurn
  <2>3. \A k \in Slot : Passed(k) /\ ~Passed(k)'
    BY <1>1, <2>1, <2>2 DEF Passed
  <2>. QED
    BY <2>1, <2>3, QuietTurn DEF Live
<1>. QED
  BY <1>2, <1>3, <1>4, <1>5, <1>6 DEF Update

LEMMA NextTurn == TypeInv /\ TurnInv /\ [Next]_vars => TurnInv'
<1>. SUFFICES ASSUME TypeInv, TurnInv, [Next]_vars PROVE TurnInv'
  OBVIOUS
<1>1. CASE \E t \in Thread : Take(t) \/ Update(t)
  BY <1>1, SendTurn, ThreadTurn
<1>2. CASE \E c \in Client : Subscribe(c)
  BY <1>2, SubscribeTurn
<1>3. CASE UNCHANGED vars \/ \E c \in Client : Refuse(c) \/ Disconnect(c)
  <2>1. /\ UNCHANGED <<current, pc, slots, i, received>>
        /\ \A c \in Client : conn'[c] = conn[c] \/ conn'[c] = "closed"
    BY <1>3 DEF vars, tickets, table, loop, clients, Refuse, Disconnect, TypeInv, TypeOK
  <2>2. \A k \in Slot : Passed(k)' <=> Passed(k)
    BY <2>1 DEF Passed
  <2>. QED
    BY <2>1, <2>2, QuietTurn DEF Live
<1>. QED
  BY <1>1, <1>2, <1>3 DEF Next

(* Whoever comes and goes, a client gets one message in each turn from its *)
(* first one on: the turns of two that follow each other are consecutive.  *)
THEOREM EveryTurnOnce == Spec => []OnePerTurn
<1>1. Init => TypeInv /\ TurnInv
  BY InitLine, InitTable, InitType, InitTurn DEF TypeInv
<1>2. Spec => [](TypeInv /\ TurnInv)
  BY <1>1, NextType, NextTurn, PTL DEF Spec
<1>. QED
  BY <1>2, PTL DEF TurnInv
=============================================================================
