------------------------------- MODULE Events -------------------------------
(***************************************************************************)
(* How the updates of the handler threads reach the event connections:     *)
(* doUpdateClients of server.c, the ticket numbers of game_server.c, and   *)
(* the subscriber table and the post loop of protocol_server.c.            *)
(*                                                                         *)
(* A handler thread that changed the game holds the ticket it took with    *)
(* maze_next_read_then_increment.  It writes its update into the header of *)
(* the one event session, which no lock protects, waits for its turn,      *)
(* posts the header to every subscriber and lets the next ticket in.  The  *)
(* header is written in two steps, the number of the update and the rest:  *)
(* another thread may write, send or clear it in between.                  *)
(***************************************************************************)
EXTENDS Integers, Sequences, FiniteSetsExt

CONSTANTS
  None,          \* a free slot (-1), no thread
  Thread,        \* the dispatcher threads of the RPC connections
  Client,        \* the event connections
  Slots,         \* PROTO_SERVER_MAX_EVENT_SUBSCRIBERS
  Limit          \* bound on the tickets of a run

VARIABLES
  next,          \* maze->next
  current,       \* maze->current
  pc,            \* where a thread is in doUpdateClients
  ticket,        \* update->timestamp
  hdr,           \* EventSession.shdr
  slots, num, last,   \* EventSubscribers, EventNumSubscribers, EventLastSubscriber
  subLock,       \* the owner of EventSubscribersLock
  i, left,       \* the variables of the loop of proto_server_post_event
  conn,          \* a client is "new", "open" or "closed"
  received       \* the numbers sent to a client, and in whose turn

tickets == <<next, current, ticket>>
table   == <<slots, num, last>>
loop    == <<subLock, i, left>>
clients == <<conn, received>>
vars == <<tickets, pc, hdr, table, loop, clients>>

ASSUME EventsAssumption ==
  /\ None \notin Thread \cup Client
  /\ Slots \in Nat \ {0} /\ Limit \in Nat

Ticket == 0 .. Limit - 1
Slot   == 0 .. Slots - 1

(* A header as reset_send leaves it: its type is no event's and clients    *)
(* ignore it.  The fields are the number and the author of the rest.       *)
Blank  == [stamp |-> -1, body |-> -1]
Header == [stamp : Ticket \cup {-1}, body : Ticket \cup {-1}]

(* The holder of current_lock: server_update_wait returns with it.         *)
InTurn(t) == pc[t] \in {"turn", "post", "posted"}
Busy(t)   == pc[t] # "idle"
Live      == { k \in Slot : slots[k] # None }
-----------------------------------------------------------------------------
(* Mutant: the request fails after it has taken a number.                  *)
TakeLost(t) ==
  /\ pc[t] = "idle" /\ next < Limit
  /\ ticket' = [ticket EXCEPT ![t] = next] /\ next' = next + 1
  /\ UNCHANGED <<current, pc, hdr, table, loop, clients>>

(* A request succeeds and takes a number (maze_next_read_then_increment).  *)
Take(t) ==
  /\ pc[t] = "idle" /\ next < Limit
  /\ ticket' = [ticket EXCEPT ![t] = next]
  /\ next' = next + 1
  /\ pc' = [pc EXCEPT ![t] = "stamp"]
  /\ UNCHANGED <<current, hdr, table, loop, clients>>

(* proto_session_hdr_marshall: the type and the number, then the rest.     *)
MarshalStamp(t) ==
  /\ pc[t] = "stamp"
  /\ hdr' = [hdr EXCEPT !.stamp = ticket[t]]
  /\ pc' = [pc EXCEPT ![t] = "body"]
  /\ UNCHANGED <<tickets, table, loop, clients>>

MarshalBody(t) ==
  /\ pc[t] = "body"
  /\ hdr' = [hdr EXCEPT !.body = ticket[t]]
  /\ pc' = [pc EXCEPT ![t] = "wait"]
  /\ UNCHANGED <<tickets, table, loop, clients>>

(* Mutant: the first thread that gets the lock goes on.                    *)
WaitForLock(t) ==
  /\ pc[t] = "wait" /\ \A u \in Thread : ~InTurn(u)
  /\ pc' = [pc EXCEPT ![t] = "turn"]
  /\ UNCHANGED <<tickets, hdr, table, loop, clients>>

(* server_update_wait: a thread that finds another number sleeps on the    *)
(* condition, and every signal wakes all of them.                          *)
Wait(t) ==
  /\ pc[t] = "wait" /\ \A u \in Thread : ~InTurn(u)
  /\ current = ticket[t]
  /\ pc' = [pc EXCEPT ![t] = "turn"]
  /\ UNCHANGED <<tickets, hdr, table, loop, clients>>

PostBegin(t) ==
  /\ pc[t] = "turn" /\ subLock = None
  /\ subLock' = t /\ i' = 0 /\ left' = num
  /\ pc' = [pc EXCEPT ![t] = "post"]
  /\ UNCHANGED <<tickets, hdr, table, clients>>

(* Mutant: a free slot counts as a subscriber.                             *)
SkipSlotCounted(t) ==
  /\ pc[t] = "post" /\ left # 0 /\ slots[i] = None
  /\ i' = i + 1 /\ left' = left - 1
  /\ UNCHANGED <<tickets, pc, hdr, table, subLock, clients>>

(* The ways through the body of the loop.  The kernel may still accept a   *)
(* send on a connection that the peer has closed.                          *)
SkipSlot(t) ==
  /\ pc[t] = "post" /\ left # 0 /\ slots[i] = None
  /\ i' = i + 1
  /\ UNCHANGED <<tickets, pc, hdr, table, subLock, left, clients>>

SendOk(t) ==
  /\ pc[t] = "post" /\ left # 0 /\ slots[i] # None
  /\ conn[slots[i]] = "open"
  /\ received' = [received EXCEPT ![slots[i]] =
                    Append(@, [turn |-> ticket[t], stamp |-> hdr.stamp])]
  /\ i' = i + 1 /\ left' = left - 1
  /\ UNCHANGED <<tickets, pc, hdr, table, subLock, conn>>

SendLost(t) ==
  /\ pc[t] = "post" /\ left # 0 /\ slots[i] # None
  /\ conn[slots[i]] = "closed"
  /\ i' = i + 1 /\ left' = left - 1
  /\ UNCHANGED <<tickets, pc, hdr, table, subLock, clients>>

(* Mutant: a subscriber that is dropped stays counted.                     *)
SendFailsCounted(t) ==
  /\ pc[t] = "post" /\ left # 0 /\ slots[i] # None
  /\ conn[slots[i]] = "closed"
  /\ slots' = [slots EXCEPT ![i] = None]
  /\ i' = i + 1 /\ left' = left - 1
  /\ UNCHANGED <<tickets, pc, hdr, num, last, subLock, clients>>

SendFails(t) ==
  /\ pc[t] = "post" /\ left # 0 /\ slots[i] # None
  /\ conn[slots[i]] = "closed"
  /\ slots' = [slots EXCEPT ![i] = None] /\ num' = num - 1
  /\ i' = i + 1 /\ left' = left - 1
  /\ UNCHANGED <<tickets, pc, hdr, last, subLock, clients>>

(* proto_session_reset_send after the last subscriber.                     *)
PostEnd(t) ==
  /\ pc[t] = "post" /\ left = 0
  /\ hdr' = Blank /\ subLock' = None /\ i' = 0 /\ left' = 0
  /\ pc' = [pc EXCEPT ![t] = "posted"]
  /\ UNCHANGED <<tickets, table, clients>>

(* Mutants: the number is not advanced, or advanced past those who wait.   *)
SignalNobody(t) ==
  /\ pc[t] = "posted" /\ pc' = [pc EXCEPT ![t] = "idle"]
  /\ UNCHANGED <<tickets, hdr, table, loop, clients>>
SignalLatest(t) ==
  /\ pc[t] = "posted" /\ pc' = [pc EXCEPT ![t] = "idle"] /\ current' = next
  /\ UNCHANGED <<next, ticket, hdr, table, loop, clients>>

(* server_update_signal.                                                   *)
Signal(t) ==
  /\ pc[t] = "posted"
  /\ current' = current + 1
  /\ pc' = [pc EXCEPT ![t] = "idle"]
  /\ UNCHANGED <<next, ticket, hdr, table, loop, clients>>
-----------------------------------------------------------------------------
(* proto_server_record_event_subscriber: the slot after the last one       *)
(* given out, or else the first free slot.                                 *)
FreeSlots == Slot \ Live
SlotAfterLast == last        \* mutant: slots are not given out again
SlotFor   == IF last \in FreeSlots THEN last ELSE Min(FreeSlots)

Subscribe(c) ==
  /\ conn[c] = "new" /\ subLock = None /\ FreeSlots # {}
  /\ conn' = [conn EXCEPT ![c] = "open"]
  /\ slots' = [slots EXCEPT ![SlotFor] = c]
  /\ num' = num + 1 /\ last' = SlotFor + 1
  /\ UNCHANGED <<tickets, pc, hdr, loop, received>>

(* proto_server_event_listen closes a connection it has no slot for.       *)
Refuse(c) ==
  /\ conn[c] = "new" /\ subLock = None /\ FreeSlots = {}
  /\ conn' = [conn EXCEPT ![c] = "closed"]
  /\ UNCHANGED <<tickets, pc, hdr, table, loop, received>>

(* A client goes away; the server learns it from the next send.            *)
Disconnect(c) ==
  /\ conn[c] = "open"
  /\ conn' = [conn EXCEPT ![c] = "closed"]
  /\ UNCHANGED <<tickets, pc, hdr, table, loop, received>>
-----------------------------------------------------------------------------
Init ==
  /\ next = 0 /\ current = 0
  /\ pc = [t \in Thread |-> "idle"]
  /\ ticket = [t \in Thread |-> 0]
  /\ hdr = Blank
  /\ slots = [k \in Slot |-> None] /\ num = 0 /\ last = 0
  /\ subLock = None /\ i = 0 /\ left = 0
  /\ conn = [c \in Client |-> "new"]
  /\ received = [c \in Client |-> << >>]

Update(t) == \/ MarshalStamp(t) \/ MarshalBody(t) \/ Wait(t)
             \/ PostBegin(t) \/ SkipSlot(t) \/ SendOk(t) \/ SendLost(t)
             \/ SendFails(t) \/ PostEnd(t) \/ Signal(t)

Next == \/ \E t \in Thread : Take(t) \/ Update(t)
        \/ \E c \in Client : Subscribe(c) \/ Refuse(c) \/ Disconnect(c)

(* A thread that has begun an update keeps running: nothing in             *)
(* doUpdateClients returns early.  A send ends, since the peer reads or    *)
(* the connection breaks.                                                  *)
Fairness == \A t \in Thread : WF_vars(Update(t))

Spec == Init /\ [][Next]_vars /\ Fairness
-----------------------------------------------------------------------------
TypeOK ==
  /\ next \in 0 .. Limit /\ current \in 0 .. Limit
  /\ pc \in [Thread -> {"idle", "stamp", "body", "wait", "turn", "post", "posted"}]
  /\ ticket \in [Thread -> Nat]
  /\ hdr \in Header
  /\ slots \in [Slot -> Client \cup {None}]
  /\ num \in Int /\ last \in 0 .. Slots
  /\ subLock \in Thread \cup {None}
  /\ i \in Nat /\ left \in Int
  /\ conn \in [Client -> {"new", "open", "closed"}]
  /\ received \in [Client -> Seq([turn : Nat, stamp : Ticket \cup {-1}])]

(* Every number that was handed out and not yet called is held by exactly  *)
(* one thread that is still on its way, so that no update waits for a      *)
(* number nobody will post.                                                *)
TicketsAccounted ==
  /\ \A t \in Thread : Busy(t) => ticket[t] \in current .. next - 1
  /\ \A t, u \in Thread : Busy(t) /\ Busy(u) /\ ticket[t] = ticket[u] => t = u
  /\ \A k \in current .. next - 1 : \E t \in Thread : Busy(t) /\ ticket[t] = k

(* One thread posts at a time, and it is the one whose turn it is.         *)
OneTurn ==
  /\ \A t, u \in Thread : InTurn(t) /\ InTurn(u) => t = u
  /\ \A t \in Thread : InTurn(t) => ticket[t] = current

(* The loop of post_event counts live slots down and has no other bound:   *)
(* it stays within the table because as many live slots as it still counts *)
(* lie ahead.                                                              *)
PostInBounds ==
  subLock # None => left = Cardinality({ k \in Live : k >= i })

(* A client gets exactly one message per turn from its first one on,       *)
(* whoever else comes and goes meanwhile.                                  *)
OnePerTurn ==
  \A c \in Client : \A k \in 1 .. Len(received[c]) - 1 :
    received[c][k + 1].turn = received[c][k].turn + 1

(* server.c:147 "call wait and signal helpers to ensure correct ordering": *)
(* the events a client gets are those of the turns they are sent in.       *)
EventsInOrder ==
  \A c \in Client : \A k \in 1 .. Len(received[c]) :
    received[c][k].stamp = received[c][k].turn

(* Every update that was begun is posted and its thread replies.           *)
UpdatesEnd == \A t \in Thread : Busy(t) ~> ~Busy(t)

(* The waiting line (module Turnstile): the numbers are called in order,   *)
(* and all of them are called.                                             *)
T == INSTANCE Turnstile WITH issued <- next, served <- current
TurnstileSpec == T!Spec
=============================================================================
