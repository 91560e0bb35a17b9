------------------------------- MODULE Client -------------------------------
(***************************************************************************)
(* The threads of one client (client.c, game_client.c, protocol_client.c,  *)
(* the keys of uistandalone.c).  The shell and the user interface send     *)
(* requests over one RPC session; the event thread applies the updates     *)
(* that the server posts on the other connection.  A request for an action *)
(* is made with the lock of the maze held and returns when the update it   *)
(* caused has been applied: the reply carries the number of that update,   *)
(* each event carries its own, and a condition variable joins the two.     *)
(*                                                                         *)
(* The server is reduced to what the client sees of module Events: updates *)
(* are posted in the order of their numbers, and a request that succeeds   *)
(* is answered after its update is posted.                                 *)
(***************************************************************************)
EXTENDS Integers, Sequences

CONSTANTS
  User,          \* the threads that issue requests
  Limit,         \* bound on the updates of the server
  Buffer         \* how many events the event connection holds

VARIABLES
  posted,        \* updates posted so far; the next one has this number
  registered,    \* the server has a player for this connection
  subscribed,    \* the event connection: "none", "asked", "yes", "refused"
  wire,          \* the numbers of the events on their way
  requests, replies,  \* the RPC connection
  connected,     \* C->connected
  me,            \* C->my_player: NULL, the one the server gave, another one
  reply,         \* the last message received on the RPC session
  ec, rpc,       \* EC_update_id and RPC_update_id of the blocking helper
  owner,         \* the thread that holds maze_lock
  waiting,       \* the threads that sleep on maze_updated
  pc, cmd,       \* where a user thread is, and in which command
  evpc, event,   \* where the event thread is, and the number it received
  alive,         \* FALSE after a null pointer is followed
  own            \* the number of the last update this client's actions caused

server  == <<posted, registered, wire, own>>
link    == <<requests, replies>>
helper  == <<ec, rpc>>
lock    == <<owner, waiting>>
evthread == <<evpc, event>>
vars == <<server, subscribed, link, connected, me, reply, helper, lock,
          pc, cmd, evthread, alive>>

Nobody == "nobody"
Event  == "event"

ASSUME ClientAssumption ==
  /\ User \subseteq {"shell", "ui"}
  /\ Limit \in Nat /\ Buffer \in Nat \ {0}

Command == {"none", "connect", "hello", "action", "goodbye", "unknown",
            "move", "hand", "join"}
Issued(u) == IF u = "shell"
             THEN {"connect", "hello", "action", "goodbye", "unknown"}
             ELSE {"move", "hand", "join"}

(* The commands that run with the lock held and wait for their update.     *)
Locks(k) == k \in {"action", "move", "hand"}

Message == [type : {"none", "sync", "hello", "action", "goodbye"},
            id   : Int]             \* for a hello: 0, or -1 if it is refused
NoMessage == [type |-> "none", id |-> 0]

Goto(u, l) == pc' = [pc EXCEPT ![u] = l]
-----------------------------------------------------------------------------
(* docmd and ui_keypress.  The keys do nothing before there is a player.   *)
(* A run connects once.                                                    *)
Issue(u, k) ==
  /\ alive /\ pc[u] = "idle" /\ k \in Issued(u)
  /\ IF u = "ui" THEN me # "null"
     ELSE IF k = "connect" THEN subscribed = "none" ELSE connected
  /\ cmd' = [cmd EXCEPT ![u] = k]
  /\ Goto(u, CASE Locks(k) -> "lock" [] k = "unknown" -> "got" [] OTHER -> "send")
  /\ connected' = (connected \/ k = "connect")
  /\ subscribed' = IF k = "connect" THEN "asked" ELSE subscribed
  /\ evpc' = IF k = "connect" THEN "read" ELSE evpc
  /\ UNCHANGED <<server, link, me, reply, helper, lock, event, alive>>

Lock(u) ==
  /\ alive /\ pc[u] = "lock" /\ owner = Nobody
  /\ owner' = u
  /\ Goto(u, "send")
  /\ UNCHANGED <<server, subscribed, link, connected, me, reply, helper, waiting,
                 cmd, evthread, alive>>

(* The client sees a wall ahead and has no shovel: the shell returns, a    *)
(* key goes on to the loop that waits.                                     *)
Wall(u) ==
  /\ alive /\ pc[u] = "send" /\ cmd[u] \in {"action", "move"} /\ me # "null"
  /\ IF u = "shell" THEN /\ owner' = Nobody /\ Goto(u, "idle")
                    ELSE /\ UNCHANGED owner /\ Goto(u, "wait")
  /\ UNCHANGED <<server, subscribed, link, connected, me, reply, helper, waiting,
                 cmd, evthread, alive>>

NullPlayer(u) ==
  /\ alive /\ pc[u] = "send" /\ Locks(cmd[u]) /\ me = "null"
  /\ alive' = FALSE
  /\ UNCHANGED <<server, subscribed, link, connected, me, reply, helper, lock,
                 pc, cmd, evthread>>

(* doRPCCmd: the message is sent, and the thread reads until one comes.    *)
WantedRaw(k) == k            \* mutant: the command is sent for the type
Wanted(k) == CASE k = "connect" -> "sync" [] k \in {"hello", "join"} -> "hello"
               [] k = "goodbye" -> "goodbye" [] OTHER -> "action"
Send(u) ==
  /\ alive /\ pc[u] = "send" /\ (Locks(cmd[u]) => me # "null")
  /\ requests' = Append(requests, Wanted(cmd[u]))
  /\ Goto(u, "sent")
  /\ UNCHANGED <<server, subscribed, replies, connected, me, reply, helper, lock,
                 cmd, evthread, alive>>

Receive(u) ==
  /\ alive /\ pc[u] = "sent"
  /\ \/ /\ replies # <<>>
        /\ reply' = Head(replies) /\ replies' = Tail(replies)
     \/ ~connected /\ reply' = NoMessage /\ UNCHANGED replies
  /\ Goto(u, "got")
  /\ UNCHANGED <<server, subscribed, requests, connected, me, helper, lock,
                 cmd, evthread, alive>>

(* Mutant: the number in the reply is not kept.                            *)
LearnHello ==
  /\ me' = IF reply.type # "hello" THEN me ELSE IF reply.id = 0 THEN "mine" ELSE "other"
  /\ rpc' = rpc

(* process_RPC_message, on whatever the session received last.  The client *)
(* looks for the result of a hello where the server does not put it, and   *)
(* takes a refusal for the first player of the red team.                   *)
Learn ==
  /\ me' = IF reply.type # "hello" THEN me ELSE IF reply.id = 0 THEN "mine" ELSE "other"
  /\ rpc' = IF reply.type = "action" THEN reply.id ELSE rpc

(* An unknown command leaves its request as it finds it on the stack, and  *)
(* may take it for an action; the reply to the key that picks up or drops  *)
(* is not looked at.                                                       *)
Process(u) ==
  /\ alive /\ pc[u] = "got"
  /\ IF cmd[u] = "hand" THEN UNCHANGED <<me, rpc>> ELSE Learn
  /\ \/ Locks(cmd[u]) /\ Goto(u, "wait")
     \/ ~Locks(cmd[u]) /\ Goto(u, "idle")
     \/ cmd[u] = "unknown" /\ Goto(u, "wait")
  /\ connected' = (connected /\ cmd[u] # "goodbye")
  /\ UNCHANGED <<server, subscribed, link, reply, ec, lock, cmd, evthread, alive>>

(* Mutant: the thread sleeps with the lock, as in a plain sleep.           *)
SleepLocked(u) ==
  /\ alive /\ pc[u] = "wait" /\ ec < rpc
  /\ waiting' = waiting \cup {u} /\ UNCHANGED owner
  /\ Goto(u, "asleep")
  /\ UNCHANGED <<server, subscribed, link, connected, me, reply, helper, cmd,
                 evthread, alive>>

(* The loop around client_maze_cond_wait, which gives up the lock, and the *)
(* unlock behind it; the thread may not be the one that locked.            *)
Sleep(u) ==
  /\ alive /\ pc[u] = "wait" /\ ec < rpc
  /\ waiting' = waiting \cup {u} /\ owner' = Nobody
  /\ Goto(u, "asleep")
  /\ UNCHANGED <<server, subscribed, link, connected, me, reply, helper, cmd,
                 evthread, alive>>

Wake(u) ==
  /\ alive /\ pc[u] = "asleep" /\ u \notin waiting /\ owner = Nobody
  /\ owner' = u
  /\ Goto(u, "wait")
  /\ UNCHANGED <<server, subscribed, link, connected, me, reply, helper, waiting,
                 cmd, evthread, alive>>

Return(u) ==
  /\ alive /\ pc[u] = "wait" /\ ec >= rpc
  /\ owner' = Nobody
  /\ Goto(u, "idle")
  /\ UNCHANGED <<server, subscribed, link, connected, me, reply, helper, waiting,
                 cmd, evthread, alive>>
-----------------------------------------------------------------------------
(* The event thread: proto_client_event_dispatcher and update_handler.     *)
Still == UNCHANGED <<server, link, connected, me, reply, rpc, pc, cmd, alive>>

EvReceive ==
  /\ alive /\ evpc = "read" /\ wire # <<>>
  /\ event' = Head(wire) /\ wire' = Tail(wire)
  /\ evpc' = "lock"
  /\ UNCHANGED <<posted, registered, own, subscribed, link, connected, me, reply,
                 helper, lock, pc, cmd, alive>>

EvApply ==
  /\ alive /\ evpc = "lock" /\ owner = Nobody
  /\ owner' = Event /\ ec' = event
  /\ evpc' = "apply"
  /\ Still /\ UNCHANGED <<subscribed, waiting, event>>

(* Mutant: an update with the very number is not enough.                   *)
EvSignalNewer ==
  /\ alive /\ evpc = "apply"
  /\ IF ec > rpc /\ waiting # {} THEN \E u \in waiting : waiting' = waiting \ {u}
     ELSE UNCHANGED waiting
  /\ owner' = Nobody
  /\ evpc' = "read"
  /\ Still /\ UNCHANGED <<subscribed, ec, event>>

(* client_maze_signal wakes one thread, if any sleeps.                     *)
EvSignal ==
  /\ alive /\ evpc = "apply"
  /\ IF ec >= rpc /\ waiting # {} THEN \E u \in waiting : waiting' = waiting \ {u}
     ELSE UNCHANGED waiting
  /\ owner' = Nobody
  /\ evpc' = "read"
  /\ Still /\ UNCHANGED <<subscribed, ec, event>>

(* The connection was refused, or closed by the command "disconnect".      *)
EvLost ==
  /\ alive /\ evpc = "read"
  /\ subscribed = "refused" \/ ~connected
  /\ evpc' = "gone"
  /\ Still /\ UNCHANGED <<subscribed, ec, lock, event>>
-----------------------------------------------------------------------------
(* The server.  A post blocks while the event connection is full.          *)
Post ==
  /\ posted' = posted + 1
  /\ IF subscribed = "yes" THEN Len(wire) < Buffer /\ wire' = Append(wire, posted)
     ELSE UNCHANGED wire

ServerStill == UNCHANGED <<subscribed, connected, me, reply, helper, lock, pc, cmd,
                           evthread, alive>>

Answer(type, id) ==
  /\ requests # <<>> /\ Head(requests) = type /\ requests' = Tail(requests)
  /\ replies' = Append(replies, [type |-> type, id |-> id])
  /\ ServerStill

ServeSync == Answer("sync", 0) /\ UNCHANGED server

ServeHello ==
  /\ ~registered /\ posted < Limit
  /\ Answer("hello", 0)
  /\ Post /\ registered' = TRUE /\ UNCHANGED own

(* The list or the home is full, or the connection has a player.           *)
RefuseHello == Answer("hello", -1) /\ UNCHANGED server

ServeAction ==
  /\ registered /\ posted < Limit
  /\ Answer("action", posted)
  /\ Post /\ own' = posted /\ UNCHANGED registered

RefuseAction == Answer("action", -1) /\ UNCHANGED server

ServeGoodbye ==
  /\ Answer("goodbye", 0)
  /\ IF registered THEN Post ELSE UNCHANGED <<posted, wire>>
  /\ registered' = FALSE /\ UNCHANGED own

(* Another client's request.                                               *)
Other ==
  /\ posted < Limit
  /\ Post
  /\ UNCHANGED <<registered, own, link>> /\ ServerStill

(* The listener of the server accepts the event connection, or has no slot *)
(* for it.                                                                 *)
Subscribe ==
  /\ subscribed = "asked" /\ subscribed' \in {"yes", "refused"}
  /\ UNCHANGED <<server, link, connected, me, reply, helper, lock, pc, cmd, evthread,
                 alive>>
-----------------------------------------------------------------------------
Init ==
  /\ posted = 0 /\ registered = FALSE /\ own = -1
  /\ subscribed = "none" /\ wire = <<>>
  /\ requests = <<>> /\ replies = <<>> /\ reply = NoMessage
  /\ connected = FALSE /\ me = "null"
  /\ ec = 0 /\ rpc = 0
  /\ owner = Nobody /\ waiting = {}
  /\ pc = [u \in User |-> "idle"] /\ cmd = [u \in User |-> "none"]
  /\ evpc = "none" /\ event = -1
  /\ alive = TRUE

Go(u) == \/ Lock(u) \/ Wall(u) \/ NullPlayer(u) \/ Send(u) \/ Receive(u)
         \/ Process(u) \/ Sleep(u) \/ Wake(u) \/ Return(u)
EventThread == EvReceive \/ EvApply \/ EvSignal \/ EvLost
Serve == \/ ServeSync \/ ServeHello \/ RefuseHello \/ ServeAction \/ RefuseAction
         \/ ServeGoodbye

Next == \/ \E u \in User : \/ \E k \in Issued(u) : Issue(u, k)
                           \/ Go(u)
        \/ EventThread \/ Serve \/ Other \/ Subscribe

(* The threads of the client run, none of them is passed over for ever at  *)
(* the mutex, and the server serves what it is sent.  Nobody has to issue  *)
(* a command.                                                              *)
Fairness == /\ \A u \in User : WF_vars(Go(u)) /\ SF_vars(Lock(u)) /\ SF_vars(Wake(u))
            /\ WF_vars(EventThread) /\ SF_vars(EvApply) /\ WF_vars(Serve)

Spec == Init /\ [][Next]_vars /\ Fairness
-----------------------------------------------------------------------------
(* Every variable has its type.                                            *)
TypeOK ==
  /\ posted \in Nat /\ registered \in BOOLEAN /\ own \in Int
  /\ subscribed \in {"none", "asked", "yes", "refused"}
  /\ wire \in Seq(Nat)
  /\ requests \in Seq({"sync", "hello", "action", "goodbye"})
  /\ replies \in Seq(Message) /\ reply \in Message
  /\ connected \in BOOLEAN /\ me \in {"null", "mine", "other"}
  /\ ec \in Int /\ rpc \in Int
  /\ owner \in User \cup {Event, Nobody} /\ waiting \subseteq User
  /\ pc \in [User -> {"idle", "lock", "send", "sent", "got", "wait", "asleep"}]
  /\ cmd \in [User -> Command]
  /\ evpc \in {"none", "read", "lock", "apply", "gone"} /\ event \in Int
  /\ alive \in BOOLEAN

(* client.c:382: the thread is blocked until the update arrives.  While no *)
(* action is under way, the client has applied an update at least as new   *)
(* as the last one its own actions caused, so the next move starts from    *)
(* where the last one ended.                                               *)
OwnUpdateSeen ==
  (\A u \in User : Locks(cmd[u]) => pc[u] \in {"idle", "lock"}) => ec >= own

(* Nobody sleeps for an update that is applied already.                    *)
NoLostWakeup == waiting # {} => ec < rpc \/ evpc = "apply"

(* An action that is sent when the server knows the event connection       *)
(* returns, whatever the updates of others do meanwhile.                   *)
RequestsReturn ==
  \A u \in User : (pc[u] = "send" /\ Locks(cmd[u]) /\ subscribed = "yes")
                    ~> (pc[u] = "idle" \/ ~alive)
=============================================================================
