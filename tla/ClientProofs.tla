---------------------------- MODULE ClientProofs ----------------------------
(***************************************************************************)
(* Proofs about module Client.  With one thread that issues requests, a    *)
(* request returns after its own update, and nobody sleeps for an update   *)
(* that has been applied.                                                  *)
(***************************************************************************)
EXTENDS Client, TLAPS

-----------------------------------------------------------------------------
(* Type correctness, for one thread or two.                                *)

LEMMA UserSteps ==
  ASSUME TypeOK, NEW u \in User, \/ \E k \in Issued(u) : Issue(u, k)
                                 \/ Lock(u) \/ Wall(u) \/ NullPlayer(u) \/ Send(u)
  PROVE  TypeOK'
<1>. USE DEF TypeOK, Goto, server, link, helper, lock, evthread, Locks, Command
<1>1. ASSUME NEW k \in Issued(u), Issue(u, k) PROVE TypeOK'
  <2>1. k \in Command
    BY DEF Issued
  <2>. QED
    BY <1>1, <2>1 DEF Issue
<1>2. CASE Lock(u)
  BY <1>2 DEF Lock
<1>3. CASE Wall(u)
  BY <1>3 DEF Wall
<1>4. CASE NullPlayer(u)
  BY <1>4 DEF NullPlayer
<1>5. CASE Send(u)
  <2>1. Wanted(cmd[u]) \in {"sync", "hello", "action", "goodbye"}
    BY DEF Wanted
  <2>2. requests' \in Seq({"sync", "hello", "action", "goodbye"})
    BY <1>5, <2>1 DEF Send
  <2>. QED
    BY <1>5, <2>2 DEF Send
<1>. QED
  BY <1>1, <1>2, <1>3, <1>4, <1>5

LEMMA ReplySteps ==
  ASSUME TypeOK, NEW u \in User, Receive(u) \/ Process(u) \/ Sleep(u) \/ Wake(u) \/ Return(u)
  PROVE  TypeOK'
<1>. USE DEF TypeOK, Goto, server, link, helper, lock, evthread
<1>1. CASE Receive(u)
  <2>1. NoMessage \in Message
    BY DEF NoMessage, Message
  <2>2. ASSUME NEW s \in Seq(Message), s # <<>>
        PROVE  Head(s) \in Message /\ Tail(s) \in Seq(Message)
    BY <2>2
  <2>3. reply' \in Message /\ replies' \in Seq(Message)
    BY <1>1, <2>1, <2>2 DEF Receive
  <2>. QED
    BY <1>1, <2>3 DEF Receive
<1>2. CASE Process(u)
  <2>1. me' \in {"null", "mine", "other"} /\ rpc' \in Int
    BY <1>2 DEF Process, Learn, Message
  <2>. QED
    BY <1>2, <2>1 DEF Process
<1>3. CASE Sleep(u)
  BY <1>3 DEF Sleep
<1>4. CASE Wake(u)
  BY <1>4 DEF Wake
<1>5. CASE Return(u)
  BY <1>5 DEF Return
<1>. QED
  BY <1>1, <1>2, <1>3, <1>4, <1>5

LEMMA EventSteps ==
  ASSUME TypeOK, EventThread \/ Subscribe
  PROVE  TypeOK'
<1>. USE DEF TypeOK, server, link, helper, lock, evthread, Still
<1>1. CASE EvReceive
  <2>1. event' \in Int /\ wire' \in Seq(Nat)
    BY <1>1 DEF EvReceive
  <2>. QED
    BY <1>1, <2>1 DEF EvReceive
<1>2. CASE EvApply
  BY <1>2 DEF EvApply
<1>3. CASE EvSignal
  BY <1>3 DEF EvSignal
<1>4. CASE EvLost
  BY <1>4 DEF EvLost
<1>5. CASE Subscribe
  BY <1>5 DEF Subscribe
<1>. QED
  BY <1>1, <1>2, <1>3, <1>4, <1>5 DEF EventThread

LEMMA PostType ==
  ASSUME posted \in Nat, wire \in Seq(Nat), Post
  PROVE  posted' \in Nat /\ wire' \in Seq(Nat)
<1>1. Append(wire, posted) \in Seq(Nat)
  OBVIOUS
<1>2. wire' = wire \/ wire' = Append(wire, posted)
  BY DEF Post
<1>. QED
  BY <1>1, <1>2 DEF Post

(* What a message of the server changes, whatever it answers.              *)
LEMMA AnswerType ==
  ASSUME TypeOK, NEW type \in {"sync", "hello", "action", "goodbye"}, NEW id \in Int,
         Answer(type, id), Post \/ UNCHANGED <<posted, wire>>,
         registered' \in BOOLEAN, own' \in Int
  PROVE  TypeOK'
<1>1. [type |-> type, id |-> id] \in Message
  BY DEF Message
<1>2. /\ requests' \in Seq({"sync", "hello", "action", "goodbye"})
      /\ replies' \in Seq(Message)
  BY <1>1 DEF TypeOK, Answer
<1>3. posted' \in Nat /\ wire' \in Seq(Nat)
  BY PostType DEF TypeOK
<1>. QED
  BY <1>2, <1>3 DEF TypeOK, Answer, ServerStill, helper, lock, evthread

LEMMA ServerSteps ==
  ASSUME TypeOK, Serve \/ Other
  PROVE  TypeOK'
<1>. USE DEF server
<1>0. posted \in Int /\ own \in Int /\ registered \in BOOLEAN
  BY DEF TypeOK
<1>1. CASE ServeSync
  BY <1>0, <1>1, AnswerType DEF ServeSync
<1>2. CASE ServeHello
  BY <1>0, <1>2, AnswerType DEF ServeHello
<1>3. CASE RefuseHello
  BY <1>0, <1>3, AnswerType DEF RefuseHello
<1>4. CASE ServeAction
  BY <1>0, <1>4, AnswerType DEF ServeAction
<1>5. CASE RefuseAction
  BY <1>0, <1>5, AnswerType DEF RefuseAction
<1>6. CASE ServeGoodbye
  <2>1. Answer("goodbye", 0) /\ registered' \in BOOLEAN /\ own' = own
    BY <1>6 DEF ServeGoodbye
  <2>2. Post \/ UNCHANGED <<posted, wire>>
    BY <1>6 DEF ServeGoodbye
  <2>. QED
    BY <1>0, <2>1, <2>2, AnswerType
<1>7. CASE Other
  <2>1. posted' \in Nat /\ wire' \in Seq(Nat)
    BY <1>7, PostType DEF Other, TypeOK
  <2>. QED
    BY <1>7, <2>1 DEF Other, ServerStill, TypeOK, helper, lock, evthread, link
<1>. QED
  BY <1>1, <1>2, <1>3, <1>4, <1>5, <1>6, <1>7 DEF Serve

LEMMA NextType == TypeOK /\ [Next]_vars => TypeOK'
<1>. SUFFICES ASSUME TypeOK, [Next]_vars PROVE TypeOK'
  OBVIOUS
<1>1. CASE UNCHANGED vars
  BY <1>1 DEF TypeOK, vars, server, link, helper, lock, evthread
<1>2. CASE Next
  BY <1>2, UserSteps, ReplySteps, EventSteps, ServerSteps DEF Next, Go
<1>. QED
  BY <1>1, <1>2

LEMMA InitType == Init => TypeOK
<1>. SUFFICES ASSUME Init PROVE TypeOK
  OBVIOUS
<1>0. registered \in BOOLEAN
  BY Zenon DEF Init
<1>1. posted \in Nat /\ own \in Int /\ ec \in Int /\ rpc \in Int /\ event \in Int
  BY DEF Init
<1>2. /\ wire \in Seq(Nat) /\ replies \in Seq(Message)
      /\ requests \in Seq({"sync", "hello", "action", "goodbye"})
  BY DEF Init
<1>3. reply \in Message
  BY DEF Init, NoMessage, Message
<1>4. /\ subscribed \in {"none", "asked", "yes", "refused"}
      /\ connected \in BOOLEAN /\ me \in {"null", "mine", "other"}
      /\ evpc \in {"none", "read", "lock", "apply", "gone"} /\ alive \in BOOLEAN
      /\ owner \in User \cup {Event, Nobody} /\ waiting \subseteq User
  BY DEF Init
<1>5. /\ pc \in [User -> {"idle", "lock", "send", "sent", "got", "wait", "asleep"}]
      /\ cmd \in [User -> Command]
  BY DEF Init, Command
<1>. QED
  BY <1>0, <1>1, <1>2, <1>3, <1>4, <1>5 DEF TypeOK

(* The variables of a client keep their types.                             *)
THEOREM ClientTypeCorrect == Spec => []TypeOK
BY InitType, NextType, PTL DEF Spec

-----------------------------------------------------------------------------
(* One thread issues requests: the client is started without its user      *)
(* interface (client -no_ui).                                              *)
OneThread == User = {"shell"}

Now  == pc["shell"]
What == cmd["shell"]

(* The events arrive in the order of their numbers.                        *)
FifoOK ==
  /\ ec <= posted
  /\ \A i \in 1 .. Len(wire) : ec <= wire[i] /\ wire[i] <= posted
  /\ \A i, j \in 1 .. Len(wire) : i <= j => wire[i] <= wire[j]
  /\ evpc = "lock" => /\ ec <= event /\ event <= posted
                      /\ \A i \in 1 .. Len(wire) : event <= wire[i]

(* One request is on its way at a time, and it is the one of the command.  *)
CallOK ==
  /\ What \in Issued("shell") \cup {"none"}
  /\ Now \in {"lock", "send", "sent"} => What \in {"connect", "hello", "action", "goodbye"}
  /\ Now # "idle" => connected
  /\ Now # "sent" => requests = <<>> /\ replies = <<>>
  /\ Now = "sent" => \/ requests = <<Wanted(What)>> /\ replies = <<>>
                     \/ requests = <<>> /\ Len(replies) = 1

(* An update of the client that is not applied yet belongs to the action   *)
(* under way, whose reply or RPC_update_id carries its number.             *)
OwnReply == [type |-> "action", id |-> own]
TicketOK ==
  \/ ec >= own
  \/ What = "action" /\ \/ Now = "sent" /\ replies = <<OwnReply>>
                        \/ Now = "got" /\ reply = OwnReply
                        \/ Now \in {"wait", "asleep"} /\ rpc = own

SleepOK == waiting # {} => Now = "asleep"

ClientInv == TypeOK /\ FifoOK /\ CallOK /\ TicketOK /\ SleepOK /\ NoLostWakeup

LEMMA InitInv == OneThread /\ Init => ClientInv
<1>. SUFFICES ASSUME OneThread, Init PROVE ClientInv
  OBVIOUS
<1>1. FifoOK
  BY DEF Init, FifoOK
<1>2. Now = "idle" /\ What = "none"
  BY DEF Init, OneThread, Now, What
<1>3. CallOK /\ SleepOK /\ NoLostWakeup
  BY <1>2 DEF Init, CallOK, SleepOK, NoLostWakeup
<1>4. TicketOK
  BY DEF Init, TicketOK
<1>. QED
  BY <1>1, <1>3, <1>4, InitType DEF ClientInv

(* The steps of the thread that leave the connections and the numbers.     *)
LEMMA QuietSteps ==
  ASSUME OneThread, ClientInv, NEW u \in User,
         \/ \E k \in Issued(u) : Issue(u, k)
         \/ Lock(u) \/ Wall(u) \/ NullPlayer(u) \/ Wake(u)
  PROVE  (FifoOK /\ CallOK /\ TicketOK /\ SleepOK /\ NoLostWakeup)'
<1>. USE DEF ClientInv, server, link, helper, lock, evthread
<1>0. u = "shell" /\ pc \in [User -> {"idle", "lock", "send", "sent", "got", "wait", "asleep"}]
      /\ cmd \in [User -> Command]
  BY DEF OneThread, TypeOK
<1>1. ASSUME NEW k \in Issued(u), Issue(u, k)
      PROVE  (FifoOK /\ CallOK /\ TicketOK /\ SleepOK /\ NoLostWakeup)'
  <2>1. /\ Now = "idle" /\ Now' \in {"lock", "got", "send"} /\ What' = k
        /\ (k = "unknown" => Now' = "got")
        /\ k \in {"connect", "hello", "action", "goodbye", "unknown"}
        /\ connected' = (connected \/ k = "connect") /\ (k = "connect" \/ connected)
        /\ UNCHANGED <<posted, wire, own, requests, replies, ec, rpc, waiting, event>>
        /\ evpc' \in {evpc, "read"}
    BY <1>0, <1>1 DEF Issue, Goto, Now, What, Locks, Issued
  <2>2. waiting = {}
    BY <2>1 DEF SleepOK
  <2>3. FifoOK'
    BY <2>1 DEF FifoOK
  <2>4. CallOK' /\ TicketOK' /\ SleepOK' /\ NoLostWakeup'
    BY <1>0, <2>1, <2>2 DEF CallOK, TicketOK, SleepOK, NoLostWakeup, OwnReply, Issued
  <2>. QED
    BY <2>3, <2>4
<1>2. ASSUME Lock(u) \/ Wall(u) \/ NullPlayer(u)
      PROVE  (FifoOK /\ CallOK /\ TicketOK /\ SleepOK /\ NoLostWakeup)'
  <2>1. /\ Now \in {"lock", "send"} /\ Now' \in {"send", "idle"} /\ What' = What
        /\ UNCHANGED <<connected, posted, wire, own, requests, replies, reply, ec, rpc,
                       waiting, event, evpc>>
    BY <1>0, <1>2 DEF Lock, Wall, NullPlayer, Goto, Now, What
  <2>2. waiting = {}
    BY <2>1 DEF SleepOK
  <2>3. FifoOK'
    BY <2>1 DEF FifoOK
  <2>4. CallOK' /\ TicketOK' /\ SleepOK' /\ NoLostWakeup'
    BY <2>1, <2>2 DEF CallOK, TicketOK, SleepOK, NoLostWakeup, OwnReply
  <2>. QED
    BY <2>3, <2>4
<1>3. ASSUME Wake(u)
      PROVE  (FifoOK /\ CallOK /\ TicketOK /\ SleepOK /\ NoLostWakeup)'
  <2>1. /\ Now = "asleep" /\ Now' = "wait" /\ What' = What /\ u \notin waiting
        /\ UNCHANGED <<connected, posted, wire, own, requests, replies, reply, ec, rpc,
                       waiting, event, evpc>>
    BY <1>0, <1>3 DEF Wake, Goto, Now, What
  <2>2. waiting = {}
    BY <1>0, <2>1 DEF TypeOK, OneThread
  <2>3. FifoOK'
    BY <2>1 DEF FifoOK
  <2>4. CallOK' /\ TicketOK' /\ SleepOK' /\ NoLostWakeup'
    BY <2>1, <2>2 DEF CallOK, TicketOK, SleepOK, NoLostWakeup, OwnReply
  <2>. QED
    BY <2>3, <2>4
<1>. QED
  BY <1>1, <1>2, <1>3

(* A request is sent, and its reply received and looked at.                *)
LEMMA CallSteps ==
  ASSUME OneThread, ClientInv, NEW u \in User, Send(u) \/ Receive(u) \/ Process(u)
  PROVE  (FifoOK /\ CallOK /\ TicketOK /\ SleepOK /\ NoLostWakeup)'
<1>. USE DEF ClientInv, server, link, helper, lock, evthread
<1>0. /\ u = "shell" /\ pc \in [User -> {"idle", "lock", "send", "sent", "got", "wait", "asleep"}]
      /\ ec \in Int /\ own \in Int /\ rpc \in Int
  BY DEF OneThread, TypeOK
<1>1. CASE Send(u)
  <2>1. /\ Now = "send" /\ Now' = "sent" /\ What' = What
        /\ requests' = Append(requests, Wanted(What))
        /\ UNCHANGED <<connected, posted, wire, own, replies, reply, ec, rpc,
                       waiting, event, evpc>>
    BY <1>0, <1>1 DEF Send, Goto, Now, What
  <2>2. waiting = {} /\ requests = <<>> /\ replies = <<>>
    BY <2>1 DEF SleepOK, CallOK
  <2>3. requests' = <<Wanted(What)>>
    BY <2>1, <2>2
  <2>4. FifoOK'
    BY <2>1 DEF FifoOK
  <2>5. CallOK' /\ TicketOK' /\ SleepOK' /\ NoLostWakeup'
    BY <2>1, <2>2, <2>3 DEF CallOK, TicketOK, SleepOK, NoLostWakeup, OwnReply
  <2>. QED
    BY <2>4, <2>5
<1>2. CASE Receive(u)
  <2>1. /\ Now = "sent" /\ Now' = "got" /\ What' = What /\ connected
        /\ replies # <<>> /\ reply' = Head(replies) /\ replies' = Tail(replies)
        /\ UNCHANGED <<connected, posted, wire, own, requests, ec, rpc,
                       waiting, event, evpc>>
    BY <1>0, <1>2 DEF Receive, Goto, Now, What, CallOK
  <2>2. requests = <<>> /\ Len(replies) = 1 /\ waiting = {}
    BY <2>1 DEF CallOK, SleepOK
  <2>3. replies' = <<>>
    BY <2>1, <2>2 DEF TypeOK
  <2>4. FifoOK'
    BY <2>1 DEF FifoOK
  <2>5. TicketOK'
    BY <2>1 DEF TicketOK, OwnReply
  <2>6. CallOK' /\ SleepOK' /\ NoLostWakeup'
    BY <2>1, <2>2, <2>3 DEF CallOK, SleepOK, NoLostWakeup
  <2>. QED
    BY <2>4, <2>5, <2>6
<1>3. CASE Process(u)
  <2>1. /\ Now = "got" /\ Now' \in {"wait", "idle"} /\ What' = What
        /\ connected' = (connected /\ What # "goodbye")
        /\ Now' = "wait" => Locks(What) \/ What = "unknown"
        /\ Locks(What) => Now' = "wait"
        /\ What # "hand" => rpc' = IF reply.type = "action" THEN reply.id ELSE rpc
        /\ UNCHANGED <<posted, wire, own, requests, replies, reply, ec, waiting, event, evpc>>
    BY <1>0, <1>3 DEF Process, Learn, Goto, Now, What, Locks
  <2>2. waiting = {} /\ What # "hand" /\ requests = <<>> /\ replies = <<>>
    BY <2>1 DEF SleepOK, CallOK, Issued
  <2>3. FifoOK'
    BY <2>1 DEF FifoOK
  <2>4. CallOK'
    BY <2>1, <2>2 DEF CallOK, Locks
  <2>5. TicketOK'
    BY <2>1, <2>2 DEF TicketOK, OwnReply, Locks
  <2>6. SleepOK' /\ NoLostWakeup'
    BY <2>1, <2>2 DEF SleepOK, NoLostWakeup
  <2>. QED
    BY <2>3, <2>4, <2>5, <2>6
<1>. QED
  BY <1>1, <1>2, <1>3

(* The loop around the condition variable.                                 *)
LEMMA WaitSteps ==
  ASSUME OneThread, ClientInv, NEW u \in User, Sleep(u) \/ Return(u)
  PROVE  (FifoOK /\ CallOK /\ TicketOK /\ SleepOK /\ NoLostWakeup)'
<1>. USE DEF ClientInv, server, link, helper, lock, evthread
<1>0. /\ u = "shell" /\ pc \in [User -> {"idle", "lock", "send", "sent", "got", "wait", "asleep"}]
      /\ ec \in Int /\ own \in Int /\ rpc \in Int
  BY DEF OneThread, TypeOK
<1>1. /\ Now = "wait" /\ What' = What
      /\ \/ Now' = "asleep" /\ ec < rpc
         \/ Now' = "idle" /\ ec >= rpc /\ waiting' = waiting
      /\ UNCHANGED <<connected, posted, wire, own, requests, replies, reply, ec, rpc,
                     event, evpc>>
  BY <1>0 DEF Sleep, Return, Goto, Now, What
<1>2. waiting = {} /\ requests = <<>> /\ replies = <<>> /\ connected
  BY <1>1 DEF SleepOK, CallOK
<1>3. FifoOK'
  BY <1>1 DEF FifoOK
<1>4. CallOK'
  BY <1>1, <1>2 DEF CallOK
<1>5. TicketOK'
  BY <1>0, <1>1 DEF TicketOK, OwnReply
<1>6. SleepOK' /\ NoLostWakeup'
  BY <1>1, <1>2 DEF SleepOK, NoLostWakeup
<1>. QED
  BY <1>3, <1>4, <1>5, <1>6

LEMMA EventThreadInv ==
  ASSUME OneThread, ClientInv, EventThread \/ Subscribe
  PROVE  (FifoOK /\ CallOK /\ TicketOK /\ SleepOK /\ NoLostWakeup)'
<1>. USE DEF ClientInv, server, link, helper, lock, evthread, Still
<1>0. /\ ec \in Int /\ own \in Int /\ rpc \in Int /\ event \in Int
      /\ posted \in Nat /\ wire \in Seq(Nat) /\ waiting \subseteq {"shell"}
  BY DEF OneThread, TypeOK
<1>a. UNCHANGED <<pc, cmd, connected, requests, replies, reply, own, rpc>>
  BY DEF EventThread, EvReceive, EvApply, EvSignal, EvLost, Subscribe
<1>b. CallOK'
  BY <1>a DEF CallOK, Now, What
<1>1. CASE EvReceive
  <2>1. /\ wire # <<>> /\ event' = wire[1] /\ wire' = Tail(wire) /\ evpc' = "lock"
        /\ evpc = "read" /\ UNCHANGED <<ec, posted, waiting>>
    BY <1>1 DEF EvReceive
  <2>2. /\ Len(wire') = Len(wire) - 1 /\ Len(wire) \in Nat \ {0}
        /\ \A i \in 1 .. Len(wire') : wire'[i] = wire[i + 1]
    BY <1>0, <2>1
  <2>3. FifoOK'
    BY <1>0, <2>1, <2>2 DEF FifoOK
  <2>4. TicketOK' /\ SleepOK' /\ NoLostWakeup'
    BY <1>a, <2>1 DEF TicketOK, OwnReply, SleepOK, NoLostWakeup, Now, What
  <2>. QED
    BY <1>b, <2>3, <2>4
<1>2. CASE EvApply
  <2>1. /\ evpc = "lock" /\ evpc' = "apply" /\ ec' = event
        /\ UNCHANGED <<wire, posted, waiting, event>>
    BY <1>2 DEF EvApply
  <2>2. FifoOK' /\ ec <= ec'
    BY <1>0, <2>1 DEF FifoOK
  <2>3. TicketOK'
    BY <1>0, <1>a, <2>1, <2>2 DEF TicketOK, OwnReply, Now, What
  <2>4. SleepOK' /\ NoLostWakeup'
    BY <1>a, <2>1 DEF SleepOK, NoLostWakeup, Now
  <2>. QED
    BY <1>b, <2>2, <2>3, <2>4
<1>3. CASE EvSignal
  <2>1. /\ evpc' = "read" /\ UNCHANGED <<wire, posted, event, ec>>
        /\ waiting' \subseteq waiting
    BY <1>3 DEF EvSignal
  <2>2. waiting' = {} \/ ec < rpc
    <3>1. CASE ec >= rpc /\ waiting # {}
      <4>1. PICK u \in waiting : waiting' = waiting \ {u}
        BY <1>3, <3>1 DEF EvSignal
      <4>. QED
        BY <1>0, <4>1
    <3>2. CASE ~(ec >= rpc /\ waiting # {})
      <4>1. waiting' = waiting
        BY <1>3, <3>2 DEF EvSignal
      <4>. QED
        BY <1>0, <3>2, <4>1
    <3>. QED
      BY <3>1, <3>2
  <2>3. FifoOK'
    BY <2>1 DEF FifoOK
  <2>4. TicketOK' /\ SleepOK' /\ NoLostWakeup'
    BY <1>a, <2>1, <2>2 DEF TicketOK, OwnReply, SleepOK, NoLostWakeup, Now, What
  <2>. QED
    BY <1>b, <2>3, <2>4
<1>4. CASE EvLost \/ Subscribe
  <2>1. /\ evpc' = "lock" => evpc = "lock"
        /\ evpc = "apply" => evpc' = "apply"
        /\ UNCHANGED <<wire, posted, event, ec, waiting>>
    BY <1>4 DEF EvLost, Subscribe
  <2>2. FifoOK'
    BY <2>1 DEF FifoOK
  <2>3. TicketOK' /\ SleepOK' /\ NoLostWakeup'
    BY <1>a, <2>1 DEF TicketOK, OwnReply, SleepOK, NoLostWakeup, Now, What
  <2>. QED
    BY <1>b, <2>2, <2>3
<1>. QED
  BY <1>1, <1>2, <1>3, <1>4 DEF EventThread

(* A post hands out the largest number so far.                             *)
LEMMA PostFifo ==
  ASSUME TypeOK, FifoOK, Post \/ UNCHANGED <<posted, wire>>,
         UNCHANGED <<ec, evpc, event>>
  PROVE  FifoOK'
<1>0. posted \in Nat /\ wire \in Seq(Nat) /\ ec \in Int /\ event \in Int
  BY DEF TypeOK
<1>1. CASE wire' = wire /\ posted' \in {posted, posted + 1}
  BY <1>0, <1>1 DEF FifoOK
<1>2. CASE wire' = Append(wire, posted) /\ posted' = posted + 1
  <2>1. /\ Len(wire') = Len(wire) + 1 /\ Len(wire) \in Nat
        /\ \A i \in 1 .. Len(wire) : wire'[i] = wire[i] /\ wire[i] \in Nat
        /\ wire'[Len(wire) + 1] = posted
    BY <1>0, <1>2
  <2>2. \A i \in 1 .. Len(wire') : i \in 1 .. Len(wire) \/ i = Len(wire) + 1
    BY <2>1
  <2>3. \A i \in 1 .. Len(wire') : ec <= wire'[i] /\ wire'[i] <= posted'
    BY <1>0, <1>2, <2>1, <2>2 DEF FifoOK
  <2>4. \A i, j \in 1 .. Len(wire') : i <= j => wire'[i] <= wire'[j]
    BY <1>0, <1>2, <2>1, <2>2 DEF FifoOK
  <2>5. evpc = "lock" => \A i \in 1 .. Len(wire') : event <= wire'[i]
    BY <1>0, <1>2, <2>1, <2>2 DEF FifoOK
  <2>. QED
    BY <1>0, <1>2, <2>3, <2>4, <2>5 DEF FifoOK
<1>. QED
  BY <1>1, <1>2 DEF Post

LEMMA ServerInv ==
  ASSUME OneThread, ClientInv, Serve \/ Other
  PROVE  (FifoOK /\ CallOK /\ TicketOK /\ SleepOK /\ NoLostWakeup)'
<1>. USE DEF ClientInv, server, link, helper, lock, evthread, ServerStill
<1>a. /\ UNCHANGED <<pc, cmd, connected, reply, ec, rpc, waiting, evpc, event>>
      /\ Post \/ UNCHANGED <<posted, wire>>
  BY DEF Serve, Other, Answer, ServeSync, ServeHello, RefuseHello, ServeAction,
         RefuseAction, ServeGoodbye
<1>b. FifoOK' /\ SleepOK' /\ NoLostWakeup'
  BY <1>a, PostFifo DEF SleepOK, NoLostWakeup, Now
<1>1. CASE Other
  BY <1>a, <1>b, <1>1 DEF Other, CallOK, TicketOK, OwnReply, Now, What
<1>2. ASSUME NEW type, NEW id, Answer(type, id), own' = own \/ (type = "action" /\ own' = id)
      PROVE  CallOK' /\ TicketOK'
  <2>1. /\ requests # <<>> /\ Head(requests) = type /\ requests' = Tail(requests)
        /\ replies' = Append(replies, [type |-> type, id |-> id])
    BY <1>2 DEF Answer
  <2>2. Now = "sent" /\ requests = <<Wanted(What)>> /\ replies = <<>>
    BY <2>1 DEF CallOK
  <2>3. type = Wanted(What) /\ requests' = <<>> /\ replies' = <<[type |-> type, id |-> id]>>
    BY <2>1, <2>2
  <2>4. CallOK'
    BY <1>a, <2>2, <2>3 DEF CallOK, Now, What
  <2>5. type = "action" => What = "action"
    BY <2>2, <2>3 DEF CallOK, Wanted
  <2>6. replies # <<OwnReply>>
    BY <2>2
  <2>7. ec >= own
    BY <2>2, <2>6 DEF TicketOK
  <2>8. TicketOK'
    <3>1. CASE own' = own
      BY <1>a, <2>7, <3>1 DEF TicketOK
    <3>2. CASE type = "action" /\ own' = id
      BY <1>a, <2>2, <2>3, <2>5, <3>2 DEF TicketOK, OwnReply, Now, What
    <3>. QED
      BY <1>2, <3>1, <3>2
  <2>. QED
    BY <2>4, <2>8
<1>3. CASE Serve
  BY <1>b, <1>2, <1>3 DEF Serve, ServeSync, ServeHello, RefuseHello, ServeAction,
                          RefuseAction, ServeGoodbye
<1>. QED
  BY <1>1, <1>3, <1>b

LEMMA NextInv == OneThread /\ ClientInv /\ [Next]_vars => ClientInv'
<1>. SUFFICES ASSUME OneThread, ClientInv, [Next]_vars PROVE ClientInv'
  OBVIOUS
<1>1. TypeOK'
  BY NextType DEF ClientInv
<1>2. CASE UNCHANGED vars
  BY <1>1, <1>2 DEF vars, server, link, helper, lock, evthread, ClientInv, FifoOK, CallOK,
                    TicketOK, OwnReply, SleepOK, NoLostWakeup, Now, What
<1>3. CASE Next
  BY <1>1, <1>3, QuietSteps, CallSteps, WaitSteps, EventThreadInv, ServerInv
  DEF Next, Go, ClientInv
<1>. QED
  BY <1>2, <1>3

LEMMA AlwaysClientInv == OneThread /\ Spec => []ClientInv
<1>. SUFFICES ASSUME OneThread PROVE Spec => []ClientInv
  OBVIOUS
<1>1. Init => ClientInv
  BY InitInv
<1>2. ClientInv /\ [Next]_vars => ClientInv'
  BY NextInv
<1>. QED
  BY <1>1, <1>2, PTL DEF Spec

(* Between its actions, a client with one thread has applied an update at  *)
(* least as new as the last one it caused.                                 *)
THEOREM OwnUpdatesAreSeen == OneThread /\ Spec => []OwnUpdateSeen
<1>. SUFFICES ASSUME OneThread PROVE Spec => []OwnUpdateSeen
  OBVIOUS
<1>1. ClientInv => OwnUpdateSeen
  BY DEF ClientInv, TicketOK, OwnUpdateSeen, OneThread, Now, What, Locks
<1>. QED
  BY <1>1, AlwaysClientInv, PTL

(* The one thread never sleeps for an update that is applied already.      *)
THEOREM NoWakeupIsLost == OneThread /\ Spec => []NoLostWakeup
<1>. SUFFICES ASSUME OneThread PROVE Spec => []NoLostWakeup
  OBVIOUS
<1>1. ClientInv => NoLostWakeup
  BY DEF ClientInv
<1>. QED
  BY <1>1, AlwaysClientInv, PTL
=============================================================================
