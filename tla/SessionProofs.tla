---------------------------- MODULE SessionProofs ---------------------------
(***************************************************************************)
(* For any number of clients, descriptors, connections, requests and       *)
(* restarts: a descriptor of the server never brings another connection's  *)
(* player, a thread handles the request its client waits for, and a        *)
(* request that returned 1 has its own answer.  The first needs what the   *)
(* life of a connection's thread says of its descriptor: it has one from   *)
(* the accept to the close, and a player at most until the lost handler    *)
(* has run.  The others need where the one request of a connection is: in  *)
(* the stream to the server, at its thread, or in the stream back.  The    *)
(* types come last; they need that the lengths on the wire are lengths.    *)
(***************************************************************************)
EXTENDS Session, SequenceTheorems, TLAPS

ThreadState == Serving \cup {"none", "backlog", "close", "ended"}

TypesOK ==
  /\ made \in 0 .. Connections
  /\ thread \in [Conn -> ThreadState]
  /\ fd \in [Conn -> Fd \cup {None}]
  /\ player \in [Fd -> 0 .. Connections]

(* Connections are numbered as they are made.                              *)
UnmadeOK == \A k \in Conn : k > made => thread[k] = "none"

(* A thread has a descriptor while it serves, and none before.             *)
ServedOK ==
  \A k \in Conn : /\ thread[k] \in Serving => fd[k] \in Fd
                  /\ thread[k] \in {"none", "backlog"} => fd[k] = None

DescriptorInv == TypesOK /\ UnmadeOK /\ ServedOK /\ DescriptorsClean

-----------------------------------------------------------------------------
LEMMA InitDescriptor == Init => DescriptorInv
  BY SessionAssumption
  DEF Init, DescriptorInv, TypesOK, UnmadeOK, ServedOK, DescriptorsClean, Conn, ThreadState, Serving

(* A step that moves the thread of a connection it serves on to another    *)
(* part of its service, and leaves the players alone.                      *)
LEMMA ServingMoves ==
  ASSUME DescriptorInv, NEW k \in Conn, thread[k] \in Serving, NEW l \in Serving,
         Goto(k, l), made' = made, fd' = fd, player' = player
  PROVE  DescriptorInv'
  BY DEF DescriptorInv, TypesOK, UnmadeOK, ServedOK, DescriptorsClean, Conn, ThreadState, Serving, Goto

(* The same when the player of the descriptor goes, on to any state.       *)
LEMMA ServingDrops ==
  ASSUME DescriptorInv, NEW k \in Conn, thread[k] \in Serving,
         NEW l \in Serving \cup {"close"}, Goto(k, l), Dropped(k), made' = made, fd' = fd
  PROVE  DescriptorInv'
  BY SessionAssumption
  DEF DescriptorInv, TypesOK, UnmadeOK, ServedOK, DescriptorsClean, Conn, ThreadState, Serving, Goto,
      Dropped

LEMMA ConnectDescriptor ==
  ASSUME DescriptorInv, NEW c \in Client, Connect(c)
  PROVE  DescriptorInv'
<1>1. made + 1 \in Conn /\ thread[made + 1] = "none"
  BY SessionAssumption DEF DescriptorInv, TypesOK, UnmadeOK, Connect, Conn
<1> QED
  BY <1>1, SessionAssumption
  DEF DescriptorInv, TypesOK, UnmadeOK, ServedOK, DescriptorsClean, Conn, ThreadState, Serving,
      Connect, threads

LEMMA AcceptDescriptor ==
  ASSUME DescriptorInv, NEW k \in Conn, Accept(k)
  PROVE  DescriptorInv'
<1>1. PICK f \in Fd : fd' = [fd EXCEPT ![k] = f]
  BY DEF Accept
<1>2. /\ thread[k] = "backlog" /\ thread' = [thread EXCEPT ![k] = "read"]
      /\ made' = made /\ player' = player
  BY DEF Accept, Goto, ClientStill, counters
<1> QED
  BY <1>1, <1>2, SessionAssumption
  DEF DescriptorInv, TypesOK, UnmadeOK, ServedOK, DescriptorsClean, Conn, ThreadState, Serving

LEMMA HelloDescriptor ==
  ASSUME DescriptorInv, NEW k \in Conn, Hello(k)
  PROVE  DescriptorInv'
<1>1. /\ thread[k] = "handle" /\ Goto(k, "reply")
      /\ made' = made /\ fd' = fd
  BY DEF Hello, Handles, Answer, ClientStill, counters
<1>2. CASE player' = player
  BY <1>1, <1>2, ServingMoves DEF Serving
<1>3. CASE player' = [player EXCEPT ![fd[k]] = k]
  BY <1>1, <1>3, SessionAssumption
  DEF DescriptorInv, TypesOK, UnmadeOK, ServedOK, DescriptorsClean, Conn, ThreadState, Serving, Goto
<1> QED
  BY <1>2, <1>3 DEF Hello

LEMMA CloseDescriptor ==
  ASSUME DescriptorInv, NEW k \in Conn, Close(k)
  PROVE  DescriptorInv'
  BY SessionAssumption
  DEF DescriptorInv, TypesOK, UnmadeOK, ServedOK, DescriptorsClean, Conn, ThreadState, Serving, Close,
      Goto, ClientStill, counters

LEMMA DispatchDescriptor ==
  ASSUME DescriptorInv, NEW k \in Conn, Dispatch(k)
  PROVE  DescriptorInv'
<1>1. CASE Accept(k)
  BY <1>1, AcceptDescriptor
<1>2. CASE Read(k)
  BY <1>2, ServingMoves DEF Read, ClientStill, counters, Serving
<1>3. CASE ReadFails(k)
  BY <1>3, ServingMoves DEF ReadFails, ClientStill, counters, Serving
<1>4. CASE Sync(k)
  BY <1>4, ServingMoves DEF Sync, Handles, Answer, ClientStill, counters, Serving
<1>5. CASE Hello(k)
  BY <1>5, HelloDescriptor
<1>6. CASE Action(k)
  BY <1>6, ServingMoves DEF Action, Handles, Answer, ClientStill, counters, Serving
<1>7. CASE Goodbye(k)
  BY <1>7, ServingDrops DEF Goodbye, Handles, Answer, ClientStill, counters, Serving
<1>8. CASE Reply(k)
  BY <1>8, ServingMoves DEF Reply, ClientStill, counters, Serving
<1>9. CASE Lost(k)
  BY <1>9, ServingDrops DEF Lost, ClientStill, counters, Serving
<1>10. CASE Close(k)
  BY <1>10, CloseDescriptor
<1> QED
  BY <1>1, <1>2, <1>3, <1>4, <1>5, <1>6, <1>7, <1>8, <1>9, <1>10 DEF Dispatch

LEMMA RestartDescriptor ==
  ASSUME DescriptorInv, Restart
  PROVE  DescriptorInv'
  BY SessionAssumption
  DEF DescriptorInv, TypesOK, UnmadeOK, ServedOK, DescriptorsClean, Conn, ThreadState, Serving, Restart

LEMMA OthersDescriptor ==
  ASSUME DescriptorInv, UNCHANGED <<made, thread, fd, player>>
  PROVE  DescriptorInv'
  BY DEF DescriptorInv, TypesOK, UnmadeOK, ServedOK, DescriptorsClean

LEMMA NextDescriptor == DescriptorInv /\ [Next]_vars => DescriptorInv'
<1> SUFFICES ASSUME DescriptorInv, [Next]_vars PROVE DescriptorInv'
  OBVIOUS
<1>1. CASE UNCHANGED vars
  BY <1>1, OthersDescriptor DEF vars, threads, counters
<1>2. ASSUME NEW c \in Client, Connect(c) PROVE DescriptorInv'
  BY <1>2, ConnectDescriptor
<1>3. ASSUME NEW c \in Client, Rpc(c) PROVE DescriptorInv'
  <2>1. CASE Send(c)
    BY <2>1, OthersDescriptor DEF Send, threads, counters
  <2>2. CASE Receive(c)
    BY <2>2, OthersDescriptor DEF Receive, threads, counters
  <2>3. CASE Disconnect(c)
    BY <2>3, OthersDescriptor DEF Disconnect, threads, counters
  <2> QED
    BY <1>3, <2>1, <2>2, <2>3 DEF Rpc
<1>4. ASSUME NEW c \in Client, Kill(c) PROVE DescriptorInv'
  BY <1>4, OthersDescriptor DEF Kill, threads, counters
<1>5. ASSUME NEW c \in Client, NEW kind \in Kind, Issue(c, kind) PROVE DescriptorInv'
  BY <1>5, OthersDescriptor DEF Issue, threads
<1>6. ASSUME NEW k \in Conn, Dispatch(k) PROVE DescriptorInv'
  BY <1>6, DispatchDescriptor
<1>7. CASE Restart
  BY <1>7, RestartDescriptor
<1> QED
  BY <1>1, <1>2, <1>3, <1>4, <1>5, <1>6, <1>7 DEF Next

(* Whoever is given the number of a closed connection starts without a     *)
(* player: client_lost_handler has dropped the player before the           *)
(* dispatcher closes the descriptor.                                       *)
THEOREM DescriptorsAreClean == Spec => []DescriptorsClean
<1>1. DescriptorInv => DescriptorsClean
  BY DEF DescriptorInv
<1> QED
  BY <1>1, InitDescriptor, NextDescriptor, PTL DEF Spec

-----------------------------------------------------------------------------
(* What is sent is received: the type, the length and the words of a       *)
(* message, and nothing stays in the stream behind it.                     *)
Body == Seq(Int)
Mail == [type : Kind \cup {"none"}, body : Body]

LEMMA FrameShape ==
  ASSUME NEW type \in Kind \cup {"none"}, NEW body \in Body
  PROVE  /\ Frame(type, body) \in Seq(Word)
         /\ Len(Frame(type, body)) = Len(body) + 2
         /\ Frame(type, body)[1].type = type /\ Frame(type, body)[2].n = Len(body)
         /\ \A i \in 1 .. Len(body) : Frame(type, body)[i + 2].n = body[i]
<1> DEFINE h == <<[type |-> type, n |-> 0], [type |-> "none", n |-> Len(body)]>>
           b == [i \in 1 .. Len(body) |-> [type |-> "none", n |-> body[i]]]
<1>1. Len(body) \in Nat /\ body \in [1 .. Len(body) -> Int]
  BY LenProperties DEF Body
<1>2. h \in Seq(Word) /\ Len(h) = 2 /\ h[1].type = type /\ h[2].n = Len(body)
  <2>1. [type |-> type, n |-> 0] \in Word /\ [type |-> "none", n |-> Len(body)] \in Word
    BY <1>1 DEF Word
  <2> QED
    BY <2>1
<1>3. b \in Seq(Word) /\ Len(b) = Len(body) /\ \A i \in 1 .. Len(body) : b[i].n = body[i]
  <2>1. \A i \in 1 .. Len(body) : [type |-> "none", n |-> body[i]] \in Word
    BY <1>1 DEF Word
  <2>2. b \in [1 .. Len(body) -> Word]
    BY <2>1
  <2>3. b \in Seq(Word)
    BY <1>1, <2>2
  <2> QED
    BY <1>1, <2>2, <2>3, LenProperties
<1>4. Frame(type, body) = h \o b
  BY DEF Frame
<1> HIDE DEF h, b
<1>5. /\ h \o b \in Seq(Word) /\ Len(h \o b) = Len(body) + 2
      /\ \A i \in 1 .. Len(body) + 2 : (h \o b)[i] = IF i <= 2 THEN h[i] ELSE b[i - 2]
  <2>1. /\ h \o b \in Seq(Word) /\ Len(h \o b) = Len(h) + Len(b)
        /\ \A i \in 1 .. Len(h) + Len(b) :
              (h \o b)[i] = IF i <= Len(h) THEN h[i] ELSE b[i - Len(h)]
    <3>1. h \in Seq(Word) /\ b \in Seq(Word)
      BY <1>2, <1>3
    <3> QED
      BY <3>1, ConcatProperties
  <2>2. Len(h) = 2 /\ Len(b) = Len(body) /\ 2 + Len(body) = Len(body) + 2
    BY <1>1, <1>2, <1>3
  <2> QED
    BY <2>1, <2>2
<1>6. (h \o b)[1] = h[1] /\ (h \o b)[2] = h[2]
  BY <1>1, <1>5
<1>7. ASSUME NEW i \in 1 .. Len(body)
      PROVE  (h \o b)[i + 2].n = body[i]
  <2>1. i + 2 \in 1 .. Len(body) + 2 /\ ~(i + 2 <= 2) /\ (i + 2) - 2 = i
    BY <1>1
  <2> QED
    BY <1>3, <1>5, <2>1
<1> QED
  BY <1>2, <1>4, <1>5, <1>6, <1>7

LEMMA FrameReceived ==
  ASSUME NEW type \in Kind \cup {"none"}, NEW body \in Body
  PROVE  /\ Whole(Frame(type, body))
         /\ Received(Frame(type, body)) = [type |-> type, body |-> body]
         /\ Rest(Frame(type, body)) = <<>>
<1> DEFINE s == Frame(type, body)
<1>1. /\ s \in Seq(Word) /\ Len(s) = Len(body) + 2
      /\ s[1].type = type /\ s[2].n = Len(body)
      /\ \A i \in 1 .. Len(body) : s[i + 2].n = body[i]
  BY FrameShape
<1>2. Len(body) \in Nat /\ body = [i \in 1 .. Len(body) |-> body[i]]
  BY LenProperties DEF Body
<1> HIDE DEF s
<1>3. Whole(s)
  BY <1>1, <1>2 DEF Whole
<1>4. [i \in 1 .. Len(body) |-> s[i + 2].n] = body
  BY <1>1, <1>2
<1>5. Received(s) = [type |-> type, body |-> body]
  BY <1>1, <1>4 DEF Received
<1>6. Rest(s) = <<>>
  <2>1. s[2].n + 3 \in Int /\ Len(s) \in Int /\ Len(s) < s[2].n + 3
    BY <1>1, <1>2
  <2> QED
    BY <2>1, SubSeqEmpty, Zenon DEF Rest
<1> QED
  BY <1>3, <1>5, <1>6 DEF s

(* The rest of a stream and what of it gets through are streams.           *)
LEMMA StreamParts ==
  ASSUME NEW s \in Seq(Word), NEW n \in Nat
  PROVE  /\ Cut(s, n) \in Seq(Word)
         /\ Len(Cut(s, n)) = IF n < Len(s) THEN n ELSE Len(s)
         /\ \A i \in 1 .. Len(Cut(s, n)) : Cut(s, n)[i] = s[i]
<1> DEFINE m == IF n < Len(s) THEN n ELSE Len(s)
<1>1. Len(s) \in Nat /\ m \in Nat /\ m <= Len(s)
  BY LenProperties
<1>2. \A i \in 1 .. m : s[i] \in Word
  BY <1>1, ElementOfSeq
<1> HIDE DEF m
<1>3. /\ SubSeq(s, 1, m) \in Seq(Word) /\ Len(SubSeq(s, 1, m)) = IF 1 <= m THEN m - 1 + 1 ELSE 0
      /\ \A i \in 1 .. m - 1 + 1 : SubSeq(s, 1, m)[i] = s[1 + i - 1]
  BY <1>1, <1>2, SubSeqProperties
<1>4. Len(SubSeq(s, 1, m)) = m
  BY <1>1, <1>3
<1>5. \A i \in 1 .. m : SubSeq(s, 1, m)[i] = s[i]
  BY <1>1, <1>3
<1> QED
  BY <1>3, <1>4, <1>5 DEF Cut, m

(* A stream that ends with the message it begins with, and what of such a  *)
(* stream gets through when the server ends.                               *)
Exact(s) == s \in Seq(Word) /\ (Whole(s) => Len(s) = s[2].n + 2)

LEMMA ExactFrame ==
  ASSUME NEW type \in Kind \cup {"none"}, NEW body \in Body
  PROVE  Exact(Frame(type, body))
<1>1. Len(body) \in Nat
  BY LenProperties DEF Body
<1> QED
  BY <1>1, FrameShape DEF Exact

LEMMA ExactRest ==
  ASSUME NEW s, Exact(s), Whole(s)
  PROVE  Rest(s) = <<>>
<1>1. Len(s) \in Nat /\ Len(s) = s[2].n + 2 /\ Len(s) >= 2
  BY LenProperties DEF Exact, Whole
<1>2. s[2] \in Word
  BY <1>1, ElementOfSeq DEF Exact
<1>3. s[2].n \in Int
  BY <1>2 DEF Word
<1>4. s[2].n + 3 \in Int /\ Len(s) \in Int /\ Len(s) < s[2].n + 3
  BY <1>1, <1>3
<1> QED
  BY <1>4, SubSeqEmpty, Zenon DEF Rest

LEMMA ExactCut ==
  ASSUME NEW s, Exact(s), NEW n \in Nat
  PROVE  Exact(Cut(s, n)) /\ (Whole(Cut(s, n)) => Cut(s, n) = s)
<1>1. /\ s \in Seq(Word) /\ Len(s) \in Nat
      /\ Cut(s, n) \in Seq(Word)
      /\ Len(Cut(s, n)) = IF n < Len(s) THEN n ELSE Len(s)
      /\ \A i \in 1 .. Len(Cut(s, n)) : Cut(s, n)[i] = s[i]
  BY StreamParts, LenProperties DEF Exact
<1>2. ASSUME Whole(Cut(s, n)) PROVE Cut(s, n) = s
  <2>1. Len(Cut(s, n)) >= 2 /\ Cut(s, n)[2] = s[2] /\ Len(Cut(s, n)) >= 2 + s[2].n
    BY <1>1, <1>2 DEF Whole
  <2>2. s[2] \in Word
    BY <1>1, <2>1, ElementOfSeq
  <2>3. s[2].n \in Int
    BY <2>2 DEF Word
  <2>4. Whole(s)
    BY <1>1, <2>1, <2>3 DEF Whole
  <2>5. Len(s) = s[2].n + 2
    BY <2>4 DEF Exact
  <2>6. Len(Cut(s, n)) = Len(s)
    BY <1>1, <2>1, <2>3, <2>5
  <2> QED
    BY <1>1, <2>6, SeqEqual
<1> QED
  BY <1>1, <1>2 DEF Exact

LEMMA Nothing ==
  /\ Exact(<<>>) /\ ~Whole(<<>>) /\ \A n \in Nat : Cut(<<>>, n) = <<>>
<1>1. Exact(<<>>) /\ ~Whole(<<>>)
  BY DEF Exact, Whole
<1>2. ASSUME NEW n \in Nat PROVE Cut(<<>>, n) = <<>>
  <2>1. Cut(<<>>, n) = SubSeq(<<>>, 1, 0)
    BY DEF Cut
  <2> QED
    BY <2>1, SubSeqEmpty
<1> QED
  BY <1>1, <1>2

-----------------------------------------------------------------------------
(* Where the request of a client is.  It carries the positions of an       *)
(* action, if it is one; its answer has the number of the action, or says  *)
(* that it was refused.                                                    *)
Asked(c, body)   == body \in Body /\ (call[c].kind = "action" => body = <<call[c].n, call[c].n>>)
Answers(c, body) == call[c].kind = "action" => body \in {<<call[c].n>>, <<-1>>}

Silent(k) == up[k] = <<>> /\ down[k] = <<>>

(* Nobody waits.                                                           *)
Quiet(c, k) ==
  /\ Silent(k)
  /\ pc[c] = "send" => thread[k] \in {"backlog", "read", "ended"}
  /\ pc[c] = "idle" => thread[k] \in {"read", "ended"}
  /\ pc[c] = "bye"  => thread[k] \in {"lost", "close", "ended"}

(* The four places of a request: sent, handled, answered and replied to;   *)
(* with the server's end of the connection the last comes early.           *)
Sent(c, k) ==
  /\ thread[k] \in {"backlog", "read"} /\ down[k] = <<>>
  /\ \E b \in Body : Asked(c, b) /\ up[k] = Frame(call[c].kind, b)

Handled(c, k) ==
  /\ thread[k] = "handle" /\ Silent(k)
  /\ \E b \in Body : Asked(c, b) /\ message[k] = [type |-> call[c].kind, body |-> b]

Answered(c, k) ==
  /\ thread[k] = "reply" /\ Silent(k)
  /\ \E b \in Body : Answers(c, b) /\ message[k] = [type |-> call[c].kind, body |-> b]

Replied(c, k) ==
  /\ thread[k] \in IF call[c].kind = "goodbye" THEN {"lost", "close", "ended"}
                   ELSE {"read", "ended"}
  /\ up[k] = <<>> /\ Exact(down[k])
  /\ thread[k] # "ended" => Whole(down[k])
  /\ Whole(down[k]) => /\ Received(down[k]).type = call[c].kind
                       /\ Answers(c, Received(down[k]).body)

(* What the send buffer holds of a connection that still works: nothing of *)
(* an earlier request.                                                     *)
Buffered(c, k) == thread[k] # "ended" =>
  /\ pc[c] = "send" /\ call[c].kind = "action" => sbuf[c] = <<call[c].n, call[c].n>>
  /\ pc[c] \in {"idle", "wait"} => sbuf[c] = <<>>

Linked(c, k) ==
  /\ k \in Conn /\ k <= made /\ client[k]
  /\ IF pc[c] = "wait"
     THEN Sent(c, k) \/ Handled(c, k) \/ Answered(c, k) \/ Replied(c, k)
     ELSE Quiet(c, k)
  /\ Buffered(c, k)

Stage(c) == IF link[c] = 0 THEN pc[c] = "idle" ELSE Linked(c, link[c])

Match(c) == pc[c] \in {"idle", "bye"} /\ result[c] = 1 =>
  reply[c].type = call[c].kind /\ Answers(c, reply[c].body)

EndTypes ==
  /\ link \in [Client -> Nat] /\ pc \in [Client -> {"idle", "send", "wait", "bye"}]
  /\ call \in [Client -> [kind : Kind, n : Int]] /\ sbuf \in [Client -> Body]
  /\ DOMAIN reply = Client /\ DOMAIN result = Client /\ calls \in Int

StreamTypes ==
  DOMAIN up = Conn /\ DOMAIN down = Conn /\ DOMAIN client = Conn /\ DOMAIN message = Conn

OneClient == \A c, d \in Client : link[c] # 0 /\ link[c] = link[d] => c = d

UnmadeSilent == \A k \in Conn : k > made => Silent(k)

StageInv ==
  /\ DescriptorInv /\ EndTypes /\ StreamTypes /\ OneClient /\ UnmadeSilent
  /\ \A c \in Client : Stage(c) /\ Match(c)

(* Nothing changes for a client by what others do on other connections.    *)
LEMMA OtherClient ==
  ASSUME StageInv, NEW d \in Client,
         /\ link'[d] = link[d] /\ pc'[d] = pc[d] /\ call'[d] = call[d]
         /\ sbuf'[d] = sbuf[d] /\ reply'[d] = reply[d] /\ result'[d] = result[d],
         made' \in Nat, made' >= made,
         LET k == link[d] IN
           k # 0 => /\ up'[k] = up[k] /\ down'[k] = down[k] /\ client'[k] = client[k]
                    /\ thread'[k] = thread[k] /\ message'[k] = message[k]
  PROVE  Stage(d)' /\ Match(d)'
<1>0. PICK k \in Nat : k = link[d]
  BY DEF StageInv, EndTypes
<1>1. Match(d)'
  BY DEF StageInv, Match, Answers
<1>2. CASE k = 0
  BY <1>0, <1>1, <1>2 DEF StageInv, Stage
<1>3. CASE k # 0
  <2>1. Linked(d, k)
    BY <1>0, <1>3 DEF StageInv, Stage
  <2>2. made \in Nat /\ k \in Conn /\ k <= made
    BY <2>1, SessionAssumption DEF StageInv, DescriptorInv, TypesOK, Linked
  <2>3. k <= made'
    BY <2>2
  <2>4. /\ up'[k] = up[k] /\ down'[k] = down[k] /\ client'[k] = client[k]
        /\ thread'[k] = thread[k] /\ message'[k] = message[k]
    BY <1>0, <1>3
  <2>5. /\ Sent(d, k)' <=> Sent(d, k)
        /\ Handled(d, k)' <=> Handled(d, k)
        /\ Answered(d, k)' <=> Answered(d, k)
        /\ Replied(d, k)' <=> Replied(d, k)
        /\ Quiet(d, k)' <=> Quiet(d, k)
        /\ Buffered(d, k)' <=> Buffered(d, k)
    BY <2>4 DEF Sent, Handled, Answered, Replied, Quiet, Buffered, Silent, Asked, Answers
  <2>6. Linked(d, k)'
    BY <2>1, <2>3, <2>4, <2>5 DEF Linked
  <2> QED
    BY <1>0, <1>1, <1>3, <2>6 DEF Stage
<1> QED
  BY <1>2, <1>3

(* A step of client c on its connection concerns no other client.          *)
LEMMA ClientStep ==
  ASSUME StageInv, NEW c \in Client, NEW k \in Nat, k = link[c], k # 0,
         \A d \in Client \ {c} :
           /\ link'[d] = link[d] /\ pc'[d] = pc[d] /\ call'[d] = call[d]
           /\ sbuf'[d] = sbuf[d] /\ reply'[d] = reply[d] /\ result'[d] = result[d],
         \A j \in Conn \ {k} : up'[j] = up[j] /\ down'[j] = down[j] /\ client'[j] = client[j],
         UNCHANGED <<made, threads>>, link'[c] \in {k, 0},
         EndTypes', StreamTypes', Stage(c)', Match(c)'
  PROVE  StageInv'
<1>1. made \in Nat /\ UNCHANGED <<thread, fd, message, player>>
  BY SessionAssumption DEF StageInv, DescriptorInv, TypesOK, threads
<1>2. DescriptorInv'
  BY <1>1, OthersDescriptor DEF StageInv
<1>3. Linked(c, k)
  BY DEF StageInv, Stage
<1>4. k \in Conn /\ k <= made
  BY <1>3 DEF Linked
<1>5. OneClient'
  BY DEF StageInv, OneClient
<1>6. UnmadeSilent'
  <2>1. \A j \in Conn : j > made => j # k
    BY <1>1, <1>4
  <2> QED
    BY <2>1 DEF StageInv, UnmadeSilent, Silent
<1>7. ASSUME NEW d \in Client \ {c} PROVE Stage(d)' /\ Match(d)'
  <2>1. link[d] # 0 => link[d] \in Conn /\ link[d] # k
    BY DEF StageInv, OneClient, Stage, Linked
  <2>2. /\ link'[d] = link[d] /\ pc'[d] = pc[d] /\ call'[d] = call[d]
        /\ sbuf'[d] = sbuf[d] /\ reply'[d] = reply[d] /\ result'[d] = result[d]
    OBVIOUS
  <2>3. made' \in Nat /\ made' >= made
    BY <1>1
  <2>4. link[d] # 0 => /\ up'[link[d]] = up[link[d]] /\ down'[link[d]] = down[link[d]]
                       /\ client'[link[d]] = client[link[d]]
                       /\ thread'[link[d]] = thread[link[d]]
                       /\ message'[link[d]] = message[link[d]]
    BY <1>1, <2>1
  <2> QED
    BY <2>2, <2>3, <2>4, OtherClient
<1> QED
  BY <1>2, <1>5, <1>6, <1>7 DEF StageInv

(* What Stage says of a connection.                                        *)
LEMMA LinkedTo ==
  ASSUME StageInv, NEW c \in Client, link[c] # 0 \/ pc[c] # "idle"
  PROVE  link[c] # 0 /\ link[c] \in Nat /\ link[c] \in Conn /\ Linked(c, link[c])
  BY DEF StageInv, Stage, Linked, EndTypes

(* An action puts its two positions into an empty buffer.                  *)
LEMMA MarshallTwice ==
  ASSUME Space >= 3, NEW n \in Int
  PROVE  Marshall(Marshall(<<>>, n), n) = <<n, n>>
<1>1. Space \in Nat
  BY SessionAssumption
<1>2. Len(<<>>) + 1 < Space /\ Append(<<>>, n) = <<n>>
  BY <1>1
<1>3. Marshall(<<>>, n) = <<n>>
  BY <1>2 DEF Marshall
<1>4. Len(<<n>>) + 1 < Space
  <2>1. Len(<<n>>) = 1
    OBVIOUS
  <2> QED
    BY <1>1, <2>1
<1>5. Append(<<n>>, n) = <<n, n>>
  <2>1. <<n>> \in Seq(Int) /\ Len(<<n>>) = 1 /\ <<n>>[1] = n
    OBVIOUS
  <2>2. <<n, n>> \in Seq(Int) /\ Len(<<n, n>>) = 2 /\ <<n, n>>[1] = n /\ <<n, n>>[2] = n
    OBVIOUS
  <2>3. Append(<<n>>, n) \in Seq(Int) /\ Len(Append(<<n>>, n)) = 2
    BY <2>1, AppendProperties
  <2>4. Append(<<n>>, n)[1] = n /\ Append(<<n>>, n)[2] = n
    BY <2>1, AppendProperties
  <2>5. \A i \in 1 .. 2 : Append(<<n>>, n)[i] = <<n, n>>[i]
    BY <2>2, <2>4
  <2> QED
    BY <2>2, <2>3, <2>5, SeqEqual
<1>6. Marshall(<<n>>, n) = <<n, n>>
  BY <1>4, <1>5 DEF Marshall
<1> QED
  BY <1>3, <1>6

LEMMA MarshallType ==
  ASSUME NEW b \in Body, NEW n \in Int
  PROVE  Marshall(b, n) \in Body
  BY DEF Marshall, Body

LEMMA IssueStage ==
  ASSUME StageInv, Space >= 3, NEW c \in Client, NEW kind \in Kind, Issue(c, kind)
  PROVE  StageInv'
<1>1. PICK k \in Nat : k = link[c] /\ k # 0 /\ k \in Conn /\ Linked(c, k)
  BY LinkedTo DEF Issue
<1>2. /\ pc[c] = "idle" /\ calls' = calls + 1 /\ calls \in Int
      /\ call' = [call EXCEPT ![c] = [kind |-> kind, n |-> calls + 1]]
      /\ pc' = [pc EXCEPT ![c] = "send"]
      /\ UNCHANGED <<link, reply, result, up, down, client, made, threads>>
  BY DEF Issue, Start, StageInv, EndTypes, streams
<1>3. sbuf' = IF kind # "action" THEN sbuf
              ELSE [sbuf EXCEPT ![c] = Marshall(Marshall(@, calls'), calls')]
  BY DEF Issue
<1>4. sbuf \in [Client -> Body] /\ sbuf' \in [Client -> Body]
  <2>1. sbuf \in [Client -> Body]
    BY DEF StageInv, EndTypes
  <2>2. Marshall(Marshall(sbuf[c], calls'), calls') \in Body
    BY <1>2, <2>1, MarshallType
  <2> QED
    BY <1>3, <2>1, <2>2
<1>5. EndTypes' /\ StreamTypes'
  <2>1. call' \in [Client -> [kind : Kind, n : Int]] /\ calls' \in Int
    BY <1>2 DEF StageInv, EndTypes
  <2>2. pc' \in [Client -> {"idle", "send", "wait", "bye"}]
    BY <1>2 DEF StageInv, EndTypes
  <2> QED
    BY <1>2, <1>4, <2>1, <2>2 DEF StageInv, EndTypes, StreamTypes, threads
<1>6. Quiet(c, k) /\ thread[k] \in {"read", "ended"}
  BY <1>1, <1>2 DEF Linked, Quiet
<1>7. Quiet(c, k)'
  BY <1>2, <1>6 DEF Quiet, Silent, threads, StageInv, EndTypes
<1>8. Buffered(c, k)'
  <2>1. pc'[c] = "send" /\ call'[c] = [kind |-> kind, n |-> calls']
    BY <1>2 DEF StageInv, EndTypes
  <2>2. ASSUME thread[k] # "ended", kind = "action" PROVE sbuf'[c] = <<calls', calls'>>
    <3>1. sbuf[c] = <<>>
      BY <1>1, <1>2, <2>2 DEF Linked, Buffered
    <3>2. sbuf'[c] = Marshall(Marshall(sbuf[c], calls'), calls')
      BY <1>3, <1>4, <2>2
    <3>3. calls' \in Int
      BY <1>2
    <3> QED
      BY <3>1, <3>2, <3>3, MarshallTwice
  <2> QED
    BY <1>2, <2>1, <2>2 DEF Buffered, threads
<1>9. Stage(c)' /\ Match(c)'
  BY <1>1, <1>2, <1>7, <1>8 DEF Stage, Linked, Match, StageInv, EndTypes, threads
<1>10. \A d \in Client \ {c} :
         /\ link'[d] = link[d] /\ pc'[d] = pc[d] /\ call'[d] = call[d]
         /\ sbuf'[d] = sbuf[d] /\ reply'[d] = reply[d] /\ result'[d] = result[d]
  BY <1>2, <1>3, <1>4 DEF StageInv, EndTypes
<1> QED
  BY <1>1, <1>2, <1>5, <1>9, <1>10, ClientStep

LEMMA SendStage ==
  ASSUME StageInv, NEW c \in Client, Send(c)
  PROVE  StageInv'
<1>1. PICK k \in Nat : k = link[c] /\ k # 0 /\ k \in Conn /\ Linked(c, k)
  BY LinkedTo DEF Send
<1>2. /\ pc[c] = "send" /\ pc' = [pc EXCEPT ![c] = "wait"]
      /\ \/ sbuf' = [sbuf EXCEPT ![c] = <<>>]
         \/ thread[k] = "ended" /\ sbuf' = sbuf
      /\ up' = IF thread[k] = "ended" THEN up
               ELSE [up EXCEPT ![k] = @ \o Frame(call[c].kind, sbuf[c])]
      /\ UNCHANGED <<link, call, reply, result, down, client, threads, made, calls>>
  BY <1>1 DEF Send, counters
<1>3. EndTypes' /\ StreamTypes'
  <2>1. <<>> \in Body
    BY DEF Body
  <2>2. sbuf' \in [Client -> Body] /\ pc' \in [Client -> {"idle", "send", "wait", "bye"}]
    BY <1>2, <2>1 DEF StageInv, EndTypes
  <2>3. DOMAIN up' = Conn
    BY <1>2 DEF StageInv, StreamTypes
  <2> QED
    BY <1>2, <2>2, <2>3 DEF StageInv, EndTypes, StreamTypes, threads
<1>4. /\ Silent(k) /\ thread[k] \in {"backlog", "read", "ended"} /\ Buffered(c, k)
      /\ call[c].kind \in Kind /\ sbuf[c] \in Body
  BY <1>1, <1>2 DEF Linked, Quiet, StageInv, EndTypes
<1>5. Buffered(c, k)'
  BY <1>2, <1>4 DEF Buffered, StageInv, EndTypes, threads
<1>6. CASE thread[k] = "ended"
  <2>1. Replied(c, k)'
    BY <1>2, <1>4, <1>6, Nothing DEF Replied, Silent, threads
  <2>2. pc'[c] = "wait" /\ \A d \in Client \ {c} : pc'[d] = pc[d] /\ sbuf'[d] = sbuf[d]
    BY <1>2 DEF StageInv, EndTypes
  <2>3. Stage(c)' /\ Match(c)'
    BY <1>1, <1>2, <1>5, <2>1, <2>2 DEF Stage, Linked, Match
  <2> QED
    BY <1>1, <1>2, <1>3, <1>6, <2>2, <2>3, ClientStep
<1>7. CASE thread[k] # "ended"
  <2>1. up'[k] = Frame(call[c].kind, sbuf[c])
    <3>1. up'[k] = <<>> \o Frame(call[c].kind, sbuf[c])
      BY <1>1, <1>2, <1>4, <1>7 DEF Silent, StageInv, StreamTypes
    <3>2. Frame(call[c].kind, sbuf[c]) \in Seq(Word)
      BY <1>4, FrameShape
    <3> QED
      BY <3>1, <3>2, ConcatEmptySeq
  <2>2. Asked(c, sbuf[c])
    BY <1>2, <1>4, <1>7 DEF Asked, Buffered
  <2>4. Sent(c, k)'
    BY <1>2, <1>4, <1>7, <2>1, <2>2 DEF Sent, Asked, Silent, threads
  <2>5. Stage(c)' /\ Match(c)'
    BY <1>1, <1>2, <1>5, <2>4 DEF Stage, Linked, Match, StageInv, EndTypes, threads
  <2>6. \A j \in Conn \ {k} : up'[j] = up[j]
    BY <1>2, <1>7 DEF StageInv, StreamTypes
  <2>7. \A d \in Client \ {c} : pc'[d] = pc[d] /\ sbuf'[d] = sbuf[d]
    BY <1>2, <1>7 DEF StageInv, EndTypes
  <2> QED
    BY <1>1, <1>2, <1>3, <2>5, <2>6, <2>7, ClientStep
<1> QED
  BY <1>6, <1>7

LEMMA ReceiveStage ==
  ASSUME StageInv, NEW c \in Client, Receive(c)
  PROVE  StageInv'
<1>1. PICK k \in Nat : k = link[c] /\ k # 0 /\ k \in Conn /\ Linked(c, k)
  BY LinkedTo DEF Receive
<1>2. /\ pc[c] = "wait"
      /\ pc' = [pc EXCEPT ![c] = IF call[c].kind = "goodbye" THEN "bye" ELSE "idle"]
      /\ UNCHANGED <<link, call, sbuf, up, client, threads, made, calls>>
  BY DEF Receive, Returned, counters
<1>3. \/ /\ Whole(down[k]) /\ reply' = [reply EXCEPT ![c] = Received(down[k])]
         /\ down' = [down EXCEPT ![k] = Rest(down[k])] /\ result' = [result EXCEPT ![c] = 1]
      \/ /\ ~Whole(down[k]) /\ thread[k] = "ended"
         /\ reply' = [reply EXCEPT ![c].type = IF down[k] = <<>> THEN "none" ELSE down[k][1].type]
         /\ down' = [down EXCEPT ![k] = <<>>] /\ result' = [result EXCEPT ![c] = -1]
  BY <1>1 DEF Receive
<1>4. Replied(c, k)
  <2>1. Sent(c, k) => ~Whole(down[k]) /\ thread[k] # "ended"
    BY Nothing DEF Sent
  <2>2. Handled(c, k) \/ Answered(c, k) => ~Whole(down[k]) /\ thread[k] # "ended"
    BY Nothing DEF Handled, Answered, Silent
  <2> QED
    BY <1>1, <1>2, <1>3, <2>1, <2>2 DEF Linked
<1>5. down' = [down EXCEPT ![k] = <<>>]
  BY <1>3, <1>4, ExactRest DEF Replied
<1>6. pc' \in [Client -> {"idle", "send", "wait", "bye"}]
  BY <1>2 DEF StageInv, EndTypes
<1>7. DOMAIN reply' = Client /\ DOMAIN result' = Client
  BY <1>3 DEF StageInv, EndTypes
<1>8. EndTypes' /\ StreamTypes'
  BY <1>2, <1>5, <1>6, <1>7 DEF StageInv, EndTypes, StreamTypes, threads
<1>9. Quiet(c, k)'
  <2>1. Silent(k)'
    BY <1>1, <1>2, <1>4, <1>5 DEF Silent, Replied, StageInv, StreamTypes
  <2>2. pc'[c] = IF call[c].kind = "goodbye" THEN "bye" ELSE "idle"
    BY <1>2 DEF StageInv, EndTypes
  <2>3. thread'[k] = thread[k]
    BY <1>2 DEF threads
  <2> QED
    BY <1>4, <2>1, <2>2, <2>3 DEF Quiet, Replied
<1>10. pc'[c] \in {"idle", "bye"} /\ thread' = thread
  BY <1>2 DEF StageInv, EndTypes, threads
<1>11. Buffered(c, k)'
  BY <1>1, <1>2, <1>10 DEF Linked, Buffered
<1>12. Stage(c)'
  BY <1>1, <1>2, <1>9, <1>10, <1>11 DEF Stage, Linked
<1>13. Match(c)'
  <2>1. CASE Whole(down[k])
    <3>1. reply'[c] = Received(down[k])
      BY <1>3, <2>1 DEF StageInv, EndTypes
    <3> QED
      BY <1>2, <1>4, <2>1, <3>1 DEF Match, Replied, Answers
  <2>2. CASE ~Whole(down[k])
    <3>1. result'[c] = -1
      BY <1>3, <2>2 DEF StageInv, EndTypes
    <3> QED
      BY <3>1 DEF Match
  <2> QED
    BY <2>1, <2>2
<1>14. \A d \in Client \ {c} : pc'[d] = pc[d] /\ reply'[d] = reply[d] /\ result'[d] = result[d]
  BY <1>2, <1>3 DEF StageInv, EndTypes
<1>15. \A j \in Conn \ {k} : down'[j] = down[j]
  BY <1>5 DEF StageInv, StreamTypes
<1> QED
  BY <1>1, <1>2, <1>8, <1>12, <1>13, <1>14, <1>15, ClientStep

LEMMA DisconnectStage ==
  ASSUME StageInv, NEW c \in Client, Disconnect(c)
  PROVE  StageInv'
<1>1. PICK k \in Nat : k = link[c] /\ k # 0 /\ k \in Conn /\ Linked(c, k)
  BY LinkedTo DEF Disconnect
<1>2. /\ pc[c] = "bye" /\ pc' = [pc EXCEPT ![c] = "idle"]
      /\ client' = [client EXCEPT ![k] = FALSE] /\ link' = [link EXCEPT ![c] = 0]
      /\ down' = [down EXCEPT ![k] = <<>>]
      /\ UNCHANGED <<call, sbuf, reply, result, up, threads, made, calls>>
  BY <1>1 DEF Disconnect, counters
<1>3. /\ pc' \in [Client -> {"idle", "send", "wait", "bye"}] /\ link' \in [Client -> Nat]
      /\ pc'[c] = "idle" /\ link'[c] = 0
      /\ \A d \in Client \ {c} : pc'[d] = pc[d] /\ link'[d] = link[d]
  BY <1>2 DEF StageInv, EndTypes
<1>4. EndTypes' /\ StreamTypes'
  BY <1>2, <1>3 DEF StageInv, EndTypes, StreamTypes, threads
<1>5. Stage(c)' /\ Match(c)'
  BY <1>2, <1>3 DEF StageInv, Stage, Match, Answers
<1>6. /\ \A j \in Conn \ {k} : up'[j] = up[j] /\ down'[j] = down[j] /\ client'[j] = client[j]
      /\ UNCHANGED <<made, threads>>
  BY <1>2 DEF StageInv, StreamTypes
<1>7. \A d \in Client \ {c} :
        /\ link'[d] = link[d] /\ pc'[d] = pc[d] /\ call'[d] = call[d]
        /\ sbuf'[d] = sbuf[d] /\ reply'[d] = reply[d] /\ result'[d] = result[d]
  BY <1>2, <1>3
<1> QED
  BY <1>1, <1>3, <1>4, <1>5, <1>6, <1>7, ClientStep

LEMMA KillStage ==
  ASSUME StageInv, NEW c \in Client, Kill(c)
  PROVE  StageInv'
<1>1. PICK k \in Nat : k = link[c] /\ k # 0 /\ k \in Conn /\ Linked(c, k)
  BY LinkedTo DEF Kill
<1>2. PICK n \in {1, 3, 4} : up' = [up EXCEPT ![k] = Cut(@, n)]
  BY <1>1 DEF Kill
<1>3. /\ pc' = [pc EXCEPT ![c] = "idle"] /\ sbuf' = [sbuf EXCEPT ![c] = <<>>]
      /\ client' = [client EXCEPT ![k] = FALSE] /\ link' = [link EXCEPT ![c] = 0]
      /\ reply' = [reply EXCEPT ![c] = NoReply] /\ result' = [result EXCEPT ![c] = 0]
      /\ down' = [down EXCEPT ![k] = <<>>]
      /\ UNCHANGED <<call, threads, made, calls>>
  BY <1>1 DEF Kill, counters
<1>4. /\ pc' \in [Client -> {"idle", "send", "wait", "bye"}] /\ link' \in [Client -> Nat]
      /\ pc'[c] = "idle" /\ link'[c] = 0
      /\ \A d \in Client \ {c} : pc'[d] = pc[d] /\ link'[d] = link[d]
  BY <1>3 DEF StageInv, EndTypes
<1>5. /\ sbuf' \in [Client -> Body] /\ DOMAIN reply' = Client /\ DOMAIN result' = Client
      /\ result'[c] = 0
      /\ \A d \in Client \ {c} : sbuf'[d] = sbuf[d] /\ reply'[d] = reply[d] /\ result'[d] = result[d]
  <2>1. <<>> \in Body
    BY DEF Body
  <2> QED
    BY <1>3, <2>1 DEF StageInv, EndTypes
<1>6. EndTypes' /\ StreamTypes'
  BY <1>2, <1>3, <1>4, <1>5 DEF StageInv, EndTypes, StreamTypes, threads
<1>7. Stage(c)' /\ Match(c)'
  BY <1>4, <1>5 DEF Stage, Match
<1>8. \A j \in Conn \ {k} : up'[j] = up[j] /\ down'[j] = down[j] /\ client'[j] = client[j]
  BY <1>2, <1>3 DEF StageInv, StreamTypes
<1>9. \A d \in Client \ {c} :
        /\ link'[d] = link[d] /\ pc'[d] = pc[d] /\ call'[d] = call[d]
        /\ sbuf'[d] = sbuf[d] /\ reply'[d] = reply[d] /\ result'[d] = result[d]
  BY <1>3, <1>4, <1>5
<1> QED
  BY <1>1, <1>3, <1>4, <1>6, <1>7, <1>8, <1>9, ClientStep

(* A new connection has a number no client has, and its streams are empty. *)
LEMMA ConnectStage ==
  ASSUME StageInv, NEW c \in Client, Connect(c)
  PROVE  StageInv'
<1>1. PICK k \in Nat : k = made + 1
  BY SessionAssumption DEF StageInv, DescriptorInv, TypesOK
<1>2. /\ made \in Nat /\ k \in Conn /\ k > made /\ made' = k /\ link[c] = 0
  BY <1>1, SessionAssumption DEF StageInv, DescriptorInv, TypesOK, Connect, Conn
<1>3. /\ calls' = calls + 1 /\ call' = [call EXCEPT ![c] = [kind |-> "sync", n |-> calls + 1]]
      /\ pc' = [pc EXCEPT ![c] = "send"] /\ link' = [link EXCEPT ![c] = k]
      /\ client' = [client EXCEPT ![k] = TRUE] /\ thread' = [thread EXCEPT ![k] = "backlog"]
      /\ UNCHANGED <<sbuf, reply, result, up, down, fd, message, player>>
  BY <1>2 DEF Connect, Start, streams
<1>4. DescriptorInv'
  BY ConnectDescriptor DEF StageInv
<1>5. /\ pc' \in [Client -> {"idle", "send", "wait", "bye"}] /\ link' \in [Client -> Nat]
      /\ call' \in [Client -> [kind : Kind, n : Int]] /\ calls' \in Int
      /\ pc'[c] = "send" /\ link'[c] = k /\ call'[c].kind = "sync"
      /\ \A d \in Client \ {c} : pc'[d] = pc[d] /\ link'[d] = link[d] /\ call'[d] = call[d]
  BY <1>3 DEF StageInv, EndTypes, Kind
<1>6. EndTypes' /\ StreamTypes'
  BY <1>3, <1>5 DEF StageInv, EndTypes, StreamTypes
<1>7. \A d \in Client \ {c} : link[d] # 0 => link[d] \in Conn /\ link[d] # k
  <2>1. \A d \in Client : link[d] # 0 => link[d] \in Conn /\ link[d] <= made
    BY DEF StageInv, Stage, Linked
  <2> QED
    BY <1>1, <1>2, <2>1
<1>8. OneClient'
  BY <1>2, <1>5, <1>7 DEF StageInv, OneClient
<1>9. UnmadeSilent'
  BY <1>1, <1>2, <1>3 DEF StageInv, UnmadeSilent, Silent, Conn
<1>10. Stage(c)' /\ Match(c)'
  <2>1. Silent(k)'
    BY <1>2, <1>3 DEF StageInv, UnmadeSilent, Silent
  <2>2. thread'[k] = "backlog"
    BY <1>2, <1>3 DEF StageInv, DescriptorInv, TypesOK
  <2>3. client'[k] = TRUE
    BY <1>2, <1>3 DEF StageInv, StreamTypes
  <2>4. Quiet(c, k)' /\ Buffered(c, k)'
    BY <1>5, <2>1, <2>2 DEF Quiet, Buffered
  <2>5. Linked(c, k)'
    BY <1>2, <1>5, <2>3, <2>4 DEF Linked
  <2> QED
    BY <1>1, <1>2, <1>5, <2>5 DEF Stage, Match
<1>11. ASSUME NEW d \in Client \ {c} PROVE Stage(d)' /\ Match(d)'
  <2>1. /\ link'[d] = link[d] /\ pc'[d] = pc[d] /\ call'[d] = call[d]
        /\ sbuf'[d] = sbuf[d] /\ reply'[d] = reply[d] /\ result'[d] = result[d]
    BY <1>3, <1>5
  <2>2. made' \in Nat /\ made' >= made
    BY <1>1, <1>2
  <2>3. link[d] # 0 => /\ up'[link[d]] = up[link[d]] /\ down'[link[d]] = down[link[d]]
                       /\ client'[link[d]] = client[link[d]]
                       /\ thread'[link[d]] = thread[link[d]]
                       /\ message'[link[d]] = message[link[d]]
    BY <1>3, <1>7 DEF StageInv, StreamTypes, DescriptorInv, TypesOK
  <2> QED
    BY <2>1, <2>2, <2>3, OtherClient
<1> QED
  BY <1>4, <1>6, <1>8, <1>9, <1>10, <1>11 DEF StageInv

(* A step of the thread of connection k concerns the client of k only.     *)
LEMMA ThreadStep ==
  ASSUME StageInv, NEW k \in Conn, Dispatch(k), thread[k] # "none",
         StreamTypes', ClientStill,
         \A j \in Conn \ {k} : up'[j] = up[j] /\ down'[j] = down[j]
                               /\ thread'[j] = thread[j] /\ message'[j] = message[j],
         \A c \in Client : link[c] = k => Linked(c, k)'
  PROVE  StageInv'
<1>1. /\ made \in Nat /\ k \in Nat /\ k # 0 /\ k <= made
      /\ UNCHANGED <<link, pc, call, sbuf, reply, result, client, made, calls>>
  BY SessionAssumption
  DEF StageInv, DescriptorInv, TypesOK, UnmadeOK, Conn, ClientStill, ends, counters
<1>2. DescriptorInv'
  BY DispatchDescriptor DEF StageInv
<1>3. EndTypes' /\ OneClient'
  BY <1>1 DEF StageInv, EndTypes, OneClient
<1>4. UnmadeSilent'
  <2>1. \A j \in Conn : j > made => j # k
    BY <1>1
  <2> QED
    BY <1>1, <2>1 DEF StageInv, UnmadeSilent, Silent
<1>5. ASSUME NEW d \in Client PROVE Stage(d)' /\ Match(d)'
  <2>1. CASE link[d] = k
    BY <1>1, <2>1 DEF StageInv, Stage, Match, Answers
  <2>2. CASE link[d] # k
    <3>1. link[d] # 0 => link[d] \in Conn
      BY DEF StageInv, Stage, Linked
    <3>2. /\ link'[d] = link[d] /\ pc'[d] = pc[d] /\ call'[d] = call[d]
          /\ sbuf'[d] = sbuf[d] /\ reply'[d] = reply[d] /\ result'[d] = result[d]
      BY <1>1
    <3>3. made' \in Nat /\ made' >= made
      BY <1>1
    <3>4. link[d] # 0 => /\ up'[link[d]] = up[link[d]] /\ down'[link[d]] = down[link[d]]
                         /\ client'[link[d]] = client[link[d]]
                         /\ thread'[link[d]] = thread[link[d]]
                         /\ message'[link[d]] = message[link[d]]
      BY <1>1, <2>2, <3>1
    <3> QED
      BY <3>2, <3>3, <3>4, OtherClient
  <2> QED
    BY <2>1, <2>2
<1> QED
  BY <1>2, <1>3, <1>4, <1>5, StreamTypes' DEF StageInv

(* What a step of the thread finds, by where the thread is.                *)
LEMMA ClientOf ==
  ASSUME StageInv, NEW k \in Conn, NEW c \in Client, link[c] = k
  PROVE  /\ Linked(c, k) /\ pc[c] \in {"idle", "send", "wait", "bye"}
         /\ call[c].kind \in Kind
  BY SessionAssumption DEF StageInv, Stage, EndTypes, Conn

LEMMA ThreadTypes ==
  ASSUME StageInv
  PROVE  /\ thread \in [Conn -> ThreadState] /\ DOMAIN thread = Conn
         /\ DOMAIN up = Conn /\ DOMAIN down = Conn /\ DOMAIN message = Conn
         /\ DOMAIN client = Conn
  BY DEF StageInv, DescriptorInv, TypesOK, StreamTypes

LEMMA AcceptStage ==
  ASSUME StageInv, NEW k \in Conn, Accept(k)
  PROVE  StageInv'
<1>1. /\ thread[k] = "backlog" /\ thread' = [thread EXCEPT ![k] = "read"]
      /\ ClientStill /\ UNCHANGED <<up, down, message>>
  BY DEF Accept, Goto, streams
<1>2. UNCHANGED <<link, pc, call, sbuf, client, made>>
  BY <1>1 DEF ClientStill, ends, counters
<1>3. StreamTypes' /\ thread'[k] = "read" /\ \A j \in Conn \ {k} : thread'[j] = thread[j]
  BY <1>1, <1>2, ThreadTypes DEF StreamTypes
<1>4. ASSUME NEW c \in Client, link[c] = k PROVE Linked(c, k)'
  <2>1. Linked(c, k) /\ pc[c] \in {"idle", "send", "wait", "bye"}
    BY <1>4, ClientOf
  <2>2. CASE pc[c] = "wait"
    <3>1. Sent(c, k)
      BY <1>1, <2>1, <2>2 DEF Linked, Handled, Answered, Replied
    <3>2. Sent(c, k)'
      BY <1>1, <1>2, <1>3, <3>1 DEF Sent, Asked
    <3> QED
      BY <1>1, <1>2, <1>3, <2>1, <2>2, <3>2 DEF Linked, Buffered
  <2>3. CASE pc[c] # "wait"
    <3>1. Quiet(c, k) /\ pc[c] = "send"
      BY <1>1, <2>1, <2>3 DEF Linked, Quiet
    <3>2. Quiet(c, k)'
      BY <1>1, <1>2, <1>3, <3>1 DEF Quiet, Silent
    <3> QED
      BY <1>1, <1>2, <1>3, <2>1, <2>3, <3>2 DEF Linked, Buffered
  <2> QED
    BY <2>2, <2>3
<1> QED
  BY <1>1, <1>3, <1>4, ThreadStep DEF Dispatch

LEMMA ReadStage ==
  ASSUME StageInv, NEW k \in Conn, Read(k)
  PROVE  StageInv'
<1>1. /\ thread[k] = "read" /\ Whole(up[k]) /\ thread' = [thread EXCEPT ![k] = "handle"]
      /\ message' = [message EXCEPT ![k] = Received(up[k])]
      /\ up' = [up EXCEPT ![k] = Rest(up[k])]
      /\ ClientStill /\ UNCHANGED <<down>>
  BY DEF Read, Goto
<1>2. UNCHANGED <<link, pc, call, sbuf, client, made>>
  BY <1>1 DEF ClientStill, ends, counters
<1>3. /\ StreamTypes' /\ thread'[k] = "handle"
      /\ message'[k] = Received(up[k]) /\ up'[k] = Rest(up[k])
      /\ \A j \in Conn \ {k} : thread'[j] = thread[j] /\ message'[j] = message[j] /\ up'[j] = up[j]
  BY <1>1, <1>2, ThreadTypes DEF StreamTypes
<1>4. ASSUME NEW c \in Client, link[c] = k PROVE Linked(c, k)'
  <2>1. Linked(c, k) /\ call[c].kind \in Kind
    BY <1>4, ClientOf
  <2>2. pc[c] = "wait" /\ Sent(c, k)
    BY <1>1, <2>1, Nothing DEF Linked, Quiet, Silent, Handled, Answered, Replied
  <2>3. PICK b \in Body : Asked(c, b) /\ up[k] = Frame(call[c].kind, b)
    BY <2>2 DEF Sent
  <2>4. message'[k] = [type |-> call[c].kind, body |-> b] /\ up'[k] = <<>>
    BY <1>3, <2>1, <2>3, FrameReceived
  <2>5. Handled(c, k)'
    BY <1>1, <1>2, <1>3, <2>2, <2>3, <2>4 DEF Handled, Silent, Sent, Asked
  <2> QED
    BY <1>1, <1>2, <1>3, <2>1, <2>2, <2>5 DEF Linked, Buffered
<1> QED
  BY <1>1, <1>3, <1>4, ThreadStep DEF Dispatch

(* No client whose thread has found its end is still connected.            *)
LEMMA ReadFailsStage ==
  ASSUME StageInv, NEW k \in Conn, ReadFails(k)
  PROVE  StageInv'
<1>1. /\ thread[k] = "read" /\ ~client[k] /\ thread' = [thread EXCEPT ![k] = "lost"]
      /\ ClientStill /\ UNCHANGED <<up, down, message>>
  BY DEF ReadFails, Goto, streams
<1>2. StreamTypes' /\ \A j \in Conn \ {k} : thread'[j] = thread[j]
  BY <1>1, ThreadTypes DEF StreamTypes, ClientStill
<1>3. \A c \in Client : link[c] # k
  BY <1>1, ClientOf DEF Linked
<1> QED
  BY <1>1, <1>2, <1>3, ThreadStep DEF Dispatch

(* A handler answers the request it was given.                             *)
LEMMA HandlerStage ==
  ASSUME StageInv, NEW k \in Conn, Dispatch(k), thread[k] = "handle",
         NEW body \in Body, Answer(k, body),
         message[k].type = "action" =>
           \/ body = <<-1>>
           \/ Len(message[k].body) >= 2 /\ body = <<message[k].body[2]>>
  PROVE  StageInv'
<1>1. /\ thread' = [thread EXCEPT ![k] = "reply"]
      /\ message' = [message EXCEPT ![k].body = body]
      /\ ClientStill /\ UNCHANGED <<up, down>>
  BY DEF Answer, Goto, streams
<1>2. UNCHANGED <<link, pc, call, sbuf, client, made>>
  BY <1>1 DEF ClientStill, ends, counters
<1>3. /\ StreamTypes' /\ thread'[k] = "reply"
      /\ message'[k] = [message[k] EXCEPT !.body = body]
      /\ \A j \in Conn \ {k} : thread'[j] = thread[j] /\ message'[j] = message[j]
  BY <1>1, <1>2, ThreadTypes DEF StreamTypes
<1>4. ASSUME NEW c \in Client, link[c] = k PROVE Linked(c, k)'
  <2>1. Linked(c, k) /\ pc[c] \in {"idle", "send", "wait", "bye"}
    BY <1>4, ClientOf
  <2>2. pc[c] = "wait" /\ Handled(c, k)
    BY <2>1 DEF Linked, Quiet, Sent, Answered, Replied
  <2>3. PICK b \in Body : Asked(c, b) /\ message[k] = [type |-> call[c].kind, body |-> b]
    BY <2>2 DEF Handled
  <2>4. message'[k] = [type |-> call[c].kind, body |-> body]
    BY <1>3, <2>3
  <2>5. Answers(c, body)
    <3>1. ASSUME call[c].kind = "action", b = <<call[c].n, call[c].n>> PROVE b[2] = call[c].n
      BY <3>1
    <3> QED
      BY <2>3, <3>1 DEF Answers, Asked
  <2>6. Answered(c, k)'
    BY <1>1, <1>2, <1>3, <2>2, <2>4, <2>5 DEF Answered, Answers, Silent, Handled
  <2> QED
    BY <1>2, <1>3, <2>1, <2>2, <2>6 DEF Linked, Buffered
<1> QED
  BY <1>1, <1>3, <1>4, ThreadStep

LEMMA ReplyStage ==
  ASSUME StageInv, NEW k \in Conn, Reply(k)
  PROVE  StageInv'
<1>1. /\ thread[k] = "reply" /\ ClientStill /\ UNCHANGED <<up, message>>
      /\ \/ thread' = [thread EXCEPT ![k] = IF message[k].type = "goodbye" THEN "lost" ELSE "read"]
         \/ ~client[k] /\ thread' = [thread EXCEPT ![k] = "lost"]
      /\ down' = IF client[k]
                 THEN [down EXCEPT ![k] = down[k] \o Frame(message[k].type, message[k].body)]
                 ELSE down
  BY DEF Reply, Goto
<1>2. UNCHANGED <<link, pc, call, sbuf, client, made>>
  BY <1>1 DEF ClientStill, ends, counters
<1>3. /\ StreamTypes'
      /\ \A j \in Conn \ {k} : thread'[j] = thread[j] /\ down'[j] = down[j]
  BY <1>1, <1>2, ThreadTypes DEF StreamTypes
<1>4. ASSUME NEW c \in Client, link[c] = k PROVE Linked(c, k)'
  <2>1. Linked(c, k) /\ pc[c] \in {"idle", "send", "wait", "bye"} /\ call[c].kind \in Kind
    BY <1>4, ClientOf
  <2>2. pc[c] = "wait" /\ Answered(c, k) /\ client[k]
    BY <1>1, <2>1 DEF Linked, Quiet, Sent, Handled, Replied
  <2>3. PICK b \in Body : Answers(c, b) /\ message[k] = [type |-> call[c].kind, body |-> b]
    BY <2>2 DEF Answered
  <2>4. thread'[k] = IF call[c].kind = "goodbye" THEN "lost" ELSE "read"
    BY <1>1, <2>2, <2>3, ThreadTypes
  <2>5. down'[k] = Frame(call[c].kind, b)
    <3>1. down'[k] = <<>> \o Frame(call[c].kind, b)
      BY <1>1, <2>2, <2>3, ThreadTypes DEF Answered, Silent
    <3>2. Frame(call[c].kind, b) \in Seq(Word)
      BY <2>1, FrameShape
    <3> QED
      BY <3>1, <3>2, ConcatEmptySeq
  <2>6. /\ Exact(down'[k]) /\ Whole(down'[k])
        /\ Received(down'[k]) = [type |-> call[c].kind, body |-> b]
    BY <2>1, <2>5, ExactFrame, FrameReceived
  <2>7. Replied(c, k)'
    BY <1>1, <1>2, <2>2, <2>3, <2>4, <2>6 DEF Replied, Answered, Silent, Answers
  <2> QED
    BY <1>1, <1>2, <2>1, <2>2, <2>4, <2>7 DEF Linked, Buffered
<1> QED
  BY <1>1, <1>3, <1>4, ThreadStep DEF Dispatch

(* After a goodbye the thread goes to its end; its client has the reply.   *)
LEMMA EndingStage ==
  ASSUME StageInv, NEW k \in Conn, Dispatch(k), NEW l,
         \/ thread[k] = "lost" /\ l = "close" /\ UNCHANGED <<up, message>>
         \/ /\ thread[k] = "close" /\ l = "ended" /\ up' = [up EXCEPT ![k] = <<>>]
            /\ message' = [message EXCEPT ![k] = NoReply],
         thread' = [thread EXCEPT ![k] = l], ClientStill, UNCHANGED down
  PROVE  StageInv'
<1>1. UNCHANGED <<link, pc, call, sbuf, client, made>>
  BY DEF ClientStill, ends, counters
<1>2. /\ StreamTypes' /\ thread'[k] = l
      /\ \A j \in Conn \ {k} : thread'[j] = thread[j] /\ up'[j] = up[j] /\ message'[j] = message[j]
  BY <1>1, ThreadTypes DEF StreamTypes
<1>3. up'[k] = up[k] \/ up'[k] = <<>>
  BY ThreadTypes
<1>4. ASSUME NEW c \in Client, link[c] = k PROVE Linked(c, k)'
  <2>1. Linked(c, k) /\ pc[c] \in {"idle", "send", "wait", "bye"}
    BY <1>4, ClientOf
  <2>2. Buffered(c, k)'
    BY <1>1, <1>2, <2>1 DEF Linked, Buffered
  <2>3. CASE pc[c] = "wait"
    <3>1. Replied(c, k) /\ call[c].kind = "goodbye"
      BY <2>1, <2>3 DEF Linked, Sent, Handled, Answered, Replied
    <3>2. Replied(c, k)'
      BY <1>1, <1>2, <1>3, <3>1 DEF Replied, Answers
    <3> QED
      BY <1>1, <2>1, <2>2, <2>3, <3>2 DEF Linked
  <2>4. CASE pc[c] # "wait"
    <3>1. Quiet(c, k) /\ pc[c] = "bye"
      BY <2>1, <2>4 DEF Linked, Quiet
    <3>2. Quiet(c, k)'
      BY <1>1, <1>2, <1>3, <3>1 DEF Quiet, Silent
    <3> QED
      BY <1>1, <2>1, <2>2, <2>4, <3>2 DEF Linked
  <2> QED
    BY <2>3, <2>4
<1> QED
  BY <1>2, <1>4, ThreadStep

LEMMA DispatchStage ==
  ASSUME StageInv, NEW k \in Conn, Dispatch(k)
  PROVE  StageInv'
<1>1. CASE Accept(k)
  BY <1>1, AcceptStage
<1>2. CASE Read(k)
  BY <1>2, ReadStage
<1>3. CASE ReadFails(k)
  BY <1>3, ReadFailsStage
<1>4. CASE Sync(k)
  <2>1. thread[k] = "handle" /\ message[k].type # "action" /\ Answer(k, <<0>>) /\ <<0>> \in Body
    BY <1>4 DEF Sync, Handles, Body
  <2> QED
    BY <2>1, HandlerStage
<1>5. CASE Hello(k)
  <2>1. thread[k] = "handle" /\ message[k].type # "action" /\ Answer(k, <<>>) /\ <<>> \in Body
    BY <1>5 DEF Hello, Handles, Body
  <2> QED
    BY <2>1, HandlerStage
<1>6. CASE Action(k)
  <2>1. thread[k] = "handle" /\ message[k].type = "action"
    BY <1>6 DEF Action, Handles
  <2>2. CASE Answer(k, <<-1>>)
    <3>1. <<-1>> \in Body
      BY DEF Body
    <3> QED
      BY <2>1, <2>2, <3>1, HandlerStage
  <2>3. CASE Len(message[k].body) >= 2 /\ Answer(k, <<message[k].body[2]>>)
    <3>1. CASE \E c \in Client : link[c] = k
      <4>1. PICK c \in Client : link[c] = k
        BY <3>1
      <4>2. Linked(c, k) /\ pc[c] \in {"idle", "send", "wait", "bye"}
        BY <4>1, ClientOf
      <4>3. Handled(c, k)
        BY <2>1, <4>2 DEF Linked, Quiet, Sent, Answered, Replied
      <4>4. message[k].body = <<call[c].n, call[c].n>> /\ call[c].n \in Int
        BY <2>1, <4>3 DEF Handled, Asked, StageInv, EndTypes
      <4>5. <<message[k].body[2]>> \in Body
        BY <4>4 DEF Body
      <4> QED
        BY <2>1, <2>3, <4>5, HandlerStage
    <3>2. CASE \A c \in Client : link[c] # k
      <4>1. /\ ClientStill /\ UNCHANGED <<up, down>>
            /\ \A j \in Conn \ {k} : thread'[j] = thread[j] /\ message'[j] = message[j]
        BY <2>3, ThreadTypes DEF Answer, Goto, streams
      <4>2. StreamTypes'
        BY <2>3, ThreadTypes DEF Answer, StreamTypes, ClientStill, streams
      <4> QED
        BY <2>1, <3>2, <4>1, <4>2, ThreadStep
    <3> QED
      BY <3>1, <3>2
  <2> QED
    BY <1>6, <2>2, <2>3 DEF Action
<1>7. CASE Goodbye(k)
  <2>1. thread[k] = "handle" /\ message[k].type # "action" /\ Answer(k, <<>>) /\ <<>> \in Body
    BY <1>7 DEF Goodbye, Handles, Body
  <2> QED
    BY <2>1, HandlerStage
<1>8. CASE Reply(k)
  BY <1>8, ReplyStage
<1>9. CASE Lost(k)
  BY <1>9, EndingStage DEF Lost, Goto, streams
<1>10. CASE Close(k)
  BY <1>10, EndingStage DEF Close, Goto
<1> QED
  BY <1>1, <1>2, <1>3, <1>4, <1>5, <1>6, <1>7, <1>8, <1>9, <1>10 DEF Dispatch

(* When the server ends, a reply gets through in whole or not.             *)
LEMMA RestartStage ==
  ASSUME StageInv, Restart
  PROVE  StageInv'
<1>1. PICK n \in 1 .. 3 : down' = [k \in Conn |-> Cut(down[k], n)]
  BY DEF Restart
<1>2. /\ thread' = [k \in Conn |-> IF thread[k] = "none" THEN "none" ELSE "ended"]
      /\ up' = [k \in Conn |-> <<>>] /\ message' = [k \in Conn |-> NoReply]
      /\ UNCHANGED <<link, pc, call, sbuf, reply, result, client, made, calls>>
  BY DEF Restart, ends
<1>3. DescriptorInv'
  BY RestartDescriptor DEF StageInv
<1>4. EndTypes' /\ StreamTypes' /\ OneClient'
  BY <1>1, <1>2 DEF StageInv, EndTypes, StreamTypes, OneClient
<1>5. n \in Nat
  OBVIOUS
<1>6. UnmadeSilent'
  BY <1>1, <1>2, <1>5, Nothing DEF StageInv, UnmadeSilent, Silent
<1>7. ASSUME NEW c \in Client PROVE Stage(c)' /\ Match(c)'
  <2>1. Match(c)'
    BY <1>2 DEF StageInv, Match, Answers
  <2>2. CASE link[c] = 0
    BY <1>2, <2>1, <2>2 DEF StageInv, Stage
  <2>3. CASE link[c] # 0
    <3>1. PICK k \in Conn : link[c] = k
      BY <2>3 DEF StageInv, Stage, Linked
    <3>2. Linked(c, k) /\ pc[c] \in {"idle", "send", "wait", "bye"} /\ call[c].kind \in Kind
      BY <3>1, ClientOf
    <3>3. thread[k] # "none"
      BY <3>2 DEF Linked, Quiet, Sent, Handled, Answered, Replied
    <3>4. thread'[k] = "ended" /\ up'[k] = <<>> /\ down'[k] = Cut(down[k], n)
      BY <1>1, <1>2, <3>3
    <3>5. Buffered(c, k)'
      BY <3>4 DEF Buffered
    <3>6. down[k] = <<>> => down'[k] = <<>>
      BY <1>5, <3>4, Nothing
    <3>7. CASE pc[c] = "wait"
      <4>1. ASSUME Replied(c, k) PROVE Replied(c, k)'
        <5>1. Exact(down'[k]) /\ (Whole(down'[k]) => down'[k] = down[k])
          BY <1>5, <3>4, <4>1, ExactCut DEF Replied
        <5> QED
          BY <1>2, <3>4, <4>1, <5>1 DEF Replied, Answers
      <4>2. ASSUME Sent(c, k) \/ Handled(c, k) \/ Answered(c, k) PROVE Replied(c, k)'
        <5>1. down'[k] = <<>>
          BY <3>6, <4>2 DEF Sent, Handled, Answered, Silent
        <5> QED
          BY <3>4, <5>1, Nothing DEF Replied
      <4>3. Replied(c, k)'
        BY <3>2, <3>7, <4>1, <4>2 DEF Linked
      <4>4. Linked(c, k)'
        BY <1>2, <3>2, <3>5, <3>7, <4>3 DEF Linked
      <4> QED
        BY <1>2, <2>1, <2>3, <3>1, <4>4 DEF Stage
    <3>8. CASE pc[c] # "wait"
      <4>1. Quiet(c, k)
        BY <3>2, <3>8 DEF Linked
      <4>2. Quiet(c, k)'
        BY <1>2, <3>4, <3>6, <4>1 DEF Quiet, Silent
      <4>3. Linked(c, k)'
        BY <1>2, <3>2, <3>5, <3>8, <4>2 DEF Linked
      <4> QED
        BY <1>2, <2>1, <2>3, <3>1, <4>3 DEF Stage
    <3> QED
      BY <3>7, <3>8
  <2> QED
    BY <2>2, <2>3
<1> QED
  BY <1>3, <1>4, <1>6, <1>7 DEF StageInv

-----------------------------------------------------------------------------
LEMMA InitStage == Init => StageInv
<1> SUFFICES ASSUME Init PROVE StageInv
  OBVIOUS
<1>1. DescriptorInv
  BY InitDescriptor
<1>2. <<>> \in Body
  BY DEF Body
<1>3. EndTypes /\ StreamTypes
  BY <1>2 DEF Init, EndTypes, StreamTypes, Kind
<1>4. OneClient /\ UnmadeSilent
  BY DEF Init, OneClient, UnmadeSilent, Silent
<1>5. \A c \in Client : Stage(c) /\ Match(c)
  BY DEF Init, Stage, Match
<1> QED
  BY <1>1, <1>3, <1>4, <1>5 DEF StageInv

LEMMA StillStage ==
  ASSUME StageInv, UNCHANGED vars
  PROVE  StageInv'
<1>1. DescriptorInv'
  BY OthersDescriptor DEF StageInv, vars, threads, counters
<1>2. EndTypes' /\ StreamTypes' /\ OneClient' /\ UnmadeSilent'
  BY DEF StageInv, EndTypes, StreamTypes, OneClient, UnmadeSilent, Silent, vars, ends, streams,
     threads, counters
<1>3. made \in Nat
  BY SessionAssumption DEF StageInv, DescriptorInv, TypesOK
<1>4. ASSUME NEW d \in Client PROVE Stage(d)' /\ Match(d)'
  BY <1>3, OtherClient DEF vars, ends, streams, threads, counters
<1> QED
  BY <1>1, <1>2, <1>4 DEF StageInv

LEMMA NextStage == Space >= 3 /\ StageInv /\ [Next]_vars => StageInv'
<1> SUFFICES ASSUME Space >= 3, StageInv, [Next]_vars PROVE StageInv'
  OBVIOUS
<1>1. CASE UNCHANGED vars
  BY <1>1, StillStage
<1>2. ASSUME NEW c \in Client, Connect(c) PROVE StageInv'
  BY <1>2, ConnectStage
<1>3. ASSUME NEW c \in Client, Rpc(c) PROVE StageInv'
  BY <1>3, SendStage, ReceiveStage, DisconnectStage DEF Rpc
<1>4. ASSUME NEW c \in Client, Kill(c) PROVE StageInv'
  BY <1>4, KillStage
<1>5. ASSUME NEW c \in Client, NEW kind \in Kind, Issue(c, kind) PROVE StageInv'
  BY <1>5, IssueStage
<1>6. ASSUME NEW k \in Conn, Dispatch(k) PROVE StageInv'
  BY <1>6, DispatchStage
<1>7. CASE Restart
  BY <1>7, RestartStage
<1> QED
  BY <1>1, <1>2, <1>3, <1>4, <1>5, <1>6, <1>7 DEF Next

LEMMA StagesKept == Space >= 3 /\ Spec => []StageInv
<1> SUFFICES ASSUME Space >= 3 PROVE Spec => []StageInv
  OBVIOUS
<1>1. StageInv /\ [Next]_vars => StageInv'
  BY NextStage
<1> QED
  BY <1>1, InitStage, PTL DEF Spec

(* What a thread handles is the request its client waits for, with the     *)
(* positions that client marshalled, if a send buffer holds the two of an  *)
(* action: proto_session_send_msg resets the buffer, and a connection on   *)
(* which it failed to is never served again.                               *)
THEOREM RequestsAreIntact == Space >= 3 /\ Spec => []RequestsIntact
<1>1. ASSUME StageInv PROVE RequestsIntact
  <2> SUFFICES ASSUME NEW c \in Client, NEW k, k = link[c], k # 0, thread[k] = "handle"
               PROVE  /\ pc[c] = "wait" /\ message[k].type = call[c].kind
                      /\ call[c].kind = "action" => message[k].body = <<call[c].n, call[c].n>>
    BY DEF RequestsIntact
  <2>1. k \in Conn /\ Linked(c, k) /\ pc[c] \in {"idle", "send", "wait", "bye"}
    BY <1>1 DEF StageInv, Stage, Linked, EndTypes
  <2>2. pc[c] = "wait" /\ Handled(c, k)
    BY <2>1 DEF Linked, Quiet, Sent, Answered, Replied
  <2> QED
    BY <2>2 DEF Handled, Asked
<1> QED
  BY <1>1, StagesKept, PTL

(* A request that returned 1 has its own answer: a connection holds one    *)
(* request at a time, and no word of an answer outlives the receive that   *)
(* takes it or fails on it.                                                *)
THEOREM RepliesAreMatched == Space >= 3 /\ Spec => []RepliesMatch
<1>1. ASSUME StageInv PROVE RepliesMatch
  BY <1>1 DEF StageInv, Match, Answers, RepliesMatch
<1> QED
  BY <1>1, StagesKept, PTL
-----------------------------------------------------------------------------
(* The types of all variables.  The numbers on the wire are lengths, those *)
(* of requests, or -1: so that the body after a header never begins before *)
(* the header, whatever was cut off behind it.                             *)
Num     == { i \in Int : i >= -1 }
NumWord == [type : Kind \cup {"none"}, n : Num]
NumMail == [type : Kind \cup {"none"}, body : Seq(Num)]

TypeInv ==
  /\ link \in [Client -> 0 .. Connections]
  /\ pc \in [Client -> {"idle", "send", "wait", "bye"}]
  /\ call \in [Client -> [kind : Kind, n : 0 .. Calls]]
  /\ sbuf \in [Client -> Seq(Num)]
  /\ reply \in [Client -> NumMail]
  /\ result \in [Client -> {-1, 0, 1}]
  /\ up \in [Conn -> Seq(NumWord)] /\ down \in [Conn -> Seq(NumWord)]
  /\ client \in [Conn -> BOOLEAN]
  /\ message \in [Conn -> NumMail]
  /\ calls \in 0 .. Calls /\ restarts \in 0 .. Restarts

(* A client is in a request only while it has a connection.                *)
Joined == \A c \in Client : pc[c] # "idle" => link[c] # 0

(* A sequence over a set is one over a larger set.                         *)
LEMMA WiderSeq ==
  ASSUME NEW S, NEW T, S \subseteq T, NEW s \in Seq(S)
  PROVE  s \in Seq(T)
<1>1. Len(s) \in Nat /\ s \in [1 .. Len(s) -> S]
  OBVIOUS
<1>2. s \in [1 .. Len(s) -> T]
  BY <1>1
<1>3. \A n \in Nat : \A f \in [1 .. n -> T] : f \in Seq(T)
  OBVIOUS
<1>. QED
  BY <1>1, <1>2, <1>3

(* What a message puts on the wire, and what is read or cut of a stream.   *)
LEMMA FrameNums ==
  ASSUME NEW type \in Kind \cup {"none"}, NEW body \in Seq(Num)
  PROVE  Frame(type, body) \in Seq(NumWord)
<1>. DEFINE h == <<[type |-> type, n |-> 0], [type |-> "none", n |-> Len(body)]>>
            b == [i \in 1 .. Len(body) |-> [type |-> "none", n |-> body[i]]]
<1>1. Len(body) \in Nat /\ \A i \in 1 .. Len(body) : body[i] \in Num
  OBVIOUS
<1>2. h \in Seq(NumWord)
  <2>1. Len(body) \in Num /\ 0 \in Num
    BY <1>1 DEF Num
  <2>2. /\ [type |-> type, n |-> 0] \in NumWord
        /\ [type |-> "none", n |-> Len(body)] \in NumWord
    BY <2>1 DEF NumWord
  <2>. QED
    BY <2>2
<1>3. b \in Seq(NumWord)
  <2>1. \A i \in 1 .. Len(body) : [type |-> "none", n |-> body[i]] \in NumWord
    BY <1>1 DEF NumWord
  <2>2. b \in [1 .. Len(body) -> NumWord]
    BY <2>1
  <2>. QED
    BY <1>1, <2>2
<1>4. Frame(type, body) = h \o b
  BY DEF Frame
<1>. HIDE DEF h, b
<1>. QED
  BY <1>2, <1>3, <1>4

LEMMA StreamNums ==
  ASSUME NEW s \in Seq(NumWord)
  PROVE  /\ \A n \in Nat : Cut(s, n) \in Seq(NumWord)
         /\ s # <<>> => s[1].type \in Kind \cup {"none"}
         /\ Whole(s) => Rest(s) \in Seq(NumWord) /\ Received(s) \in NumMail
<1>1. Len(s) \in Nat /\ \A i \in 1 .. Len(s) : s[i] \in NumWord
  OBVIOUS
<1>2. \A i \in 1 .. Len(s) : s[i].n \in Num /\ s[i].type \in Kind \cup {"none"}
  BY <1>1 DEF NumWord
<1>3. ASSUME NEW m \in Int, NEW n \in Int, m >= 1, n <= Len(s)
      PROVE  SubSeq(s, m, n) \in Seq(NumWord)
  BY <1>1, <1>3, SubSeqProperties
<1>4. ASSUME NEW n \in Nat PROVE Cut(s, n) \in Seq(NumWord)
  BY <1>1, <1>3 DEF Cut
<1>5. s # <<>> => s[1].type \in Kind \cup {"none"}
  BY <1>2
<1>6. ASSUME Whole(s) PROVE Rest(s) \in Seq(NumWord) /\ Received(s) \in NumMail
  <2>. DEFINE n == s[2].n
  <2>1. n \in Int /\ n >= -1 /\ Len(s) >= 2 /\ Len(s) >= 2 + n
    BY <1>1, <1>2, <1>6 DEF Whole, Num
  <2>. HIDE DEF n
  <2>2. SubSeq(s, n + 3, Len(s)) \in Seq(NumWord)
    BY <1>1, <1>3, <2>1
  <2>. DEFINE b == [i \in 1 .. n |-> s[i + 2].n]
  <2>3. b \in Seq(Num)
    <3>1. \A i \in 1 .. n : i + 2 \in 1 .. Len(s)
      BY <1>1, <2>1
    <3>2. \A i \in 1 .. n : s[i + 2].n \in Num
      BY <1>2, <3>1
    <3>3. CASE n \in Nat
      <4>1. b \in [1 .. n -> Num]
        BY <3>2
      <4>. QED
        BY <3>3, <4>1
    <3>4. CASE n \notin Nat
      <4>1. 1 .. n = 1 .. 0
        BY <2>1, <3>4
      <4>2. b \in [1 .. 0 -> Num]
        BY <3>2, <4>1
      <4>3. \A f \in [1 .. 0 -> Num] : f \in Seq(Num)
        OBVIOUS
      <4>. QED
        BY <4>2, <4>3
    <3>. QED
      BY <3>3, <3>4
  <2>4. Received(s) = [type |-> s[1].type, body |-> b]
    BY DEF Received, n
  <2>. HIDE DEF b
  <2>5. s[1].type \in Kind \cup {"none"}
    BY <1>1, <1>2, <2>1
  <2>6. Received(s) \in NumMail
    BY <2>3, <2>4, <2>5 DEF NumMail
  <2>. QED
    BY <2>2, <2>6 DEF Rest, n
<1>. QED
  BY <1>4, <1>5, <1>6

LEMMA InitTypes == Init => TypeInv /\ Joined
<1>1. <<>> \in Seq(Num) /\ <<>> \in Seq(NumWord)
  OBVIOUS
<1>2. NoReply \in NumMail
  BY <1>1 DEF NumMail, NoReply
<1>. QED
  BY <1>1, <1>2, SessionAssumption DEF Init, TypeInv, Joined, Kind

(* The calls of a client.                                                  *)
LEMMA ConnectTypes ==
  ASSUME DescriptorInv, TypeInv, Joined, NEW c \in Client, Connect(c)
  PROVE  TypeInv' /\ Joined'
<1>. USE SessionAssumption
<1>1. /\ made \in 0 .. Connections /\ made < Connections /\ made' = made + 1
      /\ link' = [link EXCEPT ![c] = made'] /\ client' = [client EXCEPT ![made'] = TRUE]
  BY DEF Connect, DescriptorInv, TypesOK
<1>2. made' \in 0 .. Connections /\ made' # 0
  BY <1>1
<1>3. /\ calls \in 0 .. Calls /\ calls < Calls /\ calls' = calls + 1
      /\ call' = [call EXCEPT ![c] = [kind |-> "sync", n |-> calls + 1]]
      /\ pc' = [pc EXCEPT ![c] = "send"]
  BY DEF Connect, Start, TypeInv
<1>4. calls' \in 0 .. Calls /\ [kind |-> "sync", n |-> calls + 1] \in [kind : Kind, n : 0 .. Calls]
  BY <1>3 DEF Kind
<1>5. UNCHANGED <<sbuf, reply, result, up, down, message, restarts>>
  BY DEF Connect, streams
<1>. QED
  BY <1>1, <1>2, <1>3, <1>4, <1>5 DEF TypeInv, Joined

LEMMA IssueTypes ==
  ASSUME TypeInv, Joined, NEW c \in Client, NEW kind \in Kind, Issue(c, kind)
  PROVE  TypeInv' /\ Joined'
<1>. USE SessionAssumption
<1>1. ASSUME NEW b \in Seq(Num), NEW n \in Num PROVE Marshall(b, n) \in Seq(Num)
  BY <1>1 DEF Marshall
<1>2. /\ calls \in 0 .. Calls /\ calls < Calls /\ calls' = calls + 1 /\ link[c] # 0
      /\ call' = [call EXCEPT ![c] = [kind |-> kind, n |-> calls + 1]]
      /\ pc' = [pc EXCEPT ![c] = "send"]
  BY DEF Issue, Start, TypeInv
<1>3. calls' \in 0 .. Calls /\ [kind |-> kind, n |-> calls + 1] \in [kind : Kind, n : 0 .. Calls]
  BY <1>2
<1>4. calls' \in Num /\ sbuf[c] \in Seq(Num)
  BY <1>3 DEF Num, TypeInv
<1>. DEFINE m == Marshall(Marshall(sbuf[c], calls'), calls')
<1>5. m \in Seq(Num)
  BY <1>1, <1>4
<1>6. sbuf' = IF kind # "action" THEN sbuf ELSE [sbuf EXCEPT ![c] = m]
  BY DEF Issue
<1>. HIDE DEF m
<1>7. sbuf' \in [Client -> Seq(Num)]
  BY <1>5, <1>6 DEF TypeInv
<1>8. UNCHANGED <<link, reply, result, up, down, client, message, restarts>>
  BY DEF Issue, streams, threads
<1>. QED
  BY <1>2, <1>3, <1>7, <1>8 DEF TypeInv, Joined

LEMMA SendTypes ==
  ASSUME TypeInv, Joined, NEW c \in Client, Send(c)
  PROVE  TypeInv' /\ Joined'
<1>. DEFINE F == Frame(call[c].kind, sbuf[c])
            k == link[c]
<1>1. F \in Seq(NumWord)
  <2>1. call[c].kind \in Kind \cup {"none"} /\ sbuf[c] \in Seq(Num)
    BY DEF TypeInv
  <2>. QED
    BY <2>1, FrameNums
<1>2. up' = up \/ up' = [up EXCEPT ![k] = up[k] \o F]
  BY DEF Send
<1>. HIDE DEF F, k
<1>3. up' \in [Conn -> Seq(NumWord)]
  <2>1. k \in Conn => up[k] \o F \in Seq(NumWord)
    BY <1>1 DEF TypeInv
  <2>. QED
    BY <1>2, <2>1 DEF TypeInv
<1>4. sbuf' = sbuf \/ sbuf' = [sbuf EXCEPT ![c] = <<>>]
  BY DEF Send
<1>5. sbuf' \in [Client -> Seq(Num)]
  <2>1. <<>> \in Seq(Num)
    OBVIOUS
  <2>. QED
    BY <1>4, <2>1 DEF TypeInv
<1>6. /\ pc[c] = "send" /\ pc' = [pc EXCEPT ![c] = "wait"]
      /\ UNCHANGED <<link, call, reply, result, down, client, message, calls, restarts>>
  BY DEF Send, threads, counters
<1>. QED
  BY <1>3, <1>5, <1>6 DEF TypeInv, Joined

LEMMA ReceiveTypes ==
  ASSUME TypeInv, Joined, NEW c \in Client, Receive(c)
  PROVE  TypeInv' /\ Joined'
<1>. DEFINE k == link[c]
            s == down[k]
<1>1. /\ pc[c] = "wait" /\ pc' = [pc EXCEPT ![c] = IF call[c].kind = "goodbye" THEN "bye" ELSE "idle"]
      /\ UNCHANGED <<link, call, sbuf, up, client, message, calls, restarts>>
  BY DEF Receive, Returned, threads, counters
<1>2. k \in Conn /\ s \in Seq(NumWord) /\ reply[c] \in NumMail
  BY <1>1, SessionAssumption DEF TypeInv, Joined, Conn
<1>3. \/ /\ Whole(s)
         /\ reply' = [reply EXCEPT ![c] = Received(s)]
         /\ down' = [down EXCEPT ![k] = Rest(s)]
         /\ result' = [result EXCEPT ![c] = 1]
      \/ /\ reply' = [reply EXCEPT ![c].type = IF s = <<>> THEN "none" ELSE s[1].type]
         /\ down' = [down EXCEPT ![k] = <<>>]
         /\ result' = [result EXCEPT ![c] = -1]
  BY DEF Receive
<1>. HIDE DEF k, s
<1>4. /\ s # <<>> => s[1].type \in Kind \cup {"none"}
      /\ Whole(s) => Rest(s) \in Seq(NumWord) /\ Received(s) \in NumMail
  BY <1>2, StreamNums
<1>5. reply' \in [Client -> NumMail]
  <2>. DEFINE t == IF s = <<>> THEN "none" ELSE s[1].type
  <2>1. [reply[c] EXCEPT !.type = t] \in NumMail
    BY <1>2, <1>4 DEF NumMail
  <2>2. \/ Whole(s) /\ reply' = [reply EXCEPT ![c] = Received(s)]
        \/ reply' = [reply EXCEPT ![c] = [reply[c] EXCEPT !.type = t]]
    BY <1>3
  <2>. HIDE DEF t
  <2>. QED
    BY <1>4, <2>1, <2>2 DEF TypeInv
<1>6. down' \in [Conn -> Seq(NumWord)]
  <2>1. <<>> \in Seq(NumWord)
    OBVIOUS
  <2>. QED
    BY <1>3, <1>4, <2>1 DEF TypeInv
<1>7. result' \in [Client -> {-1, 0, 1}]
  BY <1>3 DEF TypeInv
<1>. QED
  BY <1>1, <1>5, <1>6, <1>7 DEF TypeInv, Joined

LEMMA GoneTypes ==
  ASSUME TypeInv, Joined, NEW c \in Client, Disconnect(c) \/ Kill(c)
  PROVE  TypeInv' /\ Joined'
<1>. DEFINE k == link[c]
<1>1. <<>> \in Seq(Num) /\ <<>> \in Seq(NumWord)
  OBVIOUS
<1>2. NoReply \in NumMail
  BY <1>1 DEF NumMail, NoReply
<1>3. 0 \in 0 .. Connections
  BY SessionAssumption
<1>4. CASE Disconnect(c)
  BY <1>1, <1>3, <1>4 DEF Disconnect, threads, counters, TypeInv, Joined
<1>5. CASE Kill(c)
  <2>1. PICK n \in {1, 3, 4} : up' = [up EXCEPT ![k] = Cut(up[k], n)]
    BY <1>5 DEF Kill
  <2>2. k \in Conn => Cut(up[k], n) \in Seq(NumWord)
    <3>1. n \in Nat /\ (k \in Conn => up[k] \in Seq(NumWord))
      BY DEF TypeInv
    <3>. QED
      BY <3>1, StreamNums
  <2>. HIDE DEF k
  <2>3. up' \in [Conn -> Seq(NumWord)]
    BY <2>1, <2>2 DEF TypeInv
  <2>. QED
    BY <1>1, <1>2, <1>3, <1>5, <2>3 DEF Kill, threads, counters, TypeInv, Joined
<1>. QED
  BY <1>4, <1>5

(* The threads of the server.                                              *)
LEMMA DispatchTypes ==
  ASSUME TypeInv, Joined, NEW k \in Conn, Dispatch(k)
  PROVE  TypeInv' /\ Joined'
<1>1. UNCHANGED <<link, pc, call, sbuf, reply, result, client, calls, restarts>>
  BY DEF Dispatch, Accept, Read, ReadFails, Sync, Hello, Action, Goodbye, Answer, Reply,
         Lost, Close, ClientStill, ends, counters
<1>2. /\ up[k] \in Seq(NumWord) /\ down[k] \in Seq(NumWord) /\ message[k] \in NumMail
      /\ <<>> \in Seq(NumWord) /\ NoReply \in NumMail
  BY DEF TypeInv, NumMail, NoReply
<1>3. SUFFICES /\ up' \in [Conn -> Seq(NumWord)] /\ down' \in [Conn -> Seq(NumWord)]
               /\ message' \in [Conn -> NumMail]
  BY <1>1 DEF TypeInv, Joined
<1>4. CASE Accept(k) \/ ReadFails(k) \/ Lost(k)
  BY <1>4 DEF Accept, ReadFails, Lost, streams, TypeInv
<1>5. CASE Read(k)
  <2>1. Rest(up[k]) \in Seq(NumWord) /\ Received(up[k]) \in NumMail
    BY <1>2, <1>5, StreamNums DEF Read
  <2>. QED
    BY <1>5, <2>1 DEF Read, TypeInv
<1>6. ASSUME NEW body \in Seq(Num), Answer(k, body)
      PROVE  /\ up' \in [Conn -> Seq(NumWord)] /\ down' \in [Conn -> Seq(NumWord)]
             /\ message' \in [Conn -> NumMail]
  BY <1>2, <1>6 DEF Answer, streams, TypeInv, NumMail
<1>7. CASE Sync(k) \/ Hello(k) \/ Goodbye(k)
  <2>1. <<>> \in Seq(Num) /\ <<0>> \in Seq(Num)
    BY DEF Num
  <2>. QED
    BY <1>6, <1>7, <2>1 DEF Sync, Hello, Goodbye
<1>8. CASE Action(k)
  <2>1. <<-1>> \in Seq(Num)
    BY DEF Num
  <2>2. Len(message[k].body) >= 2 => <<message[k].body[2]>> \in Seq(Num)
    <3>1. message[k].body \in Seq(Num)
      BY <1>2 DEF NumMail
    <3>2. Len(message[k].body) >= 2 => message[k].body[2] \in Num
      BY <3>1
    <3>. QED
      BY <3>2
  <2>. QED
    BY <1>6, <1>8, <2>1, <2>2 DEF Action
<1>9. CASE Reply(k)
  <2>. DEFINE F == Frame(message[k].type, message[k].body)
  <2>1. F \in Seq(NumWord)
    BY <1>2, FrameNums DEF NumMail
  <2>2. down' = down \/ down' = [down EXCEPT ![k] = down[k] \o F]
    BY <1>9 DEF Reply
  <2>. HIDE DEF F
  <2>3. down[k] \o F \in Seq(NumWord)
    BY <1>2, <2>1
  <2>. QED
    BY <1>9, <2>2, <2>3 DEF Reply, TypeInv
<1>10. CASE Close(k)
  BY <1>2, <1>10 DEF Close, TypeInv
<1>. QED
  BY <1>4, <1>5, <1>7, <1>8, <1>9, <1>10 DEF Dispatch

LEMMA NextTypes ==
  ASSUME DescriptorInv, TypeInv, Joined, [Next]_vars
  PROVE  TypeInv' /\ Joined'
<1>1. CASE UNCHANGED vars
  BY <1>1 DEF vars, ends, streams, threads, counters, TypeInv, Joined
<1>2. CASE Restart
  <2>1. PICK n \in 1 .. 3 : down' = [k \in Conn |-> Cut(down[k], n)]
    BY <1>2 DEF Restart
  <2>2. \A k \in Conn : Cut(down[k], n) \in Seq(NumWord)
    <3>1. n \in Nat /\ \A k \in Conn : down[k] \in Seq(NumWord)
      BY DEF TypeInv
    <3>. QED
      BY <3>1, StreamNums
  <2>3. <<>> \in Seq(NumWord) /\ NoReply \in NumMail
    BY DEF NumMail, NoReply
  <2>4. restarts' \in 0 .. Restarts
    BY <1>2, SessionAssumption DEF Restart, TypeInv
  <2>5. /\ down' \in [Conn -> Seq(NumWord)]
        /\ up' = [k \in Conn |-> <<>>] /\ message' = [k \in Conn |-> NoReply]
        /\ UNCHANGED <<link, pc, call, sbuf, reply, result, client, calls>>
    BY <1>2, <2>1, <2>2 DEF Restart, ends
  <2>. QED
    BY <2>3, <2>4, <2>5 DEF TypeInv, Joined
<1>. QED
  BY <1>1, <1>2, ConnectTypes, IssueTypes, SendTypes, ReceiveTypes, GoneTypes, DispatchTypes
  DEF Next, Rpc

(* TypeOK: whatever a client or the server leaves of a message when it     *)
(* ends, what is read of the stream behind it has the types of a message.  *)
THEOREM SessionTypeCorrect == Spec => []TypeOK
<1>1. ASSUME DescriptorInv, TypeInv PROVE TypeOK
  <2>1. Num \subseteq Int
    BY DEF Num
  <2>2. \A s \in Seq(Num) : s \in Seq(Int)
    BY <2>1, WiderSeq
  <2>3. NumWord \subseteq Word
    BY <2>1 DEF NumWord, Word
  <2>4. \A s \in Seq(NumWord) : s \in Seq(Word)
    BY <2>3, WiderSeq
  <2>5. \A m \in NumMail : m \in [type : Kind \cup {"none"}, body : Seq(Int)]
    BY <2>2 DEF NumMail
  <2>6. /\ sbuf \in [Client -> Seq(Int)]
        /\ up \in [Conn -> Seq(Word)] /\ down \in [Conn -> Seq(Word)]
    BY <1>1, <2>2, <2>4 DEF TypeInv
  <2>7. /\ reply \in [Client -> [type : Kind \cup {"none"}, body : Seq(Int)]]
        /\ message \in [Conn -> [type : Kind \cup {"none"}, body : Seq(Int)]]
    BY <1>1, <2>5 DEF TypeInv
  <2>8. /\ thread \in [Conn -> {"none", "backlog", "read", "handle", "reply", "lost", "close",
                                 "ended"}]
        /\ fd \in [Conn -> Fd \cup {None}] /\ player \in [Fd -> 0 .. Connections]
        /\ made \in 0 .. Connections
    BY <1>1 DEF DescriptorInv, TypesOK, ThreadState, Serving
  <2>. QED
    BY <1>1, <2>6, <2>7, <2>8 DEF TypeOK, TypeInv
<1>2. DescriptorInv /\ TypeInv /\ Joined /\ [Next]_vars => DescriptorInv' /\ TypeInv' /\ Joined'
  BY NextDescriptor, NextTypes
<1>. QED
  BY <1>1, <1>2, InitDescriptor, InitTypes, PTL DEF Spec
=============================================================================
