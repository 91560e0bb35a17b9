------------------------------- MODULE Session ------------------------------
(***************************************************************************)
(* The RPC connections between the clients and the server                  *)
(* (protocol_session.c, net.c, protocol_client.c, protocol_server.c and    *)
(* the handlers of server.c).  A message is a header, which holds its type *)
(* and the length of its body, and the body; a connection is a stream of   *)
(* words that may end in the middle of a message.  The server has one      *)
(* thread per connection, which knows a player by the descriptor of the    *)
(* connection: a number that the next connection may be given again.       *)
(*                                                                         *)
(* A client process may end at any point, and so may the server, which is  *)
(* then started again.  What a request does to the game is the subject of  *)
(* module Game; here a connection has a player or has none.                *)
(***************************************************************************)
EXTENDS Integers, Sequences

CONSTANTS
  None,
  Client,
  Fd,            \* the descriptors the server can give to connections
  Connections,   \* bound on the connections made
  Calls,         \* bound on the requests
  Restarts,      \* bound on the times the server ends
  Space          \* the words that fit into the send buffer of a session

VARIABLES
  link,          \* the connection of a client, 0 without one
  pc, call,      \* where a client is, and in which request
  sbuf,          \* the body in the send buffer of its session
  reply,         \* the receive header and buffer of its session
  result,        \* 1 or -1, what the request returned
  up, down,      \* the words on their way to the server and to the client
  client,        \* the end of the client is open
  thread,        \* where the server's thread of a connection is
  fd,            \* the server's descriptor of a connection
  message,       \* the request the thread handles, then its answer
  player,        \* the connection whose player has this descriptor, or 0
  made, calls, restarts

ends     == <<link, pc, call, sbuf, reply, result>>
streams  == <<up, down>>
threads  == <<thread, fd, message, player>>
counters == <<made, calls, restarts>>
vars     == <<ends, streams, client, threads, counters>>

ASSUME SessionAssumption ==
  /\ {Connections, Calls, Restarts, Space} \subseteq Nat
  /\ None \notin Fd

Conn == 1 .. Connections
Kind == {"sync", "hello", "action", "goodbye"}

-----------------------------------------------------------------------------
(* A message on the wire.  net_readn returns when all of it is there or    *)
(* the stream ends.                                                        *)
Word == [type : Kind \cup {"none"}, n : Int]

(* Mutant: the body is not written.                                        *)
FrameHeader(type, body) ==
  <<[type |-> type, n |-> 0], [type |-> "none", n |-> Len(body)]>>

Frame(type, body) ==
  <<[type |-> type, n |-> 0], [type |-> "none", n |-> Len(body)]>>
    \o [i \in 1 .. Len(body) |-> [type |-> "none", n |-> body[i]]]

Whole(s) == Len(s) >= 2 /\ Len(s) >= 2 + s[2].n

Received(s) == [type |-> s[1].type, body |-> [i \in 1 .. s[2].n |-> s[i + 2].n]]

(* Mutant: the body stays in the stream.                                   *)
RestAfterHeader(s) == SubSeq(s, 3, Len(s))

Rest(s) == SubSeq(s, s[2].n + 3, Len(s))

Cut(s, n) == SubSeq(s, 1, IF n < Len(s) THEN n ELSE Len(s))

(* proto_session_body_marshall_bytes: what does not fit is left out, and   *)
(* nobody looks.                                                           *)
Marshall(buf, n) == IF Len(buf) + 1 < Space THEN Append(buf, n) ELSE buf

-----------------------------------------------------------------------------
(* The client: docmd with doConnect and disconnect.                        *)
Start(c, kind) ==
  /\ calls < Calls /\ calls' = calls + 1
  /\ call' = [call EXCEPT ![c] = [kind |-> kind, n |-> calls + 1]]
  /\ pc' = [pc EXCEPT ![c] = "send"]

Connect(c) ==
  /\ link[c] = 0 /\ made < Connections
  /\ made' = made + 1
  /\ Start(c, "sync")
  /\ link' = [link EXCEPT ![c] = made']
  /\ client' = [client EXCEPT ![made'] = TRUE]
  /\ thread' = [thread EXCEPT ![made'] = "backlog"]
  /\ UNCHANGED <<sbuf, reply, result, streams, fd, message, player, restarts>>

(* An action carries two positions; here, its own number twice.            *)
Issue(c, kind) ==
  /\ link[c] # 0 /\ pc[c] = "idle" /\ kind # "sync"
  /\ Start(c, kind)
  /\ sbuf' = IF kind # "action" THEN sbuf
             ELSE [sbuf EXCEPT ![c] = Marshall(Marshall(@, calls'), calls')]
  /\ UNCHANGED <<link, reply, result, streams, client, threads, made, restarts>>

(* Mutant: the send buffer is not reset.                                   *)
SendKept(c) ==
  LET k == link[c]
  IN  /\ pc[c] = "send" /\ pc' = [pc EXCEPT ![c] = "wait"]
      /\ up' = IF thread[k] = "ended" THEN up
               ELSE [up EXCEPT ![k] = @ \o Frame(call[c].kind, sbuf[c])]
      /\ UNCHANGED <<sbuf, link, call, reply, result, down, client, threads, counters>>

(* proto_session_send_msg resets the send buffer, unless it fails; a       *)
(* connection that the server has closed takes one message before it does. *)
Send(c) ==
  LET k == link[c]
  IN  /\ pc[c] = "send" /\ pc' = [pc EXCEPT ![c] = "wait"]
      /\ \/ sbuf' = [sbuf EXCEPT ![c] = <<>>]
         \/ thread[k] = "ended" /\ UNCHANGED sbuf
      /\ up' = IF thread[k] = "ended" THEN up
               ELSE [up EXCEPT ![k] = @ \o Frame(call[c].kind, sbuf[c])]
      /\ UNCHANGED <<link, call, reply, result, down, client, threads, counters>>

Returned(c) ==
  pc' = [pc EXCEPT ![c] = IF call[c].kind = "goodbye" THEN "bye" ELSE "idle"]

(* proto_session_rcv_msg.  If the stream ends, what it still held may be   *)
(* the start of a header, and the receive buffer keeps an earlier body.    *)
Receive(c) ==
  LET s == down[link[c]]
  IN  /\ pc[c] = "wait" /\ Returned(c)
      /\ \/ /\ Whole(s)
            /\ reply' = [reply EXCEPT ![c] = Received(s)]
            /\ down' = [down EXCEPT ![link[c]] = Rest(s)]
            /\ result' = [result EXCEPT ![c] = 1]
         \/ /\ ~Whole(s) /\ thread[link[c]] = "ended"
            /\ reply' = [reply EXCEPT ![c].type = IF s = <<>> THEN "none" ELSE s[1].type]
            /\ down' = [down EXCEPT ![link[c]] = <<>>]
            /\ result' = [result EXCEPT ![c] = -1]
      /\ UNCHANGED <<link, call, sbuf, up, client, threads, counters>>

Disconnect(c) ==
  /\ pc[c] = "bye" /\ pc' = [pc EXCEPT ![c] = "idle"]
  /\ client' = [client EXCEPT ![link[c]] = FALSE]
  /\ link' = [link EXCEPT ![c] = 0]
  /\ down' = [down EXCEPT ![link[c]] = <<>>]
  /\ UNCHANGED <<call, sbuf, reply, result, up, threads, counters>>

NoReply == [type |-> "none", body |-> <<>>]

(* The process ends; half a header, half a body or all of what it sent     *)
(* gets through.  The next one starts with an empty session.               *)
Kill(c) ==
  LET k == link[c]
  IN  /\ k # 0
      /\ client' = [client EXCEPT ![k] = FALSE]
      /\ \E n \in {1, 3, 4} : up' = [up EXCEPT ![k] = Cut(@, n)]
      /\ link' = [link EXCEPT ![c] = 0]
      /\ pc' = [pc EXCEPT ![c] = "idle"]
      /\ sbuf' = [sbuf EXCEPT ![c] = <<>>]
      /\ reply' = [reply EXCEPT ![c] = NoReply]
      /\ result' = [result EXCEPT ![c] = 0]
      /\ down' = [down EXCEPT ![k] = <<>>]
      /\ UNCHANGED <<call, threads, counters>>

-----------------------------------------------------------------------------
(* The server: proto_server_rpc_listen and proto_server_req_dispatcher.    *)
ClientStill == UNCHANGED <<ends, client, counters>>

Goto(k, l) == thread' = [thread EXCEPT ![k] = l]

Accept(k) ==
  /\ thread[k] = "backlog" /\ Goto(k, "read")
  /\ \E f \in Fd : /\ \A j \in Conn : fd[j] # f
                   /\ fd' = [fd EXCEPT ![k] = f]
  /\ ClientStill /\ UNCHANGED <<streams, message, player>>

Read(k) ==
  /\ thread[k] = "read" /\ Whole(up[k]) /\ Goto(k, "handle")
  /\ message' = [message EXCEPT ![k] = Received(up[k])]
  /\ up' = [up EXCEPT ![k] = Rest(@)]
  /\ ClientStill /\ UNCHANGED <<down, fd, player>>

ReadFails(k) ==
  /\ thread[k] = "read" /\ ~Whole(up[k]) /\ ~client[k] /\ Goto(k, "lost")
  /\ ClientStill /\ UNCHANGED <<streams, fd, message, player>>

Handles(k, type) == thread[k] = "handle" /\ message[k].type = type

Answer(k, body) ==
  /\ Goto(k, "reply")
  /\ message' = [message EXCEPT ![k].body = body]
  /\ ClientStill /\ UNCHANGED <<streams, fd>>

(* server_fd_to_id_and_team *)
HasPlayer(k) == player[fd[k]] # 0

Sync(k) == Handles(k, "sync") /\ Answer(k, <<0>>) /\ UNCHANGED player

Hello(k) ==
  /\ Handles(k, "hello") /\ Answer(k, <<>>)
  /\ \/ UNCHANGED player                          \* no place for it
     \/ ~HasPlayer(k) /\ player' = [player EXCEPT ![fd[k]] = k]

Action(k) ==
  /\ Handles(k, "action") /\ UNCHANGED player
  /\ \/ Answer(k, <<-1>>)
     \/ /\ HasPlayer(k) /\ Len(message[k].body) >= 2
        /\ Answer(k, <<message[k].body[2]>>)

(* Mutant: no player is marked as the code marks no descriptor.            *)
DroppedMinus(k) == player' = [player EXCEPT ![fd[k]] = -1]

Dropped(k) == player' = [player EXCEPT ![fd[k]] = 0]

Goodbye(k) == Handles(k, "goodbye") /\ Answer(k, <<>>) /\ Dropped(k)

(* The reply to a client that has gone is lost or fails.                   *)
Reply(k) ==
  /\ thread[k] = "reply"
  /\ \/ Goto(k, IF message[k].type = "goodbye" THEN "lost" ELSE "read")
     \/ ~client[k] /\ Goto(k, "lost")
  /\ down' = IF client[k] THEN [down EXCEPT ![k] = @ \o Frame(message[k].type, message[k].body)]
             ELSE down
  /\ ClientStill /\ UNCHANGED <<up, fd, message, player>>

(* Mutant: the descriptor is closed before the player is looked up by it.  *)
LostAfterClose(k) ==
  /\ thread[k] = "lost" /\ Goto(k, "close")
  /\ fd' = [fd EXCEPT ![k] = None]
  /\ ClientStill /\ UNCHANGED <<streams, message, player>>

(* Mutant: the handler is called until it succeeds; it always returns -1.  *)
LostRetried(k) ==
  /\ thread[k] = "lost" /\ Goto(k, "lost")
  /\ Dropped(k)
  /\ ClientStill /\ UNCHANGED <<streams, fd, message>>

(* client_lost_handler; after a goodbye it finds nobody.                   *)
Lost(k) ==
  /\ thread[k] = "lost" /\ Goto(k, "close")
  /\ Dropped(k)
  /\ ClientStill /\ UNCHANGED <<streams, fd, message>>

Close(k) ==
  /\ thread[k] = "close" /\ Goto(k, "ended")
  /\ fd' = [fd EXCEPT ![k] = None]
  /\ up' = [up EXCEPT ![k] = <<>>] /\ message' = [message EXCEPT ![k] = NoReply]
  /\ ClientStill /\ UNCHANGED <<down, player>>

(* The server ends, with all its connections, and is started again.        *)
Restart ==
  /\ restarts < Restarts /\ restarts' = restarts + 1
  /\ thread' = [k \in Conn |-> IF thread[k] = "none" THEN "none" ELSE "ended"]
  /\ fd' = [k \in Conn |-> None] /\ player' = [f \in Fd |-> 0]
  /\ \E n \in 1 .. 3 : down' = [k \in Conn |-> Cut(down[k], n)]
  /\ up' = [k \in Conn |-> <<>>] /\ message' = [k \in Conn |-> NoReply]
  /\ UNCHANGED <<ends, client, made, calls>>

-----------------------------------------------------------------------------
Init ==
  /\ link = [c \in Client |-> 0] /\ pc = [c \in Client |-> "idle"]
  /\ call = [c \in Client |-> [kind |-> "sync", n |-> 0]]
  /\ sbuf = [c \in Client |-> <<>>]
  /\ reply = [c \in Client |-> NoReply] /\ result = [c \in Client |-> 0]
  /\ up = [k \in Conn |-> <<>>] /\ down = [k \in Conn |-> <<>>]
  /\ client = [k \in Conn |-> FALSE]
  /\ thread = [k \in Conn |-> "none"]
  /\ fd = [k \in Conn |-> None]
  /\ message = [k \in Conn |-> NoReply]
  /\ player = [f \in Fd |-> 0]
  /\ made = 0 /\ calls = 0 /\ restarts = 0

Dispatch(k) == \/ Accept(k) \/ Read(k) \/ ReadFails(k)
               \/ Sync(k) \/ Hello(k) \/ Action(k) \/ Goodbye(k)
               \/ Reply(k) \/ Lost(k) \/ Close(k)
Rpc(c) == Send(c) \/ Receive(c) \/ Disconnect(c)

Next ==
  \/ \E c \in Client : Connect(c) \/ Rpc(c) \/ Kill(c) \/ \E kind \in Kind : Issue(c, kind)
  \/ \E k \in Conn : Dispatch(k)
  \/ Restart

(* The threads run.  Nobody has to issue a request or to end a process.    *)
Fairness == /\ \A c \in Client : WF_vars(Rpc(c))
            /\ \A k \in Conn : WF_vars(Dispatch(k))

Spec == Init /\ [][Next]_vars /\ Fairness
-----------------------------------------------------------------------------
(* Every variable has its type.                                            *)
TypeOK ==
  /\ link \in [Client -> 0 .. Connections]
  /\ pc \in [Client -> {"idle", "send", "wait", "bye"}]
  /\ call \in [Client -> [kind : Kind, n : 0 .. Calls]]
  /\ sbuf \in [Client -> Seq(Int)]
  /\ reply \in [Client -> [type : Kind \cup {"none"}, body : Seq(Int)]]
  /\ result \in [Client -> {-1, 0, 1}]
  /\ up \in [Conn -> Seq(Word)] /\ down \in [Conn -> Seq(Word)]
  /\ client \in [Conn -> BOOLEAN]
  /\ thread \in [Conn -> {"none", "backlog", "read", "handle", "reply", "lost", "close",
                          "ended"}]
  /\ fd \in [Conn -> Fd \cup {None}]
  /\ message \in [Conn -> [type : Kind \cup {"none"}, body : Seq(Int)]]
  /\ player \in [Fd -> 0 .. Connections]
  /\ made \in 0 .. Connections /\ calls \in 0 .. Calls /\ restarts \in 0 .. Restarts

(* What a thread handles is the request its client waits for, and an       *)
(* action carries the positions of that action: no words of an earlier     *)
(* request that failed, no half of a message.                              *)
RequestsIntact ==
  \A c \in Client : LET k == link[c] IN
    k # 0 /\ thread[k] = "handle" =>
      /\ pc[c] = "wait" /\ message[k].type = call[c].kind
      /\ call[c].kind = "action" => message[k].body = <<call[c].n, call[c].n>>

(* A request that returned 1 has the answer to that very request in its    *)
(* session, whatever broke before it.                                      *)
RepliesMatch ==
  \A c \in Client : pc[c] \in {"idle", "bye"} /\ result[c] = 1 =>
    /\ reply[c].type = call[c].kind
    /\ call[c].kind = "action" => reply[c].body \in {<<call[c].n>>, <<-1>>}

Serving == {"read", "handle", "reply", "lost"}

(* A descriptor that has a player is the one of the connection that said   *)
(* hello, and that is still served: whoever is given the number next       *)
(* starts without a player.                                                *)
DescriptorsClean ==
  \A f \in Fd : player[f] # 0 => fd[player[f]] = f /\ thread[player[f]] \in Serving

(* The server notices that the client of a connection it has accepted has  *)
(* gone, and closes the connection.                                        *)
GoneAreClosed ==
  \A k \in Conn : (thread[k] \notin {"none", "backlog"} /\ ~client[k]) ~> thread[k] = "ended"

(* A request returns, if only with an error.                               *)
CallsReturn == \A c \in Client : pc[c] = "wait" ~> pc[c] # "wait"
=============================================================================
