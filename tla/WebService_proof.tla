--------------------------- MODULE WebService_proof ---------------------------
(***************************************************************************)
(* Proofs about the HTTP handler, for every set of clients and of requests. *)
(*                                                                         *)
(* A client is known to the server in one place at a time: in the backlog   *)
(* while it is pending, in conn_fd while it is open (QueueInv, ServedInv).  *)
(* What the one recv() returned, and what handle_control_post made of it,   *)
(* is kept for the client being served until the reply is sent              *)
(* (WholeInv); nothing another client does in between touches it.           *)
(***************************************************************************)
EXTENDS WebService, SequenceTheorems, TLAPS

-----------------------------------------------------------------------------
(* The inductive invariant. *)

\* The backlog holds the pending connections, each of them once.
QueueInv ==
    /\ \A i \in 1 .. Len(backlog) : tcp[backlog[i]] = "pending"
    /\ \A i, j \in 1 .. Len(backlog) : backlog[i] = backlog[j] => i = j
    /\ \A c \in Clients : tcp[c] = "pending" => \E i \in 1 .. Len(backlog) : backlog[i] = c

\* The client being served is connected, and no other is.
ServedInv ==
    /\ conn # NoClient => tcp[conn] = "open"
    /\ NoLeakedConnection

Commanded(r) == IF r.command = "on" THEN 1 ELSE 0

All == {"head", "body"}

\* Such a request is all under way, all arrived or all received; once it is
\* routed as a control POST the flag has its value until the reply is out.
WholeInv ==
    /\ \A c \in Clients : CommandComesWhole(request[c]) =>
         wire[c] \in {<<>>, <<All>>} /\ inbox[c] \in {{}, All}
    /\ pc \in {"route", "send"} /\ CommandComesWhole(request[conn]) => rx = All
    /\ pc = "send" /\ out = "ok" /\ CommandComesWhole(request[conn]) =>
         g_web_control_active = Commanded(request[conn])

WebInv == TypeOK /\ QueueInv /\ ServedInv /\ WholeInv
-----------------------------------------------------------------------------
\* The fields of a request.
LEMMA RequestType ==
    ASSUME NEW r \in Requests
    PROVE  /\ r.path \in Paths /\ r.method \in Methods /\ r.head \subseteq {"on", "off"}
           /\ r.command \in Commands /\ r.shape \in Shapes
BY WebAssumption

\* The segments of a request are sets of its parts; one that comes whole is one.
LEMMA SegmentsType ==
    ASSUME NEW r \in Requests
    PROVE  /\ Segments(r) \in Seq(SUBSET {"head", "body"})
           /\ CommandComesWhole(r) => Segments(r) = <<All>>
<1>1. r.command \in {"on", "off", "none"} /\ r.shape \in {"one", "two", "long"}
  BY RequestType DEF Shapes, Commands
<1>2. Segments(r) \in {<<{"head"}>>, <<{"head"}, {"body"}>>, <<All>>}
  BY <1>1 DEF Segments, All
<1>3. CommandComesWhole(r) => Segments(r) = <<All>>
  BY <1>1 DEF Segments, CommandComesWhole, All
<1>4. \A S \in SUBSET {"head", "body"} : <<S>> \in Seq(SUBSET {"head", "body"})
  OBVIOUS
<1>5. <<{"head"}, {"body"}>> \in Seq(SUBSET {"head", "body"})
  OBVIOUS
<1>6. <<{"head"}>> \in Seq(SUBSET {"head", "body"}) /\ <<All>> \in Seq(SUBSET {"head", "body"})
  BY <1>4 DEF All
<1> QED  BY <1>2, <1>3, <1>5, <1>6

\* A reply of handle_client is one the client knows, and the flag stays a bit.
LEMMA RouteType ==
    ASSUME TypeOK, NEW r \in Requests
    PROVE  FlagAfter(r) \in {0, 1} /\ ReplyTo(r) \in Replies
BY RequestType DEF TypeOK, FlagAfter, ReplyTo, Replies, Paths

\* The connection accept() returns is a client's, and the rest stays queued.
LEMMA HeadOfBacklog ==
    ASSUME TypeOK, backlog # <<>>
    PROVE  /\ Head(backlog) \in Clients /\ Head(backlog) = backlog[1]
           /\ Tail(backlog) \in Seq(Clients)
           /\ Len(backlog) \in Nat \ {0} /\ Len(Tail(backlog)) = Len(backlog) - 1
           /\ \A i \in 1 .. Len(backlog) - 1 : Tail(backlog)[i] = backlog[i + 1]
           /\ \A i \in 1 .. Len(backlog) : backlog[i] \in Clients
BY DEF TypeOK

\* Every step keeps the types.
LEMMA TypeStep ==
    ASSUME TypeOK, [Next]_vars
    PROVE  TypeOK'
<1> USE DEF TypeOK, vars, clientVars, serverVars
<1>1. ASSUME NEW c \in Clients, Connect(c)
      PROVE  TypeOK'
  <2>1. Segments(request[c]) \in Seq(SUBSET {"head", "body"})
    BY SegmentsType
  <2>2. backlog' \in Seq(Clients)
    BY <1>1 DEF Connect
  <2>3. wire' \in [Clients -> Seq(SUBSET {"head", "body"})]
    BY <1>1, <2>1 DEF Connect
  <2> QED  BY <1>1, <2>2, <2>3 DEF Connect
<1>2. ASSUME NEW c \in Clients, Deliver(c)
      PROVE  TypeOK'
  <2>1. wire[c] \in Seq(SUBSET {"head", "body"}) /\ wire[c] # <<>>
    BY <1>2 DEF Deliver
  <2>2. Head(wire[c]) \in SUBSET {"head", "body"} /\ Tail(wire[c]) \in Seq(SUBSET {"head", "body"})
    BY <2>1
  <2>3. wire' \in [Clients -> Seq(SUBSET {"head", "body"})]
    BY <1>2, <2>2 DEF Deliver
  <2>4. inbox' \in [Clients -> SUBSET {"head", "body"}]
    BY <1>2, <2>2 DEF Deliver
  <2> QED  BY <1>2, <2>3, <2>4 DEF Deliver
<1>3. ASSUME NEW c \in Clients, Hangup(c)
      PROVE  TypeOK'
  BY <1>3 DEF Hangup
<1>4. ASSUME NEW c \in Clients, NextRequest(c)
      PROVE  TypeOK'
  <2>1. wire' \in [Clients -> Seq(SUBSET {"head", "body"})]
    BY <1>4 DEF NextRequest
  <2>2. request' \in [Clients -> Requests]
    BY <1>4 DEF NextRequest
  <2> QED  BY <1>4, <2>1, <2>2 DEF NextRequest, Replies
<1>5. CASE CheckIn
  BY <1>5 DEF CheckIn, Points
<1>6. CASE Accept
  <2>1. Head(backlog) \in Clients /\ Tail(backlog) \in Seq(Clients)
    BY <1>6, HeadOfBacklog DEF Accept
  <2> QED  BY <1>6, <2>1, WebAssumption DEF Accept, Points
<1>7. CASE AcceptReturnsError
  BY <1>7 DEF AcceptReturnsError, Points
<1>8. CASE Recv
  BY <1>8 DEF Recv, Received, Points
<1>9. CASE RecvReturnsNothing
  BY <1>9 DEF RecvReturnsNothing, Points
<1>10. CASE Route
  <2>1. conn \in Clients /\ request[conn] \in Requests
    BY <1>10 DEF Route
  <2>2. FlagAfter(request[conn]) \in {0, 1} /\ ReplyTo(request[conn]) \in Replies
    BY <2>1, RouteType
  <2> QED  BY <1>10, <2>2 DEF Route, Points
<1>11. CASE Send
  BY <1>11 DEF Send, Points, Replies
<1>12. CASE Close
  BY <1>12 DEF Close, Points
<1>13. CASE UNCHANGED vars
  BY <1>13
<1> QED
  BY <1>1, <1>2, <1>3, <1>4, <1>5, <1>6, <1>7, <1>8, <1>9, <1>10, <1>11, <1>12, <1>13
  DEF Next, Server, Client

\* A queue that grows by a client that was not in it, by one element.
LEMMA QueueGrows ==
    ASSUME TypeOK, QueueInv, NEW c \in Clients, Connect(c)
    PROVE  QueueInv'
<1>1. /\ backlog \in Seq(Clients) /\ backlog' = Append(backlog, c) /\ tcp[c] # "pending"
      /\ tcp' = [tcp EXCEPT ![c] = "pending"] /\ DOMAIN tcp = Clients
  BY DEF TypeOK, Connect
<1>2. /\ Len(backlog) \in Nat /\ Len(backlog') = Len(backlog) + 1
      /\ \A i \in 1 .. Len(backlog) : backlog'[i] = backlog[i] /\ backlog[i] \in Clients
      /\ backlog'[Len(backlog) + 1] = c
  BY <1>1
<1>3. \A i \in 1 .. Len(backlog) : backlog[i] # c /\ tcp'[backlog[i]] = "pending"
  BY <1>1, <1>2 DEF QueueInv
<1>4. \A i \in 1 .. Len(backlog') : i \in 1 .. Len(backlog) \/ i = Len(backlog) + 1
  BY <1>2
<1>5. \A i \in 1 .. Len(backlog') : tcp'[backlog'[i]] = "pending"
  BY <1>1, <1>2, <1>3, <1>4
<1>6. \A i, j \in 1 .. Len(backlog') : backlog'[i] = backlog'[j] => i = j
  BY <1>2, <1>3, <1>4 DEF QueueInv
<1>7. ASSUME NEW d \in Clients, tcp'[d] = "pending"
      PROVE  \E i \in 1 .. Len(backlog') : backlog'[i] = d
  <2>1. CASE d = c
    BY <1>2, <2>1
  <2>2. CASE d # c
    <3>1. PICK i \in 1 .. Len(backlog) : backlog[i] = d
      BY <1>1, <1>7, <2>2 DEF QueueInv
    <3> QED  BY <1>2, <3>1
  <2> QED  BY <2>1, <2>2
<1> QED  BY <1>5, <1>6, <1>7 DEF QueueInv

\* The client accept() returns is no longer pending, and no other place of the
\* queue is its.
LEMMA QueueShrinks ==
    ASSUME TypeOK, QueueInv, Accept
    PROVE  QueueInv'
<1> DEFINE d == Head(backlog)
<1>1. /\ d \in Clients /\ d = backlog[1]
      /\ Len(backlog) \in Nat \ {0} /\ Len(backlog') = Len(backlog) - 1
      /\ \A i \in 1 .. Len(backlog) - 1 : backlog'[i] = backlog[i + 1]
      /\ \A i \in 1 .. Len(backlog) : backlog[i] \in Clients
  BY HeadOfBacklog DEF Accept
<1>2. \A c \in Clients : tcp'[c] = IF c = d THEN "open" ELSE tcp[c]
  BY DEF Accept, TypeOK
<1> HIDE DEF d
<1>3. \A i \in 1 .. Len(backlog') :
         /\ i + 1 \in 1 .. Len(backlog) /\ backlog'[i] = backlog[i + 1] /\ i \in Nat
         /\ i + 1 # 1
  BY <1>1
<1>4. \A i \in 1 .. Len(backlog') : tcp'[backlog'[i]] = "pending"
  BY <1>1, <1>2, <1>3 DEF QueueInv
<1>5. \A i, j \in 1 .. Len(backlog') : backlog'[i] = backlog'[j] => i = j
  BY <1>3 DEF QueueInv
<1>6. ASSUME NEW c \in Clients, tcp'[c] = "pending"
      PROVE  \E i \in 1 .. Len(backlog') : backlog'[i] = c
  <2>1. c # d /\ tcp[c] = "pending"
    BY <1>2, <1>6
  <2>2. PICK i \in 1 .. Len(backlog) : backlog[i] = c
    BY <2>1 DEF QueueInv
  <2>3. i - 1 \in 1 .. Len(backlog') /\ backlog'[i - 1] = c
    BY <1>1, <2>1, <2>2
  <2> QED  BY <2>3
<1> QED  BY <1>4, <1>5, <1>6 DEF QueueInv

\* Every step keeps the queue.
LEMMA QueueStep ==
    ASSUME TypeOK, QueueInv, ServedInv, [Next]_vars
    PROVE  QueueInv'
<1>1. ASSUME UNCHANGED backlog, NEW c \in Clients, NEW s, tcp' = [tcp EXCEPT ![c] = s],
             tcp[c] # "pending", s # "pending"
      PROVE  QueueInv'
  <2>1. \A d \in Clients : tcp'[d] = "pending" <=> tcp[d] = "pending"
    BY <1>1 DEF TypeOK
  <2>2. \A i \in 1 .. Len(backlog) : backlog[i] \in Clients
    BY DEF TypeOK
  <2> QED  BY <1>1, <2>1, <2>2 DEF QueueInv
<1>2. CASE UNCHANGED <<tcp, backlog>>
  BY <1>2 DEF QueueInv
<1>3. CASE Close
  <2>1. conn \in Clients /\ tcp[conn] = "open"
    BY <1>3 DEF Close, TypeOK, ServedInv
  <2> QED  BY <1>1, <1>3, <2>1 DEF Close
<1>4. ASSUME NEW c \in Clients, NextRequest(c)
      PROVE  QueueInv'
  BY <1>1, <1>4 DEF NextRequest, serverVars
<1> QED
  BY <1>2, <1>3, <1>4, QueueGrows, QueueShrinks
  DEF Next, Server, Client, CheckIn, AcceptReturnsError, Recv, RecvReturnsNothing, Route, Send,
      Deliver, Hangup, vars, clientVars, serverVars

\* Every step keeps one connection open at most, the one being served.
LEMMA ServedStep ==
    ASSUME TypeOK, QueueInv, ServedInv, [Next]_vars
    PROVE  ServedInv'
<1> USE DEF ServedInv, NoLeakedConnection
<1>1. CASE UNCHANGED <<tcp, conn>>
  BY <1>1
<1>2. CASE Accept
  <2>1. Head(backlog) \in Clients /\ conn = NoClient
    BY <1>2, HeadOfBacklog DEF Accept, TypeOK
  <2>2. \A c \in Clients : tcp'[c] = IF c = Head(backlog) THEN "open" ELSE tcp[c]
    BY <1>2 DEF Accept, TypeOK
  <2> QED  BY <1>2, <2>1, <2>2, WebAssumption DEF Accept
<1>3. CASE Close
  <2>1. conn \in Clients
    BY <1>3 DEF Close, TypeOK
  <2> QED  BY <1>3, <2>1 DEF Close, TypeOK
<1>4. ASSUME NEW c \in Clients, Connect(c) \/ NextRequest(c)
      PROVE  ServedInv'
  <2>1. tcp[c] # "open" /\ conn' = conn /\ conn \in Clients \cup {NoClient}
    BY <1>4 DEF Connect, NextRequest, serverVars, TypeOK
  <2>2. \A d \in Clients : d # c => tcp'[d] = tcp[d]
    BY <1>4 DEF Connect, NextRequest, TypeOK
  <2>3. tcp'[c] # "open"
    BY <1>4 DEF Connect, NextRequest, TypeOK
  <2> QED  BY <2>1, <2>2, <2>3
<1> QED
  BY <1>1, <1>2, <1>3, <1>4
  DEF Next, Server, Client, CheckIn, AcceptReturnsError, Recv, RecvReturnsNothing, Route, Send,
      Deliver, Hangup, vars, clientVars, serverVars

\* Every step keeps a whole request whole, on the wire, in the buffer and in the flag.
LEMMA WholeStep ==
    ASSUME TypeOK, QueueInv, ServedInv, WholeInv, [Next]_vars
    PROVE  WholeInv'
<1> USE DEF CommandComesWhole, Commanded
<1>0. /\ conn \in Clients \cup {NoClient}
      /\ pc \notin {"checkin", "accept"} => conn \in Clients /\ tcp[conn] = "open"
  BY WebAssumption DEF TypeOK, ServedInv, Points
<1>1. CASE UNCHANGED <<request, wire, inbox, pc, conn, rx, out, g_web_control_active>>
  BY <1>1 DEF WholeInv
<1>2. ASSUME NEW c \in Clients, Connect(c)
      PROVE  WholeInv'
  <2>1. CommandComesWhole(request[c]) => Segments(request[c]) = <<All>>
    BY SegmentsType DEF TypeOK
  <2>2. \A d \in Clients : wire'[d] = IF d = c THEN Segments(request[c]) ELSE wire[d]
    BY <1>2 DEF Connect, TypeOK
  <2> QED  BY <1>2, <2>1, <2>2 DEF Connect, WholeInv
<1>3. ASSUME NEW c \in Clients, Deliver(c)
      PROVE  WholeInv'
  <2>1. \A d \in Clients : /\ wire'[d] = IF d = c THEN Tail(wire[c]) ELSE wire[d]
                           /\ inbox'[d] = IF d = c THEN inbox[c] \cup Head(wire[c]) ELSE inbox[d]
    BY <1>3 DEF Deliver, TypeOK
  <2>2. ASSUME CommandComesWhole(request[c])
        PROVE  wire'[c] = <<>> /\ inbox'[c] = All
    <3>1. wire[c] = <<All>> /\ inbox[c] \in {{}, All}
      BY <1>3, <2>2 DEF Deliver, WholeInv
    <3>2. Head(wire[c]) = All /\ Tail(wire[c]) = <<>>
      BY <3>1
    <3> QED  BY <2>1, <3>1, <3>2
  <2> QED  BY <1>3, <2>1, <2>2 DEF Deliver, WholeInv, serverVars
<1>4. ASSUME NEW c \in Clients, NextRequest(c)
      PROVE  WholeInv'
  <2>1. \A d \in Clients :
           /\ d = c => wire'[d] = <<>> /\ inbox'[d] = {}
           /\ d # c => request'[d] = request[d] /\ wire'[d] = wire[d] /\ inbox'[d] = inbox[d]
    BY <1>4 DEF NextRequest, TypeOK
  <2>2. pc \in {"route", "send"} => conn \in Clients /\ conn # c
    BY <1>0, <1>4 DEF NextRequest
  <2> QED  BY <1>4, <2>1, <2>2 DEF NextRequest, WholeInv, serverVars
<1>5. CASE Recv
  <2>1. conn \in Clients /\ inbox[conn] # {}
    BY <1>0, <1>5 DEF Recv
  <2>2. ASSUME CommandComesWhole(request[conn])
        PROVE  rx' = All /\ inbox'[conn] = {}
    <3>1. inbox[conn] = All
      BY <2>1, <2>2 DEF WholeInv
    <3> QED  BY <1>5, <2>1, <2>2, <3>1 DEF Recv, Received, TypeOK
  <2>3. \A d \in Clients : d # conn => inbox'[d] = inbox[d]
    BY <1>5 DEF Recv, TypeOK
  <2> QED  BY <1>5, <2>1, <2>2, <2>3 DEF Recv, WholeInv
<1>6. CASE Route
  <2>1. conn \in Clients /\ request[conn] \in Requests
    BY <1>0, <1>6 DEF Route, TypeOK
  <2>2. ASSUME out' = "ok", CommandComesWhole(request[conn])
        PROVE  g_web_control_active' = Commanded(request[conn])
    <3>1. rx = All
      BY <1>6, <2>2 DEF Route, WholeInv
    <3>2. IsControlPost(request[conn])
      BY <1>6, <2>1, <2>2, RequestType DEF Route, ReplyTo, Paths
    <3>3. request[conn].command \in {"on", "off"} /\ FoundCommand(request[conn]) = request[conn].command
      <4>1. request[conn].command \in {"on", "off"}
        BY <2>1, <2>2, RequestType DEF Commands
      <4>2. \A w : w \in Words(request[conn]) <=> w \in request[conn].head \/ w = request[conn].command
        BY <3>1 DEF Words, All
      <4> QED  BY <2>2, <4>1, <4>2 DEF FoundCommand
    <3> QED  BY <1>6, <3>2, <3>3 DEF Route, FlagAfter
  <2> QED  BY <1>6, <2>2 DEF Route, WholeInv, clientVars
<1>7. CASE Accept
  BY <1>7 DEF Accept, WholeInv
<1> QED
  BY <1>1, <1>2, <1>3, <1>4, <1>5, <1>6, <1>7
  DEF Next, Server, Client, CheckIn, AcceptReturnsError, RecvReturnsNothing, Send, Close,
      Hangup, vars, clientVars, serverVars, WholeInv

\* The invariant holds of every reachable state.
LEMMA WebInvHolds == Spec => []WebInv
<1>1. Init => WebInv
  <2> SUFFICES ASSUME Init PROVE WebInv
    OBVIOUS
  <2>1. TypeOK
    BY WebAssumption DEF Init, TypeOK, Points, Replies
  <2>2. Len(backlog) = 0 /\ \A c \in Clients : tcp[c] = "idle" /\ wire[c] = <<>> /\ inbox[c] = {}
    BY DEF Init
  <2>3. QueueInv /\ ServedInv
    BY <2>2 DEF Init, QueueInv, ServedInv, NoLeakedConnection
  <2>4. WholeInv
    BY <2>2 DEF Init, WholeInv
  <2> QED  BY <2>1, <2>3, <2>4 DEF WebInv
<1>2. WebInv /\ [Next]_vars => WebInv'
  BY TypeStep, QueueStep, ServedStep, WholeStep DEF WebInv
<1> QED  BY <1>1, <1>2, PTL DEF Spec
-----------------------------------------------------------------------------
(* The theorems. *)

\* The handler's state has its types at every step, whatever the clients do.
THEOREM TypeCorrect == Spec => []TypeOK
BY WebInvHolds, PTL DEF WebInv

\* No path through http_handler_task forgets the connection it accepted.
THEOREM NoDescriptorLost == Spec => []NoLeakedConnection
BY WebInvHolds, PTL DEF WebInv, ServedInv

\* A command that is received whole and acknowledged has been carried out when the
\* acknowledgement goes out, whatever the other clients did meanwhile.
THEOREM WholeCommandCarriedOut == Spec => WholeCommandIsApplied
<1> DEFINE Applied ==
      \A c \in Clients :
          (reply[c] = "none" /\ reply'[c] = "ok" /\ CommandComesWhole(request[c])) =>
              g_web_control_active = (IF request[c].command = "on" THEN 1 ELSE 0)
<1>1. ASSUME WebInv, [Next]_vars
      PROVE  [Applied]_vars
  <2>1. CASE Send
    <3> SUFFICES ASSUME NEW c \in Clients, reply[c] = "none", reply'[c] = "ok",
                        CommandComesWhole(request[c])
                 PROVE  g_web_control_active = Commanded(request[c])
      BY DEF Commanded
    <3>1. c = conn /\ out = "ok"
      BY <1>1, <2>1 DEF Send, WebInv, TypeOK
    <3> QED  BY <1>1, <2>1, <3>1 DEF Send, WebInv, WholeInv
  <2>2. ASSUME NEW d \in Clients, NextRequest(d)
        PROVE  Applied
    BY <1>1, <2>2 DEF NextRequest, WebInv, TypeOK
  <2>3. CASE UNCHANGED reply
    BY <2>3
  <2> QED
    BY <1>1, <2>1, <2>2, <2>3
    DEF Next, Server, Client, CheckIn, Accept, AcceptReturnsError, Recv, RecvReturnsNothing,
        Route, Close, Connect, Deliver, Hangup, vars, clientVars
<1>2. Spec => [][Applied]_vars
  BY <1>1, WebInvHolds, PTL DEF Spec
<1> QED  BY <1>2 DEF WholeCommandIsApplied
=============================================================================
