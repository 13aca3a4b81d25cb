------------------------------ MODULE WebService ------------------------------
(***************************************************************************)
(* The HTTP handler task and the clients that talk to it.                   *)
(*                                                                         *)
(* One task serves one connection at a time: it checks in with the health   *)
(* monitor, accepts with a timeout, receives once, routes what it received, *)
(* replies and closes.  The control flag it sets is polled by the main      *)
(* application (module Indicator).  TCP delivers a request in order but in  *)
(* one segment or in two, a head may fill the receive buffer, and a client  *)
(* may stay silent or hang up at any point; lwIP is external and modelled   *)
(* by what accept() and recv() return.                                      *)
(***************************************************************************)
EXTENDS Naturals, Sequences

CONSTANTS
    Clients,
    NoClient,    \* not a client
    Requests     \* the requests clients send

Paths == {"sensor", "control", "static", "unknown", "malformed"}
Methods == {"GET", "POST", "OPTIONS"}
Commands == {"on", "off", "none"}

\* Of a request's text, "head" holds the words "on" and "off" that its request line
\* and headers quote, and "command" the one its body quotes.
\*
\* A request comes as one segment, as head and body in two, or with a head that
\* alone takes the HTTP_RX_BUF_SIZE - 1 bytes a recv() may return.
Shapes == {"one", "two", "long"}

ASSUME WebAssumption ==
    /\ NoClient \notin Clients
    /\ Requests \subseteq
         [path : Paths, method : Methods, head : SUBSET {"on", "off"},
          command : Commands, shape : Shapes]

VARIABLES
    tcp,       \* each client's connection: "idle", "pending", "open", "closed"
    request,   \* the request each client sends
    wire,      \* segments of it under way, in order; a segment is a set of parts
    inbox,     \* parts that have arrived and were not received yet
    fin,       \* the client has closed its side
    reply,     \* what the client was answered
    backlog,   \* connections waiting for accept(), in order
    pc,        \* where the handler task is
    conn,      \* conn_fd: the client being served
    rx,        \* rx_buf: the parts the one recv() returned
    out,       \* the reply being sent
    g_web_control_active

clientVars == <<tcp, request, wire, inbox, fin, reply>>
serverVars == <<backlog, pc, conn, rx, out>>
vars == <<clientVars, serverVars, g_web_control_active>>

Replies == {"none", "json", "ok", "preflight", "405", "404", "page"}
Points == {"checkin", "accept", "recv", "route", "send", "close"}

TypeOK ==
    /\ tcp \in [Clients -> {"idle", "pending", "open", "closed"}]
    /\ request \in [Clients -> Requests]
    /\ wire \in [Clients -> Seq(SUBSET {"head", "body"})]
    /\ inbox \in [Clients -> SUBSET {"head", "body"}]
    /\ fin \in [Clients -> BOOLEAN]
    /\ reply \in [Clients -> Replies]
    /\ backlog \in Seq(Clients)
    /\ pc \in Points
    /\ conn \in Clients \cup {NoClient}
    /\ conn = NoClient <=> pc \in {"checkin", "accept"}
    /\ rx \subseteq {"head", "body"}
    /\ out \in Replies
    /\ g_web_control_active \in {0, 1}

Init ==
    /\ tcp = [c \in Clients |-> "idle"]
    /\ request \in [Clients -> Requests]
    /\ wire = [c \in Clients |-> <<>>]
    /\ inbox = [c \in Clients |-> {}]
    /\ fin = [c \in Clients |-> FALSE]
    /\ reply = [c \in Clients |-> "none"]
    /\ backlog = <<>>
    /\ pc = "checkin"
    /\ conn = NoClient
    /\ rx = {}
    /\ out = "none"
    /\ g_web_control_active = 0

-----------------------------------------------------------------------------
(* The clients and the network. *)

\* The segments of a request; one without a command has no body.
Segments(r) ==
    CASE r.command = "none" -> <<{"head"}>>
      [] r.shape = "two"    -> <<{"head"}, {"body"}>>
      [] OTHER              -> <<{"head", "body"}>>

Connect(c) ==
    /\ tcp[c] = "idle"
    /\ tcp' = [tcp EXCEPT ![c] = "pending"]
    /\ wire' = [wire EXCEPT ![c] = Segments(request[c])]
    /\ backlog' = Append(backlog, c)
    /\ UNCHANGED <<request, inbox, fin, reply, pc, conn, rx, out,
                   g_web_control_active>>

Deliver(c) ==
    /\ tcp[c] \in {"pending", "open"} /\ ~fin[c]
    /\ wire[c] # <<>>
    /\ inbox' = [inbox EXCEPT ![c] = @ \cup Head(wire[c])]
    /\ wire' = [wire EXCEPT ![c] = Tail(@)]
    /\ UNCHANGED <<tcp, request, fin, reply, serverVars, g_web_control_active>>

\* The client closes its side, perhaps before it has sent everything.
Hangup(c) ==
    /\ tcp[c] \in {"pending", "open"} /\ ~fin[c]
    /\ fin' = [fin EXCEPT ![c] = TRUE]
    /\ UNCHANGED <<tcp, request, wire, inbox, reply, serverVars,
                   g_web_control_active>>

\* The client goes on to its next request.
NextRequest(c) ==
    /\ tcp[c] = "closed"
    /\ tcp' = [tcp EXCEPT ![c] = "idle"]
    /\ \E r \in Requests : request' = [request EXCEPT ![c] = r]
    /\ wire' = [wire EXCEPT ![c] = <<>>]
    /\ inbox' = [inbox EXCEPT ![c] = {}]
    /\ fin' = [fin EXCEPT ![c] = FALSE]
    /\ reply' = [reply EXCEPT ![c] = "none"]
    /\ UNCHANGED <<serverVars, g_web_control_active>>

-----------------------------------------------------------------------------
(* http_handler_task. *)

CheckIn ==
    /\ pc = "checkin"
    /\ pc' = "accept"
    /\ UNCHANGED <<clientVars, backlog, conn, rx, out, g_web_control_active>>

Accept ==
    /\ pc = "accept" /\ backlog # <<>>
    /\ conn' = Head(backlog)
    /\ backlog' = Tail(backlog)
    /\ tcp' = [tcp EXCEPT ![Head(backlog)] = "open"]
    /\ pc' = "recv"
    /\ UNCHANGED <<request, wire, inbox, fin, reply, rx, out, g_web_control_active>>

\* accept() timed out or failed: either way the loop starts again.
AcceptReturnsError ==
    /\ pc = "accept"
    /\ pc' = "checkin"
    /\ UNCHANGED <<clientVars, backlog, conn, rx, out, g_web_control_active>>

\* Mutant: a recv() for the head alone.
Received_HeadFirst(c) ==
    IF inbox[c] = {"head", "body"} THEN {"head"} ELSE inbox[c]

\* What a recv() of at most HTTP_RX_BUF_SIZE - 1 bytes returns of what is there.
Received(c) ==
    IF request[c].shape = "long" /\ "head" \in inbox[c] THEN {"head"} ELSE inbox[c]

\* The one recv(): what has arrived by then and fits.  It has no timeout of its
\* own; what is left over is never received.
Recv ==
    /\ pc = "recv" /\ inbox[conn] # {}
    /\ rx' = Received(conn)
    /\ inbox' = [inbox EXCEPT ![conn] = @ \ Received(conn)]
    /\ pc' = "route"
    /\ UNCHANGED <<tcp, request, wire, fin, reply, backlog, conn, out,
                   g_web_control_active>>

\* Mutant: the early return forgets the descriptor.
RecvReturnsNothing_NoClose ==
    /\ pc = "recv" /\ inbox[conn] = {} /\ fin[conn]
    /\ pc' = "checkin"
    /\ conn' = NoClient
    /\ UNCHANGED <<clientVars, backlog, rx, out, g_web_control_active>>

\* The client hung up without a byte: close and start again.
RecvReturnsNothing ==
    /\ pc = "recv" /\ inbox[conn] = {} /\ fin[conn]
    /\ pc' = "close"
    /\ UNCHANGED <<clientVars, backlog, conn, rx, out, g_web_control_active>>

IsControlPost(r) == r.path = "control" /\ r.method = "POST"

\* The quoted words in what was received.
Words(r) == (IF "head" \in rx THEN r.head ELSE {})
              \cup (IF "body" \in rx THEN {r.command} ELSE {})

\* The command handle_control_post finds, if any: it searches head and body alike,
\* for "on" before "off".
FoundCommand(r) ==
    CASE "on" \in Words(r) -> "on"
      [] "on" \notin Words(r) /\ "off" \in Words(r) -> "off"
      [] OTHER -> "none"

\* Mutant: "off" is not recognised.
FlagAfter_OnOnly(r) ==
    IF IsControlPost(r) /\ FoundCommand(r) = "on" THEN 1 ELSE g_web_control_active

FlagAfter(r) ==
    CASE IsControlPost(r) /\ FoundCommand(r) = "on"  -> 1
      [] IsControlPost(r) /\ FoundCommand(r) = "off" -> 0
      [] OTHER -> g_web_control_active

\* The reply of each route; a control POST is acknowledged whatever it held.
ReplyTo(r) ==
    CASE r.path = "malformed" -> "404"
      [] r.path = "sensor"    -> IF r.method = "GET" THEN "json" ELSE "405"
      [] r.path = "control"   -> IF IsControlPost(r) THEN "ok"
                                 ELSE IF r.method = "OPTIONS" THEN "preflight" ELSE "405"
      [] r.path = "static"    -> "page"
      [] r.path = "unknown"   -> "404"

Route ==
    /\ pc = "route"
    /\ g_web_control_active' = FlagAfter(request[conn])
    /\ out' = ReplyTo(request[conn])
    /\ pc' = "send"
    /\ UNCHANGED <<clientVars, backlog, conn, rx>>

Send ==
    /\ pc = "send"
    /\ reply' = [reply EXCEPT ![conn] = out]
    /\ out' = "none"
    /\ pc' = "close"
    /\ UNCHANGED <<tcp, request, wire, inbox, fin, backlog, conn, rx,
                   g_web_control_active>>

\* Mutant: the descriptor outlives its connection.
Close_KeepsDescriptor ==
    /\ pc = "close"
    /\ tcp' = [tcp EXCEPT ![conn] = "closed"]
    /\ rx' = {}
    /\ pc' = "checkin"
    /\ UNCHANGED <<request, wire, inbox, fin, reply, backlog, conn, out,
                   g_web_control_active>>

Close ==
    /\ pc = "close"
    /\ tcp' = [tcp EXCEPT ![conn] = "closed"]
    /\ conn' = NoClient
    /\ rx' = {}
    /\ pc' = "checkin"
    /\ UNCHANGED <<request, wire, inbox, fin, reply, backlog, out,
                   g_web_control_active>>

-----------------------------------------------------------------------------
Server ==
    \/ CheckIn
    \/ Recv
    \/ RecvReturnsNothing
    \/ Route
    \/ Send
    \/ Close

Client(c) == Deliver(c) \/ Hangup(c)

Next ==
    \/ Server
    \/ Accept
    \/ AcceptReturnsError
    \/ \E c \in Clients : Connect(c) \/ Client(c) \/ NextRequest(c)

Spec == Init /\ [][Next]_vars

\* The tasks get the processor, accept() returns after at most its timeout, and
\* an error of accept() is not permanent.
ServerFairness ==
    /\ WF_vars(Server)
    /\ WF_vars(Accept \/ AcceptReturnsError)
    /\ SF_vars(Accept)

\* A client that has connected sends its request or hangs up.
PoliteClients == \A c \in Clients : WF_vars(Client(c))

ServerSpec == Spec /\ ServerFairness
FairSpec == ServerSpec /\ PoliteClients

-----------------------------------------------------------------------------
(* Properties. *)

\* No descriptor is lost: a connection that is open is the one being served, so
\* every path through the loop of http_handler_task, early returns included, has
\* closed the connection it accepted.
NoLeakedConnection == \A c \in Clients : tcp[c] = "open" => c = conn

\* A client that is answered {"status":"ok"} to a command finds it carried out:
\* the flag has the commanded value when the reply goes out.
AckedCommandIsApplied ==
    [][\A c \in Clients :
          (reply[c] = "none" /\ reply'[c] = "ok" /\ request[c].command # "none") =>
              g_web_control_active = (IF request[c].command = "on" THEN 1 ELSE 0)]_vars

\* A command whose request comes in one segment, with a head that leaves room for
\* the body in rx_buf and that does not itself switch on what the body switches off.
CommandComesWhole(r) ==
    /\ r.shape = "one" /\ r.command # "none"
    /\ r.command = "off" => "on" \notin r.head

\* For such a command it holds, whatever the other clients asked in between.
WholeCommandIsApplied ==
    [][\A c \in Clients :
          (reply[c] = "none" /\ reply'[c] = "ok" /\ CommandComesWhole(request[c])) =>
              g_web_control_active = (IF request[c].command = "on" THEN 1 ELSE 0)]_vars

\* Every client is served in its turn, as long as the clients before it send
\* their requests or hang up.
EveryClientIsServed == \A c \in Clients : tcp[c] = "pending" ~> tcp[c] = "closed"

\* What the comment on HTTP_ACCEPT_TIMEOUT_MS promises: the task comes back to
\* refresh its health-monitor ticket again and again.
TicketIsRefreshed == []<>(pc = "checkin")
=============================================================================
