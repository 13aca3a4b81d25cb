------------------------------- MODULE TcpServer -------------------------------
(***************************************************************************)
(* The TCP echo server task of the Ethernet service.                        *)
(*                                                                         *)
(* The task brings the stack up and waits for the link, checking in with    *)
(* the health monitor on every poll; it opens its listening socket, or       *)
(* deletes itself; then it serves one session at a time, echoing whatever    *)
(* one recv() returns.  Both accept() and recv() time out after 200 ms so    *)
(* that the task comes back to its ticket; send() has no timeout and waits   *)
(* for room in the peer's window.                                            *)
(*                                                                         *)
(* A client sends the bytes 1, 2, 3 ...; lwIP is external.                   *)
(***************************************************************************)
EXTENDS Naturals, SequencesExt

CONSTANTS
    Clients,
    NoClient,     \* not a client
    RX,           \* TCP_RX_BUFFER_SIZE - 1, what one recv() returns at most
    SendRoom,     \* echoed bytes a client leaves unread before send() waits
    MaxBytes      \* bound: bytes a client sends

ASSUME ServerAssumption ==
    /\ NoClient \notin Clients
    /\ RX \in Nat \ {0} /\ SendRoom \in Nat \ {0} /\ MaxBytes \in Nat

VARIABLES
    pc,        \* where the task is
    linkUp,    \* the PHY reports a link
    backlog,   \* connections waiting for accept(), in order
    conn,      \* conn_fd: the client of the session
    rx,        \* rx_buffer from the first byte not yet sent
    tcp,       \* each client: "idle", "open", "finished", "broken", "closed"
    sent,      \* how many bytes each client has sent
    inbox,     \* bytes that have arrived and were not received yet
    unread,    \* echoed bytes the client has not read
    echoed     \* echoed bytes the client has read

clientVars == <<tcp, sent, inbox, unread, echoed>>
serverVars == <<pc, backlog, conn, rx>>
vars == <<linkUp, serverVars, clientVars>>

Bytes == 1 .. MaxBytes
Points == {"link", "setup", "deleted", "checkin", "accept", "session", "recv", "echo", "close"}

TypeOK ==
    /\ pc \in Points /\ linkUp \in BOOLEAN
    /\ backlog \in Seq(Clients)
    /\ conn \in Clients \cup {NoClient}
    /\ conn # NoClient <=> pc \in {"session", "recv", "echo", "close"}
    /\ rx \in Seq(Bytes) /\ Len(rx) =< RX
    /\ tcp \in [Clients -> {"idle", "open", "finished", "broken", "closed"}]
    /\ sent \in [Clients -> 0 .. MaxBytes]
    /\ \A c \in Clients :
         /\ {inbox[c], unread[c], echoed[c]} \subseteq Seq(Bytes)
         /\ Len(unread[c]) =< SendRoom

Init ==
    /\ pc = "link" /\ linkUp \in BOOLEAN
    /\ backlog = <<>> /\ conn = NoClient /\ rx = <<>>
    /\ tcp = [c \in Clients |-> "idle"]
    /\ sent = [c \in Clients |-> 0]
    /\ inbox = [c \in Clients |-> <<>>]
    /\ unread = [c \in Clients |-> <<>>]
    /\ echoed = [c \in Clients |-> <<>>]

-----------------------------------------------------------------------------
(* The cable, the clients and lwIP. *)

LinkChanges ==
    /\ linkUp' = ~linkUp
    /\ UNCHANGED <<serverVars, clientVars>>

Listening == pc \notin {"link", "setup", "deleted"}

Connect(c) ==
    /\ Listening /\ tcp[c] = "idle"
    /\ tcp' = [tcp EXCEPT ![c] = "open"]
    /\ backlog' = Append(backlog, c)
    /\ UNCHANGED <<linkUp, pc, conn, rx, sent, inbox, unread, echoed>>

SendByte(c) ==
    /\ tcp[c] = "open" /\ sent[c] < MaxBytes
    /\ sent' = [sent EXCEPT ![c] = @ + 1]
    /\ inbox' = [inbox EXCEPT ![c] = Append(@, sent[c] + 1)]
    /\ UNCHANGED <<linkUp, serverVars, tcp, unread, echoed>>

ReadEcho(c) ==
    /\ unread[c] # <<>>
    /\ echoed' = [echoed EXCEPT ![c] = @ \o unread[c]]
    /\ unread' = [unread EXCEPT ![c] = <<>>]
    /\ UNCHANGED <<linkUp, serverVars, tcp, sent, inbox>>

\* The client closes its side in order, or the connection breaks.
Leave(c, how) ==
    /\ tcp[c] \in {"open", "finished"} /\ tcp[c] # how
    /\ tcp' = [tcp EXCEPT ![c] = how]
    /\ UNCHANGED <<linkUp, serverVars, sent, inbox, unread, echoed>>

-----------------------------------------------------------------------------
(* stack_init and the set-up of the listening socket. *)

\* A poll without a link checks in and waits for the next one.
WaitForLink ==
    /\ pc = "link"
    /\ pc' = IF linkUp THEN "setup" ELSE "link"
    /\ UNCHANGED <<linkUp, backlog, conn, rx, clientVars>>

\* socket(), bind() and listen(); an error of any of them ends the task.
OpenListener ==
    /\ pc = "setup"
    /\ pc' \in {"checkin", "deleted"}
    /\ UNCHANGED <<linkUp, backlog, conn, rx, clientVars>>

-----------------------------------------------------------------------------
(* The loop of tcp_server_task. *)

CheckIn ==
    /\ pc \in {"checkin", "session"}
    /\ pc' = IF pc = "checkin" THEN "accept" ELSE "recv"
    /\ UNCHANGED <<linkUp, backlog, conn, rx, clientVars>>

Accept ==
    /\ pc = "accept" /\ backlog # <<>>
    /\ conn' = Head(backlog)
    /\ backlog' = Tail(backlog)
    /\ pc' = "session"
    /\ UNCHANGED <<linkUp, rx, clientVars>>

\* accept() timed out or failed.
AcceptReturnsError ==
    /\ pc = "accept"
    /\ pc' = "checkin"
    /\ UNCHANGED <<linkUp, backlog, conn, rx, clientVars>>

\* Mutant: the whole buffer is filled and the terminator written behind it.
Received_WholeBuffer == SubSeq(inbox[conn], 1, Min({Len(inbox[conn]), RX + 1}))

\* What one recv() returns of the bytes that have arrived.
Received == SubSeq(inbox[conn], 1, Min({Len(inbox[conn]), RX}))

RecvData ==
    /\ pc = "recv" /\ inbox[conn] # <<>> /\ tcp[conn] # "broken"
    /\ rx' = Received
    /\ inbox' = [inbox EXCEPT ![conn] = SubSeq(@, Len(Received) + 1, Len(@))]
    /\ pc' = "echo"
    /\ UNCHANGED <<linkUp, backlog, conn, tcp, sent, unread, echoed>>

\* Mutant: the accepted socket has no timeout.
RecvTimesOut_Never == FALSE /\ UNCHANGED vars

\* Mutant: the timeout is taken for the end of the session.
RecvTimesOut_EndsSession ==
    /\ pc = "recv" /\ inbox[conn] = <<>> /\ tcp[conn] = "open"
    /\ pc' = "close"
    /\ UNCHANGED <<linkUp, backlog, conn, rx, clientVars>>

\* Nothing came for 200 ms: back to the ticket.
RecvTimesOut ==
    /\ pc = "recv" /\ inbox[conn] = <<>> /\ tcp[conn] = "open"
    /\ pc' = "session"
    /\ UNCHANGED <<linkUp, backlog, conn, rx, clientVars>>

\* The client has closed and everything was received, or the connection broke.
RecvEndsSession ==
    /\ pc = "recv"
    /\ \/ tcp[conn] = "finished" /\ inbox[conn] = <<>>
       \/ tcp[conn] = "broken"
    /\ pc' = "close"
    /\ UNCHANGED <<linkUp, backlog, conn, rx, clientVars>>

\* Mutant: the buffer is sent from its end.
NextByte_Last == rx[Len(rx)]

NextByte == rx[1]

\* send() hands over the received bytes as there is room for them.
EchoByte ==
    /\ pc = "echo" /\ tcp[conn] # "broken"
    /\ Len(unread[conn]) < SendRoom
    /\ unread' = [unread EXCEPT ![conn] = Append(@, NextByte)]
    /\ rx' = Tail(rx)
    /\ pc' = IF Len(rx) = 1 THEN "session" ELSE "echo"
    /\ UNCHANGED <<linkUp, backlog, conn, tcp, sent, inbox, echoed>>

\* send() on a broken connection fails; its result is not looked at.
SendFails ==
    /\ pc = "echo" /\ tcp[conn] = "broken"
    /\ rx' = <<>>
    /\ pc' = "session"
    /\ UNCHANGED <<linkUp, backlog, conn, clientVars>>

Close ==
    /\ pc = "close"
    /\ tcp' = [tcp EXCEPT ![conn] = "closed"]
    /\ conn' = NoClient
    /\ pc' = "checkin"
    /\ UNCHANGED <<linkUp, backlog, rx, sent, inbox, unread, echoed>>

-----------------------------------------------------------------------------
Server ==
    \/ WaitForLink \/ OpenListener
    \/ CheckIn
    \/ RecvData \/ RecvTimesOut \/ RecvEndsSession
    \/ EchoByte \/ SendFails
    \/ Close

\* A deleted task stays deleted, and the system around it goes on.
Gone == pc = "deleted" /\ UNCHANGED vars

Next ==
    \/ Server
    \/ Accept
    \/ AcceptReturnsError
    \/ Gone
    \/ LinkChanges
    \/ \E c \in Clients :
         \/ Connect(c) \/ SendByte(c) \/ ReadEcho(c)
         \/ Leave(c, "finished") \/ Leave(c, "broken")

Spec == Init /\ [][Next]_vars

\* The task gets the processor, the timeouts of accept() and recv() run off, and
\* a client reads what it is sent or its connection breaks.
FairSpec ==
    /\ Spec
    /\ WF_vars(Server)
    /\ WF_vars(Accept \/ AcceptReturnsError) /\ SF_vars(Accept)
    /\ \A c \in Clients : WF_vars(ReadEcho(c))

-----------------------------------------------------------------------------
(* Properties. *)

UpTo(n) == [k \in 1 .. n |-> k]

\* A client gets back its own bytes, in order, none twice and none left out: what
\* it has read and what is on its way is a prefix of what it sent, over every
\* timeout, session and client before it (tcp_server_task, lines 197-228).
EchoIsFaithful ==
    \A c \in Clients :
        LET back == echoed[c] \o unread[c]
        IN  back = UpTo(Len(back)) /\ Len(back) =< sent[c]

\* However silent its client is, a session does not keep the task from its
\* ticket; only a task that was never started up stays away for good.
TicketIsRefreshed == []<>(pc \in {"link", "checkin", "session", "deleted"})

\* A byte of the client in session is echoed unless the connection breaks.
SessionIsEchoed ==
    \A c \in Clients : \A n \in Bytes :
        (conn = c /\ sent[c] >= n) ~> (Len(echoed[c]) >= n \/ tcp[c] = "broken")
=============================================================================
