--------------------------- MODULE TcpServer_proof ---------------------------
(***************************************************************************)
(* Proofs about the TCP echo server, for every set of clients, buffer size, *)
(* window and number of bytes.                                              *)
(*                                                                         *)
(* The bytes of a client lie one behind the other in four places: read by   *)
(* the client, on their way back, in rx_buffer while it is in session, and  *)
(* in the socket.  As long as its connection holds, together they are what  *)
(* it sent (StreamInv); each step moves bytes from one place to the next    *)
(* without a gap.  A broken connection may lose those of rx_buffer, and is  *)
(* never received from or sent to again.                                    *)
(***************************************************************************)
EXTENDS TcpServer, SequenceTheorems, TLAPS

-----------------------------------------------------------------------------
(* The inductive invariant. *)

TypeInv ==
    /\ TypeOK
    /\ inbox \in [Clients -> Seq(Bytes)]
    /\ unread \in [Clients -> Seq(Bytes)]
    /\ echoed \in [Clients -> Seq(Bytes)]
    /\ rx # <<>> <=> pc = "echo"

\* A client is known to the server in one place at a time: in the backlog or in
\* conn_fd, and in neither before it connects and after its socket is closed.
Connected == {"open", "finished", "broken"}

QueueInv ==
    /\ conn # NoClient => tcp[conn] \in Connected
    /\ \A j \in 1 .. Len(backlog) : tcp[backlog[j]] \in Connected /\ backlog[j] # conn
    /\ \A j, k \in 1 .. Len(backlog) : backlog[j] = backlog[k] => j = k

\* The sequence s holds the bytes behind byte b, in order.
Follows(s, b) == \A k \in 1 .. Len(s) : s[k] = b + k

\* Bytes of client c that are in rx_buffer.
Buffered(c) == IF conn = c THEN Len(rx) ELSE 0

\* Bytes of client c that have been handed to send().
Back(c) == Len(echoed[c]) + Len(unread[c])

\* The bytes of client c: those on their way back are the next ones after those
\* it has read, and as long as the connection holds nothing is missing.
Holds(c) == tcp[c] \in {"idle", "open", "finished"}

Stream(c) ==
    /\ Follows(echoed[c], 0) /\ Follows(unread[c], Len(echoed[c]))
    /\ Back(c) =< sent[c]
    /\ Holds(c) => /\ conn = c => Follows(rx, Back(c))
                   /\ Follows(inbox[c], Back(c) + Buffered(c))
                   /\ Back(c) + Buffered(c) + Len(inbox[c]) = sent[c]

StreamInv == \A c \in Clients : Stream(c)

TcpInv == TypeInv /\ QueueInv /\ StreamInv
-----------------------------------------------------------------------------
(* Sequences that follow one another. *)

\* A byte put behind the others: SendByte into the socket, EchoByte onto the way back.
LEMMA AppendFollows ==
    ASSUME NEW S, NEW s \in Seq(S), NEW b \in Nat, Follows(s, b), NEW x \in S, x = b + Len(s) + 1
    PROVE  /\ Append(s, x) \in Seq(S) /\ Len(Append(s, x)) = Len(s) + 1
           /\ Follows(Append(s, x), b)
<1>1. /\ Append(s, x) \in Seq(S) /\ Len(Append(s, x)) = Len(s) + 1
      /\ Append(s, x)[Len(s) + 1] = x
      /\ \A k \in 1 .. Len(s) : Append(s, x)[k] = s[k]
  BY AppendProperties
<1>2. Len(s) \in Nat
  BY LenProperties
<1>3. ASSUME NEW k \in 1 .. Len(s) + 1
      PROVE  Append(s, x)[k] = b + k
  <2>1. CASE k = Len(s) + 1
    BY <1>1, <1>2, <2>1
  <2>2. CASE k # Len(s) + 1
    <3>1. k \in 1 .. Len(s)
      BY <1>2, <2>2
    <3> QED  BY <1>1, <3>1 DEF Follows
  <2> QED  BY <2>1, <2>2
<1> QED  BY <1>1, <1>3 DEF Follows

\* The first byte taken off: EchoByte out of rx_buffer.
LEMMA TailFollows ==
    ASSUME NEW S, NEW s \in Seq(S), NEW b \in Nat, s # <<>>
    PROVE  /\ s[1] \in S /\ Tail(s) \in Seq(S) /\ Len(Tail(s)) = Len(s) - 1 /\ Len(s) >= 1
           /\ Len(s) = 1 <=> Tail(s) = <<>>
           /\ Follows(s, b) => s[1] = b + 1 /\ Follows(Tail(s), b + 1)
<1>1. /\ Tail(s) \in Seq(S) /\ Len(Tail(s)) = Len(s) - 1
      /\ \A k \in 1 .. Len(Tail(s)) : Tail(s)[k] = s[k + 1]
  BY HeadTailProperties
<1>2. Len(s) \in Nat \ {0} /\ 1 \in 1 .. Len(s)
  <2>1. Len(s) \in Nat
    BY LenProperties
  <2>2. Len(s) # 0
    BY EmptySeq
  <2> QED  BY <2>1, <2>2
<1>3. s[1] \in S
  BY <1>2, ElementOfSeq
<1>4. Len(s) = 1 <=> Tail(s) = <<>>
  <2>1. Tail(s) # <<>> => Len(Tail(s)) # 0
    BY <1>1, EmptySeq
  <2>2. Tail(s) = <<>> => Len(Tail(s)) = 0
    BY EmptySeq
  <2>3. Len(s) = 1 <=> Len(Tail(s)) = 0
    BY <1>1, <1>2
  <2> QED  BY <2>1, <2>2, <2>3
<1>5. ASSUME Follows(s, b)
      PROVE  s[1] = b + 1 /\ Follows(Tail(s), b + 1)
  <2>1. s[1] = b + 1
    BY <1>2, <1>5 DEF Follows
  <2>2. ASSUME NEW k \in 1 .. Len(Tail(s))
        PROVE  Tail(s)[k] = b + 1 + k
    <3>1. k + 1 \in 1 .. Len(s) /\ k \in Nat
      BY <1>1, <1>2
    <3>2. s[k + 1] = b + (k + 1)
      BY <1>5, <3>1 DEF Follows
    <3> QED  BY <1>1, <3>1, <3>2
  <2> QED  BY <2>1, <2>2 DEF Follows
<1> QED  BY <1>1, <1>2, <1>3, <1>4, <1>5

\* One sequence put behind another: ReadEcho.
LEMMA ConcatFollows ==
    ASSUME NEW S, NEW s \in Seq(S), NEW t \in Seq(S), NEW b \in Nat
    PROVE  /\ s \o t \in Seq(S) /\ Len(s \o t) = Len(s) + Len(t)
           /\ Follows(s, b) /\ Follows(t, b + Len(s)) => Follows(s \o t, b)
<1>1. /\ s \o t \in Seq(S) /\ Len(s \o t) = Len(s) + Len(t)
      /\ \A k \in 1 .. Len(s) + Len(t) :
           (s \o t)[k] = IF k <= Len(s) THEN s[k] ELSE t[k - Len(s)]
  BY ConcatProperties
<1>2. Len(s) \in Nat /\ Len(t) \in Nat
  BY LenProperties
<1>3. ASSUME Follows(s, b), Follows(t, b + Len(s)), NEW k \in 1 .. Len(s) + Len(t)
      PROVE  (s \o t)[k] = b + k
  <2>1. CASE k <= Len(s)
    <3>1. k \in 1 .. Len(s)
      BY <1>2, <2>1
    <3> QED  BY <1>1, <1>3, <2>1, <3>1 DEF Follows
  <2>2. CASE ~(k <= Len(s))
    <3>1. k - Len(s) \in 1 .. Len(t)
      BY <1>2, <2>2
    <3>2. t[k - Len(s)] = (b + Len(s)) + (k - Len(s))
      BY <1>3, <3>1 DEF Follows
    <3>3. (s \o t)[k] = t[k - Len(s)]
      BY <1>1, <2>2
    <3> QED  BY <1>2, <3>2, <3>3
  <2> QED  BY <2>1, <2>2
<1> QED  BY <1>1, <1>3 DEF Follows

\* A sequence cut in two: RecvData takes its part of what has arrived.
LEMMA SplitFollows ==
    ASSUME NEW S, NEW s \in Seq(S), NEW b \in Nat, NEW m \in 1 .. Len(s)
    PROVE  /\ SubSeq(s, 1, m) \in Seq(S) /\ Len(SubSeq(s, 1, m)) = m
           /\ SubSeq(s, m + 1, Len(s)) \in Seq(S) /\ Len(SubSeq(s, m + 1, Len(s))) = Len(s) - m
           /\ Follows(s, b) => /\ Follows(SubSeq(s, 1, m), b)
                               /\ Follows(SubSeq(s, m + 1, Len(s)), b + m)
<1> DEFINE p == SubSeq(s, 1, m)
           q == SubSeq(s, m + 1, Len(s))
<1>1. Len(s) \in Nat /\ m \in Nat /\ m + 1 \in 1 .. Len(s) + 1
  BY LenProperties
<1>2. /\ p \in Seq(S) /\ Len(p) = m
      /\ \A k \in 1 .. m : p[k] = s[k]
  <2>1. \A k \in 1 .. m : s[k] \in S
    BY <1>1, ElementOfSeq
  <2> QED  BY <1>1, <2>1, SubSeqProperties
<1>3. /\ q \in Seq(S) /\ Len(q) = Len(s) - m
      /\ \A k \in 1 .. Len(s) - m : q[k] = s[m + k]
  <2>1. \A k \in m + 1 .. Len(s) : s[k] \in S
    BY <1>1, ElementOfSeq
  <2>2. /\ q \in Seq(S)
        /\ Len(q) = IF m + 1 <= Len(s) THEN Len(s) - (m + 1) + 1 ELSE 0
        /\ \A k \in 1 .. Len(s) - (m + 1) + 1 : q[k] = s[m + 1 + k - 1]
    BY <1>1, <2>1, SubSeqProperties
  <2>3. \A k \in 1 .. Len(s) - m : m + 1 + k - 1 = m + k
    BY <1>1
  <2>4. Len(s) - (m + 1) + 1 = Len(s) - m /\ (~(m + 1 <= Len(s)) => Len(s) - m = 0)
    BY <1>1
  <2> HIDE DEF q
  <2> QED  BY <2>2, <2>3, <2>4
<1> HIDE DEF p, q
<1>4. ASSUME Follows(s, b)
      PROVE  Follows(p, b) /\ Follows(q, b + m)
  <2>1. ASSUME NEW k \in 1 .. m
        PROVE  p[k] = b + k
    <3>1. k \in 1 .. Len(s)
      BY <1>1
    <3> QED  BY <1>2, <1>4, <3>1 DEF Follows
  <2>2. ASSUME NEW k \in 1 .. Len(s) - m
        PROVE  q[k] = (b + m) + k
    <3>1. m + k \in 1 .. Len(s) /\ k \in Nat
      BY <1>1
    <3>2. s[m + k] = b + (m + k)
      BY <1>4, <3>1 DEF Follows
    <3>3. q[k] = s[m + k]
      BY <1>3
    <3> QED  BY <1>1, <3>1, <3>2, <3>3
  <2> QED  BY <1>2, <1>3, <2>1, <2>2 DEF Follows
<1> QED  BY <1>2, <1>3, <1>4 DEF p, q

\* The smaller of two lengths.
LEMMA MinOfTwo ==
    ASSUME NEW a \in Nat, NEW b \in Nat
    PROVE  Min({a, b}) = IF a <= b THEN a ELSE b
<1> DEFINE m == IF a <= b THEN a ELSE b
<1>1. m \in {a, b} /\ \A y \in {a, b} : m <= y
  OBVIOUS
<1>2. \A x \in {a, b} : (\A y \in {a, b} : x <= y) => x = m
  OBVIOUS
<1> HIDE DEF m
<1>3. Min({a, b}) = m
  BY <1>1, <1>2 DEF Min
<1> QED  BY <1>3 DEF m
-----------------------------------------------------------------------------
(* The types. *)

\* What one recv() returns: at least a byte, at most rx_buffer, and the rest stays.
LEMMA ReceivedPart ==
    ASSUME TypeInv, conn \in Clients, inbox[conn] # <<>>
    PROVE  \E m \in 1 .. Len(inbox[conn]) :
             /\ Received = SubSeq(inbox[conn], 1, m) /\ m =< RX
             /\ Len(Received) = m
<1> DEFINE s == inbox[conn]
           a == Len(s)
           m == Min({a, RX})
<1>1. s \in Seq(Bytes) /\ s # <<>>
  BY DEF TypeInv
<1>2. a \in Nat \ {0}
  BY <1>1, EmptySeq
<1>3. RX \in Nat \ {0}
  BY ServerAssumption
<1> HIDE DEF s, a
<1>4. m \in 1 .. a /\ m =< RX
  BY <1>2, <1>3, MinOfTwo
<1>5. Received = SubSeq(s, 1, m)
  BY DEF Received, s, a
<1> HIDE DEF m
<1>6. Len(SubSeq(s, 1, m)) = m
  BY <1>1, <1>4, SplitFollows DEF a
<1> QED  BY <1>4, <1>5, <1>6 DEF s, a

\* Every step keeps the types.
LEMMA TypeStep ==
    ASSUME TypeInv, [Next]_vars
    PROVE  TypeInv'
<1> USE DEF Bytes
<1>1. CASE UNCHANGED vars
  BY <1>1 DEF TypeInv, TypeOK, vars, serverVars, clientVars
<1>2. CASE LinkChanges \/ WaitForLink \/ OpenListener \/ CheckIn \/ AcceptReturnsError
           \/ RecvTimesOut \/ RecvEndsSession
  BY <1>2 DEF TypeInv, TypeOK, LinkChanges, WaitForLink, OpenListener, CheckIn,
              AcceptReturnsError, RecvTimesOut, RecvEndsSession, Points, serverVars, clientVars
<1>3. ASSUME NEW c \in Clients, Connect(c)
      PROVE  TypeInv'
  <2>1. Append(backlog, c) \in Seq(Clients)
    BY AppendProperties DEF TypeInv, TypeOK
  <2> QED  BY <1>3, <2>1 DEF TypeInv, TypeOK, Connect
<1>4. ASSUME NEW c \in Clients, SendByte(c)
      PROVE  TypeInv'
  <2>1. sent[c] + 1 \in Bytes /\ inbox[c] \in Seq(Bytes)
    BY <1>4, ServerAssumption DEF TypeInv, TypeOK, SendByte
  <2>2. Append(inbox[c], sent[c] + 1) \in Seq(Bytes)
    BY <2>1, AppendProperties
  <2>3. inbox' \in [Clients -> Seq(Bytes)] /\ sent' \in [Clients -> 0 .. MaxBytes]
    BY <1>4, <2>1, <2>2 DEF TypeInv, TypeOK, SendByte
  <2>4. \A d \in Clients : {inbox'[d], unread'[d], echoed'[d]} \subseteq Seq(Bytes)
    BY <1>4, <2>3 DEF TypeInv, TypeOK, SendByte
  <2> QED  BY <1>4, <2>3, <2>4 DEF TypeInv, TypeOK, SendByte, serverVars
<1>5. ASSUME NEW c \in Clients, ReadEcho(c)
      PROVE  TypeInv'
  <2>1. echoed[c] \o unread[c] \in Seq(Bytes)
    BY ConcatProperties DEF TypeInv
  <2>2. <<>> \in Seq(Bytes) /\ Len(<<>>) =< SendRoom
    BY EmptySeq, ServerAssumption
  <2> QED  BY <1>5, <2>1, <2>2 DEF TypeInv, TypeOK, ReadEcho, serverVars
<1>6. ASSUME NEW c \in Clients, Leave(c, "finished") \/ Leave(c, "broken")
      PROVE  TypeInv'
  BY <1>6 DEF TypeInv, TypeOK, Leave, serverVars
<1>7. CASE Accept
  <2>1. Head(backlog) \in Clients /\ Tail(backlog) \in Seq(Clients)
    BY <1>7, HeadTailProperties DEF Accept, TypeInv, TypeOK
  <2> QED  BY <1>7, <2>1, ServerAssumption DEF Accept, TypeInv, TypeOK, Points, clientVars
<1>8. CASE RecvData
  <2>1. conn \in Clients /\ inbox[conn] \in Seq(Bytes)
    BY <1>8 DEF RecvData, TypeInv, TypeOK
  <2>2. PICK m \in 1 .. Len(inbox[conn]) :
          Received = SubSeq(inbox[conn], 1, m) /\ m =< RX /\ Len(Received) = m
    BY <1>8, <2>1, ReceivedPart DEF RecvData
  <2>3. Received \in Seq(Bytes) /\ SubSeq(inbox[conn], m + 1, Len(inbox[conn])) \in Seq(Bytes)
    BY <2>1, <2>2, SplitFollows
  <2>4. Received # <<>>
    BY <2>2, EmptySeq
  <2> QED  BY <1>8, <2>1, <2>2, <2>3, <2>4 DEF RecvData, TypeInv, TypeOK, Points
<1>9. CASE EchoByte
  <2>1. conn \in Clients /\ rx \in Seq(Bytes) /\ rx # <<>> /\ unread[conn] \in Seq(Bytes)
    BY <1>9 DEF EchoByte, TypeInv, TypeOK
  <2>2. /\ rx[1] \in Bytes /\ Tail(rx) \in Seq(Bytes) /\ Len(Tail(rx)) = Len(rx) - 1
        /\ Len(rx) = 1 <=> Tail(rx) = <<>>
    BY <2>1, TailFollows
  <2>3. Append(unread[conn], NextByte) \in Seq(Bytes)
        /\ Len(Append(unread[conn], NextByte)) = Len(unread[conn]) + 1
    BY <2>1, <2>2, AppendProperties DEF NextByte
  <2>4. Len(rx) \in Nat /\ Len(unread[conn]) \in Nat
    BY <2>1, LenProperties
  <2>5. Len(rx) =< RX /\ Len(unread[conn]) < SendRoom
    BY <1>9 DEF EchoByte, TypeInv, TypeOK
  <2>6. Len(Tail(rx)) =< RX /\ Len(unread[conn]) + 1 =< SendRoom
    BY <2>2, <2>4, <2>5, ServerAssumption
  <2> QED  BY <1>9, <2>1, <2>2, <2>3, <2>6 DEF EchoByte, TypeInv, TypeOK, Points
<1>10. CASE SendFails
  BY <1>10, EmptySeq, ServerAssumption DEF SendFails, TypeInv, TypeOK, Points, clientVars
<1>11. CASE Close
  BY <1>11 DEF Close, TypeInv, TypeOK, Points
<1>12. CASE Gone
  BY <1>1, <1>12 DEF Gone
<1> QED
  BY <1>1, <1>2, <1>3, <1>4, <1>5, <1>6, <1>7, <1>8, <1>9, <1>10, <1>11, <1>12 DEF Next, Server
-----------------------------------------------------------------------------
(* The backlog. *)

\* A client stands in the backlog once, and not while it is in session.
LEMMA QueueStep ==
    ASSUME TypeInv, QueueInv, [Next]_vars
    PROVE  QueueInv'
<1> DEFINE n == Len(backlog)
<1>0. n \in Nat /\ (\A j \in 1 .. n : backlog[j] \in Clients) /\ backlog \in Seq(Clients)
  BY LenProperties, ElementOfSeq DEF TypeInv, TypeOK
<1>1. ASSUME UNCHANGED <<backlog, conn>>,
             \A c \in Clients : tcp[c] \in Connected => tcp'[c] \in Connected
      PROVE  QueueInv'
  <2>1. conn' # NoClient => tcp'[conn] \in Connected
    BY <1>1 DEF QueueInv, TypeInv, TypeOK
  <2>2. \A j \in 1 .. n : tcp'[backlog[j]] \in Connected
    BY <1>0, <1>1 DEF QueueInv
  <2> QED  BY <1>1, <2>1, <2>2 DEF QueueInv, Connected
<1>2. CASE UNCHANGED vars \/ LinkChanges \/ WaitForLink \/ OpenListener \/ CheckIn
           \/ AcceptReturnsError \/ RecvTimesOut \/ RecvEndsSession \/ RecvData \/ EchoByte
           \/ SendFails \/ Gone
  <2>1. UNCHANGED <<backlog, conn, tcp>>
    BY <1>2 DEF vars, LinkChanges, WaitForLink, OpenListener, CheckIn, AcceptReturnsError,
                RecvTimesOut, RecvEndsSession, RecvData, EchoByte, SendFails, Gone,
                serverVars, clientVars
  <2> QED  BY <1>1, <2>1
<1>3. ASSUME NEW c \in Clients, SendByte(c) \/ ReadEcho(c)
      PROVE  QueueInv'
  <2>1. UNCHANGED <<backlog, conn, tcp>>
    BY <1>3 DEF SendByte, ReadEcho, serverVars
  <2> QED  BY <1>1, <2>1
<1>4. ASSUME NEW c \in Clients, Leave(c, "finished") \/ Leave(c, "broken")
      PROVE  QueueInv'
  <2>1. UNCHANGED <<backlog, conn>> /\ (tcp' = [tcp EXCEPT ![c] = "finished"]
                                         \/ tcp' = [tcp EXCEPT ![c] = "broken"])
    BY <1>4 DEF Leave, serverVars
  <2>2. \A d \in Clients : tcp[d] \in Connected => tcp'[d] \in Connected
    BY <2>1 DEF TypeInv, TypeOK, Connected
  <2> QED  BY <1>1, <2>1, <2>2
<1>5. ASSUME NEW c \in Clients, Connect(c)
      PROVE  QueueInv'
  <2>1. /\ tcp[c] = "idle" /\ tcp' = [tcp EXCEPT ![c] = "open"]
        /\ backlog' = Append(backlog, c) /\ conn' = conn
    BY <1>5 DEF Connect
  <2>2. /\ Len(backlog') = n + 1 /\ backlog'[n + 1] = c
        /\ \A j \in 1 .. n : backlog'[j] = backlog[j]
    BY <1>0, <2>1, AppendProperties
  <2>3. \A d \in Clients : tcp[d] \in Connected => tcp'[d] \in Connected /\ d # c
    BY <2>1 DEF TypeInv, TypeOK, Connected
  <2>4. tcp'[c] \in Connected
    BY <2>1 DEF TypeInv, TypeOK, Connected
  <2>5. conn # NoClient => tcp'[conn] \in Connected /\ conn # c
    BY <2>3 DEF QueueInv, TypeInv, TypeOK
  <2>6. c # conn
    BY <2>5, ServerAssumption
  <2>7. \A j \in 1 .. n + 1 : j = n + 1 \/ j \in 1 .. n
    BY <1>0
  <2>8. \A j \in 1 .. n : tcp'[backlog[j]] \in Connected /\ backlog[j] # c /\ backlog[j] # conn
    BY <1>0, <2>3 DEF QueueInv
  <2> HIDE DEF n
  <2>9. \A j \in 1 .. n + 1 : tcp'[backlog'[j]] \in Connected /\ backlog'[j] # conn
    BY <2>2, <2>4, <2>6, <2>7, <2>8
  <2>10. \A j, k \in 1 .. n + 1 : backlog'[j] = backlog'[k] => j = k
    BY <2>2, <2>7, <2>8 DEF QueueInv, n
  <2> QED  BY <2>1, <2>2, <2>5, <2>9, <2>10 DEF QueueInv, Connected
<1>6. CASE Accept
  <2>1. /\ backlog # <<>> /\ conn' = Head(backlog) /\ backlog' = Tail(backlog) /\ tcp' = tcp
    BY <1>6 DEF Accept, clientVars
  <2>2. /\ Len(Tail(backlog)) = n - 1 /\ n >= 1
        /\ \A j \in 1 .. Len(Tail(backlog)) : Tail(backlog)[j] = backlog[j + 1]
    BY <1>0, <2>1, HeadTailProperties, EmptySeq
  <2>3. Head(backlog) = backlog[1]
    BY <1>0, <2>1
  <2>4. 1 \in 1 .. n /\ \A j \in 1 .. n - 1 : j + 1 \in 1 .. n /\ j + 1 # 1 /\ j \in Nat
    BY <1>0, <2>2
  <2>5. \A j \in 1 .. n - 1 : backlog'[j] = backlog[j + 1]
    BY <2>1, <2>2
  <2> HIDE DEF n
  <2>6. conn' = backlog[1] /\ tcp'[conn'] \in Connected
    BY <2>1, <2>3, <2>4 DEF QueueInv, n
  <2>7. \A j \in 1 .. n - 1 : tcp'[backlog'[j]] \in Connected /\ backlog'[j] # conn'
    BY <2>1, <2>4, <2>5, <2>6 DEF QueueInv, n
  <2>8. ASSUME NEW j \in 1 .. n - 1, NEW k \in 1 .. n - 1, backlog'[j] = backlog'[k]
        PROVE  j = k
    <3>1. j + 1 = k + 1
      BY <2>4, <2>5, <2>8 DEF QueueInv, n
    <3> QED  BY <2>4, <3>1
  <2> QED  BY <2>1, <2>2, <2>6, <2>7, <2>8 DEF QueueInv, Connected
<1>7. CASE Close
  <2>1. /\ conn \in Clients /\ conn' = NoClient /\ backlog' = backlog
        /\ tcp' = [tcp EXCEPT ![conn] = "closed"]
    BY <1>7 DEF Close, TypeInv, TypeOK
  <2>2. \A j \in 1 .. n : tcp'[backlog[j]] \in Connected /\ backlog[j] # NoClient
    BY <1>0, <2>1, ServerAssumption DEF QueueInv, TypeInv, TypeOK
  <2> QED  BY <2>1, <2>2 DEF QueueInv, Connected
<1> QED
  BY <1>2, <1>3, <1>4, <1>5, <1>6, <1>7 DEF Next, Server
-----------------------------------------------------------------------------
(* The stream of bytes. *)

\* The lengths are numbers.
LEMMA Lengths ==
    ASSUME TypeInv, NEW c \in Clients
    PROVE  /\ Len(echoed[c]) \in Nat /\ Len(unread[c]) \in Nat /\ Len(inbox[c]) \in Nat
           /\ Len(rx) \in Nat /\ sent[c] \in Nat /\ Back(c) \in Nat /\ Buffered(c) \in Nat
<1>1. {echoed[c], unread[c], inbox[c], rx} \subseteq Seq(Bytes) /\ sent[c] \in Nat
  BY DEF TypeInv, TypeOK
<1>2. /\ Len(echoed[c]) \in Nat /\ Len(unread[c]) \in Nat /\ Len(inbox[c]) \in Nat
      /\ Len(rx) \in Nat
  BY <1>1, LenProperties
<1> DEFINE e == Len(echoed[c])
           u == Len(unread[c])
           l == Len(rx)
<1>3. e \in Nat /\ u \in Nat /\ l \in Nat
  BY <1>2
<1> HIDE DEF e, u, l
<1>4. e + u \in Nat /\ (IF conn = c THEN l ELSE 0) \in Nat
  BY <1>3
<1> QED  BY <1>1, <1>2, <1>4 DEF Back, Buffered, e, u, l

\* A step that moves no byte of client c, and at most breaks its connection.
LEMMA Undisturbed ==
    ASSUME NEW c \in Clients, Stream(c),
           echoed'[c] = echoed[c], unread'[c] = unread[c], inbox'[c] = inbox[c], sent'[c] = sent[c],
           Holds(c)' => /\ Holds(c) /\ Buffered(c)' = Buffered(c)
                        /\ conn' = c => rx' = rx /\ (conn = c \/ rx = <<>>)
    PROVE  Stream(c)'
<1>1. Back(c)' = Back(c)
  BY DEF Back
<1>2. Follows(echoed[c], 0)' /\ Follows(unread[c], Len(echoed[c]))' /\ Back(c)' =< sent'[c]
  BY <1>1 DEF Stream, Follows
<1>3. ASSUME Holds(c)'
      PROVE  /\ conn' = c => Follows(rx', Back(c)')
             /\ Follows(inbox'[c], Back(c)' + Buffered(c)')
             /\ Back(c)' + Buffered(c)' + Len(inbox'[c]) = sent'[c]
  <2>1. Follows(<<>>, Back(c))
    BY EmptySeq DEF Follows
  <2> QED  BY <1>1, <1>3, <2>1 DEF Stream
<1> QED  BY <1>2, <1>3 DEF Stream, Follows

\* Every step keeps the bytes of every client in order and complete.
LEMMA StreamStep ==
    ASSUME TypeInv, TypeInv', QueueInv, [Next]_vars, NEW c \in Clients, Stream(c)
    PROVE  Stream(c)'
<1>1. CASE UNCHANGED vars \/ LinkChanges \/ WaitForLink \/ OpenListener \/ CheckIn
           \/ AcceptReturnsError \/ RecvTimesOut \/ RecvEndsSession \/ Gone
  <2>1. UNCHANGED <<conn, rx, clientVars>>
    BY <1>1 DEF vars, LinkChanges, WaitForLink, OpenListener, CheckIn, AcceptReturnsError,
                RecvTimesOut, RecvEndsSession, Gone, serverVars, clientVars
  <2> QED  BY <2>1, Undisturbed DEF clientVars, Holds, Buffered
<1>2. ASSUME NEW d \in Clients,
             Connect(d) \/ Leave(d, "finished") \/ Leave(d, "broken")
      PROVE  Stream(c)'
  <2>1. UNCHANGED <<conn, rx, sent, inbox, unread, echoed>>
    BY <1>2 DEF Connect, Leave, serverVars
  <2>2. Holds(c)' => Holds(c)
    BY <1>2 DEF Connect, Leave, Holds, TypeInv, TypeOK
  <2> QED  BY <2>1, <2>2, Undisturbed DEF Buffered
<1>3. CASE Accept
  <2>1. conn = NoClient /\ rx = <<>> /\ rx' = rx /\ UNCHANGED clientVars
    BY <1>3 DEF Accept, TypeInv, TypeOK
  <2>2. conn # c /\ Len(<<>>) = 0
    BY <2>1, ServerAssumption
  <2>3. Buffered(c)' = Buffered(c)
    BY <2>1, <2>2 DEF Buffered
  <2> QED  BY <2>1, <2>3, Undisturbed DEF clientVars, Holds
<1>4. CASE Close
  <2>1. /\ conn \in Clients /\ conn' = NoClient /\ tcp' = [tcp EXCEPT ![conn] = "closed"]
        /\ UNCHANGED <<sent, inbox, unread, echoed>>
    BY <1>4 DEF Close, TypeInv, TypeOK
  <2>2. Holds(c)' => Holds(c) /\ c # conn
    BY <2>1 DEF Holds, TypeInv, TypeOK
  <2>3. conn' # c
    BY <2>1, ServerAssumption
  <2> QED  BY <2>1, <2>2, <2>3, Undisturbed DEF Buffered
<1>5. CASE SendFails
  <2>1. tcp[conn] = "broken" /\ conn' = conn /\ UNCHANGED clientVars
    BY <1>5 DEF SendFails
  <2>2. Holds(c)' => Holds(c) /\ c # conn
    BY <2>1 DEF Holds, clientVars
  <2> QED  BY <2>1, <2>2, Undisturbed DEF clientVars, Buffered
<1>6. ASSUME NEW d \in Clients, SendByte(d) \/ ReadEcho(d), d # c
      PROVE  Stream(c)'
  <2>1. /\ UNCHANGED <<conn, rx, tcp>> /\ inbox'[c] = inbox[c] /\ sent'[c] = sent[c]
        /\ unread'[c] = unread[c] /\ echoed'[c] = echoed[c]
    BY <1>6 DEF SendByte, ReadEcho, serverVars, TypeInv, TypeOK
  <2> QED  BY <2>1, Undisturbed DEF Holds, Buffered
<1>7. CASE (RecvData \/ EchoByte) /\ c # conn
  <2>1. /\ UNCHANGED <<conn, tcp, sent, echoed>> /\ inbox'[c] = inbox[c] /\ unread'[c] = unread[c]
    BY <1>7 DEF RecvData, EchoByte, TypeInv, TypeOK
  <2> QED  BY <1>7, <2>1, Undisturbed DEF Holds, Buffered
<1> DEFINE e == Len(echoed[c])
           u == Len(unread[c])
           r == Buffered(c)
           n == Len(inbox[c])
           b == Back(c)
           v == sent[c]
           l == Len(rx)
<1>8. /\ e \in Nat /\ u \in Nat /\ r \in Nat /\ n \in Nat /\ v \in Nat /\ l \in Nat
      /\ b \in Nat /\ b = e + u
  BY Lengths DEF Back
<1>9. inbox[c] \in Seq(Bytes) /\ unread[c] \in Seq(Bytes) /\ echoed[c] \in Seq(Bytes)
      /\ rx \in Seq(Bytes)
  BY DEF TypeInv, TypeOK
<1> HIDE DEF e, u, r, n, b, v, l
<1>10. CASE SendByte(c)
  <2>1. /\ Holds(c) /\ UNCHANGED <<conn, rx, tcp, unread, echoed>> /\ v < MaxBytes
        /\ inbox'[c] = Append(inbox[c], v + 1) /\ sent'[c] = v + 1
    BY <1>10 DEF SendByte, Holds, serverVars, TypeInv, TypeOK, v
  <2>2. Back(c)' = b /\ Buffered(c)' = r
    BY <2>1 DEF Back, Buffered, b, r
  <2>3. /\ Follows(inbox[c], b + r) /\ b + r + n = v
        /\ conn = c => Follows(rx, b)
        /\ Follows(echoed[c], 0) /\ Follows(unread[c], Len(echoed[c]))
    BY <2>1 DEF Stream, b, r, n, v
  <2>4. v + 1 \in Bytes /\ b + r \in Nat /\ v + 1 = (b + r) + n + 1
    BY <1>8, <2>1, <2>3, ServerAssumption DEF Bytes
  <2>5. Follows(inbox'[c], b + r) /\ Len(inbox'[c]) = n + 1
    <3> DEFINE x == v + 1
               y == b + r
    <3>1. x \in Bytes /\ y \in Nat /\ x = y + Len(inbox[c]) + 1 /\ Follows(inbox[c], y)
      BY <2>3, <2>4 DEF n
    <3> HIDE DEF x, y
    <3>2. Follows(Append(inbox[c], x), y) /\ Len(Append(inbox[c], x)) = Len(inbox[c]) + 1
      BY <1>9, <3>1, AppendFollows
    <3> QED  BY <2>1, <3>2 DEF x, y, n
  <2>6. b + r + (n + 1) = v + 1 /\ b =< v + 1
    BY <1>8, <2>3
  <2>7. Follows(echoed'[c], 0) /\ Follows(unread'[c], Len(echoed'[c])) /\ Back(c)' =< sent'[c]
    BY <2>1, <2>2, <2>3, <2>6
  <2>8. /\ conn' = c => Follows(rx', Back(c)')
        /\ Follows(inbox'[c], Back(c)' + Buffered(c)')
        /\ Back(c)' + Buffered(c)' + Len(inbox'[c]) = sent'[c]
    BY <2>1, <2>2, <2>3, <2>5, <2>6
  <2> QED  BY <2>7, <2>8 DEF Stream, Follows
<1>11. CASE ReadEcho(c)
  <2>1. /\ UNCHANGED <<conn, rx, tcp, sent, inbox>>
        /\ echoed'[c] = echoed[c] \o unread[c] /\ unread'[c] = <<>>
    BY <1>11 DEF ReadEcho, serverVars, TypeInv
  <2>2. Follows(echoed[c], 0) /\ Follows(unread[c], 0 + e)
    BY <1>8 DEF Stream, e
  <2>3. Follows(echoed'[c], 0) /\ Len(echoed'[c]) = e + u
    BY <1>9, <2>1, <2>2, ConcatFollows DEF e, u
  <2>4. Len(unread'[c]) = 0 /\ Follows(unread'[c], Len(echoed'[c]))
    BY <2>1, EmptySeq DEF Follows
  <2>5. Back(c)' = Back(c) /\ Buffered(c)' = Buffered(c)
    <3>1. Back(c)' = (e + u) + 0
      BY <2>3, <2>4 DEF Back
    <3>2. (e + u) + 0 = b
      BY <1>8
    <3> QED  BY <2>1, <3>1, <3>2 DEF b, Buffered
  <2>6. Back(c)' =< sent'[c]
    BY <2>1, <2>5 DEF Stream
  <2>7. Holds(c)' => /\ conn' = c => Follows(rx', Back(c)')
                     /\ Follows(inbox'[c], Back(c)' + Buffered(c)')
                     /\ Back(c)' + Buffered(c)' + Len(inbox'[c]) = sent'[c]
    BY <2>1, <2>5 DEF Stream, Holds
  <2> QED  BY <2>3, <2>4, <2>6, <2>7 DEF Stream, Follows
<1>12. CASE RecvData /\ c = conn
  <2>1. /\ rx = <<>> /\ inbox[c] # <<>> /\ rx' = Received
        /\ inbox'[c] = SubSeq(inbox[c], Len(Received) + 1, Len(inbox[c]))
        /\ UNCHANGED <<conn, tcp, sent, unread, echoed>>
    BY <1>12 DEF RecvData, TypeInv
  <2>2. Holds(c) /\ Holds(c)'
    BY <1>12, <2>1 DEF RecvData, QueueInv, Connected, Holds, TypeInv, TypeOK
  <2>3. PICK m \in 1 .. Len(inbox[c]) : Received = SubSeq(inbox[c], 1, m) /\ Len(Received) = m
    BY <1>12, <2>1, ReceivedPart
  <2>4. r = 0 /\ m \in 1 .. n
    BY <1>12, <2>1, <2>3, EmptySeq DEF Buffered, r, n
  <2>5. Follows(inbox[c], b + r) /\ b + r + n = v
    BY <2>2 DEF Stream, b, r, n, v
  <2>6. b + r = b /\ b + n = v /\ b + m + (n - m) = v
    BY <1>8, <2>4, <2>5
  <2>7. /\ Follows(rx', b) /\ Len(rx') = m
        /\ Follows(inbox'[c], b + m) /\ Len(inbox'[c]) = n - m
    <3>1. Follows(inbox[c], b)
      BY <2>5, <2>6
    <3>2. /\ Follows(SubSeq(inbox[c], 1, m), b) /\ Len(SubSeq(inbox[c], 1, m)) = m
          /\ Follows(SubSeq(inbox[c], m + 1, Len(inbox[c])), b + m)
          /\ Len(SubSeq(inbox[c], m + 1, Len(inbox[c]))) = Len(inbox[c]) - m
      BY <1>8, <1>9, <3>1, SplitFollows
    <3> QED  BY <2>1, <2>3, <3>2 DEF n
  <2>8. Back(c)' = b /\ Buffered(c)' = m
    BY <1>12, <2>1, <2>7 DEF Back, Buffered, b
  <2>9. /\ Follows(rx', Back(c)') /\ Follows(inbox'[c], Back(c)' + Buffered(c)')
        /\ Back(c)' + Buffered(c)' + Len(inbox'[c]) = sent'[c]
    BY <2>1, <2>6, <2>7, <2>8 DEF v
  <2>10. Follows(echoed'[c], 0) /\ Follows(unread'[c], Len(echoed'[c])) /\ Back(c)' =< sent'[c]
    BY <2>1, <2>8 DEF Stream, b
  <2> QED  BY <2>9, <2>10 DEF Stream, Follows
<1>13. CASE EchoByte /\ c = conn
  <2>1. /\ rx # <<>> /\ rx' = Tail(rx) /\ unread'[c] = Append(unread[c], rx[1])
        /\ UNCHANGED <<conn, tcp, sent, inbox, echoed>>
    BY <1>13 DEF EchoByte, TypeInv, NextByte
  <2>2. Holds(c) /\ r = l
    BY <1>13, <2>1 DEF EchoByte, QueueInv, Connected, Holds, TypeInv, TypeOK, Buffered, r, l
  <2>3. /\ Follows(rx, b) /\ Follows(inbox[c], b + r) /\ b + r + n = v
        /\ Follows(echoed[c], 0) /\ Follows(unread[c], e)
    BY <1>13, <2>2 DEF Stream, b, r, n, v, e
  <2>4. /\ rx[1] = b + 1 /\ Follows(rx', b + 1) /\ Len(rx') = l - 1
        /\ l >= 1 /\ rx[1] \in Bytes
    BY <1>8, <1>9, <2>1, <2>3, TailFollows DEF l
  <2>5. rx[1] = e + u + 1
    BY <1>8, <2>4
  <2>6. Follows(unread'[c], e) /\ Len(unread'[c]) = u + 1
    <3> DEFINE x == rx[1]
    <3>1. x \in Bytes /\ x = e + Len(unread[c]) + 1
      BY <2>4, <2>5 DEF u
    <3> HIDE DEF x
    <3>2. Follows(Append(unread[c], x), e) /\ Len(Append(unread[c], x)) = Len(unread[c]) + 1
      BY <1>8, <1>9, <2>3, <3>1, AppendFollows
    <3> QED  BY <2>1, <3>2 DEF x, u
  <2>7. Back(c)' = b + 1 /\ Buffered(c)' = r - 1
    <3>1. Back(c)' = e + (u + 1)
      BY <2>1, <2>6 DEF Back, e
    <3>2. Buffered(c)' = r - 1
      BY <1>13, <2>1, <2>2, <2>4 DEF Buffered
    <3> QED  BY <1>8, <3>1, <3>2
  <2>8. /\ (b + 1) + (r - 1) = b + r /\ b + 1 =< v
        /\ (b + 1) + (r - 1) + n = v
    BY <1>8, <2>2, <2>3, <2>4
  <2>9. /\ Follows(rx', Back(c)') /\ Follows(inbox'[c], Back(c)' + Buffered(c)')
        /\ Back(c)' + Buffered(c)' + Len(inbox'[c]) = sent'[c] /\ Back(c)' =< sent'[c]
    BY <2>1, <2>3, <2>4, <2>7, <2>8 DEF n, v
  <2>10. Follows(echoed'[c], 0) /\ Follows(unread'[c], Len(echoed'[c]))
    BY <2>1, <2>3, <2>6 DEF e
  <2> QED  BY <2>9, <2>10 DEF Stream, Follows
<1> QED
  BY <1>1, <1>2, <1>3, <1>4, <1>5, <1>6, <1>7, <1>10, <1>11, <1>12, <1>13 DEF Next, Server
-----------------------------------------------------------------------------
(* The theorems. *)

\* The invariant holds in every state.
LEMMA TcpInvHolds == Spec => []TcpInv
<1>1. ASSUME Init
      PROVE  TcpInv
  <2>1. /\ \A c \in Clients : inbox[c] = <<>> /\ unread[c] = <<>> /\ echoed[c] = <<>>
        /\ Len(<<>>) = 0
    BY <1>1 DEF Init
  <2>2. <<>> \in Seq(Bytes) /\ <<>> \in Seq(Clients)
    BY EmptySeq
  <2>3. TypeInv
    BY <1>1, <2>1, <2>2, ServerAssumption DEF Init, TypeInv, TypeOK, Points
  <2>4. QueueInv
    BY <1>1, <2>1 DEF Init, QueueInv
  <2>5. ASSUME NEW c \in Clients
        PROVE  Stream(c)
    <3>1. conn # c /\ sent[c] = 0
      BY <1>1, ServerAssumption DEF Init
    <3>2. Len(echoed[c]) = 0 /\ Len(unread[c]) = 0
      BY <2>1
    <3>3. 0 + 0 = 0
      OBVIOUS
    <3>4. Back(c) = 0 /\ Buffered(c) = 0
      BY <3>1, <3>2, <3>3, Zenon DEF Back, Buffered
    <3> QED  BY <2>1, <3>1, <3>4 DEF Stream, Follows
  <2> QED  BY <2>3, <2>4, <2>5 DEF TcpInv, StreamInv
<1>2. ASSUME TcpInv, [Next]_vars
      PROVE  TcpInv'
  <2>1. TypeInv' /\ QueueInv'
    BY <1>2, TypeStep, QueueStep DEF TcpInv
  <2>2. \A c \in Clients : Stream(c)'
    BY <1>2, <2>1, StreamStep DEF TcpInv, StreamInv
  <2> QED  BY <2>1, <2>2 DEF TcpInv, StreamInv
<1> QED  BY <1>1, <1>2, PTL DEF Spec

\* The buffers, the sockets and the task have their types at every step: rx_buffer
\* never holds more than one recv() may return.
THEOREM TypeCorrect == Spec => []TypeOK
<1>1. TcpInv => TypeOK
  BY DEF TcpInv, TypeInv
<1> QED  BY <1>1, TcpInvHolds, PTL

\* Whatever comes in between, a client gets back its own bytes, in order, none
\* twice and none left out, for every number of clients, bytes and buffer sizes.
THEOREM EchoFaithful == Spec => []EchoIsFaithful
<1>1. ASSUME TcpInv, NEW c \in Clients
      PROVE  LET back == echoed[c] \o unread[c]
             IN  back = UpTo(Len(back)) /\ Len(back) =< sent[c]
  <2> DEFINE back == echoed[c] \o unread[c]
             m == Len(back)
  <2>1. TypeInv /\ Stream(c)
    BY <1>1 DEF TcpInv, StreamInv
  <2>2. echoed[c] \in Seq(Bytes) /\ unread[c] \in Seq(Bytes)
    BY <2>1 DEF TypeInv
  <2>3. Follows(echoed[c], 0) /\ Follows(unread[c], 0 + Len(echoed[c])) /\ Back(c) =< sent[c]
    BY <2>1, Lengths DEF Stream
  <2>4. back \in Seq(Bytes) /\ Follows(back, 0) /\ m = Back(c)
    BY <2>2, <2>3, ConcatFollows DEF Back
  <2> HIDE DEF back
  <2>5. m \in Nat /\ back = [k \in 1 .. m |-> back[k]]
    BY <2>4, LenProperties
  <2>6. \A k \in 1 .. m : back[k] = k
    BY <2>4, <2>5 DEF Follows
  <2>7. back = UpTo(m)
    BY <2>5, <2>6 DEF UpTo
  <2> QED  BY <2>3, <2>4, <2>7 DEF back
<1>2. TcpInv => EchoIsFaithful
  BY <1>1 DEF EchoIsFaithful
<1> QED  BY <1>2, TcpInvHolds, PTL

\* No byte of a connection that holds is lost on its way through the server: those
\* the client has back, those in rx_buffer and those in the socket are all it sent.
THEOREM NoByteLost ==
    Spec => [](\A c \in Clients : Holds(c) =>
                 Back(c) + Buffered(c) + Len(inbox[c]) = sent[c])
<1>1. TcpInv => \A c \in Clients : Holds(c) =>
                  Back(c) + Buffered(c) + Len(inbox[c]) = sent[c]
  BY DEF TcpInv, StreamInv, Stream
<1> QED  BY <1>1, TcpInvHolds, PTL
=============================================================================
