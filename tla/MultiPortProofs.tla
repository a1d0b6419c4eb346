--------------------------- MODULE MultiPortProofs --------------------------
(***************************************************************************)
(* Proofs about the TCP and UDP echo server, for every number of clients,  *)
(* descriptors and peers and every buffer size: its type invariant, that   *)
(* its TCP part implements EchoStream, and that an answer to a datagram    *)
(* holds nothing of another.  The inductive invariant ties what a client   *)
(* was sent back to what was read from its connection.                     *)
(***************************************************************************)
EXTENDS MultiPort, EpollSetProofs

Descriptors == Fds \cup {listenfd, udpfd}

Control ==
  /\ pc \in {"wait", "loop", "exited", "killed"}
  /\ events \in Seq(Descriptors) /\ IsInjective(events)
  /\ pc = "wait" => events = <<>>

Echoes ==
  /\ echoed \in [Clients -> Seq(1 .. MaxSend)]
  /\ \A c \in Patient :
       sock[c].peer \in {"rst", "closed"}
         \/ echoed[c] = [k \in 1 .. sock[c].read |-> k]

Messages ==
  /\ buf \in [Cells -> Peers \cup {NUL}]
  /\ udpq \in Seq(Datagrams)
  /\ arrived \in Seq(Datagrams)
  /\ replies \in Seq(Reply)

IInv == Control /\ KernelInv(Descriptors) /\ Echoes /\ Messages

-----------------------------------------------------------------------------
(* What is sent back: the units up to some, and those that follow on.      *)
LEMMA Stretch ==
  ASSUME NEW m \in Nat, NEW a \in Nat, NEW n \in Nat, a + n <= m
  PROVE  LET units == [k \in 1 .. n |-> a + k]
         IN  /\ units \in Seq(1 .. m) /\ Len(units) = n
             /\ [k \in 1 .. a |-> k] \in Seq(1 .. m)
             /\ [k \in 1 .. a |-> k] \o units = [k \in 1 .. a + n |-> k]
<1> DEFINE units == [k \in 1 .. n |-> a + k]
           front == [k \in 1 .. a |-> k]
           all == [k \in 1 .. a + n |-> k]
<1>1. /\ units \in [1 .. n -> 1 .. m]
      /\ front \in [1 .. a -> 1 .. m]
      /\ all \in [1 .. a + n -> 1 .. m]
  OBVIOUS
<1>2. /\ DOMAIN units = 1 .. n /\ \A k \in 1 .. n : units[k] = a + k
      /\ DOMAIN front = 1 .. a /\ \A k \in 1 .. a : front[k] = k
      /\ DOMAIN all = 1 .. a + n /\ \A k \in 1 .. a + n : all[k] = k
  OBVIOUS
<1> HIDE DEF units, front, all
<1>3. units \in Seq(1 .. m) /\ front \in Seq(1 .. m) /\ all \in Seq(1 .. m)
  BY <1>1, SeqDef
<1>4. Len(units) = n /\ Len(front) = a /\ Len(all) = a + n
  BY <1>2, <1>3, LenProperties
<1>5. /\ front \o units \in Seq(1 .. m) /\ Len(front \o units) = a + n
      /\ \A k \in 1 .. a + n :
           (front \o units)[k] = IF k <= a THEN front[k] ELSE units[k - a]
  BY <1>3, <1>4, ConcatProperties
<1>6. \A k \in 1 .. a + n : (front \o units)[k] = all[k]
  BY <1>2, <1>5
<1>7. front \o units = all
  BY <1>3, <1>4, <1>5, <1>6, SeqEqual
<1> QED BY <1>3, <1>4, <1>7 DEF units, front, all

LEMMA DescriptorsHold ==
  /\ Fds \subseteq Descriptors /\ listenfd \in Descriptors /\ udpfd \in Descriptors
  /\ udpfd \notin Fds /\ listenfd \notin Fds
BY DescriptorsFacts DEF Descriptors, udpfd

LEMMA InitInv == Init => IInv
<1> SUFFICES ASSUME Init PROVE IInv
  OBVIOUS
<1>1. KernelInit /\ events = <<>>
  BY DEF Init
<1>2. KernelInv(Descriptors)
  BY <1>1, KernelInitInv
<1>3. Control
  BY DEF Init, Control, IsInjective
<1>4. Echoes
  <2>1. \A c \in Clients : sock[c].read = 0
    BY <1>1 DEF KernelInit
  <2>2. [k \in 1 .. 0 |-> k] = <<>>
    OBVIOUS
  <2>3. \A c \in Clients : echoed[c] = <<>>
    BY DEF Init
  <2>4. echoed \in [Clients -> Seq(1 .. MaxSend)]
    BY DEF Init
  <2> QED BY <2>1, <2>2, <2>3, <2>4 DEF Echoes, Patient
<1>5. Messages
  BY DEF Init, Messages
<1> QED BY <1>2, <1>3, <1>4, <1>5 DEF IInv

(* The event at hand, and those that are left once it is done with.        *)
LEMMA NextEvent ==
  ASSUME IInv, events # <<>>
  PROVE  /\ sockfd \in Descriptors
         /\ Tail(events) \in Seq(Descriptors) /\ IsInjective(Tail(events))
BY TailType DEF IInv, Control, sockfd

LEMMA EchoesUnchanged ==
  ASSUME Echoes, UNCHANGED <<echoed, sock>>
  PROVE  Echoes'
BY DEF Echoes, Patient

LEMMA MessagesUnchanged ==
  ASSUME Messages, UNCHANGED udp
  PROVE  Messages'
BY DEF Messages, udp

-----------------------------------------------------------------------------
LEMMA ConnectStep ==
  ASSUME IInv, NEW c \in Clients, Connect(c)
  PROVE  IInv'
<1>1. /\ KernelInv(Descriptors)'
      /\ \A e \in Clients \ {c} : sock'[e] = sock[e]
  BY ConnectsInv, DescriptorsHold DEF IInv, Connect
<1>2. UNCHANGED <<pc, events, echoed, udp>>
  BY DEF Connect
<1>3. sock[c].peer = "none" /\ sock'[c].read = sock[c].read
  BY DEF Connect, Connects, IInv, KernelInv, KernelTypeOK
<1>4. Echoes'
  BY <1>1, <1>2, <1>3 DEF IInv, Echoes, Patient
<1>5. Control'
  BY <1>2 DEF IInv, Control
<1> QED BY <1>1, <1>2, <1>4, <1>5, MessagesUnchanged DEF IInv

LEMMA ArrivalStep ==
  ASSUME IInv, NEW c \in Clients, Send(c) \/ Leave(c) \/ Reset(c)
  PROVE  IInv'
<1>1. /\ KernelInv(Descriptors)'
      /\ \A e \in Clients \ {c} : sock'[e] = sock[e]
      /\ sock[c].peer \in Present /\ sock'[c].read = sock[c].read
  BY ArrivesInv, DescriptorsHold DEF IInv, Send, Leave, Reset
<1>2. UNCHANGED <<pc, events, echoed, udp>>
  BY DEF Send, Leave, Reset
<1>3. sock[c].peer = "rst" => sock'[c].peer = "rst"
  BY DEF Send, Leave, Reset, Sends, Leaves, Resets
<1>4. Echoes'
  BY <1>1, <1>2, <1>3 DEF IInv, Echoes, Patient, Present
<1>5. Control'
  BY <1>2 DEF IInv, Control
<1> QED BY <1>1, <1>2, <1>4, <1>5, MessagesUnchanged DEF IInv

LEMMA ArriveStep ==
  ASSUME IInv, NEW g \in Datagrams, Arrive(g)
  PROVE  IInv'
<1>1. /\ arrived' = Append(arrived, g) /\ udpq' = Append(udpq, g)
      /\ rdy' = Queued(rdy, udpfd)
      /\ UNCHANGED <<pc, events, owner, backlog, sock, echoed, buf, replies>>
  BY DEF Arrive
<1>2. /\ rdy' \in Seq(Descriptors) /\ IsInjective(rdy')
      /\ Range(rdy') = Range(rdy) \cup {udpfd}
  BY <1>1, QueuedType, DescriptorsHold, ZenonT(30) DEF IInv, KernelInv, KernelTypeOK
<1>3. \A d \in Range(rdy') : d \in Fds => owner[d] # NoClient
  BY <1>2, DescriptorsHold DEF IInv, KernelInv, Listed
<1>4. KernelInv(Descriptors)'
  BY <1>1, <1>2, <1>3, ListStep DEF IInv
<1>5. Messages'
  BY <1>1 DEF IInv, Messages
<1>6. Control' /\ Echoes'
  BY <1>1, EchoesUnchanged DEF IInv, Control
<1> QED BY <1>4, <1>5, <1>6 DEF IInv

LEMMA EpollWaitStep ==
  ASSUME IInv, EpollWait
  PROVE  IInv'
<1>1. /\ events' \in Kept(rdy, Reportable)
      /\ rdy' = <<>> /\ pc' = "loop"
      /\ UNCHANGED <<owner, backlog, sock, echoed, udp>>
  BY DEF EpollWait
<1>2. events' \in Seq(Descriptors) /\ IsInjective(events')
  <2>1. rdy \in Seq(Descriptors) /\ IsInjective(rdy)
    BY DEF IInv, KernelInv, KernelTypeOK
  <2> QED BY <1>1, <2>1, KeptType
<1>3. rdy' \in Seq(Descriptors) /\ IsInjective(rdy') /\ Range(rdy') = {}
  BY <1>1 DEF Range, IsInjective
<1>4. KernelInv(Descriptors)'
  BY <1>1, <1>3, ListStep DEF IInv
<1>5. Control'
  BY <1>1, <1>2 DEF Control
<1> QED BY <1>1, <1>4, <1>5, EchoesUnchanged, MessagesUnchanged DEF IInv

(* Steps that touch neither a connection nor the UDP socket.               *)
LEMMA IdleStep ==
  ASSUME IInv,
         \/ EpollFailure \/ EndOfEvents \/ UNCHANGED vars
         \/ AcceptFails \/ KilledBySend \/ RecvAgain \/ RecvClosed
  PROVE  IInv'
<1>1. UNCHANGED <<kernel, echoed, udp>>
  BY DEF EpollFailure, EndOfEvents, vars, AcceptFails, KilledBySend, RecvAgain, RecvClosed
<1>2. /\ pc' \in {"wait", "loop", "exited", "killed"}
      /\ \/ events' = events /\ (pc' = "wait" => events = <<>>)
         \/ events # <<>> /\ events' = Tail(events) /\ pc' = "loop"
  BY DEF IInv, Control, At, Handling,
         EpollFailure, EndOfEvents, vars, AcceptFails, KilledBySend, RecvAgain, RecvClosed
<1>3. Control'
  BY <1>2, NextEvent DEF IInv, Control
<1>4. KernelInv(Descriptors)'
  BY <1>1, KernelUnchanged DEF IInv
<1>5. Echoes'
  BY <1>1, EchoesUnchanged DEF IInv, kernel
<1> QED BY <1>1, <1>3, <1>4, <1>5, MessagesUnchanged DEF IInv

LEMMA AcceptStep ==
  ASSUME IInv, Accept
  PROVE  IInv'
<1>1. KernelInv(Descriptors)' /\ UNCHANGED sock
  BY AcceptsInv, DescriptorsHold DEF IInv, Accept
<1>2. /\ pc = "loop" /\ events # <<>> /\ events' = Tail(events)
      /\ UNCHANGED <<pc, echoed, udp>>
  BY DEF Accept, At
<1>3. Control'
  BY <1>2, NextEvent DEF IInv, Control
<1> QED BY <1>1, <1>2, <1>3, EchoesUnchanged, MessagesUnchanged DEF IInv

LEMMA CloseStep ==
  ASSUME IInv, RecvError \/ RecvEof
  PROVE  IInv'
<1>1. /\ pc = "loop" /\ events # <<>> /\ sockfd \in Fds
      /\ Closes(sockfd)
      /\ UNCHANGED <<pc, echoed, udp>>
      /\ events' \in {events, Tail(events)}
  BY DEF RecvError, RecvEof, Handling
<1>2. /\ KernelInv(Descriptors)'
      /\ \A c \in Clients : c # owner[sockfd] => sock'[c] = sock[c]
  BY <1>1, ClosesInv DEF IInv
<1>3. owner[sockfd] \in Clients => sock'[owner[sockfd]].peer = "closed"
  BY <1>1, DescriptorsFacts DEF Closes, IInv, KernelInv, KernelTypeOK
<1>4. Echoes'
  BY <1>1, <1>2, <1>3 DEF IInv, Echoes, Patient
<1>5. Control'
  BY <1>1, NextEvent DEF IInv, Control
<1> QED BY <1>1, <1>2, <1>4, <1>5, MessagesUnchanged DEF IInv

LEMMA EchoDatagramStep ==
  ASSUME IInv, EchoDatagram
  PROVE  IInv'
<1> DEFINE g == Head(udpq)
<1>1. /\ pc = "loop" /\ events # <<>> /\ events' = Tail(events)
      /\ udpq # <<>> /\ udpq' = Tail(udpq) /\ buf' = Filled(g)
      /\ replies' \in {replies, Append(replies, [to |-> g.from, text |-> buf'])}
      /\ UNCHANGED <<pc, kernel, echoed, arrived>>
  BY DEF EchoDatagram, At
<1>2. Datagrams \subseteq [from : Peers, len : Nat]
  BY MultiAssumption
<1>3. g \in Datagrams /\ Tail(udpq) \in Seq(Datagrams)
  BY <1>1, HeadTailProperties DEF IInv, Messages
<1>4. g.from \in Peers
  BY <1>2, <1>3
<1> HIDE DEF g
<1>5. buf' \in [Cells -> Peers \cup {NUL}]
  BY <1>1, <1>4 DEF Filled, Cleared
<1>6. [to |-> g.from, text |-> buf'] \in Reply
  BY <1>4, <1>5 DEF Reply
<1>7. replies' \in Seq(Reply)
  <2>1. replies \in Seq(Reply)
    BY DEF IInv, Messages
  <2>2. \A r \in Reply : Append(replies, r) \in Seq(Reply)
    BY <2>1, AppendProperties
  <2>3. Append(replies, [to |-> g.from, text |-> buf']) \in Seq(Reply)
    BY <1>6, <2>2, Zenon
  <2> QED BY <1>1, <2>1, <2>3
<1>8. Messages'
  BY <1>1, <1>3, <1>5, <1>7 DEF IInv, Messages
<1>9. Control'
  BY <1>1, NextEvent DEF IInv, Control
<1>10. KernelInv(Descriptors)' /\ Echoes'
  BY <1>1, KernelUnchanged, EchoesUnchanged DEF IInv, kernel
<1> QED BY <1>8, <1>9, <1>10 DEF IInv

-----------------------------------------------------------------------------
(* What one recv takes from a connection: the units that come next.        *)
LEMMA TakenFacts ==
  ASSUME IInv, Handling, HasData(Conn)
  PROVE  /\ Conn \in Clients
         /\ \E n \in Nat \ {0} :
              /\ sock[Conn].read + n <= sock[Conn].sent
              /\ Taken = [k \in 1 .. n |-> sock[Conn].read + k]
              /\ Taken \in Seq(1 .. MaxSend) /\ Len(Taken) = n
<1>1. Conn \in Clients
  BY DEF IInv, KernelInv, KernelTypeOK, Handling, HasData, Conn
<1>2. /\ sock[Conn].sent \in Nat /\ sock[Conn].sent <= MaxSend /\ MaxSend \in Nat
      /\ sock[Conn].read \in Nat /\ sock[Conn].read <= sock[Conn].sent
      /\ Unread(Conn) \in Nat
  BY <1>1, SocketFacts DEF IInv, KernelInv
<1> DEFINE n == IF Unread(Conn) < TCP_BUFFER_SIZE THEN Unread(Conn) ELSE TCP_BUFFER_SIZE - 1
<1>3. n \in Nat \ {0} /\ n <= Unread(Conn)
  BY <1>2, MultiAssumption DEF HasData
<1>4. Taken = [k \in 1 .. n |-> sock[Conn].read + k]
  BY DEF Taken
<1> HIDE DEF n
<1>5. sock[Conn].read + n <= sock[Conn].sent
  BY <1>2, <1>3 DEF Unread
<1>6. sock[Conn].read + n <= MaxSend
  BY <1>2, <1>3, <1>5
<1>7. Taken \in Seq(1 .. MaxSend) /\ Len(Taken) = n
  <2>1. /\ MaxSend \in Nat /\ sock[Conn].read \in Nat /\ n \in Nat
        /\ sock[Conn].read + n <= MaxSend
    BY <1>2, <1>3, <1>6
  <2>2. LET units == [k \in 1 .. n |-> sock[Conn].read + k]
        IN  units \in Seq(1 .. MaxSend) /\ Len(units) = n
    BY <2>1, Stretch, SMTT(20)
  <2> QED BY <1>4, <2>2
<1> QED BY <1>1, <1>3, <1>4, <1>5, <1>7

(* recv and send: to a client with room, all that was taken follows on     *)
(* what it was sent before, unless it has reset the connection.            *)
LEMMA EchoFacts ==
  ASSUME IInv, EchoData
  PROVE  \E c \in Clients : \E n \in Nat \ {0} :
           /\ c = Conn
           /\ sock[c].peer \in Present
           /\ sock' = [sock EXCEPT ![c].read = sock[c].read + n, ![c].err = "none"]
           /\ sock[c].read + n <= sock[c].sent
           /\ echoed'[c] \in Seq(1 .. MaxSend)
           /\ echoed' = [echoed EXCEPT ![c] = echoed'[c]]
           /\ sock[c].peer = "rst" => echoed'[c] = echoed[c]
           /\ c \in Patient /\ sock[c].peer # "rst" =>
                echoed'[c] = [k \in 1 .. sock[c].read + n |-> k]
<1>1. Handling /\ HasData(Conn)
  BY DEF EchoData
<1>2. PICK c \in Clients : c = Conn
  BY <1>1, TakenFacts
<1>3. PICK n \in Nat \ {0} :
        /\ sock[c].read + n <= sock[c].sent
        /\ Taken = [k \in 1 .. n |-> sock[c].read + k]
        /\ Taken \in Seq(1 .. MaxSend) /\ Len(Taken) = n
  BY <1>1, <1>2, TakenFacts
<1>4. PICK m \in IF sock[c].peer = "rst" THEN {0}
                 ELSE IF c \in SlowReaders THEN 0 .. Len(Taken)
                 ELSE {Len(Taken)} :
        echoed' = [echoed EXCEPT ![c] = @ \o SubSeq(Taken, 1, m)]
  BY <1>2 DEF EchoData
<1>5. m \in 0 .. n
  BY <1>3, <1>4
<1>6. /\ echoed[c] \in Seq(1 .. MaxSend)
      /\ echoed' = [echoed EXCEPT ![c] = echoed[c] \o SubSeq(Taken, 1, m)]
      /\ echoed'[c] = echoed[c] \o SubSeq(Taken, 1, m)
  BY <1>4 DEF IInv, Echoes
<1>7. SubSeq(Taken, 1, m) \in Seq(1 .. MaxSend)
  <2>1. \A i \in 1 .. m : Taken[i] \in 1 .. MaxSend
    BY <1>3, <1>5, ElementOfSeq
  <2> QED BY <1>5, <2>1, SubSeqProperties
<1>8. echoed'[c] \in Seq(1 .. MaxSend)
  BY <1>6, <1>7, ConcatProperties, ZenonT(30)
<1>9. sock[c].peer \in Present
  BY <1>1, <1>2 DEF IInv, KernelInv, Owned, Handling, HasData, Conn
<1>10. sock' = [sock EXCEPT ![c].read = sock[c].read + n, ![c].err = "none"]
  BY <1>2, <1>3 DEF EchoData, IInv, KernelInv, KernelTypeOK
<1>11. ASSUME sock[c].peer = "rst"
       PROVE  echoed'[c] = echoed[c]
  <2>1. SubSeq(Taken, 1, m) = <<>>
    BY <1>4, <1>11, SubSeqEmpty
  <2> QED BY <1>6, <2>1, ConcatEmptySeq
<1>12. ASSUME c \in Patient, sock[c].peer # "rst"
       PROVE  echoed'[c] = [k \in 1 .. sock[c].read + n |-> k]
  <2>1. m = Len(Taken)
    BY <1>4, <1>12 DEF Patient
  <2>2. SubSeq(Taken, 1, m) = Taken
    BY <1>3, <2>1, SubSeqFull
  <2>3. echoed[c] = [k \in 1 .. sock[c].read |-> k]
    BY <1>9, <1>12 DEF IInv, Echoes, Present
  <2>4. /\ sock[c].read \in Nat /\ MaxSend \in Nat
        /\ sock[c].read + n <= MaxSend
    BY <1>3, SocketFacts DEF IInv, KernelInv
  <2>5. [k \in 1 .. sock[c].read |-> k] \o Taken = [k \in 1 .. sock[c].read + n |-> k]
    <3>1. \A a \in Nat : a + n <= MaxSend =>
            [k \in 1 .. a |-> k] \o [k \in 1 .. n |-> a + k] = [k \in 1 .. a + n |-> k]
      BY <2>4, Stretch
    <3>2. [k \in 1 .. sock[c].read |-> k] \o [k \in 1 .. n |-> sock[c].read + k]
            = [k \in 1 .. sock[c].read + n |-> k]
      BY <2>4, <3>1, Zenon
    <3> QED BY <1>3, <3>2, Zenon
  <2> QED BY <1>6, <2>2, <2>3, <2>5
<1> QED BY <1>2, <1>3, <1>6, <1>8, <1>9, <1>10, <1>11, <1>12

LEMMA EchoDataStep ==
  ASSUME IInv, EchoData
  PROVE  IInv'
<1>1. PICK c \in Clients, n \in Nat \ {0} :
        /\ sock[c].peer \in Present
        /\ sock' = [sock EXCEPT ![c].read = sock[c].read + n, ![c].err = "none"]
        /\ sock[c].read + n <= sock[c].sent
        /\ echoed'[c] \in Seq(1 .. MaxSend)
        /\ echoed' = [echoed EXCEPT ![c] = echoed'[c]]
        /\ sock[c].peer = "rst" => echoed'[c] = echoed[c]
        /\ c \in Patient /\ sock[c].peer # "rst" =>
             echoed'[c] = [k \in 1 .. sock[c].read + n |-> k]
  BY EchoFacts
<1>2. UNCHANGED <<pc, events, rdy, owner, backlog, udp>>
  BY DEF EchoData
<1> DEFINE s == [sock[c] EXCEPT !.read = sock[c].read + n, !.err = "none"]
<1>3. sock \in [Clients -> Socket]
  BY DEF IInv, KernelInv, KernelTypeOK
<1>4. sock' = [sock EXCEPT ![c] = s]
  BY <1>1, <1>3
<1>5. sock[c].read + n \in 0 .. MaxSend
  BY <1>1, SocketFacts DEF IInv, KernelInv
<1>6. /\ s \in Socket /\ s.err = "none" /\ s.peer = sock[c].peer
      /\ s.read = sock[c].read + n /\ s.sent = sock[c].sent
  BY <1>3, <1>5 DEF Socket
<1> HIDE DEF s
<1>7. KernelInv(Descriptors)'
  <2>1. /\ rdy' \in Seq(Descriptors) /\ IsInjective(rdy')
        /\ \A d \in Range(rdy') : d \in Fds => owner[d] # NoClient
    BY <1>2 DEF IInv, KernelInv, KernelTypeOK, Listed
  <2>2. s.read <= s.sent
    BY <1>1, <1>6
  <2> QED BY <1>2, <1>4, <1>6, <2>1, <2>2, SocketStep DEF IInv
<1>8. sock'[c] = s /\ \A e \in Clients \ {c} : sock'[e] = sock[e]
  BY <1>3, <1>4
<1>9. Echoes'
  <2>1. echoed \in [Clients -> Seq(1 .. MaxSend)]
    BY DEF IInv, Echoes
  <2>2. /\ echoed' \in [Clients -> Seq(1 .. MaxSend)]
        /\ \A e \in Clients \ {c} : echoed'[e] = echoed[e]
    BY <1>1, <2>1
  <2>3. ASSUME NEW e \in Patient
        PROVE  \/ sock'[e].peer \in {"rst", "closed"}
               \/ echoed'[e] = [k \in 1 .. sock'[e].read |-> k]
    <3>1. CASE e = c
      BY <1>1, <1>6, <1>8, <3>1
    <3>2. CASE e # c
      BY <1>8, <2>2, <3>2 DEF IInv, Echoes, Patient
    <3> QED BY <3>1, <3>2
  <2> QED BY <2>2, <2>3 DEF Echoes, Patient
<1>10. Control'
  BY <1>2 DEF IInv, Control
<1> QED BY <1>2, <1>7, <1>9, <1>10, MessagesUnchanged DEF IInv

-----------------------------------------------------------------------------
LEMMA NextInv == IInv /\ [Next]_vars => IInv'
<1> SUFFICES ASSUME IInv, [Next]_vars PROVE IInv'
  OBVIOUS
<1>1. CASE EpollWait
  BY <1>1, EpollWaitStep
<1>2. CASE \/ EpollFailure \/ EndOfEvents \/ UNCHANGED vars
           \/ AcceptFails \/ KilledBySend \/ RecvAgain \/ RecvClosed
  BY <1>2, IdleStep
<1>3. CASE Accept
  BY <1>3, AcceptStep
<1>4. CASE RecvError \/ RecvEof
  BY <1>4, CloseStep
<1>5. CASE EchoDatagram
  BY <1>5, EchoDatagramStep
<1>6. CASE EchoData
  BY <1>6, EchoDataStep
<1>7. ASSUME NEW c \in Clients, Connect(c) \/ Send(c) \/ Leave(c) \/ Reset(c)
      PROVE  IInv'
  BY <1>7, ConnectStep, ArrivalStep
<1>8. ASSUME NEW g \in Datagrams, Arrive(g)
      PROVE  IInv'
  BY <1>8, ArriveStep
<1> QED BY <1>1, <1>2, <1>3, <1>4, <1>5, <1>6, <1>7, <1>8
       DEF Next, ServerStep, ClientStep

-----------------------------------------------------------------------------
(* The inductive invariant holds in every reachable state.                 *)
THEOREM Invariance == Spec => []IInv
BY InitInv, NextInv, PTL DEF Spec

(* What is received, kept and sent stays within its types, and within the  *)
(* buffers (lines 109-118 and 124-145).                                    *)
THEOREM TypeCorrect == Spec => []TypeOK
<1>1. IInv => TypeOK
  BY DEF IInv, Control, KernelInv, Echoes, Messages, TypeOK, Descriptors
<1> QED BY <1>1, Invariance, PTL

-----------------------------------------------------------------------------
(* The refinement.  All steps but three are steps in which clients leave,  *)
(* or none does, and nobody says or hears anything.                        *)
LEMMA InitMaps == Init => Echo!Init
<1> SUFFICES ASSUME Init PROVE Echo!Init
  OBVIOUS
<1>1. ASSUME NEW c \in Patient
      PROVE  Status(c) = "outside" /\ sock[c].sent = 0 /\ echoed[c] = <<>>
  <2>1. c \in Clients /\ c # NoClient
    BY DescriptorsFacts DEF Patient
  <2>2. sock[c].peer = "none" /\ sock[c].sent = 0 /\ \A d \in Fds : owner[d] = NoClient
    BY <2>1 DEF Init, KernelInit
  <2> QED BY <2>1, <2>2 DEF Init, Status, Running, Connected
<1> QED BY <1>1 DEF Echo!Init

LEMMA EndMaps ==
  ASSUME \A c \in Patient :
           /\ Status(c)' = Status(c) \/ Status(c)' = "ended"
           /\ sock'[c].sent = sock[c].sent
           /\ echoed'[c] = echoed[c]
  PROVE  Echo!End
<1> DEFINE leaving == {c \in Patient : Status(c)' = "ended"}
<1>1. \A c \in Patient : Status(c)' = IF c \in leaving THEN "ended" ELSE Status(c)
  OBVIOUS
<1>2. leaving \in SUBSET Patient
  OBVIOUS
<1>3. [c \in Patient |-> Status(c)]'
        = [c \in Patient |-> IF c \in leaving THEN "ended" ELSE [e \in Patient |-> Status(e)][c]]
  <2> HIDE DEF leaving
  <2>1. \A c \in Patient : [e \in Patient |-> Status(e)][c] = Status(c)
    OBVIOUS
  <2> QED BY <1>1, <2>1
<1>4. UNCHANGED <<[c \in Patient |-> sock[c].sent], [c \in Patient |-> echoed[c]]>>
  OBVIOUS
<1> HIDE DEF leaving
<1> QED BY <1>2, <1>3, <1>4 DEF Echo!End

(* A step that leaves the connections alone, and may end the process.      *)
LEMMA IdleMaps ==
  ASSUME UNCHANGED <<owner, sock, echoed>>, ~Running => ~Running'
  PROVE  Echo!End
<1>1. \A c \in Patient : Status(c)' = Status(c) \/ Status(c)' = "ended"
  BY DEF Status, Running, Connected
<1> QED BY <1>1, EndMaps

(* A step that changes the state of one connection.                        *)
LEMMA OneMaps ==
  ASSUME NEW b, UNCHANGED <<pc, echoed>>,
         \A c \in Patient : sock'[c].sent = sock[c].sent,
         \A c \in Patient : c # b => sock'[c].peer = sock[c].peer /\ Connected(c)' = Connected(c),
         b \in Patient => Status(b)' = Status(b) \/ Status(b)' = "ended"
  PROVE  Echo!End
<1>1. ASSUME NEW c \in Patient
      PROVE  Status(c)' = Status(c) \/ Status(c)' = "ended"
  <2>1. CASE c = b
    BY <2>1
  <2>2. CASE c # b
    BY <2>2 DEF Status, Running
  <2> QED BY <2>1, <2>2
<1> QED BY <1>1, EndMaps

LEMMA ConnectMaps ==
  ASSUME IInv, NEW c \in Clients, Connect(c) \/ Leave(c) \/ Reset(c)
  PROVE  Echo!End
<1>1. sock \in [Clients -> Socket]
  BY DEF IInv, KernelInv, KernelTypeOK
<1>2. UNCHANGED <<pc, echoed, owner>>
  BY DEF Connect, Leave, Reset, Connects, Leaves, Resets
<1>3. PICK s \in Socket :
        /\ sock' = [sock EXCEPT ![c] = s]
        /\ s.sent = sock[c].sent /\ s.peer \in {"open", "fin", "rst"}
        /\ sock[c].peer \notin {"rst", "closed"} \/ s.peer = "rst"
  <2>1. CASE Connect(c)
    <3> DEFINE s == [sock[c] EXCEPT !.peer = "open"]
    <3>1. sock' = [sock EXCEPT ![c] = s] /\ sock[c].peer = "none"
      BY <1>1, <2>1 DEF Connect, Connects
    <3>2. s \in Socket /\ s.sent = sock[c].sent /\ s.peer = "open"
      BY <1>1 DEF Socket
    <3> HIDE DEF s
    <3> QED BY <3>1, <3>2
  <2>2. CASE Leave(c)
    <3> DEFINE s == [sock[c] EXCEPT !.peer = "fin"]
    <3>1. sock' = [sock EXCEPT ![c] = s] /\ sock[c].peer = "open"
      BY <1>1, <2>2 DEF Leave, Leaves
    <3>2. s \in Socket /\ s.sent = sock[c].sent /\ s.peer = "fin"
      BY <1>1 DEF Socket
    <3> HIDE DEF s
    <3> QED BY <3>1, <3>2
  <2>3. CASE Reset(c)
    <3> DEFINE err == IF sock[c].peer = "fin" THEN "EPIPE" ELSE "ECONNRESET"
               s == [sock[c] EXCEPT !.peer = "rst", !.err = err]
    <3>1. sock' = [sock EXCEPT ![c] = s]
      BY <1>1, <2>3 DEF Reset, Resets
    <3>2. s \in Socket /\ s.sent = sock[c].sent /\ s.peer = "rst"
      BY <1>1 DEF Socket
    <3> HIDE DEF s
    <3> QED BY <3>1, <3>2
  <2> QED BY <2>1, <2>2, <2>3
<1>4. /\ sock'[c] = s /\ \A e \in Clients \ {c} : sock'[e] = sock[e]
      /\ \A e \in Clients : sock'[e].sent = sock[e].sent
  BY <1>3, <1>1
<1>5. \A e \in Clients : Connected(e)' = Connected(e)
  BY <1>2 DEF Connected
<1>6. Status(c)' = Status(c) \/ Status(c)' = "ended"
  BY <1>3, <1>2, <1>4, <1>5 DEF Status, Running
<1> QED BY <1>2, <1>4, <1>5, <1>6, OneMaps DEF Patient

LEMMA SendMaps ==
  ASSUME IInv, NEW c \in Clients, Send(c)
  PROVE  Echo!Next
<1>1. sock \in [Clients -> Socket]
  BY DEF IInv, KernelInv, KernelTypeOK
<1>2. /\ UNCHANGED <<pc, echoed, owner>>
      /\ sock' = [sock EXCEPT ![c].sent = @ + 1]
      /\ sock[c].peer = "open" /\ Running
  BY DEF Send, Sends
<1>3. /\ \A e \in Clients : sock'[e].peer = sock[e].peer
      /\ \A e \in Clients \ {c} : sock'[e].sent = sock[e].sent
      /\ sock'[c].sent = sock[c].sent + 1
  BY <1>1, <1>2
<1>4. \A e \in Patient : Status(e)' = Status(e)
  BY <1>2, <1>3 DEF Status, Running, Connected, Patient
<1>5. CASE c \in Patient
  <2>1. Status(c) # "ended"
    BY <1>2 DEF Status
  <2>2. [e \in Patient |-> sock[e].sent]'
          = [[e \in Patient |-> sock[e].sent] EXCEPT ![c] = @ + 1]
    BY <1>3, <1>5 DEF Patient
  <2>3. UNCHANGED <<[e \in Patient |-> Status(e)], [e \in Patient |-> echoed[e]]>>
    BY <1>2, <1>4
  <2>4. Echo!Say(c)
    BY <1>5, <2>1, <2>2, <2>3 DEF Echo!Say
  <2> QED BY <1>5, <2>4 DEF Echo!Next
<1>6. CASE c \notin Patient
  <2>1. Echo!End
    BY <1>2, <1>3, <1>4, <1>6, EndMaps DEF Patient
  <2> QED BY <2>1 DEF Echo!Next
<1> QED BY <1>5, <1>6

(* accept: a client that has not reset its connection meanwhile is served. *)
LEMMA AcceptMaps ==
  ASSUME IInv, Accept
  PROVE  Echo!Next
<1>1. /\ LowestFree \in Fds /\ owner[LowestFree] = NoClient
      /\ Head(backlog) \in Clients /\ backlog # <<>>
      /\ \A d \in Fds : owner[d] # Head(backlog)
      /\ owner' = [owner EXCEPT ![LowestFree] = Head(backlog)]
      /\ UNCHANGED sock
  BY AcceptsInv, DescriptorsHold DEF IInv, Accept
<1>2. PICK d \in Fds, c \in Clients :
        /\ owner[d] = NoClient
        /\ \A e \in Fds : owner[e] # c
        /\ owner' = [owner EXCEPT ![d] = c]
        /\ UNCHANGED sock
  BY <1>1
<1>3. UNCHANGED <<pc, echoed>>
  BY DEF Accept
<1>4. owner'[d] = c /\ \A e \in Fds \ {d} : owner'[e] = owner[e]
  BY <1>2 DEF IInv, KernelInv, KernelTypeOK
<1>5. /\ \A e \in Clients \ {c} : Connected(e)' = Connected(e)
      /\ ~Connected(c) /\ Connected(c)'
  BY <1>2, <1>4, DescriptorsFacts DEF Connected
<1>6. CASE c \in Patient /\ Status(c) # "ended"
  <2>1. Status(c) = "outside" /\ Status(c)' = "served"
    BY <1>2, <1>3, <1>5, <1>6 DEF Status, Running
  <2>2. \A e \in Patient : e # c => Status(e)' = Status(e)
    BY <1>2, <1>3, <1>5 DEF Status, Running, Patient
  <2>3. [e \in Patient |-> Status(e)]'
          = [[e \in Patient |-> Status(e)] EXCEPT ![c] = "served"]
    BY <2>1, <2>2
  <2>4. UNCHANGED <<[e \in Patient |-> sock[e].sent], [e \in Patient |-> echoed[e]]>>
    BY <1>2, <1>3
  <2>5. Echo!Serve(c)
    BY <1>6, <2>1, <2>3, <2>4 DEF Echo!Serve
  <2> QED BY <1>6, <2>5 DEF Echo!Next
<1>7. CASE ~(c \in Patient /\ Status(c) # "ended")
  <2>1. c \in Patient => Status(c)' = "ended"
    BY <1>2, <1>3, <1>5, <1>7 DEF Status, Running
  <2>2. Echo!End
    BY <1>2, <1>3, <1>5, <2>1, OneMaps DEF Patient
  <2> QED BY <2>2 DEF Echo!Next
<1> QED BY <1>6, <1>7

(* recv and send: the client hears the units that come next.               *)
LEMMA EchoDataMaps ==
  ASSUME IInv, EchoData
  PROVE  Echo!Next
<1>1. PICK c \in Clients, n \in Nat \ {0} :
        /\ c = Conn
        /\ sock[c].peer \in Present
        /\ sock' = [sock EXCEPT ![c].read = sock[c].read + n, ![c].err = "none"]
        /\ sock[c].read + n <= sock[c].sent
        /\ echoed' = [echoed EXCEPT ![c] = echoed'[c]]
        /\ sock[c].peer = "rst" => echoed'[c] = echoed[c]
        /\ c \in Patient /\ sock[c].peer # "rst" =>
             echoed'[c] = [k \in 1 .. sock[c].read + n |-> k]
  BY EchoFacts
<1>2. UNCHANGED <<pc, owner>> /\ Running
  BY DEF EchoData, Handling, Running
<1>3. sock \in [Clients -> Socket] /\ echoed \in [Clients -> Seq(1 .. MaxSend)]
  BY DEF IInv, KernelInv, KernelTypeOK, Echoes
<1>4. \A e \in Clients : sock'[e].peer = sock[e].peer /\ sock'[e].sent = sock[e].sent
  BY <1>1, <1>3
<1>5. \A e \in Patient : Status(e)' = Status(e)
  BY <1>2, <1>4 DEF Status, Running, Connected, Patient
<1>6. \A e \in Clients \ {c} : echoed'[e] = echoed[e]
  BY <1>1, <1>3
<1>7. CASE c \in Patient /\ sock[c].peer # "rst"
  <2>1. Status(c) = "served"
    <3>1. Connected(c)
      BY <1>1 DEF EchoData, Handling, Conn, Connected
    <3> QED BY <1>1, <1>2, <1>7, <3>1 DEF Status, Present
  <2>2. echoed[c] = [k \in 1 .. sock[c].read |-> k]
    BY <1>1, <1>7 DEF IInv, Echoes, Present
  <2>3. sock[c].read \in Nat /\ sock[c].sent \in Nat
    BY SocketFacts DEF IInv, KernelInv
  <2>4. Len(echoed[c]) = sock[c].read
    <3>1. echoed[c] \in Seq(1 .. MaxSend)
      BY <1>3
    <3>2. DOMAIN echoed[c] = 1 .. sock[c].read
      BY <2>2
    <3> QED BY <2>3, <3>1, <3>2, LenProperties
  <2> DEFINE m == sock[c].read + n
  <2>5. m \in Len(echoed[c]) + 1 .. sock[c].sent
    BY <1>1, <2>3, <2>4
  <2>6. echoed'[c] = [k \in 1 .. m |-> k]
    BY <1>1, <1>7
  <2> HIDE DEF m
  <2>7. [e \in Patient |-> echoed[e]]'
          = [[e \in Patient |-> echoed[e]] EXCEPT ![c] = [k \in 1 .. m |-> k]]
    BY <1>6, <1>7, <2>6 DEF Patient
  <2>8. UNCHANGED <<[e \in Patient |-> Status(e)], [e \in Patient |-> sock[e].sent]>>
    BY <1>4, <1>5 DEF Patient
  <2>9. /\ [e \in Patient |-> Status(e)][c] = "served"
        /\ [e \in Patient |-> sock[e].sent][c] = sock[c].sent
        /\ [e \in Patient |-> echoed[e]][c] = echoed[c]
    BY <1>7, <2>1
  <2>10. Echo!Echo(c)
    BY <2>5, <2>7, <2>8, <2>9 DEF Echo!Echo
  <2> QED BY <1>7, <2>10 DEF Echo!Next
<1>8. CASE ~(c \in Patient /\ sock[c].peer # "rst")
  <2>1. \A e \in Patient : echoed'[e] = echoed[e]
    BY <1>1, <1>6, <1>8 DEF Patient
  <2>2. Echo!End
    BY <1>4, <1>5, <2>1, EndMaps DEF Patient
  <2> QED BY <2>2 DEF Echo!Next
<1> QED BY <1>7, <1>8

LEMMA CloseMaps ==
  ASSUME IInv, RecvError \/ RecvEof
  PROVE  Echo!End
<1>1. /\ sockfd \in Fds /\ Closes(sockfd) /\ UNCHANGED <<pc, echoed>>
  BY DEF RecvError, RecvEof, Handling
<1>2. PICK d \in Fds : d = sockfd
  BY <1>1
<1>3. PICK c \in Clients : c = owner[d]
  BY <1>2 DEF RecvError, RecvEof, HasError, HasNothing, Conn, IInv, KernelInv, KernelTypeOK
<1>4. /\ owner'[d] = NoClient
      /\ \A e \in Fds \ {d} : owner'[e] = owner[e]
      /\ \A e \in Clients : e # c => sock'[e] = sock[e]
  BY <1>1, <1>2, <1>3, ClosesInv DEF IInv
<1>5. /\ sock'[c].peer = "closed"
      /\ sock'[c].sent = sock[c].sent
  <2>1. sock \in [Clients -> Socket] /\ c # NoClient
    BY DescriptorsFacts DEF IInv, KernelInv, KernelTypeOK
  <2> QED BY <1>1, <1>2, <1>3, <2>1 DEF Closes
<1>6. \A e \in Clients : e # c => Connected(e)' = Connected(e)
  BY <1>3, <1>4, DescriptorsFacts DEF Connected
<1>7. Status(c)' = "ended"
  BY <1>5 DEF Status
<1>8. \A e \in Patient : sock'[e].sent = sock[e].sent
  BY <1>4, <1>5 DEF Patient
<1>9. \A e \in Patient : e # c => sock'[e].peer = sock[e].peer /\ Connected(e)' = Connected(e)
  BY <1>4, <1>6 DEF Patient
<1> QED BY <1>1, <1>7, <1>8, <1>9, OneMaps

LEMMA NextMaps == IInv /\ [Next]_vars => [Echo!Next]_(Echo!vars)
<1> SUFFICES ASSUME IInv, [Next]_vars PROVE Echo!Next
  OBVIOUS
<1>1. CASE \/ EpollWait \/ EndOfEvents \/ AcceptFails \/ EchoDatagram
           \/ KilledBySend \/ RecvAgain \/ RecvClosed \/ EpollFailure \/ UNCHANGED vars
  <2>1. UNCHANGED <<owner, sock, echoed>>
    BY <1>1 DEF EpollWait, EndOfEvents, AcceptFails, EchoDatagram, KilledBySend, RecvAgain,
                RecvClosed, EpollFailure, vars, kernel
  <2>2. ~Running => ~Running'
    BY <1>1 DEF EpollWait, EndOfEvents, AcceptFails, EchoDatagram, KilledBySend, RecvAgain,
                RecvClosed, EpollFailure, vars, At, Handling, Running
  <2> QED BY <2>1, <2>2, IdleMaps DEF Echo!Next
<1>2. CASE Accept
  BY <1>2, AcceptMaps
<1>3. CASE EchoData
  BY <1>3, EchoDataMaps
<1>4. CASE RecvError \/ RecvEof
  BY <1>4, CloseMaps DEF Echo!Next
<1>5. ASSUME NEW c \in Clients, Connect(c) \/ Send(c) \/ Leave(c) \/ Reset(c)
      PROVE  Echo!Next
  BY <1>5, ConnectMaps, SendMaps DEF Echo!Next
<1>6. ASSUME NEW g \in Datagrams, Arrive(g)
      PROVE  Echo!Next
  <2>1. UNCHANGED <<owner, sock, echoed, pc>>
    BY <1>6 DEF Arrive
  <2> QED BY <2>1, IdleMaps DEF Echo!Next, Running
<1> QED BY <1>1, <1>2, <1>3, <1>4, <1>5, <1>6 DEF Next, ServerStep, ClientStep

(* Toward clients with room for the echo, the server implements the echo   *)
(* service: each step of it is one of EchoStream, or changes nothing there.*)
THEOREM ImplementsEchoStream == Spec => EchoesStream
<1>1. Init => Echo!Init
  BY InitMaps
<1>2. IInv /\ [Next]_vars => [Echo!Next]_(Echo!vars)
  BY NextMaps
<1> QED BY <1>1, <1>2, Invariance, PTL DEF Spec, EchoesStream, Echo!Spec

-----------------------------------------------------------------------------
(* The datagrams: the queue holds the last of what has arrived, and h      *)
(* tells which of the others each answer was given to.                     *)

ReadSoFar == Len(arrived) - Len(udpq)

Increasing(h, m) == \A j, k \in 1 .. m : j < k => h[j] < h[k]

Image(S, h, a) == \A v : v \in S <=> \E k \in 1 .. a : v = h[k]

Answers(h) ==
  /\ h \in [1 .. Len(replies) -> 1 .. ReadSoFar]
  /\ Increasing(h, Len(replies))
  /\ \A j \in 1 .. Len(replies) :
       arrived[h[j]].len > 0 /\ replies[j] = Answer(arrived[h[j]])

AnsweredInOrder ==
  /\ ReadSoFar \in Nat
  /\ \A k \in 1 .. Len(udpq) : udpq[k] = arrived[ReadSoFar + k]
  /\ \E h : Answers(h)

LEMMA AppendFacts ==
  ASSUME NEW S, NEW s \in Seq(S), NEW e \in S
  PROVE  /\ Len(Append(s, e)) = Len(s) + 1
         /\ \A k \in 1 .. Len(s) : Append(s, e)[k] = s[k]
         /\ Append(s, e)[Len(s) + 1] = e
OBVIOUS

UpTo(S, v) == {l \in S : l <= v}

(* The first elements of an increasing sequence are as many as they are... *)
LEMMA CardinalityOfIncreasing ==
  ASSUME NEW m \in Nat, NEW n \in Nat, NEW h \in [1 .. m -> 1 .. n],
         NEW a \in 0 .. m, NEW S, Increasing(h, m), Image(S, h, a)
  PROVE  Cardinality(S) = a
<1> USE DEF Increasing, Image
<1> DEFINE f == [k \in 1 .. a |-> h[k]]
<1>1. IsFiniteSet(1 .. a) /\ Cardinality(1 .. a) = a
  BY FS_Interval
<1>2. f \in Surjection(1 .. a, S)
  BY DEF Surjection
<1>3. f \in Injection(1 .. a, S)
  <2>1. ASSUME NEW x \in 1 .. a, NEW y \in 1 .. a, h[x] = h[y]
        PROVE  x = y
    <3>1. x \in 1 .. m /\ y \in 1 .. m
      OBVIOUS
    <3>2. h[x] \in Int /\ h[y] \in Int
      BY <3>1
    <3>3. ~(x < y) /\ ~(y < x)
      BY <2>1, <3>1, <3>2
    <3> QED BY <3>3
  <2>2. f \in [1 .. a -> S] /\ \A x \in 1 .. a : f[x] = h[x]
    OBVIOUS
  <2> HIDE DEF f
  <2> QED BY <2>1, <2>2 DEF Injection, IsInjective
<1> HIDE DEF f
<1> QED BY <1>1, <1>2, <1>3, FS_Surjection

(* ... so the r-th element is the one with r elements up to it.            *)
LEMMA RankOfIncreasing ==
  ASSUME NEW m \in Nat, NEW n \in Nat, NEW h \in [1 .. m -> 1 .. n],
         NEW S, NEW r \in 1 .. m, Increasing(h, m), Image(S, h, m)
  PROVE  Cardinality(UpTo(S, h[r])) = r
<1>1. \A k \in 1 .. m : h[k] <= h[r] <=> k <= r
  <2> SUFFICES ASSUME NEW k \in 1 .. m PROVE h[k] <= h[r] <=> k <= r
    OBVIOUS
  <2>1. h[k] \in Int /\ h[r] \in Int /\ k \in Int /\ r \in Int
    OBVIOUS
  <2>2. (k < r => h[k] < h[r]) /\ (r < k => h[r] < h[k])
    BY DEF Increasing
  <2> QED BY <2>1, <2>2
<1>2. \A k : k \in 1 .. r <=> k \in 1 .. m /\ k <= r
  OBVIOUS
<1>3. \A v : v \in UpTo(S, h[r]) <=> \E k \in 1 .. r : v = h[k]
  BY <1>1, <1>2, Zenon DEF UpTo, Image
<1>4. r \in 0 .. m
  OBVIOUS
<1>5. PICK T : T = UpTo(S, h[r])
  OBVIOUS
<1>6. Image(T, h, r)
  BY <1>3, <1>5 DEF Image
<1>7. Cardinality(T) = r
  BY <1>4, <1>6, CardinalityOfIncreasing
<1> QED BY <1>5, <1>7

(* The property is AnsweredInOrder with a set in place of h.               *)
LEMMA OwnAnswers ==
  ASSUME IInv, AnsweredInOrder
  PROVE  AnswersOwnDatagrams
<1>0. PICK m \in Nat, n \in Nat : m = Len(replies) /\ n = ReadSoFar
  BY LenProperties DEF IInv, Messages, AnsweredInOrder
<1> DEFINE read == SubSeq(arrived, 1, Len(arrived) - Len(udpq))
<1>1. PICK h : Answers(h)
  BY DEF AnsweredInOrder
<1>2a. PICK answered : answered = {h[k] : k \in 1 .. m}
  OBVIOUS
<1> DEFINE Rank(k) == Cardinality(UpTo(answered, k))
<1>2. /\ arrived \in Seq(Datagrams) /\ udpq \in Seq(Datagrams)
      /\ replies \in Seq(Reply) /\ n <= Len(arrived)
  BY <1>0, LenProperties DEF IInv, Messages, AnsweredInOrder, ReadSoFar
<1>3. DOMAIN read = 1 .. n /\ \A k \in 1 .. n : read[k] = arrived[k]
  <2>1. \A k \in 1 .. n : arrived[k] \in Datagrams
    BY <1>2
  <2>2. n = Len(arrived) - Len(udpq)
    BY <1>0 DEF ReadSoFar
  <2> QED BY <1>0, <1>2, <2>1, <2>2, SubSeqProperties
<1>4. /\ h \in [1 .. m -> 1 .. n]
      /\ Increasing(h, m)
      /\ \A j \in 1 .. m : arrived[h[j]].len > 0 /\ replies[j] = Answer(arrived[h[j]])
  BY <1>0, <1>1 DEF Answers
<1> HIDE DEF read
<1>5. /\ \A j \in 1 .. m : Cardinality(UpTo(answered, h[j])) = j
      /\ Cardinality(answered) = m
  <2>1. Image(answered, h, m)
    BY <1>2a DEF Image
  <2>2. /\ m \in Nat /\ n \in Nat /\ h \in [1 .. m -> 1 .. n]
        /\ Increasing(h, m)
    BY <1>0, <1>4
  <2>3. Cardinality(answered) = m
    <3>1. m \in 0 .. m
      BY <2>2
    <3> QED BY <2>1, <2>2, <3>1, CardinalityOfIncreasing
  <2>4. ASSUME NEW r \in 1 .. m PROVE Cardinality(UpTo(answered, h[r])) = r
    BY <2>1, <2>2, RankOfIncreasing
  <2> QED BY <2>3, <2>4
<1>6. \A j \in 1 .. m : Rank(h[j]) = j
  BY <1>5
<1> HIDE DEF Rank
<1>7. ASSUME NEW j \in 1 .. m
      PROVE  (CHOOSE k \in answered : Rank(k) = j) = h[j]
  <2>1. h[j] \in answered /\ Rank(h[j]) = j
    BY <1>6, <1>2a
  <2>2. \A k \in answered : Rank(k) = j => k = h[j]
    BY <1>6, <1>2a
  <2> QED BY <2>1, <2>2
<1>8. \A k \in answered : k \in 1 .. n /\ read[k].len > 0
  <2>1. ASSUME NEW k \in answered
        PROVE  k \in 1 .. n /\ read[k].len > 0
    <3>1. PICK j \in 1 .. m : k = h[j]
      BY <1>2a
    <3>2. h[j] \in 1 .. n /\ arrived[h[j]].len > 0
      BY <1>4
    <3> QED BY <1>3, <3>1, <3>2
  <2> QED BY <2>1
<1>9. replies = [j \in 1 .. m |-> Answer(read[CHOOSE k \in answered : Rank(k) = j])]
  <2>1. replies = [j \in 1 .. m |-> replies[j]]
    BY <1>0, <1>2
  <2>2. \A j \in 1 .. m :
          replies[j] = Answer(read[CHOOSE k \in answered : Rank(k) = j])
    <3>1. ASSUME NEW j \in 1 .. m
          PROVE  replies[j] = Answer(read[CHOOSE k \in answered : Rank(k) = j])
      <4>1. (CHOOSE k \in answered : Rank(k) = j) = h[j]
        BY <1>7
      <4>2. read[h[j]] = arrived[h[j]] /\ replies[j] = Answer(arrived[h[j]])
        BY <1>3, <1>4
      <4> QED BY <4>1, <4>2
    <3> QED BY <3>1
  <2> QED BY <2>1, <2>2
<1>10. answered \in SUBSET DOMAIN read
  BY <1>3, <1>8
<1>11. \E S \in SUBSET DOMAIN read :
         /\ \A k \in S : read[k].len > 0
         /\ replies = [j \in 1 .. Cardinality(S) |->
              Answer(read[CHOOSE k \in S : Cardinality({l \in S : l <= k}) = j])]
  BY <1>5, <1>8, <1>9, <1>10 DEF Rank, UpTo
<1> QED BY <1>11 DEF AnswersOwnDatagrams, read

LEMMA AnsweredInit == Init => AnsweredInOrder
<1> SUFFICES ASSUME Init PROVE AnsweredInOrder
  OBVIOUS
<1>1. Len(arrived) = 0 /\ Len(udpq) = 0 /\ Len(replies) = 0
  BY DEF Init
<1>2. Answers([j \in 1 .. 0 |-> 0])
  BY <1>1 DEF Answers, Increasing, ReadSoFar
<1> QED BY <1>1, <1>2 DEF AnsweredInOrder, ReadSoFar

LEMMA AnsweredNext ==
  ASSUME IInv, AnsweredInOrder, [Next]_vars
  PROVE  AnsweredInOrder'
<1>0. PICK n \in Nat, m \in Nat : n = ReadSoFar /\ m = Len(replies)
  BY LenProperties DEF IInv, Messages, AnsweredInOrder
<1>1. /\ arrived \in Seq(Datagrams) /\ udpq \in Seq(Datagrams)
      /\ replies \in Seq(Reply) /\ m \in Nat /\ n \in Nat
      /\ Len(arrived) \in Nat /\ Len(udpq) \in Nat /\ Len(arrived) = n + Len(udpq)
  BY <1>0, LenProperties DEF IInv, Messages, AnsweredInOrder, ReadSoFar
<1>2. PICK h : Answers(h)
  BY DEF AnsweredInOrder
<1>3. /\ h \in [1 .. m -> 1 .. n]
      /\ Increasing(h, m)
      /\ \A j \in 1 .. m : arrived[h[j]].len > 0 /\ replies[j] = Answer(arrived[h[j]])
      /\ \A k \in 1 .. Len(udpq) : udpq[k] = arrived[n + k]
  BY <1>0, <1>2 DEF Answers, AnsweredInOrder
<1>4. ASSUME NEW g \in Datagrams, Arrive(g)
      PROVE  AnsweredInOrder'
  <2>1. /\ arrived' = Append(arrived, g) /\ udpq' = Append(udpq, g)
        /\ replies' = replies
    BY <1>4 DEF Arrive
  <2>2. /\ Len(arrived') = Len(arrived) + 1 /\ Len(udpq') = Len(udpq) + 1
        /\ \A k \in 1 .. Len(arrived) : arrived'[k] = arrived[k]
        /\ \A k \in 1 .. Len(udpq) : udpq'[k] = udpq[k]
        /\ arrived'[Len(arrived) + 1] = g /\ udpq'[Len(udpq) + 1] = g
    <3>1. /\ Len(Append(arrived, g)) = Len(arrived) + 1
          /\ \A k \in 1 .. Len(arrived) : Append(arrived, g)[k] = arrived[k]
          /\ Append(arrived, g)[Len(arrived) + 1] = g
      BY <1>1, AppendFacts
    <3>2. /\ Len(Append(udpq, g)) = Len(udpq) + 1
          /\ \A k \in 1 .. Len(udpq) : Append(udpq, g)[k] = udpq[k]
          /\ Append(udpq, g)[Len(udpq) + 1] = g
      BY <1>1, AppendFacts
    <3> QED BY <2>1, <3>1, <3>2, Zenon
  <2>3. ReadSoFar' = n
    BY <1>0, <1>1, <2>2 DEF ReadSoFar
  <2>4. \A k \in 1 .. Len(udpq') : udpq'[k] = arrived'[n + k]
    <3>1. ASSUME NEW k \in 1 .. Len(udpq)
          PROVE  udpq'[k] = arrived'[n + k]
      <4>1. n + k \in 1 .. Len(arrived)
        BY <1>1
      <4> QED BY <1>3, <2>2, <4>1
    <3>2. udpq'[Len(udpq) + 1] = arrived'[n + (Len(udpq) + 1)]
      <4>1. n + (Len(udpq) + 1) = Len(arrived) + 1
        BY <1>1
      <4> QED BY <2>2, <4>1
    <3>3. \A k \in 1 .. Len(udpq') : k \in 1 .. Len(udpq) \/ k = Len(udpq) + 1
      BY <1>1, <2>2
    <3> QED BY <3>1, <3>2, <3>3
  <2>5. \A j \in 1 .. m : arrived'[h[j]] = arrived[h[j]]
    BY <1>1, <1>3, <2>2
  <2>6. Answers(h)'
    BY <1>0, <1>3, <2>1, <2>3, <2>5 DEF Answers
  <2> QED BY <1>1, <2>3, <2>4, <2>6 DEF AnsweredInOrder
<1>5. CASE EchoDatagram
  <2> DEFINE g == Head(udpq)
  <2>1. /\ udpq # <<>> /\ udpq' = Tail(udpq) /\ arrived' = arrived
        /\ buf' = Filled(g)
        /\ \/ replies' = replies
           \/ replies' = Append(replies, [to |-> g.from, text |-> buf']) /\ g.len # 0
    BY <1>5 DEF EchoDatagram
  <2>2. /\ g = arrived[n + 1] /\ g \in Datagrams
        /\ Len(udpq') = Len(udpq) - 1 /\ Len(udpq) > 0
        /\ \A k \in 1 .. Len(udpq') : k + 1 \in 1 .. Len(udpq) /\ udpq'[k] = udpq[k + 1]
    <3>1. Len(udpq) > 0
      BY <1>1, <2>1
    <3>2. g = udpq[1] /\ g \in Datagrams
      BY <1>1, <3>1
    <3>3. g = arrived[n + 1]
      BY <1>1, <1>3, <3>1, <3>2
    <3>4. /\ Len(Tail(udpq)) = Len(udpq) - 1
          /\ \A k \in 1 .. Len(udpq) - 1 : Tail(udpq)[k] = udpq[k + 1]
      BY <1>1, <2>1, HeadTailProperties
    <3>5. Len(udpq') = Len(udpq) - 1
      BY <2>1, <3>4
    <3>6. \A k \in 1 .. Len(udpq') : k + 1 \in 1 .. Len(udpq)
      BY <1>1, <3>1, <3>5
    <3> HIDE DEF g
    <3>7. \A k \in 1 .. Len(udpq') : udpq'[k] = udpq[k + 1]
      BY <2>1, <3>4, <3>5, Zenon
    <3> QED BY <3>1, <3>2, <3>3, <3>5, <3>6, <3>7
  <2>3. g.len \in Nat
    BY <2>2, MultiAssumption
  <2>4. Answer(g) = [to |-> g.from, text |-> buf']
    BY <2>1 DEF Answer, Filled, Cleared
  <2>5. ReadSoFar' = n + 1
    BY <1>0, <1>1, <2>1, <2>2 DEF ReadSoFar
  <2> HIDE DEF g
  <2>6. ReadSoFar' \in Nat /\ \A k \in 1 .. Len(udpq') : udpq'[k] = arrived'[ReadSoFar' + k]
    <3>1. \A k \in 1 .. Len(udpq') : n + (k + 1) = (n + 1) + k
      BY <1>1
    <3>2. \A k \in 1 .. Len(udpq') : udpq'[k] = arrived'[(n + 1) + k]
      BY <1>3, <2>1, <2>2, <3>1
    <3> QED BY <2>5, <3>2
  <2>7. CASE replies' = replies
    <3>1. h \in [1 .. m -> 1 .. n + 1]
      BY <1>1, <1>3
    <3>2. Answers(h)'
      BY <1>0, <1>3, <2>1, <2>5, <2>7, <3>1 DEF Answers
    <3> QED BY <2>6, <3>2 DEF AnsweredInOrder
  <2>8. CASE replies' = Append(replies, Answer(g)) /\ g.len # 0
    <3> DEFINE f == [j \in 1 .. m + 1 |-> IF j <= m THEN h[j] ELSE n + 1]
    <3>1. /\ Len(replies') = m + 1 /\ replies'[m + 1] = Answer(g)
          /\ \A j \in 1 .. m : replies'[j] = replies[j]
      BY <1>0, <1>1, <2>8
    <3>2. /\ f \in [1 .. m + 1 -> 1 .. n + 1]
          /\ f[m + 1] = n + 1 /\ \A j \in 1 .. m : f[j] = h[j] /\ h[j] \in 1 .. n
      <4>1. /\ m + 1 \in 1 .. m + 1 /\ ~(m + 1 <= m)
            /\ \A j \in 1 .. m : j \in 1 .. m + 1 /\ j <= m
            /\ \A j \in 1 .. m + 1 : j <= m => j \in 1 .. m
            /\ n + 1 \in 1 .. n + 1 /\ 1 .. n \subseteq 1 .. n + 1
        BY <1>1
      <4>2. \A j \in 1 .. m : h[j] \in 1 .. n
        BY <1>3
      <4> QED BY <4>1, <4>2, Zenon
    <3> HIDE DEF f
    <3>3. \A j \in 1 .. m + 1 : j \in 1 .. m \/ j = m + 1
      BY <1>1
    <3>4. Increasing(f, m + 1)
      <4>1. \A j, k \in 1 .. m : j < k => f[j] < f[k]
        BY <1>3, <3>2 DEF Increasing
      <4>2. \A j \in 1 .. m : f[j] < f[m + 1]
        <5> SUFFICES ASSUME NEW j \in 1 .. m PROVE f[j] < f[m + 1]
          OBVIOUS
        <5>1. f[j] \in 1 .. n /\ f[m + 1] = n + 1
          BY <3>2
        <5> QED BY <5>1
      <4>3. \A k \in 1 .. m + 1 : ~(m + 1 < k)
        BY <1>1
      <4> QED BY <3>3, <4>1, <4>2, <4>3 DEF Increasing
    <3>5. \A j \in 1 .. m + 1 :
            arrived[f[j]].len > 0 /\ replies'[j] = Answer(arrived[f[j]])
      <4>1. arrived[f[m + 1]].len > 0 /\ replies'[m + 1] = Answer(arrived[f[m + 1]])
        BY <2>2, <2>3, <2>8, <3>1, <3>2
      <4>2. \A j \in 1 .. m :
              arrived[f[j]].len > 0 /\ replies'[j] = Answer(arrived[f[j]])
        BY <1>3, <3>1, <3>2
      <4> QED BY <3>3, <4>1, <4>2
    <3>6. Answers(f)'
      BY <2>1, <2>5, <3>1, <3>2, <3>4, <3>5 DEF Answers
    <3> QED BY <2>6, <3>6 DEF AnsweredInOrder
  <2> QED BY <2>1, <2>4, <2>7, <2>8
<1>6. CASE UNCHANGED <<arrived, udpq, replies>>
  BY <1>6 DEF AnsweredInOrder, Answers, ReadSoFar, Answer
<1>7. ASSUME NEW c \in Clients, Connect(c) \/ Send(c) \/ Leave(c) \/ Reset(c)
      PROVE  AnsweredInOrder'
  BY <1>6, <1>7 DEF Connect, Send, Leave, Reset, udp
<1>8. CASE \/ EpollWait \/ EpollFailure \/ EndOfEvents \/ UNCHANGED vars
           \/ Accept \/ AcceptFails \/ EchoData \/ KilledBySend
           \/ RecvAgain \/ RecvError \/ RecvEof \/ RecvClosed
  BY <1>6, <1>8
     DEF EpollWait, EpollFailure, EndOfEvents, vars, udp, Accept, AcceptFails,
         EchoData, KilledBySend, RecvAgain, RecvError, RecvEof, RecvClosed
<1> QED BY <1>4, <1>5, <1>7, <1>8 DEF Next, ServerStep, ClientStep

(* Each answer holds its own datagram and zeros, whatever was in the       *)
(* buffer before (lines 109-118), for every size of it.                    *)
THEOREM AnswersHoldOneDatagram == Spec => []AnswersOwnDatagrams
<1>1. IInv /\ AnsweredInOrder /\ [Next]_vars => AnsweredInOrder'
  BY AnsweredNext
<1>2. IInv /\ AnsweredInOrder => AnswersOwnDatagrams
  BY OwnAnswers
<1> QED BY <1>1, <1>2, AnsweredInit, Invariance, PTL DEF Spec
=============================================================================
