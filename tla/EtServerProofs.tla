--------------------------- MODULE EtServerProofs ---------------------------
(***************************************************************************)
(* Proofs about the LT and ET server, for every number of clients,         *)
(* descriptors, events per batch and units per recv.  The inductive        *)
(* invariant adds to that of the kernel what the loop knows of the events  *)
(* it has at hand, and which of them are still on the ready list.          *)
(***************************************************************************)
EXTENDS EtServer, EpollSetProofs

Descriptors == Fds \cup {listenfd}

Control ==
  /\ pc \in {"wait", "loop", "exited"}
  /\ mode \in {"et", "lt"}
  /\ events \in Seq(Descriptors) /\ Len(events) <= MAX_EVENT_NUMBER
  /\ IsInjective(events)
  /\ pc = "wait" => events = <<>>

(* A level-triggered entry is back on the list while it is handled, and    *)
(* has what it was reported for: lt() closes on EAGAIN and never meets it. *)
LevelBatch ==
  mode = "lt" => \A d \in Range(events) : d \in Fds =>
    d \in Range(rdy) /\ Readable(owner[d])

(* Nobody is forgotten, whether or not the server still runs.              *)
Remembered ==
  \A d \in Fds : owner[d] # NoClient /\ Readable(owner[d]) =>
    d \in Range(rdy) \cup Range(events)

IInv ==
  Control /\ KernelInv(Descriptors) /\ LevelBatch /\ Remembered

-----------------------------------------------------------------------------
LEMMA InitInv == Init => IInv
<1> SUFFICES ASSUME Init PROVE IInv
  OBVIOUS
<1>1. KernelInit /\ events = <<>>
  BY DEF Init
<1>2. KernelInv(Descriptors)
  BY <1>1, KernelInitInv
<1>3. Range(events) = {} /\ IsInjective(events) /\ Len(events) = 0
      /\ events \in Seq(Descriptors)
  BY <1>1 DEF Range, IsInjective
<1>4. Control
  BY <1>1, <1>3, EtAssumption DEF Init, Control
<1>5. LevelBatch
  BY <1>3 DEF LevelBatch
<1>6. Remembered
  BY <1>1, DescriptorsFacts DEF KernelInit, Remembered
<1> QED BY <1>2, <1>4, <1>5, <1>6 DEF IInv

LEMMA DescriptorsHold == Fds \subseteq Descriptors /\ listenfd \in Descriptors
BY DEF Descriptors

(* What readable means for a connection.                                   *)
LEMMA ReadableFacts ==
  ASSUME NEW D, KernelInv(D), NEW c \in Clients
  PROVE  /\ Unread(c) \in Nat
         /\ Readable(c) = (Unread(c) > 0 \/ sock[c].peer # "open")
BY SocketFacts DEF KernelInv, Readable

(* The event at hand, and those that are left once it is done with.        *)
LEMMA NextEvent ==
  ASSUME IInv, pc = "loop", events # <<>>
  PROVE  /\ sockfd \in Descriptors /\ sockfd \in Range(events)
         /\ Tail(events) \in Seq(Descriptors) /\ IsInjective(Tail(events))
         /\ Len(Tail(events)) <= MAX_EVENT_NUMBER
         /\ Range(Tail(events)) = Range(events) \ {sockfd}
<1>1. events \in Seq(Descriptors) /\ IsInjective(events) /\ Len(events) <= MAX_EVENT_NUMBER
  BY DEF IInv, Control
<1>2. /\ sockfd \in Descriptors /\ sockfd = events[1]
      /\ Tail(events) \in Seq(Descriptors) /\ IsInjective(Tail(events))
      /\ Range(Tail(events)) = Range(events) \ {sockfd}
  BY <1>1, TailType DEF sockfd
<1>3. Len(events) \in Nat \ {0} /\ Len(Tail(events)) = Len(events) - 1
  BY <1>1, HeadTailProperties, LenProperties, EmptySeq
<1>4. 1 \in DOMAIN events
  BY <1>1, <1>3, LenProperties
<1>5. Len(Tail(events)) <= MAX_EVENT_NUMBER
  BY <1>1, <1>3, EtAssumption
<1> QED BY <1>2, <1>4, <1>5 DEF Range

-----------------------------------------------------------------------------
(* Arrivals may come before any step of the server.                        *)
LEMMA ConnectStep ==
  ASSUME IInv, NEW c \in Clients, Connect(c)
  PROVE  IInv'
<1>1. /\ KernelInv(Descriptors)'
      /\ Range(rdy') = Range(rdy) \cup {listenfd}
      /\ \A e \in Clients \ {c} : sock'[e] = sock[e]
      /\ \A d \in Fds : owner[d] # c
      /\ owner' = owner
  BY ConnectsInv, DescriptorsHold DEF IInv, Connect
<1>2. UNCHANGED <<pc, mode, events>>
  BY DEF Connect
<1>3. \A d \in Fds : owner[d] # NoClient => Readable(owner[d])' = Readable(owner[d])
  <2>1. \A d \in Fds : owner[d] # NoClient => owner[d] \in Clients \ {c}
    BY <1>1 DEF IInv, KernelInv, KernelTypeOK
  <2> QED BY <1>1, <2>1 DEF Readable, Unread
<1>4. \A d \in Range(rdy) : d \in Fds => owner[d] # NoClient
  BY DEF IInv, KernelInv, Listed
<1>5. LevelBatch'
  BY <1>1, <1>2, <1>3, <1>4 DEF IInv, LevelBatch
<1>6. Remembered'
  BY <1>1, <1>2, <1>3 DEF IInv, Remembered
<1>7. Control'
  BY <1>2 DEF IInv, Control
<1> QED BY <1>1, <1>5, <1>6, <1>7 DEF IInv

LEMMA ArrivalStep ==
  ASSUME IInv, NEW c \in Clients, Send(c) \/ Leave(c) \/ Reset(c)
  PROVE  IInv'
<1>1. /\ KernelInv(Descriptors)'
      /\ Range(rdy') = Range(rdy) \cup {d \in Fds : owner[d] = c}
      /\ \A e \in Clients \ {c} : sock'[e] = sock[e]
      /\ Readable(c)'
      /\ owner' = owner
  BY ArrivesInv, DescriptorsHold DEF IInv, Send, Leave, Reset
<1>2. UNCHANGED <<pc, mode, events>>
  BY DEF Send, Leave, Reset
<1>3. ASSUME NEW d \in Fds, owner[d] # NoClient
      PROVE  /\ Readable(owner[d]) => Readable(owner[d])'
             /\ owner[d] # c => Readable(owner[d])' = Readable(owner[d])
             /\ owner[d] = c => d \in Range(rdy')
  <2>1. owner[d] \in Clients
    BY <1>3 DEF IInv, KernelInv, KernelTypeOK
  <2>2. owner[d] # c => sock'[owner[d]] = sock[owner[d]]
    BY <1>1, <2>1
  <2>3. owner[d] # c => Readable(owner[d])' = Readable(owner[d])
    BY <1>1, <2>2 DEF Readable, Unread
  <2>4. owner[d] = c => Readable(owner[d])'
    BY <1>1 DEF Readable, Unread
  <2> QED BY <1>1, <2>3, <2>4
<1>4. \A d \in Range(rdy) : d \in Fds => owner[d] # NoClient
  BY DEF IInv, KernelInv, Listed
<1>5. LevelBatch'
  BY <1>1, <1>2, <1>3, <1>4 DEF IInv, LevelBatch
<1>6. Remembered'
  BY <1>1, <1>2, <1>3 DEF IInv, Remembered
<1>7. Control'
  BY <1>2 DEF IInv, Control
<1> QED BY <1>1, <1>5, <1>6, <1>7 DEF IInv

-----------------------------------------------------------------------------
(* epoll_wait: what it does not report stays behind, and what it reports   *)
(* of level-triggered entries goes back on the list.                       *)
LEMMA EpollWaitStep ==
  ASSUME IInv, EpollWait
  PROVE  IInv'
<1> USE DEF IInv
<1>1. PICK ready \in Kept(rdy, Pending) :
        /\ events' = SubSeq(ready, 1, BatchSize(ready))
        /\ \E again \in Kept(events', IF LevelTriggered THEN Fds ELSE {}) :
             rdy' = SubSeq(ready, BatchSize(ready) + 1, Len(ready)) \o again
  BY DEF EpollWait
<1>2. PICK again \in Kept(events', IF LevelTriggered THEN Fds ELSE {}) :
        rdy' = SubSeq(ready, BatchSize(ready) + 1, Len(ready)) \o again
  BY <1>1
<1> DEFINE n == BatchSize(ready)
           rest == SubSeq(ready, n + 1, Len(ready))
<1>3. UNCHANGED <<mode, owner, backlog, sock>> /\ pc' = "loop" /\ pc = "wait"
  BY DEF EpollWait
<1>4. rdy \in Seq(Descriptors) /\ IsInjective(rdy)
  BY DEF KernelInv, KernelTypeOK
<1>5. /\ ready \in Seq(Descriptors) /\ IsInjective(ready)
      /\ Range(ready) = Pending
  <2>1. Range(ready) = Range(rdy) \cap Pending
    BY <1>4, KeptType
  <2> QED BY <1>4, <2>1, KeptType DEF Pending
<1>6. n \in 0 .. Len(ready) /\ n <= MAX_EVENT_NUMBER
  <2>1. Len(ready) \in Nat /\ MAX_EVENT_NUMBER \in Nat
    BY <1>5, LenProperties, EtAssumption
  <2> QED BY <2>1 DEF BatchSize
<1> HIDE DEF n
<1>7. /\ events' \in Seq(Descriptors) /\ IsInjective(events') /\ Len(events') = n
      /\ rest \in Seq(Descriptors) /\ IsInjective(rest)
      /\ Range(events') \cup Range(rest) = Pending
      /\ Range(events') \cap Range(rest) = {}
  <2>1. events' = SubSeq(ready, 1, n)
    BY <1>1 DEF n
  <2> QED BY <1>5, <1>6, <2>1, SplitType
<1>8. /\ again \in Seq(Descriptors) /\ IsInjective(again)
      /\ Range(again) = Range(events') \cap (IF LevelTriggered THEN Fds ELSE {})
  BY <1>2, <1>7, KeptType
<1>9. /\ rdy' \in Seq(Descriptors) /\ IsInjective(rdy')
      /\ Range(rdy') = Range(rest) \cup Range(again)
  <2>1. rdy' = rest \o again
    BY <1>2 DEF n
  <2>2. Range(rest) \cap Range(again) = {}
    BY <1>7, <1>8
  <2> HIDE DEF rest
  <2> QED BY <1>7, <1>8, <2>1, <2>2, JoinType
<1> HIDE DEF rest
<1>10. KernelInv(Descriptors)'
  <2>1. KernelTypeOK(Descriptors)'
    BY <1>3, <1>9 DEF KernelInv, KernelTypeOK
  <2>2. Range(rdy') \subseteq Range(rdy)
    BY <1>7, <1>8, <1>9 DEF Pending
  <2>3. Listed'
    BY <1>3, <2>2 DEF KernelInv, Listed
  <2>4. Owned' /\ Waiting' /\ Errors'
    BY <1>3 DEF KernelInv, Owned, Waiting, Errors
  <2> QED BY <2>1, <2>3, <2>4 DEF KernelInv
<1>11. Control'
  BY <1>3, <1>6, <1>7 DEF Control
<1>12. \A d \in Fds : Readable(owner[d])' = Readable(owner[d])
  BY <1>3 DEF Readable, Unread
<1>13. LevelBatch'
  <2> SUFFICES ASSUME mode' = "lt", NEW d \in Range(events'), d \in Fds
               PROVE  d \in Range(rdy') /\ Readable(owner[d])'
    BY DEF LevelBatch
  <2>1. d \in Range(again)
    BY <1>3, <1>8 DEF LevelTriggered
  <2>2. Readable(owner[d])
    BY <1>7, DescriptorsFacts DEF Pending, HasEvent
  <2> QED BY <1>9, <1>12, <2>1, <2>2
<1>14. Remembered'
  <2> SUFFICES ASSUME NEW d \in Fds, owner'[d] # NoClient, Readable(owner[d])'
               PROVE  d \in Range(rdy') \cup Range(events')
    BY DEF Remembered
  <2>1. owner[d] # NoClient /\ Readable(owner[d])
    BY <1>3, <1>12
  <2>2. Range(events) = {}
    <3>1. events = <<>>
      BY <1>3 DEF Control
    <3> QED BY <3>1 DEF Range
  <2>3. d \in Pending
    BY <2>1, <2>2, DescriptorsFacts DEF Remembered, Pending, HasEvent
  <2> QED BY <1>7, <1>9, <2>3
<1> QED BY <1>10, <1>11, <1>13, <1>14

(* Steps that leave the events and the kernel alone.                       *)
LEMMA IdleStep ==
  ASSUME IInv, EpollFailure \/ EndOfEvents \/ UNCHANGED vars
  PROVE  IInv'
<1>1. UNCHANGED <<mode, events, kernel>> /\ pc' \in {pc, "exited", "wait"}
  BY DEF EpollFailure, EndOfEvents, vars
<1>2. pc' = "wait" => events = <<>>
  BY DEF IInv, Control, EpollFailure, EndOfEvents, vars
<1>3. KernelInv(Descriptors)'
  BY <1>1, KernelUnchanged DEF IInv
<1>4. Control'
  BY <1>1, <1>2 DEF IInv, Control
<1>5. LevelBatch' /\ Remembered'
  BY <1>1 DEF IInv, LevelBatch, Remembered, kernel, Readable, Unread
<1> QED BY <1>3, <1>4, <1>5 DEF IInv

(* Done with an event whose descriptor has nothing to read.                *)
LEMMA HandledStep ==
  ASSUME IInv, pc = "loop", events # <<>>,
         events' = Tail(events), UNCHANGED <<pc, mode, kernel>>,
         sockfd \in Fds /\ owner[sockfd] # NoClient => ~Readable(owner[sockfd])
  PROVE  IInv'
<1>1. Control'
  BY NextEvent DEF IInv, Control
<1>2. KernelInv(Descriptors)'
  BY KernelUnchanged DEF IInv
<1>3. /\ Range(events') = Range(events) \ {sockfd}
      /\ UNCHANGED <<owner, rdy, sock>>
  BY NextEvent DEF kernel
<1>4. \A c : Readable(c)' = Readable(c)
  BY <1>3 DEF Readable, Unread
<1>5. LevelBatch' /\ Remembered'
  BY <1>3, <1>4 DEF IInv, LevelBatch, Remembered
<1> QED BY <1>1, <1>2, <1>5 DEF IInv

(* accept and addfd: the new descriptor is looked at when it is added.     *)
LEMMA AcceptStep ==
  ASSUME IInv, Accept
  PROVE  IInv'
<1>0. /\ KernelInv(Descriptors)'
      /\ LowestFree \in Fds /\ owner[LowestFree] = NoClient
      /\ backlog # <<>> /\ Head(backlog) \in Clients
      /\ \A e \in Fds : owner[e] # Head(backlog)
      /\ owner' = [owner EXCEPT ![LowestFree] = Head(backlog)]
      /\ Range(rdy') = Range(rdy) \cup
           (IF Readable(Head(backlog)) THEN {LowestFree} ELSE {})
      /\ UNCHANGED sock
  BY AcceptsInv, DescriptorsHold DEF IInv, Accept
<1>1. PICK d \in Fds, c \in Clients :
        /\ owner[d] = NoClient
        /\ \A e \in Fds : owner[e] # c
        /\ owner' = [owner EXCEPT ![d] = c]
        /\ Range(rdy') = Range(rdy) \cup (IF Readable(c) THEN {d} ELSE {})
        /\ UNCHANGED sock
  BY <1>0
<1>2. /\ pc = "loop" /\ events # <<>> /\ sockfd = listenfd
      /\ events' = Tail(events) /\ UNCHANGED <<pc, mode>>
  BY DEF Accept, AtListenfd, sockfd
<1>3. Control'
  BY <1>2, NextEvent DEF IInv, Control
<1>4. Range(events') = Range(events) \ {listenfd}
  BY <1>2, NextEvent
<1>5. owner'[d] = c /\ \A e \in Fds \ {d} : owner'[e] = owner[e]
  BY <1>1 DEF IInv, KernelInv, KernelTypeOK
<1>6. /\ \A e \in Fds \ {d} : Readable(owner[e])' = Readable(owner[e])
      /\ Readable(owner[d])' = Readable(c)
  BY <1>1, <1>5 DEF Readable, Unread
<1>7. LevelBatch'
  <2> SUFFICES ASSUME mode' = "lt", NEW e \in Range(events'), e \in Fds
               PROVE  e \in Range(rdy') /\ Readable(owner[e])'
    BY DEF LevelBatch
  <2>1. e \in Range(rdy) /\ Readable(owner[e])
    BY <1>2, <1>4 DEF IInv, LevelBatch
  <2>2. e # d
    BY <1>1, <2>1 DEF IInv, KernelInv, Listed
  <2> QED BY <1>1, <1>6, <2>1, <2>2
<1>8. Remembered'
  <2> SUFFICES ASSUME NEW e \in Fds, owner'[e] # NoClient, Readable(owner[e])'
               PROVE  e \in Range(rdy') \cup Range(events')
    BY DEF Remembered
  <2>1. CASE e = d
    BY <1>1, <1>6, <2>1
  <2>2. CASE e # d
    <3>1. e \in Range(rdy) \cup Range(events)
      BY <1>5, <1>6, <2>2 DEF IInv, Remembered
    <3> QED BY <1>1, <1>4, <3>1, DescriptorsFacts
  <2> QED BY <2>1, <2>2
<1> QED BY <1>0, <1>3, <1>7, <1>8 DEF IInv

(* recv: in LT mode the descriptor is on the list again, in ET mode it is  *)
(* still the event at hand.                                                *)
LEMMA RecvDataStep ==
  ASSUME IInv, LtRecvData \/ EtRecvData
  PROVE  IInv'
<1>1. /\ pc = "loop" /\ events # <<>> /\ sockfd # listenfd
      /\ HasData(Conn) /\ Receives(Conn, BUFFER_SIZE)
      /\ UNCHANGED <<pc, mode>>
      /\ \/ mode = "lt" /\ events' = Tail(events)
         \/ mode = "et" /\ events' = events
  BY DEF LtRecvData, EtRecvData, Handling
<1>2. sockfd \in Fds
  BY <1>1, NextEvent DEF Descriptors
<1>3. Conn \in Clients
  BY <1>1, <1>2 DEF IInv, KernelInv, KernelTypeOK, Conn, HasData
<1>4. /\ KernelInv(Descriptors)'
      /\ \A e \in Clients \ {Conn} : sock'[e] = sock[e]
      /\ sock'[Conn].peer = sock[Conn].peer
      /\ UNCHANGED <<owner, rdy, backlog>>
  BY <1>1, <1>3, ReceivesInv, EtAssumption DEF IInv
<1>5. Control'
  BY <1>1, NextEvent DEF IInv, Control
<1>6. /\ mode = "lt" => Range(events') = Range(events) \ {sockfd}
      /\ mode = "et" => events' = events
  BY <1>1, NextEvent
<1>7. \A d \in Fds \ {sockfd} : owner[d] # NoClient =>
        Readable(owner[d])' = Readable(owner[d])
  <2> SUFFICES ASSUME NEW d \in Fds \ {sockfd}, owner[d] # NoClient
               PROVE  Readable(owner[d])' = Readable(owner[d])
    OBVIOUS
  <2>1. owner[d] \in Clients /\ owner[d] # Conn
    BY <1>2 DEF IInv, KernelInv, KernelTypeOK, Owned, Conn
  <2> QED BY <1>4, <2>1 DEF Readable, Unread
<1>8. \A d \in Range(rdy) : d \in Fds => owner[d] # NoClient
  BY DEF IInv, KernelInv, Listed
<1>9. LevelBatch'
  BY <1>1, <1>4, <1>6, <1>7, <1>8 DEF IInv, LevelBatch
<1>10. Remembered'
  <2> SUFFICES ASSUME NEW d \in Fds, owner'[d] # NoClient, Readable(owner[d])'
               PROVE  d \in Range(rdy') \cup Range(events')
    BY DEF Remembered
  <2>1. CASE d = sockfd
    <3>1. CASE mode = "lt"
      <4>1. d \in Range(rdy)
        BY <1>1, <1>2, <2>1, <3>1, NextEvent DEF IInv, LevelBatch
      <4> QED BY <1>4, <4>1
    <3>2. CASE mode = "et"
      BY <1>1, <1>6, <2>1, <3>2, NextEvent
    <3> QED BY <1>1, <3>1, <3>2
  <2>2. CASE d # sockfd
    <3>1. d \in Range(rdy) \cup Range(events)
      BY <1>4, <1>7, <2>2 DEF IInv, Remembered
    <3> QED BY <1>1, <1>4, <1>6, <2>2, <3>1
  <2> QED BY <2>1, <2>2
<1> QED BY <1>4, <1>5, <1>9, <1>10 DEF IInv

(* close, after which et() looks at the closed descriptor once more.       *)
LEMMA CloseStep ==
  ASSUME IInv, LtClose \/ EtRecvError \/ EtRecvEof
  PROVE  IInv'
<1>1. /\ pc = "loop" /\ events # <<>> /\ sockfd # listenfd
      /\ Closes(sockfd)
      /\ UNCHANGED <<pc, mode>>
      /\ \/ events' = Tail(events)
         \/ mode = "et" /\ events' = events
  BY DEF LtClose, EtRecvError, EtRecvEof, Handling
<1>2. sockfd \in Fds
  BY <1>1, NextEvent DEF Descriptors
<1>3. /\ KernelInv(Descriptors)'
      /\ owner'[sockfd] = NoClient
      /\ \A e \in Fds \ {sockfd} : owner'[e] = owner[e]
      /\ \A c \in Clients : c # owner[sockfd] => sock'[c] = sock[c]
      /\ Range(rdy') = Range(rdy) \ {sockfd}
  BY <1>1, <1>2, ClosesInv DEF IInv
<1>4. Control'
  BY <1>1, NextEvent DEF IInv, Control
<1>5. /\ Range(events) \ {sockfd} \subseteq Range(events')
      /\ mode = "lt" => Range(events') = Range(events) \ {sockfd}
  BY <1>1, NextEvent
<1>6. \A d \in Fds \ {sockfd} : owner[d] # NoClient =>
        Readable(owner[d])' = Readable(owner[d])
  <2> SUFFICES ASSUME NEW d \in Fds \ {sockfd}, owner[d] # NoClient
               PROVE  Readable(owner[d])' = Readable(owner[d])
    OBVIOUS
  <2>1. owner[d] \in Clients /\ owner[d] # owner[sockfd]
    BY <1>2 DEF IInv, KernelInv, KernelTypeOK, Owned
  <2> QED BY <1>3, <2>1 DEF Readable, Unread
<1>7. \A d \in Range(rdy) : d \in Fds => owner[d] # NoClient
  BY DEF IInv, KernelInv, Listed
<1>8. LevelBatch'
  BY <1>1, <1>3, <1>5, <1>6, <1>7 DEF IInv, LevelBatch
<1>9. Remembered'
  BY <1>3, <1>5, <1>6 DEF IInv, Remembered
<1> QED BY <1>3, <1>4, <1>8, <1>9 DEF IInv

-----------------------------------------------------------------------------
LEMMA NextInv == IInv /\ [Next]_vars => IInv'
<1> SUFFICES ASSUME IInv, [Next]_vars PROVE IInv'
  OBVIOUS
<1>1. CASE EpollWait
  BY <1>1, EpollWaitStep
<1>2. CASE EndOfEvents \/ EpollFailure \/ UNCHANGED vars
  BY <1>2, IdleStep
<1>3. CASE Accept
  BY <1>3, AcceptStep
<1>4. CASE AcceptFails
  <2>1. sockfd \notin Fds
    BY <1>4, DescriptorsFacts DEF AcceptFails, AtListenfd, sockfd
  <2> QED BY <1>4, <2>1, HandledStep DEF AcceptFails, AtListenfd
<1>5. CASE LtRecvData \/ EtRecvData
  BY <1>5, RecvDataStep
<1>6. CASE LtClose \/ EtRecvError \/ EtRecvEof
  BY <1>6, CloseStep
<1>7. CASE EtRecvAgain
  <2>1. ~Readable(owner[sockfd])
    BY <1>7 DEF EtRecvAgain, HasNothing, Conn, Readable
  <2> QED BY <1>7, <2>1, HandledStep DEF EtRecvAgain, Handling
<1>8. CASE EtRecvClosed
  BY <1>8, HandledStep DEF EtRecvClosed, Handling, Conn
<1>9. ASSUME NEW c \in Clients, Connect(c) \/ Send(c) \/ Leave(c) \/ Reset(c)
      PROVE  IInv'
  BY <1>9, ConnectStep, ArrivalStep
<1> QED BY <1>1, <1>2, <1>3, <1>4, <1>5, <1>6, <1>7, <1>8, <1>9
       DEF Next, ServerStep, ClientStep

-----------------------------------------------------------------------------
(* The inductive invariant holds in every reachable state.                 *)
THEOREM Invariance == Spec => []IInv
BY InitInv, NextInv, PTL DEF Spec

(* A batch never exceeds events[] (line 168), and the kernel's state and   *)
(* the loop's stay within their types.                                     *)
THEOREM TypeCorrect == Spec => []TypeOK
<1>1. IInv => TypeOK
  BY DEF IInv, Control, KernelInv, TypeOK, Descriptors
<1> QED BY <1>1, Invariance, PTL

(* In both modes a connection with something to read is on the ready list  *)
(* or among the events at hand, however small the batches are.             *)
THEOREM NothingStranded == Spec => []NoStrandedInput
<1>1. IInv => NoStrandedInput
  BY DEF IInv, Remembered, NoStrandedInput
<1> QED BY <1>1, Invariance, PTL

(* Where a connection loses its descriptor, it is over and has been read.  *)
LEMMA DisconnectStep ==
  ASSUME IInv, [Next]_vars, NEW c \in Clients, Connected(c), ~Connected(c)'
  PROVE  sock[c].peer \in {"fin", "rst"} /\ Unread(c) = 0
<1>1. PICK d \in Fds : owner[d] = c
  BY DEF Connected
<1>2. owner'[d] # owner[d] /\ owner[d] # NoClient
  BY <1>1, DescriptorsFacts DEF Connected
<1>3. CASE Accept
  <2>1. /\ LowestFree \in Fds /\ owner[LowestFree] = NoClient
        /\ owner' = [owner EXCEPT ![LowestFree] = Head(backlog)]
    BY <1>3, AcceptsInv, DescriptorsHold DEF IInv, Accept
  <2> QED BY <1>2, <2>1 DEF IInv, KernelInv, KernelTypeOK
<1>4. CASE LtClose \/ EtRecvError \/ EtRecvEof
  <2>1. /\ pc = "loop" /\ events # <<>> /\ sockfd # listenfd
        /\ Closes(sockfd)
    BY <1>4 DEF LtClose, EtRecvError, EtRecvEof, Handling
  <2>2. sockfd \in Fds /\ sockfd \in Range(events)
    BY <2>1, NextEvent DEF Descriptors
  <2>3. d = sockfd
    BY <1>2, <2>1, <2>2, ClosesInv DEF IInv
  <2>4. Conn = c
    BY <1>1, <2>3 DEF Conn
  <2>5. Unread(c) = 0 /\ (sock[c].err # "none" \/ sock[c].peer # "open")
    <3>1. CASE LtClose
      <4>1. Readable(c)
        BY <1>1, <2>2, <2>3, <3>1 DEF IInv, LevelBatch, LtClose, Handling
      <4>2. Unread(c) = 0
        BY <2>4, <3>1 DEF LtClose, HasError, HasNothing
      <4> QED BY <4>1, <4>2 DEF Readable
    <3>2. CASE EtRecvError
      BY <2>4, <3>2 DEF EtRecvError, HasError
    <3>3. CASE EtRecvEof
      BY <2>4, <3>3 DEF EtRecvEof, HasNothing
    <3> QED BY <1>4, <3>1, <3>2, <3>3
  <2>6. sock[c].peer \in Present
    BY <1>1, <1>2 DEF IInv, KernelInv, Owned
  <2> QED BY <2>5, <2>6 DEF IInv, KernelInv, Errors, Present
<1>5. CASE owner' = owner
  BY <1>2, <1>5
<1>6. Accept \/ LtClose \/ EtRecvError \/ EtRecvEof \/ owner' = owner
  BY DEF Next, ServerStep, ClientStep, vars, kernel, EpollWait, EndOfEvents, AcceptFails,
         LtRecvData, EtRecvData, EtRecvAgain, EtRecvClosed, EpollFailure,
         Connect, Connects, Send, Sends, Leave, Leaves, Reset, Resets, Receives
<1> QED BY <1>3, <1>4, <1>5, <1>6

(* The server hangs up only on peers that are gone and have been read: in  *)
(* LT mode because what it was told of is still there when it reads, so    *)
(* that it never takes EAGAIN for an error.                                *)
THEOREM HangsUpOnlyOnDeparted == Spec => ClosesOnlyDeparted
<1> DEFINE Departed == \A c \in Clients :
             Connected(c) /\ ~Connected(c)' =>
               sock[c].peer \in {"fin", "rst"} /\ Unread(c) = 0
<1>1. IInv /\ [Next]_vars => [Departed]_vars
  BY DisconnectStep
<1>2. Spec => [][Departed]_vars
  BY <1>1, Invariance, PTL DEF Spec
<1> QED BY <1>2 DEF ClosesOnlyDeparted
=============================================================================
