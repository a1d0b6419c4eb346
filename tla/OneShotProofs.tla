---------------------------- MODULE OneShotProofs ---------------------------
(***************************************************************************)
(* Proofs about the EPOLLONESHOT server, for every number of clients,      *)
(* descriptors and threads.  What holds of a connection's descriptor is    *)
(* that it is in one place: armed, and then on the ready list if there is  *)
(* something to read; or disarmed, and then among main's events, on its    *)
(* way to a thread, or with one.  It is so if a thread reads its argument  *)
(* before main goes on (~ArgRace); types are kept in any case.             *)
(***************************************************************************)
EXTENDS OneShot, EpollSetProofs

Descriptors == Fds \cup {listenfd}

Control ==
  /\ pc \in {"wait", "loop", "exited"}
  /\ events \in Seq(Descriptors) /\ IsInjective(events)
  /\ pc = "wait" => events = <<>>
  /\ slot \in Fds \cup {Garbage}
  /\ wpc \in [Workers -> {"none", "start", "recv", "eof", "eagain", "ended"}]
  /\ sockfd \in [Workers -> Fds \cup {Garbage}]
  /\ \A w \in Workers : wpc[w] \in {"eof", "eagain"} => sockfd[w] \in Fds

(* The epoll set knows the connections, and reports those that are armed.  *)
Interests ==
  /\ interest \in [Fds -> {"absent", "armed", "disarmed"}]
  /\ \A d \in Fds : interest[d] = "absent" <=> owner[d] = NoClient
  /\ \A d \in Range(rdy) : d \in Fds => interest[d] = "armed"
  /\ \A d \in Fds :
       interest[d] = "armed" /\ Readable(owner[d]) => d \in Range(rdy)

(* A descriptor in somebody's hands is disarmed, and in nobody else's.     *)
Hands ==
  /\ \A d \in Range(events) : d \in Fds => interest[d] = "disarmed"
  /\ \A w \in Workers : wpc[w] = "start" =>
       slot \in Fds /\ interest[slot] = "disarmed" /\ slot \notin Range(events)
  /\ \A w \in Workers : Serving(w) =>
       sockfd[w] \in Fds /\ interest[sockfd[w]] = "disarmed" /\ sockfd[w] \notin Range(events)
  /\ \A v, w \in Workers : wpc[v] = "start" /\ wpc[w] = "start" => v = w
  /\ \A v, w \in Workers : wpc[v] = "start" /\ Serving(w) => slot # sockfd[w]

InHand(d) ==
  \/ d \in Range(events)
  \/ \E w \in Workers : Serving(w) /\ sockfd[w] = d
  \/ \E w \in Workers : wpc[w] = "start" /\ slot = d

(* What is disarmed is in somebody's hands while there are threads left.   *)
Held ==
  (\E w \in Workers : wpc[w] = "none") =>
    \A d \in Fds : interest[d] = "disarmed" => InHand(d)

RaceFree == ~ArgRace => Hands /\ OneWorkerPerSocket /\ Held

IInv == Control /\ KernelInv(Descriptors) /\ Interests /\ RaceFree

-----------------------------------------------------------------------------
LEMMA DescriptorsHold ==
  /\ Fds \subseteq Descriptors /\ listenfd \in Descriptors
  /\ \A d \in Descriptors : d \in Fds \/ d = listenfd
  /\ Garbage \notin Fds
BY DescriptorsFacts DEF Descriptors, Garbage

LEMMA InitInv == Init => IInv
<1> SUFFICES ASSUME Init PROVE IInv
  OBVIOUS
<1>1. KernelInit /\ events = <<>> /\ \A w \in Workers : wpc[w] = "none"
  BY DEF Init
<1>2. KernelInv(Descriptors)
  BY <1>1, KernelInitInv
<1>3. Range(events) = {} /\ IsInjective(events) /\ events \in Seq(Descriptors)
  BY <1>1 DEF Range, IsInjective
<1>4. Control
  BY <1>1, <1>3 DEF Init, Control
<1>5. Interests
  <2>1. rdy = <<>> /\ Range(rdy) = {}
    BY <1>1 DEF KernelInit, Range
  <2>2. \A d \in Fds : owner[d] = NoClient /\ interest[d] = "absent"
    BY <1>1 DEF KernelInit, Init
  <2>3. interest \in [Fds -> {"absent", "armed", "disarmed"}]
    BY DEF Init
  <2> QED BY <2>1, <2>2, <2>3 DEF Interests
<1>6. Hands /\ OneWorkerPerSocket /\ Held
  <2>1. \A d \in Fds : interest[d] # "disarmed"
    BY DEF Init
  <2> QED BY <1>1, <1>3, <2>1 DEF Hands, OneWorkerPerSocket, Held, Serving
<1> QED BY <1>2, <1>4, <1>5, <1>6 DEF IInv, RaceFree

(* The event at hand, and those that are left once it is done with.        *)
LEMMA NextEvent ==
  ASSUME IInv, events # <<>>
  PROVE  /\ Head(events) \in Descriptors /\ Head(events) \in Range(events)
         /\ Tail(events) \in Seq(Descriptors) /\ IsInjective(Tail(events))
         /\ Range(Tail(events)) = Range(events) \ {Head(events)}
<1>1. events \in Seq(Descriptors) /\ IsInjective(events)
  BY DEF IInv, Control
<1>2. /\ Head(events) \in Descriptors /\ Head(events) = events[1]
      /\ Tail(events) \in Seq(Descriptors) /\ IsInjective(Tail(events))
      /\ Range(Tail(events)) = Range(events) \ {Head(events)}
  BY <1>1, TailType
<1>3. 1 \in DOMAIN events
  BY <1>1, LenProperties, EmptySeq
<1> QED BY <1>2, <1>3 DEF Range

(* Who has which descriptor depends on main and the threads alone.         *)
LEMMA HandsUnchanged ==
  ASSUME RaceFree, UNCHANGED <<main, worker, interest>>
  PROVE  RaceFree'
BY DEF RaceFree, Hands, OneWorkerPerSocket, Held, InHand, Serving, main, worker

LEMMA ControlUnchanged ==
  ASSUME Control, UNCHANGED <<main, worker>>
  PROVE  Control'
BY DEF Control, main, worker

-----------------------------------------------------------------------------
(* Arrivals come before any step of any thread.                            *)
LEMMA ConnectStep ==
  ASSUME IInv, NEW c \in Clients, Connect(c)
  PROVE  IInv'
<1>1. /\ KernelInv(Descriptors)'
      /\ Range(rdy') = Range(rdy) \cup {listenfd}
      /\ \A e \in Clients \ {c} : sock'[e] = sock[e]
      /\ \A d \in Fds : owner[d] # c
      /\ owner' = owner
  BY ConnectsInv, DescriptorsHold DEF IInv, Connect
<1>2. UNCHANGED <<main, worker, interest>>
  BY DEF Connect
<1>3. \A d \in Fds : owner[d] # NoClient => Readable(owner[d])' = Readable(owner[d])
  <2>1. \A d \in Fds : owner[d] # NoClient => owner[d] \in Clients \ {c}
    BY <1>1 DEF IInv, KernelInv, KernelTypeOK
  <2> QED BY <1>1, <2>1 DEF Readable, Unread
<1>4. Interests'
  BY <1>1, <1>2, <1>3, DescriptorsFacts DEF IInv, Interests
<1> QED BY <1>1, <1>2, <1>4, HandsUnchanged, ControlUnchanged DEF IInv

LEMMA ArrivalStep ==
  ASSUME IInv, NEW c \in Clients, Send(c) \/ Leave(c) \/ Reset(c)
  PROVE  IInv'
<1>1. /\ KernelInv(Descriptors)'
      /\ Range(rdy') = Range(rdy) \cup {d \in Armed : owner[d] = c}
      /\ \A e \in Clients \ {c} : sock'[e] = sock[e]
      /\ owner' = owner
  <2>1. Armed \in SUBSET Fds
    BY DEF Armed
  <2>2. Sends(c, Armed) \/ Leaves(c, Armed) \/ Resets(c, Armed)
    BY DEF Send, Leave, Reset
  <2> QED BY <2>1, <2>2, ArrivesInv, DescriptorsHold DEF IInv
<1>2. UNCHANGED <<main, worker, interest>>
  BY DEF Send, Leave, Reset
<1>3. ASSUME NEW d \in Fds, owner[d] # NoClient, owner[d] # c
      PROVE  Readable(owner[d])' = Readable(owner[d])
  <2>1. sock'[owner[d]] = sock[owner[d]]
    BY <1>1, <1>3 DEF IInv, KernelInv, KernelTypeOK
  <2> QED BY <1>1, <2>1 DEF Readable, Unread
<1>4. Interests'
  <2>1. ASSUME NEW d \in Fds, interest[d] = "armed", Readable(owner[d])'
        PROVE  d \in Range(rdy')
    <3>1. CASE owner[d] = c
      BY <1>1, <2>1, <3>1 DEF Armed
    <3>2. CASE owner[d] # c
      <4>1. owner[d] # NoClient
        BY <2>1 DEF IInv, Interests
      <4> QED BY <1>1, <1>3, <2>1, <3>2, <4>1 DEF IInv, Interests
    <3> QED BY <3>1, <3>2
  <2>2. \A d \in Range(rdy') : d \in Fds => interest[d] = "armed"
    BY <1>1 DEF IInv, Interests, Armed
  <2> QED BY <1>1, <1>2, <2>1, <2>2 DEF IInv, Interests
<1> QED BY <1>1, <1>2, <1>4, HandsUnchanged, ControlUnchanged DEF IInv

-----------------------------------------------------------------------------
(* epoll_wait moves what it reports from the list to the events, disarmed. *)
LEMMA EpollWaitStep ==
  ASSUME IInv, EpollWait
  PROVE  IInv'
<1> USE DEF IInv
<1>1. /\ pc = "wait" /\ pc' = "loop"
      /\ events' \in Kept(rdy, Pending)
      /\ rdy' = <<>> /\ interest' = Disarmed
      /\ UNCHANGED <<slot, wpc, sockfd, owner, backlog, sock>>
  BY DEF EpollWait, worker
<1>2. rdy \in Seq(Descriptors) /\ IsInjective(rdy)
  BY DEF KernelInv, KernelTypeOK
<1>3. /\ events' \in Seq(Descriptors) /\ IsInjective(events')
      /\ Range(events') = Pending
  <2>1. Range(events') = Range(rdy) \cap Pending
    BY <1>1, <1>2, KeptType
  <2> QED BY <1>1, <1>2, <2>1, KeptType DEF Pending
<1>4. Range(rdy') = {} /\ rdy' \in Seq(Descriptors) /\ IsInjective(rdy')
  BY <1>1 DEF Range, IsInjective
<1>5. Range(events) = {}
  <2>1. events = <<>>
    BY <1>1 DEF Control
  <2> QED BY <2>1 DEF Range
<1>6. /\ interest' \in [Fds -> {"absent", "armed", "disarmed"}]
      /\ \A d \in Fds :
           interest'[d] = IF d \in Pending THEN "disarmed" ELSE interest[d]
      /\ \A d \in Pending : d \in Range(rdy)
      /\ \A d \in Pending : d \in Fds => interest[d] = "armed"
  BY <1>1 DEF Disarmed, Interests, Pending
<1>7. Control'
  BY <1>1, <1>3 DEF Control
<1>8. KernelInv(Descriptors)'
  BY <1>1, <1>4 DEF KernelInv, KernelTypeOK, Owned, Waiting, Listed, Errors
<1>9. Interests'
  <2>1. ASSUME NEW d \in Fds, interest'[d] = "armed", Readable(owner[d])'
        PROVE  FALSE
    <3>1. interest[d] = "armed" /\ d \notin Pending
      BY <1>6, <2>1
    <3>2. Readable(owner[d])
      BY <1>1, <2>1 DEF Readable, Unread
    <3> QED BY <3>1, <3>2, DescriptorsFacts DEF Interests, Pending, HasEvent
  <2>2. \A d \in Fds : interest'[d] = "absent" <=> owner[d] = NoClient
    BY <1>6 DEF Interests
  <2> QED BY <1>1, <1>4, <1>6, <2>1, <2>2 DEF Interests
<1>10. RaceFree'
  <2> SUFFICES ASSUME ~ArgRace PROVE Hands' /\ OneWorkerPerSocket' /\ Held'
    BY DEF RaceFree
  <2>1. Hands /\ OneWorkerPerSocket /\ Held
    BY DEF RaceFree
  <2>2. OneWorkerPerSocket'
    BY <1>1, <2>1 DEF OneWorkerPerSocket, Serving
  <2>3. Hands'
    BY <1>1, <1>3, <1>6, <2>1 DEF Hands, Serving
  <2>4. Held'
    BY <1>1, <1>3, <1>5, <1>6, <2>1 DEF Held, InHand, Serving
  <2> QED BY <2>2, <2>3, <2>4
<1> QED BY <1>7, <1>8, <1>9, <1>10

LEMMA IdleStep ==
  ASSUME IInv, EpollFailure \/ EndOfEvents \/ UNCHANGED vars
  PROVE  IInv'
<1>1. UNCHANGED <<events, slot, wpc, sockfd, interest, kernel>> /\ pc' \in {pc, "exited", "wait"}
  BY DEF EpollFailure, EndOfEvents, vars, main, worker, epoll
<1>2. pc' = "wait" => events = <<>>
  BY DEF IInv, Control, EpollFailure, EndOfEvents, vars, main
<1>3. KernelInv(Descriptors)'
  BY <1>1, KernelUnchanged DEF IInv
<1>4. Control'
  BY <1>1, <1>2 DEF IInv, Control
<1>5. Interests' /\ RaceFree'
  BY <1>1 DEF IInv, Interests, kernel, Readable, Unread,
              RaceFree, Hands, OneWorkerPerSocket, Held, InHand, Serving
<1> QED BY <1>3, <1>4, <1>5 DEF IInv

(* accept, and addfd of the new descriptor, armed.                         *)
LEMMA AcceptStep ==
  ASSUME IInv, Accept
  PROVE  IInv'
<1> USE DEF IInv
<1>1. /\ KernelInv(Descriptors)'
      /\ LowestFree \in Fds /\ owner[LowestFree] = NoClient
      /\ backlog # <<>> /\ Head(backlog) \in Clients
      /\ owner' = [owner EXCEPT ![LowestFree] = Head(backlog)]
      /\ Range(rdy') = Range(rdy) \cup
           (IF Readable(Head(backlog)) THEN {LowestFree} ELSE {})
      /\ UNCHANGED sock
  BY AcceptsInv, DescriptorsHold DEF Accept
<1>2. interest' = [interest EXCEPT ![LowestFree] = "armed"]
  BY DEF Accept, Arms
<1>3. PICK d \in Fds, c \in Clients :
        /\ owner[d] = NoClient
        /\ owner' = [owner EXCEPT ![d] = c]
        /\ Range(rdy') = Range(rdy) \cup (IF Readable(c) THEN {d} ELSE {})
        /\ interest' = [interest EXCEPT ![d] = "armed"]
        /\ UNCHANGED sock
  BY <1>1, <1>2
<1>4. /\ events # <<>> /\ Head(events) = listenfd /\ events' = Tail(events)
      /\ UNCHANGED <<pc, wpc, sockfd>>
      /\ slot' \in {slot, Garbage} /\ (~ArgRace => slot' = slot)
      /\ pc = "loop"
  BY DEF Accept, AtEvent, worker, ScopeReused
<1>5. /\ events' \in Seq(Descriptors) /\ IsInjective(events')
      /\ Range(events') = Range(events) \ {listenfd}
  BY <1>4, NextEvent
<1>6. Control'
  BY <1>4, <1>5 DEF Control
<1>7. /\ owner'[d] = c /\ c # NoClient
      /\ \A e \in Fds \ {d} : owner'[e] = owner[e]
  BY <1>3, DescriptorsFacts DEF KernelInv, KernelTypeOK
<1>8. /\ interest' \in [Fds -> {"absent", "armed", "disarmed"}]
      /\ interest'[d] = "armed" /\ interest[d] = "absent"
      /\ \A e \in Fds \ {d} : interest'[e] = interest[e]
  BY <1>3 DEF Interests
<1>9. Interests'
  <2>1. ASSUME NEW e \in Fds, interest'[e] = "armed", Readable(owner[e])'
        PROVE  e \in Range(rdy')
    <3>1. CASE e = d
      <4>1. Readable(c)
        BY <1>3, <1>7, <2>1, <3>1 DEF Readable, Unread
      <4> QED BY <1>3, <3>1, <4>1
    <3>2. CASE e # d
      <4>1. Readable(owner[e])
        BY <1>3, <1>7, <2>1, <3>2 DEF Readable, Unread
      <4> QED BY <1>3, <1>8, <2>1, <3>2, <4>1 DEF Interests
    <3> QED BY <3>1, <3>2
  <2>2. \A e \in Fds : interest'[e] = "absent" <=> owner'[e] = NoClient
    BY <1>7, <1>8 DEF Interests
  <2>3. \A e \in Range(rdy') : e \in Fds => interest'[e] = "armed"
    BY <1>3, <1>8 DEF Interests
  <2> QED BY <1>8, <2>1, <2>2, <2>3 DEF Interests
<1>10. RaceFree'
  <2> SUFFICES ASSUME ~ArgRace PROVE Hands' /\ OneWorkerPerSocket' /\ Held'
    BY DEF RaceFree
  <2>1. Hands /\ OneWorkerPerSocket /\ Held
    BY DEF RaceFree
  <2>2. slot' = slot
    BY <1>4
  <2>3. OneWorkerPerSocket'
    BY <1>4, <2>1 DEF OneWorkerPerSocket, Serving
  <2>4. Hands'
    BY <1>4, <1>5, <1>8, <2>1, <2>2 DEF Hands, Serving
  <2>5. Held'
    <3> SUFFICES ASSUME NEW v \in Workers, wpc'[v] = "none",
                        NEW e \in Fds, interest'[e] = "disarmed"
                 PROVE  InHand(e)'
      BY DEF Held
    <3>1. InHand(e)
      BY <1>4, <1>8, <2>1 DEF Held
    <3> QED BY <1>4, <1>5, <2>2, <3>1, DescriptorsFacts DEF InHand, Serving
  <2> QED BY <2>3, <2>4, <2>5
<1> QED BY <1>1, <1>6, <1>9, <1>10

LEMMA AcceptFailsStep ==
  ASSUME IInv, AcceptFails
  PROVE  IInv'
<1> USE DEF IInv
<1>1. /\ events # <<>> /\ Head(events) = listenfd /\ events' = Tail(events)
      /\ UNCHANGED <<pc, wpc, sockfd, interest, kernel>>
      /\ slot' \in {slot, Garbage} /\ (~ArgRace => slot' = slot)
      /\ pc = "loop"
  BY DEF AcceptFails, AtEvent, worker, epoll, ScopeReused
<1>2. /\ events' \in Seq(Descriptors) /\ IsInjective(events')
      /\ Range(events') = Range(events) \ {listenfd}
  BY <1>1, NextEvent
<1>3. Control'
  BY <1>1, <1>2 DEF Control
<1>4. KernelInv(Descriptors)'
  BY <1>1, KernelUnchanged
<1>5. Interests'
  BY <1>1 DEF Interests, kernel, Readable, Unread
<1>6. RaceFree'
  <2> SUFFICES ASSUME ~ArgRace PROVE Hands' /\ OneWorkerPerSocket' /\ Held'
    BY DEF RaceFree
  <2>1. Hands /\ OneWorkerPerSocket /\ Held
    BY DEF RaceFree
  <2>2. slot' = slot
    BY <1>1
  <2>3. OneWorkerPerSocket'
    BY <1>1, <2>1 DEF OneWorkerPerSocket, Serving
  <2>4. Hands'
    BY <1>1, <1>2, <2>1, <2>2 DEF Hands, Serving
  <2>5. Held'
    BY <1>1, <1>2, <2>1, <2>2, DescriptorsFacts DEF Held, InHand, Serving
  <2> QED BY <2>3, <2>4, <2>5
<1> QED BY <1>3, <1>4, <1>5, <1>6

(* A reported descriptor passes from main, by way of the slot, to a thread *)
(* of its own: no other is on its way, as each reads its argument first.   *)
LEMMA StartStep ==
  ASSUME IInv, StartWorker \/ StartFails
  PROVE  IInv'
<1> USE DEF IInv
<1>1. /\ events # <<>> /\ Head(events) # listenfd /\ events' = Tail(events)
      /\ slot' = Head(events)
      /\ UNCHANGED <<pc, sockfd, interest, kernel>>
      /\ pc = "loop" /\ ArgumentTaken
  BY DEF StartWorker, StartFails, AtEvent, worker, epoll
<1>2. /\ events' \in Seq(Descriptors) /\ IsInjective(events')
      /\ Range(events') = Range(events) \ {slot'}
      /\ slot' \in Fds /\ slot' \in Range(events)
  BY <1>1, NextEvent, DescriptorsHold
<1>3. \/ \E w \in Workers : wpc[w] = "none" /\ wpc' = [wpc EXCEPT ![w] = "start"]
      \/ wpc' = wpc /\ \A w \in Workers : wpc[w] # "none"
  BY DEF StartWorker, StartFails, worker
<1>4. \A w \in Workers :
        \/ wpc'[w] = wpc[w]
        \/ wpc[w] = "none" /\ wpc'[w] = "start"
  BY <1>3 DEF Control
<1>5. wpc' \in [Workers -> {"none", "start", "recv", "eof", "eagain", "ended"}]
  BY <1>3 DEF Control
<1>6. Control'
  BY <1>1, <1>2, <1>4, <1>5 DEF Control
<1>7. KernelInv(Descriptors)'
  BY <1>1, KernelUnchanged
<1>8. Interests'
  BY <1>1 DEF Interests, kernel, Readable, Unread
<1>9. RaceFree'
  <2> SUFFICES ASSUME ~ArgRace PROVE Hands' /\ OneWorkerPerSocket' /\ Held'
    BY DEF RaceFree
  <2>1. /\ Hands /\ OneWorkerPerSocket /\ Held
        /\ \A w \in Workers : wpc[w] # "start"
    BY <1>1 DEF RaceFree, ArgumentTaken
  <2>2. \A w \in Workers : Serving(w)' = Serving(w)
    BY <1>4 DEF Serving
  <2>3. OneWorkerPerSocket'
    BY <1>1, <2>1, <2>2 DEF OneWorkerPerSocket
  <2>4. \A v, w \in Workers : wpc'[v] = "start" /\ wpc'[w] = "start" => v = w
    BY <1>3, <1>4, <2>1 DEF Control
  <2>5. \A d \in Range(events') : d \in Fds => interest'[d] = "disarmed"
    BY <1>1, <1>2, <2>1 DEF Hands
  <2>6. interest'[slot'] = "disarmed" /\ slot' \notin Range(events')
    BY <1>1, <1>2, <2>1 DEF Hands
  <2>7. \A w \in Workers : Serving(w) =>
          /\ sockfd[w] \in Fds /\ interest[sockfd[w]] = "disarmed"
          /\ sockfd[w] \notin Range(events)
    BY <2>1 DEF Hands
  <2>8. Hands'
    BY <1>1, <1>2, <2>2, <2>4, <2>5, <2>6, <2>7 DEF Hands
  <2>9. Held'
    <3> SUFFICES ASSUME NEW v \in Workers, wpc'[v] = "none",
                        NEW d \in Fds, interest'[d] = "disarmed"
                 PROVE  InHand(d)'
      BY DEF Held
    <3>1. PICK w \in Workers : wpc[w] = "none" /\ wpc' = [wpc EXCEPT ![w] = "start"]
      BY <1>3
    <3>2. wpc'[w] = "start"
      BY <3>1 DEF Control
    <3>3. InHand(d)
      BY <1>1, <2>1, <3>1 DEF Held
    <3>4. CASE d = slot'
      BY <3>2, <3>4 DEF InHand
    <3>5. CASE d # slot'
      BY <1>1, <1>2, <2>1, <2>2, <3>3, <3>5 DEF InHand
    <3> QED BY <3>4, <3>5
  <2> QED BY <2>3, <2>8, <2>9
<1> QED BY <1>6, <1>7, <1>8, <1>9

-----------------------------------------------------------------------------
LEMMA ReadArgumentStep ==
  ASSUME IInv, NEW w \in Workers, ReadArgument(w)
  PROVE  IInv'
<1> USE DEF IInv
<1>1. /\ wpc[w] = "start"
      /\ sockfd' = [sockfd EXCEPT ![w] = slot]
      /\ wpc' = [wpc EXCEPT ![w] = "recv"]
      /\ UNCHANGED <<pc, events, slot, interest, kernel>>
  BY DEF ReadArgument, main, epoll
<1>2. /\ wpc' \in [Workers -> {"none", "start", "recv", "eof", "eagain", "ended"}]
      /\ sockfd' \in [Workers -> Fds \cup {Garbage}]
      /\ wpc'[w] = "recv" /\ sockfd'[w] = slot
      /\ \A v \in Workers \ {w} : wpc'[v] = wpc[v] /\ sockfd'[v] = sockfd[v]
  BY <1>1 DEF Control
<1>3. Control'
  BY <1>1, <1>2 DEF Control
<1>4. KernelInv(Descriptors)'
  BY <1>1, KernelUnchanged
<1>5. Interests'
  BY <1>1 DEF Interests, kernel, Readable, Unread
<1>6. RaceFree'
  <2> SUFFICES ASSUME ~ArgRace PROVE Hands' /\ OneWorkerPerSocket' /\ Held'
    BY DEF RaceFree
  <2>1. Hands /\ OneWorkerPerSocket /\ Held
    BY DEF RaceFree
  <2>2. /\ Serving(w)' /\ ~Serving(w)
        /\ \A v \in Workers \ {w} : Serving(v)' = Serving(v) /\ wpc'[v] # "start"
    BY <1>1, <1>2, <2>1 DEF Serving, Hands
  <2>3. OneWorkerPerSocket'
    BY <1>1, <1>2, <2>1, <2>2 DEF OneWorkerPerSocket, Hands
  <2>4. Hands'
    BY <1>1, <1>2, <2>1, <2>2 DEF Hands
  <2>5. Held'
    <3> SUFFICES ASSUME NEW v \in Workers, wpc'[v] = "none",
                        NEW d \in Fds, interest'[d] = "disarmed"
                 PROVE  InHand(d)'
      BY DEF Held
    <3>1. InHand(d)
      BY <1>1, <1>2, <2>1 DEF Held
    <3> QED BY <1>1, <1>2, <2>1, <2>2, <3>1 DEF InHand, Hands
  <2> QED BY <2>3, <2>4, <2>5
<1> QED BY <1>3, <1>4, <1>5, <1>6

(* What a thread reads, or the error it takes, makes nothing readable.     *)
LEMMA RecvStep ==
  ASSUME IInv, NEW w \in Workers, RecvData(w) \/ RecvError(w)
  PROVE  IInv'
<1> USE DEF IInv
<1>1. UNCHANGED <<main, worker, interest, rdy, owner>>
  BY DEF RecvData, RecvError, Receives
<1>2. Conn(w) \in Clients
  BY DEF RecvData, RecvError, HasData, HasError, Conn, KernelInv, KernelTypeOK
<1>3. PICK c \in Clients : c = Conn(w)
  BY <1>2
<1>4. /\ KernelInv(Descriptors)'
      /\ \A e \in Clients \ {c} : sock'[e] = sock[e]
      /\ Readable(c)' => Readable(c)
  <2>1. CASE RecvData(w)
    <3>1. Receives(c, BUFFER_SIZE) /\ HasData(c)
      BY <1>3, <2>1 DEF RecvData
    <3> QED BY <3>1, ReceivesInv, OneShotAssumption DEF HasData, Readable
  <2>2. CASE RecvError(w)
    <3> DEFINE s == [sock[c] EXCEPT !.err = "none"]
    <3>1. sock \in [Clients -> Socket]
      BY DEF KernelInv, KernelTypeOK
    <3>2. sock' = [sock EXCEPT ![c] = s] /\ UNCHANGED <<owner, rdy, backlog>>
      BY <1>3, <2>2, <3>1 DEF RecvError
    <3>3. /\ s \in Socket /\ s.err = "none" /\ s.peer = sock[c].peer
          /\ s.read = sock[c].read /\ s.sent = sock[c].sent
      BY <3>1 DEF Socket
    <3> HIDE DEF s
    <3>4. s.read <= s.sent
      BY <3>3, SocketFacts DEF KernelInv
    <3>5. /\ rdy' \in Seq(Descriptors) /\ IsInjective(rdy')
          /\ \A d \in Range(rdy') : d \in Fds => owner[d] # NoClient
      BY <3>2 DEF KernelInv, KernelTypeOK, Listed
    <3>6. KernelInv(Descriptors)'
      BY <3>2, <3>3, <3>4, <3>5, SocketStep
    <3>7. sock'[c] = s /\ \A e \in Clients \ {c} : sock'[e] = sock[e]
      BY <3>1, <3>2
    <3> QED BY <3>3, <3>6, <3>7 DEF Readable, Unread
  <2> QED BY <2>1, <2>2
<1>5. Interests'
  <2>1. ASSUME NEW d \in Fds, interest[d] = "armed", Readable(owner[d])'
        PROVE  Readable(owner[d])
    <3>1. owner[d] \in Clients
      BY <2>1 DEF Interests, KernelInv, KernelTypeOK
    <3>2. CASE owner[d] = c
      <4>1. Readable(c)'
        BY <1>1, <2>1, <3>2 DEF Readable, Unread
      <4> QED BY <1>4, <3>2, <4>1
    <3>3. CASE owner[d] # c
      BY <1>1, <1>4, <2>1, <3>1, <3>3 DEF Readable, Unread
    <3> QED BY <3>2, <3>3
  <2> QED BY <1>1, <2>1 DEF Interests
<1> QED BY <1>1, <1>4, <1>5, HandsUnchanged, ControlUnchanged

LEMMA RecvNothingStep ==
  ASSUME IInv, NEW w \in Workers, RecvNothing(w)
  PROVE  IInv'
<1> USE DEF IInv
<1>1. /\ wpc[w] = "recv" /\ sockfd[w] \in Fds
      /\ UNCHANGED <<pc, events, slot, sockfd, interest, kernel>>
  BY DEF RecvNothing, Receiving, HasNothing, Conn, main, epoll
<1>2. /\ wpc' \in [Workers -> {"none", "start", "recv", "eof", "eagain", "ended"}]
      /\ wpc'[w] \in {"eof", "eagain"}
      /\ \A v \in Workers \ {w} : wpc'[v] = wpc[v]
  BY DEF RecvNothing, Control
<1>3. Control'
  BY <1>1, <1>2 DEF Control
<1>4. KernelInv(Descriptors)'
  BY <1>1, KernelUnchanged
<1>5. Interests'
  BY <1>1 DEF Interests, kernel, Readable, Unread
<1>6. \A v \in Workers :
        /\ Serving(v)' = Serving(v)
        /\ (wpc'[v] = "start") = (wpc[v] = "start")
        /\ (wpc'[v] = "none") = (wpc[v] = "none")
  BY <1>1, <1>2 DEF Serving
<1>7. RaceFree'
  BY <1>1, <1>6 DEF RaceFree, Hands, OneWorkerPerSocket, Held, InHand
<1> QED BY <1>3, <1>4, <1>5, <1>7

(* A thread lets go of its descriptor, which nobody else has: armed again, *)
(* and looked at ...                                                       *)
LEMMA LetsGo ==
  ASSUME IInv, ~ArgRace, NEW w \in Workers, Serving(w),
         wpc' = [wpc EXCEPT ![w] = "ended"],
         NEW i \in {"armed", "absent"},
         interest' = [interest EXCEPT ![sockfd[w]] = i],
         UNCHANGED <<main, sockfd>>
  PROVE  Hands' /\ OneWorkerPerSocket' /\ Held'
<1>1. Hands /\ OneWorkerPerSocket /\ Held /\ Control /\ Interests
  BY DEF IInv, RaceFree
<1>2. PICK d \in Fds : d = sockfd[w]
  BY <1>1 DEF Hands
<1>3. /\ ~Serving(w)' /\ wpc'[w] = "ended"
      /\ \A v \in Workers \ {w} : wpc'[v] = wpc[v] /\ Serving(v)' = Serving(v)
  BY <1>1 DEF Control, Serving
<1>4. /\ interest'[d] # "disarmed"
      /\ \A e \in Fds \ {d} : interest'[e] = interest[e]
  BY <1>1, <1>2 DEF Interests
<1>5. UNCHANGED <<events, slot, sockfd>>
  BY DEF main
<1>6. \A v \in Workers \ {w} : Serving(v) => sockfd[v] # d
  BY <1>1, <1>2 DEF OneWorkerPerSocket
<1>7. OneWorkerPerSocket'
  BY <1>1, <1>3, <1>5 DEF OneWorkerPerSocket
<1>8. Hands'
  BY <1>1, <1>2, <1>3, <1>4, <1>5, <1>6 DEF Hands
<1>9. Held'
  <2> SUFFICES ASSUME NEW v \in Workers, wpc'[v] = "none",
                      NEW e \in Fds, interest'[e] = "disarmed"
               PROVE  InHand(e)'
    BY DEF Held
  <2>1. e # d /\ InHand(e)
    BY <1>1, <1>3, <1>4 DEF Held
  <2> QED BY <1>2, <1>3, <1>5, <2>1 DEF InHand, Serving
<1> QED BY <1>7, <1>8, <1>9

LEMMA ResetOneshotStep ==
  ASSUME IInv, NEW w \in Workers, ResetOneshot(w)
  PROVE  IInv'
<1> USE DEF IInv
<1>1. /\ wpc[w] = "eagain" /\ Serving(w)
      /\ wpc' = [wpc EXCEPT ![w] = "ended"]
      /\ UNCHANGED <<main, sockfd, owner, backlog, sock>>
  BY DEF ResetOneshot, Serving
<1>2. PICK d \in Fds : d = sockfd[w]
  BY <1>1 DEF Control
<1>3. CASE interest[d] = "absent"
  <2>1. UNCHANGED <<interest, rdy>>
    BY <1>2, <1>3 DEF ResetOneshot
  <2>2. Control'
    BY <1>1 DEF Control, main
  <2>3. KernelInv(Descriptors)' /\ Interests'
    <3>1. UNCHANGED kernel
      BY <1>1, <2>1 DEF kernel
    <3> QED BY <1>1, <2>1, <3>1, KernelUnchanged DEF Interests, Readable, Unread
  <2>4. ArgRace
    BY <1>1, <1>2, <1>3 DEF RaceFree, Hands
  <2> QED BY <2>2, <2>3, <2>4 DEF RaceFree
<1>4. CASE interest[d] # "absent"
  <2>1. /\ interest' = [interest EXCEPT ![d] = "armed"]
        /\ rdy' = IF Readable(owner[d]) THEN Queued(rdy, d) ELSE rdy
    BY <1>2, <1>4 DEF ResetOneshot, Arms, Look, Conn
  <2>2. /\ rdy' \in Seq(Descriptors) /\ IsInjective(rdy')
        /\ Range(rdy') = Range(rdy) \cup (IF Readable(owner[d]) THEN {d} ELSE {})
    <3>1. rdy \in Seq(Descriptors) /\ IsInjective(rdy) /\ d \in Descriptors
      BY DescriptorsHold DEF KernelInv, KernelTypeOK
    <3>2. CASE Readable(owner[d])
      BY <2>1, <3>1, <3>2, QueuedType
    <3>3. CASE ~Readable(owner[d])
      BY <2>1, <3>1, <3>3
    <3> QED BY <3>2, <3>3
  <2>3. owner[d] # NoClient
    BY <1>4 DEF Interests
  <2>4. KernelInv(Descriptors)'
    <3>1. Listed'
      BY <1>1, <2>2, <2>3 DEF KernelInv, Listed
    <3> QED BY <1>1, <2>2, <3>1 DEF KernelInv, KernelTypeOK, Owned, Waiting, Errors
  <2>5. Control'
    BY <1>1 DEF Control, main
  <2>6. /\ interest' \in [Fds -> {"absent", "armed", "disarmed"}]
        /\ interest'[d] = "armed"
        /\ \A e \in Fds \ {d} : interest'[e] = interest[e]
    BY <2>1 DEF Interests
  <2>7. \A e \in Fds : Readable(owner[e])' = Readable(owner[e])
    BY <1>1 DEF Readable, Unread
  <2>8. Interests'
    <3>1. ASSUME NEW e \in Fds, interest'[e] = "armed", Readable(owner[e])
          PROVE  e \in Range(rdy')
      BY <2>2, <2>6, <3>1 DEF Interests
    <3>2. \A e \in Fds : interest'[e] = "absent" <=> owner'[e] = NoClient
      BY <1>1, <2>3, <2>6 DEF Interests
    <3>3. \A e \in Range(rdy') : e \in Fds => interest'[e] = "armed"
      BY <2>2, <2>6 DEF Interests
    <3> QED BY <2>6, <2>7, <3>1, <3>2, <3>3 DEF Interests
  <2>9. RaceFree'
    BY <1>1, <1>2, <2>1, LetsGo DEF RaceFree
  <2> QED BY <2>4, <2>5, <2>8, <2>9
<1> QED BY <1>3, <1>4

(* ... or closed.                                                          *)
LEMMA CloseStep ==
  ASSUME IInv, NEW w \in Workers, Close(w)
  PROVE  IInv'
<1> USE DEF IInv
<1>1. /\ wpc[w] = "eof" /\ Serving(w)
      /\ wpc' = [wpc EXCEPT ![w] = "ended"]
      /\ Closes(sockfd[w])
      /\ interest' = [interest EXCEPT ![sockfd[w]] = "absent"]
      /\ UNCHANGED <<main, sockfd>>
  BY DEF Close, Serving
<1>2. PICK d \in Fds : d = sockfd[w]
  BY <1>1 DEF Control
<1>3. /\ KernelInv(Descriptors)'
      /\ owner'[d] = NoClient
      /\ \A e \in Fds \ {d} : owner'[e] = owner[e]
      /\ \A c \in Clients : c # owner[d] => sock'[c] = sock[c]
      /\ Range(rdy') = Range(rdy) \ {d}
  BY <1>1, <1>2, ClosesInv
<1>4. Control'
  BY <1>1 DEF Control, main
<1>5. /\ interest' \in [Fds -> {"absent", "armed", "disarmed"}]
      /\ interest'[d] = "absent"
      /\ \A e \in Fds \ {d} : interest'[e] = interest[e]
  BY <1>1, <1>2 DEF Interests
<1>6. Interests'
  <2>1. ASSUME NEW e \in Fds, interest'[e] = "armed", Readable(owner[e])'
        PROVE  e \in Range(rdy')
    <3>1. e # d /\ interest[e] = "armed"
      BY <1>5, <2>1
    <3>2. owner[e] \in Clients /\ owner[e] # owner[d]
      BY <3>1 DEF Interests, KernelInv, KernelTypeOK, Owned
    <3>3. Readable(owner[e])
      BY <1>3, <2>1, <3>1, <3>2 DEF Readable, Unread
    <3> QED BY <1>3, <3>1, <3>3 DEF Interests
  <2>2. \A e \in Fds : interest'[e] = "absent" <=> owner'[e] = NoClient
    BY <1>3, <1>5 DEF Interests
  <2>3. \A e \in Range(rdy') : e \in Fds => interest'[e] = "armed"
    BY <1>3, <1>5 DEF Interests
  <2> QED BY <1>5, <2>1, <2>2, <2>3 DEF Interests
<1>7. RaceFree'
  BY <1>1, LetsGo DEF RaceFree
<1> QED BY <1>3, <1>4, <1>6, <1>7

-----------------------------------------------------------------------------
LEMMA NextInv == IInv /\ [Next]_vars => IInv'
<1> SUFFICES ASSUME IInv, [Next]_vars PROVE IInv'
  OBVIOUS
<1>1. CASE EpollWait
  BY <1>1, EpollWaitStep
<1>2. CASE EndOfEvents \/ EpollFailure \/ UNCHANGED vars
  BY <1>2, IdleStep
<1>3. CASE Accept \/ AcceptFails
  BY <1>3, AcceptStep, AcceptFailsStep
<1>4. CASE StartWorker \/ StartFails
  BY <1>4, StartStep
<1>5. ASSUME NEW c \in Clients, Connect(c) \/ Send(c) \/ Leave(c) \/ Reset(c)
      PROVE  IInv'
  BY <1>5, ConnectStep, ArrivalStep
<1>6. ASSUME NEW w \in Workers, WorkerStep(w)
      PROVE  IInv'
  BY <1>6, ReadArgumentStep, RecvStep, RecvNothingStep, ResetOneshotStep, CloseStep
     DEF WorkerStep
<1> QED BY <1>1, <1>2, <1>3, <1>4, <1>5, <1>6 DEF Next, MainStep, ClientStep

-----------------------------------------------------------------------------
(* The inductive invariant holds in every reachable state.                 *)
THEOREM Invariance == Spec => []IInv
BY InitInv, NextInv, PTL DEF Spec

(* Whether or not main overtakes its threads, the state of the threads and *)
(* of the kernel stays within its types; no thread acts on a number that   *)
(* is no descriptor except by the race for its argument (lines 159-164).   *)
THEOREM TypeCorrect == Spec => []TypeOK
<1>1. IInv => TypeOK
  <2> SUFFICES ASSUME IInv PROVE TypeOK
    OBVIOUS
  <2>1. ArgRace \/ \A w \in Workers : wpc[w] \in {"recv", "eof", "eagain"} => sockfd[w] \in Fds
    BY DEF IInv, RaceFree, Hands, Serving
  <2> QED BY <2>1 DEF IInv, Control, KernelInv, Interests, TypeOK, Descriptors
<1> QED BY <1>1, Invariance, PTL

(* EPOLLONESHOT does what it is there for if each thread has read its      *)
(* argument before main goes on: no two threads serve one socket.          *)
THEOREM OneThreadPerSocket ==
  ASSUME ~ArgRace
  PROVE  Spec => []OneWorkerPerSocket
<1>1. IInv => OneWorkerPerSocket
  BY DEF IInv, RaceFree
<1> QED BY <1>1, Invariance, PTL

(* Nothing that arrives while a thread is between EAGAIN and reset_oneshot *)
(* is forgotten: modifying the registration looks at the socket again.     *)
THEOREM NoWakeupIsLost ==
  ASSUME ~ArgRace
  PROVE  Spec => []NoLostWakeup
<1>1. IInv => NoLostWakeup
  <2> SUFFICES ASSUME IInv, NEW v \in Workers, wpc[v] = "none",
                      NEW d \in Fds, owner[d] # NoClient, Readable(owner[d]),
                      d \notin Range(rdy)
               PROVE  InHand(d)
    BY DEF NoLostWakeup, InHand
  <2>1. interest[d] = "disarmed"
    BY DEF IInv, Interests
  <2> QED BY <2>1 DEF IInv, RaceFree, Held
<1> QED BY <1>1, Invariance, PTL

(* A descriptor that a thread serves changes its owner in no step.         *)
LEMMA OwnerStays ==
  ASSUME ~ArgRace, IInv, [Next]_vars, NEW w \in Workers, Serving(w), Serving(w)'
  PROVE  owner'[sockfd[w]] = owner[sockfd[w]]
<1>1. /\ sockfd[w] \in Fds /\ interest[sockfd[w]] = "disarmed"
      /\ owner[sockfd[w]] # NoClient
  BY DEF IInv, RaceFree, Hands, Interests
<1>2. CASE Accept
  <2>1. /\ LowestFree \in Fds /\ owner[LowestFree] = NoClient
        /\ owner' = [owner EXCEPT ![LowestFree] = Head(backlog)]
    BY <1>2, AcceptsInv, DescriptorsHold DEF IInv, Accept
  <2> QED BY <1>1, <2>1 DEF IInv, KernelInv, KernelTypeOK
<1>3. ASSUME NEW v \in Workers, Close(v)
      PROVE  owner'[sockfd[w]] = owner[sockfd[w]]
  <2>1. Serving(v) /\ wpc' = [wpc EXCEPT ![v] = "ended"] /\ Closes(sockfd[v])
    BY <1>3 DEF Close, Serving
  <2>2. v # w
    BY <2>1 DEF Serving, IInv, Control
  <2>3. sockfd[v] \in Fds /\ sockfd[w] # sockfd[v]
    BY <1>1, <2>1, <2>2 DEF IInv, RaceFree, Hands, OneWorkerPerSocket
  <2> QED BY <1>1, <2>1, <2>3, ClosesInv DEF IInv
<1>4. Accept \/ (\E v \in Workers : Close(v)) \/ owner' = owner
  BY DEF Next, MainStep, WorkerStep, ClientStep, vars, epoll, kernel,
         EpollWait, EndOfEvents, AcceptFails, StartWorker, StartFails, EpollFailure,
         Connect, Connects, Send, Sends, Leave, Leaves, Reset, Resets,
         ReadArgument, RecvData, Receives, RecvError, RecvNothing, ResetOneshot
<1> QED BY <1>2, <1>3, <1>4

(* No descriptor is closed, or handed out again, under a thread using it.  *)
THEOREM DescriptorsAreStable ==
  ASSUME ~ArgRace
  PROVE  Spec => DescriptorIsStable
<1> DEFINE Stable == \A w \in Workers :
             Serving(w) /\ Serving(w)' => owner'[sockfd[w]] = owner[sockfd[w]]
<1>1. IInv /\ [Next]_vars => [Stable]_vars
  BY OwnerStays
<1>2. Spec => [][Stable]_vars
  BY <1>1, Invariance, PTL DEF Spec
<1> QED BY <1>2 DEF DescriptorIsStable
=============================================================================
