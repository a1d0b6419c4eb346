-------------------------- MODULE UniteEventProofs --------------------------
(***************************************************************************)
(* Proofs about the unified event source, for every number of clients,     *)
(* descriptors and signals and every size of the socket pair.  The         *)
(* inductive invariant says what the main thread may rely on at each of    *)
(* its steps although the handler runs between any two of them.            *)
(***************************************************************************)
EXTENDS UniteEvent, FiniteSetTheorems, SequenceTheorems, TLAPS

-----------------------------------------------------------------------------
(* The ready list, as in EpollSetProofs, whose other state this program    *)
(* does not have.                                                          *)

(* An event puts its descriptor on the list, once (the epoll callback).    *)
LEMMA QueuedType ==
  ASSUME NEW D, NEW list \in Seq(D), IsInjective(list), NEW d \in D
  PROVE  /\ Queued(list, d) \in Seq(D)
         /\ IsInjective(Queued(list, d))
         /\ Range(Queued(list, d)) = Range(list) \cup {d}
<1>1. CASE d \in Range(list)
  BY <1>1 DEF Queued
<1>2. CASE d \notin Range(list)
  <2>1. Queued(list, d) = Append(list, d)
    BY <1>2 DEF Queued
  <2>2. /\ Append(list, d) \in Seq(D)
        /\ Len(Append(list, d)) = Len(list) + 1
        /\ \A k \in 1 .. Len(list) : Append(list, d)[k] = list[k]
        /\ Append(list, d)[Len(list) + 1] = d
    OBVIOUS
  <2>3. /\ DOMAIN list = 1 .. Len(list) /\ Len(list) \in Nat
        /\ DOMAIN Append(list, d) = 1 .. Len(list) + 1
    BY <2>2, LenProperties
  <2>4. \A k \in 1 .. Len(list) + 1 : k \in 1 .. Len(list) \/ k = Len(list) + 1
    BY <2>3
  <2>5. /\ Len(list) + 1 \in 1 .. Len(list) + 1
        /\ 1 .. Len(list) \subseteq 1 .. Len(list) + 1
    BY <2>3
  <2>6. \A k \in 1 .. Len(list) : list[k] # d
    BY <1>2, <2>3 DEF Range
  <2>7. Range(Append(list, d)) = Range(list) \cup {d}
    BY <2>2, <2>3, <2>4, <2>5, Zenon DEF Range
  <2>8. IsInjective(Append(list, d))
    BY <2>2, <2>3, <2>4, <2>6 DEF IsInjective
  <2> QED BY <2>1, <2>2, <2>7, <2>8
<1> QED BY <1>1, <1>2

(* The entries of a list that are of interest are finitely many.           *)
LEMMA RangeIsFinite ==
  ASSUME NEW D, NEW list \in Seq(D), NEW S
  PROVE  IsFiniteSet(Range(list) \cap S)
<1>1. list \in [1 .. Len(list) -> Range(list)]
  BY DEF Range
<1>2. list \in Surjection(1 .. Len(list), Range(list))
  BY <1>1 DEF Surjection, Range
<1>3. Len(list) \in Nat /\ IsFiniteSet(1 .. Len(list))
  BY LenProperties, FS_Interval
<1>4. IsFiniteSet(Range(list))
  BY <1>2, <1>3, FS_Surjection
<1> QED BY <1>4, FS_Intersection

(* Taking entries off a list without duplicates leaves such a list, with   *)
(* the other entries and no others (epoll_wait; close).                    *)
LEMMA KeptType ==
  ASSUME NEW D, NEW list \in Seq(D), IsInjective(list), NEW S, NEW q \in Kept(list, S)
  PROVE  /\ q \in Seq(D)
         /\ IsInjective(q)
         /\ Range(q) = Range(list) \cap S
<1> DEFINE entries == Range(list) \cap S
           n == Cardinality(entries)
<1>1. n \in Nat
  BY RangeIsFinite, FS_CardinalityType
<1>2. /\ q \in [1 .. n -> entries]
      /\ Range(q) = entries
      /\ \A i, j \in DOMAIN q : i < j => Precedes(list, q[i], q[j])
  BY DEF Kept
<1>3. entries \subseteq D
  BY DEF Range
<1> HIDE DEF n, entries
<1>4. q \in [1 .. n -> D]
  BY <1>2, <1>3
<1>5. q \in Seq(D)
  BY <1>1, <1>4, SeqDef
<1>6. ASSUME NEW i \in DOMAIN q, NEW j \in DOMAIN q, i < j
      PROVE  q[i] # q[j]
  <2>1. PICK k \in DOMAIN list, l \in DOMAIN list :
          k < l /\ list[k] = q[i] /\ list[l] = q[j]
    BY <1>2, <1>6 DEF Precedes
  <2>2. k # l
    BY <2>1
  <2> QED BY <2>1, <2>2 DEF IsInjective
<1>7. ASSUME NEW i \in DOMAIN q, NEW j \in DOMAIN q, q[i] = q[j]
      PROVE  i = j
  BY <1>1, <1>2, <1>6, <1>7
<1>8. IsInjective(q)
  BY <1>7 DEF IsInjective
<1> QED BY <1>2, <1>5, <1>8 DEF entries

(* Handling the first of the reported descriptors leaves the others.       *)
LEMMA TailType ==
  ASSUME NEW D, NEW list \in Seq(D), IsInjective(list), list # <<>>
  PROVE  /\ Head(list) \in D
         /\ Tail(list) \in Seq(D)
         /\ IsInjective(Tail(list))
         /\ Range(Tail(list)) = Range(list) \ {Head(list)}
<1>1. /\ Head(list) = list[1]
      /\ Tail(list) \in Seq(D)
      /\ Len(list) \in Nat \ {0}
      /\ Len(Tail(list)) = Len(list) - 1
      /\ \A i \in 1 .. Len(Tail(list)) : Tail(list)[i] = list[i + 1]
  BY HeadTailProperties, EmptySeq, LenProperties
<1>2. IsInjective(Tail(list))
  BY <1>1 DEF IsInjective
<1>3. Range(Tail(list)) \subseteq Range(list) \ {Head(list)}
  BY <1>1 DEF IsInjective, Range
<1>4. ASSUME NEW d \in Range(list) \ {Head(list)}
      PROVE  d \in Range(Tail(list))
  <2>1. PICK i \in 1 .. Len(list) : list[i] = d
    BY <1>1 DEF Range
  <2>2. i # 1 /\ i - 1 \in 1 .. Len(Tail(list)) /\ Tail(list)[i - 1] = d
    BY <1>1, <1>4, <2>1
  <2>3. DOMAIN Tail(list) = 1 .. Len(Tail(list))
    BY <1>1, LenProperties
  <2> QED BY <2>2, <2>3 DEF Range
<1> QED BY <1>1, <1>2, <1>3, <1>4

-----------------------------------------------------------------------------
(* The program *)

(* Nothing is reported twice in a batch, and what is reported is there.    *)
Batch ==
  /\ IsInjective(rdy)
  /\ IsInjective(events)
  /\ pc = "wait" => events = <<>>
  /\ pc \in {"check", "loop"} =>
       /\ "listenfd" \in Range(events) => backlog > 0
       /\ "pipefd0" \in Range(events) => pipe # <<>>

(* The write end is closed first, and after the loop.                      *)
Ends ==
  /\ InLoop => 1 \in pipefd
  /\ 1 \in pipefd => 0 \in pipefd
  /\ pc \in {"close_pipefd0", "stopped"} => 1 \notin pipefd
  /\ pc # "killed"

(* What may end the loop has a cause.                                      *)
Reasons ==
  /\ stop_server => asked
  /\ \A k \in 1 .. Len(pipe) : pipe[k] \in Stopping => asked
  /\ pc = "check" /\ number = -1 => errno = "EINTR" \/ broken
  /\ ~InLoop /\ pc # "aborted" => asked \/ broken

IInv == TypeOK /\ Batch /\ Ends /\ Reasons /\ Len(pipe) <= delivered

-----------------------------------------------------------------------------
LEMMA InitInv == Init => IInv
<1> SUFFICES ASSUME Init PROVE IInv
  OBVIOUS
<1>1. TypeOK
  <2>1. events \in Seq(Descriptors) /\ rdy \in Seq(Descriptors)
    BY DEF Init
  <2>2. pipe \in Seq(Signals) /\ Len(pipe) <= PIPE_CAPACITY
    BY UniteAssumption DEF Init
  <2>3. /\ backlog \in 0 .. MaxClients
        /\ accepted \in 0 .. FD_LIMIT
        /\ delivered \in 0 .. MaxSignals
    BY UniteAssumption DEF Init
  <2>4. /\ pc = "wait" /\ number = 0 /\ errno = "none" /\ pipefd \subseteq {0, 1}
        /\ stop_server \in BOOLEAN /\ asked \in BOOLEAN /\ broken \in BOOLEAN
    BY DEF Init
  <2> QED BY <2>1, <2>2, <2>3, <2>4 DEF TypeOK
<1>2. Batch /\ Ends /\ Reasons /\ Len(pipe) <= delivered
  BY DEF Init, Batch, Ends, Reasons, InLoop, IsInjective, Range
<1> QED BY <1>1, <1>2 DEF IInv

(* Arrivals put one descriptor more on the ready list.                     *)
LEMMA ArrivalStep ==
  ASSUME IInv, Connect \/ ClientSends
  PROVE  IInv'
<1> USE DEF IInv
<1>1. PICK d \in Descriptors : rdy' = Queued(rdy, d)
  BY DEF Connect, ClientSends, Descriptors
<1>2. rdy' \in Seq(Descriptors) /\ IsInjective(rdy')
  BY <1>1, QueuedType DEF TypeOK, Batch
<1>3. TypeOK'
  <2>1. backlog' \in 0 .. MaxClients
    BY UniteAssumption DEF TypeOK, Connect, ClientSends, net
  <2>2. UNCHANGED <<pc, loop, pipefd, pipe, accepted, history>>
    BY DEF Connect, ClientSends, net
  <2> QED BY <1>2, <2>1, <2>2 DEF TypeOK, loop, history
<1>4. Batch'
  BY <1>2 DEF TypeOK, Batch, Connect, ClientSends, loop, net, history
<1>5. Ends' /\ Reasons' /\ (Len(pipe) <= delivered)'
  BY DEF Ends, Reasons, InLoop, Connect, ClientSends, loop, net, history
<1> QED BY <1>3, <1>4, <1>5

(* What the handler leaves behind in the socket pair and the ready list.   *)
LEMMA ByteSent ==
  ASSUME IInv, NEW sig \in Signals, SendByte(sig), Delivered(sig)
  PROVE  /\ pipe' \in Seq(Signals)
         /\ Len(pipe') <= PIPE_CAPACITY
         /\ Len(pipe') <= delivered'
         /\ pipe # <<>> => pipe' # <<>>
         /\ rdy' \in Seq(Descriptors) /\ IsInjective(rdy')
         /\ delivered' \in 0 .. MaxSignals
         /\ asked' \in BOOLEAN
         /\ asked => asked'
         /\ \A k \in 1 .. Len(pipe') : pipe'[k] \in Stopping => asked'
<1> USE DEF IInv
<1>1. /\ pipe \in Seq(Signals) /\ Len(pipe) \in Nat
      /\ Len(pipe) <= PIPE_CAPACITY /\ PIPE_CAPACITY \in Nat
      /\ rdy \in Seq(Descriptors) /\ IsInjective(rdy)
      /\ delivered \in Nat /\ Len(pipe) <= delivered
      /\ asked \in BOOLEAN
  BY UniteAssumption, LenProperties DEF TypeOK, Batch
<1>2. /\ delivered' = delivered + 1
      /\ delivered' \in 0 .. MaxSignals
      /\ asked' = (asked \/ sig \in Stopping)
  BY <1>1, UniteAssumption DEF Delivered, TypeOK
<1>3. CASE 1 \in pipefd /\ Room
  <2>1. /\ pipe' = Append(pipe, sig) /\ rdy' = Queued(rdy, "pipefd0")
        /\ Len(pipe) < PIPE_CAPACITY
    BY <1>3 DEF SendByte, Room
  <2>2. /\ pipe' \in Seq(Signals)
        /\ Len(pipe') = Len(pipe) + 1
        /\ \A k \in 1 .. Len(pipe') : pipe'[k] = IF k = Len(pipe) + 1 THEN sig ELSE pipe[k]
    BY <1>1, <2>1, AppendProperties
  <2>3. rdy' \in Seq(Descriptors) /\ IsInjective(rdy')
    BY <1>1, <2>1, QueuedType DEF Descriptors
  <2>4. \A k \in 1 .. Len(pipe') : pipe'[k] \in Stopping => asked'
    <3> SUFFICES ASSUME NEW k \in 1 .. Len(pipe'), pipe'[k] \in Stopping
                 PROVE  asked'
      OBVIOUS
    <3>1. CASE k = Len(pipe) + 1
      BY <1>1, <1>2, <2>2, <3>1
    <3>2. CASE k \in 1 .. Len(pipe)
      <4>1. asked
        BY <1>1, <2>2, <3>2 DEF Reasons
      <4> QED BY <1>2, <4>1
    <3> QED BY <1>1, <2>2, <3>1, <3>2
  <2>5. pipe' # <<>>
    BY <1>1, <2>2
  <2> QED BY <1>1, <1>2, <2>1, <2>2, <2>3, <2>4, <2>5
<1>4. CASE ~(1 \in pipefd /\ Room)
  <2>1. pipe' = pipe /\ rdy' = rdy
    BY <1>4 DEF SendByte
  <2> QED BY <1>1, <1>2, <2>1 DEF Reasons
<1> QED BY <1>3, <1>4

(* The handler, between two steps of the main thread or inside epoll_wait. *)
LEMMA HandleStep ==
  ASSUME IInv, NEW sig \in Signals, Handle(sig)
  PROVE  IInv'
<1> USE DEF IInv
<1>1. pipefd # {1}
  BY DEF Ends
<1>2. /\ SendByte(sig) /\ Delivered(sig)
      /\ UNCHANGED <<pc, number, errno, events, stop_server, pipefd, net, broken>>
  BY <1>1 DEF Handle, ErrnoAfter
<1>3. TypeOK'
  BY <1>2, ByteSent DEF TypeOK, net
<1>4. Batch'
  BY <1>2, ByteSent DEF Batch, net
<1>5. Ends' /\ Reasons' /\ (Len(pipe) <= delivered)'
  BY <1>2, ByteSent DEF Ends, Reasons, InLoop
<1> QED BY <1>3, <1>4, <1>5

LEMMA InterruptStep ==
  ASSUME IInv, NEW sig \in Signals, Interrupt(sig)
  PROVE  IInv'
<1> USE DEF IInv
<1>1. /\ SendByte(sig) /\ Delivered(sig)
      /\ pc = "wait" /\ pc' = "check" /\ number' = -1 /\ errno' = "EINTR"
      /\ UNCHANGED <<events, stop_server, pipefd, net, broken>>
  BY DEF Interrupt
<1>2. TypeOK'
  BY <1>1, ByteSent DEF TypeOK, net
<1>3. Range(events) = {}
  BY <1>1 DEF Batch, Range
<1>4. Batch'
  BY <1>1, <1>3, ByteSent DEF Batch
<1>5. Ends' /\ Reasons' /\ (Len(pipe) <= delivered)'
  BY <1>1, ByteSent DEF Ends, Reasons, InLoop
<1> QED BY <1>2, <1>4, <1>5

-----------------------------------------------------------------------------
(* The main thread.  epoll_wait reports only what has an event, ...        *)
LEMMA EpollStep ==
  ASSUME IInv, EpollWait
  PROVE  IInv'
<1> USE DEF IInv
<1>1. events' \in Kept(rdy, Pending)
  BY DEF EpollWait
<1>2. /\ events' \in Seq(Descriptors)
      /\ IsInjective(events')
      /\ Range(events') \subseteq Pending
  BY <1>1, KeptType DEF TypeOK, Batch
<1>3. rdy' = <<>> /\ rdy' \in Seq(Descriptors) /\ IsInjective(rdy')
  BY DEF EpollWait, IsInjective
<1>4. TypeOK'
  BY <1>2, <1>3 DEF EpollWait, TypeOK, net, history
<1>5. Batch'
  BY <1>2, <1>3 DEF EpollWait, Batch, Pending, net
<1>6. Ends' /\ Reasons' /\ (Len(pipe) <= delivered)'
  BY DEF EpollWait, Ends, Reasons, InLoop, history
<1> QED BY <1>4, <1>5, <1>6

(* ... and each event handled is one less.                                 *)
LEMMA EventStep ==
  ASSUME IInv, Accept \/ ReadSignals \/ IgnoreClient
  PROVE  IInv'
<1> USE DEF IInv
<1>1. pc = "loop" /\ pc' = "loop" /\ events # <<>> /\ events' = Tail(events)
  BY DEF Accept, ReadSignals, IgnoreClient, At
<1>2. /\ events' \in Seq(Descriptors)
      /\ IsInjective(events')
      /\ Range(events') = Range(events) \ {Head(events)}
  BY <1>1, TailType DEF TypeOK, Batch
<1>3. CASE Accept
  <2>1. TypeOK'
    BY <1>2, <1>3, UniteAssumption DEF Accept, TypeOK, history
  <2>2. Batch'
    BY <1>1, <1>2, <1>3 DEF Accept, At, Batch
  <2> QED BY <1>3, <2>1, <2>2 DEF Accept, Ends, Reasons, InLoop, history
<1>4. CASE ReadSignals
  <2>1. /\ pipe \in Seq(Signals) /\ Len(pipe) \in Nat
        /\ Len(pipe) <= PIPE_CAPACITY /\ Taken \in 0 .. Len(pipe)
        /\ delivered \in Nat /\ Len(pipe) <= delivered
    BY UniteAssumption, LenProperties DEF TypeOK, Taken
  <2>2. /\ pipe' \in Seq(Signals)
        /\ Len(pipe') = Len(pipe) - Taken
        /\ \A k \in 1 .. Len(pipe') : pipe'[k] = pipe[Taken + k]
    BY <1>4, <2>1, SubSeqProperties DEF ReadSignals
  <2>3. stop_server' \in BOOLEAN /\ (stop_server' => asked)
    BY <1>4, <2>1 DEF ReadSignals, TypeOK, Reasons
  <2>4. \A k \in 1 .. Len(pipe') : pipe'[k] \in Stopping => asked
    BY <2>1, <2>2 DEF Reasons
  <2>5. TypeOK'
    BY <1>2, <1>4, <2>1, <2>2, <2>3, UniteAssumption DEF ReadSignals, TypeOK, net, history
  <2>6. Batch'
    BY <1>1, <1>2, <1>4 DEF ReadSignals, At, Batch, net
  <2>7. Ends' /\ Reasons'
    BY <1>1, <1>4, <2>3, <2>4 DEF ReadSignals, Ends, Reasons, InLoop, history
  <2>8. (Len(pipe) <= delivered)'
    BY <1>4, <2>1, <2>2 DEF ReadSignals, history
  <2> QED BY <2>5, <2>6, <2>7, <2>8
<1>5. CASE IgnoreClient
  <2>1. TypeOK'
    BY <1>2, <1>5 DEF IgnoreClient, TypeOK, net, history
  <2>2. Batch'
    BY <1>1, <1>2, <1>5 DEF IgnoreClient, Batch, net
  <2> QED BY <1>5, <2>1, <2>2 DEF IgnoreClient, Ends, Reasons, InLoop, history
<1> QED BY <1>3, <1>4, <1>5

(* The steps that decide whether the loop goes on, and those that end it.  *)
LEMMA ControlStep ==
  ASSUME IInv,
         EpollFails \/ Check \/ AcceptAborts \/ EndOfEvents
           \/ CloseListenfd \/ ClosePipe1 \/ ClosePipe0
  PROVE  IInv'
<1> USE DEF IInv
<1>1. UNCHANGED <<events, stop_server, pipe, rdy, accepted, delivered, asked>>
  BY DEF EpollFails, Check, AcceptAborts, EndOfEvents, CloseListenfd, ClosePipe1,
         ClosePipe0, loop, net, history
<1>2. TypeOK'
  <2>1. backlog' \in 0 .. MaxClients
    BY UniteAssumption
       DEF TypeOK, EpollFails, Check, AcceptAborts, EndOfEvents, CloseListenfd,
           ClosePipe1, ClosePipe0, net
  <2>2. /\ pc' \in {"wait", "check", "loop", "close_listenfd", "close_pipefd1",
                    "close_pipefd0", "stopped", "aborted"}
        /\ pipefd' \subseteq pipefd
        /\ pc' = "stopped" => pipefd' = {}
    BY DEF TypeOK, Ends, EpollFails, Check, AcceptAborts, EndOfEvents,
           CloseListenfd, ClosePipe1, ClosePipe0, CloseOrder
  <2>3. number' \in {-1, 0} /\ errno' \in {"none", "EINTR", "EAGAIN", "EBADF"}
    BY DEF TypeOK, EpollFails, Check, AcceptAborts, EndOfEvents, CloseListenfd,
           ClosePipe1, ClosePipe0, loop
  <2>4. broken' \in BOOLEAN
    BY DEF TypeOK, EpollFails, Check, AcceptAborts, EndOfEvents, CloseListenfd,
           ClosePipe1, ClosePipe0, history
  <2> QED BY <1>1, <2>1, <2>2, <2>3, <2>4 DEF TypeOK
<1>3. Batch'
  BY <1>1 DEF Batch, EpollFails, Check, AcceptAborts, EndOfEvents, CloseListenfd,
         ClosePipe1, ClosePipe0, Range, loop, net
<1>4. Ends'
  BY DEF Ends, InLoop, EpollFails, Check, AcceptAborts, EndOfEvents, CloseListenfd,
         ClosePipe1, ClosePipe0, CloseOrder
<1>5. Reasons'
  BY <1>1 DEF Reasons, TypeOK, InLoop, EpollFails, Check, AcceptAborts, EndOfEvents,
         CloseListenfd, ClosePipe1, ClosePipe0, loop, history
<1> QED BY <1>1, <1>2, <1>3, <1>4, <1>5

-----------------------------------------------------------------------------
LEMMA NextInv == IInv /\ [Next]_vars => IInv'
<1> SUFFICES ASSUME IInv, [Next]_vars PROVE IInv'
  OBVIOUS
<1>1. CASE EpollWait
  BY <1>1, EpollStep
<1>2. CASE Accept \/ ReadSignals \/ IgnoreClient
  BY <1>2, EventStep
<1>3. CASE EpollFails \/ Check \/ AcceptAborts \/ EndOfEvents
             \/ CloseListenfd \/ ClosePipe1 \/ ClosePipe0
  BY <1>3, ControlStep
<1>4. CASE SignalStep
  BY <1>4, HandleStep, InterruptStep DEF SignalStep
<1>5. CASE Connect \/ ClientSends
  BY <1>5, ArrivalStep
<1>6. CASE UNCHANGED vars
  BY <1>6 DEF IInv, TypeOK, Batch, Ends, Reasons, InLoop, vars, loop, net, history
<1> QED BY <1>1, <1>2, <1>3, <1>4, <1>5, <1>6 DEF Next, MainStep

THEOREM Invariance == Spec => []IInv
<1> QED BY InitInv, NextInv, PTL DEF Spec

(* The variables have their types and the socket pair its bound; at the    *)
(* end both of its ends are closed (lines 179-181).                        *)
THEOREM TypeCorrect == Spec => []TypeOK
<1>1. IInv => TypeOK
  BY DEF IInv
<1> QED BY <1>1, Invariance, PTL

(* What epoll_wait reported is still there when the loop comes to it       *)
(* (lines 129, 138), whatever arrives in between: the loop takes one       *)
(* connection per event and reports no descriptor twice.                   *)
THEOREM ReportsStayCurrent == Spec => []ReportsAreCurrent
<1>1. IInv => ReportsAreCurrent
  <2> SUFFICES ASSUME IInv PROVE ReportsAreCurrent
    OBVIOUS
  <2>1. ASSUME pc = "loop", events # <<>>
        PROVE  Head(events) \in Range(events)
    BY <2>1, TailType, EmptySeq, HeadTailProperties DEF IInv, TypeOK, Range
  <2> QED BY <2>1 DEF IInv, Batch, ReportsAreCurrent, At
<1> QED BY <1>1, Invariance, PTL

(* The loop ends only when a signal asked for it or epoll_wait failed, and *)
(* no signal kills the server on its way out (lines 37-45, 114, 180-181).  *)
THEOREM StopsOnlyForAReason == Spec => []StopsForAReason
<1>1. IInv => StopsForAReason
  BY DEF IInv, Ends, Reasons, StopsForAReason
<1> QED BY <1>1, Invariance, PTL

-----------------------------------------------------------------------------
(* One recv takes whatever the socket pair can hold: 1024 bytes are asked  *)
(* for (line 137), and Linux puts fewer one-byte messages into the pair.   *)
RecvTakesAll == PIPE_CAPACITY <= SIGNALS_SIZE

LEMMA InitNoSignalLost == Init => NoSignalLost
BY DEF Init, NoSignalLost

LEMMA NextNoSignalLost ==
  ASSUME RecvTakesAll, IInv, IInv', NoSignalLost, [Next]_vars
  PROVE  NoSignalLost'
<1> DEFINE Requested == \E k \in 1 .. Len(pipe) : pipe[k] \in Stopping
           Seen == "pipefd0" \in Range(rdy) \cup Range(events)
           InTime == asked /\ delivered <= PIPE_CAPACITY
<1> SUFFICES ASSUME InLoop'
             PROVE  /\ pipe' # <<>> => Seen'
                    /\ InTime' => (stop_server \/ Requested)'
  BY DEF NoSignalLost
<1>0. /\ pipe \in Seq(Signals) /\ Len(pipe) \in Nat /\ Len(pipe) <= PIPE_CAPACITY
      /\ Len(pipe) <= delivered /\ delivered \in Nat
      /\ rdy \in Seq(Descriptors) /\ IsInjective(rdy)
      /\ events \in Seq(Descriptors) /\ IsInjective(events)
  BY LenProperties DEF IInv, TypeOK, Batch
<1>1. CASE EpollWait
  <2>1. Range(events') = Range(rdy) \cap Pending
    BY <1>0, <1>1, KeptType DEF EpollWait
  <2>2. Range(events) = {}
    BY <1>1 DEF EpollWait, IInv, Batch, Range
  <2>3. pipe # <<>> => "pipefd0" \in Pending
    BY <1>1, <2>2 DEF NoSignalLost, InLoop, EpollWait, Pending
  <2> QED BY <1>1, <2>1, <2>3 DEF EpollWait, NoSignalLost, InLoop, Pending, history
<1>2. CASE Accept \/ IgnoreClient
  <2>1. Range(events') = Range(events) \ {Head(events)} /\ Head(events) # "pipefd0"
    BY <1>0, <1>2, TailType DEF Accept, IgnoreClient, At
  <2> QED BY <1>2, <2>1 DEF NoSignalLost, InLoop, Accept, IgnoreClient, At, net, history
<1>3. CASE ReadSignals
  <2>1. Taken = Len(pipe)
    BY <1>0, UniteAssumption DEF Taken, RecvTakesAll
  <2>2. pipe' = <<>>
    BY <1>0, <1>3, <2>1, SubSeqProperties, EmptySeq DEF ReadSignals
  <2>3. stop_server' = (stop_server \/ Requested)
    BY <1>3, <2>1 DEF ReadSignals
  <2> QED BY <1>3, <2>2, <2>3 DEF NoSignalLost, InLoop, ReadSignals, At, history
<1>4. CASE SignalStep
  <2>1. PICK sig \in Signals : Handle(sig) \/ Interrupt(sig)
    BY <1>4 DEF SignalStep
  <2>2. InLoop /\ 1 \in pipefd /\ pipefd # {1}
    BY <2>1 DEF InLoop, Handle, Interrupt, IInv, Ends
  <2>3. /\ SendByte(sig) /\ Delivered(sig)
        /\ UNCHANGED <<events, stop_server>>
    BY <2>1, <2>2 DEF Handle, Interrupt
  <2>4. CASE Room
    <3>1. pipe' = Append(pipe, sig) /\ rdy' = Queued(rdy, "pipefd0")
      BY <2>2, <2>3, <2>4 DEF SendByte
    <3>2. "pipefd0" \in Range(rdy')
      <4>1. "pipefd0" \in Descriptors
        BY DEF Descriptors
      <4>2. Range(Queued(rdy, "pipefd0")) = Range(rdy) \cup {"pipefd0"}
        BY <1>0, <4>1, QueuedType
      <4> QED BY <3>1, <4>2
    <3>3. /\ Len(pipe') = Len(pipe) + 1 /\ pipe'[Len(pipe) + 1] = sig
          /\ \A k \in 1 .. Len(pipe) : pipe'[k] = pipe[k]
      BY <1>0, <3>1, AppendProperties
    <3>4. InTime' => (stop_server \/ Requested)'
      <4> SUFFICES ASSUME InTime' PROVE stop_server' \/ Requested'
        OBVIOUS
      <4>1. CASE sig \in Stopping
        BY <1>0, <3>3, <4>1
      <4>2. CASE sig \notin Stopping
        <5>1. InTime
          <6>1. asked
            BY <2>3, <4>2 DEF Delivered, IInv, TypeOK
          <6>2. delivered <= PIPE_CAPACITY
            BY <1>0, <2>3, UniteAssumption DEF Delivered
          <6> QED BY <6>1, <6>2
        <5>2. stop_server \/ Requested
          BY <2>2, <5>1 DEF NoSignalLost
        <5> QED BY <1>0, <2>3, <3>3, <5>2
      <4> QED BY <4>1, <4>2
    <3> QED BY <3>2, <3>4
  <2>5. CASE ~Room
    <3>1. delivered' > PIPE_CAPACITY
      BY <1>0, <2>3, <2>5, UniteAssumption DEF Room, Delivered
    <3>2. ~InTime'
      BY <1>0, <3>1, <2>3, UniteAssumption DEF Delivered
    <3> QED BY <2>2, <2>3, <2>5, <3>2 DEF SendByte, NoSignalLost
  <2> QED BY <2>4, <2>5
<1>5. CASE Connect \/ ClientSends
  <2>1. PICK d \in Descriptors : rdy' = Queued(rdy, d)
    BY <1>5 DEF Connect, ClientSends, Descriptors
  <2>2. Range(rdy) \subseteq Range(rdy')
    BY <1>0, <2>1, QueuedType
  <2> QED BY <1>5, <2>2 DEF NoSignalLost, InLoop, Connect, ClientSends, loop, history
<1>6. CASE EpollFails \/ Check \/ AcceptAborts \/ EndOfEvents
             \/ CloseListenfd \/ ClosePipe1 \/ ClosePipe0
  BY <1>6 DEF NoSignalLost, InLoop, EpollFails, Check, AcceptAborts, EndOfEvents,
       CloseListenfd, ClosePipe1, ClosePipe0, loop, net, history
<1>7. CASE UNCHANGED vars
  BY <1>7 DEF NoSignalLost, InLoop, vars, loop, net, history
<1> QED BY <1>1, <1>2, <1>3, <1>4, <1>5, <1>6, <1>7 DEF Next, MainStep

(* While the server loops, no byte is stranded in the socket pair, and no  *)
(* request to stop is lost as long as the signals that came fit into it    *)
(* (lines 37-45, 101, 137-167).                                            *)
THEOREM NoSignalIsLost ==
  ASSUME RecvTakesAll
  PROVE  Spec => []NoSignalLost
<1>1. IInv /\ IInv' /\ NoSignalLost /\ [Next]_vars => NoSignalLost'
  BY NextNoSignalLost
<1> QED BY <1>1, InitNoSignalLost, Invariance, PTL DEF Spec
=============================================================================
