------------------------------ MODULE EtServer ------------------------------
(***************************************************************************)
(* The epoll server of chap9, 9.3et_lt_mode.cpp: one thread, one epoll     *)
(* set, and two ways to work off its events.  et() registers connections   *)
(* edge-triggered and reads each event's socket until recv says EAGAIN;    *)
(* lt() registers them level-triggered and reads once per event.  Which    *)
(* of the two main calls is decided when it is compiled (lines 175-179).   *)
(*                                                                         *)
(* listenfd is edge-triggered in both (line 164).  The ready list is that  *)
(* of EpollSet, of which epoll_wait takes at most MAX_EVENT_NUMBER entries *)
(* and puts level-triggered ones back at the end.                          *)
(***************************************************************************)
EXTENDS EpollSet

CONSTANTS
  MAX_EVENT_NUMBER,  \* events one epoll_wait returns (line 15)
  BUFFER_SIZE,       \* units one recv may return (line 102)
  Senders,           \* clients that may send
  Resetters          \* clients that may reset their connection

ASSUME EtAssumption ==
  /\ MAX_EVENT_NUMBER \in Nat \ {0}
  /\ BUFFER_SIZE \in Nat \ {0}
  /\ Senders \subseteq Clients
  /\ Resetters \subseteq Clients

VARIABLES
  pc,        \* "wait", "loop" or "exited"
  mode,      \* which of et() and lt() main calls
  events     \* reported descriptors from events[i] on

vars == <<pc, mode, events, kernel>>

TypeOK ==
  /\ pc \in {"wait", "loop", "exited"}
  /\ mode \in {"et", "lt"}
  /\ events \in Seq(Fds \cup {listenfd})
  /\ Len(events) <= MAX_EVENT_NUMBER
  /\ KernelTypeOK(Fds \cup {listenfd})

Init ==
  /\ pc = "wait"
  /\ mode \in {"et", "lt"}
  /\ events = <<>>
  /\ KernelInit

-----------------------------------------------------------------------------
(* The environment *)

Running == pc # "exited"

Connect(c) == Running /\ Connects(c) /\ UNCHANGED <<pc, mode, events>>

Send(c) ==
  Running /\ c \in Senders /\ Sends(c, Fds) /\ UNCHANGED <<pc, mode, events>>

Leave(c) == Running /\ Leaves(c, Fds) /\ UNCHANGED <<pc, mode, events>>

Reset(c) ==
  Running /\ c \in Resetters /\ Resets(c, Fds) /\ UNCHANGED <<pc, mode, events>>

-----------------------------------------------------------------------------
(* main, lines 166-180 *)

(* Mutant: epoll_wait is told of more room than events[] has (line 168).   *)
WholeList(ready) == Len(ready)

BatchSize(ready) ==
  IF Len(ready) < MAX_EVENT_NUMBER THEN Len(ready) ELSE MAX_EVENT_NUMBER

(* Mutant: lt() registers connections edge-triggered (line 56).            *)
AlwaysEdge == FALSE

(* How addfd registers connections (lines 56 and 93).                      *)
LevelTriggered == mode = "lt"

(* Entries without an event fall out of the list; of the others a batch is *)
(* reported, and its level-triggered entries are put back at the end.      *)
EpollWait ==
  /\ pc = "wait"
  /\ Pending # {}
  /\ \E ready \in Kept(rdy, Pending) :
       /\ events' = SubSeq(ready, 1, BatchSize(ready))
       /\ \E again \in Kept(events', IF LevelTriggered THEN Fds ELSE {}) :
            rdy' = SubSeq(ready, BatchSize(ready) + 1, Len(ready)) \o again
  /\ pc' = "loop"
  /\ UNCHANGED <<mode, owner, backlog, sock>>

EpollFailure ==
  /\ pc = "wait"
  /\ pc' = "exited"
  /\ UNCHANGED <<mode, events, kernel>>

EndOfEvents ==
  /\ pc = "loop"
  /\ events = <<>>
  /\ pc' = "wait"
  /\ UNCHANGED <<mode, events, kernel>>

-----------------------------------------------------------------------------
(* The listenfd branch of et() and lt(), lines 50-57 and 87-94: one accept, *)
(* and addfd, which looks at the new descriptor at once.                    *)

AtListenfd == pc = "loop" /\ events # <<>> /\ Head(events) = listenfd

Accept ==
  /\ AtListenfd
  /\ Accepts
  /\ events' = Tail(events)
  /\ UNCHANGED <<pc, mode>>

(* connfd is -1, and every call of addfd(-1) fails.                        *)
AcceptFails ==
  /\ AtListenfd
  /\ events' = Tail(events)
  /\ UNCHANGED <<pc, mode, kernel>>

-----------------------------------------------------------------------------
(* The EPOLLIN branches, lines 58-70 and 95-125 *)

sockfd == Head(events)
Conn == owner[sockfd]

Handling(m) ==
  pc = "loop" /\ events # <<>> /\ sockfd # listenfd /\ mode = m

(* lt() reads once, and closes on end of file and on every error, EAGAIN   *)
(* included.                                                               *)
LtRecvData ==
  /\ Handling("lt")
  /\ HasData(Conn)
  /\ Receives(Conn, BUFFER_SIZE)
  /\ events' = Tail(events)
  /\ UNCHANGED <<pc, mode>>

LtClose ==
  /\ Handling("lt")
  /\ HasError(Conn) \/ HasNothing(Conn)
  /\ Closes(sockfd)
  /\ events' = Tail(events)
  /\ UNCHANGED <<pc, mode>>

(* Mutant: et() reads once per event, without its loop (line 99).          *)
EtRecvOnce ==
  /\ Handling("et")
  /\ HasData(Conn)
  /\ Receives(Conn, BUFFER_SIZE)
  /\ events' = Tail(events)
  /\ UNCHANGED <<pc, mode>>

(* et() stays with the socket after data ...                               *)
EtRecvData ==
  /\ Handling("et")
  /\ HasData(Conn)
  /\ Receives(Conn, BUFFER_SIZE)
  /\ UNCHANGED <<pc, mode, events>>

(* Mutant: EAGAIN is an error like any other (lines 107-111).              *)
EtAgainCloses ==
  /\ Handling("et")
  /\ HasNothing(Conn)
  /\ sock[Conn].peer = "open"
  /\ Closes(sockfd)
  /\ events' = Tail(events)
  /\ UNCHANGED <<pc, mode>>

(* ... and leaves it on EAGAIN ...                                         *)
EtRecvAgain ==
  /\ Handling("et")
  /\ HasNothing(Conn)
  /\ sock[Conn].peer = "open"
  /\ events' = Tail(events)
  /\ UNCHANGED <<pc, mode, kernel>>

(* ... or, closing it, on an error.                                        *)
EtRecvError ==
  /\ Handling("et")
  /\ HasError(Conn)
  /\ Closes(sockfd)
  /\ events' = Tail(events)
  /\ UNCHANGED <<pc, mode>>

(* Mutant: end of file is not told from data (lines 116-119).              *)
EtEofIgnored ==
  /\ Handling("et")
  /\ HasNothing(Conn)
  /\ sock[Conn].peer # "open"
  /\ UNCHANGED vars

(* End of file closes the socket but does not leave the loop, ...          *)
EtRecvEof ==
  /\ Handling("et")
  /\ HasNothing(Conn)
  /\ sock[Conn].peer # "open"
  /\ Closes(sockfd)
  /\ UNCHANGED <<pc, mode, events>>

(* ... so recv fails with EBADF, and the number is closed once more.       *)
EtRecvClosed ==
  /\ Handling("et")
  /\ Conn = NoClient
  /\ events' = Tail(events)
  /\ UNCHANGED <<pc, mode, kernel>>

-----------------------------------------------------------------------------
ServerStep ==
  \/ EpollWait \/ EndOfEvents
  \/ Accept \/ AcceptFails
  \/ LtRecvData \/ LtClose
  \/ EtRecvData \/ EtRecvAgain \/ EtRecvError \/ EtRecvEof \/ EtRecvClosed

ClientStep == \E c \in Clients : Connect(c) \/ Send(c) \/ Leave(c) \/ Reset(c)

Next == ServerStep \/ EpollFailure \/ ClientStep

Spec == Init /\ [][Next]_vars

(* The thread is scheduled; epoll_wait need not fail, clients owe nothing. *)
FairSpec == Spec /\ WF_vars(ServerStep)

-----------------------------------------------------------------------------
(* Properties *)

(* The server hangs up on nobody, although lt() takes EAGAIN for an error   *)
(* and et() closes a number twice (lines 64-68, 113-119): a connection is   *)
(* closed only when its peer is gone and all it sent has been read.         *)
ClosesOnlyDeparted ==
  [][\A c \in Clients :
       Connected(c) /\ ~Connected(c)' =>
         sock[c].peer \in {"fin", "rst"} /\ Unread(c) = 0]_vars

(* chap9/README.md, lines 305-311: what is not read now is reported again   *)
(* in LT mode, and must be read at once in ET mode.  Either way (lines 60   *)
(* and 97-124) a connection with something to read is on the ready list or  *)
(* among the events at hand, whatever the size of the batches.              *)
NoStrandedInput ==
  Running => \A d \in Fds :
    owner[d] # NoClient /\ Readable(owner[d]) => d \in Range(rdy) \cup Range(events)

(* What an accepted client sends is read and its departure closed (lines    *)
(* 58-70, 95-125), unless epoll_wait fails; in LT mode with batches smaller *)
(* than the ready list, too.                                                *)
EverythingRead ==
  \A c \in Clients :
    (Connected(c) /\ Unread(c) > 0) ~> (Unread(c) = 0 \/ ~Running)

DepartureClosed ==
  \A c \in Clients :
    (Connected(c) /\ sock[c].peer \in {"fin", "rst"}) ~> (~Connected(c) \/ ~Running)
=============================================================================
