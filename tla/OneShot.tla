------------------------------- MODULE OneShot ------------------------------
(***************************************************************************)
(* The EPOLLONESHOT server of chap9, 9.4oneshot.cpp: the main thread waits *)
(* on an epoll set and starts a new thread for every event of a client     *)
(* socket; the thread reads the socket until recv says EAGAIN and then     *)
(* arms the descriptor again, or closes it when the peer has closed.       *)
(*                                                                         *)
(* To the epoll set of EpollSet it adds EPOLLONESHOT: an interest is armed *)
(* or, after a report, disarmed.  Descriptors are closed by the workers    *)
(* and handed out again, lowest first, by accept.                          *)
(***************************************************************************)
EXTENDS EpollSet

CONSTANTS
  MaxWorkers,   \* threads the process can create: none is ever joined
  BUFFER_SIZE,  \* units one recv may return (line 71)
  ArgRace       \* whether main may run on before a new thread has read its
                \* argument, a local variable of main (lines 159-164)

ASSUME OneShotAssumption ==
  /\ MaxWorkers \in Nat
  /\ BUFFER_SIZE \in Nat \ {0}
  /\ ArgRace \in BOOLEAN

VARIABLES
  pc,        \* main: "wait", "loop" or "exited"
  events,    \* descriptors reported to main and not yet handled
  slot,      \* fds_for_new_worker.sockfd
  wpc,       \* control of each worker
  sockfd,    \* local variable of each worker
  interest   \* kernel: registration of each descriptor in the epoll set

main == <<pc, events, slot>>
worker == <<wpc, sockfd>>
epoll == <<kernel, interest>>
vars == <<main, worker, epoll>>

Workers == 1 .. MaxWorkers
Garbage == -1     \* what is in the slot when the stack is used again

TypeOK ==
  /\ pc \in {"wait", "loop", "exited"}
  /\ events \in Seq(Fds \cup {listenfd})
  /\ slot \in Fds \cup {Garbage}
  /\ wpc \in [Workers -> {"none", "start", "recv", "eof", "eagain", "ended"}]
  /\ sockfd \in [Workers -> Fds \cup {Garbage}]
  /\ ArgRace \/ \A w \in Workers : wpc[w] \in {"recv", "eof", "eagain"} => sockfd[w] \in Fds
  /\ KernelTypeOK(Fds \cup {listenfd})
  /\ interest \in [Fds -> {"absent", "armed", "disarmed"}]

Init ==
  /\ pc = "wait"
  /\ events = <<>>
  /\ slot = Garbage
  /\ wpc = [w \in Workers |-> "none"]
  /\ sockfd = [w \in Workers |-> Garbage]
  /\ KernelInit
  /\ interest = [d \in Fds |-> "absent"]

-----------------------------------------------------------------------------
(* The environment *)

Running == pc # "exited"

(* Descriptors that an arrival puts on the ready list.                     *)
Armed == {d \in Fds : interest[d] = "armed"}

(* epoll_ctl: ADD of a new descriptor, MOD of one that is registered.      *)
Arms(d) == interest' = [interest EXCEPT ![d] = "armed"]

Connect(c) == Running /\ Connects(c) /\ UNCHANGED <<main, worker, interest>>
Send(c) == Running /\ Sends(c, Armed) /\ UNCHANGED <<main, worker, interest>>
Leave(c) == Running /\ Leaves(c, Armed) /\ UNCHANGED <<main, worker, interest>>
Reset(c) == Running /\ Resets(c, Armed) /\ UNCHANGED <<main, worker, interest>>

-----------------------------------------------------------------------------
(* The main thread, lines 135-171 *)

(* Unless ArgRace, the new thread wins the race for its argument.          *)
ArgumentTaken == ArgRace \/ \A w \in Workers : wpc[w] # "start"

(* Mutant: registered without EPOLLONESHOT (line 154).                     *)
StillArmed == interest

Disarmed ==
  [d \in Fds |-> IF d \in Pending THEN "disarmed" ELSE interest[d]]

(* What is reported leaves the ready list in both modes, and a one-shot    *)
(* entry is disarmed.                                                      *)
EpollWait ==
  /\ pc = "wait"
  /\ ArgumentTaken
  /\ Pending # {}
  /\ events' \in Kept(rdy, Pending)
  /\ pc' = "loop"
  /\ rdy' = <<>>
  /\ interest' = Disarmed
  /\ UNCHANGED <<slot, worker, owner, backlog, sock>>

EpollFailure ==
  /\ pc = "wait"
  /\ pc' = "exited"
  /\ UNCHANGED <<events, slot, worker, epoll>>

AtEvent == pc = "loop" /\ ArgumentTaken /\ events # <<>>

(* The accept branch: its client_address may lie where the slot was.       *)
ScopeReused == slot' \in {slot} \cup (IF ArgRace THEN {Garbage} ELSE {})

Accept ==
  /\ AtEvent /\ Head(events) = listenfd
  /\ Accepts
  /\ Arms(LowestFree)
  /\ events' = Tail(events)
  /\ ScopeReused
  /\ UNCHANGED <<pc, worker>>

(* accept returns -1 (EMFILE, or ENFILE whatever this process has open),   *)
(* and addfd(-1) has no effect.                                            *)
AcceptFails ==
  /\ AtEvent /\ Head(events) = listenfd
  /\ events' = Tail(events)
  /\ ScopeReused
  /\ UNCHANGED <<pc, worker, epoll>>

(* Mutant: the thread is created before its argument is filled in (161).   *)
StartWorkerEarly ==
  /\ AtEvent /\ Head(events) # listenfd
  /\ \E w \in Workers :
       /\ wpc[w] = "none"
       /\ \A v \in 1 .. w - 1 : wpc[v] # "none"
       /\ wpc' = [wpc EXCEPT ![w] = "start"]
  /\ events' = Tail(events)
  /\ UNCHANGED <<pc, slot, sockfd, epoll>>

StartWorker ==
  /\ AtEvent /\ Head(events) # listenfd
  /\ \E w \in Workers :
       /\ wpc[w] = "none"
       /\ \A v \in 1 .. w - 1 : wpc[v] # "none"
       /\ wpc' = [wpc EXCEPT ![w] = "start"]
  /\ slot' = Head(events)
  /\ events' = Tail(events)
  /\ UNCHANGED <<pc, sockfd, epoll>>

(* The result of pthread_create is not looked at.                          *)
StartFails ==
  /\ AtEvent /\ Head(events) # listenfd
  /\ \A w \in Workers : wpc[w] # "none"
  /\ slot' = Head(events)
  /\ events' = Tail(events)
  /\ UNCHANGED <<pc, worker, epoll>>

EndOfEvents ==
  /\ pc = "loop"
  /\ ArgumentTaken
  /\ events = <<>>
  /\ pc' = "wait"
  /\ UNCHANGED <<events, slot, worker, epoll>>

-----------------------------------------------------------------------------
(* The worker threads, lines 61-96 *)

ReadArgument(w) ==
  /\ Running
  /\ wpc[w] = "start"
  /\ sockfd' = [sockfd EXCEPT ![w] = slot]
  /\ wpc' = [wpc EXCEPT ![w] = "recv"]
  /\ UNCHANGED <<main, epoll>>

(* A worker whose descriptor is no connection gets EBADF from recv and     *)
(* tries again, for ever: a step that changes nothing.                     *)
Conn(w) == IF sockfd[w] \in Fds THEN owner[sockfd[w]] ELSE NoClient

Receiving(w) == Running /\ wpc[w] = "recv"

RecvData(w) ==
  /\ Receiving(w)
  /\ HasData(Conn(w))
  /\ Receives(Conn(w), BUFFER_SIZE)
  /\ UNCHANGED <<main, worker, interest>>

(* ECONNRESET, reported once: neither 0 nor EAGAIN, so the loop goes on.   *)
RecvError(w) ==
  /\ Receiving(w)
  /\ HasError(Conn(w))
  /\ sock' = [sock EXCEPT ![Conn(w)].err = "none"]
  /\ UNCHANGED <<main, worker, owner, interest, rdy, backlog>>

RecvNothing(w) ==
  /\ Receiving(w)
  /\ HasNothing(Conn(w))
  /\ wpc' = [wpc EXCEPT ![w] = IF sock[Conn(w)].peer = "open" THEN "eagain"
                                                              ELSE "eof"]
  /\ UNCHANGED <<main, sockfd, epoll>>

(* Mutant: the thread ends without reset_oneshot (line 82).                *)
EndsDisarmed(w) ==
  /\ Running
  /\ wpc[w] = "eagain"
  /\ wpc' = [wpc EXCEPT ![w] = "ended"]
  /\ UNCHANGED <<main, sockfd, epoll>>

(* reset_oneshot, and the end of the thread.                               *)
ResetOneshot(w) ==
  /\ Running
  /\ wpc[w] = "eagain"
  /\ wpc' = [wpc EXCEPT ![w] = "ended"]
  /\ IF interest[sockfd[w]] # "absent"
       THEN Arms(sockfd[w]) /\ Look(sockfd[w], Conn(w))
       ELSE UNCHANGED <<interest, rdy>>
  /\ UNCHANGED <<main, sockfd, owner, backlog, sock>>

(* Mutant: the thread ends without close (line 74).                        *)
EndsOpen(w) ==
  /\ Running
  /\ wpc[w] = "eof"
  /\ wpc' = [wpc EXCEPT ![w] = "ended"]
  /\ UNCHANGED <<main, sockfd, epoll>>

Close(w) ==
  /\ Running
  /\ wpc[w] = "eof"
  /\ wpc' = [wpc EXCEPT ![w] = "ended"]
  /\ Closes(sockfd[w])
  /\ interest' = [interest EXCEPT ![sockfd[w]] = "absent"]
  /\ UNCHANGED <<main, sockfd>>

-----------------------------------------------------------------------------
MainStep ==
  \/ EpollWait \/ EndOfEvents
  \/ Accept \/ AcceptFails \/ StartWorker \/ StartFails

WorkerStep(w) ==
  \/ ReadArgument(w)
  \/ RecvData(w) \/ RecvError(w) \/ RecvNothing(w)
  \/ ResetOneshot(w) \/ Close(w)

ClientStep == \E c \in Clients : Connect(c) \/ Send(c) \/ Leave(c) \/ Reset(c)

Next == MainStep \/ EpollFailure \/ ClientStep \/ \E w \in Workers : WorkerStep(w)

Spec == Init /\ [][Next]_vars

(* Every thread is scheduled; epoll_wait need not fail, clients owe nothing.*)
FairSpec ==
  Spec /\ WF_vars(MainStep) /\ \A w \in Workers : WF_vars(WorkerStep(w))
-----------------------------------------------------------------------------
(* Properties *)

Serving(w) == wpc[w] \in {"recv", "eof", "eagain"}

(* chap9/README.md, line 320: a connection is in the hands of one thread at *)
(* a time.  It holds when no thread is overtaken on the way to its argument,*)
(* and is violated otherwise (lines 159-164).                               *)
OneWorkerPerSocket ==
  \A v, w \in Workers :
    v # w /\ Serving(v) /\ Serving(w) /\ sockfd[v] \in Fds => sockfd[v] # sockfd[w]

(* No descriptor is closed, or closed and handed out again for another      *)
(* connection, under a thread that still uses it (lines 71-82 and 151).     *)
DescriptorIsStable ==
  [][\A w \in Workers :
       Serving(w) /\ Serving(w)' => owner'[sockfd[w]] = owner[sockfd[w]]]_vars

(* Nothing that arrives between EAGAIN and reset_oneshot, or while a thread *)
(* reads, is forgotten (lines 71-84): a connection with something to read   *)
(* is in the ready list, reported, or served, as long as threads are left.  *)
NoLostWakeup ==
  Running /\ (\E w \in Workers : wpc[w] = "none") =>
    \A d \in Fds :
      owner[d] # NoClient /\ Readable(owner[d]) =>
        \/ d \in Range(rdy) \cup Range(events)
        \/ \E w \in Workers : Serving(w) /\ sockfd[w] = d
        \/ \E w \in Workers : wpc[w] = "start" /\ slot = d

(* With threads left, what an accepted client sends is read, and the        *)
(* descriptor of a client that is gone is closed (lines 69-93).             *)
Exhausted == ~Running \/ \A w \in Workers : wpc[w] # "none"

EverythingRead ==
  \A c \in Clients :
    (Connected(c) /\ Unread(c) > 0) ~> (Unread(c) = 0 \/ Exhausted)

DepartureClosed ==
  \A c \in Clients :
    (Connected(c) /\ sock[c].peer \in {"fin", "rst"})
      ~> (sock[c].peer = "closed" \/ Exhausted)
=============================================================================
