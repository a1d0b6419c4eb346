----------------------------- MODULE UniteEvent -----------------------------
(***************************************************************************)
(* The unified event source of chap10, 10.1unite_event.cpp: a signal       *)
(* handler writes the number of the signal to a socket pair, and the main  *)
(* loop, one epoll set in ET mode, reads it as it accepts connections.     *)
(*                                                                         *)
(* The handler interrupts the main thread between any two of its steps and *)
(* also inside epoll_wait; all signals are masked while it runs (line 54), *)
(* so it is one action.  Accepted connections are never read nor closed    *)
(* (lines 170-173); only their number matters.                             *)
(***************************************************************************)
EXTENDS ReadyList

CONSTANTS
  MaxClients,     \* bound: connections made in a run
  FD_LIMIT,       \* descriptors left for connections
  PIPE_CAPACITY,  \* one-byte messages the socket pair holds
  SIGNALS_SIZE,   \* bytes one recv takes (line 137)
  MaxSignals      \* bound: signals delivered in a run

ASSUME UniteAssumption ==
  /\ MaxClients \in Nat
  /\ FD_LIMIT \in Nat
  /\ PIPE_CAPACITY \in Nat \ {0}
  /\ SIGNALS_SIZE \in Nat \ {0}
  /\ MaxSignals \in Nat

VARIABLES
  pc,           \* control of the main thread
  number,       \* result of epoll_wait: -1 or not
  errno,        \* the errno the main thread sees
  events,       \* descriptors reported and not yet handled
  stop_server,
  pipefd,       \* which ends of the socket pair are open
  pipe,         \* kernel: bytes in the socket pair
  rdy,          \* kernel: ready list of the epoll set
  backlog,      \* kernel: connections waiting for accept
  accepted,     \* connections accepted, none of which is ever closed
  delivered,    \* history: signals delivered so far
  asked,        \* history: SIGTERM or SIGINT has been delivered
  broken        \* history: epoll_wait has failed, EINTR apart

loop == <<number, errno, events, stop_server>>
net == <<backlog, accepted>>
history == <<delivered, asked, broken>>
vars == <<pc, loop, pipefd, pipe, rdy, net, history>>

Signals == {"SIGHUP", "SIGCHLD", "SIGTERM", "SIGINT"}
Stopping == {"SIGTERM", "SIGINT"}
Descriptors == {"listenfd", "pipefd0", "connfd"}

TypeOK ==
  /\ pc \in {"wait", "check", "loop", "close_listenfd", "close_pipefd1",
             "close_pipefd0", "stopped", "aborted", "killed"}
  /\ number \in {-1, 0}
  /\ errno \in {"none", "EINTR", "EAGAIN", "EBADF"}
  /\ events \in Seq(Descriptors)
  /\ stop_server \in BOOLEAN
  /\ pipefd \subseteq {0, 1}
  /\ pipe \in Seq(Signals) /\ Len(pipe) <= PIPE_CAPACITY
  /\ rdy \in Seq(Descriptors)
  /\ backlog \in 0 .. MaxClients
  /\ accepted \in 0 .. FD_LIMIT
  /\ delivered \in 0 .. MaxSignals
  /\ asked \in BOOLEAN
  /\ broken \in BOOLEAN
  /\ pc = "stopped" => pipefd = {}

(* At line 111: the handlers are installed, nothing has happened yet.      *)
Init ==
  /\ pc = "wait"
  /\ number = 0
  /\ errno = "none"
  /\ events = <<>>
  /\ stop_server = FALSE
  /\ pipefd = {0, 1}
  /\ pipe = <<>>
  /\ rdy = <<>>
  /\ backlog = 0
  /\ accepted = 0
  /\ delivered = 0
  /\ asked = FALSE
  /\ broken = FALSE

-----------------------------------------------------------------------------
Alive == pc \notin {"stopped", "aborted", "killed"}
InLoop == pc \in {"wait", "check", "loop"}

(* What epoll_wait reports: ready entries that still have an event.        *)
Pending ==
  {d \in Range(rdy) : /\ d = "listenfd" => backlog > 0
                      /\ d = "pipefd0" => pipe # <<>>}

(* Clients connect, and send data that nobody reads.                       *)
Connect ==
  /\ Alive
  /\ backlog + accepted < MaxClients
  /\ backlog' = backlog + 1
  /\ rdy' = Queued(rdy, "listenfd")
  /\ UNCHANGED <<pc, loop, pipefd, pipe, accepted, history>>

ClientSends ==
  /\ Alive
  /\ accepted > 0
  /\ rdy' = Queued(rdy, "connfd")
  /\ UNCHANGED <<pc, loop, pipefd, pipe, net, history>>

-----------------------------------------------------------------------------
(* sig_handler, lines 37-45 *)

Room == Len(pipe) < PIPE_CAPACITY

(* Mutant: errno is not restored (line 43).                                *)
ErrnoOfSend(e) == IF 1 \notin pipefd THEN "EBADF" ELSE IF Room THEN e ELSE "EAGAIN"

(* errno after the handler, when it was e before.                          *)
ErrnoAfter(e) == e

(* The byte is lost when the pipe is full or its write end is closed.      *)
SendByte(sig) ==
  IF 1 \in pipefd /\ Room
    THEN pipe' = Append(pipe, sig) /\ rdy' = Queued(rdy, "pipefd0")
    ELSE UNCHANGED <<pipe, rdy>>

Delivered(sig) ==
  /\ delivered < MaxSignals
  /\ delivered' = delivered + 1
  /\ asked' = (asked \/ sig \in Stopping)

(* Nobody ignores SIGPIPE: without a read end, send would kill.            *)
Handle(sig) ==
  /\ Alive
  /\ Delivered(sig)
  /\ IF pipefd = {1}
       THEN pc' = "killed" /\ UNCHANGED <<errno, pipe, rdy>>
       ELSE SendByte(sig) /\ errno' = ErrnoAfter(errno) /\ UNCHANGED pc
  /\ UNCHANGED <<number, events, stop_server, pipefd, net, broken>>

(* A handler that runs while epoll_wait blocks makes it return EINTR:      *)
(* SA_RESTART does not apply to epoll_wait.                                *)
Interrupt(sig) ==
  /\ pc = "wait"
  /\ Pending = {}
  /\ Delivered(sig)
  /\ SendByte(sig)
  /\ number' = -1
  /\ errno' = "EINTR"
  /\ pc' = "check"
  /\ UNCHANGED <<events, stop_server, pipefd, net, broken>>

-----------------------------------------------------------------------------
(* The main loop, lines 111-175 *)

EpollWait ==
  /\ pc = "wait"
  /\ Pending # {}
  /\ events' \in Kept(rdy, Pending)
  /\ rdy' = <<>>
  /\ number' = 0
  /\ pc' = "check"
  /\ UNCHANGED <<errno, stop_server, pipefd, pipe, net, history>>

EpollFails ==
  /\ pc = "wait"
  /\ number' = -1
  /\ errno' = "EBADF"
  /\ pc' = "check"
  /\ broken' = TRUE
  /\ UNCHANGED <<events, stop_server, pipefd, pipe, rdy, net, delivered, asked>>

Check ==
  /\ pc = "check"
  /\ pc' = IF number = -1 /\ errno # "EINTR" THEN "close_listenfd" ELSE "loop"
  /\ UNCHANGED <<loop, pipefd, pipe, rdy, net, history>>

At(d) == pc = "loop" /\ events # <<>> /\ Head(events) = d

(* Mutant: accept is repeated until there is nothing to accept.            *)
AcceptAgain ==
  /\ At("listenfd")
  /\ backlog > 0
  /\ accepted < FD_LIMIT
  /\ accepted' = accepted + 1
  /\ backlog' = backlog - 1
  /\ UNCHANGED <<pc, loop, pipefd, pipe, rdy, history>>

(* addfd looks at the new descriptor; whether it has data does not matter. *)
Accept ==
  /\ At("listenfd")
  /\ backlog > 0
  /\ accepted < FD_LIMIT
  /\ accepted' = accepted + 1
  /\ backlog' = backlog - 1
  /\ events' = Tail(events)
  /\ UNCHANGED <<pc, number, errno, stop_server, pipefd, pipe, rdy, history>>

(* EMFILE: the assertion of line 130 aborts the server.                    *)
AcceptAborts ==
  /\ At("listenfd")
  /\ backlog > 0
  /\ accepted = FD_LIMIT
  /\ pc' = "aborted"
  /\ UNCHANGED <<loop, pipefd, pipe, rdy, net, history>>

(* Mutant: the signals are read one at a time, once per event.             *)
OneByte == 1

Taken == IF Len(pipe) < SIGNALS_SIZE THEN Len(pipe) ELSE SIGNALS_SIZE

ReadSignals ==
  /\ At("pipefd0")
  /\ pipe # <<>>
  /\ stop_server' = (stop_server \/ \E k \in 1 .. Taken : pipe[k] \in Stopping)
  /\ pipe' = SubSeq(pipe, Taken + 1, Len(pipe))
  /\ events' = Tail(events)
  /\ UNCHANGED <<pc, number, errno, pipefd, rdy, net, history>>

IgnoreClient ==
  /\ At("connfd")
  /\ events' = Tail(events)
  /\ UNCHANGED <<pc, number, errno, stop_server, pipefd, pipe, rdy, net, history>>

EndOfEvents ==
  /\ pc = "loop"
  /\ events = <<>>
  /\ pc' = IF stop_server THEN "close_listenfd" ELSE "wait"
  /\ UNCHANGED <<loop, pipefd, pipe, rdy, net, history>>

-----------------------------------------------------------------------------
(* The end, lines 179-181 *)

CloseListenfd ==
  /\ pc = "close_listenfd"
  /\ backlog' = 0
  /\ pc' = "close_pipefd1"
  /\ UNCHANGED <<loop, pipefd, pipe, rdy, accepted, history>>

(* Mutant: the write end is closed twice.                                  *)
WriteEndTwice == <<1, 1>>

(* The order in which the two ends are closed.                             *)
CloseOrder == <<1, 0>>

ClosePipe1 ==
  /\ pc = "close_pipefd1"
  /\ pipefd' = pipefd \ {CloseOrder[1]}
  /\ pc' = "close_pipefd0"
  /\ UNCHANGED <<loop, pipe, rdy, net, history>>

ClosePipe0 ==
  /\ pc = "close_pipefd0"
  /\ pipefd' = pipefd \ {CloseOrder[2]}
  /\ pc' = "stopped"
  /\ UNCHANGED <<loop, pipe, rdy, net, history>>

-----------------------------------------------------------------------------
MainStep ==
  \/ EpollWait \/ Check
  \/ Accept \/ AcceptAborts \/ ReadSignals \/ IgnoreClient \/ EndOfEvents
  \/ CloseListenfd \/ ClosePipe1 \/ ClosePipe0

SignalStep == \E sig \in Signals : Handle(sig) \/ Interrupt(sig)

Next == MainStep \/ EpollFails \/ SignalStep \/ Connect \/ ClientSends

Spec == Init /\ [][Next]_vars

(* The thread is scheduled; epoll_wait need not fail, and signals and       *)
(* clients owe nothing.                                                    *)
FairSpec == Spec /\ WF_vars(MainStep)

-----------------------------------------------------------------------------
(* Properties *)

(* What epoll_wait reported is still there when the loop comes to it:       *)
(* accept finds a connection and recv a byte (lines 129, 138), so that the  *)
(* assertion fails for want of descriptors only, and recv never fails.      *)
ReportsAreCurrent ==
  /\ At("listenfd") => backlog > 0
  /\ At("pipefd0") => pipe # <<>>

(* ET mode and one recv per event are enough (lines 101, 138), since recv   *)
(* takes all the pipe can hold: no byte waits in the pipe unless its event  *)
(* is in the ready list or reported.  And no request to stop is lost on the *)
(* way from the handler to the loop, as long as the signals that came fit   *)
(* into the pipe; beyond, the handler drops them (line 42).                 *)
NoSignalLost ==
  InLoop =>
    /\ pipe # <<>> => "pipefd0" \in Range(rdy) \cup Range(events)
    /\ asked /\ delivered <= PIPE_CAPACITY =>
         stop_server \/ \E k \in 1 .. Len(pipe) : pipe[k] \in Stopping

(* The server leaves its loop only when a signal asked it to or epoll_wait  *)
(* failed: a handler that runs between epoll_wait and the test of errno,    *)
(* and finds the pipe full, does not turn EINTR into a failure (lines       *)
(* 40-43, 114).  Nor does a signal that arrives while the server ends kill  *)
(* it: the write end is closed before the read end (lines 180-181).         *)
StopsForAReason ==
  ~InLoop /\ pc # "aborted" => pc # "killed" /\ (asked \/ broken)

(* A SIGTERM or SIGINT that reached the pipe ends the server (lines         *)
(* 152-167), unless the assertion does.                                     *)
StopRequestHonoured ==
  (InLoop /\ \E k \in 1 .. Len(pipe) : pipe[k] \in Stopping) ~> ~InLoop

=============================================================================
