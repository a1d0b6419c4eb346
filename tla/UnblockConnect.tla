--------------------------- MODULE UnblockConnect ---------------------------
(***************************************************************************)
(* unblock_connect of chap9, 9.5unblockconnect_error.cpp: a connect with a *)
(* timeout, by a non-blocking socket and select.  The answer of the server *)
(* comes when it likes, also after the timeout and before the close.       *)
(*                                                                         *)
(* writefds is not initialised (line 62): of its bits below sockfd, which  *)
(* are open descriptors since sockfd is the lowest free one, some may name *)
(* a writable one, and then select returns at once without sockfd.         *)
(***************************************************************************)

VARIABLES
  step,      \* where unblock_connect is
  result,    \* what it returned: "none", "sockfd" or "-1"
  why,       \* history: the branch that returned
  open,      \* sockfd is open
  nonblock,  \* O_NONBLOCK is set
  garbage,   \* writefds names a lower descriptor that is writable
  writefds,  \* after select: sockfd is in it
  link,      \* TCP: "closed", "syn", "up" or "down"
  so_error,  \* pending error of the socket
  wasUp      \* history: the connection has been established

call == <<step, result, why, open, nonblock>>
fdset == <<garbage, writefds>>
tcp == <<link, so_error, wasUp>>
vars == <<call, fdset, tcp>>

TypeOK ==
  /\ step \in {"socket", "connect", "select", "isset", "sockopt", "test",
               "restore", "close", "returned", "ended"}
  /\ result \in {"none", "sockfd", "-1"}
  /\ why \in {"none", "immediate", "unsupported", "timeout", "noevent", "error", "ready"}
  /\ open \in BOOLEAN /\ nonblock \in BOOLEAN
  /\ garbage \in BOOLEAN /\ writefds \in BOOLEAN
  /\ link \in {"closed", "syn", "up", "down"}
  /\ so_error \in BOOLEAN /\ (so_error => link = "down")
  /\ wasUp \in BOOLEAN /\ (link = "up" => wasUp)
  /\ result # "none" <=> step \in {"returned", "ended"}

Init ==
  /\ step = "socket"
  /\ result = "none" /\ why = "none"
  /\ open = FALSE /\ nonblock = FALSE
  /\ garbage \in BOOLEAN /\ writefds = FALSE
  /\ link = "closed" /\ so_error = FALSE /\ wasUp = FALSE

-----------------------------------------------------------------------------
(* The network *)

Established ==
  /\ link = "syn" /\ open
  /\ link' = "up" /\ wasUp' = TRUE
  /\ UNCHANGED <<call, fdset, so_error>>

(* A refusal, or a reset of an established connection.                     *)
Broken ==
  /\ link \in {"syn", "up"} /\ open
  /\ link' = "down" /\ so_error' = TRUE
  /\ UNCHANGED <<call, fdset, wasUp>>

-----------------------------------------------------------------------------
(* unblock_connect, lines 31-110 *)

Return(value, branch) ==
  /\ step' = "returned"
  /\ result' = value
  /\ why' = branch

Goto(next) == step' = next /\ UNCHANGED <<result, why>>

Socket ==
  /\ step = "socket"
  /\ open' = TRUE
  /\ nonblock' = TRUE
  /\ Goto("connect")
  /\ UNCHANGED <<fdset, tcp>>

ConnectStarts ==
  /\ step = "connect"
  /\ link' = "syn"
  /\ Goto("select")
  /\ UNCHANGED <<open, nonblock, fdset, so_error, wasUp>>

ConnectSucceeds ==
  /\ step = "connect"
  /\ link' = "up" /\ wasUp' = TRUE
  /\ nonblock' = FALSE
  /\ Return("sockfd", "immediate")
  /\ UNCHANGED <<open, fdset, so_error>>

(* Any other errno: the socket is not closed (line 57).                    *)
ConnectFails ==
  /\ step = "connect"
  /\ link' = "down"
  /\ Return("-1", "unsupported")
  /\ UNCHANGED <<open, nonblock, fdset, so_error, wasUp>>

Writable == link \in {"up", "down"}

Select ==
  /\ step = "select"
  /\ Writable \/ garbage
  /\ writefds' = Writable
  /\ Goto("isset")
  /\ UNCHANGED <<open, nonblock, garbage, tcp>>

(* Ten seconds are over and nothing was ready, or select failed (72-78).   *)
SelectTimeout ==
  /\ step = "select"
  /\ step' = "close" /\ why' = "timeout"
  /\ UNCHANGED <<result, open, nonblock, fdset, tcp>>

IsSet ==
  /\ step = "isset"
  /\ IF writefds THEN step' = "sockopt" /\ UNCHANGED why
                 ELSE step' = "close" /\ why' = "noevent"
  /\ UNCHANGED <<result, open, nonblock, fdset, tcp>>

(* Mutant: the pending error is not asked for (lines 87-104).              *)
ErrorIgnored == FALSE

PendingError == so_error

(* SO_ERROR reports the error and clears it.                               *)
GetSockError ==
  /\ step = "sockopt"
  /\ so_error' = FALSE
  /\ IF PendingError THEN step' = "close" /\ why' = "error"
                     ELSE step' = "restore" /\ UNCHANGED why
  /\ UNCHANGED <<result, open, nonblock, fdset, link, wasUp>>

CloseAndFail ==
  /\ step = "close"
  /\ open' = FALSE
  /\ link' = "closed" /\ so_error' = FALSE
  /\ Return("-1", why)
  /\ UNCHANGED <<nonblock, fdset, wasUp>>

Restore ==
  /\ step = "restore"
  /\ nonblock' = FALSE
  /\ Return("sockfd", "ready")
  /\ UNCHANGED <<open, fdset, tcp>>

(* main, lines 123-130: the end of the process closes a leaked socket too. *)
MainEnds ==
  /\ step = "returned"
  /\ step' = "ended"
  /\ open' = FALSE
  /\ link' = "closed" /\ so_error' = FALSE
  /\ UNCHANGED <<result, why, nonblock, fdset, wasUp>>

CallStep ==
  \/ Socket \/ ConnectStarts \/ ConnectSucceeds \/ ConnectFails
  \/ Select \/ SelectTimeout \/ IsSet \/ GetSockError
  \/ CloseAndFail \/ Restore \/ MainEnds

Next == CallStep \/ Established \/ Broken

Spec == Init /\ [][Next]_vars

FairSpec == Spec /\ WF_vars(CallStep)

-----------------------------------------------------------------------------
(* Properties *)

(* The comment of line 30: on success the socket returned is connected, and *)
(* else the result is -1.  A socket that is returned has been connected, is *)
(* open and blocks again, whatever select says about descriptors that are   *)
(* in writefds by accident (lines 62-65, 80, 91-104).  A connection that    *)
(* stands is given up only after a timeout or by that accident, and -1      *)
(* leaves the socket open only if connect failed at once (line 57).         *)
ConnectHonest ==
  /\ result = "sockfd" /\ step = "returned" => wasUp /\ open /\ ~nonblock
  /\ result = "-1" /\ open => why = "unsupported"
  /\ step = "close" /\ link = "up" => why = "timeout" \/ (why = "noevent" /\ garbage)

(* It returns, whatever the network does.                                   *)
ConnectReturns == <>(step = "ended")
=============================================================================
