----------------------------- MODULE MCPrograms -----------------------------
(***************************************************************************)
(* TLC runs the small programs of Urgent, UnblockConnect and Exchange, one *)
(* of the three modules at a time: prog says which, and the others stay in *)
(* one of their initial states.                                            *)
(***************************************************************************)
EXTENDS Naturals, Sequences

VARIABLES
  prog,
  sender, receiver, sent, fin, arrived, eof, copied, urg, signal,
  pc, handler, owned, sig, isset, normal, oob,
  step, result, why, open, nonblock, garbage, writefds, link, so_error, wasUp,
  pair, tty, at, how, wrote, read, conn, stdout, text, piped, closed, err, lost, pieces

Urg == INSTANCE Urgent
Con == INSTANCE UnblockConnect
Exc == INSTANCE Exchange

urgent == <<sender, receiver, sent, fin, arrived, eof, copied, urg, signal,
            pc, handler, owned, sig, isset, normal, oob>>
connect == <<step, result, why, open, nonblock, garbage, writefds, link, so_error, wasUp>>
exchange == <<pair, tty, at, how, wrote, read, conn, stdout, text, piped, closed, err, lost, pieces>>
vars == <<prog, urgent, connect, exchange>>

Init ==
  /\ prog \in {"urgent", "connect", "exchange"}
  /\ Urg!Init /\ (prog # "urgent" => sender = "oobsend" /\ receiver = "oobrecv")
  /\ Con!Init /\ (prog # "connect" => ~garbage)
  /\ Exc!Init /\ (prog # "exchange" => pair = "dup" /\ tty)

Urgent(A) == prog = "urgent" /\ A /\ UNCHANGED <<prog, connect, exchange>>
Connect(A) == prog = "connect" /\ A /\ UNCHANGED <<prog, urgent, exchange>>
Exchange(A) == prog = "exchange" /\ A /\ UNCHANGED <<prog, urgent, connect>>

Next == Urgent(Urg!Next) \/ Connect(Con!Next) \/ Exchange(Exc!Next)

(* The fairness of the three modules.                                      *)
FairSpec ==
  /\ Init /\ [][Next]_vars
  /\ WF_vars(Urgent(Urg!ReceiverStep)) /\ WF_vars(Urgent(Urg!SigUrg))
  /\ WF_vars(Connect(Con!CallStep))
  /\ \A s \in Exc!Sides :
       WF_vars(Exchange(Exc!SideStep(s))) /\ WF_vars(Exchange(Exc!ResetArrives(s)))

-----------------------------------------------------------------------------
(* The type invariants of the three modules.                               *)
TypeOK == Urg!TypeOK /\ Con!TypeOK /\ Exc!TypeOK

(* The urgent byte is taken, but for the losses that Urgent names, which    *)
(* are losses indeed: SIGURG too early for its owner or before the byte     *)
(* (chap10 10.3, lines 24, 74-77), and data or the FIN behind the byte when *)
(* select is called (chap9 9.1, lines 72, 82).  Normal data stays whole.    *)
UrgentNoticed == Urg!UrgentNoticed

(* unblock_connect returns connected sockets only, and gives up connections *)
(* for a reason only: see UnblockConnect (chap9 9.5).                       *)
ConnectHonest == Con!ConnectHonest

(* The programs end, except that the two of 6.1 wait for each other exactly *)
(* if TCP has brought three messages in fewer than three pieces (lines      *)
(* 51-59 of the server), and that of 6.4 waits exactly if nothing was sent  *)
(* (line 60).  Exchange says for each pair what has been read by then, and  *)
(* which assertion or signal may have ended it.                             *)
ComeToRest ==
  /\ Urg!ReceiverEnds
  /\ prog = "connect" => Con!ConnectReturns
  /\ prog = "exchange" => Exc!ComesToRest
=============================================================================
