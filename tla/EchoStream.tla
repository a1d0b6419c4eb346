----------------------------- MODULE EchoStream -----------------------------
(***************************************************************************)
(* What an echo service over a byte stream promises each client, whatever  *)
(* happens inside: it hears what it said, in order, nothing left out and   *)
(* nothing twice.  MultiPort implements it for its TCP clients.            *)
(***************************************************************************)
EXTENDS Naturals, Sequences

CONSTANT Clients

VARIABLES
  status,  \* "outside", "served" or "ended", for each client
  said,    \* number of units each client has said: 1, 2, 3, ...
  heard    \* the units each client has been sent back

vars == <<status, said, heard>>

Init ==
  /\ status = [c \in Clients |-> "outside"]
  /\ said = [c \in Clients |-> 0]
  /\ heard = [c \in Clients |-> <<>>]

(* A client may speak before it is served.                                 *)
Say(c) ==
  /\ status[c] # "ended"
  /\ said' = [said EXCEPT ![c] = @ + 1]
  /\ UNCHANGED <<status, heard>>

Serve(c) ==
  /\ status[c] = "outside"
  /\ status' = [status EXCEPT ![c] = "served"]
  /\ UNCHANGED <<said, heard>>

(* The next units, as many as the service likes to take at once.           *)
Echo(c) ==
  /\ status[c] = "served"
  /\ \E n \in Len(heard[c]) + 1 .. said[c] :
       heard' = [heard EXCEPT ![c] = [k \in 1 .. n |-> k]]
  /\ UNCHANGED <<status, said>>

(* Clients leave; the service may end for all of them at once.             *)
End ==
  /\ \E leaving \in SUBSET Clients :
       status' = [c \in Clients |-> IF c \in leaving THEN "ended" ELSE status[c]]
  /\ UNCHANGED <<said, heard>>

Next == End \/ \E c \in Clients : Say(c) \/ Serve(c) \/ Echo(c)

Spec == Init /\ [][Next]_vars

(* What a client says while it is served is echoed, unless it leaves.      *)
Complete ==
  \A c \in Clients :
    (status[c] = "served" /\ Len(heard[c]) < said[c])
      ~> (status[c] = "ended" \/ Len(heard[c]) = said[c])
=============================================================================
