------------------------------ MODULE ChatRoom ------------------------------
(***************************************************************************)
(* What a chat room promises its members as long as it is calm, that is,   *)
(* until a member is gone: each hears the others only, in stretches of     *)
(* consecutive words of one author, never again what he has heard already, *)
(* and never words that the author has not said.  Words may be left out.   *)
(* TalkServer implements it; TalkSystem puts the chat clients around it.   *)
(***************************************************************************)
EXTENDS Naturals, Sequences

CONSTANTS
  Clients,
  MaxSend  \* the most units taken or told at once

VARIABLES
  calm,    \* nobody is gone
  said,    \* number of units the room has taken from each author: 1, 2, ...
  heard    \* the units <<author, number>> each member has been told

vars == <<calm, said, heard>>

(* The number of the last unit of author a that member c has been told.    *)
LastOf(c, a) ==
  LET told == {heard[c][j][2] : j \in {k \in 1 .. Len(heard[c]) : heard[c][k][1] = a}}
  IN  CHOOSE n \in told \cup {0} : \A k \in told : k <= n

Init ==
  /\ calm = TRUE
  /\ said = [c \in Clients |-> 0]
  /\ heard = [c \in Clients |-> <<>>]

Take(c, n) ==
  /\ said' = [said EXCEPT ![c] = @ + n]
  /\ UNCHANGED <<calm, heard>>

(* Member c is told the units first .. last of author a.                   *)
Tell(c, a, first, last) ==
  /\ a # c
  /\ LastOf(c, a) < first /\ first <= last /\ last <= said[a]
  /\ heard' = [heard EXCEPT ![c] =
                 @ \o [k \in 1 .. last - first + 1 |-> <<a, first + k - 1>>]]
  /\ UNCHANGED <<calm, said>>

(* Once a member is gone nothing is promised to those who stay.            *)
Break == ~calm'

CalmStep ==
  \E c \in Clients :
    \/ \E n \in 1 .. MaxSend : Take(c, n)
    \/ \E a \in Clients : \E first, last \in 1 .. said[a] : Tell(c, a, first, last)

Next == (calm /\ CalmStep) \/ Break

Spec == Init /\ [][Next]_vars
=============================================================================
