----------------------------- MODULE ReadyList ------------------------------
(***************************************************************************)
(* The ready list of an epoll set, as Linux keeps it: a descriptor is on   *)
(* it at most once, an event appends it, and what is taken off leaves the  *)
(* others in their order.                                                  *)
(***************************************************************************)
EXTENDS Integers, SequencesExt

Queued(list, d) == IF d \in Range(list) THEN list ELSE Append(list, d)

Precedes(list, d, e) ==
  \E i, j \in DOMAIN list : i < j /\ list[i] = d /\ list[j] = e

(* What is left of a list when only its entries in S are kept: a set with  *)
(* one element, the list without duplicates being given.  (SelectSeq would *)
(* do, but nothing is known to the provers about it.)                      *)
Kept(list, S) ==
  LET entries == Range(list) \cap S
  IN  {q \in [1 .. Cardinality(entries) -> entries] :
         /\ Range(q) = entries
         /\ \A i, j \in DOMAIN q : i < j => Precedes(list, q[i], q[j])}
=============================================================================
