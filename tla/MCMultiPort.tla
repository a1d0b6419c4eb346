---------------------------- MODULE MCMultiPort -----------------------------
(***************************************************************************)
(* TLC instance of MultiPort: one peer's datagram is longer than the       *)
(* buffer, the other's is shorter, or empty.                               *)
(***************************************************************************)
EXTENDS MultiPort

CONSTANTS p1, p2

TwoPeers == {p1, p2}

LongShortEmpty ==
  {[from |-> p1, len |-> UDP_BUFFER_SIZE]} \cup [from : {p2}, len : {0, 1}]
=============================================================================
