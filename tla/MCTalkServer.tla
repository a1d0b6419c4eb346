---------------------------- MODULE MCTalkServer ----------------------------
(***************************************************************************)
(* TLC instances of TalkServer: clients are interchangeable model values.  *)
(***************************************************************************)
EXTENDS TalkServer, TLC

ClientSymmetry == Permutations(Clients)
=============================================================================
