---------------------------- MODULE MCTalkSystem ----------------------------
(***************************************************************************)
(* A TLC instance of TalkSystem: ann types two units at a terminal, bob    *)
(* one, from a pipe.                                                       *)
(***************************************************************************)
EXTENDS TalkSystem

CONSTANTS ann, bob

MCMaxType == [c \in {ann, bob} |-> IF c = ann THEN 2 ELSE 1]
MCMaxHeard == [c \in {ann, bob} |-> IF c = ann THEN 1 ELSE 2]
=============================================================================
