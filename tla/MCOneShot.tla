------------------------------ MODULE MCOneShot -----------------------------
(***************************************************************************)
(* TLC instances of OneShot: clients are interchangeable model values.     *)
(***************************************************************************)
EXTENDS OneShot, TLC

ClientSymmetry == Permutations(Clients)
=============================================================================
