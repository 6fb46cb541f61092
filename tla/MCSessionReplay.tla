-------------------------- MODULE MCSessionReplay --------------------------
(***************************************************************************)
(* Clients are interchangeable in the safety runs.                         *)
(***************************************************************************)
EXTENDS SessionReplay, TLC

ClientSymmetry == Permutations(Clients)
=============================================================================
