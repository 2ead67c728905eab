---------------------------- MODULE MCClientSession ----------------------------
(***************************************************************************)
(* A small instance of ClientSession for TLC.                              *)
(***************************************************************************)
EXTENDS ClientSession, TLC

MCSymmetry == Permutations(Goroutine) \cup Permutations(Token)

=============================================================================
