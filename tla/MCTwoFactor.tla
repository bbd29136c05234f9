---------------------------- MODULE MCTwoFactor -----------------------------
(***************************************************************************)
(* Small instances of TwoFactor.                                           *)
(***************************************************************************)
EXTENDS TwoFactor, TLC

MCSymmetry == Permutations(Req) \cup Permutations(Challenge)

=============================================================================
