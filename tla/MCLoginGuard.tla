---------------------------- MODULE MCLoginGuard ----------------------------
(***************************************************************************)
(* Small instances of LoginGuard.                                          *)
(***************************************************************************)
EXTENDS LoginGuard, TLC

MCSymmetry == Permutations(Attempt)

=============================================================================
