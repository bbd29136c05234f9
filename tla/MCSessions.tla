----------------------------- MODULE MCSessions -----------------------------
(***************************************************************************)
(* Small instances of Sessions.                                            *)
(***************************************************************************)
EXTENDS Sessions, TLC

MCSymmetry == Permutations(User) \cup Permutations(Req)

=============================================================================
