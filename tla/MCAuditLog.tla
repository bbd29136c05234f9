----------------------------- MODULE MCAuditLog -----------------------------
(***************************************************************************)
(* Small instances of AuditLog.                                            *)
(***************************************************************************)
EXTENDS AuditLog, TLC

MCSymmetry == Permutations(User) \cup Permutations(Req)

=============================================================================
