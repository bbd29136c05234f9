----------------------------- MODULE MCAutoLock -----------------------------
(***************************************************************************)
(* Small instances of AutoLock.                                            *)
(***************************************************************************)
EXTENDS AutoLock

=============================================================================
