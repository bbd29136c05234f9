----------------------------- MODULE MCVaultKeys -----------------------------
(***************************************************************************)
(* Small instances of VaultKeys.                                           *)
(***************************************************************************)
EXTENDS VaultKeys, TLC

MCSymmetry == Permutations(Tab) \cup Permutations(Item) \cup Permutations(Text)

=============================================================================
