---------------------------- MODULE MCVaultItems ----------------------------
(***************************************************************************)
(* A device of one account and one of another, each with any number of its *)
(* requests in flight: requests race within an account, on views that a    *)
(* lost answer has left behind, and reach across accounts.                 *)
(***************************************************************************)
EXTENDS VaultItems, TLC

CONSTANTS alice, bob, laptop, tablet

MCUserOf == [d \in Device |-> IF d = tablet THEN bob ELSE alice]

\* Requests, items and ciphertexts may be exchanged.
MCSymmetry == Permutations(Req) \cup Permutations(Item) \cup Permutations(Cipher)

=============================================================================
