--------------------------- MODULE MCKeyHierarchy ---------------------------
(***************************************************************************)
(* Two tabs of different releases, an account and the fallback address,    *)
(* two passwords, one item.                                                *)
(***************************************************************************)
EXTENDS KeyHierarchy, TLC

CONSTANTS t1, t2, p, q

MCTab  == {t1, t2}
MCName == {"alice"}
MCFallback == "user@vault.local"
MCForm == {"canonical", "shouted"}
MCPassword == {p, q}
MCSymmetry == Permutations(MCPassword)
MCText   == {"x"}
MCParams == {"m64", "m128"}

\* The second tab runs a newer bundle than the first, and than the server.
MCClientDefault == [t \in MCTab |-> IF t = t1 THEN "m64" ELSE "m128"]
MCServerDefault == "m64"
=============================================================================
