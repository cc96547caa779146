------------------------- MODULE MCProviderReadCache -------------------------
EXTENDS ProviderReadCache, TLC

CONSTANTS k1, k2, k3, powerbi, fabric, other

(* A list read with the Power BI token of one user, a definition read with *)
(* the Fabric token of the same, and a read of another user.               *)
MCTokens == {powerbi, fabric, other}
MCTokenOf == k1 :> powerbi @@ k2 :> fabric @@ k3 :> other
MCLastVersion == [k \in Keys |-> IF k = k1 THEN 2 ELSE 1]
MCFirstVersion == [k \in Keys |-> IF k = k1 THEN 0 ELSE 1]
MCRefreshes == {{powerbi, fabric}}

Symmetry == Permutations(Callers)
=============================================================================
