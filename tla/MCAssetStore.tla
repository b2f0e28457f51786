----------------------------- MODULE MCAssetStore -----------------------------
(* AssetStore on a small instance.                                          *)
EXTENDS AssetStore, TLC

CONSTANTS k1, k2

\* Two different packages of one portable course version.
TwoPackages == {k1, k2}

OneVersion == k1 :> 1 @@ k2 :> 1

\* Identifiers carry no order.
Interchangeable == Permutations(Requests) \cup Permutations(Assets) \cup Permutations(Objects)

=============================================================================
