--------------------------- MODULE MCAssetsLoader ---------------------------
(* Three jobs over two transactions that share two assets, lock them in      *)
(* opposite orders, mint over the limit, and burn what the other has to mint *)
(* first; one job may be tried again.                                        *)
EXTENDS AssetsLoader, TLC

CONSTANTS j1, j2, j3, t1, t2, a1, a2

Mint(x, n) == [kind |-> "mint", asset |-> x, value |-> n]
Burn(x, n) == [kind |-> "burn", asset |-> x, value |-> n]

MCOps == t1 :> <<Mint(a1, 5), Mint(a2, 2)>>
      @@ t2 :> <<Mint(a2, 10), Burn(a1, 1)>>

MCAttempts == j1 :> 2 @@ j2 :> 1 @@ j3 :> 1
=============================================================================
