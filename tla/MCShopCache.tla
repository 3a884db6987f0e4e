---------------------------- MODULE MCShopCache ----------------------------
(* An instance of ShopCache for TLC.                                        *)
EXTENDS ShopCache, TLC

CONSTANTS j1, j2, r1, r2

TwoJvms == (r1 :> j1) @@ (r2 :> j2)
=============================================================================
