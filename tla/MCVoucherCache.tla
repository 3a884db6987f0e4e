--------------------------- MODULE MCVoucherCache ---------------------------
(* An instance of VoucherCache for TLC.                                     *)
EXTENDS VoucherCache, TLC

CONSTANTS j1, j2, r1, r2, a1, a2

TwoJvms == (r1 :> j1) @@ (r2 :> j2) @@ (a1 :> j1) @@ (a2 :> j2)
=============================================================================
