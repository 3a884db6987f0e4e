--------------------------- MODULE MCVoucherStock ---------------------------
(* An instance of VoucherStock for TLC.                                     *)
EXTENDS VoucherStock

CONSTANTS a1, a2, a3

SmallAmounts == {-2, -1, 1}
=============================================================================
