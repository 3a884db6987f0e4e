--------------------------- MODULE MCHandoffRelay ---------------------------
(* Instances of HandoffRelay for TLC.                                       *)
EXTENDS HandoffRelay, TLC

CONSTANTS r1, r2, o1, o2, o3
=============================================================================
