-------------------------- MODULE MCOrderIdSegment --------------------------
(* An instance of OrderIdSegment for TLC.                                  *)
EXTENDS OrderIdSegment, TLC

CONSTANTS j1, j2, t1, t2, t3

TwoJvms == (t1 :> j1) @@ (t2 :> j1) @@ (t3 :> j2)
=============================================================================
