--------------------------- MODULE MCSeckillOrder ---------------------------
(* Instances of SeckillOrder for TLC: a user with two requests and one with  *)
(* one, and one request of each.                                             *)
EXTENDS SeckillOrder, TLC

CONSTANTS u1, u2, o1, o2, o3

\* A user who comes back after cancelling, and a competitor.
ThreeRequests == (o1 :> u1) @@ (o2 :> u1) @@ (o3 :> u2)
TwoBuyers     == (o1 :> u1) @@ (o2 :> u2)
=============================================================================
