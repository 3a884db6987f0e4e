------------------------ MODULE MCSeckillOrderStatus ------------------------
(* An instance of SeckillOrderStatus for TLC: one order, since a query reads *)
(* nothing of any other.                                                     *)
EXTENDS SeckillOrderStatus, TLC

CONSTANTS u1, o1

OneBuyer == o1 :> u1
=============================================================================
