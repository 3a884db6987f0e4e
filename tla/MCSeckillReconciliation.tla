---------------------- MODULE MCSeckillReconciliation ----------------------
(* Instances of SeckillReconciliation for TLC.                              *)
EXTENDS SeckillReconciliation, TLC

CONSTANTS u1, u2, o1, o2

\* The buyers are interchangeable together with their requests.
Swap == {p \in Permutations(Orders \cup Users) :
            (\A u \in Users : p[u] \in Users) /\ (\A o \in Orders : BuyerOf[p[o]] = p[BuyerOf[o]])}

TwoBuyers == (o1 :> u1) @@ (o2 :> u2)

\* Bound: a record whose order is stored is acknowledged, not delivered again; a
\* second delivery would change neither MySQL nor Redis.
DeliveredOnce == \A o \in topic : order[o] = "none"
=============================================================================
