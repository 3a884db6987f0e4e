----------------------------- MODULE SeckillSale -----------------------------
(***************************************************************************)
(* What the sale of one voucher promises, without Redis, MySQL, Kafka or   *)
(* any process: a request is accepted while there are units and its buyer  *)
(* holds none, an accepted order is placed, a placed one can be given up.  *)
(* Each of these happens to an order at most once.  Two disturbances show: *)
(* a cancellation is taken back, or it is confirmed and nobody hears of    *)
(* it, so that its unit may be taken off the sale again.                   *)
(***************************************************************************)
EXTENDS Integers

CONSTANTS
    Users,
    Orders,
    BuyerOf,
    InitStock,
    MaxUndone       \* bound: units owed for cancellations that were taken back

VARIABLES
    phase,          \* how far an order has come
    units,          \* units for sale
    owed,           \* units handed out again by cancellations taken back since
    excused,        \* buyers such a cancellation belonged to
    unheard         \* cancellations whose confirmation was not heard

sale == <<phase, units, owed, excused, unheard>>

Phases == {"new", "accepted", "placed", "cancelling", "cancelled"}

SaleTypeOK ==
    /\ phase \in [Orders -> Phases]
    /\ units \in Nat /\ owed \in 0 .. MaxUndone
    /\ excused \subseteq Users
    /\ unheard \subseteq Orders

Init ==
    /\ phase = [o \in Orders |-> "new"]
    /\ units = InitStock
    /\ owed = 0
    /\ excused = {}
    /\ unheard = {}

\* Orders that count as their buyer's.
Held == {o \in Orders : phase[o] \in {"accepted", "placed"}}

MayBuy(u) == u \in excused \/ \A o \in Held : BuyerOf[o] # u

Accept(o) ==
    /\ phase[o] = "new"
    /\ units > 0
    /\ MayBuy(BuyerOf[o])
    /\ phase' = [phase EXCEPT ![o] = "accepted"]
    /\ units' = units - 1
    /\ UNCHANGED <<owed, excused, unheard>>

\* Orders become durable in groups.
Place(B) ==
    /\ \A o \in B : phase[o] = "accepted"
    /\ phase' = [o \in Orders |-> IF o \in B THEN "placed" ELSE phase[o]]
    /\ UNCHANGED <<units, owed, excused, unheard>>

\* The unit is for sale again before the cancellation is final.
Cancel(o) ==
    /\ phase[o] = "placed"
    /\ phase' = [phase EXCEPT ![o] = "cancelling"]
    /\ units' = units + 1
    /\ UNCHANGED <<owed, excused, unheard>>

Confirm(o) ==
    /\ phase[o] = "cancelling"
    /\ phase' = [phase EXCEPT ![o] = "cancelled"]
    /\ unheard' \in {unheard, unheard \cup {o}}
    /\ UNCHANGED <<units, owed, excused>>

TakeBack(o) ==
    /\ phase[o] = "cancelling"
    /\ owed < MaxUndone
    /\ phase' = [phase EXCEPT ![o] = "placed"]
    /\ owed' = owed + 1
    /\ excused' = excused \cup {BuyerOf[o]}
    /\ UNCHANGED <<units, unheard>>

\* A unit that is owed is withdrawn before anyone has bought it.
Withdraw ==
    /\ owed > 0 /\ units > 0
    /\ units' = units - 1
    /\ owed' = owed - 1
    /\ UNCHANGED <<phase, excused, unheard>>

\* A confirmation that was not heard costs one unit, or none.
Withhold(o) ==
    /\ o \in unheard
    /\ unheard' = unheard \ {o}
    /\ \/ units > 0 /\ units' = units - 1
       \/ UNCHANGED units
    /\ UNCHANGED <<phase, owed, excused>>

Next ==
    \/ \E o \in Orders : Accept(o) \/ Cancel(o) \/ Confirm(o) \/ TakeBack(o)
    \/ \E B \in SUBSET Orders : Place(B)
    \/ Withdraw
    \/ \E o \in Orders : Withhold(o)

Spec == Init /\ [][Next]_sale
=============================================================================
