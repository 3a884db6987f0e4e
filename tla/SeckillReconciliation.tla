----------------------- MODULE SeckillReconciliation -----------------------
(***************************************************************************)
(* The scheduled rebuild of Redis from MySQL, next to the live pipeline.   *)
(* It works in steps: list the vouchers, take the recovery lease, read the *)
(* outbox, the buyers and the handoff, look each handoff member up in the  *)
(* outbox, and swap the result in.  Only admission respects the lease.     *)
(***************************************************************************)
EXTENDS SeckillOrder

VARIABLES
    recPc,          \* the reconciler
    recStock,       \* voucher.getStock(), as list() returned it
    recReserved,    \* reservedOrderIds
    recUsers,       \* purchasedUserIds
    recMembers,     \* handoff members still to be looked up
    recHandoffOnly, \* handoffOnly
    \* ghosts
    recRows,        \* orders with an outbox row when the lease was taken
    disturbed       \* what the rest of the system did since list()

registers == <<recStock, recReserved, recUsers, recMembers, recHandoffOnly>>
recVars == <<recPc, registers, recRows, disturbed>>
allVars == <<vars, recVars>>

RecTypeOK ==
    /\ TypeOK
    /\ recPc \in {"idle", "listed", "locked", "events", "users", "members"}
    /\ recStock \in Nat
    /\ recReserved \subseteq Orders
    /\ recUsers \subseteq Users
    /\ recMembers \subseteq Orders
    /\ recHandoffOnly \in 0 .. Cardinality(Orders)
    /\ recRows \subseteq Orders
    /\ disturbed \in {"no", "moved", "cancelled"}

RecInit ==
    /\ Init
    /\ recPc = "idle"
    /\ recStock = 0
    /\ recReserved = {}
    /\ recUsers = {}
    /\ recMembers = {}
    /\ recHandoffOnly = 0
    /\ recRows = {}
    /\ disturbed = "no"

-----------------------------------------------------------------------------

\* Redis and MySQL while the reconciler only reads.
ReadsOnly == UNCHANGED <<vars, disturbed>>

\* reconcileAllVouchers: the stock is read for all vouchers up front.
RecList ==
    /\ recPc = "idle"
    /\ recPc' = "listed"
    /\ recStock' = dbStock
    /\ disturbed' = "no"
    /\ UNCHANGED <<vars, recReserved, recUsers, recMembers, recHandoffOnly, recRows>>

\* SET NX of the recovery key; a voucher under recovery is skipped.
RecLock ==
    /\ recPc = "listed"
    /\ ~recovering
    /\ recovering' = TRUE
    /\ recPc' = "locked"
    /\ recRows' = {o \in Orders : outbox[o] # "none"}
    /\ UNCHANGED <<stock, purchased, handoff, accepted, quarantine, dbVars, kafkaVars,
                   retryVars, cancelVars, registers, disturbed>>

\* Mutant: an event that was sent counts as persisted.
UnpersistedPending(o) == outbox[o] = "PENDING" /\ order[o] = "none"

\* findUnpersistedEvents
Unpersisted(o) ==
    /\ outbox[o] \in {"PENDING", "SENT", "MANUAL_REVIEW"}
    /\ order[o] = "none"

RecReadEvents ==
    /\ recPc = "locked"
    /\ recReserved' = {o \in Orders : Unpersisted(o)}
    /\ recUsers' = {BuyerOf[o] : o \in recReserved'}
    /\ recPc' = "events"
    /\ ReadsOnly
    /\ UNCHANGED <<recStock, recMembers, recHandoffOnly, recRows>>

\* findActiveUserIds
RecReadUsers ==
    /\ recPc = "events"
    /\ recUsers' = recUsers \cup {BuyerOf[o] : o \in Active}
    /\ recPc' = "users"
    /\ ReadsOnly
    /\ UNCHANGED <<recStock, recReserved, recMembers, recHandoffOnly, recRows>>

\* handoffService.findAll
RecReadHandoff ==
    /\ recPc = "users"
    /\ recMembers' = handoff
    /\ recPc' = "members"
    /\ ReadsOnly
    /\ UNCHANGED <<recStock, recReserved, recUsers, recHandoffOnly, recRows>>

\* Mutant: members whose outbox row exists are counted again.
CountedTwice(o) == o \notin recReserved

\* Only members that are not in the outbox by now are reservations of their own.
HandoffOnly(o) == o \notin recReserved /\ outbox[o] = "none"

Remaining(o) == recMembers \ {o}

\* mergeHandoffReservations, one member
RecLookUp(o) ==
    /\ recPc = "members"
    /\ o \in recMembers
    /\ recMembers' = Remaining(o)
    /\ recUsers' = recUsers \cup {BuyerOf[o]}
    /\ recHandoffOnly' = recHandoffOnly + (IF HandoffOnly(o) THEN 1 ELSE 0)
    /\ ReadsOnly
    /\ UNCHANGED <<recPc, recStock, recReserved, recRows>>

RecEnd ==
    /\ recPc' = "idle"
    /\ recStock' = 0
    /\ recReserved' = {}
    /\ recUsers' = {}
    /\ recMembers' = {}
    /\ recHandoffOnly' = 0
    /\ recRows' = {}
    /\ UNCHANGED disturbed

\* Mutant: the handoff is subtracted as a whole.
HandoffSubtracted ==
    LET rest == recStock - Cardinality(recReserved) - recHandoffOnly - Cardinality(handoff)
    IN  IF rest < 0 THEN 0 ELSE rest

ExpectedStock ==
    LET rest == recStock - Cardinality(recReserved) - recHandoffOnly
    IN  IF rest < 0 THEN 0 ELSE rest

\* seckill_rebuild.lua, which checks the lease and drops it.
RecRebuild ==
    /\ recPc = "members"
    /\ recMembers = {}
    /\ recovering
    /\ stock' = ExpectedStock
    /\ purchased' = recUsers
    /\ recovering' = FALSE
    /\ RecEnd
    /\ UNCHANGED <<handoff, accepted, quarantine, dbVars, kafkaVars, retryVars, cancelVars>>

\* A skipped voucher, a failed read, a lost lease: the script frees what is held.
RecAbort ==
    /\ recPc # "idle"
    /\ recovering' = (recovering /\ recPc = "listed")
    /\ RecEnd
    /\ UNCHANGED <<stock, purchased, handoff, accepted, quarantine, dbVars, kafkaVars,
                   retryVars, cancelVars>>

\* The process dies and leaves the lease behind.
RecCrash ==
    /\ recPc # "idle"
    /\ RecEnd
    /\ UNCHANGED vars

\* The lease of the recovery key runs out.
RecExpire ==
    /\ recovering
    /\ recovering' = FALSE
    /\ UNCHANGED <<stock, purchased, handoff, accepted, quarantine, dbVars, kafkaVars,
                   retryVars, cancelVars, recVars>>

\* The rest of the system, which a rebuild does not stop.
SaleStep ==
    /\ (\E o \in Orders : Seckill(o)) \/ Transport \/ Recovery
    /\ disturbed' = IF recPc = "idle" \/ disturbed = "cancelled" THEN disturbed ELSE "moved"
    /\ UNCHANGED <<recPc, registers, recRows>>

CancelStep ==
    /\ Cancellation
    /\ disturbed' = IF recPc = "idle" THEN disturbed ELSE "cancelled"
    /\ UNCHANGED <<recPc, registers, recRows>>

RecNext ==
    \/ RecList \/ RecLock \/ RecReadEvents \/ RecReadUsers \/ RecReadHandoff
    \/ \E o \in recMembers : RecLookUp(o)
    \/ RecRebuild \/ RecAbort \/ RecCrash \/ RecExpire
    \/ SaleStep \/ CancelStep

RecSpec == RecInit /\ [][RecNext]_allVars

(***************************************************************************)
(* Properties.                                                             *)
(***************************************************************************)

Buyers(S) == {BuyerOf[o] : o \in S}

\* A rebuild that nothing disturbed repairs Redis, whatever an undone
\* cancellation had left there: what is for sale is what no order claims, none
\* if too many do, and the permits are those of the orders, and of what the
\* handoff still lists, be it cancelled since.  Quarantine is not looked at.
RebuildRepairs ==
    [][(RecRebuild /\ disturbed = "no" /\ quarantine = {}) =>
        /\ LET claimed == Cardinality(Reserved) + Cardinality(Active)
           IN  stock' = IF claimed > InitStock THEN 0 ELSE InitStock - claimed
        /\ purchased' = Buyers(Reserved \cup Active \cup handoff)]_allVars

\* However the pipeline moves meanwhile, a user whose order was in the outbox
\* when the lease was taken is not forgotten, unless the order is cancelled:
\* the outbox is read before the orders, in the direction orders move.
RebuildKeepsRows ==
    [][RecRebuild =>
        \A o \in recRows : order[o] # "CANCELLED" => BuyerOf[o] \in purchased']_allVars

\* Without a cancellation in between, no unit is subtracted twice, although
\* an order may be in the handoff, the outbox and the order table at a time.
RebuildLosesNoUnit ==
    [][(RecRebuild /\ disturbed # "cancelled") =>
        stock' + Cardinality(Admitted \ {o \in Orders : order[o] = "CANCELLED"})
            >= InitStock]_allVars

\* docs: the rebuild makes the stock of Redis a projection of MySQL again, so
\* it never offers a unit that an order already has.
RebuildNeverOversells ==
    [][RecRebuild => stock' + Cardinality(Reserved) + Cardinality(Active) <= InitStock]_allVars
=============================================================================
