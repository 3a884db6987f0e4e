---------------------------- MODULE SeckillOrder ----------------------------
(***************************************************************************)
(* The flash-sale order pipeline of one voucher, from the admission script *)
(* in Redis to the order row in MySQL and its cancellation:                *)
(*                                                                         *)
(*   seckill.lua -> ZSet handoff -> MySQL outbox -> Kafka -> order row     *)
(*                                                                         *)
(* with the dead-letter topic, the manual-review loop, redelivery at every *)
(* hop, and the cancel transaction that spans MySQL and Redis.  An order   *)
(* id stands for one request; BuyerOf is the user who sent it.             *)
(***************************************************************************)
EXTENDS Integers, FiniteSets

CONSTANTS
    Users,
    Orders,      \* order ids handed out by the id generator, one per request
    BuyerOf,     \* the user behind each request
    NoOrder,     \* "no order" for the registers that hold one
    Rejected,    \* orders whose outbox row MySQL refuses (data integrity)
    InitStock,   \* stock of the voucher when the sale opens
    MaxFailed,   \* bound: cancel transactions that fail after Redis was changed
    Dying        \* bound: orders whose records may become dead letters

ASSUME OrdersAssumption ==
    /\ IsFiniteSet(Orders)
    /\ NoOrder \notin Orders
    /\ BuyerOf \in [Orders -> Users]
    /\ Rejected \subseteq Orders
ASSUME BoundsAssumption == InitStock \in Nat /\ MaxFailed \in Nat /\ Dying \subseteq Orders

VARIABLES
    \* Redis
    stock,        \* seckill:stock:<voucher>
    purchased,    \* seckill:order:<voucher>, the users who hold a permit
    handoff,      \* seckill:order:handoff:{<voucher>}
    accepted,     \* seckill:order:accepted
    quarantine,   \* the handoff members set aside
    recovering,   \* seckill:recovery:<voucher> exists
    \* MySQL
    outbox,       \* status of the row of tb_seckill_order_outbox
    order,        \* status of the row of tb_voucher_order
    dbStock,      \* tb_seckill_voucher.stock
    \* Kafka: orders with an unacknowledged record
    topic,
    dlt,
    \* the dead-letter listener and the manual-review scheduler
    dltPc, dltOrder,
    reviewPc, reviewOrder,
    \* the cancel transaction that holds the row lock of the voucher
    cancelPc, cancelOrder,
    \* cancellations whose compensation in Redis is due, told apart by what MySQL did
    undone,       \* it rolled back
    unheard,      \* it has committed, but the answer was lost
    \* ghosts
    leaked,       \* Redis permits given back by cancellations that never took effect
    reopened,     \* users with such a cancellation
    withheld,     \* committed cancellations whose unit the compensation took again
    blocked       \* users to whom a compensation gave a permit without an order

redisVars  == <<stock, purchased, handoff, accepted, quarantine, recovering>>
dbVars     == <<outbox, order, dbStock>>
kafkaVars  == <<topic, dlt>>
retryVars  == <<dltPc, dltOrder, reviewPc, reviewOrder>>
cancelVars ==
    <<cancelPc, cancelOrder, undone, unheard, leaked, reopened, withheld, blocked>>
vars == <<redisVars, dbVars, kafkaVars, retryVars, cancelVars>>

OutboxStatus == {"none", "PENDING", "SENT", "COMPLETED", "MANUAL_REVIEW"}
OrderStatus  == {"none", "ACTIVE", "CANCELLED"}

TypeOK ==
    /\ stock \in Nat
    /\ purchased \subseteq Users
    /\ handoff \subseteq Orders
    /\ accepted \subseteq Orders
    /\ quarantine \subseteq Orders
    /\ recovering \in BOOLEAN
    /\ outbox \in [Orders -> OutboxStatus]
    /\ order \in [Orders -> OrderStatus]
    /\ dbStock \in Nat
    /\ topic \subseteq Orders
    /\ dlt \subseteq Orders
    /\ dltPc \in {"idle", "absent", "present", "failed"}
    /\ dltOrder \in Orders \cup {NoOrder}
    /\ reviewPc \in {"idle", "absent", "present"}
    /\ reviewOrder \in Orders \cup {NoOrder}
    /\ cancelPc \in {"idle", "open", "flipped"}
    /\ cancelOrder \in Orders \cup {NoOrder}
    /\ undone \subseteq Orders
    /\ unheard \subseteq Orders
    /\ leaked \in Nat
    /\ reopened \subseteq Users
    /\ withheld \subseteq Orders
    /\ blocked \subseteq Users

Init ==
    /\ stock = InitStock
    /\ purchased = {}
    /\ handoff = {}
    /\ accepted = {}
    /\ quarantine = {}
    /\ recovering = FALSE
    /\ outbox = [o \in Orders |-> "none"]
    /\ order = [o \in Orders |-> "none"]
    /\ dbStock = InitStock
    /\ topic = {}
    /\ dlt = {}
    /\ dltPc = "idle" /\ dltOrder = NoOrder
    /\ reviewPc = "idle" /\ reviewOrder = NoOrder
    /\ cancelPc = "idle" /\ cancelOrder = NoOrder
    /\ undone = {} /\ unheard = {}
    /\ leaked = 0
    /\ reopened = {}
    /\ withheld = {} /\ blocked = {}

(***************************************************************************)
(* Where an order is.                                                      *)
(***************************************************************************)

\* Outbox rows the relay may dispatch and the consumer may complete.
Open(o) == outbox[o] \in {"PENDING", "SENT"}

\* Orders Redis has admitted: somewhere in the pipeline, or beyond it.
Admitted == handoff \cup quarantine \cup {o \in Orders : outbox[o] # "none"}

\* Admitted orders without a row yet: each still owes one unit of dbStock.
Reserved == {o \in Admitted : order[o] = "none"}

Active == {o \in Orders : order[o] = "ACTIVE"}

\* The order whose permit Redis has taken back before its transaction commits.
Flipped == IF cancelPc = "flipped" THEN {cancelOrder} ELSE {}

\* Orders that hold the one permit of their buyer.
Holding == (Reserved \cup Active) \ Flipped
Holders == {BuyerOf[o] : o \in Holding}

(***************************************************************************)
(* Admission.                                                              *)
(***************************************************************************)

\* Mutants: the script forgets the stock check; forgets SISMEMBER.
AdmissibleSoldOut(o) == ~recovering /\ BuyerOf[o] \notin purchased
AdmissibleTwice(o) == ~recovering /\ stock > 0

\* The refusals of seckill.lua that depend on the state of the sale.
Admissible(o) ==
    /\ ~recovering
    /\ stock > 0
    /\ BuyerOf[o] \notin purchased

\* seckill.lua: one atomic check-and-reserve.  A refusal changes nothing.
Seckill(o) ==
    /\ o \notin Admitted                     \* the id generator never repeats
    /\ Admissible(o)
    /\ stock' = stock - 1
    /\ purchased' = purchased \cup {BuyerOf[o]}
    /\ handoff' = handoff \cup {o}
    /\ accepted' = accepted \cup {o}
    /\ UNCHANGED <<quarantine, recovering, dbVars, kafkaVars, retryVars, cancelVars>>

(***************************************************************************)
(* Handoff to outbox.  The relay's memory between the two steps is that    *)
(* the rows exist, and rows are never deleted.                             *)
(***************************************************************************)

\* insertCommitted: INSERT IGNORE of a batch in one transaction.
HandoffInsert(B) ==
    /\ B \subseteq handoff \ Rejected
    /\ outbox' = [o \in Orders |->
                    IF o \in B /\ outbox[o] = "none" THEN "PENDING" ELSE outbox[o]]
    /\ UNCHANGED <<redisVars, order, dbStock, kafkaVars, retryVars, cancelVars>>

\* Mutant: the handoff is cleared without waiting for the outbox transaction.
StoredUnchecked(B) == TRUE

\* insertCommitted has returned for the batch.
Stored(B) == \A o \in B : outbox[o] # "none"

\* seckill_handoff_complete.lua, run after the batch is committed.
HandoffComplete(B) ==
    /\ B \subseteq handoff
    /\ Stored(B)
    /\ handoff' = handoff \ B
    /\ accepted' = accepted \ B
    /\ UNCHANGED <<stock, purchased, quarantine, recovering,
                   dbVars, kafkaVars, retryVars, cancelVars>>

\* seckill_handoff_quarantine.lua for the member bisection has isolated.
HandoffQuarantine(o) ==
    /\ o \in handoff \cap Rejected
    /\ handoff' = handoff \ {o}
    /\ quarantine' = quarantine \cup {o}
    /\ UNCHANGED <<stock, purchased, accepted, recovering,
                   dbVars, kafkaVars, retryVars, cancelVars>>

(***************************************************************************)
(* Outbox to Kafka.  The relay read the row while it was open; since then  *)
(* the record of an earlier round may have closed it.  The row is left as  *)
(* it was when the send times out, the relay dies before markSent, or      *)
(* another relay owns the row by then; the record may have reached the     *)
(* broker all the same.                                                    *)
(***************************************************************************)

Send(o) ==
    /\ outbox[o] # "none"
    /\ topic' = topic \cup {o}
    /\ \/ UNCHANGED outbox
       \/ Open(o) /\ outbox' = [outbox EXCEPT ![o] = "SENT"]
    /\ UNCHANGED <<redisVars, order, dbStock, dlt, retryVars, cancelVars>>

(***************************************************************************)
(* Kafka to the order table: createOrders, one transaction per batch.      *)
(***************************************************************************)

\* Mutant: inserted is taken to be the size of the batch.
WholeBatch(B) == B

\* The rows INSERT IGNORE really inserts.
Fresh(B) == {o \in B : order[o] = "none"}

ActiveOf(u, extra) == {x \in Active \cup extra : BuyerOf[x] = u}

\* verifyIgnoredOrdersExist: with any insert ignored, the newest active order
\* of each buyer must be the very order of the batch (ties are arbitrary).
IgnoredOrdersExist(B) == \A o \in B : o \in ActiveOf(BuyerOf[o], Fresh(B))

\* An open cancel transaction holds the row of the voucher and of its order.
LocksFree(B) == cancelPc = "idle" \/ (Fresh(B) = {} /\ cancelOrder \notin B)

Consume(B) ==
    /\ B \subseteq topic
    /\ B # {}
    /\ LocksFree(B)
    /\ Fresh(B) # B => IgnoredOrdersExist(B)
    /\ dbStock >= Cardinality(Fresh(B))
    /\ order' = [o \in Orders |-> IF o \in Fresh(B) THEN "ACTIVE" ELSE order[o]]
    /\ dbStock' = dbStock - Cardinality(Fresh(B))
    /\ outbox' = [o \in Orders |-> IF o \in B /\ Open(o) THEN "COMPLETED" ELSE outbox[o]]
    /\ topic' \in {topic, topic \ B}         \* crash before, or after, acknowledge
    /\ UNCHANGED <<redisVars, dlt, retryVars, cancelVars>>

\* Any failure that outlasts the retries sends the whole batch to the
\* dead-letter topic before its offset is committed.
DeadLetter(B) ==
    /\ B \subseteq topic
    /\ B # {}
    /\ B \subseteq Dying
    /\ dlt' = dlt \cup B
    /\ topic' \in {topic, topic \ B}
    /\ UNCHANGED <<redisVars, dbVars, retryVars, cancelVars>>

(***************************************************************************)
(* SeckillAcceptedOrderRecoveryService.retry, a read and then an update.   *)
(***************************************************************************)

\* Mutants: requeueAccepted without "status <> 'COMPLETED'"; requeueAccepted
\* with the filter of markCompleted; the order is taken for granted.
RetryReopens(pc, o) ==
    IF pc = "absent" THEN "PENDING" ELSE IF Open(o) THEN "COMPLETED" ELSE "failed"
RetryOpenOnly(pc, o) ==
    IF ~Open(o) THEN "failed" ELSE IF pc = "present" THEN "COMPLETED" ELSE "PENDING"
SeenAlways(o) == "present"

\* The update of retry: the new outbox status, "failed" when no row matched.
RetryOutcome(pc, o) ==
    IF pc = "present"
    THEN IF Open(o) THEN "COMPLETED" ELSE "failed"
    ELSE IF outbox[o] # "COMPLETED" THEN "PENDING" ELSE "failed"

Seen(o) == IF order[o] = "none" THEN "absent" ELSE "present"

\* recoverDeadLetter: find the event, look for the order.
DltRead(o) ==
    /\ dltPc = "idle"
    /\ o \in dlt
    /\ outbox[o] # "none"
    /\ dltOrder' = o
    /\ dltPc' = Seen(o)
    /\ UNCHANGED <<redisVars, dbVars, kafkaVars, reviewPc, reviewOrder, cancelVars>>

DltDone ==
    /\ dltPc' = "idle"
    /\ dltOrder' = NoOrder
    /\ dlt' \in {dlt, dlt \ {dltOrder}}      \* crash before, or after, acknowledge

DltRetry ==
    /\ dltPc \in {"absent", "present"}
    /\ RetryOutcome(dltPc, dltOrder) # "failed"
    /\ outbox' = [outbox EXCEPT ![dltOrder] = RetryOutcome(dltPc, dltOrder)]
    /\ DltDone
    /\ UNCHANGED <<redisVars, order, dbStock, topic, reviewPc, reviewOrder, cancelVars>>

\* No row matched, or MySQL failed.
DltRetryFails ==
    /\ dltPc \in {"absent", "present"}
    /\ dltPc' = "failed"
    /\ UNCHANGED <<redisVars, dbVars, kafkaVars, dltOrder, reviewPc, reviewOrder, cancelVars>>

DltMarkManualReview ==
    /\ dltPc = "failed"
    /\ outbox' = IF outbox[dltOrder] # "COMPLETED"
                 THEN [outbox EXCEPT ![dltOrder] = "MANUAL_REVIEW"]
                 ELSE outbox
    /\ DltDone
    /\ UNCHANGED <<redisVars, order, dbStock, topic, reviewPc, reviewOrder, cancelVars>>

\* The listener dies, or markManualReview itself fails: redelivery.
DltCrash ==
    /\ dltPc # "idle"
    /\ dltPc' = "idle"
    /\ dltOrder' = NoOrder
    /\ UNCHANGED <<redisVars, dbVars, kafkaVars, reviewPc, reviewOrder, cancelVars>>

\* retryManualReviews, every five seconds.
ReviewRead(o) ==
    /\ reviewPc = "idle"
    /\ outbox[o] = "MANUAL_REVIEW"
    /\ reviewOrder' = o
    /\ reviewPc' = Seen(o)
    /\ UNCHANGED <<redisVars, dbVars, kafkaVars, dltPc, dltOrder, cancelVars>>

ReviewDone ==
    /\ reviewPc' = "idle"
    /\ reviewOrder' = NoOrder
    /\ UNCHANGED <<redisVars, order, dbStock, kafkaVars, dltPc, dltOrder, cancelVars>>

ReviewRetry ==
    /\ reviewPc # "idle"
    /\ RetryOutcome(reviewPc, reviewOrder) # "failed"
    /\ outbox' = [outbox EXCEPT ![reviewOrder] = RetryOutcome(reviewPc, reviewOrder)]
    /\ ReviewDone

\* The exception is swallowed and the row waits for the next round.
ReviewRetryFails ==
    /\ reviewPc # "idle"
    /\ outbox' = outbox
    /\ ReviewDone

(***************************************************************************)
(* Cancellation: a MySQL transaction with a Redis call inside it.  It      *)
(* holds the row lock of the voucher from adjustStock to its end, so one   *)
(* is open at a time and no consumer commits meanwhile.                    *)
(***************************************************************************)

FaultsLeft ==
    leaked + Cardinality(undone) + Cardinality(unheard) + Cardinality(withheld) < MaxFailed

\* Mutants: cancelActiveOrder without the status filter; seckill_cancel.lua
\* without SREM.
CancellableAgain(o) == order[o] # "none"
UnitOnly(u) == purchased

\* cancelActiveOrder matches the row of an order that is not cancelled yet.
Cancellable(o) == order[o] = "ACTIVE"

\* adjustStock(+1)
ReturnedStock == dbStock + 1

\* SREM of the buyer
Released(u) == purchased \ {u}

\* selectActiveOrder, cancelActiveOrder, adjustStock(+1): not yet committed.
CancelBegin(o) ==
    /\ cancelPc = "idle"
    /\ Cancellable(o)
    /\ cancelPc' = "open"
    /\ cancelOrder' = o
    /\ UNCHANGED <<redisVars, dbVars, kafkaVars, retryVars, undone, unheard, leaked,
                   reopened, withheld, blocked>>

\* The transaction ends before Redis was touched.
CancelAbort ==
    /\ cancelPc = "open"
    /\ cancelPc' = "idle"
    /\ cancelOrder' = NoOrder
    /\ UNCHANGED <<redisVars, dbVars, kafkaVars, retryVars, undone, unheard, leaked,
                   reopened, withheld, blocked>>

\* seckill_cancel.lua; the compensation is registered once it has answered.
CancelRedis ==
    /\ cancelPc = "open"
    /\ stock' = stock + 1
    /\ purchased' = Released(BuyerOf[cancelOrder])
    /\ cancelPc' = "flipped"
    /\ blocked' = blocked \ {BuyerOf[cancelOrder]}
    /\ UNCHANGED <<handoff, accepted, quarantine, recovering, dbVars, kafkaVars, retryVars,
                   cancelOrder, undone, unheard, leaked, reopened, withheld>>

\* What the commit makes of the rows.
Committed ==
    /\ cancelPc = "flipped"
    /\ order' = [order EXCEPT ![cancelOrder] = "CANCELLED"]
    /\ dbStock' = ReturnedStock
    /\ cancelPc' = "idle"
    /\ cancelOrder' = NoOrder
    /\ UNCHANGED <<redisVars, outbox, kafkaVars, retryVars, undone, leaked, reopened,
                   withheld, blocked>>

\* STATUS_COMMITTED
CancelCommit ==
    /\ Committed
    /\ UNCHANGED unheard

\* STATUS_UNKNOWN: MySQL has committed and the answer is lost.  Whatever is not
\* STATUS_COMMITTED is compensated.
CancelUnknown ==
    /\ Committed
    /\ FaultsLeft
    /\ unheard' = unheard \cup {cancelOrder}

\* STATUS_ROLLED_BACK, or STATUS_UNKNOWN of a commit that did not happen: MySQL
\* forgets the cancellation, Redis is to be put back.  The lock is free by then, and
\* the buyer may cancel again first.  Bound: an order waits for one such compensation.
CancelRollback ==
    /\ cancelPc = "flipped"
    /\ FaultsLeft
    /\ cancelOrder \notin undone
    /\ cancelPc' = "idle"
    /\ cancelOrder' = NoOrder
    /\ undone' = undone \cup {cancelOrder}
    /\ reopened' = reopened \cup {BuyerOf[cancelOrder]}
    /\ UNCHANGED <<redisVars, dbVars, kafkaVars, retryVars, unheard, leaked, withheld, blocked>>

\* The process dies, or the reply of the script is lost, so that nothing was
\* registered: MySQL rolls back and no compensation ever runs.
CancelLost ==
    /\ cancelPc = "flipped"
    /\ FaultsLeft
    /\ cancelPc' = "idle"
    /\ cancelOrder' = NoOrder
    /\ leaked' = leaked + 1
    /\ reopened' = reopened \cup {BuyerOf[cancelOrder]}
    /\ UNCHANGED <<redisVars, dbVars, kafkaVars, retryVars, undone, unheard, withheld, blocked>>

\* seckill_cancel_rollback.lua.  It asks neither whether MySQL has committed nor
\* whether the order has been cancelled again since.
CancelCompensate(o) ==
    /\ \/ /\ o \in undone
          /\ undone' = undone \ {o}
          /\ UNCHANGED <<unheard, withheld>>
       \/ /\ o \in unheard
          /\ unheard' = unheard \ {o}
          /\ withheld' = withheld \cup {o}
          /\ UNCHANGED undone
    /\ stock > 0
    /\ stock' = stock - 1
    /\ purchased' = purchased \cup {BuyerOf[o]}
    /\ blocked' = blocked \cup ({BuyerOf[o]} \ Holders)
    /\ UNCHANGED <<handoff, accepted, quarantine, recovering, dbVars, kafkaVars, retryVars,
                   cancelPc, cancelOrder, leaked, reopened>>

\* The script refuses, the permit having been sold again, or never runs.
CancelCompensateFails(o) ==
    /\ \/ /\ o \in undone
          /\ undone' = undone \ {o}
          /\ leaked' = leaked + 1
          /\ UNCHANGED unheard
       \/ /\ o \in unheard
          /\ unheard' = unheard \ {o}
          /\ UNCHANGED <<undone, leaked>>
    /\ UNCHANGED <<redisVars, dbVars, kafkaVars, retryVars, cancelPc, cancelOrder, reopened,
                   withheld, blocked>>

-----------------------------------------------------------------------------

Transport ==
    \/ \E B \in (SUBSET handoff) \ {{}} : HandoffInsert(B)
    \/ \E B \in (SUBSET handoff) \ {{}} : HandoffComplete(B)
    \/ \E o \in handoff : HandoffQuarantine(o)
    \/ \E o \in Orders : Send(o)
    \/ \E B \in SUBSET topic : Consume(B)
    \/ \E B \in SUBSET topic : DeadLetter(B)

Recovery ==
    \/ \E o \in Orders : DltRead(o)
    \/ DltRetry \/ DltRetryFails \/ DltMarkManualReview \/ DltCrash
    \/ \E o \in Orders : ReviewRead(o)
    \/ ReviewRetry \/ ReviewRetryFails

Cancellation ==
    \/ \E o \in Orders : CancelBegin(o)
    \/ CancelAbort \/ CancelRedis
    \/ CancelCommit \/ CancelUnknown \/ CancelRollback \/ CancelLost
    \/ \E o \in Orders : CancelCompensate(o)
    \/ \E o \in Orders : CancelCompensateFails(o)

Next ==
    \/ \E o \in Orders : Seckill(o)
    \/ Transport
    \/ Recovery
    \/ Cancellation

Spec == Init /\ [][Next]_vars

(***************************************************************************)
(* Fairness: the schedulers keep polling, and no dependency is down at     *)
(* every attempt for ever.  Requests, cancellations and the failures are   *)
(* not fair; a cancel transaction, once open, ends.                        *)
(***************************************************************************)
Fairness ==
    /\ \A o \in Orders :
        /\ WF_vars(\E B \in SUBSET handoff : o \in B /\ HandoffInsert(B))
        /\ SF_vars(Open(o) /\ Send(o))
        /\ SF_vars(\E B \in SUBSET topic : o \in B /\ Consume(B))
        /\ SF_vars(DltRead(o))
        /\ SF_vars(ReviewRead(o))
        /\ SF_vars(reviewOrder = o /\ ReviewRetry)
    /\ WF_vars(DltRetry)
    /\ WF_vars(DltMarkManualReview)
    /\ WF_vars(ReviewRetryFails)
    /\ SF_vars(CancelRedis)
    /\ WF_vars(CancelCommit)

FairSpec == Spec /\ Fairness

(***************************************************************************)
(* Properties.                                                             *)
(***************************************************************************)

\* Redis and MySQL agree on the stock at every step, through every crash,
\* redelivery and duplicate: each unit is for sale in Redis, reserved by an
\* admitted order, or sold to an active one.  The only excess in Redis is what
\* a cancellation gave back before, or without, committing, and all that Redis
\* lacks is one unit for each commit nobody heard of and that was compensated.
StockConserved ==
    stock + Cardinality(Reserved) + Cardinality(Active) + Cardinality(withheld)
        = InitStock + Cardinality(Flipped) + Cardinality(undone) + leaked

\* MySQL alone: a redelivered or duplicated batch never takes stock twice and
\* a cancellation returns exactly what its order took.
DbLedger == dbStock + Cardinality(Active) = InitStock

\* Unless a cancellation was undone after Redis had released the user, a user
\* holds at most one permit: no second purchase slips in between the handoff,
\* the outbox, the order row and a cancellation that is still committing.
OnePermitPerUser ==
    \A a, b \in Holding :
        (BuyerOf[a] = BuyerOf[b] /\ a # b) => BuyerOf[a] \in reopened

\* Every admitted order still finds its unit in dbStock, but for the units that
\* an undecided or undone cancellation has put on sale a second time: only for
\* those can decrementStock refuse an order the user was told he has.
AdmittedFits ==
    Cardinality(Reserved)
        <= dbStock + Cardinality(Flipped) + Cardinality(undone) + leaked

\* Nobody is turned away as having bought already who has no order, wherever his
\* order is on its way and however his cancellation ends.  Only a compensation that
\* comes to an order already cancelled, its commit unheard or a second cancellation
\* having overtaken it, blocks its buyer.
PermitsEarned == purchased \subseteq Holders \cup blocked

\* An outbox row is closed only after the order exists, whatever the dead
\* letter listener, the review scheduler and the consumer read and when.
CompletedHasOrder ==
    \A o \in Orders : outbox[o] = "COMPLETED" => order[o] # "none"

\* Everything downstream of the outbox has a row there, which is what lets
\* the dead-letter listener find the event it has to requeue.
RecordsHaveRows ==
    /\ \A o \in topic \cup dlt : outbox[o] # "none"
    /\ \A o \in Orders : order[o] # "none" => outbox[o] # "none"

\* How far an order has come, for whoever does not see stores and messages.
Phase(o) ==
    CASE o \in Flipped              -> "cancelling"
      [] order[o] = "CANCELLED"     -> "cancelled"
      [] o \in Active \ Flipped     -> "placed"
      [] o \in Reserved             -> "accepted"
      [] OTHER                      -> "new"

Sale == INSTANCE SeckillSale
        WITH MaxUndone <- MaxFailed,
             phase <- [o \in Orders |-> Phase(o)],
             units <- stock,
             owed <- leaked + Cardinality(undone),
             excused <- reopened,
             unheard <- unheard

\* The pipeline implements the sale: whatever is batched, redelivered, retried or
\* lost on the way, an order is accepted, placed and cancelled once, no unit is
\* sold twice, only a cancellation taken back lets a buyer hold two orders, and
\* only one confirmed unheard can cost the sale a unit.
ImplementsSale == Sale!Spec

\* An admitted order is never forgotten, in particular not between ZREM from
\* the handoff and the outbox row.
AdmittedForever == [][Admitted \subseteq Admitted']_vars

\* No redelivery, retry or late dead letter revives what is final: a closed
\* outbox row stays closed, a cancelled order cancelled, an order row written.
FinalStates ==
    [][\A o \in Orders :
        /\ outbox[o] = "COMPLETED" => outbox'[o] = "COMPLETED"
        /\ order[o] = "CANCELLED" => order'[o] = "CANCELLED"
        /\ order[o] = "ACTIVE" => order'[o] # "none"]_vars

\* Every admitted order that MySQL can store is persisted in the end, through
\* dead letters and manual review.
EventuallyPersisted ==
    \A o \in Orders \ Rejected : o \in Admitted ~> order[o] # "none"

\* SeckillAcceptedOrderRecoveryService: a row stays in manual review only
\* while MySQL is unavailable.
ReviewResolved ==
    \A o \in Orders : outbox[o] = "MANUAL_REVIEW" ~> outbox[o] # "MANUAL_REVIEW"
=============================================================================
