------------------------- MODULE SeckillOrderProofs -------------------------
(***************************************************************************)
(* Theorems about SeckillOrder, and about the two actors who read what it  *)
(* does, SeckillReconciliation and SeckillOrderStatus, for every set of    *)
(* users, orders and stock.                                                *)
(*                                                                         *)
(* TypeOK is not inductive alone: the registers of the three actors that   *)
(* work in several steps must hold an order while they are busy.  The      *)
(* registers also remember what was read, which later steps rely on.       *)
(***************************************************************************)
EXTENDS SeckillReconciliation, SeckillOrderStatus, FiniteSetTheorems, TLAPS

\* The registers of a busy actor hold an order, the cancel transaction an active one.
Registers ==
    /\ dltPc # "idle" => dltOrder \in Orders
    /\ reviewPc # "idle" => reviewOrder \in Orders
    /\ cancelPc # "idle" =>
        /\ cancelOrder \in Orders
        /\ order[cancelOrder] = "ACTIVE"

\* A commit is unheard for a cancelled order, and its compensation runs once.
Compensations ==
    /\ \A o \in unheard \cup withheld : order[o] = "CANCELLED"
    /\ unheard \cap withheld = {}

TypeInv == TypeOK /\ Registers /\ Compensations

\* What the two recovery loops have read stays true until they write.
Remembered ==
    /\ dltPc # "idle" => outbox[dltOrder] # "none"
    /\ dltPc = "present" => order[dltOrder] # "none"
    /\ reviewPc # "idle" => outbox[reviewOrder] # "none"
    /\ reviewPc = "present" => order[reviewOrder] # "none"

RowsInv == RecordsHaveRows /\ CompletedHasOrder /\ Remembered

-----------------------------------------------------------------------------

LEMMA InitTypeInv == Init => TypeInv
<1> SUFFICES ASSUME Init PROVE TypeInv
  OBVIOUS
<1>1. InitStock \in Nat
  BY BoundsAssumption
<1>2. outbox \in [Orders -> OutboxStatus] /\ order \in [Orders -> OrderStatus]
  BY DEF Init, OutboxStatus, OrderStatus
<1>3. Registers
  BY DEF Init, Registers
<1>4. Compensations
  BY DEF Init, Compensations
<1> QED BY <1>1, <1>2, <1>3, <1>4 DEF Init, TypeInv, TypeOK

\* Each family of actions keeps the types and the registers.
LEMMA TypeSeckill ==
    ASSUME TypeInv, NEW o \in Orders, Seckill(o)
    PROVE  TypeInv'
BY OrdersAssumption
DEF TypeInv, TypeOK, Registers, Compensations, Seckill, Admissible, dbVars, kafkaVars, retryVars, cancelVars

LEMMA TypeTransport ==
    ASSUME TypeInv, Transport
    PROVE  TypeInv'
<1> USE OrdersAssumption DEF TypeInv, TypeOK, Registers, Compensations, OutboxStatus, OrderStatus,
        redisVars, dbVars, kafkaVars, retryVars, cancelVars
<1>1. ASSUME NEW B \in SUBSET handoff, HandoffInsert(B) PROVE TypeInv'
  BY <1>1 DEF HandoffInsert
<1>2. ASSUME NEW B \in SUBSET handoff, HandoffComplete(B) PROVE TypeInv'
  BY <1>2 DEF HandoffComplete
<1>3. ASSUME NEW o \in handoff, HandoffQuarantine(o) PROVE TypeInv'
  BY <1>3 DEF HandoffQuarantine
<1>4. ASSUME NEW o \in Orders, Send(o) PROVE TypeInv'
  BY <1>4 DEF Send
<1>5. ASSUME NEW B \in SUBSET topic, Consume(B) PROVE TypeInv'
  <2>1. IsFiniteSet(Fresh(B)) /\ Cardinality(Fresh(B)) \in Nat
    <3>1. Fresh(B) \subseteq Orders
      BY DEF Fresh
    <3> QED BY <3>1, FS_Subset, FS_CardinalityType
  <2>2. dbStock' \in Nat
    BY <1>5, <2>1 DEF Consume
  <2> QED BY <1>5, <2>2 DEF Consume, Fresh
<1>6. ASSUME NEW B \in SUBSET topic, DeadLetter(B) PROVE TypeInv'
  BY <1>6 DEF DeadLetter
<1> QED BY <1>1, <1>2, <1>3, <1>4, <1>5, <1>6 DEF Transport

LEMMA TypeRecovery ==
    ASSUME TypeInv, Recovery
    PROVE  TypeInv'
<1> USE OrdersAssumption DEF TypeInv, TypeOK, Registers, Compensations, OutboxStatus, OrderStatus,
        redisVars, dbVars, kafkaVars, retryVars, cancelVars
<1>1. ASSUME NEW o \in Orders, DltRead(o) PROVE TypeInv'
  BY <1>1 DEF DltRead, Seen
<1>2. CASE DltRetry
  BY <1>2 DEF DltRetry, DltDone, RetryOutcome
<1>3. CASE DltRetryFails
  BY <1>3 DEF DltRetryFails
<1>4. CASE DltMarkManualReview
  BY <1>4 DEF DltMarkManualReview, DltDone
<1>5. CASE DltCrash
  BY <1>5 DEF DltCrash
<1>6. ASSUME NEW o \in Orders, ReviewRead(o) PROVE TypeInv'
  BY <1>6 DEF ReviewRead, Seen
<1>7. CASE ReviewRetry
  BY <1>7 DEF ReviewRetry, ReviewDone, RetryOutcome
<1>8. CASE ReviewRetryFails
  BY <1>8 DEF ReviewRetryFails, ReviewDone
<1> QED BY <1>1, <1>2, <1>3, <1>4, <1>5, <1>6, <1>7, <1>8 DEF Recovery

LEMMA TypeCancellation ==
    ASSUME TypeInv, Cancellation
    PROVE  TypeInv'
<1> USE OrdersAssumption DEF TypeInv, TypeOK, Registers, Compensations, OutboxStatus, OrderStatus,
        redisVars, dbVars, kafkaVars, retryVars, cancelVars
<1>1. ASSUME NEW o \in Orders, CancelBegin(o) PROVE TypeInv'
  BY <1>1 DEF CancelBegin, Cancellable
<1>2. CASE CancelAbort
  BY <1>2 DEF CancelAbort
<1>3. CASE CancelRedis
  BY <1>3 DEF CancelRedis, Released
<1>4. CASE CancelCommit \/ CancelUnknown
  BY <1>4 DEF CancelCommit, CancelUnknown, Committed, ReturnedStock
<1>5. CASE CancelRollback
  BY <1>5 DEF CancelRollback
<1>6. CASE CancelLost
  BY <1>6 DEF CancelLost
<1>7. ASSUME NEW o \in Orders, CancelCompensate(o) PROVE TypeInv'
  BY <1>7 DEF CancelCompensate
<1>8. ASSUME NEW o \in Orders, CancelCompensateFails(o) PROVE TypeInv'
  BY <1>8 DEF CancelCompensateFails
<1> QED BY <1>1, <1>2, <1>3, <1>4, <1>5, <1>6, <1>7, <1>8 DEF Cancellation

LEMMA TypeStep == TypeInv /\ [Next]_vars => TypeInv'
<1> SUFFICES ASSUME TypeInv, [Next]_vars PROVE TypeInv'
  OBVIOUS
<1>1. CASE UNCHANGED vars
  BY <1>1 DEF TypeInv, TypeOK, Registers, Compensations, vars, redisVars, dbVars, kafkaVars, retryVars, cancelVars
<1> QED BY <1>1, TypeSeckill, TypeTransport, TypeRecovery, TypeCancellation DEF Next

\* Every variable keeps its type, whatever is redelivered, undone or lost; in
\* particular neither stock ever goes below zero.
THEOREM TypeCorrect == Spec => []TypeOK
<1>1. TypeInv => TypeOK
  BY DEF TypeInv
<1> QED BY <1>1, InitTypeInv, TypeStep, PTL DEF Spec

LEMMA TypeInvariant == Spec => []TypeInv
BY InitTypeInv, TypeStep, PTL DEF Spec

-----------------------------------------------------------------------------
(***************************************************************************)
(* Rows only move forward.                                                 *)
(***************************************************************************)

\* What one step may do to the row of an order in each of the two tables.
Advance ==
    \A o \in Orders :
        /\ outbox[o] # "none" => outbox'[o] # "none"
        /\ outbox[o] = "COMPLETED" => outbox'[o] = "COMPLETED"
        /\ order[o] # "none" => order'[o] # "none"
        /\ order[o] = "CANCELLED" => order'[o] = "CANCELLED"

LEMMA TransportAdvances ==
    ASSUME TypeInv, Transport
    PROVE  Advance
<1> USE DEF TypeInv, TypeOK, Advance, OutboxStatus, OrderStatus, dbVars
<1>1. ASSUME NEW B \in SUBSET handoff, HandoffInsert(B) PROVE Advance
  BY <1>1 DEF HandoffInsert
<1>2. ASSUME NEW B \in SUBSET handoff, HandoffComplete(B) PROVE Advance
  BY <1>2 DEF HandoffComplete
<1>3. ASSUME NEW o \in handoff, HandoffQuarantine(o) PROVE Advance
  BY <1>3 DEF HandoffQuarantine
<1>4. ASSUME NEW o \in Orders, Send(o) PROVE Advance
  BY <1>4 DEF Send, Open
<1>5. ASSUME NEW B \in SUBSET topic, Consume(B) PROVE Advance
  BY <1>5 DEF Consume, Fresh, Open
<1>6. ASSUME NEW B \in SUBSET topic, DeadLetter(B) PROVE Advance
  BY <1>6 DEF DeadLetter
<1> QED BY <1>1, <1>2, <1>3, <1>4, <1>5, <1>6 DEF Transport

LEMMA RecoveryAdvances ==
    ASSUME TypeInv, Recovery
    PROVE  Advance
<1> USE DEF TypeInv, TypeOK, Registers, Advance, OutboxStatus, OrderStatus, dbVars
<1>1. CASE DltRetry
  BY <1>1 DEF DltRetry, RetryOutcome, Open
<1>2. CASE DltMarkManualReview
  BY <1>2 DEF DltMarkManualReview
<1>3. CASE ReviewRetry
  BY <1>3 DEF ReviewRetry, ReviewDone, RetryOutcome, Open
<1>4. CASE ReviewRetryFails
  BY <1>4 DEF ReviewRetryFails, ReviewDone
<1>5. CASE \/ \E o \in Orders : DltRead(o) \/ ReviewRead(o)
           \/ DltRetryFails \/ DltCrash
  BY <1>5 DEF DltRead, ReviewRead, DltRetryFails, DltCrash
<1> QED BY <1>1, <1>2, <1>3, <1>4, <1>5 DEF Recovery

LEMMA CancellationAdvances ==
    ASSUME TypeInv, Cancellation
    PROVE  Advance
<1> USE DEF TypeInv, TypeOK, Registers, Advance, OutboxStatus, OrderStatus, dbVars
<1>1. CASE Committed
  BY <1>1 DEF Committed
<1>2. CASE \/ \E o \in Orders : CancelBegin(o)
           \/ CancelAbort \/ CancelRedis \/ CancelRollback \/ CancelLost
  BY <1>2 DEF CancelBegin, CancelAbort, CancelRedis, CancelRollback, CancelLost
<1>3. CASE \E o \in Orders : CancelCompensate(o) \/ CancelCompensateFails(o)
  BY <1>3 DEF CancelCompensate, CancelCompensateFails
<1> QED BY <1>1, <1>2, <1>3 DEF Cancellation, CancelCommit, CancelUnknown

LEMMA StepAdvances ==
    ASSUME TypeInv, [Next]_vars
    PROVE  Advance
<1>1. ASSUME NEW o \in Orders, Seckill(o) PROVE Advance
  BY <1>1 DEF Seckill, Advance, dbVars
<1>2. CASE UNCHANGED vars
  BY <1>2 DEF vars, dbVars, Advance
<1> QED BY <1>1, <1>2, TransportAdvances, RecoveryAdvances, CancellationAdvances DEF Next

\* No redelivery, retry or late dead letter revives a closed outbox row or a
\* cancelled order: the status filters of the mapper's updates see to it.
THEOREM FinalStatesHold == Spec => FinalStates
<1>1. TypeInv /\ [Next]_vars =>
        [\A o \in Orders :
            /\ outbox[o] = "COMPLETED" => outbox'[o] = "COMPLETED"
            /\ order[o] = "CANCELLED" => order'[o] = "CANCELLED"
            /\ order[o] = "ACTIVE" => order'[o] # "none"]_vars
  BY StepAdvances DEF Advance
<1> QED BY <1>1, TypeInvariant, PTL DEF Spec, FinalStates

-----------------------------------------------------------------------------
(***************************************************************************)
(* Rows exist before what refers to them.                                  *)
(***************************************************************************)

LEMMA InitRowsInv == Init => RowsInv
BY DEF Init, RowsInv, RecordsHaveRows, CompletedHasOrder, Remembered

LEMMA RowsTransport ==
    ASSUME TypeInv, RowsInv, Transport
    PROVE  RowsInv'
<1>0. Advance
  BY TransportAdvances
<1> USE DEF TypeInv, TypeOK, Registers, RowsInv, RecordsHaveRows, CompletedHasOrder,
        Remembered, OutboxStatus, OrderStatus, redisVars, dbVars, kafkaVars, retryVars, cancelVars
<1>1. ASSUME NEW B \in SUBSET handoff, HandoffInsert(B) PROVE RowsInv'
  BY <1>0, <1>1 DEF HandoffInsert, Advance
<1>2. ASSUME NEW B \in SUBSET handoff, HandoffComplete(B) PROVE RowsInv'
  BY <1>2 DEF HandoffComplete
<1>3. ASSUME NEW o \in handoff, HandoffQuarantine(o) PROVE RowsInv'
  BY <1>3 DEF HandoffQuarantine
<1>4. ASSUME NEW o \in Orders, Send(o) PROVE RowsInv'
  BY <1>0, <1>4 DEF Send, Open, Advance
<1>5. ASSUME NEW B \in SUBSET topic, Consume(B) PROVE RowsInv'
  <2>1. RecordsHaveRows'
    BY <1>0, <1>5 DEF Consume, Fresh, Advance
  <2>2. CompletedHasOrder'
    BY <1>5 DEF Consume, Fresh, Open
  <2>3. Remembered'
    BY <1>0, <1>5 DEF Consume, Advance
  <2> QED BY <2>1, <2>2, <2>3
<1>6. ASSUME NEW B \in SUBSET topic, DeadLetter(B) PROVE RowsInv'
  BY <1>6 DEF DeadLetter
<1> QED BY <1>1, <1>2, <1>3, <1>4, <1>5, <1>6 DEF Transport

LEMMA RowsRecovery ==
    ASSUME TypeInv, RowsInv, Recovery
    PROVE  RowsInv'
<1>0. Advance
  BY RecoveryAdvances
<1> USE DEF TypeInv, TypeOK, Registers, RowsInv, RecordsHaveRows, CompletedHasOrder,
        Remembered, OutboxStatus, OrderStatus, redisVars, dbVars, kafkaVars, retryVars, cancelVars
<1>1. ASSUME NEW o \in Orders, DltRead(o) PROVE RowsInv'
  BY <1>1 DEF DltRead, Seen
<1>2. CASE DltRetry
  BY <1>0, <1>2 DEF DltRetry, DltDone, RetryOutcome, Advance
<1>3. CASE DltRetryFails
  BY <1>3 DEF DltRetryFails
<1>4. CASE DltMarkManualReview
  BY <1>0, <1>4 DEF DltMarkManualReview, DltDone, Advance
<1>5. CASE DltCrash
  BY <1>5 DEF DltCrash
<1>6. ASSUME NEW o \in Orders, ReviewRead(o) PROVE RowsInv'
  BY <1>6 DEF ReviewRead, Seen
<1>7. CASE ReviewRetry
  BY <1>0, <1>7 DEF ReviewRetry, ReviewDone, RetryOutcome, Advance
<1>8. CASE ReviewRetryFails
  BY <1>8 DEF ReviewRetryFails, ReviewDone
<1> QED BY <1>1, <1>2, <1>3, <1>4, <1>5, <1>6, <1>7, <1>8 DEF Recovery

LEMMA RowsCancellation ==
    ASSUME TypeInv, RowsInv, Cancellation
    PROVE  RowsInv'
<1>0. Advance
  BY CancellationAdvances
<1> USE DEF TypeInv, TypeOK, Registers, RowsInv, RecordsHaveRows, CompletedHasOrder,
        Remembered, OrderStatus, redisVars, dbVars, kafkaVars, retryVars
<1>1. CASE Committed
  BY <1>0, <1>1 DEF Committed, Advance
<1>2. CASE \/ \E o \in Orders : CancelBegin(o)
           \/ CancelAbort \/ CancelRedis \/ CancelRollback \/ CancelLost
  BY <1>2 DEF CancelBegin, CancelAbort, CancelRedis, CancelRollback, CancelLost
<1>3. CASE \E o \in Orders : CancelCompensate(o) \/ CancelCompensateFails(o)
  BY <1>3 DEF CancelCompensate, CancelCompensateFails
<1> QED BY <1>1, <1>2, <1>3 DEF Cancellation, CancelCommit, CancelUnknown

LEMMA RowsStep == TypeInv /\ RowsInv /\ [Next]_vars => RowsInv'
<1> SUFFICES ASSUME TypeInv, RowsInv, [Next]_vars PROVE RowsInv'
  OBVIOUS
<1>1. ASSUME NEW o \in Orders, Seckill(o) PROVE RowsInv'
  BY <1>1 DEF Seckill, RowsInv, RecordsHaveRows, CompletedHasOrder, Remembered,
              dbVars, kafkaVars, retryVars
<1>2. CASE UNCHANGED vars
  BY <1>2 DEF vars, dbVars, kafkaVars, retryVars, RowsInv, RecordsHaveRows,
              CompletedHasOrder, Remembered
<1> QED BY <1>1, <1>2, RowsTransport, RowsRecovery, RowsCancellation DEF Next

LEMMA RowsInvariant == Spec => [](TypeInv /\ RowsInv)
BY InitTypeInv, TypeStep, InitRowsInv, RowsStep, PTL DEF Spec

\* An outbox row is closed only when its order is in the order table: a retry
\* that took the order for persisted had seen it, and orders are never deleted.
THEOREM CompletedHasOrderHolds == Spec => []CompletedHasOrder
<1>1. RowsInv => CompletedHasOrder
  BY DEF RowsInv
<1> QED BY <1>1, RowsInvariant, PTL

\* Kafka records, dead letters and order rows all have their outbox row, so a
\* dead letter is never without the event it has to requeue.
THEOREM RecordsHaveRowsHolds == Spec => []RecordsHaveRows
<1>1. RowsInv => RecordsHaveRows
  BY DEF RowsInv
<1> QED BY <1>1, RowsInvariant, PTL

-----------------------------------------------------------------------------
(***************************************************************************)
(* The stock.  Most steps move no order in or out of Reserved and Active;  *)
(* the others move a known set, whose size is what the counters change by. *)
(***************************************************************************)

Ledger == StockConserved /\ DbLedger

\* An order without a row is admitted as soon as it is in the outbox, so the
\* two sets, and with them every permit, stay apart from each other.
Unmoved == Admitted' = Admitted /\ Reserved' = Reserved /\ Active' = Active

LEMMA Finite ==
    ASSUME TypeInv
    PROVE  /\ IsFiniteSet(Reserved) /\ Cardinality(Reserved) \in Nat
           /\ IsFiniteSet(Active) /\ Cardinality(Active) \in Nat
           /\ IsFiniteSet(undone) /\ Cardinality(undone) \in Nat
           /\ IsFiniteSet(unheard) /\ Cardinality(unheard) \in Nat
           /\ IsFiniteSet(withheld) /\ Cardinality(withheld) \in Nat
<1>1. /\ Reserved \subseteq Orders /\ Active \subseteq Orders
      /\ undone \subseteq Orders /\ unheard \subseteq Orders /\ withheld \subseteq Orders
  BY DEF TypeInv, TypeOK, Reserved, Active, Admitted
<1>2. IsFiniteSet(Orders)
  BY OrdersAssumption
<1> QED BY <1>1, <1>2, FS_Subset, FS_CardinalityType

\* A step that changes none of the quantities keeps the ledger.
LEMMA LedgerSame ==
    ASSUME Ledger, Unmoved, UNCHANGED <<stock, dbStock, cancelPc, cancelOrder, undone, leaked, withheld>>
    PROVE  Ledger'
BY DEF Ledger, StockConserved, DbLedger, Unmoved, Flipped

\* Handoff and relay: the order changes place, it stays reserved.
LEMMA CarriedUnmoved ==
    ASSUME TypeInv,
           \/ \E B \in SUBSET handoff : HandoffInsert(B) \/ HandoffComplete(B)
           \/ \E o \in handoff : HandoffQuarantine(o)
           \/ \E o \in Orders : Send(o)
           \/ \E B \in SUBSET topic : DeadLetter(B)
    PROVE  Unmoved
<1> USE DEF TypeInv, TypeOK, Unmoved, Reserved, Active, Admitted, redisVars, dbVars
<1>1. ASSUME NEW B \in SUBSET handoff, HandoffInsert(B) PROVE Unmoved
  BY <1>1 DEF HandoffInsert
<1>2. ASSUME NEW B \in SUBSET handoff, HandoffComplete(B) PROVE Unmoved
  BY <1>2 DEF HandoffComplete, Stored
<1>3. ASSUME NEW o \in handoff, HandoffQuarantine(o) PROVE Unmoved
  BY <1>3 DEF HandoffQuarantine
<1>4. ASSUME NEW o \in Orders, Send(o) PROVE Unmoved
  BY <1>4 DEF Send, Open
<1>5. ASSUME NEW B \in SUBSET topic, DeadLetter(B) PROVE Unmoved
  BY <1>5 DEF DeadLetter
<1> QED BY <1>1, <1>2, <1>3, <1>4, <1>5

LEMMA RecoveryUnmoved ==
    ASSUME TypeInv, RowsInv, Recovery
    PROVE  Unmoved
<1> USE DEF TypeInv, TypeOK, Registers, RowsInv, Remembered, Unmoved, Reserved, Active,
        Admitted, redisVars, dbVars
<1>1. CASE DltRetry
  BY <1>1 DEF DltRetry, RetryOutcome
<1>2. CASE DltMarkManualReview
  BY <1>2 DEF DltMarkManualReview
<1>3. CASE ReviewRetry
  BY <1>3 DEF ReviewRetry, ReviewDone, RetryOutcome
<1>4. CASE ReviewRetryFails
  BY <1>4 DEF ReviewRetryFails, ReviewDone
<1>5. CASE \/ \E o \in Orders : DltRead(o) \/ ReviewRead(o)
           \/ DltRetryFails \/ DltCrash
  BY <1>5 DEF DltRead, ReviewRead, DltRetryFails, DltCrash
<1> QED BY <1>1, <1>2, <1>3, <1>4, <1>5 DEF Recovery

\* Consumption turns reserved orders into active ones.
LEMMA ConsumeMoves ==
    ASSUME TypeInv, RowsInv, NEW B \in SUBSET topic, Consume(B)
    PROVE  /\ Fresh(B) \subseteq Reserved
           /\ Fresh(B) \cap Active = {}
           /\ Admitted' = Admitted
           /\ Reserved' = Reserved \ Fresh(B)
           /\ Active' = Active \cup Fresh(B)
BY DEF TypeInv, TypeOK, RowsInv, RecordsHaveRows, Consume, Fresh, Open, Reserved, Active,
       Admitted, redisVars, OrderStatus

\* Admission reserves one order that was nowhere before.
LEMMA SeckillMoves ==
    ASSUME TypeInv, RowsInv, NEW o \in Orders, Seckill(o)
    PROVE  /\ o \notin Reserved /\ o \notin Active
           /\ Admitted' = Admitted \cup {o}
           /\ Reserved' = Reserved \cup {o}
           /\ Active' = Active
<1>1. outbox[o] = "none" /\ order[o] = "none"
  BY DEF TypeInv, TypeOK, RowsInv, RecordsHaveRows, Seckill, Admitted
<1> QED BY <1>1 DEF Seckill, Reserved, Active, Admitted, dbVars

LEMMA LedgerSeckill ==
    ASSUME TypeInv, RowsInv, Ledger, NEW o \in Orders, Seckill(o)
    PROVE  Ledger'
<1>1. Cardinality(Reserved') = Cardinality(Reserved) + 1
  BY SeckillMoves, Finite, FS_AddElement
<1>2. /\ stock' = stock - 1 /\ Active' = Active /\ dbStock' = dbStock
      /\ Flipped' = Flipped /\ undone' = undone /\ leaked' = leaked /\ withheld' = withheld
  BY SeckillMoves DEF Seckill, dbVars, cancelVars, Flipped
<1>3. stock \in Nat /\ Cardinality(Reserved) \in Nat /\ Cardinality(Active) \in Nat
  BY Finite DEF TypeInv, TypeOK
<1> QED BY <1>1, <1>2, <1>3 DEF Ledger, StockConserved, DbLedger

LEMMA LedgerConsume ==
    ASSUME TypeInv, RowsInv, Ledger, NEW B \in SUBSET topic, Consume(B)
    PROVE  Ledger'
<1>1. IsFiniteSet(Fresh(B)) /\ Cardinality(Fresh(B)) \in Nat
  BY ConsumeMoves, Finite, FS_Subset, FS_CardinalityType
<1>2. Cardinality(Reserved') = Cardinality(Reserved) - Cardinality(Fresh(B))
  <2>1. Reserved \cap Fresh(B) = Fresh(B)
    BY ConsumeMoves
  <2>2. Cardinality(Reserved \ Fresh(B)) = Cardinality(Reserved) - Cardinality(Reserved \cap Fresh(B))
    BY Finite, FS_Difference
  <2> QED BY <2>1, <2>2, ConsumeMoves
<1>3. Cardinality(Active') = Cardinality(Active) + Cardinality(Fresh(B))
  <2>1. Cardinality(Active \cap Fresh(B)) = 0
    BY ConsumeMoves, FS_EmptySet
  <2>2. Cardinality(Active \cup Fresh(B))
            = Cardinality(Active) + Cardinality(Fresh(B)) - Cardinality(Active \cap Fresh(B))
    BY <1>1, Finite, FS_Union
  <2>3. Active' = Active \cup Fresh(B) /\ Cardinality(Active) \in Nat
    BY ConsumeMoves, Finite
  <2> QED BY <1>1, <2>1, <2>2, <2>3
<1>4. /\ dbStock' = dbStock - Cardinality(Fresh(B)) /\ stock' = stock
      /\ Flipped' = Flipped /\ undone' = undone /\ leaked' = leaked /\ withheld' = withheld
  BY DEF Consume, redisVars, cancelVars, Flipped
<1>5. /\ stock \in Nat /\ dbStock \in Nat
      /\ Cardinality(Reserved) \in Nat /\ Cardinality(Active) \in Nat
  BY Finite DEF TypeInv, TypeOK
<1> QED BY <1>1, <1>2, <1>3, <1>4, <1>5 DEF Ledger, StockConserved, DbLedger

LEMMA FlippedSize ==
    /\ Cardinality(Flipped) = (IF cancelPc = "flipped" THEN 1 ELSE 0)
    /\ Cardinality(Flipped') = (IF cancelPc' = "flipped" THEN 1 ELSE 0)
BY FS_Singleton, FS_EmptySet DEF Flipped

LEMMA LedgerCancellation ==
    ASSUME TypeInv, Ledger, Cancellation
    PROVE  Ledger'
<1>0. /\ Cardinality(Reserved) \in Nat /\ Cardinality(Active) \in Nat
      /\ Cardinality(undone) \in Nat /\ Cardinality(withheld) \in Nat
      /\ stock \in Nat /\ dbStock \in Nat /\ leaked \in Nat
      /\ IsFiniteSet(Active) /\ IsFiniteSet(undone) /\ IsFiniteSet(withheld)
  BY Finite DEF TypeInv, TypeOK
<1> USE <1>0, FlippedSize DEF Ledger, StockConserved, DbLedger, redisVars
<1>1. CASE Committed
  <2>1. Reserved' = Reserved /\ Active' = Active \ {cancelOrder} /\ cancelOrder \in Active
    BY <1>1 DEF Committed, TypeInv, TypeOK, Registers, Reserved, Active, Admitted, OrderStatus
  <2>2. Cardinality(Active') = Cardinality(Active) - 1
    BY <2>1, FS_RemoveElement
  <2> QED BY <1>1, <2>1, <2>2 DEF Committed, ReturnedStock
<1>2. CASE ~Committed
  <2>0. Reserved' = Reserved /\ Active' = Active /\ dbStock' = dbStock
    BY <1>2 DEF Cancellation, CancelCommit, CancelUnknown, CancelBegin, CancelAbort, CancelRedis,
       CancelRollback, CancelLost, CancelCompensate, CancelCompensateFails,
       Reserved, Active, Admitted, dbVars
  <2>1. CASE (\E o \in Orders : CancelBegin(o)) \/ CancelAbort \/ CancelRedis \/ CancelLost
    BY <2>0, <2>1 DEF CancelBegin, CancelAbort, CancelRedis, CancelLost
  <2>2. CASE CancelRollback
    <3>1. Cardinality(undone') = Cardinality(undone) + 1
      BY <2>2, FS_AddElement DEF CancelRollback
    <3> QED BY <2>0, <2>2, <3>1 DEF CancelRollback
  <2>3. ASSUME NEW o \in Orders, CancelCompensate(o) \/ CancelCompensateFails(o)
        PROVE  Ledger'
    <3>1. ASSUME o \in undone PROVE Cardinality(undone \ {o}) = Cardinality(undone) - 1
      BY <3>1, FS_RemoveElement
    <3>2. ASSUME o \in unheard PROVE Cardinality(withheld \cup {o}) = Cardinality(withheld) + 1
      BY <3>2, FS_AddElement DEF TypeInv, Compensations
    <3>3. Cardinality(Flipped') = Cardinality(Flipped)
      BY <2>3 DEF CancelCompensate, CancelCompensateFails
    <3>4. CASE CancelCompensate(o)
      <4>1. stock' = stock - 1 /\ leaked' = leaked
        BY <3>4 DEF CancelCompensate
      <4>2. CASE o \in undone /\ undone' = undone \ {o} /\ withheld' = withheld
        BY <2>0, <3>1, <3>3, <4>1, <4>2
      <4>3. CASE o \in unheard /\ withheld' = withheld \cup {o} /\ undone' = undone
        BY <2>0, <3>2, <3>3, <4>1, <4>3
      <4> QED BY <3>4, <4>2, <4>3 DEF CancelCompensate
    <3>5. CASE CancelCompensateFails(o)
      <4>1. stock' = stock /\ withheld' = withheld
        BY <3>5 DEF CancelCompensateFails
      <4>2. CASE o \in undone /\ undone' = undone \ {o} /\ leaked' = leaked + 1
        BY <2>0, <3>1, <3>3, <4>1, <4>2
      <4>3. CASE undone' = undone /\ leaked' = leaked
        BY <2>0, <3>3, <4>1, <4>3
      <4> QED BY <3>5, <4>2, <4>3 DEF CancelCompensateFails
    <3> QED BY <2>3, <3>4, <3>5
  <2> QED BY <1>2, <2>1, <2>2, <2>3 DEF Cancellation, CancelCommit, CancelUnknown
<1> QED BY <1>1, <1>2

LEMMA LedgerStep ==
    ASSUME TypeInv, RowsInv, Ledger, [Next]_vars
    PROVE  Ledger'
<1>1. CASE UNCHANGED vars
  BY <1>1, LedgerSame
  DEF vars, redisVars, dbVars, cancelVars, Unmoved, Reserved, Active, Admitted
<1>2. CASE Transport
  <2>1. CASE \E B \in SUBSET topic : Consume(B)
    BY <2>1, LedgerConsume
  <2>2. CASE ~\E B \in SUBSET topic : Consume(B)
    <3>1. Unmoved
      BY <1>2, <2>2, CarriedUnmoved DEF Transport
    <3>2. UNCHANGED <<stock, dbStock, cancelPc, cancelOrder, undone, leaked, withheld>>
      BY <1>2, <2>2 DEF Transport, HandoffInsert, HandoffComplete, HandoffQuarantine, Send,
         DeadLetter, redisVars, dbVars, cancelVars
    <3> QED BY <3>1, <3>2, LedgerSame
  <2> QED BY <2>1, <2>2
<1>3. CASE Recovery
  <2>1. UNCHANGED <<stock, dbStock, cancelPc, cancelOrder, undone, leaked, withheld>>
    BY <1>3 DEF Recovery, DltRead, DltRetry, DltRetryFails, DltMarkManualReview, DltCrash,
       ReviewRead, ReviewRetry, ReviewRetryFails, ReviewDone, redisVars, dbVars, cancelVars
  <2> QED BY <1>3, <2>1, RecoveryUnmoved, LedgerSame
<1> QED BY <1>1, <1>2, <1>3, LedgerSeckill, LedgerCancellation DEF Next

LEMMA InitLedger == Init => Ledger
<1> SUFFICES ASSUME Init PROVE Ledger
  OBVIOUS
<1>1. Reserved = {} /\ Active = {} /\ Flipped = {} /\ undone = {} /\ withheld = {}
  BY DEF Init, Reserved, Active, Admitted, Flipped
<1>2. InitStock \in Nat
  BY BoundsAssumption
<1> QED BY <1>1, <1>2, FS_EmptySet DEF Init, Ledger, StockConserved, DbLedger

LEMMA LedgerInvariant == Spec => [](TypeInv /\ RowsInv /\ Ledger)
<1>1. (TypeInv /\ RowsInv /\ Ledger) /\ [Next]_vars => (TypeInv /\ RowsInv /\ Ledger)'
  BY TypeStep, RowsStep, LedgerStep
<1> QED BY <1>1, InitTypeInv, InitRowsInv, InitLedger, PTL DEF Spec

\* Redis and MySQL agree on the stock in every reachable state, for any number
\* of users, orders, redeliveries and failed cancellations.
THEOREM StockConservedHolds == Spec => []StockConserved
<1>1. Ledger => StockConserved
  BY DEF Ledger
<1> QED BY <1>1, LedgerInvariant, PTL

\* MySQL has taken one unit for each active order, exactly.
THEOREM DbLedgerHolds == Spec => []DbLedger
<1>1. Ledger => DbLedger
  BY DEF Ledger
<1> QED BY <1>1, LedgerInvariant, PTL

\* decrementStock refuses an admitted order for no other unit than those an undecided
\* or undone cancellation has put on sale again: what the admitted orders need is what
\* Redis has set aside, and a unit withheld from the sale leaves one more.
THEOREM AdmittedFitsHolds == Spec => []AdmittedFits
<1>1. ASSUME TypeInv, Ledger PROVE AdmittedFits
  <2>1. /\ Cardinality(Reserved) \in Nat /\ Cardinality(Active) \in Nat
        /\ Cardinality(undone) \in Nat /\ Cardinality(withheld) \in Nat
        /\ Cardinality(Flipped) \in Nat /\ leaked \in Nat
        /\ stock \in Nat /\ dbStock \in Nat /\ InitStock \in Nat
    BY <1>1, Finite, FlippedSize, BoundsAssumption DEF TypeInv, TypeOK
  <2> QED BY <1>1, <2>1 DEF Ledger, StockConserved, DbLedger, AdmittedFits
<1> QED BY <1>1, LedgerInvariant, PTL

-----------------------------------------------------------------------------
(***************************************************************************)
(* Permits.  OnePermitPerUser needs to know that whoever holds an order is *)
(* in the set seckill.lua consults, unless a cancellation of his was undone.*)
(***************************************************************************)

PermitRecorded == \A o \in Holding : BuyerOf[o] \in purchased \cup reopened

Permits == PermitRecorded /\ OnePermitPerUser

\* A step that lets nobody go from purchased and adds no holder.
LEMMA PermitsSame ==
    ASSUME Permits, Holding' \subseteq Holding,
           purchased \subseteq purchased', reopened \subseteq reopened'
    PROVE  Permits'
BY DEF Permits, PermitRecorded, OnePermitPerUser

LEMMA PermitsSeckill ==
    ASSUME TypeInv, RowsInv, Permits, NEW o \in Orders, Seckill(o)
    PROVE  Permits'
<1>1. Holding' \subseteq Holding \cup {o}
  BY SeckillMoves DEF Holding, Flipped, Seckill, cancelVars
<1>2. /\ BuyerOf[o] \notin purchased
      /\ purchased' = purchased \cup {BuyerOf[o]}
      /\ reopened' = reopened
  BY DEF Seckill, Admissible, cancelVars
<1> QED BY <1>1, <1>2 DEF Permits, PermitRecorded, OnePermitPerUser

LEMMA PermitsCancellation ==
    ASSUME TypeInv, Permits, Cancellation
    PROVE  Permits'
<1> USE DEF redisVars, dbVars
<1>1. CASE CancelRedis
  \* The other orders of the buyer, if any, are why he is in reopened.
  <2>1. /\ Holding' = Holding \ {cancelOrder} /\ cancelOrder \in Holding
        /\ purchased' = purchased \ {BuyerOf[cancelOrder]} /\ reopened' = reopened
    BY <1>1 DEF CancelRedis, Released, Holding, Flipped, Reserved, Active, Admitted, TypeInv, TypeOK, Registers
  <2> QED BY <2>1 DEF Permits, PermitRecorded, OnePermitPerUser
<1>2. CASE Committed
  <2>1. Holding' \subseteq Holding
    BY <1>2 DEF Committed, Holding, Flipped, Reserved, Active, Admitted, TypeInv, TypeOK, Registers, OrderStatus
  <2> QED BY <1>2, <2>1, PermitsSame DEF Committed
<1>3. CASE CancelRollback \/ CancelLost
  <2>1. /\ Holding' = Holding \cup {cancelOrder}
        /\ purchased' = purchased /\ reopened' = reopened \cup {BuyerOf[cancelOrder]}
    BY <1>3 DEF CancelRollback, CancelLost, Holding, Flipped, Reserved, Active, Admitted, TypeInv, TypeOK, Registers
  <2> QED BY <2>1 DEF Permits, PermitRecorded, OnePermitPerUser
<1>4. CASE \/ \E o \in Orders : CancelBegin(o)
           \/ CancelAbort
           \/ \E o \in Orders : CancelCompensate(o) \/ CancelCompensateFails(o)
  <2>1. Holding' = Holding /\ purchased \subseteq purchased' /\ reopened' = reopened
    BY <1>4 DEF CancelBegin, CancelAbort, CancelCompensate, CancelCompensateFails,
       Holding, Flipped, Reserved, Active, Admitted
  <2> QED BY <2>1, PermitsSame
<1> QED BY <1>1, <1>2, <1>3, <1>4 DEF Cancellation, CancelCommit, CancelUnknown

LEMMA PermitsStep ==
    ASSUME TypeInv, RowsInv, Permits, [Next]_vars
    PROVE  Permits'
<1> USE DEF Holding, Flipped
<1>1. CASE UNCHANGED vars
  BY <1>1, PermitsSame DEF vars, redisVars, dbVars, cancelVars, Reserved, Active, Admitted
<1>2. CASE Transport
  <2>1. UNCHANGED <<purchased, reopened, cancelPc, cancelOrder>>
    BY <1>2 DEF Transport, HandoffInsert, HandoffComplete, HandoffQuarantine, Send, Consume,
       DeadLetter, redisVars, cancelVars
  <2>2. Reserved' \cup Active' = Reserved \cup Active
    <3>1. CASE \E B \in SUBSET topic : Consume(B)
      BY <3>1, ConsumeMoves
    <3>2. CASE ~\E B \in SUBSET topic : Consume(B)
      BY <1>2, <3>2, CarriedUnmoved DEF Transport, Unmoved
    <3> QED BY <3>1, <3>2
  <2> QED BY <2>1, <2>2, PermitsSame
<1>3. CASE Recovery
  <2>1. UNCHANGED <<purchased, reopened, cancelPc, cancelOrder>>
    BY <1>3 DEF Recovery, DltRead, DltRetry, DltRetryFails, DltMarkManualReview, DltCrash,
       ReviewRead, ReviewRetry, ReviewRetryFails, ReviewDone, redisVars, cancelVars
  <2> QED BY <1>3, <2>1, RecoveryUnmoved, PermitsSame DEF Unmoved
<1> QED BY <1>1, <1>2, <1>3, PermitsSeckill, PermitsCancellation DEF Next

LEMMA InitPermits == Init => Permits
BY DEF Init, Permits, PermitRecorded, OnePermitPerUser, Holding, Reserved, Active, Admitted

\* One permit per user holds for every order of Redis and MySQL together until a
\* cancellation of that user is undone after Redis has released him.
THEOREM OnePermitPerUserHolds == Spec => []OnePermitPerUser
<1>1. Permits => OnePermitPerUser
  BY DEF Permits
<1>2. TypeInv /\ RowsInv /\ Permits /\ [Next]_vars => Permits'
  BY PermitsStep
<1> QED BY <1>1, <1>2, RowsInvariant, InitPermits, PTL DEF Spec

LEMMA EarnedSame ==
    ASSUME PermitsEarned, Holding \subseteq Holding', blocked \subseteq blocked',
           purchased' \subseteq purchased
    PROVE  PermitsEarned'
BY DEF PermitsEarned, Holders

LEMMA EarnedSeckill ==
    ASSUME TypeInv, RowsInv, PermitsEarned, NEW o \in Orders, Seckill(o)
    PROVE  PermitsEarned'
<1>1. o \notin Flipped
  BY SeckillMoves DEF Flipped, Active, TypeInv, Registers
<1>2. Holding' = Holding \cup {o}
  BY <1>1, SeckillMoves DEF Holding, Flipped, Seckill, cancelVars
<1> QED BY <1>2 DEF Seckill, cancelVars, PermitsEarned, Holders

LEMMA EarnedCancellation ==
    ASSUME TypeInv, PermitsEarned, Cancellation
    PROVE  PermitsEarned'
<1> USE DEF redisVars, dbVars
<1>1. CASE CancelRedis
  <2>1. /\ Holding' = Holding \ {cancelOrder}
        /\ blocked' = blocked \ {BuyerOf[cancelOrder]}
        /\ purchased' = purchased \ {BuyerOf[cancelOrder]}
    BY <1>1 DEF CancelRedis, Released, Holding, Flipped, Reserved, Active, Admitted, TypeInv,
                Registers
  \* The buyer has left purchased; the orders of the others are not this one.
  <2>2. Holders \ {BuyerOf[cancelOrder]} \subseteq Holders'
    BY <2>1 DEF Holders
  <2> QED BY <2>1, <2>2 DEF PermitsEarned
<1>2. CASE Committed
  <2>1. Holding' = Holding
    BY <1>2 DEF Committed, Holding, Flipped, Reserved, Active, Admitted, TypeInv, TypeOK,
                Registers, OrderStatus
  <2> QED BY <1>2, <2>1, EarnedSame DEF Committed
<1>3. CASE \/ \E o \in Orders : CancelBegin(o)
           \/ CancelAbort \/ CancelRollback \/ CancelLost
           \/ \E o \in Orders : CancelCompensateFails(o)
  <2>1. Holding \subseteq Holding' /\ purchased' = purchased /\ blocked' = blocked
    BY <1>3 DEF CancelBegin, CancelAbort, CancelRollback, CancelLost, CancelCompensateFails,
       Holding, Flipped, Reserved, Active, Admitted
  <2> QED BY <2>1, EarnedSame
<1>4. ASSUME NEW o \in Orders, CancelCompensate(o) PROVE PermitsEarned'
  <2>1. /\ Holding' = Holding /\ purchased' = purchased \cup {BuyerOf[o]}
        /\ blocked' = blocked \cup ({BuyerOf[o]} \ Holders)
    BY <1>4 DEF CancelCompensate, Holding, Flipped, Reserved, Active, Admitted
  <2> QED BY <2>1 DEF PermitsEarned, Holders
<1> QED BY <1>1, <1>2, <1>3, <1>4 DEF Cancellation, CancelCommit, CancelUnknown

LEMMA EarnedStep ==
    ASSUME TypeInv, RowsInv, PermitsEarned, [Next]_vars
    PROVE  PermitsEarned'
<1> USE DEF Holding, Flipped
<1>1. CASE UNCHANGED vars
  BY <1>1, EarnedSame DEF vars, redisVars, dbVars, cancelVars, Reserved, Active, Admitted
<1>2. CASE Transport
  <2>1. UNCHANGED <<purchased, blocked, cancelPc, cancelOrder>>
    BY <1>2 DEF Transport, HandoffInsert, HandoffComplete, HandoffQuarantine, Send, Consume,
       DeadLetter, redisVars, cancelVars
  <2>2. Reserved' \cup Active' = Reserved \cup Active
    <3>1. CASE \E B \in SUBSET topic : Consume(B)
      BY <3>1, ConsumeMoves
    <3>2. CASE ~\E B \in SUBSET topic : Consume(B)
      BY <1>2, <3>2, CarriedUnmoved DEF Transport, Unmoved
    <3> QED BY <3>1, <3>2
  <2> QED BY <2>1, <2>2, EarnedSame
<1>3. CASE Recovery
  <2>1. UNCHANGED <<purchased, blocked, cancelPc, cancelOrder>>
    BY <1>3 DEF Recovery, DltRead, DltRetry, DltRetryFails, DltMarkManualReview, DltCrash,
       ReviewRead, ReviewRetry, ReviewRetryFails, ReviewDone, redisVars, cancelVars
  <2> QED BY <1>3, <2>1, RecoveryUnmoved, EarnedSame DEF Unmoved
<1> QED BY <1>1, <1>2, <1>3, EarnedSeckill, EarnedCancellation DEF Next

\* Whoever Redis turns away as a buyer has an order somewhere between the handoff and
\* the order table, however his cancellations went; the one exception is a permit that a
\* compensation has given him whose order was cancelled by then.
THEOREM PermitsEarnedHolds == Spec => []PermitsEarned
<1>1. Init => PermitsEarned
  BY DEF Init, PermitsEarned
<1>2. TypeInv /\ RowsInv /\ PermitsEarned /\ [Next]_vars => PermitsEarned'
  BY EarnedStep
<1> QED BY <1>1, <1>2, RowsInvariant, PTL DEF Spec

LEMMA AdmittedGrows ==
    ASSUME TypeInv, RowsInv, Next
    PROVE  Admitted \subseteq Admitted'
<1>1. CASE \E o \in Orders : Seckill(o)
  BY <1>1, SeckillMoves
<1>2. CASE \E B \in SUBSET topic : Consume(B)
  BY <1>2, ConsumeMoves
<1>3. CASE Transport /\ ~\E B \in SUBSET topic : Consume(B)
  BY <1>3, CarriedUnmoved DEF Transport, Unmoved
<1>4. CASE Recovery
  BY <1>4, RecoveryUnmoved DEF Unmoved
<1>5. CASE Cancellation
  BY <1>5 DEF Cancellation, CancelBegin, CancelAbort, CancelRedis, CancelCommit, CancelUnknown,
     Committed, CancelRollback, CancelLost, CancelCompensate, CancelCompensateFails, Admitted, redisVars, dbVars
<1> QED BY <1>1, <1>2, <1>3, <1>4, <1>5 DEF Next

\* No step of any actor, in any order, makes an admitted order disappear.
THEOREM AdmittedForeverHolds == Spec => AdmittedForever
<1>1. TypeInv /\ RowsInv /\ [Next]_vars => [Admitted \subseteq Admitted']_vars
  BY AdmittedGrows
<1> QED BY <1>1, RowsInvariant, PTL DEF Spec, AdmittedForever

-----------------------------------------------------------------------------
(***************************************************************************)
(* The pipeline implements SeckillSale.  Most steps do not show; the ones  *)
(* that do are an admission, a consumed batch and the ends of a cancel     *)
(* transaction.  That a permit is free in Redis only when its user holds   *)
(* nothing, or is excused, is the invariant Permits.                       *)
(***************************************************************************)

SaleInv == TypeInv /\ RowsInv /\ Permits

\* Phase looks at these only.
LEMMA PhaseUnchanged ==
    ASSUME Reserved' = Reserved, order' = order, UNCHANGED <<cancelPc, cancelOrder>>
    PROVE  [o \in Orders |-> Phase(o)]' = [o \in Orders |-> Phase(o)]
<1>1. Flipped' = Flipped /\ Active' = Active
  BY DEF Flipped, Active
<1>2. ASSUME NEW o \in Orders PROVE Phase(o)' = Phase(o)
  BY <1>1 DEF Phase
<1> QED BY <1>2

LEMMA SaleUnchanged ==
    ASSUME Reserved' = Reserved, order' = order,
           UNCHANGED <<cancelPc, cancelOrder, stock, leaked, undone, unheard, reopened>>
    PROVE  UNCHANGED Sale!sale
<1>1. [o \in Orders |-> Phase(o)]' = [o \in Orders |-> Phase(o)]
  BY PhaseUnchanged
<1> QED BY <1>1 DEF Sale!sale

\* The phase of an order, one case at a time.
LEMMA PhaseCases ==
    ASSUME TypeInv, NEW o \in Orders
    PROVE  /\ o \in Flipped => order[o] = "ACTIVE" /\ Phase(o) = "cancelling"
           /\ o \in Active \ Flipped => Phase(o) = "placed"
           /\ o \in Reserved => Phase(o) = "accepted"
           /\ order[o] = "CANCELLED" => Phase(o) = "cancelled"
           /\ Phase(o) \in {"accepted", "placed"} => o \in Holding
BY DEF TypeInv, TypeOK, Registers, OrderStatus, Phase, Flipped, Active, Reserved, Holding

LEMMA SaleSeckill ==
    ASSUME SaleInv, NEW o \in Orders, Seckill(o)
    PROVE  Sale!Accept(o)
<1> DEFINE phase == [p \in Orders |-> Phase(p)]
<1>1. /\ o \notin Admitted /\ Reserved' = Reserved \cup {o} /\ o \notin Reserved
      /\ Active' = Active /\ o \notin Active /\ order' = order /\ Flipped' = Flipped
  BY SeckillMoves DEF SaleInv, Seckill, dbVars, cancelVars, Flipped
<1>2. o \notin Flipped /\ order[o] = "none"
  BY <1>1 DEF SaleInv, TypeInv, TypeOK, RowsInv, RecordsHaveRows, Admitted, Registers, Flipped
<1>3. phase[o] = "new" /\ Phase(o)' = "accepted"
  BY <1>1, <1>2 DEF Phase
<1>4. ASSUME NEW p \in Orders, p # o PROVE Phase(p)' = Phase(p)
  BY <1>1, <1>4 DEF Phase
<1>5. phase' = [phase EXCEPT ![o] = "accepted"]
  BY <1>3, <1>4
<1>6. Sale!MayBuy(BuyerOf[o])
  <2>1. BuyerOf[o] \notin purchased
    BY DEF Seckill, Admissible
  <2>2. Sale!Held \subseteq Holding
    BY PhaseCases DEF Sale!Held, SaleInv
  <2> QED BY <2>1, <2>2 DEF SaleInv, Permits, PermitRecorded, Sale!MayBuy
<1>7. UNCHANGED <<leaked + Cardinality(undone), reopened, unheard>>
  BY DEF Seckill, cancelVars
<1> QED BY <1>3, <1>5, <1>6, <1>7 DEF Sale!Accept, Seckill, Admissible

LEMMA SaleConsume ==
    ASSUME SaleInv, NEW B \in SUBSET topic, Consume(B)
    PROVE  Sale!Place(Fresh(B))
<1> DEFINE phase == [p \in Orders |-> Phase(p)]
<1>0. Fresh(B) \subseteq Orders
  BY DEF SaleInv, TypeInv, TypeOK, Fresh
<1>1. /\ Fresh(B) \subseteq Reserved /\ Reserved' = Reserved \ Fresh(B)
      /\ Active' = Active \cup Fresh(B) /\ Flipped' = Flipped
      /\ \A o \in Orders \ Fresh(B) : order'[o] = order[o]
      /\ \A o \in Fresh(B) : order'[o] = "ACTIVE"
  BY <1>0, ConsumeMoves DEF SaleInv, Consume, cancelVars, Flipped
<1>2. ASSUME NEW o \in Fresh(B) PROVE o \in Orders /\ phase[o] = "accepted" /\ Phase(o)' = "placed"
  <2>1. o \in Reserved /\ o \in Orders
    BY <1>0, <1>1
  <2>2. Phase(o) = "accepted"
    BY <2>1, PhaseCases DEF SaleInv
  <2>3. o \notin Flipped
    BY <2>1 DEF SaleInv, TypeInv, Registers, Flipped, Reserved
  <2> QED BY <2>1, <2>2, <2>3, <1>1 DEF Phase
<1>3. ASSUME NEW o \in Orders \ Fresh(B) PROVE Phase(o)' = Phase(o)
  BY <1>1 DEF Phase
<1>4. phase' = [o \in Orders |-> IF o \in Fresh(B) THEN "placed" ELSE phase[o]]
  BY <1>2, <1>3
<1>5. UNCHANGED <<stock, leaked + Cardinality(undone), reopened, unheard>>
  BY DEF Consume, redisVars, cancelVars
<1> QED BY <1>2, <1>4, <1>5 DEF Sale!Place

\* The steps of the order that is being cancelled.
LEMMA SaleCancelOne ==
    ASSUME SaleInv, NEW o \in Orders, o = cancelOrder,
           CancelRedis \/ CancelCommit \/ CancelUnknown \/ CancelRollback \/ CancelLost
    PROVE  Sale!Next
<1> DEFINE phase == [p \in Orders |-> Phase(p)]
<1>0. /\ order[o] = "ACTIVE" /\ o \in Active /\ o \notin Reserved
      /\ order \in [Orders -> OrderStatus]
  BY DEF CancelRedis, CancelCommit, CancelUnknown, Committed, CancelRollback, CancelLost,
         SaleInv, TypeInv, TypeOK, Registers, Active, Reserved
<1>1. /\ leaked \in Nat /\ IsFiniteSet(undone) /\ Cardinality(undone) \in Nat
      /\ Cardinality(unheard) \in Nat /\ Cardinality(withheld) \in Nat /\ MaxFailed \in Nat
  BY Finite, BoundsAssumption DEF SaleInv, TypeInv, TypeOK
<1>2. ASSUME NEW p \in Orders, p # o PROVE Phase(p)' = Phase(p)
  <2>1. (p \in Flipped') <=> (p \in Flipped)
    BY <1>2 DEF CancelRedis, CancelCommit, CancelUnknown, Committed, CancelRollback, CancelLost, Flipped
  <2>2. order'[p] = order[p]
    BY <1>0, <1>2 DEF CancelRedis, CancelCommit, CancelUnknown, Committed, CancelRollback, CancelLost, dbVars
  <2>3. (p \in Reserved') <=> (p \in Reserved)
    BY <2>2 DEF CancelRedis, CancelCommit, CancelUnknown, Committed, CancelRollback, CancelLost,
                Reserved, Admitted, redisVars, dbVars
  <2> QED BY <2>1, <2>2, <2>3 DEF Phase, Active
<1>3. CASE CancelRedis
  <2>1. Flipped = {} /\ Flipped' = {o} /\ order' = order
    BY <1>3 DEF CancelRedis, Flipped, dbVars
  <2>2. phase[o] = "placed" /\ Phase(o)' = "cancelling"
    <3>1. Phase(o) = "placed"
      BY <1>0, <2>1, PhaseCases DEF SaleInv
    <3>2. Phase(o)' = "cancelling"
      BY <1>0, <2>1 DEF Phase, Active, Reserved
    <3> QED BY <3>1, <3>2
  <2>3. phase' = [phase EXCEPT ![o] = "cancelling"]
    BY <1>2, <2>2
  <2>4. Sale!Cancel(o)
    BY <1>3, <2>2, <2>3 DEF CancelRedis, Sale!Cancel
  <2> QED BY <2>4 DEF Sale!Next
<1>4. CASE CancelCommit \/ CancelUnknown
  <2>1. Flipped = {o} /\ Flipped' = {} /\ order'[o] = "CANCELLED"
    BY <1>0, <1>4 DEF CancelCommit, CancelUnknown, Committed, Flipped
  <2>2. phase[o] = "cancelling" /\ Phase(o)' = "cancelled"
    <3>1. Phase(o) = "cancelling"
      BY <2>1, PhaseCases DEF SaleInv
    <3>2. Phase(o)' = "cancelled"
      BY <2>1 DEF Phase, Active, Reserved
    <3> QED BY <3>1, <3>2
  <2>3. phase' = [phase EXCEPT ![o] = "cancelled"]
    BY <1>2, <2>2
  <2>4. Sale!Confirm(o)
    BY <1>4, <2>2, <2>3 DEF CancelCommit, CancelUnknown, Committed, redisVars, Sale!Confirm
  <2> QED BY <2>4 DEF Sale!Next
<1>5. CASE CancelRollback \/ CancelLost
  <2>1. Flipped = {o} /\ Flipped' = {} /\ order' = order
    BY <1>5 DEF CancelRollback, CancelLost, Flipped, dbVars
  <2>2. phase[o] = "cancelling" /\ Phase(o)' = "placed"
    <3>1. Phase(o) = "cancelling"
      BY <2>1, PhaseCases DEF SaleInv
    <3>2. order'[o] # "CANCELLED" /\ o \in Active' \ Flipped'
      BY <1>0, <2>1 DEF Active
    <3>3. Phase(o)' = "placed"
      BY <1>0, <2>1, <3>2 DEF Phase, Active, Reserved
    <3> QED BY <3>1, <3>3
  <2>3. phase' = [phase EXCEPT ![o] = "placed"]
    BY <1>2, <2>2
  <2>4. (leaked + Cardinality(undone))' = leaked + Cardinality(undone) + 1 /\ unheard' = unheard
    <3>1. CASE CancelRollback
      <4>1. Cardinality(undone') = Cardinality(undone) + 1
        BY <3>1, <1>1, FS_AddElement DEF CancelRollback
      <4> QED BY <3>1, <4>1, <1>1 DEF CancelRollback
    <3>2. CASE CancelLost
      BY <3>2, <1>1 DEF CancelLost
    <3> QED BY <1>5, <3>1, <3>2
  <2>5. leaked + Cardinality(undone) < MaxFailed
    BY <1>1, <1>5 DEF CancelRollback, CancelLost, FaultsLeft
  <2>6. reopened' = reopened \cup {BuyerOf[o]} /\ stock' = stock
    BY <1>5 DEF CancelRollback, CancelLost, redisVars
  <2>7. Sale!TakeBack(o)
    BY <2>2, <2>3, <2>4, <2>5, <2>6 DEF Sale!TakeBack
  <2> QED BY <2>7 DEF Sale!Next
<1> QED BY <1>3, <1>4, <1>5

LEMMA SaleCompensation ==
    ASSUME SaleInv, NEW o \in Orders, CancelCompensate(o) \/ CancelCompensateFails(o)
    PROVE  [Sale!Next]_(Sale!sale)
<1>1. /\ leaked \in Nat /\ stock \in Nat
      /\ IsFiniteSet(undone) /\ Cardinality(undone) \in Nat
  BY Finite DEF SaleInv, TypeInv, TypeOK
<1>2. [p \in Orders |-> Phase(p)]' = [p \in Orders |-> Phase(p)] /\ reopened' = reopened
  <2>1. Reserved' = Reserved /\ order' = order /\ UNCHANGED <<cancelPc, cancelOrder>>
    BY DEF CancelCompensate, CancelCompensateFails, Reserved, Admitted, redisVars, dbVars
  <2> QED BY <2>1, PhaseUnchanged DEF CancelCompensate, CancelCompensateFails
<1>3. CASE o \in undone /\ undone' = undone \ {o} /\ unheard' = unheard
  <2>1. Cardinality(undone') = Cardinality(undone) - 1 /\ Cardinality(undone) # 0
    BY <1>1, <1>3, FS_RemoveElement, FS_EmptySet
  <2>2. CASE CancelCompensate(o)
    BY <1>1, <1>2, <1>3, <2>1, <2>2 DEF CancelCompensate, Sale!Next, Sale!Withdraw
  <2>3. CASE CancelCompensateFails(o)
    <3>1. leaked' = leaked + 1 /\ stock' = stock
      BY <1>3, <2>3 DEF CancelCompensateFails, redisVars
    <3> QED BY <1>1, <1>2, <1>3, <2>1, <3>1 DEF Sale!sale
  <2> QED BY <2>2, <2>3
<1>4. CASE o \in unheard /\ unheard' = unheard \ {o} /\ undone' = undone
  <2>1. leaked' = leaked /\ ((stock > 0 /\ stock' = stock - 1) \/ stock' = stock)
    BY <1>4 DEF CancelCompensate, CancelCompensateFails, redisVars
  <2>2. Sale!Withhold(o)
    BY <1>2, <1>4, <2>1 DEF Sale!Withhold
  <2> QED BY <2>2 DEF Sale!Next
<1> QED BY <1>3, <1>4 DEF CancelCompensate, CancelCompensateFails

LEMMA NextImplementsSale ==
    ASSUME SaleInv, [Next]_vars
    PROVE  [Sale!Next]_(Sale!sale)
<1>1. CASE UNCHANGED vars
  BY <1>1, SaleUnchanged DEF vars, redisVars, dbVars, cancelVars, Reserved, Admitted
<1>2. ASSUME NEW o \in Orders, Seckill(o) PROVE Sale!Next
  BY <1>2, SaleSeckill DEF Sale!Next
<1>3. CASE Transport
  <2>1. ASSUME NEW B \in SUBSET topic, Consume(B) PROVE Sale!Next
    <3>1. Fresh(B) \in SUBSET Orders
      BY DEF SaleInv, TypeInv, TypeOK, Fresh
    <3> QED BY <2>1, <3>1, SaleConsume DEF Sale!Next
  <2>2. CASE ~\E B \in SUBSET topic : Consume(B)
    <3>1. Reserved' = Reserved
      BY <1>3, <2>2, CarriedUnmoved DEF Transport, Unmoved, SaleInv
    <3>2. order' = order /\ UNCHANGED <<cancelPc, cancelOrder, stock, leaked, undone, unheard, reopened>>
      BY <1>3, <2>2 DEF Transport, HandoffInsert, HandoffComplete, HandoffQuarantine, Send,
         DeadLetter, redisVars, dbVars, cancelVars
    <3> QED BY <3>1, <3>2, SaleUnchanged
  <2> QED BY <2>1, <2>2
<1>4. CASE Recovery
  <2>1. order' = order /\ UNCHANGED <<cancelPc, cancelOrder, stock, leaked, undone, unheard, reopened>>
    BY <1>4 DEF Recovery, DltRead, DltRetry, DltRetryFails, DltMarkManualReview, DltCrash,
       ReviewRead, ReviewRetry, ReviewRetryFails, ReviewDone, redisVars, dbVars, cancelVars
  <2> QED BY <1>4, <2>1, RecoveryUnmoved, SaleUnchanged DEF Unmoved, SaleInv
<1>5. CASE Cancellation
  <2>1. ASSUME NEW o \in Orders, CancelBegin(o) PROVE UNCHANGED Sale!sale
    <3>1. Flipped' = Flipped /\ order' = order /\ Reserved' = Reserved /\ Active' = Active
      BY <2>1 DEF CancelBegin, Flipped, Reserved, Active, Admitted, redisVars, dbVars
    <3> QED BY <2>1, <3>1 DEF CancelBegin, Sale!sale, Phase, redisVars
  <2>2. CASE CancelAbort
    <3>1. Flipped' = Flipped /\ order' = order /\ Reserved' = Reserved /\ Active' = Active
      BY <2>2 DEF CancelAbort, Flipped, Reserved, Active, Admitted, redisVars, dbVars
    <3> QED BY <2>2, <3>1 DEF CancelAbort, Sale!sale, Phase, redisVars
  <2>3. CASE CancelRedis \/ CancelCommit \/ CancelUnknown \/ CancelRollback \/ CancelLost
    <3>1. cancelOrder \in Orders
      BY <2>3 DEF CancelRedis, CancelCommit, CancelUnknown, Committed, CancelRollback, CancelLost,
         SaleInv, TypeInv, Registers
    <3> QED BY <2>3, <3>1, SaleCancelOne
  <2> QED BY <1>5, <2>1, <2>2, <2>3, SaleCompensation DEF Cancellation
<1> QED BY <1>1, <1>2, <1>3, <1>4, <1>5 DEF Next

LEMMA SaleInit == Init => Sale!Init
<1> SUFFICES ASSUME Init PROVE Sale!Init
  OBVIOUS
<1>1. /\ Reserved = {} /\ Active = {} /\ Flipped = {}
      /\ Cardinality(undone) = 0 /\ unheard = {}
  BY FS_EmptySet DEF Init, Reserved, Active, Admitted, Flipped
<1>2. \A o \in Orders : Phase(o) = "new"
  BY <1>1 DEF Init, Phase
<1> QED BY <1>1, <1>2 DEF Init, Sale!Init

\* The pipeline, with all its stores, retries and failures, behaves towards its
\* buyers like the simple sale of SeckillSale.
THEOREM PipelineImplementsSale == Spec => ImplementsSale
<1>1. SaleInv /\ [Next]_vars => [Sale!Next]_(Sale!sale)
  BY NextImplementsSale
<1>2. TypeInv /\ RowsInv /\ Permits /\ [Next]_vars => Permits'
  BY PermitsStep
<1>3. SaleInv <=> TypeInv /\ RowsInv /\ Permits
  BY DEF SaleInv
<1> QED BY <1>1, <1>2, <1>3, RowsInvariant, InitPermits, SaleInit, PTL
        DEF Spec, ImplementsSale, Sale!Spec

-----------------------------------------------------------------------------
(***************************************************************************)
(* The reconciliation.  A rebuild that races the pipeline forgets no buyer *)
(* whose order had reached the outbox when the lease was taken and gives   *)
(* no unit of an order away; one that nothing races repairs Redis.         *)
(***************************************************************************)

\* What the reconciler knows of the rows it started from, step by step: before
\* the orders are read, a row without a recorded buyer has its order by now;
\* afterwards, that order has been cancelled.
Collected ==
    /\ recPc = "locked" => \A o \in recRows : outbox[o] # "none"
    /\ recPc = "events" => \A o \in recRows : BuyerOf[o] \in recUsers \/ order[o] # "none"
    /\ recPc \in {"users", "members"} =>
            \A o \in recRows : BuyerOf[o] \in recUsers \/ order[o] = "CANCELLED"

RecInv ==
    /\ TypeInv
    /\ RowsInv
    /\ recRows \subseteq Orders
    /\ recPc \in {"idle", "listed", "locked", "events", "users", "members"}
    /\ recStock \in Nat
    /\ recReserved \subseteq Orders
    /\ recUsers \subseteq Users
    /\ recMembers \subseteq Orders
    /\ recHandoffOnly \in Nat
    /\ recPc # "members" => recHandoffOnly = 0
    /\ Collected

LEMMA InitRecInv == RecInit => RecInv
BY InitTypeInv, InitRowsInv DEF RecInit, RecInv, Collected

\* The steps of the pipeline: rows only move forward, the registers stay.
LEMMA PipelineKeeps ==
    ASSUME RecInv, SaleStep \/ CancelStep
    PROVE  RecInv'
<1>1. Next /\ UNCHANGED <<recPc, recStock, recReserved, recUsers, recMembers, recHandoffOnly, recRows>>
  BY DEF SaleStep, CancelStep, registers, Next
<1>2. TypeInv' /\ RowsInv' /\ Advance
  BY <1>1, TypeStep, RowsStep, StepAdvances DEF RecInv
<1> QED BY <1>1, <1>2 DEF RecInv, Collected, Advance

\* The reconciler leaves MySQL, Kafka and the other actors alone.
LEMMA ReconcilerKeeps ==
    ASSUME TypeInv, RowsInv, stock' \in Nat, purchased' \subseteq Users, recovering' \in BOOLEAN,
           UNCHANGED <<handoff, accepted, quarantine, dbVars, kafkaVars, retryVars, cancelVars>>
    PROVE  TypeInv' /\ RowsInv'
BY DEF TypeInv, TypeOK, Registers, Compensations, RowsInv, RecordsHaveRows, CompletedHasOrder,
       Remembered,
       dbVars, kafkaVars, retryVars, cancelVars

LEMMA ReadsKeep ==
    ASSUME RecInv, ReadsOnly
    PROVE  TypeInv' /\ RowsInv' /\ UNCHANGED <<outbox, order>>
BY ReconcilerKeeps DEF RecInv, TypeInv, TypeOK, ReadsOnly, vars, redisVars, dbVars

\* The reconciler's registers after it stops, for whatever reason.
LEMMA EndKeeps ==
    ASSUME TypeInv', RowsInv', RecEnd
    PROVE  RecInv'
BY DEF RecEnd, RecInv, Collected

LEMMA ReconcilerStep ==
    ASSUME RecInv,
           \/ RecList \/ RecLock \/ RecReadEvents \/ RecReadUsers \/ RecReadHandoff
           \/ \E o \in recMembers : RecLookUp(o)
    PROVE  RecInv'
<1> USE OrdersAssumption DEF RecInv
<1>1. CASE RecList
  <2>1. TypeInv' /\ RowsInv'
    BY <1>1, ReconcilerKeeps DEF RecList, vars, redisVars, TypeInv, TypeOK
  <2> QED BY <1>1, <2>1 DEF RecList, TypeInv, TypeOK, Collected
<1>2. CASE RecLock
  <2>1. TypeInv' /\ RowsInv'
    BY <1>2, ReconcilerKeeps DEF RecLock, TypeInv, TypeOK
  <2> QED BY <1>2, <2>1 DEF RecLock, registers, dbVars, Collected
<1>3. CASE RecReadEvents
  <2>1. TypeInv' /\ RowsInv' /\ UNCHANGED <<outbox, order>>
    BY <1>3, ReadsKeep DEF RecReadEvents
  <2>2. recReserved' \subseteq Orders /\ recUsers' \subseteq Users
    BY <1>3 DEF RecReadEvents
  <2>3. \A o \in recRows : BuyerOf[o] \in recUsers' \/ order[o] # "none"
    BY <1>3 DEF RecReadEvents, Unpersisted, Collected, RowsInv, CompletedHasOrder,
       TypeInv, TypeOK, OutboxStatus
  <2> QED BY <1>3, <2>1, <2>2, <2>3 DEF RecReadEvents, Collected
<1>4. CASE RecReadUsers
  <2>1. TypeInv' /\ RowsInv' /\ UNCHANGED <<outbox, order>>
    BY <1>4, ReadsKeep DEF RecReadUsers
  <2>2. recUsers' \subseteq Users
    BY <1>4 DEF RecReadUsers, Active
  <2>3. \A o \in recRows : BuyerOf[o] \in recUsers' \/ order[o] = "CANCELLED"
    BY <1>4 DEF RecReadUsers, Collected, Active, TypeInv, TypeOK, OrderStatus
  <2> QED BY <1>4, <2>1, <2>2, <2>3 DEF RecReadUsers, Collected
<1>5. CASE RecReadHandoff
  <2>1. TypeInv' /\ RowsInv' /\ UNCHANGED <<outbox, order>>
    BY <1>5, ReadsKeep DEF RecReadHandoff
  <2> QED BY <1>5, <2>1 DEF RecReadHandoff, Collected, TypeInv, TypeOK
<1>6. ASSUME NEW o \in recMembers, RecLookUp(o) PROVE RecInv'
  <2>1. TypeInv' /\ RowsInv' /\ UNCHANGED <<outbox, order>>
    BY <1>6, ReadsKeep DEF RecLookUp, Remaining
  <2> QED BY <1>6, <2>1 DEF RecLookUp, Remaining, Collected
<1> QED BY <1>1, <1>2, <1>3, <1>4, <1>5, <1>6

LEMMA ReconcilerEnd ==
    ASSUME RecInv, RecRebuild \/ RecAbort \/ RecCrash
    PROVE  RecInv'
<1>1. CASE RecRebuild
  <2>1. ExpectedStock \in Nat
    <3>1. Cardinality(recReserved) \in Nat
      BY OrdersAssumption, FS_Subset, FS_CardinalityType DEF RecInv
    <3> QED BY <3>1 DEF RecInv, ExpectedStock
  <2>2. TypeInv' /\ RowsInv'
    BY <1>1, <2>1, ReconcilerKeeps DEF RecRebuild, RecInv
  <2> QED BY <1>1, <2>2, EndKeeps DEF RecRebuild
<1>2. CASE RecAbort
  <2>1. TypeInv' /\ RowsInv'
    BY <1>2, ReconcilerKeeps DEF RecAbort, RecInv, TypeInv, TypeOK
  <2> QED BY <1>2, <2>1, EndKeeps DEF RecAbort
<1>3. CASE RecCrash
  <2>1. TypeInv' /\ RowsInv'
    BY <1>3, ReconcilerKeeps DEF RecCrash, RecInv, TypeInv, TypeOK, vars, redisVars
  <2> QED BY <1>3, <2>1, EndKeeps DEF RecCrash
<1> QED BY <1>1, <1>2, <1>3

LEMMA RecStep == RecInv /\ [RecNext]_allVars => RecInv'
<1> SUFFICES ASSUME RecInv, [RecNext]_allVars PROVE RecInv'
  OBVIOUS
<1>1. CASE RecExpire
  <2>1. TypeInv' /\ RowsInv'
    BY <1>1, ReconcilerKeeps DEF RecExpire, RecInv, TypeInv, TypeOK
  <2> QED BY <1>1, <2>1 DEF RecExpire, RecInv, Collected, recVars, registers, dbVars
<1>2. CASE UNCHANGED allVars
  <2>1. TypeInv' /\ RowsInv'
    BY <1>2, ReconcilerKeeps DEF allVars, vars, redisVars, RecInv, TypeInv, TypeOK
  <2> QED BY <1>2, <2>1 DEF allVars, vars, dbVars, RecInv, Collected, recVars, registers
<1> QED BY <1>1, <1>2, PipelineKeeps, ReconcilerStep, ReconcilerEnd DEF RecNext

LEMMA RecInvariant == RecSpec => []RecInv
BY InitRecInv, RecStep, PTL DEF RecSpec

\* A user whose order was in the outbox when the lease was taken keeps his
\* permit through the rebuild unless the order is cancelled, however handoff,
\* consumer, dead letters and cancellations interleave with its reads.
THEOREM RebuildKeepsRowsHolds == RecSpec => RebuildKeepsRows
<1>1. RecInv /\ [RecNext]_allVars =>
        [RecRebuild =>
            \A o \in recRows : order[o] # "CANCELLED" => BuyerOf[o] \in purchased']_allVars
  BY DEF RecInv, Collected, RecRebuild
<1> QED BY <1>1, RecInvariant, PTL DEF RecSpec, RebuildKeepsRows

-----------------------------------------------------------------------------
(***************************************************************************)
(* The stock.  MySQL's own ledger holds whatever a rebuild does to Redis.  *)
(***************************************************************************)

LEMMA DbLedgerConsume ==
    ASSUME TypeInv, RowsInv, DbLedger, NEW B \in SUBSET topic, Consume(B)
    PROVE  DbLedger'
<1>1. IsFiniteSet(Fresh(B)) /\ Cardinality(Fresh(B)) \in Nat
  BY ConsumeMoves, Finite, FS_Subset, FS_CardinalityType
<1>2. Cardinality(Active \cap Fresh(B)) = 0
  BY ConsumeMoves, FS_EmptySet
<1>3. Cardinality(Active') = Cardinality(Active) + Cardinality(Fresh(B))
  <2>1. Cardinality(Active \cup Fresh(B))
            = Cardinality(Active) + Cardinality(Fresh(B)) - Cardinality(Active \cap Fresh(B))
    BY <1>1, Finite, FS_Union
  <2>2. Active' = Active \cup Fresh(B) /\ Cardinality(Active) \in Nat
    BY ConsumeMoves, Finite
  <2> QED BY <1>1, <1>2, <2>1, <2>2
<1>4. dbStock' = dbStock - Cardinality(Fresh(B)) /\ dbStock \in Nat /\ Cardinality(Active) \in Nat
  BY Finite DEF Consume, TypeInv, TypeOK
<1> QED BY <1>1, <1>3, <1>4 DEF DbLedger

LEMMA DbLedgerStep ==
    ASSUME TypeInv, RowsInv, DbLedger, Next
    PROVE  DbLedger'
<1>1. CASE \E B \in SUBSET topic : Consume(B)
  BY <1>1, DbLedgerConsume
<1>2. CASE Committed
  <2>1. Active' = Active \ {cancelOrder} /\ cancelOrder \in Active
    BY <1>2 DEF Committed, TypeInv, TypeOK, Registers, Active, OrderStatus
  <2>2. Cardinality(Active') = Cardinality(Active) - 1
    BY <2>1, Finite, FS_RemoveElement
  <2>3. dbStock \in Nat /\ Cardinality(Active) \in Nat /\ dbStock' = dbStock + 1
    BY <1>2, Finite DEF TypeInv, TypeOK, Committed, ReturnedStock
  <2> QED BY <2>2, <2>3 DEF DbLedger
<1>3. CASE ~(\E B \in SUBSET topic : Consume(B)) /\ ~Committed
  <2>1. UNCHANGED <<order, dbStock>>
    BY <1>3 DEF Next, Seckill, Transport, HandoffInsert, HandoffComplete, HandoffQuarantine,
       Send, DeadLetter, Recovery, DltRead, DltRetry, DltRetryFails, DltMarkManualReview,
       DltCrash, ReviewRead, ReviewRetry, ReviewRetryFails, ReviewDone, Cancellation,
       CancelBegin, CancelAbort, CancelRedis, CancelCommit, CancelUnknown, CancelRollback,
       CancelLost, CancelCompensate,
       CancelCompensateFails, dbVars
  <2> QED BY <2>1 DEF DbLedger, Active
<1> QED BY <1>1, <1>2, <1>3

\* The reconciler leaves MySQL alone.
LEMMA ReconcilerReadsDb ==
    ASSUME [RecNext]_allVars, ~SaleStep, ~CancelStep
    PROVE  UNCHANGED <<handoff, quarantine, dbVars>>
BY DEF RecNext, allVars, vars, redisVars, RecList, RecLock, RecReadEvents, RecReadUsers,
   RecReadHandoff, ReadsOnly, RecLookUp, RecRebuild, RecAbort, RecCrash, RecExpire

LEMMA RecDbLedgerStep ==
    ASSUME RecInv, DbLedger, [RecNext]_allVars
    PROVE  DbLedger'
<1>1. CASE SaleStep \/ CancelStep
  BY <1>1, DbLedgerStep DEF SaleStep, CancelStep, Next, RecInv
<1>2. CASE ~SaleStep /\ ~CancelStep
  BY <1>2, ReconcilerReadsDb DEF dbVars, DbLedger, Active
<1> QED BY <1>1, <1>2

-----------------------------------------------------------------------------
(***************************************************************************)
(* A rebuild nothing disturbed: what the reconciler has read is still so.  *)
(***************************************************************************)

\* The handoff members looked up by now.
LookedUp == handoff \ recMembers

Undisturbed ==
    disturbed = "no" =>
        /\ recPc # "idle" => recStock = dbStock
        /\ recPc \in {"events", "users", "members"} =>
                recReserved = {o \in Orders : Unpersisted(o)}
        /\ recPc = "events" => recUsers = Buyers(recReserved)
        /\ recPc = "users" => recUsers = Buyers(recReserved \cup Active)
        /\ recPc = "members" =>
                /\ recMembers \subseteq handoff
                /\ recUsers = Buyers(recReserved \cup Active \cup LookedUp)
                /\ recHandoffOnly = Cardinality({o \in LookedUp : HandoffOnly(o)})

LEMMA InitUndisturbed == RecInit => Undisturbed
BY DEF RecInit, Undisturbed

LEMMA UndisturbedLookUp ==
    ASSUME RecInv, Undisturbed, NEW m \in recMembers, RecLookUp(m)
    PROVE  Undisturbed'
<1> SUFFICES ASSUME disturbed = "no"
             PROVE  Undisturbed'
  BY DEF Undisturbed, RecLookUp, ReadsOnly
<1>1. /\ recPc = "members" /\ recPc' = "members" /\ recMembers' = recMembers \ {m}
      /\ recUsers' = recUsers \cup {BuyerOf[m]}
      /\ UNCHANGED <<recStock, recReserved, handoff, outbox, order, dbStock>>
  BY DEF RecLookUp, Remaining, ReadsOnly, vars, redisVars, dbVars
<1>2. /\ recMembers \subseteq handoff
      /\ recUsers = Buyers(recReserved \cup Active \cup LookedUp)
      /\ recHandoffOnly = Cardinality({o \in LookedUp : HandoffOnly(o)})
  BY <1>1 DEF Undisturbed
<1>3. LookedUp' = LookedUp \cup {m} /\ m \notin LookedUp /\ Active' = Active
  BY <1>1, <1>2 DEF LookedUp, Active
<1>4. recUsers' = Buyers(recReserved \cup Active \cup LookedUp)'
  BY <1>1, <1>2, <1>3 DEF Buyers
<1>5. recHandoffOnly' = Cardinality({o \in LookedUp : HandoffOnly(o)})'
  <2> DEFINE H == {o \in LookedUp : HandoffOnly(o)}
  <2>1. IsFiniteSet(H) /\ Cardinality(H) \in Nat
    <3>1. H \subseteq Orders
      BY DEF LookedUp, RecInv, TypeInv, TypeOK
    <3> QED BY <3>1, OrdersAssumption, FS_Subset, FS_CardinalityType
  <2>2. H' = IF HandoffOnly(m) THEN H \cup {m} ELSE H
    BY <1>1, <1>3 DEF HandoffOnly
  <2>3. m \notin H
    BY <1>3
  <2>4. Cardinality(H \cup {m}) = Cardinality(H) + 1
    BY <2>1, <2>3, FS_AddElement
  <2>5. /\ recHandoffOnly = Cardinality(H)
        /\ recHandoffOnly' = recHandoffOnly + (IF HandoffOnly(m) THEN 1 ELSE 0)
    BY <1>2 DEF RecLookUp
  <2> HIDE DEF H
  <2>6. recHandoffOnly' = Cardinality(H')
    BY <2>1, <2>2, <2>4, <2>5
  <2> QED BY <2>6 DEF H
<1> QED BY <1>1, <1>2, <1>4, <1>5 DEF Undisturbed, Unpersisted

LEMMA UndisturbedStep ==
    ASSUME RecInv, Undisturbed, [RecNext]_allVars
    PROVE  Undisturbed'
<1> USE DEF ReadsOnly, vars, redisVars, dbVars
<1>1. CASE SaleStep \/ CancelStep
  <2>1. disturbed' = "no" => recPc = "idle"
    BY <1>1 DEF SaleStep, CancelStep
  <2> QED BY <1>1, <2>1 DEF SaleStep, CancelStep, registers, Undisturbed
<1>2. CASE RecList
  BY <1>2 DEF RecList, Undisturbed, RecInv
<1>3. CASE RecLock
  BY <1>3 DEF RecLock, registers, Undisturbed
<1>4. CASE RecReadEvents
  BY <1>4 DEF RecReadEvents, Undisturbed, Unpersisted, Buyers
<1>5. CASE RecReadUsers
  BY <1>5 DEF RecReadUsers, Undisturbed, Unpersisted, Buyers, Active
<1>6. CASE RecReadHandoff
  <2>1. LookedUp' = {} /\ Active' = Active
    BY <1>6 DEF RecReadHandoff, LookedUp, Active
  <2>2. Cardinality({o \in LookedUp : HandoffOnly(o)}') = 0
    BY <2>1, FS_EmptySet
  <2> QED BY <1>6, <2>1, <2>2 DEF RecReadHandoff, Undisturbed, Unpersisted, Buyers, RecInv
<1>7. CASE \E m \in recMembers : RecLookUp(m)
  BY <1>7, UndisturbedLookUp
<1>8. CASE RecRebuild \/ RecAbort \/ RecCrash
  BY <1>8 DEF RecRebuild, RecAbort, RecCrash, RecEnd, Undisturbed
<1>9. CASE RecExpire
  BY <1>9 DEF RecExpire, recVars, registers, Undisturbed, Unpersisted, LookedUp, Active, HandoffOnly
<1>10. CASE UNCHANGED allVars
  BY <1>10 DEF allVars, recVars, registers, Undisturbed, Unpersisted, LookedUp, Active, HandoffOnly
<1> QED BY <1>1, <1>2, <1>3, <1>4, <1>5, <1>6, <1>7, <1>8, <1>9, <1>10 DEF RecNext

LEMMA UndisturbedInvariant == RecSpec => [](RecInv /\ DbLedger /\ Undisturbed)
<1>1. RecInit => DbLedger
  BY InitLedger DEF RecInit, Ledger
<1>2. (RecInv /\ DbLedger /\ Undisturbed) /\ [RecNext]_allVars
        => (RecInv /\ DbLedger /\ Undisturbed)'
  BY RecStep, RecDbLedgerStep, UndisturbedStep
<1> QED BY <1>1, <1>2, InitRecInv, InitUndisturbed, PTL DEF RecSpec

\* A stale rebuild may put a unit on sale in Redis that MySQL has sold; the oversale
\* ends there.  decrementStock refuses the order that finds no unit, so whatever the
\* reconciler writes, MySQL never has more active orders than the voucher had units.
THEOREM OversaleEndsInRedis == RecSpec => [](DbLedger /\ Cardinality(Active) <= InitStock)
<1>1. RecInv /\ DbLedger => Cardinality(Active) <= InitStock
  BY Finite, BoundsAssumption DEF DbLedger, RecInv, TypeInv, TypeOK
<1> QED BY <1>1, UndisturbedInvariant, PTL

\* Orders without a row are in the outbox, where the first read finds them, or in the
\* handoff only, where the last ones do.
LEMMA ReservedIsRead ==
    ASSUME RecInv, quarantine = {}
    PROVE  LET events == {o \in Orders : Unpersisted(o)}
               only == {o \in handoff : outbox[o] = "none"}
           IN  /\ Reserved = events \cup only
               /\ events \cap only = {}
BY DEF RecInv, TypeInv, TypeOK, OutboxStatus, RowsInv, RecordsHaveRows, CompletedHasOrder,
   Reserved, Admitted, Unpersisted

LEMMA RepairedStock ==
    ASSUME RecInv, DbLedger, Undisturbed, RecRebuild, disturbed = "no", quarantine = {}
    PROVE  LET claimed == Cardinality(Reserved) + Cardinality(Active)
           IN  stock' = IF claimed > InitStock THEN 0 ELSE InitStock - claimed
<1> DEFINE only == {o \in handoff : outbox[o] = "none"}
<1>1. /\ recStock = dbStock
      /\ recReserved = {o \in Orders : Unpersisted(o)}
      /\ recHandoffOnly = Cardinality({o \in LookedUp : HandoffOnly(o)})
  BY DEF Undisturbed, RecRebuild
<1>2. {o \in LookedUp : HandoffOnly(o)} = only
  BY <1>1 DEF RecRebuild, LookedUp, HandoffOnly, Unpersisted
<1>3. Reserved = recReserved \cup only /\ recReserved \cap only = {}
  BY <1>1, ReservedIsRead
<1>4. /\ IsFiniteSet(recReserved) /\ IsFiniteSet(only)
      /\ Cardinality(recReserved) \in Nat /\ Cardinality(only) \in Nat
  <2>1. recReserved \subseteq Orders /\ only \subseteq Orders
    BY DEF RecInv, TypeInv, TypeOK
  <2> QED BY <2>1, OrdersAssumption, FS_Subset, FS_CardinalityType
<1>5. Cardinality(Reserved) = Cardinality(recReserved) + Cardinality(only)
  <2>1. Cardinality(recReserved \cap only) = 0
    BY <1>3, FS_EmptySet
  <2>2. Cardinality(recReserved \cup only)
            = Cardinality(recReserved) + Cardinality(only) - Cardinality(recReserved \cap only)
    BY <1>4, FS_Union
  <2> QED BY <1>3, <1>4, <2>1, <2>2
<1>6. stock' = ExpectedStock
  BY DEF RecRebuild
<1>7. recStock \in Nat /\ Cardinality(Active) \in Nat /\ InitStock \in Nat
  BY Finite, BoundsAssumption DEF RecInv
<1>8. recStock = InitStock - Cardinality(Active)
  BY <1>1, <1>7 DEF DbLedger
<1>9. recHandoffOnly = Cardinality(only)
  BY <1>1, <1>2
<1> HIDE DEF only
<1> QED BY <1>4, <1>5, <1>6, <1>7, <1>8, <1>9 DEF ExpectedStock

LEMMA RepairedBuyers ==
    ASSUME RecInv, Undisturbed, RecRebuild, disturbed = "no", quarantine = {}
    PROVE  purchased' = Buyers(Reserved \cup Active \cup handoff)
<1>1. /\ recReserved = {o \in Orders : Unpersisted(o)}
      /\ recUsers = Buyers(recReserved \cup Active \cup handoff)
  BY DEF Undisturbed, RecRebuild, LookedUp
<1>2. Reserved \cup Active \cup handoff = recReserved \cup Active \cup handoff
  BY <1>1, ReservedIsRead
<1> QED BY <1>1, <1>2 DEF RecRebuild

\* Whatever Redis held before, failed cancellations and lost units included, a rebuild
\* that nothing disturbed leaves the stock and the permits that the orders justify.
THEOREM RebuildRepairsHolds == RecSpec => RebuildRepairs
<1>1. RecInv /\ DbLedger /\ Undisturbed /\ [RecNext]_allVars =>
        [(RecRebuild /\ disturbed = "no" /\ quarantine = {}) =>
            /\ LET claimed == Cardinality(Reserved) + Cardinality(Active)
               IN  stock' = IF claimed > InitStock THEN 0 ELSE InitStock - claimed
            /\ purchased' = Buyers(Reserved \cup Active \cup handoff)]_allVars
  BY RepairedStock, RepairedBuyers
<1> QED BY <1>1, UndisturbedInvariant, PTL DEF RecSpec, RebuildRepairs

-----------------------------------------------------------------------------
(***************************************************************************)
(* A rebuild in the middle of the sale.  What it subtracts are three       *)
(* disjoint sets of orders that are alive: those that were active when the *)
(* vouchers were listed, those found in the outbox without a row, and the  *)
(* handoff members counted.  The first and the last are not in a register  *)
(* of the reconciler, which keeps their sizes only.                        *)
(***************************************************************************)

Cancelled == {o \in Orders : order[o] = "CANCELLED"}
Alive == Admitted \ Cancelled

\* sold: active when the vouchers were listed; counted: the members in recHandoffOnly.
Accounts(sold, counted) ==
    /\ sold \subseteq Active
    /\ recStock + Cardinality(sold) = InitStock
    /\ counted \subseteq Alive
    /\ recHandoffOnly = Cardinality(counted)
    /\ counted \cap (sold \cup recReserved \cup recMembers) = {}
    /\ recReserved \subseteq Alive /\ recReserved \cap sold = {}
    /\ recMembers \subseteq Admitted

Accounted ==
    /\ recPc = "idle" => recReserved = {} /\ recMembers = {}
    /\ recPc # "idle" /\ disturbed # "cancelled" =>
            \E sold, counted \in SUBSET Orders : Accounts(sold, counted)

LEMMA ActiveIsAlive ==
    ASSUME TypeInv, RowsInv
    PROVE  Active \subseteq Alive
BY DEF RowsInv, RecordsHaveRows, Active, Alive, Admitted, Cancelled

\* Orders are cancelled by cancellations only, and no step forgets one.
LEMMA SaleKeepsAlive ==
    ASSUME TypeInv, RowsInv, SaleStep
    PROVE  /\ Active \subseteq Active' /\ Alive \subseteq Alive' /\ Admitted \subseteq Admitted'
<1>1. Admitted \subseteq Admitted'
  BY AdmittedGrows DEF SaleStep, Next
<1>2. \A o \in Orders : order'[o] = order[o] \/ (order[o] = "none" /\ order'[o] = "ACTIVE")
  <2>1. CASE \E B \in SUBSET topic : Consume(B)
    BY <2>1 DEF Consume, Fresh, TypeInv, TypeOK
  <2>2. CASE ~\E B \in SUBSET topic : Consume(B)
    BY <2>2 DEF SaleStep, Seckill, Transport, HandoffInsert, HandoffComplete, HandoffQuarantine,
       Send, DeadLetter, Recovery, DltRead, DltRetry, DltRetryFails, DltMarkManualReview,
       DltCrash, ReviewRead, ReviewRetry, ReviewRetryFails, ReviewDone, dbVars
  <2> QED BY <2>1, <2>2
<1> QED BY <1>1, <1>2 DEF Active, Alive, Cancelled

LEMMA AccountedSale ==
    ASSUME RecInv, Accounted, SaleStep
    PROVE  Accounted'
<1>1. UNCHANGED <<recPc, recStock, recReserved, recMembers, recHandoffOnly>>
  BY DEF SaleStep, registers
<1>2. SUFFICES ASSUME recPc # "idle", disturbed' # "cancelled"
               PROVE  \E sold, counted \in SUBSET Orders : Accounts(sold, counted)'
  BY <1>1 DEF Accounted
<1>3. PICK sold \in SUBSET Orders, counted \in SUBSET Orders : Accounts(sold, counted)
  BY <1>2 DEF Accounted, SaleStep
<1>4. Accounts(sold, counted)'
  BY <1>1, <1>3, SaleKeepsAlive DEF Accounts, RecInv
<1> QED BY <1>4

LEMMA AccountedList ==
    ASSUME RecInv, DbLedger, Accounted, RecList
    PROVE  Accounted'
<1>1. /\ recPc' = "listed" /\ recStock' = dbStock
      /\ recReserved' = {} /\ recMembers' = {} /\ recHandoffOnly' = 0
      /\ Active' = Active
  BY DEF RecList, RecInv, Accounted, vars, dbVars, Active
<1>2. Accounts(Active, {})'
  <2>1. recStock' + Cardinality(Active') = InitStock
    BY <1>1 DEF DbLedger
  <2> QED BY <1>1, <2>1, FS_EmptySet DEF Accounts
<1>3. Active' \subseteq Orders
  BY DEF Active
<1> QED BY <1>1, <1>2, <1>3 DEF Accounted

\* The reads leave the orders as they are, so only the registers matter.
LEMMA AccountedRead ==
    ASSUME RecInv, Accounted,
           RecLock \/ RecReadEvents \/ RecReadUsers \/ RecReadHandoff
    PROVE  Accounted'
<1>1. /\ recPc # "idle" /\ recPc' # "idle"
      /\ UNCHANGED <<recStock, recHandoffOnly, disturbed, Active, Alive, Admitted>>
  BY DEF RecLock, RecReadEvents, RecReadUsers, RecReadHandoff, ReadsOnly, registers, vars,
     redisVars, dbVars, Active, Alive, Admitted, Cancelled
<1>2. SUFFICES ASSUME disturbed # "cancelled"
               PROVE  \E sold, counted \in SUBSET Orders : Accounts(sold, counted)'
  BY <1>1 DEF Accounted
<1>3. PICK sold \in SUBSET Orders, counted \in SUBSET Orders : Accounts(sold, counted)
  BY <1>1, <1>2 DEF Accounted
<1>4. Cardinality(counted) = 0 => counted = {}
  BY OrdersAssumption, FS_Subset, FS_EmptySet
<1>5. counted = {}
  BY <1>3, <1>4 DEF RecInv, Accounts, RecLock, RecReadEvents, RecReadUsers, RecReadHandoff
<1>6. CASE RecLock \/ RecReadUsers
  BY <1>1, <1>3, <1>6 DEF RecLock, RecReadUsers, registers, Accounts
<1>7. CASE RecReadEvents
  <2>1. recReserved' \subseteq Alive /\ recReserved' \cap Active = {}
    BY <1>7 DEF RecReadEvents, Unpersisted, Alive, Admitted, Cancelled, Active
  <2> QED BY <1>1, <1>3, <1>5, <1>7, <2>1 DEF RecReadEvents, Accounts
<1>8. CASE RecReadHandoff
  BY <1>1, <1>3, <1>5, <1>8 DEF RecReadHandoff, Accounts, Admitted
<1> QED BY <1>6, <1>7, <1>8

LEMMA AccountedLookUp ==
    ASSUME RecInv, Accounted, NEW m \in recMembers, RecLookUp(m)
    PROVE  Accounted'
<1>1. /\ recPc = "members" /\ recPc' = "members" /\ recMembers' = recMembers \ {m}
      /\ recHandoffOnly' = recHandoffOnly + (IF HandoffOnly(m) THEN 1 ELSE 0)
      /\ UNCHANGED <<recStock, recReserved, disturbed, Active, Alive, Admitted>>
  BY DEF RecLookUp, Remaining, ReadsOnly, vars, redisVars, dbVars, Active, Alive, Admitted,
     Cancelled
<1>2. SUFFICES ASSUME disturbed # "cancelled"
               PROVE  \E sold, counted \in SUBSET Orders : Accounts(sold, counted)'
  BY <1>1 DEF Accounted
<1>3. PICK sold \in SUBSET Orders, counted \in SUBSET Orders : Accounts(sold, counted)
  BY <1>1, <1>2 DEF Accounted
<1>4. CASE ~HandoffOnly(m)
  <2>1. recHandoffOnly' = recHandoffOnly
    BY <1>1, <1>4 DEF RecInv
  <2> QED BY <1>1, <1>3, <2>1 DEF Accounts
<1>5. CASE HandoffOnly(m)
  <2>1. m \in Orders /\ m \notin counted /\ m \in Admitted
    BY <1>3 DEF Accounts, RecInv
  <2>2. order[m] = "none"
    BY <1>5, <2>1 DEF HandoffOnly, RecInv, RowsInv, RecordsHaveRows
  <2>3. m \in Alive /\ m \notin Active /\ m \notin recReserved
    BY <1>5, <2>1, <2>2 DEF HandoffOnly, Alive, Cancelled, Active
  <2>4. Cardinality(counted \cup {m}) = Cardinality(counted) + 1
    BY <2>1, OrdersAssumption, FS_Subset, FS_AddElement
  <2>5. Accounts(sold, counted \cup {m})'
    BY <1>1, <1>3, <1>5, <2>3, <2>4 DEF Accounts
  <2>6. counted \cup {m} \in SUBSET Orders
    BY <2>1
  <2> QED BY <2>5, <2>6
<1> QED BY <1>4, <1>5

LEMMA AccountedStep ==
    ASSUME RecInv, DbLedger, Accounted, [RecNext]_allVars
    PROVE  Accounted'
<1>1. CASE CancelStep
  BY <1>1 DEF CancelStep, registers, Accounted
<1>2. CASE RecRebuild \/ RecAbort \/ RecCrash
  BY <1>2 DEF RecRebuild, RecAbort, RecCrash, RecEnd, Accounted
<1>3. CASE RecExpire \/ UNCHANGED allVars
  <2>1. UNCHANGED <<recVars, Active, Alive, Admitted>>
    BY <1>3 DEF RecExpire, allVars, vars, redisVars, dbVars, Active, Alive, Admitted, Cancelled
  <2> QED BY <2>1 DEF recVars, registers, Accounted, Accounts
<1>4. CASE \E m \in recMembers : RecLookUp(m)
  BY <1>4, AccountedLookUp
<1> QED BY <1>1, <1>2, <1>3, <1>4, AccountedSale, AccountedList, AccountedRead DEF RecNext

\* Three disjoint sets of orders alive are together no more than all of them.
LEMMA ThreeDisjoint ==
    ASSUME NEW S, IsFiniteSet(S), NEW A \in SUBSET S, NEW B \in SUBSET S, NEW C \in SUBSET S,
           A \cap B = {}, (A \cup B) \cap C = {}
    PROVE  /\ Cardinality(A) \in Nat /\ Cardinality(B) \in Nat /\ Cardinality(C) \in Nat
           /\ Cardinality(S) \in Nat
           /\ Cardinality(A) + Cardinality(B) + Cardinality(C) <= Cardinality(S)
<1>1. /\ IsFiniteSet(A) /\ IsFiniteSet(B) /\ IsFiniteSet(C)
      /\ Cardinality(A) \in Nat /\ Cardinality(B) \in Nat /\ Cardinality(C) \in Nat
      /\ Cardinality(S) \in Nat
  BY FS_Subset, FS_CardinalityType
<1>2. Cardinality(A \cap B) = 0 /\ Cardinality((A \cup B) \cap C) = 0
  BY FS_EmptySet
<1>3. IsFiniteSet(A \cup B) /\ Cardinality(A \cup B) = Cardinality(A) + Cardinality(B)
  <2>1. /\ IsFiniteSet(A \cup B)
        /\ Cardinality(A \cup B) = Cardinality(A) + Cardinality(B) - Cardinality(A \cap B)
    BY <1>1, FS_Union
  <2> QED BY <1>1, <1>2, <2>1
<1>4. Cardinality((A \cup B) \cup C) = Cardinality(A) + Cardinality(B) + Cardinality(C)
  <2>1. Cardinality((A \cup B) \cup C)
            = Cardinality(A \cup B) + Cardinality(C) - Cardinality((A \cup B) \cap C)
    BY <1>1, <1>3, FS_Union
  <2> QED BY <1>1, <1>2, <1>3, <2>1
<1>5. (A \cup B) \cup C \in SUBSET S
  OBVIOUS
<1>6. Cardinality((A \cup B) \cup C) <= Cardinality(S)
  BY <1>5, FS_Subset
<1> QED BY <1>1, <1>4, <1>6

LEMMA NothingLost ==
    ASSUME RecInv, Accounted, RecRebuild, disturbed # "cancelled"
    PROVE  stock' + Cardinality(Alive) >= InitStock
<1>1. PICK sold \in SUBSET Orders, counted \in SUBSET Orders : Accounts(sold, counted)
  BY DEF Accounted, RecRebuild
<1>2. IsFiniteSet(Alive)
  <2>1. Alive \subseteq Orders
    BY DEF RecInv, TypeInv, TypeOK, Alive, Admitted
  <2> QED BY <2>1, OrdersAssumption, FS_Subset
<1>3. /\ sold \subseteq Alive /\ recReserved \subseteq Alive /\ counted \subseteq Alive
      /\ sold \cap recReserved = {} /\ (sold \cup recReserved) \cap counted = {}
  BY <1>1, ActiveIsAlive DEF Accounts, RecInv
<1>4. /\ Cardinality(sold) \in Nat /\ Cardinality(recReserved) \in Nat
      /\ Cardinality(counted) \in Nat /\ Cardinality(Alive) \in Nat
      /\ Cardinality(sold) + Cardinality(recReserved) + Cardinality(counted)
            <= Cardinality(Alive)
  BY <1>2, <1>3, ThreeDisjoint
<1>5. /\ stock' = ExpectedStock
      /\ recStock + Cardinality(sold) = InitStock /\ recHandoffOnly = Cardinality(counted)
      /\ recStock \in Nat
  BY <1>1 DEF RecRebuild, Accounts, RecInv
<1> QED BY <1>4, <1>5, BoundsAssumption DEF ExpectedStock

\* A rebuild that races admissions, relay and consumer subtracts no order twice, although
\* an order may be in handoff, outbox and order table at a time and moves between the
\* reads: no unit is lost as long as no cancellation falls into the rebuild.
THEOREM RebuildLosesNoUnitHolds == RecSpec => RebuildLosesNoUnit
<1>1. RecInit => Accounted
  BY DEF RecInit, Accounted
<1>2. RecInv /\ DbLedger /\ Accounted /\ [RecNext]_allVars => Accounted'
  BY AccountedStep
<1>3. RecInv /\ Accounted /\ [RecNext]_allVars =>
        [(RecRebuild /\ disturbed # "cancelled") =>
            stock' + Cardinality(Admitted \ {o \in Orders : order[o] = "CANCELLED"})
                >= InitStock]_allVars
  BY NothingLost DEF Alive, Cancelled
<1> QED BY <1>1, <1>2, <1>3, UndisturbedInvariant, PTL DEF RecSpec, RebuildLosesNoUnit

-----------------------------------------------------------------------------
(***************************************************************************)
(* The status query.  What a buyer is told about his order is right and is *)
(* never taken back.                                                       *)
(***************************************************************************)

\* What the query has seen so far: it goes on only while the order table had no
\* row, so nothing final has been answered, and a row of the outbox that was
\* there at the start is there when the outbox is read.
Seeking ==
    /\ askPc # "idle" =>
          /\ askOrder \in Asked
          /\ answer[askOrder] \notin {"SUCCESS", "CANCELLED"}
    /\ askPc = "outbox" /\ known = "stored" => outbox[askOrder] # "none"
    /\ askPc = "accepted" => known # "stored"

\* Final answers agree with the order table.
Truthful ==
    \A o \in Asked :
        /\ answer[o] = "SUCCESS" => order[o] # "none"
        /\ answer[o] = "CANCELLED" => order[o] = "CANCELLED"

StatusInv == TypeInv /\ RowsInv /\ StatusTypeOK /\ Seeking /\ Truthful

LEMMA InitStatusInv == StatusInit => StatusInv
BY InitTypeInv, InitRowsInv
DEF StatusInit, StatusInv, StatusTypeOK, TypeInv, Seeking, Truthful, Answers

\* A query changes nothing in the pipeline.
LEMMA QueryReads ==
    ASSUME TypeInv, RowsInv, UNCHANGED vars
    PROVE  TypeInv' /\ RowsInv' /\ UNCHANGED <<outbox, order>>
BY DEF TypeInv, TypeOK, Registers, Compensations, RowsInv, RecordsHaveRows, CompletedHasOrder,
       Remembered,
       vars, redisVars, dbVars, kafkaVars, retryVars, cancelVars

\* A query ends with an answer that agrees with the order table.
LEMMA Answered ==
    ASSUME StatusInv, NEW o \in Asked, NEW a \in Answers, UNCHANGED vars, Answer(o, a),
           a = "SUCCESS" => order[o] # "none",
           a = "CANCELLED" => order[o] = "CANCELLED"
    PROVE  StatusInv'
<1>1. TypeInv' /\ RowsInv' /\ UNCHANGED <<outbox, order>>
    BY QueryReads DEF StatusInv
<1>2. answer' = [answer EXCEPT ![o] = a] /\ answer' \in [Asked -> Answers]
    BY DEF StatusInv, StatusTypeOK, Answer
<1>3. askPc' = "idle" /\ askOrder' = NoOrder /\ known' = "nowhere"
    BY DEF Answer
<1>4. StatusTypeOK' /\ Seeking'
    BY <1>1, <1>2, <1>3 DEF StatusTypeOK, TypeInv, Seeking
<1>5. Truthful'
    BY <1>1, <1>2 DEF StatusInv, StatusTypeOK, Truthful
<1> QED
    BY <1>1, <1>4, <1>5 DEF StatusInv

LEMMA StatusStep == StatusInv /\ [StatusNext]_statusVars => StatusInv'
<1> SUFFICES ASSUME StatusInv, [StatusNext]_statusVars PROVE StatusInv'
    OBVIOUS
<1>t. NoOrder \notin Asked /\ Asked \subseteq Orders
    BY OrdersAssumption, AskedAssumption
<1>1. ASSUME NEW o \in Asked, AskOrder(o) PROVE StatusInv'
  <2>1. TypeInv' /\ RowsInv' /\ UNCHANGED <<outbox, order>>
    BY <1>1, QueryReads DEF AskOrder, StatusInv
  <2>2. CASE OrderFound(o)
    <3>1. order[o] \in {"ACTIVE", "CANCELLED"}
      BY <1>t, <2>2 DEF OrderFound, StatusInv, TypeInv, TypeOK, OrderStatus
    <3>2. PICK a \in Answers : /\ Answer(o, a)
                               /\ a = "SUCCESS" => order[o] # "none"
                               /\ a = "CANCELLED" => order[o] = "CANCELLED"
      BY <1>1, <2>2, <3>1 DEF AskOrder, Answers
    <3> QED
      BY <1>1, <3>2, Answered DEF AskOrder
  <2>3. CASE ~OrderFound(o)
    <3>1. /\ askPc' = "outbox" /\ askOrder' = o /\ UNCHANGED answer
          /\ known' = Whereabouts(o)
      BY <1>1, <2>3 DEF AskOrder, GoOn
    <3>2. known' \in {"nowhere", "accepted", "stored"}
          /\ (known' = "stored" => outbox[o] # "none")
      BY <3>1 DEF Whereabouts
    <3>3. answer[o] \notin {"SUCCESS", "CANCELLED"}
      BY <2>3 DEF OrderFound, StatusInv, Truthful
    <3> QED
      BY <1>t, <2>1, <3>1, <3>2, <3>3
      DEF StatusInv, StatusTypeOK, TypeInv, Seeking, Truthful
  <2> QED
    BY <2>2, <2>3
<1>2. CASE AskOutbox
  <2>1. TypeInv' /\ RowsInv' /\ UNCHANGED <<outbox, order>>
    BY <1>2, QueryReads DEF AskOutbox, StatusInv
  <2>2. askOrder \in Asked
    BY <1>2 DEF AskOutbox, StatusInv, Seeking
  <2>3. CASE RowFound(askOrder)
    <3>1. PICK a \in {"MANUAL_REVIEW", "PROCESSING"} : Answer(askOrder, a)
      BY <1>2, <2>3 DEF AskOutbox
    <3> QED
      BY <1>2, <2>2, <3>1, Answered DEF AskOutbox, Answers
  <2>4. CASE ~RowFound(askOrder)
    <3>1. askPc = "outbox" /\ askPc' = "accepted" /\ UNCHANGED <<askOrder, answer, known>>
      BY <1>2, <2>4 DEF AskOutbox, GoOn
    <3>2. known # "stored"
      BY <2>4, <3>1 DEF RowFound, StatusInv, Seeking
    <3> QED
      BY <2>1, <3>1, <3>2 DEF StatusInv, StatusTypeOK, TypeInv, Seeking, Truthful
  <2> QED
    BY <2>3, <2>4
<1>3. CASE AskAccepted
  <2>1. askOrder \in Asked
    BY <1>3 DEF AskAccepted, StatusInv, Seeking
  <2>2. PICK a \in {"PROCESSING", "missing"} : Answer(askOrder, a)
    BY <1>3 DEF AskAccepted
  <2> QED
    BY <1>3, <2>1, <2>2, Answered DEF AskAccepted, Answers
<1>4. CASE Next /\ UNCHANGED askVars
  <2>1. TypeInv' /\ RowsInv' /\ Advance
    BY <1>4, TypeStep, RowsStep, StepAdvances DEF StatusInv
  <2>2. UNCHANGED <<askPc, askOrder, answer, known>>
    BY <1>4 DEF askVars
  <2> QED
    BY <1>t, <2>1, <2>2
    DEF StatusInv, StatusTypeOK, TypeInv, Seeking, Truthful, Advance
<1>5. CASE UNCHANGED statusVars
  <2>1. TypeInv' /\ RowsInv' /\ UNCHANGED <<outbox, order>>
    BY <1>5, QueryReads DEF statusVars, StatusInv
  <2>2. UNCHANGED <<askPc, askOrder, answer, known>>
    BY <1>5 DEF statusVars, askVars
  <2> QED
    BY <2>1, <2>2 DEF StatusInv, StatusTypeOK, TypeInv, Seeking, Truthful
<1> QED
    BY <1>1, <1>2, <1>3, <1>4, <1>5 DEF StatusNext

LEMMA StatusInvariant == StatusSpec => []StatusInv
BY InitStatusInv, StatusStep, PTL DEF StatusSpec

\* The types, and a query is about an order exactly while it is under way.
THEOREM StatusTypeCorrect == StatusSpec => []StatusTypeOK
BY StatusInvariant, PTL DEF StatusInv

\* A query falls through to Redis only for an order without an outbox row at its
\* start: no stored order is ever reported missing.
THEOREM StoredIsFoundHolds == StatusSpec => []StoredIsFound
<1>1. StatusInv => StoredIsFound
    BY DEF StatusInv, Seeking, StoredIsFound
<1> QED
    BY <1>1, StatusInvariant, PTL

\* A buyer who was told SUCCESS is told SUCCESS or CANCELLED from then on, one
\* who was told CANCELLED is told nothing else.
THEOREM AnswersAdvanceHolds == StatusSpec => AnswersAdvance
<1>1. StatusInv /\ [StatusNext]_statusVars =>
        [\A o \in Asked :
            /\ answer[o] = "CANCELLED" => answer'[o] = "CANCELLED"
            /\ answer[o] = "SUCCESS" => answer'[o] \in {"SUCCESS", "CANCELLED"}]_statusVars
  <2> SUFFICES ASSUME StatusInv, StatusNext, NEW o \in Asked
               PROVE  /\ answer[o] = "CANCELLED" => answer'[o] = "CANCELLED"
                      /\ answer[o] = "SUCCESS" => answer'[o] \in {"SUCCESS", "CANCELLED"}
    OBVIOUS
  <2>1. answer \in [Asked -> Answers]
    BY DEF StatusInv, StatusTypeOK
  <2>2. ASSUME NEW p \in Asked, AskOrder(p), p # o PROVE answer'[o] = answer[o]
    BY <2>1, <2>2 DEF AskOrder, Answer, GoOn
  <2>3. ASSUME AskOrder(o)
        PROVE  \/ answer'[o] = answer[o]
               \/ answer'[o] = "CANCELLED"
               \/ answer'[o] = "SUCCESS" /\ order[o] # "CANCELLED"
    BY <2>1, <2>3 DEF AskOrder, Answer, GoOn
  <2>4. CASE AskOutbox \/ AskAccepted
    <3>1. askPc # "idle" /\ \A p \in Asked : p # askOrder => answer'[p] = answer[p]
      BY <2>1, <2>4 DEF AskOutbox, AskAccepted, Answer, GoOn
    <3> QED
      BY <3>1 DEF StatusInv, Seeking
  <2>5. CASE UNCHANGED askVars
    BY <2>5 DEF askVars
  <2> QED
    BY <2>2, <2>3, <2>4, <2>5 DEF StatusNext, StatusInv, Truthful
<1> QED
    BY <1>1, StatusInvariant, PTL DEF StatusSpec, AnswersAdvance
=============================================================================
