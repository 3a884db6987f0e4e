---------------------------- MODULE VoucherStock ----------------------------
(***************************************************************************)
(* The stock of one voucher in MySQL and in Redis while administrators     *)
(* raise and lower it (updateSeckillVoucherStock) and orders are admitted  *)
(* against Redis and later taken out of MySQL.  An adjustment holds the    *)
(* row lock in MySQL from its UPDATE to its commit and changes Redis in    *)
(* between.                                                                *)
(***************************************************************************)
EXTENDS Integers, FiniteSets

CONSTANTS
    Admins,         \* adjustments, one each (a bound)
    NoOne,
    Amounts,        \* changeStock
    MaxStock,       \* bound: initial stock
    MaxFaults       \* bound: failed calls and crashes

ASSUME StockConstantsOK ==
    /\ NoOne \notin Admins
    /\ Amounts \subseteq Int \ {0}
    /\ MaxStock \in Nat /\ MaxFaults \in Nat

VARIABLES
    mysql, redis,   \* stock; in MySQL, as committed
    underway,       \* orders admitted by Redis and not yet in MySQL
    pc, change,     \* an adjustment
    holder,         \* of the row lock
    faults,         \* bound
    torn,           \* ghost: an adjustment was cut off, or its outcome was not heard
    withdrawn       \* ghost: units that were on sale and did not come

vars == <<mysql, redis, underway, pc, change, holder, faults, torn, withdrawn>>

Init ==
    /\ mysql \in 0 .. MaxStock
    /\ redis = mysql /\ underway = 0
    /\ pc = [a \in Admins |-> "idle"]
    /\ change \in [Admins -> Amounts]
    /\ holder = NoOne
    /\ faults = 0 /\ torn = FALSE /\ withdrawn = 0

Goto(a, l) == pc' = [pc EXCEPT ![a] = l]
Fault == faults < MaxFaults /\ faults' = faults + 1

-----------------------------------------------------------------------------
(* Orders *)

\* seckill.lua
Admit ==
    /\ redis > 0
    /\ redis' = redis - 1
    /\ underway' = underway + 1
    /\ UNCHANGED <<mysql, pc, change, holder, faults, torn, withdrawn>>

\* The consumer waits for the row lock; an order that finds no stock stays in review.
Persist ==
    /\ underway > 0 /\ holder = NoOne /\ mysql > 0
    /\ underway' = underway - 1
    /\ mysql' = mysql - 1
    /\ UNCHANGED <<redis, pc, change, holder, faults, torn, withdrawn>>

-----------------------------------------------------------------------------
(* updateSeckillVoucherStock *)

\* adjustStock; without a row to change the answer is a refusal.
Adjust(a) ==
    /\ pc[a] = "idle" /\ holder = NoOne
    /\ mysql + change[a] >= 0
    /\ holder' = a
    /\ Goto(a, "adjusted")
    /\ UNCHANGED <<mysql, redis, underway, change, faults, torn, withdrawn>>

\* Mutants: the answer is not looked at; what was taken is not put back.
NeverOversold(stock) == FALSE
LeaveTaken(a) == redis' = redis

Oversold(stock) == stock < 0
PutBack(a) == redis' = redis - change[a]

Increment(a) ==
    /\ pc[a] = "adjusted"
    /\ redis' = redis + change[a]
    /\ Goto(a, IF Oversold(redis') THEN "negative" ELSE "commit")
    /\ UNCHANGED <<mysql, underway, change, holder, faults, torn, withdrawn>>

\* The call fails, carried out or not: nothing has been registered to undo it.
IncrementFails(a) ==
    /\ pc[a] = "adjusted"
    /\ Fault
    /\ \/ UNCHANGED <<redis, torn>>
       \/ redis' = redis + change[a] /\ torn' = TRUE
    /\ Goto(a, "done") /\ holder' = NoOne
    /\ UNCHANGED <<mysql, underway, change, withdrawn>>

\* Orders are underway for the units to be taken away: put back, before the roll-back.
TakeBack(a) ==
    /\ pc[a] = "negative"
    /\ \/ PutBack(a) /\ UNCHANGED <<faults, torn>>
       \/ Fault /\ torn' = TRUE /\ redis' \in {redis, redis - change[a]}
    /\ Goto(a, "done") /\ holder' = NoOne
    /\ UNCHANGED <<mysql, underway, change, withdrawn>>

Commit(a) ==
    /\ pc[a] = "commit"
    /\ mysql' = mysql + change[a]
    /\ Goto(a, "done") /\ holder' = NoOne
    /\ UNCHANGED <<redis, underway, change, faults, torn, withdrawn>>

\* Rolled back, or committed without an answer; either way it will be compensated.
CommitFails(a) ==
    /\ pc[a] = "commit"
    /\ Fault
    /\ \/ UNCHANGED <<mysql, torn>>
       \/ mysql' = mysql + change[a] /\ torn' = TRUE
    /\ Goto(a, "undo") /\ holder' = NoOne
    /\ UNCHANGED <<redis, underway, change, withdrawn>>

\* The roll-back compensation.  Units of a raise may have been sold by now.
Undo(a) ==
    /\ pc[a] = "undo"
    /\ \/ PutBack(a) /\ UNCHANGED <<faults, torn>>
       \/ Fault /\ torn' = TRUE /\ redis' \in {redis, redis - change[a]}
    /\ withdrawn' = IF change[a] > 0 THEN withdrawn + change[a] ELSE withdrawn
    /\ Goto(a, "done")
    /\ UNCHANGED <<mysql, underway, change, holder>>

\* MySQL rolls back; Redis keeps what it has.
Crash(a) ==
    /\ pc[a] \in {"adjusted", "negative", "commit", "undo"}
    /\ Fault
    /\ torn' = (torn \/ pc[a] # "adjusted")
    /\ Goto(a, "done")
    /\ holder' = IF holder = a THEN NoOne ELSE holder
    /\ UNCHANGED <<mysql, redis, underway, change, withdrawn>>

Adjustment(a) ==
    \/ Adjust(a) \/ Increment(a) \/ IncrementFails(a) \/ TakeBack(a) \/ Commit(a)
    \/ CommitFails(a) \/ Undo(a) \/ Crash(a)

Next == Admit \/ Persist \/ \E a \in Admins : Adjustment(a)

Spec == Init /\ [][Next]_vars

-----------------------------------------------------------------------------

\* Adjustments that Redis shows and MySQL does not.
Unsettled == {a \in Admins : pc[a] \in {"negative", "commit", "undo"}}

\* One element for each unit of the amounts of S, to be counted.
Units(S, amount) == UNION {{a} \X (1 .. amount[a]) : a \in S}

Raised == Units(Unsettled, change)
Lowered == Units(Unsettled, [a \in Admins |-> -change[a]])

\* Redis and MySQL differ by the orders underway and the open adjustments, whichever
\* adjustments are refused, taken back or rolled back, until one is cut off.
StockAgrees ==
    ~torn => redis + underway + Cardinality(Lowered) = mysql + Cardinality(Raised)

\* Every admitted order can be taken out of MySQL, except for units of a raise that is
\* open or was rolled back while they were on sale: lowering the stock strands no order.
OrdersAreCovered ==
    ~torn => underway <= mysql + Cardinality(Raised) + withdrawn
=============================================================================
