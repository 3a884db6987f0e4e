------------------------- MODULE VoucherStockProofs -------------------------
(***************************************************************************)
(* Redis and MySQL agree on the stock, and lowering it strands no order,   *)
(* for any number of adjustments by any amounts and any number of orders.  *)
(*                                                                         *)
(* The row lock admits one adjustment between its UPDATE and its end, but  *)
(* any number of those to be undone, each with an amount of its own.       *)
(***************************************************************************)
EXTENDS VoucherStock, FiniteSetTheorems, TLAPS

\* Between its UPDATE and its end an adjustment holds the row lock, so what it has
\* found in MySQL is still there when it commits.
Locked ==
    /\ \A a \in Admins : pc[a] \in {"adjusted", "negative", "commit"} <=> holder = a
    /\ \A a \in Admins : holder = a => mysql + change[a] >= 0

\* Redis is below zero by what was withdrawn from sale, and by an adjustment that has
\* seen it and is about to be put back.
Floor ==
    ~torn =>
        /\ (\A a \in Admins : pc[a] # "negative") => redis + withdrawn >= 0
        /\ \A a \in Admins : pc[a] = "negative" =>
              withdrawn >= change[a] /\ redis + withdrawn >= change[a]

Typed ==
    /\ mysql \in Nat /\ redis \in Int /\ underway \in Nat /\ withdrawn \in Nat
    /\ pc \in [Admins -> {"idle", "adjusted", "negative", "commit", "undo", "done"}]
    /\ change \in [Admins -> Amounts]
    /\ holder \in Admins \cup {NoOne}
    /\ IsFiniteSet(Raised) /\ IsFiniteSet(Lowered)

StockInv == Typed /\ Locked /\ StockAgrees /\ Floor

-----------------------------------------------------------------------------
(***************************************************************************)
(* Counting units.                                                         *)
(***************************************************************************)

\* The units of a lowering; a raise has none here.
Reverse == [a \in Admins |-> -change[a]]

Positive(n) == IF n > 0 THEN n ELSE 0

LEMMA UnitsOfOne ==
    ASSUME NEW a, NEW n \in Int
    PROVE  IsFiniteSet({a} \X (1 .. n)) /\ Cardinality({a} \X (1 .. n)) = Positive(n)
<1>1. IsFiniteSet({a}) /\ Cardinality({a}) = 1
  BY FS_Singleton
<1>2. IsFiniteSet(1 .. n) /\ Cardinality(1 .. n) = Positive(n)
  BY FS_Interval DEF Positive
<1>3. /\ IsFiniteSet({a} \X (1 .. n))
      /\ Cardinality({a} \X (1 .. n)) = Cardinality({a}) * Cardinality(1 .. n)
  BY <1>1, <1>2, FS_Product
<1>4. Positive(n) \in Int
  BY DEF Positive
<1> QED BY <1>1, <1>2, <1>3, <1>4

\* One adjustment more: its units are counted in addition.
LEMMA UnitsWithOne ==
    ASSUME NEW S, NEW amount, NEW a, a \notin S, amount[a] \in Int,
           IsFiniteSet(Units(S, amount))
    PROVE  /\ IsFiniteSet(Units(S \cup {a}, amount))
           /\ Cardinality(Units(S, amount)) \in Nat
           /\ Cardinality(Units(S \cup {a}, amount))
                = Cardinality(Units(S, amount)) + Positive(amount[a])
<1> DEFINE One == {a} \X (1 .. amount[a])
           Rest == Units(S, amount)
<1>1. Units(S \cup {a}, amount) = Rest \cup One
  BY DEF Units
<1>2. Rest \cap One = {}
  BY DEF Units
<1>3. IsFiniteSet(One) /\ Cardinality(One) = Positive(amount[a])
  BY UnitsOfOne
<1>4. Cardinality(Rest) \in Nat /\ Cardinality(Rest \cap One) = 0
  BY <1>2, FS_CardinalityType, FS_EmptySet
<1>5. /\ IsFiniteSet(Rest \cup One)
      /\ Cardinality(Rest \cup One)
            = Cardinality(Rest) + Cardinality(One) - Cardinality(Rest \cap One)
  BY <1>3, FS_Union
<1>6. Positive(amount[a]) \in Nat
  BY DEF Positive
<1> HIDE DEF One, Rest
<1>7. Cardinality(Rest \cup One) = Cardinality(Rest) + Positive(amount[a])
  BY <1>3, <1>4, <1>5, <1>6
<1> QED BY <1>1, <1>4, <1>5, <1>7 DEF Rest

\* One adjustment less.
LEMMA UnitsWithoutOne ==
    ASSUME NEW S, NEW amount, NEW a \in S, amount[a] \in Int,
           IsFiniteSet(Units(S, amount))
    PROVE  /\ IsFiniteSet(Units(S \ {a}, amount))
           /\ Cardinality(Units(S \ {a}, amount)) \in Nat
           /\ Cardinality(Units(S, amount))
                = Cardinality(Units(S \ {a}, amount)) + Positive(amount[a])
<1>1. Units(S \ {a}, amount) \subseteq Units(S, amount)
  BY DEF Units
<1>2. IsFiniteSet(Units(S \ {a}, amount))
  BY <1>1, FS_Subset
<1>3. (S \ {a}) \cup {a} = S /\ a \notin S \ {a}
  OBVIOUS
<1> QED BY <1>2, <1>3, UnitsWithOne

\* How an adjustment that becomes unsettled, or settled, changes the two counts.
Grow(a) ==
    /\ IsFiniteSet(Raised') /\ IsFiniteSet(Lowered')
    /\ Cardinality(Raised') = Cardinality(Raised) + Positive(change[a])
    /\ Cardinality(Lowered') = Cardinality(Lowered) + Positive(-change[a])

Shrink(a) ==
    /\ IsFiniteSet(Raised') /\ IsFiniteSet(Lowered')
    /\ Cardinality(Raised) = Cardinality(Raised') + Positive(change[a])
    /\ Cardinality(Lowered) = Cardinality(Lowered') + Positive(-change[a])

Counts ==
    /\ Cardinality(Raised) \in Nat /\ Cardinality(Lowered) \in Nat

LEMMA AmountsAreInt ==
    ASSUME Typed, NEW a \in Admins
    PROVE  change[a] \in Int /\ Reverse[a] \in Int /\ Reverse[a] = -change[a]
<1>1. change[a] \in Amounts
  BY DEF Typed
<1>2. change[a] \in Int
  BY <1>1, StockConstantsOK
<1>3. Reverse[a] = -change[a]
  BY DEF Reverse
<1> QED BY <1>2, <1>3

LEMMA Counted == ASSUME Typed PROVE Counts
BY FS_CardinalityType DEF Typed, Counts

LEMMA Unsettles ==
    ASSUME Typed, NEW a \in Admins, a \notin Unsettled, Unsettled' = Unsettled \cup {a},
           UNCHANGED change
    PROVE  Grow(a)
<1>1. Raised' = Units(Unsettled \cup {a}, change) /\ Lowered' = Units(Unsettled \cup {a}, Reverse)
  BY DEF Raised, Lowered, Reverse, Units
<1>2. Raised = Units(Unsettled, change) /\ Lowered = Units(Unsettled, Reverse)
  BY DEF Raised, Lowered, Reverse
<1> QED BY <1>1, <1>2, UnitsWithOne, AmountsAreInt DEF Grow, Typed

LEMMA Settles ==
    ASSUME Typed, NEW a \in Unsettled, Unsettled' = Unsettled \ {a}, UNCHANGED change
    PROVE  Shrink(a) /\ Counts'
<1>0. a \in Admins
  BY DEF Unsettled
<1>1. Raised' = Units(Unsettled \ {a}, change) /\ Lowered' = Units(Unsettled \ {a}, Reverse)
  BY DEF Raised, Lowered, Reverse, Units
<1>2. Raised = Units(Unsettled, change) /\ Lowered = Units(Unsettled, Reverse)
  BY DEF Raised, Lowered, Reverse
<1> QED BY <1>0, <1>1, <1>2, UnitsWithoutOne, AmountsAreInt DEF Shrink, Counts, Typed

LEMMA StaysSettled ==
    ASSUME Unsettled' = Unsettled, UNCHANGED change
    PROVE  UNCHANGED <<Raised, Lowered>>
BY DEF Raised, Lowered, Units

-----------------------------------------------------------------------------
(***************************************************************************)
(* The steps.                                                              *)
(***************************************************************************)

LEMMA InitStockInv == Init => StockInv
<1> SUFFICES ASSUME Init PROVE StockInv
  OBVIOUS
<1>1. Raised = {} /\ Lowered = {}
  BY DEF Init, Raised, Lowered, Units, Unsettled
<1>2. Typed
  BY <1>1, StockConstantsOK, FS_EmptySet DEF Init, Typed
<1>3. Locked /\ Floor
  BY StockConstantsOK DEF Init, Locked, Floor
<1>4. StockAgrees
  BY <1>1, <1>2, FS_EmptySet DEF Init, StockAgrees, Typed
<1> QED BY <1>2, <1>3, <1>4 DEF StockInv

\* Orders come and go; no adjustment moves.
LEMMA OrderStep ==
    ASSUME StockInv, Admit \/ Persist
    PROVE  StockInv'
<1>1. /\ UNCHANGED <<pc, change, holder, torn, withdrawn>> /\ Unsettled' = Unsettled
  BY DEF Admit, Persist, Unsettled
<1>2. UNCHANGED <<Raised, Lowered>>
  BY <1>1, StaysSettled
<1>3. Typed'
  BY <1>1, <1>2 DEF StockInv, Typed, Admit, Persist
<1>4. Locked'
  BY <1>1, StockConstantsOK DEF StockInv, Typed, Locked, Admit, Persist
<1>5. StockAgrees'
  BY <1>1, <1>2, Counted DEF StockInv, Typed, StockAgrees, Counts, Admit, Persist
<1>6. Floor'
  BY <1>1, AmountsAreInt DEF StockInv, Typed, Floor, Admit, Persist
<1> QED BY <1>3, <1>4, <1>5, <1>6 DEF StockInv

\* What the steps of an adjustment leave of Typed, given what it does to the sets.
LEMMA TypedStep ==
    ASSUME StockInv, NEW a \in Admins, Adjustment(a),
           IsFiniteSet(Raised'), IsFiniteSet(Lowered')
    PROVE  Typed'
<1>1. change[a] \in Int
  BY AmountsAreInt DEF StockInv
<1>2. \A b \in Admins : holder = b => mysql + change[b] >= 0
  BY DEF StockInv, Locked
<1>3. pc[a] = "commit" => holder = a
  BY DEF StockInv, Locked
<1>4. /\ mysql' \in Nat /\ redis' \in Int /\ withdrawn' \in Nat
  BY <1>1, <1>2, <1>3 DEF StockInv, Typed, Adjustment, Adjust, Increment, IncrementFails, TakeBack,
     Commit, CommitFails, Undo, Crash, PutBack
<1>5. /\ underway' = underway /\ change' = change
      /\ \E l \in {"adjusted", "negative", "commit", "undo", "done"} : pc' = [pc EXCEPT ![a] = l]
      /\ holder' \in {holder, a, NoOne}
  BY DEF Adjustment, Adjust, Increment, IncrementFails, TakeBack, Commit, CommitFails, Undo,
     Crash, Goto
<1> QED BY <1>4, <1>5 DEF StockInv, Typed

LEMMA LockedStep ==
    ASSUME StockInv, NEW a \in Admins, Adjustment(a)
    PROVE  Locked'
<1> USE StockConstantsOK, AmountsAreInt DEF StockInv, Typed, Locked, Goto
<1>1. CASE Adjust(a)
  BY <1>1 DEF Adjust
<1>2. CASE Increment(a)
  BY <1>2 DEF Increment
<1>3. CASE IncrementFails(a) \/ TakeBack(a)
  BY <1>3 DEF IncrementFails, TakeBack
<1>4. CASE Commit(a) \/ CommitFails(a)
  BY <1>4 DEF Commit, CommitFails
<1>5. CASE Undo(a)
  BY <1>5 DEF Undo
<1>6. CASE Crash(a)
  BY <1>6 DEF Crash
<1> QED BY <1>1, <1>2, <1>3, <1>4, <1>5, <1>6 DEF Adjustment

\* Until it is cut off, an adjustment changes Redis and its own units together.
LEMMA UntornStep ==
    ASSUME NEW a \in Admins, Adjustment(a), ~torn'
    PROVE  /\ ~torn
           /\ Adjust(a) \/ IncrementFails(a) \/ CommitFails(a) \/ Crash(a)
                => UNCHANGED <<mysql, redis>>
           /\ TakeBack(a) \/ Undo(a) => mysql' = mysql /\ redis' = redis - change[a]
           /\ Crash(a) => pc[a] = "adjusted"
<1> USE DEF Adjustment, Adjust, Increment, IncrementFails, TakeBack, Commit, CommitFails, Undo,
        Crash, PutBack
<1>1. ~torn
  OBVIOUS
<1>2. Crash(a) => pc[a] = "adjusted"
  OBVIOUS
<1>3. IncrementFails(a) \/ CommitFails(a) => UNCHANGED <<mysql, redis>>
  OBVIOUS
<1>4. Adjust(a) \/ Crash(a) => UNCHANGED <<mysql, redis>>
  OBVIOUS
<1>5. TakeBack(a) \/ Undo(a) => mysql' = mysql /\ redis' = redis - change[a]
  OBVIOUS
<1> QED BY <1>1, <1>2, <1>3, <1>4, <1>5

\* The sets of units and the counters, one step of an adjustment at a time.
LEMMA AgreeStep ==
    ASSUME StockInv, NEW a \in Admins, Adjustment(a)
    PROVE  StockAgrees' /\ IsFiniteSet(Raised') /\ IsFiniteSet(Lowered')
<1>0. /\ change[a] \in Int /\ Counts /\ change' = change /\ underway' = underway
      /\ mysql \in Nat /\ redis \in Int /\ underway \in Nat
  BY AmountsAreInt, Counted DEF StockInv, Typed, Adjustment, Adjust, Increment, IncrementFails,
     TakeBack, Commit, CommitFails, Undo, Crash
<1>1. /\ Positive(change[a]) - Positive(-change[a]) = change[a]
      /\ Positive(change[a]) \in Nat /\ Positive(-change[a]) \in Nat
  BY <1>0 DEF Positive
<1>2. ~torn' => redis + underway + Cardinality(Lowered) = mysql + Cardinality(Raised)
  BY UntornStep DEF StockInv, StockAgrees
<1>3. CASE Adjust(a) \/ IncrementFails(a) \/ CommitFails(a) \/ (Crash(a) /\ pc[a] = "adjusted")
  <2>1. Unsettled' = Unsettled
    BY <1>3 DEF Adjust, IncrementFails, CommitFails, Crash, Goto, Unsettled, StockInv, Typed
  <2>2. UNCHANGED <<Raised, Lowered>>
    BY <1>0, <2>1, StaysSettled
  <2>3. ~torn' => UNCHANGED <<mysql, redis>>
    BY <1>3, UntornStep
  <2> QED BY <1>0, <1>2, <2>2, <2>3 DEF StockInv, Typed, StockAgrees
<1>4. CASE Increment(a)
  <2>1. a \notin Unsettled /\ Unsettled' = Unsettled \cup {a}
    BY <1>4 DEF Increment, Goto, Unsettled, StockInv, Typed
  <2>2. Grow(a)
    BY <1>0, <2>1, Unsettles DEF StockInv
  <2>3. redis' = redis + change[a] /\ mysql' = mysql
    BY <1>4 DEF Increment
  <2>4. ASSUME ~torn'
        PROVE  redis' + underway + Cardinality(Lowered') = mysql + Cardinality(Raised')
    BY <1>0, <1>1, <1>2, <2>2, <2>3, <2>4 DEF Grow, Counts
  <2> QED BY <1>0, <2>2, <2>3, <2>4 DEF StockAgrees, Grow
<1>5. CASE TakeBack(a) \/ Undo(a) \/ Commit(a) \/ (Crash(a) /\ pc[a] # "adjusted")
  <2>1. a \in Unsettled /\ Unsettled' = Unsettled \ {a}
    BY <1>5 DEF TakeBack, Undo, Commit, Crash, Goto, Unsettled, StockInv, Typed
  <2>2. Shrink(a) /\ Counts'
    BY <1>0, <2>1, Settles DEF StockInv
  <2>3. ASSUME ~torn'
        PROVE  redis' + underway + Cardinality(Lowered') = mysql' + Cardinality(Raised')
    <3>1. \/ redis' = redis - change[a] /\ mysql' = mysql
          \/ redis' = redis /\ mysql' = mysql + change[a]
      BY <1>5, <2>3, UntornStep DEF Commit
    <3>2. Cardinality(Raised') \in Nat /\ Cardinality(Lowered') \in Nat
      BY <2>2 DEF Counts
    <3>3. redis + underway + Cardinality(Lowered) = mysql + Cardinality(Raised)
      BY <1>2, <2>3
    <3>4. /\ Cardinality(Raised) = Cardinality(Raised') + Positive(change[a])
          /\ Cardinality(Lowered) = Cardinality(Lowered') + Positive(-change[a])
      BY <2>2 DEF Shrink
    <3>5. redis - change[a] + underway + Cardinality(Lowered') = mysql + Cardinality(Raised')
      BY <1>0, <1>1, <3>2, <3>3, <3>4
    <3>6. redis + underway + Cardinality(Lowered') = mysql + change[a] + Cardinality(Raised')
      BY <1>0, <1>1, <3>2, <3>5
    <3>7. CASE redis' = redis - change[a] /\ mysql' = mysql
      BY <1>0, <3>5, <3>7
    <3>8. CASE redis' = redis /\ mysql' = mysql + change[a]
      BY <1>0, <3>6, <3>8
    <3> QED BY <3>1, <3>7, <3>8
  <2> QED BY <1>0, <2>2, <2>3 DEF StockAgrees, Shrink
<1> QED BY <1>3, <1>4, <1>5 DEF Adjustment

\* For the sums of FloorStep, as terms the solver takes whole.
LEMMA NoLess ==
    ASSUME NEW x \in Int, NEW y \in Int, NEW z \in Int, x >= y, y >= z
    PROVE  x >= z
OBVIOUS

LEMMA FloorStep ==
    ASSUME StockInv, NEW a \in Admins, Adjustment(a)
    PROVE  Floor'
<1>0. /\ change[a] \in Int /\ change' = change /\ withdrawn \in Nat /\ redis \in Int
      /\ pc \in [Admins -> {"idle", "adjusted", "negative", "commit", "undo", "done"}]
      /\ \A b \in Admins : change[b] \in Int
  BY AmountsAreInt DEF StockInv, Typed, Adjustment, Adjust, Increment, IncrementFails, TakeBack,
     Commit, CommitFails, Undo, Crash
<1>1. SUFFICES ASSUME ~torn'
               PROVE  Floor'
  BY DEF Floor
<1>2. ~torn
  BY <1>1, UntornStep
<1>3. \A b \in Admins : pc[b] \in {"adjusted", "negative", "commit"} => holder = b
  BY DEF StockInv, Locked
<1> USE DEF Goto
<1>4. CASE Adjust(a) \/ Commit(a) \/ CommitFails(a) \/ IncrementFails(a) \/ Crash(a)
  <2>1. /\ UNCHANGED <<redis, withdrawn>> /\ pc[a] # "negative" /\ pc'[a] # "negative"
        /\ \A b \in Admins : b # a => pc'[b] = pc[b]
    BY <1>0, <1>1, <1>4 DEF Adjust, Commit, CommitFails, IncrementFails, Crash
  <2> QED BY <1>0, <1>2, <2>1 DEF StockInv, Floor
<1>5. CASE Increment(a)
  <2>1. \A b \in Admins : pc[b] # "negative"
    BY <1>3, <1>5 DEF Increment
  <2>2. redis + withdrawn >= 0
    BY <1>2, <2>1 DEF StockInv, Floor
  <2>3. CASE redis + change[a] < 0
    <3>1. /\ redis' = redis + change[a] /\ withdrawn' = withdrawn
          /\ pc' = [pc EXCEPT ![a] = "negative"]
      BY <1>0, <1>5, <2>3 DEF Increment, Oversold
    <3>2. /\ withdrawn >= change[a] /\ redis' + withdrawn >= change[a]
          /\ \A b \in Admins : pc'[b] = "negative" => b = a
      BY <1>0, <2>1, <2>2, <2>3, <3>1
    <3> QED BY <1>0, <3>1, <3>2 DEF Floor
  <2>4. CASE redis + change[a] >= 0
    <3>0. redis' = redis + change[a] /\ withdrawn' = withdrawn
      BY <1>5 DEF Increment
    <3>1. ~Oversold(redis')
      BY <1>0, <2>4, <3>0 DEF Oversold
    <3>2. pc' = [pc EXCEPT ![a] = "commit"]
      BY <1>5, <3>1 DEF Increment
    <3> QED BY <1>0, <2>1, <2>2, <2>4, <3>0, <3>2 DEF Floor
  <2> QED BY <1>0, <2>3, <2>4
<1>6. CASE TakeBack(a)
  <2>1. redis' = redis - change[a] /\ withdrawn' = withdrawn
    BY <1>1, <1>6 DEF TakeBack, PutBack
  <2>2. redis + withdrawn >= change[a]
    BY <1>2, <1>6 DEF StockInv, Floor, TakeBack
  <2>3. \A b \in Admins : pc'[b] # "negative"
    BY <1>0, <1>3, <1>6 DEF TakeBack
  <2> QED BY <1>0, <2>1, <2>2, <2>3 DEF Floor
<1>7. CASE Undo(a)
  <2>1. /\ redis' = redis - change[a]
        /\ withdrawn' = IF change[a] > 0 THEN withdrawn + change[a] ELSE withdrawn
    BY <1>1, <1>7 DEF Undo, PutBack
  <2>2. redis \in Int /\ redis' \in Int /\ withdrawn \in Nat /\ withdrawn' \in Nat
    BY <1>0, <2>1
  <2>3. redis' + withdrawn' >= redis + withdrawn /\ withdrawn' >= withdrawn
    BY <1>0, <2>1
  <2>4. redis + withdrawn \in Int /\ redis' + withdrawn' \in Int
    BY <2>2
  <2>5. \A b \in Admins : change'[b] = change[b] /\ (pc'[b] = "negative" <=> pc[b] = "negative")
    BY <1>0, <1>7 DEF Undo
  <2>6. /\ (\A b \in Admins : pc[b] # "negative") => redis + withdrawn >= 0
        /\ \A b \in Admins : pc[b] = "negative" =>
              withdrawn >= change[b] /\ redis + withdrawn >= change[b]
    BY <1>2 DEF StockInv, Floor
  <2>7. ASSUME \A b \in Admins : pc'[b] # "negative"
        PROVE  redis' + withdrawn' >= 0
    <3>1. redis + withdrawn >= 0
      BY <2>5, <2>6, <2>7
    <3> QED BY <2>4, <2>3, <3>1, NoLess
  <2>8. ASSUME NEW b \in Admins, pc'[b] = "negative"
        PROVE  withdrawn' >= change'[b] /\ redis' + withdrawn' >= change'[b]
    <3>1. withdrawn >= change[b] /\ redis + withdrawn >= change[b]
      BY <2>5, <2>6, <2>8
    <3>2. change[b] \in Int /\ change'[b] = change[b]
      BY <1>0
    <3>3. withdrawn' >= change[b]
      BY <2>2, <2>3, <3>1, <3>2, NoLess
    <3>4. redis' + withdrawn' >= change[b]
      BY <2>4, <2>3, <3>1, <3>2, NoLess
    <3> QED BY <3>2, <3>3, <3>4
  <2> QED BY <2>7, <2>8 DEF Floor
<1> QED BY <1>4, <1>5, <1>6, <1>7 DEF Adjustment

LEMMA StockStep == StockInv /\ [Next]_vars => StockInv'
<1> SUFFICES ASSUME StockInv, [Next]_vars PROVE StockInv'
  OBVIOUS
<1>1. CASE UNCHANGED vars
  <2>1. UNCHANGED <<Raised, Lowered>>
    BY <1>1 DEF vars, Raised, Lowered, Units, Unsettled
  <2> QED BY <1>1, <2>1 DEF vars, StockInv, Typed, Locked, StockAgrees, Floor
<1>2. ASSUME NEW a \in Admins, Adjustment(a) PROVE StockInv'
  BY <1>2, TypedStep, LockedStep, AgreeStep, FloorStep DEF StockInv
<1> QED BY <1>1, <1>2, OrderStep DEF Next

LEMMA StockInvariant == Spec => []StockInv
BY InitStockInv, StockStep, PTL DEF Spec

-----------------------------------------------------------------------------

\* Redis and MySQL differ by the orders underway and by the adjustments that are open or
\* to be undone, however refusals, roll-backs and lost calls interleave with the sale.
THEOREM StockAgreesHolds == Spec => []StockAgrees
<1>1. StockInv => StockAgrees
  BY DEF StockInv
<1> QED BY <1>1, StockInvariant, PTL

\* An administrator who lowers the stock never takes a unit from an admitted order; a
\* raise that is rolled back takes those that were sold meanwhile, and no others.
THEOREM OrdersAreCoveredHolds == Spec => []OrdersAreCovered
<1>1. ASSUME StockInv PROVE OrdersAreCovered
  <2>1. SUFFICES ASSUME ~torn
                 PROVE  redis + Cardinality(Lowered) + withdrawn >= 0
    BY <1>1, Counted DEF OrdersAreCovered, StockInv, StockAgrees, Typed, Counts
  <2>2. CASE \A a \in Admins : pc[a] # "negative"
    BY <1>1, <2>1, <2>2, Counted DEF StockInv, Floor, Typed, Counts
  <2>3. ASSUME NEW a \in Admins, pc[a] = "negative"
        PROVE  redis + Cardinality(Lowered) + withdrawn >= 0
    <3>1. redis + withdrawn >= change[a] /\ change[a] \in Int
      BY <1>1, <2>1, <2>3, AmountsAreInt DEF StockInv, Floor
    <3>2. Cardinality(Lowered) >= Positive(-change[a]) /\ Cardinality(Lowered) \in Nat
      <4>1. a \in Unsettled
        BY <2>3 DEF Unsettled
      <4>2. Lowered = Units(Unsettled, Reverse) /\ Reverse[a] = -change[a] /\ Reverse[a] \in Int
        BY <1>1, AmountsAreInt DEF Lowered, Reverse, StockInv
      <4>3. /\ Cardinality(Units(Unsettled \ {a}, Reverse)) \in Nat
            /\ Cardinality(Lowered)
                 = Cardinality(Units(Unsettled \ {a}, Reverse)) + Positive(-change[a])
        BY <1>1, <4>1, <4>2, UnitsWithoutOne DEF StockInv, Typed
      <4>4. Positive(-change[a]) \in Nat
        BY <3>1 DEF Positive
      <4> QED BY <4>3, <4>4
    <3> QED BY <1>1, <3>1, <3>2 DEF Positive, StockInv, Typed
  <2> QED BY <2>2, <2>3
<1> QED BY <1>1, StockInvariant, PTL
=============================================================================
