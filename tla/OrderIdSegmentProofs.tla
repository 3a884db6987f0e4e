------------------------ MODULE OrderIdSegmentProofs ------------------------
(***************************************************************************)
(* No order id is handed out twice, for any number of JVMs and threads, as *)
(* long as the mark is further from Long.MAX_VALUE than ids were tried.    *)
(***************************************************************************)
EXTENDS OrderIdSegment, TLAPS

\* A reference that is followed is not null.
References == \A t \in Threads : pc[t] = "take" => range[t] # Null

Shape == IdTypeOK /\ References

\* An advanced sequence of ranges is again one, of the same length.
LEMMA Advanced ==
    ASSUME NEW S \in Seq(Range), NEW a \in 1 .. Len(S), NEW n \in Int
    PROVE  /\ [S EXCEPT ![a].next = n] \in Seq(Range)
           /\ Len([S EXCEPT ![a].next = n]) = Len(S)
           /\ [S EXCEPT ![a].next = n][a] = [S[a] EXCEPT !.next = n]
           /\ \A b \in 1 .. Len(S) : b # a => [S EXCEPT ![a].next = n][b] = S[b]
<1> DEFINE r == [S[a] EXCEPT !.next = n]
<1>1. S[a] \in Range
    OBVIOUS
<1>2. r \in Range
    BY <1>1 DEF Range
<1>3. [S EXCEPT ![a].next = n] = [S EXCEPT ![a] = r]
    OBVIOUS
<1> HIDE DEF r
<1>4. /\ [S EXCEPT ![a] = r] \in Seq(Range)
      /\ Len([S EXCEPT ![a] = r]) = Len(S)
      /\ [S EXCEPT ![a] = r][a] = r
      /\ \A b \in 1 .. Len(S) : b # a => [S EXCEPT ![a] = r][b] = S[b]
    BY <1>2
<1> QED
    BY <1>3, <1>4 DEF r

LEMMA Extended ==
    ASSUME IdTypeOK, Allocate
    PROVE  /\ heap' \in Seq(Range)
           /\ Len(heap') = Len(heap) + 1
           /\ heap'[Len(heap')] = [start |-> maxId, next |-> maxId, end |-> maxId + Step]
           /\ \A a \in 1 .. Len(heap) : heap'[a] = heap[a]
           /\ maxId' \in Start .. Limit /\ maxId' = maxId + Step
<1>1. NewRange \in Range
    BY ConstantsOK DEF IdTypeOK, NewRange, Range
<1> HIDE DEF Range
<1> QED
    BY <1>1, ConstantsOK DEF IdTypeOK, Allocate, Top, NewRange, Exhausted

\* The references stay good when the heap grows.
LEMMA Wider ==
    ASSUME NEW S, NEW m \in Nat, NEW n \in Nat, m <= n, NEW f \in [S -> 0 .. m]
    PROVE  f \in [S -> 0 .. n]
<1>1. 0 .. m \subseteq 0 .. n
    OBVIOUS
<1> QED
    BY <1>1

LEMMA Unwrapped == ASSUME NEW n \in Int, n <= Limit PROVE Wrap(n) = n
BY ConstantsOK DEF Wrap

LEMMA FailedOK ==
    ASSUME IdTypeOK, AllocateFails
    PROVE  maxId' \in Start .. Limit /\ maxId' >= maxId /\ faults' \in Nat
BY ConstantsOK DEF IdTypeOK, AllocateFails, Top, Exhausted

LEMMA TakeIdOK ==
    ASSUME Shape, NEW t \in Threads, TakeId(t)
    PROVE  /\ range[t] \in 1 .. Len(heap)
           /\ heap[range[t]] \in Range
           /\ Wrap(heap[range[t]].next + 1) \in Int
           /\ heap' = [heap EXCEPT ![range[t]].next = Wrap(heap[range[t]].next + 1)]
           /\ heap' \in Seq(Range)
           /\ Len(heap') = Len(heap)
<1>1. range[t] \in 1 .. Len(heap)
    BY DEF Shape, References, IdTypeOK, TakeId, Null
<1>2. heap[range[t]] \in Range
    BY <1>1 DEF Shape, IdTypeOK
<1>3. Wrap(heap[range[t]].next + 1) \in Int
    BY <1>2, ConstantsOK DEF Range, Wrap
<1>4. heap' = [heap EXCEPT ![range[t]].next = Wrap(heap[range[t]].next + 1)]
    BY DEF TakeId
<1>5. heap \in Seq(Range)
    BY DEF Shape, IdTypeOK
<1> QED
    BY <1>1, <1>2, <1>3, <1>4, <1>5, Advanced

LEMMA ShapeInit == Init => Shape
BY ConstantsOK DEF Init, Shape, IdTypeOK, References, Range, Ids, Null

LEMMA ShapeStep == Shape /\ [Next]_vars => Shape'
<1> SUFFICES ASSUME Shape, [Next]_vars PROVE Shape'
    OBVIOUS
<1>c. JvmOf \in [Threads -> Jvms]
    BY ConstantsOK
<1>h. heap \in Seq(Range) /\ Len(heap) \in Nat
    BY DEF Shape, IdTypeOK
<1>r. current \in [Jvms -> 0 .. Len(heap)] /\ next \in [Jvms -> 0 .. Len(heap)]
    BY DEF Shape, IdTypeOK
<1>p. pc \in [Threads -> {"idle", "read", "take", "enter", "refill", "clear", "check", "swap"}]
    BY DEF Shape, IdTypeOK
<1>m. monitor \in [Jvms -> Threads \cup {"free"}]
    BY DEF Shape, IdTypeOK
<1>t. times \in [Ids -> Nat]
    BY DEF Shape, IdTypeOK
<1>i. id \in [Threads -> Int]
    BY DEF Shape, IdTypeOK
<1>g. fetched \in [Jvms -> 0 .. Len(heap)] /\ range \in [Threads -> 0 .. Len(heap)]
    BY DEF Shape, IdTypeOK
<1>f. prefetching \in [Jvms -> BOOLEAN]
    BY DEF Shape, IdTypeOK
<1>q. queued \in [Jvms -> Nat]
    BY DEF Shape, IdTypeOK
<1>w. worker \in [Jvms -> {"idle", "install", "clear"}]
    BY DEF Shape, IdTypeOK
<1> USE DEF Null, Goto, shared, executor, local
<1>1. ASSUME NEW t \in Threads, Call(t) PROVE Shape'
    BY <1>1, ConstantsOK DEF Shape, IdTypeOK, References, Call
<1>2. ASSUME NEW t \in Threads, ReadCurrent(t) PROVE Shape'
    BY <1>2, ConstantsOK DEF Shape, IdTypeOK, References, ReadCurrent
<1>3. ASSUME NEW t \in Threads, TakeId(t) PROVE Shape'
  <2>1. heap' \in Seq(Range) /\ Len(heap') = Len(heap) /\ heap[range[t]].next \in Int
    BY <1>3, TakeIdOK DEF Range
  <2>2. times' \in [Ids -> Nat]
    BY <1>3, <1>t DEF TakeId, Deliver
  <2>3. id' \in [Threads -> Int]
    BY <1>3, <1>i, <2>1 DEF TakeId
  <2>4. pc' \in [Threads -> {"idle", "read", "take", "enter", "refill", "clear",
                             "check", "swap"}]
    BY <1>3, <1>p DEF TakeId
  <2>5. /\ UNCHANGED <<maxId, current, next, prefetching, down, monitor, queued, worker>>
        /\ UNCHANGED <<fetched, faults>>
        /\ range' = [range EXCEPT ![t] = Null]
        /\ attempts' = attempts + 1
    BY <1>3 DEF TakeId
  <2>6. pc'[t] # "take" /\ \A u \in Threads \ {t} : pc'[u] = pc[u]
    BY <1>3, <1>p DEF TakeId
  <2> QED
    BY <2>1, <2>2, <2>3, <2>4, <2>5, <2>6 DEF Shape, IdTypeOK, References
<1>4. ASSUME NEW t \in Threads, Enter(t) PROVE Shape'
  <2>1. monitor' \in [Jvms -> Threads \cup {"free"}]
    BY <1>4, <1>m DEF Enter
  <2>2. pc' \in [Threads -> {"idle", "read", "take", "enter", "refill", "clear",
                             "check", "swap"}]
    BY <1>4, <1>p DEF Enter
  <2>3. \A u \in Threads : pc'[u] = "take" => pc[u] = "take"
    BY <1>4, <1>p DEF Enter
  <2>4. UNCHANGED <<maxId, heap, current, next, prefetching, down, queued, worker, fetched,
                   range, id, times, attempts, faults>>
    BY <1>4 DEF Enter
  <2> QED
    BY <2>1, <2>2, <2>3, <2>4 DEF Shape, IdTypeOK, References
<1>5. ASSUME NEW t \in Threads, RefillFromNext(t) PROVE Shape'
    BY <1>5, ConstantsOK DEF Shape, IdTypeOK, References, RefillFromNext
<1>6. ASSUME NEW t \in Threads, ClearNext(t) PROVE Shape'
  <2>1. next' \in [Jvms -> 0 .. Len(heap)]
    <3>1. 0 \in 0 .. Len(heap)
      BY <1>h
    <3>2. next' = [next EXCEPT ![JvmOf[t]] = 0]
      BY <1>6 DEF ClearNext
    <3> HIDE DEF Null
    <3> QED
      BY <1>r, <3>1, <3>2
  <2>2. pc' \in [Threads -> {"idle", "read", "take", "enter", "refill", "clear",
                             "check", "swap"}]
    BY <1>6, <1>p DEF ClearNext
  <2>3. \A u \in Threads : pc'[u] = "take" => pc[u] = "take"
    BY <1>6, <1>p DEF ClearNext
  <2> QED
    BY <1>6, <2>1, <2>2, <2>3 DEF Shape, IdTypeOK, References, ClearNext
<1>7. ASSUME NEW t \in Threads, RefillFromTable(t) PROVE Shape'
  <2>1. heap' \in Seq(Range) /\ Len(heap') = Len(heap) + 1 /\ maxId' \in Start .. Limit
    BY <1>7, Extended DEF Shape, RefillFromTable
  <2>2. current' \in [Jvms -> 0 .. Len(heap')]
    <3>1. Len(heap') \in 0 .. Len(heap') /\ 0 .. Len(heap) \subseteq 0 .. Len(heap')
      BY <1>h, <2>1
    <3>2. current' = [current EXCEPT ![JvmOf[t]] = Len(heap')]
      BY <1>7 DEF RefillFromTable
    <3>3. current \in [Jvms -> 0 .. Len(heap')]
      BY <1>r, <3>1
    <3> QED
      BY <3>1, <3>2, <3>3
  <2>3. pc' \in [Threads -> {"idle", "read", "take", "enter", "refill", "clear",
                             "check", "swap"}]
    BY <1>7, <1>p DEF RefillFromTable
  <2>4. \A u \in Threads : pc'[u] = "take" => pc[u] = "take"
    BY <1>7, <1>p DEF RefillFromTable
  <2>5. UNCHANGED <<next, prefetching, down, monitor, queued, worker, fetched, range, id,
                   times, attempts, faults>>
    BY <1>7 DEF RefillFromTable
  <2>6. /\ next' \in [Jvms -> 0 .. Len(heap')]
        /\ fetched' \in [Jvms -> 0 .. Len(heap')]
        /\ range' \in [Threads -> 0 .. Len(heap')]
    BY <1>h, <1>r, <1>g, <2>1, <2>5, Wider
  <2> QED
    BY <2>1, <2>2, <2>3, <2>4, <2>5, <2>6 DEF Shape, IdTypeOK, References
<1>8. ASSUME NEW t \in Threads, RefillFails(t) PROVE Shape'
  <2>1. maxId' \in Start .. Limit /\ faults' \in Nat
    BY <1>8, FailedOK DEF Shape, RefillFails
  <2> QED
    BY <1>8, <2>1 DEF Shape, IdTypeOK, References, RefillFails, FreedOnFailure
<1>9. ASSUME NEW t \in Threads, CheckNext(t) PROVE Shape'
  <2>1. monitor' \in [Jvms -> Threads \cup {"free"}]
    BY <1>9, <1>m DEF CheckNext, PrefetchReturns
  <2>2. times' \in [Ids -> Nat]
    BY <1>9, <1>t DEF CheckNext, PrefetchReturns, Deliver
  <2>3. id' \in [Threads -> Int]
    BY <1>9, <1>i DEF CheckNext, PrefetchReturns
  <2>4. pc' \in [Threads -> {"idle", "read", "take", "enter", "refill", "clear",
                             "check", "swap"}]
    BY <1>9, <1>p DEF CheckNext, PrefetchReturns
  <2>5. \A u \in Threads : pc'[u] = "take" => pc[u] = "take"
    BY <1>9, <1>p DEF CheckNext, PrefetchReturns
  <2>7. UNCHANGED <<maxId, heap, current, next, prefetching, down, queued, worker, fetched,
                   range, attempts, faults>>
    BY <1>9 DEF CheckNext
  <2> QED
    BY <2>1, <2>2, <2>3, <2>4, <2>5, <2>7 DEF Shape, IdTypeOK, References
<1>10. ASSUME NEW t \in Threads, SwapPrefetching(t) PROVE Shape'
  <2>1. monitor' \in [Jvms -> Threads \cup {"free"}]
    BY <1>10, <1>m DEF SwapPrefetching, PrefetchReturns
  <2>2. times' \in [Ids -> Nat]
    BY <1>10, <1>t DEF SwapPrefetching, PrefetchReturns, Deliver
  <2>3. id' \in [Threads -> Int]
    BY <1>10, <1>i DEF SwapPrefetching, PrefetchReturns
  <2>4. pc' \in [Threads -> {"idle", "read", "take", "enter", "refill", "clear",
                             "check", "swap"}]
    BY <1>10, <1>p DEF SwapPrefetching, PrefetchReturns
  <2>5. \A u \in Threads : pc'[u] = "take" => pc[u] = "take"
    BY <1>10, <1>p DEF SwapPrefetching, PrefetchReturns
  <2>6. prefetching' \in [Jvms -> BOOLEAN] /\ queued' \in [Jvms -> Nat]
    <3>1. prefetching' \in [Jvms -> BOOLEAN]
      BY <1>10, <1>f DEF SwapPrefetching
    <3>2. queued' \in [Jvms -> Nat]
      BY <1>10, <1>c, <1>q DEF SwapPrefetching
    <3> QED
      BY <3>1, <3>2
  <2>7. UNCHANGED <<maxId, heap, current, next, down, worker, fetched, range, attempts, faults>>
    BY <1>10 DEF SwapPrefetching
  <2> QED
    BY <2>1, <2>2, <2>3, <2>4, <2>5, <2>6, <2>7 DEF Shape, IdTypeOK, References
<1>11. ASSUME NEW j \in Jvms, TaskAllocates(j) PROVE Shape'
  <2>1. queued' \in [Jvms -> Nat]
    BY <1>11, <1>q DEF TaskAllocates
  <2>2. worker' \in [Jvms -> {"idle", "install", "clear"}]
    BY <1>11, <1>w DEF TaskAllocates
  <2>3. UNCHANGED <<current, next, prefetching, down, monitor, pc, range, id, times, attempts>>
    BY <1>11 DEF TaskAllocates
  <2>4. CASE Allocate /\ fetched' = [fetched EXCEPT ![j] = Len(heap')] /\ UNCHANGED faults
    <3>1. heap' \in Seq(Range) /\ Len(heap') = Len(heap) + 1 /\ maxId' \in Start .. Limit
      BY <2>4, Extended DEF Shape
    <3>2. /\ current' \in [Jvms -> 0 .. Len(heap')]
          /\ next' \in [Jvms -> 0 .. Len(heap')]
          /\ range' \in [Threads -> 0 .. Len(heap')]
      BY <1>h, <1>r, <1>g, <2>3, <3>1, Wider
    <3>3. fetched' \in [Jvms -> 0 .. Len(heap')]
      <4>1. fetched \in [Jvms -> 0 .. Len(heap')]
        BY <1>h, <1>g, <3>1, Wider
      <4>2. Len(heap') \in 0 .. Len(heap')
        BY <1>h, <3>1
      <4> QED
        BY <2>4, <4>1, <4>2
    <3>4. UNCHANGED <<faults, pc>>
      BY <2>3, <2>4
    <3> QED
      BY <2>1, <2>2, <2>3, <3>1, <3>2, <3>3, <3>4 DEF Shape, IdTypeOK, References
  <2>5. CASE AllocateFails /\ UNCHANGED <<heap, fetched>>
    <3>1. maxId' \in Start .. Limit /\ faults' \in Nat
      BY <2>5, FailedOK DEF Shape
    <3> QED
      BY <2>1, <2>2, <2>3, <2>5, <3>1 DEF Shape, IdTypeOK, References
  <2> QED
    BY <1>11, <2>4, <2>5 DEF TaskAllocates
<1>12. ASSUME NEW j \in Jvms, TaskInstalls(j) PROVE Shape'
    BY <1>12, ConstantsOK DEF Shape, IdTypeOK, References, TaskInstalls, Installed
<1>13. ASSUME NEW j \in Jvms, TaskEnds(j) PROVE Shape'
    BY <1>13, ConstantsOK DEF Shape, IdTypeOK, References, TaskEnds, FlagAfterTask
<1>14. ASSUME NEW j \in Jvms, Shutdown(j) PROVE Shape'
    BY <1>14, ConstantsOK DEF Shape, IdTypeOK, References, Shutdown
<1>15. ASSUME NEW j \in Jvms, Crash(j) PROVE Shape'
    BY <1>15, ConstantsOK DEF Shape, IdTypeOK, References, Crash
<1>16. CASE UNCHANGED vars
    BY <1>16 DEF vars, Shape, IdTypeOK, References
<1> QED
    BY <1>1, <1>2, <1>3, <1>4, <1>5, <1>6, <1>7, <1>8, <1>9, <1>10, <1>11, <1>12, <1>13,
       <1>14, <1>15, <1>16 DEF Next, ThreadStep, TaskStep

-----------------------------------------------------------------------------

\* An id i that was taken from the range a.
Taken(a, i) == heap[a].start <= i /\ i < heap[a].next /\ i < heap[a].end

\* A thread between getAndIncrement and the return of nextId.
Carrying(t) == pc[t] \in {"check", "swap"} /\ ~Holds(t)

\* Far from the end of the long range.
Roomy == maxId + attempts <= Limit

Monitors ==
    \A t \in Threads :
        /\ pc[t] \in {"refill", "clear"} => Holds(t)
        /\ Holds(t) => pc[t] \in {"refill", "clear", "check", "swap"}

\* The ranges of all JVMs lie below the mark and do not overlap.
Ranges ==
    /\ Start <= maxId
    /\ \A a \in 1 .. Len(heap) : Start <= heap[a].start /\ heap[a].end <= maxId
    /\ \A a, b \in 1 .. Len(heap) :
          a # b => heap[a].end <= heap[b].start \/ heap[b].end <= heap[a].start

\* Counters run past the end of a range, but not far enough to wrap.
Counters ==
    \A a \in 1 .. Len(heap) :
        heap[a].start <= heap[a].next /\ heap[a].next <= maxId + attempts

\* An id that was returned, or is about to be, was taken from some range.
Accounted ==
    /\ \A i \in Ids : times[i] > 0 => \E a \in 1 .. Len(heap) : Taken(a, i)
    /\ \A t \in Threads :
          Carrying(t) => \E a \in 1 .. Len(heap) : Taken(a, id[t])

\* It is with one caller only.
Single ==
    /\ IdsUnique
    /\ \A t \in Threads : Carrying(t) => id[t] \in Ids /\ times[id[t]] = 0
    /\ \A t, u \in Threads : Carrying(t) /\ Carrying(u) /\ t # u => id[t] # id[u]

IdInv ==
    /\ Shape
    /\ Monitors
    /\ Ranges
    /\ Roomy => Counters /\ Accounted /\ Single

\* The four kinds of step, as far as ids are concerned.
Kept(t) == Carrying(t)' => Carrying(t) /\ id'[t] = id[t]

Quiet ==
    /\ UNCHANGED <<heap, times, attempts>>
    /\ maxId' \in Nat /\ maxId' >= maxId
    /\ \A t \in Threads : Kept(t)

Grown ==
    /\ Allocate
    /\ UNCHANGED <<times, attempts>>
    /\ \A t \in Threads : Kept(t)

Returned ==
    /\ UNCHANGED <<heap, maxId, attempts>>
    /\ \E t \in Threads :
          /\ Carrying(t) /\ ~Carrying(t)'
          /\ times' = [times EXCEPT ![id[t]] = @ + 1]
          /\ \A u \in Threads : u # t => Kept(u)

Tried ==
    /\ UNCHANGED maxId
    /\ \E t \in Threads :
          /\ TakeId(t) /\ ~Carrying(t)
          /\ \A u \in Threads : u # t => Kept(u)


LEMMA MonitorsStep == Shape /\ Monitors /\ [Next]_vars => Monitors'
<1> SUFFICES ASSUME Shape, Monitors, [Next]_vars PROVE Monitors'
    OBVIOUS
<1>c. JvmOf \in [Threads -> Jvms] /\ "free" \notin Threads
    BY ConstantsOK
<1>p. pc \in [Threads -> {"idle", "read", "take", "enter", "refill", "clear", "check", "swap"}]
    BY DEF Shape, IdTypeOK
<1>m. monitor \in [Jvms -> Threads \cup {"free"}]
    BY DEF Shape, IdTypeOK
<1>1. ASSUME UNCHANGED <<pc, monitor>> PROVE Monitors'
    BY <1>1 DEF Monitors, Holds
<1>2. ASSUME NEW t \in Threads, NEW l \in {"idle", "read", "take", "enter", "check"},
             UNCHANGED monitor, pc' = [pc EXCEPT ![t] = l],
             pc[t] \in {"idle", "read", "take"}
      PROVE  Monitors'
    BY <1>2, <1>c, <1>p DEF Monitors, Holds
<1>3. ASSUME NEW t \in Threads, NEW l \in {"clear", "check", "swap"},
             UNCHANGED monitor, pc' = [pc EXCEPT ![t] = l],
             pc[t] \in {"refill", "clear", "check"},
             pc[t] = "check" => l = "swap",
             pc[t] = "clear" => l = "check"
      PROVE  Monitors'
    BY <1>3, <1>c, <1>p DEF Monitors, Holds
<1>4. ASSUME NEW t \in Threads, Holds(t), NEW l \in {"idle", "read"},
             monitor' = [monitor EXCEPT ![JvmOf[t]] = "free"], pc' = [pc EXCEPT ![t] = l]
      PROVE  Monitors'
    BY <1>4, <1>c, <1>p, <1>m DEF Monitors, Holds
<1>5. ASSUME NEW t \in Threads, ~Holds(t), UNCHANGED monitor, pc' = [pc EXCEPT ![t] = "idle"]
      PROVE  Monitors'
    BY <1>5, <1>c, <1>p, <1>m DEF Monitors, Holds
<1> USE DEF Goto, shared, executor, local
<1>6. ASSUME NEW t \in Threads, Call(t) \/ ReadCurrent(t) \/ TakeId(t) PROVE Monitors'
    BY <1>2, <1>6 DEF Call, ReadCurrent, TakeId
<1>7. ASSUME NEW t \in Threads, Enter(t) PROVE Monitors'
  <2>1. CASE pc' = [pc EXCEPT ![t] = "read"] /\ UNCHANGED monitor
    BY <1>7, <1>c, <1>p, <2>1 DEF Enter, Monitors, Holds
  <2>2. CASE /\ pc' = [pc EXCEPT ![t] = "refill"]
             /\ monitor[JvmOf[t]] = "free"
             /\ monitor' = [monitor EXCEPT ![JvmOf[t]] = t]
    BY <1>c, <1>p, <1>m, <2>2 DEF Monitors, Holds
  <2> QED
    BY <1>7, <2>1, <2>2 DEF Enter
<1>8. ASSUME NEW t \in Threads, RefillFromNext(t) \/ ClearNext(t) \/ RefillFromTable(t)
      PROVE  Monitors'
    BY <1>3, <1>8 DEF RefillFromNext, ClearNext, RefillFromTable
<1>9. ASSUME NEW t \in Threads, RefillFails(t) PROVE Monitors'
  <2>1. Holds(t)
    BY <1>9 DEF RefillFails, Monitors
  <2> QED
    BY <1>4, <1>9, <2>1 DEF RefillFails, FreedOnFailure
<1>10. ASSUME NEW t \in Threads, PrefetchReturns(t) PROVE Monitors'
    BY <1>4, <1>5, <1>10 DEF PrefetchReturns
<1>11. ASSUME NEW t \in Threads, CheckNext(t) PROVE Monitors'
    BY <1>3, <1>10, <1>11 DEF CheckNext
<1>12. ASSUME NEW t \in Threads, SwapPrefetching(t) PROVE Monitors'
  <2>1. CASE PrefetchReturns(t)
    BY <1>10, <2>1
  <2>2. CASE /\ pc' = [pc EXCEPT ![t] = "idle"]
             /\ monitor' = [monitor EXCEPT ![JvmOf[t]] = IF Holds(t) THEN "free" ELSE @]
    <3>1. CASE Holds(t)
      BY <1>4, <2>2, <3>1
    <3>2. CASE ~Holds(t)
      <4>1. monitor' = monitor
        BY <1>m, <1>c, <2>2, <3>2
      <4> QED
        BY <1>5, <2>2, <3>2, <4>1
    <3> QED
      BY <3>1, <3>2
  <2> QED
    BY <1>12, <2>1, <2>2 DEF SwapPrefetching
<1>13. ASSUME NEW j \in Jvms, TaskStep(j) \/ Shutdown(j) PROVE Monitors'
    BY <1>1, <1>13 DEF TaskStep, TaskAllocates, TaskInstalls, TaskEnds, Shutdown
<1>14. ASSUME NEW j \in Jvms, Crash(j) PROVE Monitors'
    BY <1>14, <1>c, <1>p, <1>m DEF Crash, Monitors, Holds
<1>15. CASE UNCHANGED vars
    BY <1>1, <1>15 DEF vars
<1> QED
    BY <1>6, <1>7, <1>8, <1>9, <1>11, <1>12, <1>13, <1>14, <1>15 DEF Next, ThreadStep

LEMMA StepKinds ==
    ASSUME Shape, Monitors, [Next]_vars
    PROVE  Quiet \/ Grown \/ Returned \/ Tried
<1>c. JvmOf \in [Threads -> Jvms] /\ "free" \notin Threads
    BY ConstantsOK
<1>p. pc \in [Threads -> {"idle", "read", "take", "enter", "refill", "clear", "check", "swap"}]
    BY DEF Shape, IdTypeOK
<1>m. monitor \in [Jvms -> Threads \cup {"free"}]
    BY DEF Shape, IdTypeOK
<1>i. id \in [Threads -> Int] /\ maxId \in Nat
    BY ConstantsOK DEF Shape, IdTypeOK
<1>1. ASSUME NEW t \in Threads, NEW l, l \notin {"check", "swap"},
             pc' = [pc EXCEPT ![t] = l], UNCHANGED <<monitor, id>>
      PROVE  \A u \in Threads : Kept(u)
    BY <1>1, <1>p DEF Kept, Carrying, Holds
<1>2. ASSUME NEW t \in Threads, Holds(t), NEW l,
             pc' = [pc EXCEPT ![t] = l], UNCHANGED <<monitor, id>>
      PROVE  \A u \in Threads : Kept(u)
    BY <1>2, <1>p DEF Kept, Carrying, Holds
<1>3. ASSUME NEW t \in Threads, Holds(t), NEW l \in {"idle", "read"},
             pc' = [pc EXCEPT ![t] = l],
             monitor' = [monitor EXCEPT ![JvmOf[t]] = "free"],
             id' = id \/ id' = [id EXCEPT ![t] = 0]
      PROVE  \A u \in Threads : Kept(u)
    BY <1>3, <1>p, <1>m, <1>c, <1>i DEF Kept, Carrying, Holds
<1>4. ASSUME NEW t \in Threads, ~Holds(t), UNCHANGED monitor,
             pc' = [pc EXCEPT ![t] = "idle"], id' = [id EXCEPT ![t] = 0]
      PROVE  ~Carrying(t)' /\ \A u \in Threads : Kept(u)
    BY <1>4, <1>p, <1>i DEF Kept, Carrying, Holds
<1>5. ASSUME UNCHANGED <<pc, monitor, id>> PROVE \A u \in Threads : Kept(u)
    BY <1>5 DEF Kept, Carrying, Holds
<1> USE DEF Goto, shared, executor, local
<1>6. ASSUME NEW t \in Threads, Call(t) \/ ReadCurrent(t) PROVE Quiet
    BY <1>1, <1>6, <1>i DEF Call, ReadCurrent, Quiet
<1>7. ASSUME NEW t \in Threads, TakeId(t) PROVE Tried
  <2>1. ~Carrying(t) /\ UNCHANGED <<maxId, monitor>>
    BY <1>7, <1>p DEF TakeId, Carrying
  <2>2. ASSUME NEW u \in Threads, u # t PROVE pc'[u] = pc[u] /\ id'[u] = id[u]
    BY <1>7, <1>p, <1>i, <2>2 DEF TakeId
  <2>3. \A u \in Threads : u # t => Kept(u)
    BY <2>1, <2>2 DEF Kept, Carrying, Holds
  <2> QED
    BY <1>7, <2>1, <2>3 DEF Tried
<1>8. ASSUME NEW t \in Threads, Enter(t) PROVE Quiet
  <2>1. UNCHANGED <<heap, times, attempts, maxId, id>>
    BY <1>8 DEF Enter
  <2>2. ASSUME NEW u \in Threads PROVE Kept(u)
    <3>1. pc'[u] \in {"check", "swap"} => pc'[u] = pc[u]
      BY <1>8, <1>p DEF Enter
    <3>2. monitor'[JvmOf[u]] # u => monitor[JvmOf[u]] # u
      BY <1>8, <1>c, <1>m DEF Enter
    <3> QED
      BY <2>1, <3>1, <3>2 DEF Kept, Carrying, Holds
  <2> QED
    BY <1>i, <2>1, <2>2 DEF Quiet
<1>9. ASSUME NEW t \in Threads, RefillFromNext(t) \/ ClearNext(t) PROVE Quiet
  <2>1. Holds(t)
    BY <1>9 DEF RefillFromNext, ClearNext, Monitors
  <2> QED
    BY <1>2, <1>9, <1>i, <2>1 DEF RefillFromNext, ClearNext, Quiet
<1>10. ASSUME NEW t \in Threads, RefillFromTable(t) PROVE Grown
  <2>1. Holds(t)
    BY <1>10 DEF RefillFromTable, Monitors
  <2> QED
    BY <1>2, <1>10, <2>1 DEF RefillFromTable, Grown
<1>11. ASSUME NEW t \in Threads, RefillFails(t) PROVE Quiet
  <2>1. Holds(t)
    BY <1>11 DEF RefillFails, Monitors
  <2>2. maxId' \in Nat /\ maxId' >= maxId
    BY <1>11, FailedOK, ConstantsOK DEF Shape, RefillFails
  <2> QED
    BY <1>3, <1>11, <2>1, <2>2 DEF RefillFails, FreedOnFailure, Quiet
<1>12. ASSUME NEW t \in Threads, pc[t] \in {"check", "swap"}, PrefetchReturns(t),
              UNCHANGED <<heap, maxId, attempts>>
       PROVE  Quiet \/ Returned
  <2>1. CASE Holds(t)
    <3>1. /\ pc' = [pc EXCEPT ![t] = "read"] /\ UNCHANGED times
          /\ monitor' = [monitor EXCEPT ![JvmOf[t]] = "free"]
          /\ id' = [id EXCEPT ![t] = 0]
      BY <1>12, <2>1 DEF PrefetchReturns
    <3>2. \A u \in Threads : Kept(u)
      BY <1>3, <2>1, <3>1
    <3> QED
      BY <1>12, <1>i, <3>1, <3>2 DEF Quiet
  <2>2. CASE ~Holds(t)
    <3>1. ~Carrying(t)' /\ \A u \in Threads : Kept(u)
      BY <1>4, <1>12, <2>2 DEF PrefetchReturns
    <3>2. times' = [times EXCEPT ![id[t]] = @ + 1] /\ Carrying(t)
      BY <1>12, <2>2 DEF PrefetchReturns, Deliver, Carrying
    <3> QED
      BY <1>12, <3>1, <3>2 DEF Returned
  <2> QED
    BY <2>1, <2>2
<1>13. ASSUME NEW t \in Threads, CheckNext(t) PROVE Quiet \/ Returned
  <2>1. pc[t] = "check" /\ UNCHANGED <<heap, maxId, attempts>>
    BY <1>13 DEF CheckNext
  <2>2. CASE PrefetchReturns(t)
    BY <1>12, <2>1, <2>2
  <2>3. CASE pc' = [pc EXCEPT ![t] = "swap"] /\ UNCHANGED <<monitor, id, times>>
    <3>1. \A u \in Threads : Kept(u)
      BY <1>p, <2>1, <2>3 DEF Kept, Carrying, Holds
    <3> QED
      BY <1>i, <2>1, <2>3, <3>1 DEF Quiet
  <2> QED
    BY <1>13, <2>2, <2>3 DEF CheckNext
<1>14. ASSUME NEW t \in Threads, SwapPrefetching(t) PROVE Quiet \/ Returned
  <2>1. pc[t] = "swap" /\ UNCHANGED <<heap, maxId, attempts>>
    BY <1>14 DEF SwapPrefetching
  <2>2. CASE PrefetchReturns(t)
    BY <1>12, <2>1, <2>2
  <2>3. CASE /\ monitor' = [monitor EXCEPT ![JvmOf[t]] = IF Holds(t) THEN "free" ELSE @]
             /\ id' = [id EXCEPT ![t] = 0]
             /\ pc' = [pc EXCEPT ![t] = "idle"]
             /\ UNCHANGED times
    <3>1. CASE Holds(t)
      <4>1. monitor' = [monitor EXCEPT ![JvmOf[t]] = "free"]
        BY <2>3, <3>1
      <4>2. \A u \in Threads : Kept(u)
        BY <1>3, <2>3, <3>1, <4>1
      <4> QED
        BY <1>i, <2>1, <2>3, <4>2 DEF Quiet
    <3>2. CASE ~Holds(t)
      <4>1. monitor' = monitor
        BY <1>m, <1>c, <2>3, <3>2
      <4>2. \A u \in Threads : Kept(u)
        BY <1>4, <2>3, <3>2, <4>1
      <4> QED
        BY <1>i, <2>1, <2>3, <4>2 DEF Quiet
    <3> QED
      BY <3>1, <3>2
  <2> QED
    BY <1>14, <2>2, <2>3 DEF SwapPrefetching
<1>15. ASSUME NEW j \in Jvms, TaskAllocates(j) PROVE Quiet \/ Grown
  <2>1. (\A u \in Threads : Kept(u)) /\ UNCHANGED <<times, attempts>>
    BY <1>5, <1>15 DEF TaskAllocates
  <2>2. CASE Allocate
    BY <2>1, <2>2 DEF Grown
  <2>3. CASE AllocateFails /\ UNCHANGED heap
    BY <2>1, <2>3, FailedOK, ConstantsOK DEF Shape, Quiet
  <2> QED
    BY <1>15, <2>2, <2>3 DEF TaskAllocates
<1>16. ASSUME NEW j \in Jvms, TaskInstalls(j) \/ TaskEnds(j) \/ Shutdown(j) PROVE Quiet
    BY <1>5, <1>16, <1>i DEF TaskInstalls, TaskEnds, Shutdown, Quiet
<1>17. ASSUME NEW j \in Jvms, Crash(j) PROVE Quiet
  <2>1. ASSUME NEW u \in Threads PROVE Kept(u)
    <3>1. CASE JvmOf[u] = j
      BY <1>17, <3>1 DEF Crash, Kept, Carrying
    <3>2. CASE JvmOf[u] # j
      BY <1>17, <1>c, <1>m, <3>2 DEF Crash, Kept, Carrying, Holds
    <3> QED
      BY <3>1, <3>2
  <2> QED
    BY <1>17, <1>i, <2>1 DEF Crash, Quiet
<1>18. CASE UNCHANGED vars
    BY <1>5, <1>18, <1>i DEF vars, Quiet
<1> QED
    BY <1>6, <1>7, <1>8, <1>9, <1>10, <1>11, <1>13, <1>14, <1>15, <1>16, <1>17, <1>18
    DEF Next, ThreadStep, TaskStep

LEMMA RangesStep ==
    ASSUME Shape, Ranges, Quiet \/ Grown \/ Returned \/ Tried
    PROVE  Ranges'
<1>h. /\ heap \in Seq(Range) /\ Len(heap) \in Nat /\ maxId \in Nat
      /\ \A a \in 1 .. Len(heap) : heap[a] \in Range
    BY ConstantsOK DEF Shape, IdTypeOK
<1>1. CASE Quiet
    BY <1>1, <1>h, ConstantsOK DEF Quiet, Ranges, Range
<1>2. CASE Grown
  <2>1. /\ Len(heap') = Len(heap) + 1
        /\ heap'[Len(heap')] = [start |-> maxId, next |-> maxId, end |-> maxId + Step]
        /\ \A a \in 1 .. Len(heap) : heap'[a] = heap[a]
        /\ maxId' = maxId + Step
    BY <1>2, Extended DEF Shape, Grown
  <2>2. \A a \in 1 .. Len(heap') : a \in 1 .. Len(heap) \/ a = Len(heap')
    BY <1>h, <2>1
  <2>3. ASSUME NEW a \in 1 .. Len(heap')
        PROVE  Start <= heap'[a].start /\ heap'[a].end <= maxId'
    <3>1. CASE a \in 1 .. Len(heap)
      <4>1. /\ heap'[a] = heap[a] /\ heap[a].end \in Int
            /\ Start <= heap[a].start /\ heap[a].end <= maxId
        BY <1>h, <2>1, <3>1 DEF Ranges, Range
      <4> QED
        BY <1>h, <2>1, <4>1, ConstantsOK
    <3>2. CASE a = Len(heap')
      BY <2>1, <3>2 DEF Ranges
    <3> QED
      BY <2>2, <3>1, <3>2
  <2>4. ASSUME NEW a \in 1 .. Len(heap'), NEW b \in 1 .. Len(heap'), a # b
        PROVE  heap'[a].end <= heap'[b].start \/ heap'[b].end <= heap'[a].start
    <3>1. CASE a \in 1 .. Len(heap) /\ b \in 1 .. Len(heap)
      BY <2>1, <2>4, <3>1 DEF Ranges
    <3>2. CASE a \in 1 .. Len(heap) /\ b = Len(heap')
      BY <2>1, <3>2 DEF Ranges
    <3>3. CASE b \in 1 .. Len(heap) /\ a = Len(heap')
      BY <2>1, <3>3 DEF Ranges
    <3> QED
      BY <2>2, <2>4, <3>1, <3>2, <3>3
  <2> QED
    BY <1>h, <2>1, <2>3, <2>4, ConstantsOK DEF Ranges
<1>3. CASE Returned
    BY <1>3 DEF Returned, Ranges
<1>4. CASE Tried
  <2>1. PICK t \in Threads : TakeId(t)
    BY <1>4 DEF Tried
  <2>2. Len(heap') = Len(heap) /\ maxId' = maxId
    BY <1>4, <2>1, TakeIdOK DEF Tried
  <2>3. ASSUME NEW a \in 1 .. Len(heap)
        PROVE  heap'[a].start = heap[a].start /\ heap'[a].end = heap[a].end
    <3> DEFINE n == Wrap(heap[range[t]].next + 1)
    <3>1. /\ range[t] \in 1 .. Len(heap) /\ n \in Int
          /\ heap' = [heap EXCEPT ![range[t]].next = n]
          /\ heap[a] \in Range
      BY <1>h, <2>1, TakeIdOK
    <3> HIDE DEF n
    <3>2. CASE a = range[t]
      <4>1. heap'[a] = [heap[a] EXCEPT !.next = n]
        BY <1>h, <3>1, <3>2, Advanced
      <4> QED
        BY <3>1, <4>1 DEF Range
    <3>3. CASE a # range[t]
      BY <1>h, <3>1, <3>3, Advanced
    <3> QED
      BY <3>2, <3>3
  <2> QED
    BY <2>2, <2>3 DEF Ranges
<1> QED
    BY <1>1, <1>2, <1>3, <1>4

\* What one attempt does to the range it is made on, and to the thread.
LEMMA Attempt ==
    ASSUME Shape, Ranges, Counters, Roomy', NEW t \in Threads, TakeId(t), UNCHANGED maxId
    PROVE  /\ range[t] \in 1 .. Len(heap) /\ Len(heap') = Len(heap)
           /\ heap'[range[t]] = [heap[range[t]] EXCEPT !.next = heap[range[t]].next + 1]
           /\ \A b \in 1 .. Len(heap) : b # range[t] => heap'[b] = heap[b]
           /\ attempts' = attempts + 1
<1>1. /\ maxId \in Nat /\ attempts \in Nat /\ heap \in Seq(Range)
      /\ range[t] \in 1 .. Len(heap) /\ heap[range[t]] \in Range
  <2>1. maxId \in Nat /\ attempts \in Nat /\ heap \in Seq(Range)
    BY ConstantsOK DEF Shape, IdTypeOK
  <2> QED
    BY <2>1, TakeIdOK
<1>2. attempts' = attempts + 1
    BY DEF TakeId
<1>3. heap[range[t]].next + 1 <= Limit
    BY <1>1, <1>2, ConstantsOK DEF Counters, Roomy, Range
<1>4. Wrap(heap[range[t]].next + 1) = heap[range[t]].next + 1
  <2>1. heap[range[t]].next + 1 \in Int
    BY <1>1 DEF Range
  <2> QED
    BY <1>3, <2>1, Unwrapped
<1> QED
    BY <1>1, <1>2, <1>4, TakeIdOK, Advanced

LEMMA SingleStep ==
    ASSUME Shape, Ranges, Counters, Accounted, Single, Roomy',
           Quiet \/ Grown \/ Returned \/ Tried
    PROVE  Counters' /\ Accounted' /\ Single'
<1>h. /\ heap \in Seq(Range) /\ Len(heap) \in Nat /\ maxId \in Nat /\ attempts \in Nat
      /\ \A a \in 1 .. Len(heap) : heap[a] \in Range
      /\ times \in [Ids -> Nat] /\ id \in [Threads -> Int]
    BY ConstantsOK DEF Shape, IdTypeOK
<1>1. CASE Quiet
  <2>1. Counters'
    BY <1>1, <1>h DEF Quiet, Counters, Range
  <2>2. Accounted'
    BY <1>1 DEF Quiet, Kept, Accounted, Taken
  <2>3. Single'
    BY <1>1 DEF Quiet, Kept, Single, IdsUnique
  <2> QED
    BY <2>1, <2>2, <2>3
<1>2. CASE Grown
  <2>1. /\ Len(heap') = Len(heap) + 1
        /\ heap'[Len(heap')] = [start |-> maxId, next |-> maxId, end |-> maxId + Step]
        /\ \A a \in 1 .. Len(heap) : heap'[a] = heap[a]
        /\ maxId' = maxId + Step
    BY <1>2, Extended DEF Shape, Grown
  <2>2. \A a \in 1 .. Len(heap') : a \in 1 .. Len(heap) \/ a = Len(heap')
    BY <1>h, <2>1
  <2>3. Counters'
    <3>1. ASSUME NEW a \in 1 .. Len(heap)
          PROVE  heap'[a].start <= heap'[a].next /\ heap'[a].next <= maxId' + attempts'
      <4>1. /\ heap[a].next \in Int /\ heap'[a] = heap[a]
            /\ heap[a].start <= heap[a].next /\ heap[a].next <= maxId + attempts
        BY <1>h, <2>1 DEF Counters, Range
      <4>2. attempts' = attempts
        BY <1>2 DEF Grown
      <4> QED
        BY <1>h, <2>1, <4>1, <4>2, ConstantsOK
    <3>2. heap'[Len(heap')].next <= maxId' + attempts'
      BY <1>2, <1>h, <2>1, ConstantsOK DEF Grown
    <3>3. heap'[Len(heap')].start <= heap'[Len(heap')].next
      BY <1>h, <2>1
    <3> QED
      BY <2>2, <3>1, <3>2, <3>3 DEF Counters
  <2>4. ASSUME NEW i, \E a \in 1 .. Len(heap) : Taken(a, i)
        PROVE  \E a \in 1 .. Len(heap') : Taken(a, i)'
    BY <1>h, <2>1, <2>4 DEF Taken
  <2>5. Accounted'
    <3>1. \A i \in Ids : times'[i] > 0 => \E a \in 1 .. Len(heap') : Taken(a, i)'
      BY <1>2, <2>4 DEF Grown, Accounted
    <3>2. \A t \in Threads : Carrying(t)' => \E a \in 1 .. Len(heap') : Taken(a, id[t])'
      BY <1>2, <2>4 DEF Grown, Kept, Accounted, Taken
    <3> QED
      BY <3>1, <3>2 DEF Accounted, Taken
  <2>6. Single'
    BY <1>2 DEF Grown, Kept, Single, IdsUnique
  <2> QED
    BY <2>3, <2>5, <2>6
<1>3. CASE Returned
  <2>1. PICK t \in Threads :
             /\ Carrying(t) /\ ~Carrying(t)'
             /\ times' = [times EXCEPT ![id[t]] = @ + 1]
             /\ \A u \in Threads : u # t => Kept(u)
    BY <1>3 DEF Returned
  <2>2. UNCHANGED <<heap, maxId, attempts>>
    BY <1>3 DEF Returned
  <2>3. id[t] \in Ids /\ times[id[t]] = 0 /\ \E a \in 1 .. Len(heap) : Taken(a, id[t])
    BY <2>1 DEF Single, Accounted
  <2>4. \A i \in Ids : times'[i] = IF i = id[t] THEN 1 ELSE times[i]
    BY <1>h, <2>1, <2>3
  <2>5. \A u \in Threads : Carrying(u)' => u # t /\ Carrying(u) /\ id'[u] = id[u]
    BY <2>1 DEF Kept
  <2>6. Counters'
    BY <2>2 DEF Counters
  <2>7. Accounted'
    BY <2>2, <2>3, <2>4, <2>5 DEF Accounted, Taken
  <2>8. Single'
    BY <2>1, <2>4, <2>5 DEF Single, IdsUnique
  <2> QED
    BY <2>6, <2>7, <2>8
<1>4. CASE Tried
  <2>1. PICK t \in Threads :
             /\ TakeId(t) /\ ~Carrying(t)
             /\ \A u \in Threads : u # t => Kept(u)
    BY <1>4 DEF Tried
  <2>a. /\ range[t] \in 1 .. Len(heap) /\ Len(heap') = Len(heap)
        /\ heap'[range[t]] = [heap[range[t]] EXCEPT !.next = heap[range[t]].next + 1]
        /\ \A b \in 1 .. Len(heap) : b # range[t] => heap'[b] = heap[b]
        /\ attempts' = attempts + 1 /\ maxId' = maxId
    BY <1>4, <2>1, Attempt DEF Tried
  <2>b. PICK r \in 1 .. Len(heap), i \in Int : r = range[t] /\ i = heap[r].next
    BY <1>h, <2>a DEF Range
  <2>2. /\ Len(heap') = Len(heap)
        /\ heap'[r] = [heap[r] EXCEPT !.next = i + 1]
        /\ \A b \in 1 .. Len(heap) : b # r => heap'[b] = heap[b]
        /\ attempts' = attempts + 1 /\ maxId' = maxId
    BY <2>a, <2>b
  <2>3. /\ heap[r].next = i /\ heap[r].start \in Int /\ heap[r].end \in Int
        /\ heap'[r].start = heap[r].start /\ heap'[r].end = heap[r].end
        /\ heap'[r].next = i + 1
    BY <1>h, <2>2, <2>b DEF Range
  <2>4. Counters'
    <3>1. ASSUME NEW a \in 1 .. Len(heap)
          PROVE  heap'[a].start <= heap'[a].next /\ heap'[a].next <= maxId' + attempts'
      <4>1. heap[a].start <= heap[a].next /\ heap[a].next <= maxId + attempts
        BY DEF Counters
      <4>2. heap[a].next \in Int /\ heap[a].start \in Int
        BY <1>h DEF Range
      <4>3. CASE a = r
        <5>1. heap[r].start <= i /\ i <= maxId + attempts
          BY <2>3, <4>1, <4>3
        <5>2. maxId \in Nat /\ attempts \in Nat
          BY <1>h
        <5>3. heap'[r].start <= i + 1 /\ i + 1 <= maxId + (attempts + 1)
          BY <2>3, <5>1, <5>2
        <5> QED
          BY <2>2, <2>3, <4>3, <5>3
      <4>4. CASE a # r
        BY <1>h, <2>2, <4>1, <4>2, <4>4
      <4> QED
        BY <4>3, <4>4
    <3> QED
      BY <2>2, <3>1 DEF Counters
  <2>5. ASSUME NEW k \in Int, \E a \in 1 .. Len(heap) : Taken(a, k)
        PROVE  k # i \/ ~HasRoom(r)
    <3>1. PICK a \in 1 .. Len(heap) : Taken(a, k)
      BY <2>5
    <3>2. CASE a = r
      BY <2>3, <3>1, <3>2 DEF Taken
    <3>3. CASE a # r
      <4>1. heap[a].end <= heap[r].start \/ heap[r].end <= heap[a].start
        BY <2>2, <3>3 DEF Ranges
      <4>2. heap[a].end \in Int /\ heap[a].start \in Int
        BY <1>h DEF Range
      <4>3. heap[r].start <= i
        BY <2>3 DEF Counters
      <4> QED
        BY <2>3, <3>1, <4>1, <4>2, <4>3 DEF Taken, HasRoom
    <3> QED
      BY <3>2, <3>3
  <2>6. ASSUME NEW k \in Int, NEW a \in 1 .. Len(heap), Taken(a, k)
        PROVE  Taken(a, k)'
    <3>1. CASE a = r
      BY <2>3, <2>6, <3>1 DEF Taken
    <3>2. CASE a # r
      BY <2>2, <2>6, <3>2 DEF Taken
    <3> QED
      BY <3>1, <3>2
  <2>7. ASSUME HasRoom(r) PROVE Taken(r, i)' /\ i \in Ids /\ times[i] = 0
    <3>1. heap[r].start <= i /\ Start <= heap[r].start /\ heap[r].end <= maxId
      BY <2>3 DEF Counters, Ranges
    <3>2. Taken(r, i)'
      BY <2>3, <2>7, <3>1 DEF Taken, HasRoom
    <3>3. i \in Ids
      <4>1. i < maxId /\ 0 <= i
        BY <1>h, <2>3, <2>7, <3>1, ConstantsOK DEF HasRoom
      <4> QED
        BY <1>h, <2>2, <4>1, ConstantsOK DEF Roomy, Ids
    <3>4. times[i] = 0
      BY <1>h, <2>3, <2>5, <2>7, <3>3 DEF Accounted
    <3> QED
      BY <3>2, <3>3, <3>4
  <2>8. \A u \in Threads \ {t} : Carrying(u)' => Carrying(u) /\ id'[u] = id[u]
    BY <2>1 DEF Kept
  <2>t. \A k \in Int : (\E a \in 1 .. Len(heap) : Taken(a, k))
                        => \E a \in 1 .. Len(heap') : Taken(a, k)'
    BY <2>2, <2>6
  <2>u. ASSUME NEW u \in Threads \ {t}, Carrying(u)'
        PROVE  \E a \in 1 .. Len(heap') : Taken(a, id[u])'
    <3>1. id[u] \in Int /\ Carrying(u) /\ id'[u] = id[u]
      BY <1>h, <2>8, <2>u
    <3>2. \E a \in 1 .. Len(heap) : Taken(a, id[u])
      BY <3>1 DEF Accounted
    <3> QED
      BY <2>t, <3>1, <3>2 DEF Taken
  <2>9. ASSUME HasRoom(r), NEW u \in Threads, Carrying(u) PROVE id[u] # i
    BY <1>h, <2>5, <2>9 DEF Accounted
  <2>10. CASE ~HasRoom(r)
    <3>1. UNCHANGED times /\ ~Carrying(t)'
      BY <1>h, <2>1, <2>b, <2>10 DEF TakeId, Carrying, Goto, Shape, IdTypeOK
    <3>2. Accounted'
      <4>1. ASSUME NEW k \in Ids, times'[k] > 0
            PROVE  \E a \in 1 .. Len(heap') : Taken(a, k)'
        BY <2>t, <3>1, <4>1 DEF Accounted, Ids
      <4>2. ASSUME NEW u \in Threads, Carrying(u)'
            PROVE  \E a \in 1 .. Len(heap') : Taken(a, id[u])'
        BY <2>u, <3>1, <4>2
      <4> QED
        BY <4>1, <4>2 DEF Accounted, Taken, Ids
    <3>3. Single'
      BY <2>8, <3>1 DEF Single, IdsUnique
    <3> QED
      BY <2>4, <3>2, <3>3
  <2>11. CASE HasRoom(r) /\ UNCHANGED times /\ id' = [id EXCEPT ![t] = i]
    <3>1. id'[t] = i
      BY <1>h, <2>11
    <3>2. \E a \in 1 .. Len(heap') : Taken(a, i)'
      BY <2>2, <2>7, <2>11
    <3>a. Accounted'
      <4>1. ASSUME NEW k \in Ids, times'[k] > 0
            PROVE  \E a \in 1 .. Len(heap') : Taken(a, k)'
        BY <2>t, <2>11, <4>1 DEF Accounted, Ids
      <4>2. ASSUME NEW u \in Threads, Carrying(u)'
            PROVE  \E a \in 1 .. Len(heap') : Taken(a, id[u])'
        <5>1. CASE u = t
          BY <3>1, <3>2, <5>1 DEF Taken
        <5>2. CASE u # t
          BY <2>u, <4>2, <5>2
        <5> QED
          BY <5>1, <5>2
      <4> QED
        BY <4>1, <4>2 DEF Accounted, Taken, Ids
    <3>3. Single'
      BY <2>7, <2>8, <2>9, <2>11, <3>1 DEF Single, IdsUnique
    <3> QED
      BY <2>4, <3>a, <3>3
  <2>12. CASE HasRoom(r) /\ times' = [times EXCEPT ![i] = @ + 1] /\ ~Carrying(t)'
    <3>1. \A k \in Ids : times'[k] = IF k = i THEN 1 ELSE times[k]
      BY <1>h, <2>7, <2>12
    <3>2. \E a \in 1 .. Len(heap') : Taken(a, i)'
      BY <2>2, <2>7, <2>12
    <3>a. Accounted'
      <4>1. ASSUME NEW k \in Ids, times'[k] > 0
            PROVE  \E a \in 1 .. Len(heap') : Taken(a, k)'
        <5>1. CASE k = i
          BY <3>2, <5>1
        <5>2. CASE k # i
          BY <2>t, <3>1, <4>1, <5>2 DEF Accounted, Ids
        <5> QED
          BY <5>1, <5>2
      <4>2. ASSUME NEW u \in Threads, Carrying(u)'
            PROVE  \E a \in 1 .. Len(heap') : Taken(a, id[u])'
        BY <2>u, <2>12, <4>2
      <4> QED
        BY <4>1, <4>2 DEF Accounted, Taken, Ids
    <3>3. Single'
      BY <2>7, <2>8, <2>9, <2>12, <3>1 DEF Single, IdsUnique
    <3> QED
      BY <2>4, <3>a, <3>3
  <2> QED
    <3>1. pc'[t] = "idle" => ~Carrying(t)'
      BY DEF Carrying
    <3> QED
      BY <1>h, <2>1, <2>b, <2>10, <2>11, <2>12, <3>1
      DEF TakeId, Deliver, Goto, Shape, IdTypeOK
<1> QED
    BY <1>1, <1>2, <1>3, <1>4

LEMMA IdInvInit == Init => IdInv
<1> SUFFICES ASSUME Init PROVE IdInv
    OBVIOUS
<1>1. Shape
    BY ShapeInit
<1>2. Monitors /\ Ranges
    BY ConstantsOK DEF Init, Monitors, Ranges, Holds
<1>3. Counters /\ Accounted /\ Single
    BY ConstantsOK DEF Init, Counters, Accounted, Single, Carrying, IdsUnique
<1> QED
    BY <1>1, <1>2, <1>3 DEF IdInv

LEMMA BoundDown ==
    ASSUME NEW a \in Nat, NEW b \in Nat, NEW c \in Nat, NEW d \in Nat, NEW l \in Nat,
           c >= a, d >= b, c + d <= l
    PROVE  a + b <= l
OBVIOUS

LEMMA IdInvStep == IdInv /\ [Next]_vars => IdInv'
<1> SUFFICES ASSUME IdInv, [Next]_vars PROVE IdInv'
    OBVIOUS
<1>1. Shape' /\ Monitors'
    BY ShapeStep, MonitorsStep DEF IdInv
<1>2. Quiet \/ Grown \/ Returned \/ Tried
    BY StepKinds DEF IdInv
<1>3. Ranges'
    BY <1>2, RangesStep DEF IdInv
<1>4. Roomy' => Roomy
    <2>1. maxId \in Nat /\ attempts \in Nat
      BY ConstantsOK DEF IdInv, Shape, IdTypeOK
    <2>2. maxId' \in Nat /\ attempts' \in Nat
      BY <1>1, ConstantsOK DEF Shape, IdTypeOK
    <2>3. maxId' >= maxId
      BY <1>2, <2>1, <2>2, ConstantsOK DEF Quiet, Grown, Returned, Tried, Allocate, Top
    <2>4. attempts' >= attempts
      <3>1. attempts' = attempts \/ attempts' = attempts + 1
        BY <1>2 DEF Quiet, Grown, Returned, Tried, TakeId
      <3> QED
        BY <2>1, <3>1
    <2>5. Limit \in Nat
      BY ConstantsOK
    <2> QED
      BY <2>1, <2>2, <2>3, <2>4, <2>5, BoundDown DEF Roomy
<1>5. Roomy' => Counters' /\ Accounted' /\ Single'
    BY <1>2, <1>4, SingleStep DEF IdInv
<1> QED
    BY <1>1, <1>3, <1>5 DEF IdInv

LEMMA IdInvHolds == Spec => []IdInv
BY IdInvInit, IdInvStep, PTL DEF Spec

\* Every variable keeps its type: no thread follows a reference that is not there.
THEOREM IdTypeCorrect == Spec => []IdTypeOK
BY IdInvHolds, PTL DEF IdInv, Shape

\* No two calls of nextId return the same id, in any number of JVMs and threads and
\* with any crash or failed allocation, while the mark is not at the end of the long range.
THEOREM IdsUniqueHolds == Spec => [](Roomy => IdsUnique)
<1>1. IdInv => (Roomy => IdsUnique)
    BY DEF IdInv, Single
<1> QED
    BY <1>1, IdInvHolds, PTL

-----------------------------------------------------------------------------

\* What a step may do to the tasks of one JVM, all of it in terms of its flag.
LEMMA FlagStep == Shape /\ FlagMatchesTask /\ [Next]_vars => FlagMatchesTask'
<1> SUFFICES ASSUME Shape, FlagMatchesTask, [Next]_vars PROVE FlagMatchesTask'
    OBVIOUS
<1>c. JvmOf \in [Threads -> Jvms]
    BY ConstantsOK
<1>t. /\ prefetching \in [Jvms -> BOOLEAN] /\ down \in [Jvms -> BOOLEAN]
      /\ queued \in [Jvms -> Nat]
      /\ worker \in [Jvms -> {"idle", "install", "clear"}]
    BY DEF Shape, IdTypeOK
<1> USE DEF shared, executor, local
<1>1. ASSUME UNCHANGED <<prefetching, down, queued, worker>> PROVE FlagMatchesTask'
    BY <1>1 DEF FlagMatchesTask, Tasks
<1>2. ASSUME NEW t \in Threads, Call(t) \/ ThreadStep(t) PROVE FlagMatchesTask'
  <2>1. CASE SwapPrefetching(t) /\ UNCHANGED <<prefetching, queued>>
    BY <1>1, <2>1 DEF SwapPrefetching
  <2>2. CASE /\ ~prefetching[JvmOf[t]]
             /\ prefetching' = [prefetching EXCEPT ![JvmOf[t]] = TRUE]
             /\ queued' = [queued EXCEPT ![JvmOf[t]] = @ + 1]
             /\ UNCHANGED <<down, worker>>
    BY <1>c, <1>t, <2>2 DEF FlagMatchesTask, Tasks
  <2>3. CASE /\ down[JvmOf[t]]
             /\ prefetching' = [prefetching EXCEPT ![JvmOf[t]] = TRUE]
             /\ UNCHANGED <<queued, down, worker>>
    BY <1>c, <1>t, <2>3 DEF FlagMatchesTask, Tasks
  <2>4. CASE SwapPrefetching(t)
    BY <2>1, <2>2, <2>3, <2>4 DEF SwapPrefetching, MayStart
  <2> QED
    BY <1>1, <1>2, <2>4 DEF Call, ThreadStep, ReadCurrent, TakeId, Enter, RefillFromNext,
       ClearNext, RefillFromTable, RefillFails, CheckNext
<1>3. ASSUME NEW j \in Jvms, TaskAllocates(j) PROVE FlagMatchesTask'
  <2>1. /\ worker[j] = "idle" /\ queued[j] > 0
        /\ queued' = [queued EXCEPT ![j] = queued[j] - 1]
        /\ worker'[j] # "idle"
        /\ \A k \in Jvms : k # j => worker'[k] = worker[k]
        /\ UNCHANGED <<prefetching, down>>
    BY <1>3, <1>t DEF TaskAllocates
  <2> QED
    BY <1>t, <2>1 DEF FlagMatchesTask, Tasks
<1>4. ASSUME NEW j \in Jvms, TaskInstalls(j) PROVE FlagMatchesTask'
    BY <1>4, <1>t DEF TaskInstalls, FlagMatchesTask, Tasks
<1>5. ASSUME NEW j \in Jvms, TaskEnds(j) PROVE FlagMatchesTask'
    BY <1>5, <1>t DEF TaskEnds, FlagAfterTask, FlagMatchesTask, Tasks
<1>6. ASSUME NEW j \in Jvms, Shutdown(j) PROVE FlagMatchesTask'
    BY <1>6, <1>t DEF Shutdown, FlagMatchesTask, Tasks
<1>7. ASSUME NEW j \in Jvms, Crash(j) PROVE FlagMatchesTask'
    BY <1>7, <1>t DEF Crash, FlagMatchesTask, Tasks
<1>8. CASE UNCHANGED vars
    BY <1>1, <1>8 DEF vars
<1> QED
    BY <1>2, <1>3, <1>4, <1>5, <1>6, <1>7, <1>8 DEF Next, TaskStep

\* One range at a time is fetched ahead in each JVM and the flag never stays up
\* without a task, however threads, failed allocations, crashes and restarts
\* interleave; a JVM that is shut down is excepted.
THEOREM FlagMatchesTaskHolds == Spec => []FlagMatchesTask
<1>1. Init => FlagMatchesTask
    BY DEF Init, FlagMatchesTask, Tasks
<1>2. Spec => []Shape
    BY ShapeInit, ShapeStep, PTL DEF Spec
<1> QED
    BY <1>1, <1>2, FlagStep, PTL DEF Spec
=============================================================================
