--------------------------- MODULE OrderIdSegment ---------------------------
(***************************************************************************)
(* Order ids: every JVM takes ranges [start, end) from the high-water mark *)
(* in tb_id_segment and its threads hand out the ids of the current range, *)
(* while one background task per JVM fetches the next range ahead of need. *)
(* Threads read `current` without a lock and may use a range long replaced.*)
(***************************************************************************)
EXTENDS Integers, Sequences

CONSTANTS
    Jvms,
    Threads,        \* request threads of all JVMs
    JvmOf,          \* the JVM of a thread
    Start,          \* max_id that the migration inserts
    Step,           \* segment-step
    Threshold,      \* prefetchThreshold
    Limit,          \* Long.MAX_VALUE
    MaxAttempts,    \* bound: no call of nextId starts after that many attempts
    MaxFaults       \* bound: failed allocations, shutdowns and crashes

ASSUME ConstantsOK ==
    /\ JvmOf \in [Threads -> Jvms]
    /\ Start \in Nat /\ Step \in Nat \ {0} /\ Limit \in Nat
    /\ Start <= Limit
    /\ Threshold \in Nat
    /\ MaxAttempts \in Nat /\ MaxFaults \in Nat
    /\ "free" \notin Threads

Ids == -Limit - 1 .. Limit

\* References: 0 is null, a is the a-th LocalRange created.
Null == 0

VARIABLES
    maxId,          \* tb_id_segment.max_id
    heap,           \* the LocalRange objects of all JVMs
    current, next,  \* references to LocalRange, per JVM
    prefetching,    \* the AtomicBoolean
    down,           \* the executor is shut down
    monitor,        \* owner of refillMonitor: a thread or "free"
    queued,         \* tasks waiting for the single prefetch thread
    worker,         \* where that thread is
    fetched,        \* its local variable `allocated`
    pc,             \* where a request thread is
    range,          \* its local variable `range`
    id,             \* its local variable `id`
    \* ghosts
    times,          \* how often an id was returned by nextId
    attempts, faults

local == <<pc, range, id>>
shared == <<current, next, prefetching, down, monitor>>
executor == <<queued, worker, fetched>>
vars == <<maxId, heap, shared, executor, local, times, attempts, faults>>

\* LocalRange; the counter is a Java long.
Range == [start : Int, next : Int, end : Int]
Wrap(n) == IF n > Limit THEN -Limit - 1 ELSE n

IdTypeOK ==
    /\ maxId \in Start .. Limit
    /\ heap \in Seq(Range)
    /\ current \in [Jvms -> 0 .. Len(heap)]
    /\ next \in [Jvms -> 0 .. Len(heap)]
    /\ prefetching \in [Jvms -> BOOLEAN]
    /\ down \in [Jvms -> BOOLEAN]
    /\ monitor \in [Jvms -> Threads \cup {"free"}]
    /\ queued \in [Jvms -> Nat]
    /\ worker \in [Jvms -> {"idle", "install", "clear"}]
    /\ fetched \in [Jvms -> 0 .. Len(heap)]
    /\ pc \in [Threads -> {"idle", "read", "take", "enter", "refill", "clear",
                           "check", "swap"}]
    /\ range \in [Threads -> 0 .. Len(heap)]
    /\ id \in [Threads -> Int]
    /\ times \in [Ids -> Nat]
    /\ attempts \in Nat
    /\ faults \in Nat

Init ==
    /\ maxId = Start
    /\ heap = <<>>
    /\ current = [j \in Jvms |-> Null]
    /\ next = [j \in Jvms |-> Null]
    /\ prefetching = [j \in Jvms |-> FALSE]
    /\ down = [j \in Jvms |-> FALSE]
    /\ monitor = [j \in Jvms |-> "free"]
    /\ queued = [j \in Jvms |-> 0]
    /\ worker = [j \in Jvms |-> "idle"]
    /\ fetched = [j \in Jvms |-> Null]
    /\ pc = [t \in Threads |-> "idle"]
    /\ range = [t \in Threads |-> Null]
    /\ id = [t \in Threads |-> 0]
    /\ times = [i \in Ids |-> 0]
    /\ attempts = 0
    /\ faults = 0

-----------------------------------------------------------------------------

Goto(t, l) == pc' = [pc EXCEPT ![t] = l]

Holds(t) == monitor[JvmOf[t]] = t

\* IdSegmentAllocator.allocate: the row lock makes reading and advancing one
\* step; `top` is the mark that the transaction leaves behind.
ExhaustedLate == maxId > Limit    \* mutant: the check forgets the step
Exhausted == maxId > Limit - Step
NewRange == [start |-> maxId, next |-> maxId, end |-> maxId + Step]

\* Mutant: the mark advances by one id less than the range is long.
ShortTop == maxId + Step - 1

Top == maxId + Step

Allocate ==
    /\ ~Exhausted
    /\ maxId' = Top
    /\ heap' = Append(heap, NewRange)

\* The transaction fails, before its commit or after it.
AllocateFails ==
    \/ /\ faults < MaxFaults \/ Exhausted
       /\ faults' = IF Exhausted THEN faults ELSE faults + 1
       /\ UNCHANGED maxId
    \/ /\ faults < MaxFaults
       /\ ~Exhausted
       /\ maxId' = Top
       /\ faults' = faults + 1

-----------------------------------------------------------------------------
(* nextId, one atomic access per step *)

Call(t) ==
    /\ pc[t] = "idle"
    /\ attempts < MaxAttempts
    /\ Goto(t, "read")
    /\ UNCHANGED <<maxId, heap, shared, executor, range, id, times, attempts, faults>>

ReadCurrent(t) ==
    /\ pc[t] = "read"
    /\ range' = [range EXCEPT ![t] = current[JvmOf[t]]]
    /\ Goto(t, IF current[JvmOf[t]] = Null THEN "enter" ELSE "take")
    /\ UNCHANGED <<maxId, heap, shared, executor, id, times, attempts, faults>>

\* nextId returns i; a local that goes out of scope is reset.
Deliver(i) == times' = [times EXCEPT ![i] = @ + 1]

HasRoom(r) == heap[r].next < heap[r].end
Usable(r) == r # Null /\ HasRoom(r)

\* getAndIncrement; an id close to the end starts a prefetch before it is returned.
TakeId(t) ==
    /\ pc[t] = "take"
    /\ attempts' = attempts + 1
    /\ LET r == range[t]
           i == heap[r].next
       IN  /\ heap' = [heap EXCEPT ![r].next = Wrap(@ + 1)]
           /\ \/ /\ ~HasRoom(r)
                 /\ Goto(t, "enter")
                 /\ UNCHANGED <<id, times>>
              \/ /\ HasRoom(r)
                 /\ heap[r].end - i <= Threshold
                 /\ Goto(t, "check")
                 /\ id' = [id EXCEPT ![t] = i]
                 /\ UNCHANGED times
              \/ /\ HasRoom(r)
                 /\ heap[r].end - i > Threshold
                 /\ Goto(t, "idle")
                 /\ Deliver(i)
                 /\ UNCHANGED id
    /\ range' = [range EXCEPT ![t] = Null]
    /\ UNCHANGED <<maxId, shared, executor, faults>>

-----------------------------------------------------------------------------
(* refill *)

\* The monitor is taken; a range that still has ids is left alone.
Enter(t) ==
    LET j == JvmOf[t] IN
    /\ pc[t] = "enter"
    /\ monitor[j] = "free"
    /\ \/ /\ Usable(current[j])
          /\ Goto(t, "read")
          /\ UNCHANGED monitor
       \/ /\ ~Usable(current[j])
          /\ monitor' = [monitor EXCEPT ![j] = t]
          /\ Goto(t, "refill")
    /\ UNCHANGED <<maxId, heap, current, next, prefetching, down, executor, range, id,
                   times, attempts, faults>>

\* current = next
RefillFromNext(t) ==
    LET j == JvmOf[t] IN
    /\ pc[t] = "refill"
    /\ next[j] # Null
    /\ current' = [current EXCEPT ![j] = next[j]]
    /\ Goto(t, "clear")
    /\ UNCHANGED <<maxId, heap, next, prefetching, down, monitor, executor, range, id,
                   times, attempts, faults>>

\* next = null
ClearNext(t) ==
    /\ pc[t] = "clear"
    /\ next' = [next EXCEPT ![JvmOf[t]] = Null]
    /\ Goto(t, "check")
    /\ UNCHANGED <<maxId, heap, current, prefetching, down, monitor, executor, range, id,
                   times, attempts, faults>>

\* current = allocateRange(), with the monitor held
RefillFromTable(t) ==
    LET j == JvmOf[t] IN
    /\ pc[t] = "refill"
    /\ next[j] = Null
    /\ Allocate
    /\ current' = [current EXCEPT ![j] = Len(heap')]
    /\ Goto(t, "check")
    /\ UNCHANGED <<next, prefetching, down, monitor, executor, range, id, times, attempts,
                   faults>>

\* Mutant: an explicit unlock that an exception skips.
KeptOnFailure(j) == monitor[j]

\* The exception leaves the monitor and nextId.
FreedOnFailure(j) == "free"

RefillFails(t) ==
    LET j == JvmOf[t] IN
    /\ pc[t] = "refill"
    /\ next[j] = Null
    /\ AllocateFails
    /\ monitor' = [monitor EXCEPT ![j] = FreedOnFailure(j)]
    /\ Goto(t, "idle")
    /\ UNCHANGED <<heap, current, next, prefetching, down, executor, range, id, times,
                   attempts>>

-----------------------------------------------------------------------------
(* prefetch, called at the end of refill or with an id in hand *)

\* Back to the loop of nextId, or out of nextId with the id.
PrefetchReturns(t) ==
    /\ id' = [id EXCEPT ![t] = 0]
    /\ \/ /\ Holds(t)
          /\ monitor' = [monitor EXCEPT ![JvmOf[t]] = "free"]
          /\ Goto(t, "read")
          /\ UNCHANGED times
       \/ /\ ~Holds(t)
          /\ Goto(t, "idle")
          /\ Deliver(id[t])
          /\ UNCHANGED monitor

\* next != null
CheckNext(t) ==
    /\ pc[t] = "check"
    /\ \/ /\ next[JvmOf[t]] # Null
          /\ PrefetchReturns(t)
       \/ /\ next[JvmOf[t]] = Null
          /\ Goto(t, "swap")
          /\ UNCHANGED <<monitor, id, times>>
    /\ UNCHANGED <<maxId, heap, current, next, prefetching, down, executor, range, attempts,
                   faults>>

\* Mutant: the flag is read, and set too late to keep a second caller out.
MayStartAlways(j) == TRUE

\* prefetching.compareAndSet(false, true)
MayStart(j) == ~prefetching[j]

SwapPrefetching(t) ==
    LET j == JvmOf[t] IN
    /\ pc[t] = "swap"
    /\ \/ /\ ~MayStart(j)
          /\ PrefetchReturns(t)
          /\ UNCHANGED <<prefetching, queued>>
       \/ /\ MayStart(j)
          /\ ~down[j]
          /\ prefetching' = [prefetching EXCEPT ![j] = TRUE]
          /\ queued' = [queued EXCEPT ![j] = @ + 1]
          /\ PrefetchReturns(t)
       \/ /\ MayStart(j)                \* RejectedExecutionException: the id is lost
          /\ down[j]
          /\ prefetching' = [prefetching EXCEPT ![j] = TRUE]
          /\ monitor' = [monitor EXCEPT ![j] = IF Holds(t) THEN "free" ELSE @]
          /\ id' = [id EXCEPT ![t] = 0]
          /\ Goto(t, "idle")
          /\ UNCHANGED <<queued, times>>
    /\ UNCHANGED <<maxId, heap, current, next, down, worker, fetched, range, attempts,
                   faults>>

-----------------------------------------------------------------------------
(* the task of the prefetch thread *)

TaskAllocates(j) ==
    /\ worker[j] = "idle"
    /\ queued[j] > 0
    /\ queued' = [queued EXCEPT ![j] = @ - 1]
    /\ \/ /\ Allocate
          /\ fetched' = [fetched EXCEPT ![j] = Len(heap')]
          /\ worker' = [worker EXCEPT ![j] = "install"]
          /\ UNCHANGED faults
       \/ /\ AllocateFails
          /\ worker' = [worker EXCEPT ![j] = "clear"]
          /\ UNCHANGED <<heap, fetched>>
    /\ UNCHANGED <<shared, local, times, attempts>>

\* if (next == null) next = allocated
Installed(j) == IF next[j] = Null THEN fetched[j] ELSE next[j]

TaskInstalls(j) ==
    /\ worker[j] = "install"
    /\ monitor[j] = "free"
    /\ next' = [next EXCEPT ![j] = Installed(j)]
    /\ worker' = [worker EXCEPT ![j] = "clear"]
    /\ fetched' = [fetched EXCEPT ![j] = Null]
    /\ UNCHANGED <<maxId, heap, current, prefetching, down, monitor, queued, local, times,
                   attempts, faults>>


\* finally
FlagAfterTask(j) == FALSE

TaskEnds(j) ==
    /\ worker[j] = "clear"
    /\ prefetching' = [prefetching EXCEPT ![j] = FlagAfterTask(j)]
    /\ worker' = [worker EXCEPT ![j] = "idle"]
    /\ UNCHANGED <<maxId, heap, current, next, down, monitor, queued, fetched, local, times,
                   attempts, faults>>

-----------------------------------------------------------------------------

\* shutdownNow drops the waiting task, whose flag then stays set.
Shutdown(j) ==
    /\ faults < MaxFaults
    /\ ~down[j]
    /\ faults' = faults + 1
    /\ down' = [down EXCEPT ![j] = TRUE]
    /\ queued' = [queued EXCEPT ![j] = 0]
    /\ UNCHANGED <<maxId, heap, current, next, prefetching, monitor, worker, fetched, local,
                   times, attempts>>

\* The process dies and comes back without its ranges.
Crash(j) ==
    /\ faults < MaxFaults \/ down[j]
    /\ faults' = IF down[j] THEN faults ELSE faults + 1
    /\ current' = [current EXCEPT ![j] = Null]
    /\ next' = [next EXCEPT ![j] = Null]
    /\ prefetching' = [prefetching EXCEPT ![j] = FALSE]
    /\ down' = [down EXCEPT ![j] = FALSE]
    /\ monitor' = [monitor EXCEPT ![j] = "free"]
    /\ queued' = [queued EXCEPT ![j] = 0]
    /\ worker' = [worker EXCEPT ![j] = "idle"]
    /\ fetched' = [fetched EXCEPT ![j] = Null]
    /\ pc' = [t \in Threads |-> IF JvmOf[t] = j THEN "idle" ELSE pc[t]]
    /\ range' = [t \in Threads |-> IF JvmOf[t] = j THEN Null ELSE range[t]]
    /\ id' = [t \in Threads |-> IF JvmOf[t] = j THEN 0 ELSE id[t]]
    /\ UNCHANGED <<maxId, heap, times, attempts>>

ThreadStep(t) ==
    \/ ReadCurrent(t) \/ TakeId(t) \/ Enter(t)
    \/ RefillFromNext(t) \/ ClearNext(t) \/ RefillFromTable(t) \/ RefillFails(t)
    \/ CheckNext(t) \/ SwapPrefetching(t)

TaskStep(j) == TaskAllocates(j) \/ TaskInstalls(j) \/ TaskEnds(j)

Next ==
    \/ \E t \in Threads : Call(t) \/ ThreadStep(t)
    \/ \E j \in Jvms : TaskStep(j) \/ Shutdown(j) \/ Crash(j)

Spec == Init /\ [][Next]_vars

\* Threads run, and the executor runs what it accepted.
LiveSpec ==
    /\ Spec
    /\ \A t \in Threads : WF_vars(ThreadStep(t)) /\ SF_vars(Enter(t))
    /\ \A j \in Jvms : WF_vars(TaskStep(j)) /\ SF_vars(TaskInstalls(j))

-----------------------------------------------------------------------------

\* No id is returned twice, by one JVM or by two, whatever crashes in between
\* (README: a crashed instance leaves gaps, never a conflict).
IdsUnique == \A i \in Ids : times[i] <= 1

\* The flag is up exactly while a task waits or runs: two tasks would fetch two
\* ranges, and a flag left up would end prefetching for good.
Tasks(j) == queued[j] + (IF worker[j] = "idle" THEN 0 ELSE 1)
FlagMatchesTask ==
    \A j \in Jvms : ~down[j] => Tasks(j) = (IF prefetching[j] THEN 1 ELSE 0)

\* Every call of nextId ends, with an id or an exception: nobody waits for a
\* monitor or retries for ever.
CallsEnd == \A t \in Threads : pc[t] # "idle" ~> pc[t] = "idle"
=============================================================================
