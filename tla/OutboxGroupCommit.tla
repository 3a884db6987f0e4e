------------------------- MODULE OutboxGroupCommit -------------------------
(***************************************************************************)
(* Acceptance in mode mysql-outbox: the request thread puts its order into *)
(* a bounded queue and waits for a future, writer threads collect orders   *)
(* for a short window and commit them in one transaction.  The handoff in  *)
(* Redis stays until the order is committed, and its relay is the net for  *)
(* whatever this service gives up.                                         *)
(***************************************************************************)
EXTENDS Integers, Sequences, FiniteSets

CONSTANTS
    Requests,       \* admitted orders, each with the thread that sent it
    Refused,        \* orders whose row MySQL refuses
    Writers,
    Capacity,       \* of the queue
    BatchSize,
    MaxFaults       \* bound: failed calls and crashes

ASSUME GroupConstantsOK ==
    /\ Refused \subseteq Requests /\ IsFiniteSet(Requests)
    /\ BatchSize \in Nat \ {0} /\ Capacity \in Nat /\ Capacity >= BatchSize
    /\ MaxFaults \in Nat

VARIABLES
    handoff,        \* members of the ZSet in Redis
    outbox,         \* orders with a committed row
    queue,
    future,         \* PendingAcceptance.result
    pc,             \* where a request thread is
    writer, batch,  \* where a writer is, and its batch
    interrupted,    \* its interrupt flag
    running,
    stopPc,         \* where shutdown is
    faults          \* bound

stores == <<handoff, outbox>>
threads == <<writer, batch, interrupted>>
service == <<running, stopPc>>
vars == <<stores, queue, future, pc, threads, service, faults>>

GroupTypeOK ==
    /\ handoff \subseteq Requests
    /\ outbox \subseteq Requests \ Refused
    /\ queue \in Seq(Requests) /\ Len(queue) <= Capacity
    /\ future \in [Requests -> {"none", "open", "done", "failed"}]
    /\ pc \in [Requests -> {"lua", "offer", "wait", "complete", "SUCCESS", "UNCONFIRMED"}]
    /\ writer \in [Writers -> {"poll", "window", "commit", "reply", "ended"}]
    /\ batch \in [Writers -> Seq(Requests)]
    /\ \A w \in Writers : Len(batch[w]) <= BatchSize
    /\ interrupted \in [Writers -> BOOLEAN]
    /\ running \in BOOLEAN
    /\ stopPc \in {"up", "interrupt", "join", "drain", "down"}
    /\ faults \in 0 .. MaxFaults

Init ==
    /\ handoff = {} /\ outbox = {}
    /\ queue = <<>>
    /\ future = [o \in Requests |-> "none"]
    /\ pc = [o \in Requests |-> "lua"]
    /\ writer = [w \in Writers |-> "poll"]
    /\ batch = [w \in Writers |-> <<>>]
    /\ interrupted = [w \in Writers |-> FALSE]
    /\ running = TRUE /\ stopPc = "up"
    /\ faults = 0

-----------------------------------------------------------------------------
(* The request thread: seckill.lua, accept, completeHandoff. *)

Goto(o, l) == pc' = [pc EXCEPT ![o] = l]

Admit(o) ==
    /\ pc[o] = "lua"
    /\ handoff' = handoff \cup {o}
    /\ Goto(o, "offer")
    /\ UNCHANGED <<outbox, queue, future, threads, service, faults>>

\* Mutant: one more than the capacity.
FullLate == Len(queue) > Capacity

Full == Len(queue) >= Capacity

Offer(o) ==
    /\ pc[o] = "offer"
    /\ ~Full
    /\ queue' = Append(queue, o)
    /\ future' = [future EXCEPT ![o] = "open"]
    /\ Goto(o, "wait")
    /\ UNCHANGED <<stores, threads, service, faults>>

\* The queue stays full, the future stays open or has failed: accept throws, and
\* the answer is that the result is not confirmed.
GiveUp(o) ==
    /\ \/ pc[o] = "offer" /\ Full
       \/ pc[o] = "wait" /\ future[o] # "done"
    /\ Goto(o, "UNCONFIRMED")
    /\ UNCHANGED <<stores, queue, future, threads, service, faults>>

Confirmed(o) ==
    /\ pc[o] = "wait"
    /\ future[o] = "done"
    /\ Goto(o, "complete")
    /\ UNCHANGED <<stores, queue, future, threads, service, faults>>

\* completeHandoff; when Redis fails, the caller hears that nothing is confirmed.
CompleteHandoff(o) ==
    /\ pc[o] = "complete"
    /\ \/ /\ handoff' = handoff \ {o}
          /\ Goto(o, "SUCCESS")
          /\ UNCHANGED faults
       \/ /\ faults < MaxFaults
          /\ faults' = faults + 1
          /\ handoff' \in {handoff, handoff \ {o}}
          /\ Goto(o, "UNCONFIRMED")
    /\ UNCHANGED <<outbox, queue, future, threads, service>>

-----------------------------------------------------------------------------
(* runWriter *)

Step(w, l) == writer' = [writer EXCEPT ![w] = l]
Drop(w) == batch' = [batch EXCEPT ![w] = <<>>]

LoopEnds(w) ==
    /\ writer[w] = "poll"
    /\ ~running
    /\ queue = <<>>
    /\ Step(w, "ended")
    /\ UNCHANGED <<stores, queue, future, pc, batch, interrupted, service, faults>>

Poll(w) ==
    /\ writer[w] = "poll" \/ (writer[w] = "window" /\ Len(batch[w]) < BatchSize)
    /\ ~interrupted[w]
    /\ queue # <<>>
    /\ queue' = Tail(queue)
    /\ batch' = [batch EXCEPT ![w] = Append(@, Head(queue))]
    /\ Step(w, "window")
    /\ UNCHANGED <<stores, future, pc, interrupted, service, faults>>

\* Either poll throws when the thread is interrupted; what is in the batch is
\* forgotten, and its futures with it.
Interrupted(w) ==
    /\ writer[w] = "poll" \/ (writer[w] = "window" /\ Len(batch[w]) < BatchSize)
    /\ interrupted[w]
    /\ interrupted' = [interrupted EXCEPT ![w] = FALSE]
    /\ Drop(w)
    /\ Step(w, "poll")
    /\ UNCHANGED <<stores, queue, future, pc, service, faults>>

\* The batch is full or the window over.
WindowCloses(w) ==
    /\ writer[w] = "window"
    /\ Step(w, "commit")
    /\ UNCHANGED <<stores, queue, future, pc, batch, interrupted, service, faults>>

InBatch(w) == {batch[w][i] : i \in 1 .. Len(batch[w])}

\* insertCommitted
Commit(w) ==
    /\ writer[w] = "commit"
    /\ InBatch(w) \cap Refused = {}
    /\ outbox' = outbox \cup InBatch(w)
    /\ Step(w, "reply")
    /\ UNCHANGED <<handoff, queue, future, pc, batch, interrupted, service, faults>>

\* A future is completed once; later attempts have no effect.
Completed(S, result) ==
    [o \in Requests |-> IF o \in S /\ future[o] = "open" THEN result ELSE future[o]]

\* Mutants: only the first request learns of the failure; or it is taken for done.
FirstLearns(w) == Completed({Head(batch[w])}, "failed")
AllDone(w) == Completed(InBatch(w), "done")

\* fail
AllFail(w) == Completed(InBatch(w), "failed")

\* One refused row, a failed call or the interrupt flag fails the whole batch, be
\* it before or after the commit.
CommitFails(w) ==
    /\ writer[w] = "commit"
    /\ \/ /\ InBatch(w) \cap Refused # {} \/ interrupted[w]
          /\ UNCHANGED <<outbox, faults>>
       \/ /\ faults < MaxFaults
          /\ faults' = faults + 1
          /\ outbox' \in {outbox, outbox \cup (InBatch(w) \ Refused)}
          /\ InBatch(w) \cap Refused = {} \/ outbox' = outbox
    /\ future' = AllFail(w)
    /\ Drop(w)
    /\ Step(w, "poll")
    /\ UNCHANGED <<handoff, queue, pc, interrupted, service>>

Reply(w) ==
    /\ writer[w] = "reply"
    /\ future' = Completed(InBatch(w), "done")
    /\ Drop(w)
    /\ Step(w, "poll")
    /\ UNCHANGED <<stores, queue, pc, interrupted, service, faults>>

-----------------------------------------------------------------------------
(* shutdown, and the death of the process *)

Shutdown ==
    /\ stopPc = "up"
    /\ stopPc' = "interrupt"
    /\ running' = FALSE
    /\ UNCHANGED <<stores, queue, future, pc, threads, faults>>

InterruptWriters ==
    /\ stopPc = "interrupt"
    /\ stopPc' = "join"
    /\ interrupted' = [w \in Writers |-> writer[w] # "ended"]
    /\ UNCHANGED <<stores, queue, future, pc, writer, batch, running, faults>>

\* The writers have ended or the time is up.
Join ==
    /\ stopPc = "join"
    /\ stopPc' = "drain"
    /\ UNCHANGED <<stores, queue, future, pc, threads, running, faults>>

Drain ==
    /\ stopPc = "drain"
    /\ \/ /\ queue = <<>>
          /\ stopPc' = "down"
          /\ UNCHANGED <<queue, future>>
       \/ /\ queue # <<>>
          /\ queue' = Tail(queue)
          /\ future' = Completed({Head(queue)}, "failed")
          /\ UNCHANGED stopPc
    /\ UNCHANGED <<stores, pc, threads, running, faults>>

Answered(o) == pc[o] \in {"SUCCESS", "UNCONFIRMED"}

Crash ==
    /\ faults < MaxFaults
    /\ faults' = faults + 1
    /\ running' = FALSE /\ stopPc' = "down"
    /\ queue' = <<>>
    /\ writer' = [w \in Writers |-> "ended"]
    /\ batch' = [w \in Writers |-> <<>>]
    /\ pc' = [o \in Requests |-> IF pc[o] = "lua" \/ Answered(o) THEN pc[o] ELSE "UNCONFIRMED"]
    /\ UNCHANGED <<stores, future, interrupted>>

-----------------------------------------------------------------------------
(* SeckillOrderHandoffRelay, here or on another instance *)

RelayInsert(o) ==
    /\ o \in handoff \ Refused
    /\ outbox' = outbox \cup {o}
    /\ UNCHANGED <<handoff, queue, future, pc, threads, service, faults>>

\* Mutant: the handoff is cleared before the row is committed.
AnyHandoff(o) == TRUE

Stored(o) == o \in outbox

RelayComplete(o) ==
    /\ o \in handoff
    /\ Stored(o)
    /\ handoff' = handoff \ {o}
    /\ UNCHANGED <<outbox, queue, future, pc, threads, service, faults>>

WriterStep(w) ==
    LoopEnds(w) \/ Poll(w) \/ Interrupted(w) \/ WindowCloses(w) \/ Commit(w) \/ CommitFails(w)
        \/ Reply(w)

Next ==
    \/ \E o \in Requests :
          Admit(o) \/ Offer(o) \/ GiveUp(o) \/ Confirmed(o) \/ CompleteHandoff(o)
              \/ RelayInsert(o) \/ RelayComplete(o)
    \/ \E w \in Writers : WriterStep(w)
    \/ Shutdown \/ InterruptWriters \/ Join \/ Drain \/ Crash

Spec == Init /\ [][Next]_vars

\* Writers run, the relay polls; nothing is assumed of the request threads.
LiveSpec ==
    /\ Spec
    /\ \A w \in Writers : WF_vars(WriterStep(w))
    /\ \A o \in Requests : WF_vars(RelayInsert(o))

-----------------------------------------------------------------------------

\* SUCCESS is answered only when the row is committed, although the futures are
\* completed by other threads, fail as a batch and race the time-out
\* (SeckillOrderOutboxServiceTest: no acknowledgement when the transaction fails).
SuccessIsDurable == \A o \in Requests : pc[o] = "SUCCESS" => o \in outbox

\* Whatever is given up, by a time-out, a dropped batch, a drained queue or a crash,
\* an admitted order stays in the handoff until it is in the outbox.
AdmittedIsKept == \A o \in Requests : pc[o] # "lua" => o \in handoff \cup outbox

\* As long as the service runs nobody depends on the time-out: every queued
\* request gets its result, also behind a row that MySQL refuses.
FuturesComplete ==
    \A o \in Requests : future[o] = "open" ~> (future[o] # "open" \/ ~running)

\* An unconfirmed order reaches the outbox in the end, or is refused by MySQL.
UnconfirmedIsStored ==
    \A o \in Requests \ Refused : pc[o] = "UNCONFIRMED" ~> o \in outbox

Waiting == {o \in Requests : pc[o] = "lua"}

\* The part of SeckillOrder that acceptance replaces, for requests with a user and a
\* unit each; the hash of accepted orders is kept with the handoff.
Pipeline == INSTANCE SeckillOrder
    WITH Users <- Requests, Orders <- Requests, BuyerOf <- [o \in Requests |-> o],
         NoOrder <- "none", Rejected <- Refused, InitStock <- Cardinality(Requests),
         MaxFailed <- 0, Dying <- {},
         stock <- Cardinality(Waiting), purchased <- Requests \ Waiting,
         accepted <- handoff, quarantine <- {}, recovering <- FALSE,
         outbox <- [o \in Requests |-> IF o \in outbox THEN "PENDING" ELSE "none"],
         order <- [o \in Requests |-> "none"], dbStock <- Cardinality(Requests),
         topic <- {}, dlt <- {},
         dltPc <- "idle", dltOrder <- "none", reviewPc <- "idle", reviewOrder <- "none",
         cancelPc <- "idle", cancelOrder <- "none", undone <- {}, unheard <- {},
         leaked <- 0, reopened <- {}, withheld <- {}, blocked <- {}

\* Request threads, writers and the relay together act on Redis and MySQL like the
\* handoff of SeckillOrder: what the writers forget or commit late is no new case.
ImplementsHandoff == Pipeline!Spec
=============================================================================
