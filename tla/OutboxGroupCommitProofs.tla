---------------------- MODULE OutboxGroupCommitProofs -----------------------
(***************************************************************************)
(* Group commit acknowledges only what is committed and gives up only what *)
(* the handoff still lists, for any number of requests and writers, every  *)
(* capacity and batch size, and any sequence of failures.                  *)
(***************************************************************************)
EXTENDS OutboxGroupCommit, FiniteSetTheorems, TLAPS

\* A result that says "committed" is in the outbox, from the writer that has
\* committed its batch to the thread that removes the handoff.
Durable ==
    /\ \A w \in Writers : writer[w] = "reply" => InBatch(w) \subseteq outbox
    /\ \A o \in Requests :
          /\ future[o] = "done" => o \in outbox
          /\ pc[o] \in {"complete", "SUCCESS"} => o \in outbox

\* A writer that waits for its first request has nothing in hand.
IdleIsEmpty == \A w \in Writers : writer[w] \in {"poll", "ended"} => batch[w] = <<>>

GroupInv == GroupTypeOK /\ Durable /\ AdmittedIsKept /\ IdleIsEmpty

LEMMA GroupInit == Init => GroupInv
BY GroupConstantsOK DEF Init, GroupInv, GroupTypeOK, Durable, AdmittedIsKept, IdleIsEmpty, InBatch

\* A batch holds requests.
LEMMA BatchOK ==
    ASSUME GroupTypeOK, NEW w \in Writers
    PROVE  InBatch(w) \subseteq Requests
BY DEF GroupTypeOK, InBatch

\* Completing futures keeps their type, and what is done stays done.
LEMMA CompletedOK ==
    ASSUME GroupTypeOK, NEW S \in SUBSET Requests, NEW r \in {"done", "failed"}
    PROVE  /\ Completed(S, r) \in [Requests -> {"none", "open", "done", "failed"}]
           /\ \A o \in Requests :
                 Completed(S, r)[o] = "done" => future[o] = "done" \/ (o \in S /\ r = "done")
BY DEF GroupTypeOK, Completed

LEMMA RequestStep ==
    ASSUME GroupInv, NEW o \in Requests,
           \/ Admit(o) \/ Offer(o) \/ GiveUp(o) \/ Confirmed(o) \/ CompleteHandoff(o)
           \/ RelayInsert(o) \/ RelayComplete(o)
    PROVE  GroupInv'
<1> USE DEF GroupInv, Goto, stores, threads, service
<1>1. CASE Admit(o)
    BY <1>1 DEF Admit, GroupTypeOK, Durable, AdmittedIsKept, IdleIsEmpty, InBatch
<1>2. CASE Offer(o)
  <2>1. queue' \in Seq(Requests) /\ Len(queue') <= Capacity
    BY <1>2, GroupConstantsOK DEF Offer, Full, GroupTypeOK
  <2>2. future' \in [Requests -> {"none", "open", "done", "failed"}]
        /\ \A p \in Requests : future'[p] = "done" => future[p] = "done"
    BY <1>2 DEF Offer, GroupTypeOK
  <2>3. pc' = [pc EXCEPT ![o] = "wait"] /\ pc[o] = "offer"
    BY <1>2 DEF Offer
  <2>4. UNCHANGED <<handoff, outbox, writer, batch, interrupted, running, stopPc, faults>>
    BY <1>2 DEF Offer
  <2> QED
    BY <2>1, <2>2, <2>3, <2>4 DEF GroupTypeOK, Durable, AdmittedIsKept, IdleIsEmpty, InBatch
<1>3. CASE GiveUp(o)
    BY <1>3 DEF GiveUp, GroupTypeOK, Durable, AdmittedIsKept, IdleIsEmpty, InBatch
<1>4. CASE Confirmed(o)
    BY <1>4 DEF Confirmed, GroupTypeOK, Durable, AdmittedIsKept, IdleIsEmpty, InBatch
<1>5. CASE CompleteHandoff(o)
  <2>1. handoff' \in {handoff, handoff \ {o}} /\ faults' \in 0 .. MaxFaults
    BY <1>5, GroupConstantsOK DEF CompleteHandoff, GroupTypeOK
  <2>2. pc[o] = "complete" /\ pc' \in {[pc EXCEPT ![o] = "SUCCESS"], [pc EXCEPT ![o] = "UNCONFIRMED"]}
    BY <1>5 DEF CompleteHandoff
  <2>3. UNCHANGED <<outbox, queue, future, writer, batch, interrupted, running, stopPc>>
    BY <1>5 DEF CompleteHandoff
  <2>4. pc' \in [Requests -> {"lua", "offer", "wait", "complete", "SUCCESS", "UNCONFIRMED"}]
        /\ \A p \in Requests \ {o} : pc'[p] = pc[p]
    BY <2>2 DEF GroupTypeOK
  <2>5. o \in outbox
    BY <2>2 DEF Durable
  <2>6. GroupTypeOK'
    BY <2>1, <2>3, <2>4 DEF GroupTypeOK
  <2>7. Durable'
    BY <2>3, <2>4, <2>5 DEF Durable, InBatch
  <2>8. AdmittedIsKept'
    BY <2>1, <2>3, <2>4, <2>5 DEF AdmittedIsKept
  <2>9. IdleIsEmpty'
    BY <2>3 DEF IdleIsEmpty
  <2> QED
    BY <2>6, <2>7, <2>8, <2>9
<1>6. CASE RelayInsert(o)
    BY <1>6 DEF RelayInsert, GroupTypeOK, Durable, AdmittedIsKept, IdleIsEmpty, InBatch
<1>7. CASE RelayComplete(o)
    BY <1>7 DEF RelayComplete, Stored, GroupTypeOK, Durable, AdmittedIsKept, IdleIsEmpty, InBatch
<1> QED
    BY <1>1, <1>2, <1>3, <1>4, <1>5, <1>6, <1>7

\* A writer that goes on with its batch unchanged, or with none.
LEMMA WriterMoves ==
    ASSUME GroupInv, NEW w \in Writers,
           NEW l \in {"poll", "window", "commit", "ended"}, Step(w, l),
           UNCHANGED <<handoff, pc>>, outbox' \in SUBSET (Requests \ Refused), outbox \subseteq outbox',
           queue' \in Seq(Requests), Len(queue') <= Capacity,
           future' \in [Requests -> {"none", "open", "done", "failed"}],
           \A o \in Requests : future'[o] = "done" => future[o] = "done",
           batch' \in [Writers -> Seq(Requests)],
           \A v \in Writers : Len(batch'[v]) <= BatchSize,
           \A v \in Writers \ {w} : batch'[v] = batch[v],
           l \in {"poll", "ended"} => batch'[w] = <<>>,
           interrupted' \in [Writers -> BOOLEAN], UNCHANGED service, faults' \in 0 .. MaxFaults
    PROVE  GroupInv'
<1>1. GroupTypeOK'
    BY DEF GroupInv, GroupTypeOK, Step, service
<1>2. Durable'
  <2>1. ASSUME NEW v \in Writers, writer'[v] = "reply" PROVE InBatch(v)' \subseteq outbox'
    <3>1. v # w /\ writer[v] = "reply"
      BY <2>1 DEF GroupInv, GroupTypeOK, Step
    <3> QED
      BY <3>1 DEF GroupInv, Durable, InBatch
  <2>2. ASSUME NEW o \in Requests
        PROVE  /\ future'[o] = "done" => o \in outbox'
               /\ pc'[o] \in {"complete", "SUCCESS"} => o \in outbox'
    BY DEF GroupInv, Durable
  <2> QED
    BY <2>1, <2>2 DEF Durable
<1>3. AdmittedIsKept'
    BY DEF GroupInv, AdmittedIsKept
<1>4. IdleIsEmpty'
  <2>1. writer' = [writer EXCEPT ![w] = l] /\ writer \in [Writers -> {"poll", "window", "commit", "reply", "ended"}]
    BY DEF GroupInv, GroupTypeOK, Step
  <2> QED
    BY <2>1 DEF GroupInv, IdleIsEmpty
<1> QED
    BY <1>1, <1>2, <1>3, <1>4 DEF GroupInv

LEMMA WriterSteps ==
    ASSUME GroupInv, NEW w \in Writers, WriterStep(w)
    PROVE  GroupInv'
<1>t. /\ GroupTypeOK
      /\ outbox \in SUBSET (Requests \ Refused) /\ InBatch(w) \subseteq Requests
      /\ queue \in Seq(Requests) /\ Len(queue) <= Capacity
      /\ future \in [Requests -> {"none", "open", "done", "failed"}]
      /\ batch \in [Writers -> Seq(Requests)]
      /\ \A v \in Writers : Len(batch[v]) <= BatchSize
      /\ interrupted \in [Writers -> BOOLEAN] /\ faults \in 0 .. MaxFaults
    BY BatchOK DEF GroupInv, GroupTypeOK
<1>d. Drop(w) => /\ batch' \in [Writers -> Seq(Requests)]
                 /\ \A v \in Writers : Len(batch'[v]) <= BatchSize
                 /\ \A v \in Writers \ {w} : batch'[v] = batch[v]
                 /\ batch'[w] = <<>>
    BY <1>t, GroupConstantsOK DEF Drop
<1> USE DEF stores, service
<1>1. CASE LoopEnds(w)
  <2>1. batch[w] = <<>>
    BY <1>1 DEF LoopEnds, GroupInv, IdleIsEmpty
  <2> QED
    BY <1>1, <1>t, <2>1, WriterMoves DEF LoopEnds
<1>2. CASE Poll(w)
  <2>1. queue # <<>> /\ queue' = Tail(queue) /\ batch' = [batch EXCEPT ![w] = Append(@, Head(queue))]
    BY <1>2 DEF Poll
  <2>2. Head(queue) \in Requests /\ queue' \in Seq(Requests) /\ Len(queue') <= Capacity
    BY <1>t, <2>1, GroupConstantsOK
  <2>3. Len(batch[w]) < BatchSize
    <3>1. writer[w] = "poll" => batch[w] = <<>>
      BY DEF GroupInv, IdleIsEmpty
    <3> QED
      BY <1>2, <3>1, GroupConstantsOK DEF Poll
  <2>4. /\ batch' \in [Writers -> Seq(Requests)]
        /\ \A v \in Writers : Len(batch'[v]) <= BatchSize
        /\ \A v \in Writers \ {w} : batch'[v] = batch[v]
    BY <1>t, <2>1, <2>2, <2>3, GroupConstantsOK
  <2> QED
    BY <1>2, <1>t, <2>2, <2>4, WriterMoves DEF Poll
<1>3. CASE Interrupted(w)
    BY <1>3, <1>t, <1>d, WriterMoves DEF Interrupted
<1>4. CASE WindowCloses(w)
    BY <1>4, <1>t, WriterMoves DEF WindowCloses
<1>5. CASE Commit(w)
  <2>1. outbox' = outbox \cup InBatch(w) /\ outbox' \subseteq Requests \ Refused
    BY <1>5, <1>t DEF Commit
  <2>2. writer' = [writer EXCEPT ![w] = "reply"]
    BY <1>5 DEF Commit, Step
  <2>3. UNCHANGED <<handoff, queue, future, pc, batch, interrupted, running, stopPc, faults>>
    BY <1>5 DEF Commit
  <2> QED
    BY <2>1, <2>2, <2>3 DEF GroupInv, GroupTypeOK, Durable, AdmittedIsKept, IdleIsEmpty, InBatch
<1>6. CASE CommitFails(w)
  <2>1. outbox' \in SUBSET (Requests \ Refused) /\ outbox \subseteq outbox' /\ faults' \in 0 .. MaxFaults
    BY <1>6, <1>t, GroupConstantsOK DEF CommitFails
  <2>2. /\ future' \in [Requests -> {"none", "open", "done", "failed"}]
        /\ \A o \in Requests : future'[o] = "done" => future[o] = "done"
    BY <1>6, <1>t, CompletedOK DEF CommitFails, AllFail
  <2> QED
    BY <1>6, <1>t, <1>d, <2>1, <2>2, WriterMoves DEF CommitFails
<1>7. CASE Reply(w)
  <2>1. InBatch(w) \subseteq outbox
    BY <1>7 DEF Reply, GroupInv, Durable
  <2>2. /\ future' \in [Requests -> {"none", "open", "done", "failed"}]
        /\ \A o \in Requests : future'[o] = "done" => future[o] = "done" \/ o \in InBatch(w)
    BY <1>7, <1>t, CompletedOK DEF Reply
  <2>3. writer' = [writer EXCEPT ![w] = "poll"] /\ batch' = [batch EXCEPT ![w] = <<>>]
    BY <1>7 DEF Reply, Step, Drop
  <2>4. UNCHANGED <<handoff, outbox, queue, pc, interrupted, running, stopPc, faults>>
    BY <1>7 DEF Reply
  <2>5. batch' \in [Writers -> Seq(Requests)] /\ \A v \in Writers : Len(batch'[v]) <= BatchSize
    BY <1>d, <2>3 DEF Drop
  <2>6. GroupTypeOK'
    BY <2>2, <2>3, <2>4, <2>5 DEF GroupInv, GroupTypeOK
  <2>7. Durable'
    BY <2>1, <2>2, <2>3, <2>4 DEF GroupInv, GroupTypeOK, Durable, InBatch
  <2>8. AdmittedIsKept'
    BY <2>4 DEF GroupInv, AdmittedIsKept
  <2>9. IdleIsEmpty'
    BY <2>3, <1>t DEF GroupInv, GroupTypeOK, IdleIsEmpty
  <2> QED
    BY <2>6, <2>7, <2>8, <2>9 DEF GroupInv
<1> QED
    BY <1>1, <1>2, <1>3, <1>4, <1>5, <1>6, <1>7 DEF WriterStep

LEMMA GroupStep == GroupInv /\ [Next]_vars => GroupInv'
<1> SUFFICES ASSUME GroupInv, [Next]_vars PROVE GroupInv'
    OBVIOUS
<1> USE DEF GroupInv, stores, threads, service
<1>1. CASE Shutdown \/ InterruptWriters \/ Join
    BY <1>1 DEF Shutdown, InterruptWriters, Join, GroupTypeOK, Durable, AdmittedIsKept, IdleIsEmpty, InBatch
<1>2. CASE Drain
  <2>1. queue' \in Seq(Requests) /\ Len(queue') <= Capacity
    <3>1. queue' = queue \/ (queue # <<>> /\ queue' = Tail(queue))
      BY <1>2 DEF Drain
    <3>2. queue \in Seq(Requests) /\ Len(queue) <= Capacity
      BY DEF GroupTypeOK
    <3> QED
      BY <3>1, <3>2, GroupConstantsOK
  <2>2. /\ future' \in [Requests -> {"none", "open", "done", "failed"}]
        /\ \A o \in Requests : future'[o] = "done" => future[o] = "done"
    <3>1. CASE queue = <<>>
      BY <1>2, <3>1 DEF Drain, GroupTypeOK
    <3>2. CASE queue # <<>>
      <4>1. {Head(queue)} \in SUBSET Requests
        BY <3>2 DEF GroupTypeOK
      <4> QED
        BY <1>2, <3>2, <4>1, CompletedOK DEF Drain
    <3> QED
      BY <3>1, <3>2
  <2>3. stopPc' \in {stopPc, "down"}
        /\ UNCHANGED <<handoff, outbox, pc, writer, batch, interrupted, running, faults>>
    BY <1>2 DEF Drain
  <2> QED
    BY <2>1, <2>2, <2>3 DEF GroupTypeOK, Durable, AdmittedIsKept, IdleIsEmpty, InBatch
<1>3. CASE Crash
  <2>1. /\ queue' = <<>> /\ running' = FALSE /\ stopPc' = "down" /\ faults' \in 0 .. MaxFaults
        /\ UNCHANGED <<handoff, outbox, future, interrupted>>
    BY <1>3, GroupConstantsOK DEF Crash, GroupTypeOK
  <2>2. writer' = [w \in Writers |-> "ended"] /\ batch' = [w \in Writers |-> <<>>]
    BY <1>3 DEF Crash
  <2>3. /\ pc' \in [Requests -> {"lua", "offer", "wait", "complete", "SUCCESS", "UNCONFIRMED"}]
        /\ \A o \in Requests : pc'[o] # "UNCONFIRMED" => pc'[o] = pc[o]
        /\ \A o \in Requests : pc[o] = "lua" => pc'[o] = "lua"
    BY <1>3 DEF Crash, Answered, GroupTypeOK
  <2>4. queue' \in Seq(Requests) /\ Len(queue') <= Capacity
    BY <2>1, GroupConstantsOK
  <2>5. batch' \in [Writers -> Seq(Requests)] /\ \A w \in Writers : Len(batch'[w]) <= BatchSize
    BY <2>2, GroupConstantsOK
  <2>6. writer' \in [Writers -> {"poll", "window", "commit", "reply", "ended"}]
    BY <2>2
  <2>7. GroupTypeOK'
    BY <2>1, <2>3, <2>4, <2>5, <2>6 DEF GroupTypeOK
  <2>8. Durable'
    BY <2>1, <2>2, <2>3 DEF Durable
  <2>9. AdmittedIsKept' /\ IdleIsEmpty'
    BY <2>1, <2>2, <2>3 DEF AdmittedIsKept, IdleIsEmpty
  <2> QED
    BY <2>7, <2>8, <2>9
<1>4. CASE UNCHANGED vars
    BY <1>4 DEF vars, GroupTypeOK, Durable, AdmittedIsKept, IdleIsEmpty, InBatch
<1> QED
    BY <1>1, <1>2, <1>3, <1>4, RequestStep, WriterSteps DEF Next

LEMMA GroupInvHolds == Spec => []GroupInv
BY GroupInit, GroupStep, PTL DEF Spec

\* Queue and batches keep their bounds under any number of concurrent requests.
THEOREM GroupTypeCorrect == Spec => []GroupTypeOK
BY GroupInvHolds, PTL DEF GroupInv

\* SUCCESS is answered for committed rows only.
THEOREM SuccessIsDurableHolds == Spec => []SuccessIsDurable
<1>1. GroupInv => SuccessIsDurable
    BY DEF GroupInv, Durable, SuccessIsDurable
<1> QED
    BY <1>1, GroupInvHolds, PTL

\* An admitted order is in the handoff or in the outbox at any time.
THEOREM AdmittedIsKeptHolds == Spec => []AdmittedIsKept
BY GroupInvHolds, PTL DEF GroupInv

-----------------------------------------------------------------------------
(***************************************************************************)
(* Acceptance implements the handoff of SeckillOrder: a committed batch is *)
(* one insert of those members that still wait in the handoff.  For that   *)
(* nothing in the queue, a batch or a store may be ahead of its admission. *)
(***************************************************************************)

Sent == {o \in Requests : pc[o] # "lua"}

Placed ==
    /\ handoff \cup outbox \subseteq Sent
    /\ queue \in Seq(Sent)
    /\ \A w \in Writers : batch[w] \in Seq(Sent)

LEMMA SeqGrows ==
    ASSUME NEW S, NEW T, S \subseteq T
    PROVE  Seq(S) \subseteq Seq(T)
OBVIOUS

LEMMA PlacedInit == Init => Placed
BY DEF Init, Placed

\* No thread goes back to its script: what was placed stays placed.
LEMMA PlacedGrows ==
    ASSUME Placed, \A o \in Requests : pc'[o] = "lua" => pc[o] = "lua",
           handoff' \cup outbox' \subseteq Sent', queue' \in Seq(Sent) \cup Seq(Sent'),
           \A w \in Writers : batch'[w] = batch[w] \/ batch'[w] \in Seq(Sent) \cup Seq(Sent')
    PROVE  Placed'
<1>1. Sent \subseteq Sent'
  BY DEF Sent
<1>2. Seq(Sent) \subseteq Seq(Sent')
  BY <1>1, SeqGrows
<1> QED BY <1>2 DEF Placed

LEMMA PlacedStep ==
    ASSUME GroupInv, Placed, [Next]_vars
    PROVE  Placed'
<1>t. /\ pc \in [Requests -> {"lua", "offer", "wait", "complete", "SUCCESS", "UNCONFIRMED"}]
      /\ handoff \cup outbox \subseteq Sent /\ queue \in Seq(Sent)
      /\ batch \in [Writers -> Seq(Requests)] /\ \A w \in Writers : batch[w] \in Seq(Sent)
      /\ handoff \subseteq Requests
  BY DEF GroupInv, GroupTypeOK, Placed
<1>s. ASSUME \A o \in Requests : pc'[o] = "lua" => pc[o] = "lua"
      PROVE  Sent \subseteq Sent'
  BY <1>s DEF Sent
<1>e. <<>> \in Seq(Sent)
  OBVIOUS
<1>b. \A w \in Writers : InBatch(w) \subseteq Sent
  BY <1>t DEF InBatch
<1>d. ASSUME NEW w \in Writers, Drop(w)
      PROVE  \A v \in Writers : batch'[v] = batch[v] \/ batch'[v] \in Seq(Sent) \cup Seq(Sent')
  BY <1>d, <1>e, <1>t DEF Drop
<1> USE DEF Goto, stores, threads
<1>1. ASSUME NEW o \in Requests, Offer(o) PROVE Placed'
  <2>1. \A p \in Requests : pc'[p] = "lua" => pc[p] = "lua"
    BY <1>1, <1>t DEF Offer
  <2>2. Sent \subseteq Sent'
    BY <2>1, <1>s
  <2>3. o \in Sent
    BY <1>1 DEF Offer, Sent
  <2>4. queue' \in Seq(Sent)
    BY <1>1, <1>t, <2>3 DEF Offer
  <2> QED BY <1>1, <1>t, <2>1, <2>2, <2>4, PlacedGrows DEF Offer
<1>2. ASSUME NEW o \in Requests,
             Admit(o) \/ GiveUp(o) \/ Confirmed(o) \/ CompleteHandoff(o) \/ RelayInsert(o)
                \/ RelayComplete(o)
      PROVE  Placed'
  <2>1. \A p \in Requests : pc'[p] = "lua" => pc[p] = "lua"
    BY <1>2, <1>t DEF Admit, GiveUp, Confirmed, CompleteHandoff, RelayInsert, RelayComplete
  <2>2. Sent \subseteq Sent'
    BY <2>1, <1>s
  <2>3. UNCHANGED <<queue, batch>>
    BY <1>2 DEF Admit, GiveUp, Confirmed, CompleteHandoff, RelayInsert, RelayComplete
  <2>4. CASE Admit(o)
    <3>1. o \in Sent'
      BY <2>4, <1>t DEF Admit, Sent
    <3> QED BY <2>1, <2>2, <2>3, <2>4, <3>1, <1>t, PlacedGrows DEF Admit
  <2>5. CASE GiveUp(o) \/ Confirmed(o)
    <3>1. UNCHANGED <<handoff, outbox>>
      BY <2>5 DEF GiveUp, Confirmed
    <3> QED BY <2>1, <2>2, <2>3, <3>1, <1>t, PlacedGrows
  <2>6. CASE CompleteHandoff(o) \/ RelayComplete(o)
    <3>1. handoff' \subseteq handoff /\ outbox' = outbox
      BY <2>6 DEF CompleteHandoff, RelayComplete
    <3> QED BY <2>1, <2>2, <2>3, <3>1, <1>t, PlacedGrows
  <2>7. CASE RelayInsert(o)
    <3>1. handoff' = handoff /\ outbox' = outbox \cup {o} /\ o \in handoff
      BY <2>7 DEF RelayInsert
    <3> QED BY <2>1, <2>2, <2>3, <3>1, <1>t, PlacedGrows
  <2> QED BY <1>2, <2>4, <2>5, <2>6, <2>7
<1>3. ASSUME NEW w \in Writers, WriterStep(w) PROVE Placed'
  <2>1. UNCHANGED <<handoff, pc>>
    BY <1>3 DEF WriterStep, LoopEnds, Poll, Interrupted, WindowCloses, Commit, CommitFails, Reply
  <2>2. Sent' = Sent
    BY <2>1 DEF Sent
  <2>3. outbox' \subseteq outbox \cup InBatch(w)
    BY <1>3 DEF WriterStep, LoopEnds, Poll, Interrupted, WindowCloses, Commit, CommitFails, Reply
  <2>4. CASE Poll(w)
    <3>1. queue' \in Seq(Sent) /\ Head(queue) \in Sent
      BY <2>4, <1>t DEF Poll
    <3>2. batch' = [batch EXCEPT ![w] = Append(@, Head(queue))]
      BY <2>4 DEF Poll
    <3>3. \A v \in Writers : batch'[v] = batch[v] \/ batch'[v] \in Seq(Sent) \cup Seq(Sent')
      BY <3>1, <3>2, <1>t
    <3> QED BY <2>1, <2>2, <2>4, <3>1, <3>3, <1>t, PlacedGrows DEF Poll
  <2>5. CASE LoopEnds(w) \/ Interrupted(w) \/ WindowCloses(w) \/ Commit(w) \/ CommitFails(w) \/ Reply(w)
    <3>1. UNCHANGED queue /\ (UNCHANGED batch \/ Drop(w))
      BY <2>5 DEF LoopEnds, Interrupted, WindowCloses, Commit, CommitFails, Reply
    <3> QED BY <2>1, <2>2, <2>3, <3>1, <1>b, <1>d, <1>t, PlacedGrows
  <2> QED BY <1>3, <2>4, <2>5 DEF WriterStep
<1>4. CASE Shutdown \/ InterruptWriters \/ Join \/ Drain \/ UNCHANGED vars
  <2>1. UNCHANGED <<handoff, outbox, pc, batch>>
    BY <1>4 DEF Shutdown, InterruptWriters, Join, Drain, vars
  <2>2. queue' = queue \/ (queue # <<>> /\ queue' = Tail(queue))
    BY <1>4 DEF Shutdown, InterruptWriters, Join, Drain, vars
  <2>3. queue' \in Seq(Sent) /\ Sent' = Sent
    BY <2>1, <2>2, <1>t DEF Sent
  <2> QED BY <2>1, <2>3, <1>t, PlacedGrows
<1>5. CASE Crash
  <2>1. /\ UNCHANGED <<handoff, outbox>> /\ queue' = <<>> /\ \A w \in Writers : batch'[w] = <<>>
        /\ \A p \in Requests : pc'[p] = "lua" => pc[p] = "lua"
    BY <1>5, <1>t DEF Crash
  <2>2. Sent \subseteq Sent'
    BY <2>1, <1>s
  <2> QED BY <2>1, <2>2, <1>e, <1>t, PlacedGrows
<1> QED BY <1>1, <1>2, <1>3, <1>4, <1>5 DEF Next

\* Nothing the pipeline sees has changed.
Silent == UNCHANGED <<handoff, outbox, Waiting>>

LEMMA SilentStep ==
    ASSUME Silent
    PROVE  UNCHANGED Pipeline!vars
BY DEF Silent, Pipeline!vars, Pipeline!redisVars, Pipeline!dbVars, Pipeline!kafkaVars,
       Pipeline!retryVars, Pipeline!cancelVars

\* A thread that has left its script does not change who waits for it.
LEMMA StillWaiting ==
    ASSUME GroupInv,
           \/ UNCHANGED pc
           \/ \E o \in Requests : /\ pc[o] # "lua"
                                  /\ \E l \in {"wait", "complete", "SUCCESS", "UNCONFIRMED"} : Goto(o, l)
    PROVE  UNCHANGED Waiting
BY DEF Waiting, Goto, GroupInv, GroupTypeOK

LEMMA PipelineAdmit ==
    ASSUME GroupInv, Placed, NEW o \in Requests, Admit(o)
    PROVE  Pipeline!Seckill(o)
<1>1. Waiting' = Waiting \ {o} /\ o \in Waiting /\ Waiting \subseteq Requests
  BY DEF Admit, Goto, Waiting, GroupInv, GroupTypeOK
<1>2. Cardinality(Waiting) > 0 /\ Cardinality(Waiting') = Cardinality(Waiting) - 1
  <2>1. IsFiniteSet(Waiting)
    BY <1>1, GroupConstantsOK, FS_Subset
  <2>2. Cardinality(Waiting) \in Nat /\ Cardinality(Waiting) # 0
    BY <1>1, <2>1, FS_CardinalityType, FS_EmptySet
  <2>3. Cardinality(Waiting \ {o}) = Cardinality(Waiting) - 1
    BY <1>1, <2>1, FS_RemoveElement
  <2>4. Cardinality(Waiting) > 0
    BY <2>2
  <2> QED BY <1>1, <2>3, <2>4, Zenon
<1>3. o \notin handoff \cup outbox
  BY <1>1 DEF Placed, Sent, Waiting
<1>4. o \notin Pipeline!Admitted
  BY <1>3 DEF Pipeline!Admitted
<1>5. (Requests \ Waiting)' = (Requests \ Waiting) \cup {o} /\ o \notin Requests \ Waiting
  BY <1>1
<1> QED
  BY <1>2, <1>4, <1>5
  DEF Admit, Pipeline!Seckill, Pipeline!Admissible, Pipeline!dbVars, Pipeline!kafkaVars,
      Pipeline!retryVars, Pipeline!cancelVars

LEMMA InsertOfBatch ==
    ASSUME NEW B \in (SUBSET handoff) \ {{}}, B \subseteq handoff \ Refused, handoff \subseteq Requests,
           outbox' = outbox \cup B, UNCHANGED <<handoff, Waiting>>
    PROVE  Pipeline!Next
<1>1. Pipeline!HandoffInsert(B)
  BY DEF Pipeline!HandoffInsert, Pipeline!redisVars, Pipeline!kafkaVars, Pipeline!retryVars,
         Pipeline!cancelVars
<1> QED BY <1>1 DEF Pipeline!Next, Pipeline!Transport

\* Whatever of the batch has left the handoff has its row already.
LEMMA PipelineInsert ==
    ASSUME GroupInv, NEW B, B \subseteq Sent \ Refused,
           outbox' = outbox \cup B, UNCHANGED <<handoff, Waiting>>
    PROVE  [Pipeline!Next]_(Pipeline!vars)
<1> DEFINE C == B \cap handoff
<1>1. B \ handoff \subseteq outbox
  BY DEF GroupInv, AdmittedIsKept, Sent
<1>2. C \in SUBSET handoff /\ C \subseteq handoff \ Refused /\ outbox' = outbox \cup C
      /\ handoff \subseteq Requests
  BY <1>1 DEF GroupInv, GroupTypeOK
<1>3. CASE C = {}
  BY <1>2, <1>3, SilentStep DEF Silent
<1>4. CASE C # {}
  BY <1>2, <1>4, InsertOfBatch
<1> QED BY <1>3, <1>4

LEMMA PipelineComplete ==
    ASSUME GroupInv, NEW o \in outbox, handoff' = handoff \ {o}, UNCHANGED <<outbox, Waiting>>
    PROVE  [Pipeline!Next]_(Pipeline!vars)
<1>1. CASE o \notin handoff
  BY <1>1, SilentStep DEF Silent
<1>2. CASE o \in handoff
  <2>1. Pipeline!Stored({o})
    BY DEF Pipeline!Stored, GroupInv, GroupTypeOK
  <2>2. Pipeline!HandoffComplete({o})
    BY <1>2, <2>1
    DEF Pipeline!HandoffComplete, Pipeline!dbVars, Pipeline!kafkaVars, Pipeline!retryVars,
        Pipeline!cancelVars
  <2>3. {o} \in (SUBSET handoff) \ {{}}
    BY <1>2
  <2> QED BY <2>2, <2>3 DEF Pipeline!Next, Pipeline!Transport
<1> QED BY <1>1, <1>2

LEMMA PipelineRequest ==
    ASSUME GroupInv, Placed, NEW o \in Requests,
           \/ Admit(o) \/ Offer(o) \/ GiveUp(o) \/ Confirmed(o) \/ CompleteHandoff(o)
           \/ RelayInsert(o) \/ RelayComplete(o)
    PROVE  [Pipeline!Next]_(Pipeline!vars)
<1>1. CASE Admit(o)
  BY <1>1, PipelineAdmit DEF Pipeline!Next
<1>2. CASE Offer(o) \/ GiveUp(o) \/ Confirmed(o)
  <2>1. UNCHANGED Waiting
    BY <1>2, StillWaiting DEF Offer, GiveUp, Confirmed, Goto
  <2> QED BY <1>2, <2>1, SilentStep DEF Offer, GiveUp, Confirmed, stores, Silent
<1>3. CASE CompleteHandoff(o)
  <2>1. UNCHANGED Waiting
    BY <1>3, StillWaiting DEF CompleteHandoff, Goto
  <2>2. o \in outbox
    BY <1>3 DEF CompleteHandoff, GroupInv, Durable
  <2>3. CASE handoff' = handoff
    BY <1>3, <2>1, <2>3, SilentStep DEF CompleteHandoff, Silent
  <2>4. CASE handoff' = handoff \ {o}
    BY <1>3, <2>1, <2>2, <2>4, PipelineComplete DEF CompleteHandoff
  <2> QED BY <1>3, <2>3, <2>4 DEF CompleteHandoff
<1>4. CASE RelayInsert(o)
  <2>1. UNCHANGED Waiting
    BY <1>4, StillWaiting DEF RelayInsert
  <2>2. {o} \subseteq Sent \ Refused
    BY <1>4 DEF RelayInsert, Placed
  <2> QED BY <1>4, <2>1, <2>2, PipelineInsert DEF RelayInsert
<1>5. CASE RelayComplete(o)
  <2>1. UNCHANGED Waiting
    BY <1>5, StillWaiting DEF RelayComplete
  <2> QED BY <1>5, <2>1, PipelineComplete DEF RelayComplete, Stored
<1> QED BY <1>1, <1>2, <1>3, <1>4, <1>5

LEMMA PipelineWriter ==
    ASSUME GroupInv, Placed, NEW w \in Writers, WriterStep(w)
    PROVE  [Pipeline!Next]_(Pipeline!vars)
<1>1. UNCHANGED <<handoff, pc>>
  BY DEF WriterStep, LoopEnds, Poll, Interrupted, WindowCloses, Commit, CommitFails, Reply, stores
<1>2. UNCHANGED Waiting
  BY <1>1, StillWaiting
<1>3. CASE outbox' = outbox
  BY <1>1, <1>2, <1>3, SilentStep DEF Silent
<1>4. CASE outbox' # outbox
  <2>1. outbox' = outbox \cup InBatch(w) /\ InBatch(w) \cap Refused = {}
    BY <1>4 DEF WriterStep, LoopEnds, Poll, Interrupted, WindowCloses, Commit, CommitFails, Reply, stores
  <2>2. InBatch(w) \subseteq Sent
    BY DEF Placed, InBatch
  <2> QED BY <1>1, <1>2, <2>1, <2>2, PipelineInsert
<1> QED BY <1>3, <1>4

LEMMA PipelineStep ==
    ASSUME GroupInv, Placed, [Next]_vars
    PROVE  [Pipeline!Next]_(Pipeline!vars)
<1>1. CASE Shutdown \/ InterruptWriters \/ Join \/ Drain \/ UNCHANGED vars
  <2>1. UNCHANGED <<handoff, outbox, pc>>
    BY <1>1 DEF Shutdown, InterruptWriters, Join, Drain, vars, stores
  <2> QED BY <2>1, StillWaiting, SilentStep DEF Silent
<1>2. CASE Crash
  <2>1. UNCHANGED Waiting
    BY <1>2 DEF Crash, Answered, Waiting, GroupInv, GroupTypeOK
  <2> QED BY <1>2, <2>1, SilentStep DEF Crash, Silent, stores
<1> QED BY <1>1, <1>2, PipelineRequest, PipelineWriter DEF Next

LEMMA PipelineInit == Init => Pipeline!Init
<1> SUFFICES ASSUME Init PROVE Pipeline!Init
  OBVIOUS
<1>1. Waiting = Requests
  BY DEF Init, Waiting
<1> QED BY <1>1 DEF Init, Pipeline!Init

\* Acceptance through the queue is, for any number of requests and writers, a
\* handoff of the pipeline: what is proved of the pipeline holds in this mode too.
THEOREM GroupCommitImplementsPipeline == Spec => ImplementsHandoff
<1>1. GroupInv /\ Placed /\ [Next]_vars => (GroupInv /\ Placed)' /\ [Pipeline!Next]_(Pipeline!vars)
  BY GroupStep, PlacedStep, PipelineStep
<1> QED
  BY <1>1, GroupInit, PlacedInit, PipelineInit, PTL DEF Spec, ImplementsHandoff, Pipeline!Spec
=============================================================================
