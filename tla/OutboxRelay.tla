---------------------------- MODULE OutboxRelay -----------------------------
(***************************************************************************)
(* The relays that carry outbox rows to Kafka.  A round is find, claim,    *)
(* read back, send, report, each a statement of its own; a claim is an     *)
(* owner and a lease in the row, and nobody renews it.  Time shows only as *)
(* leases that end and rows that become due, at any moment: a lease is     *)
(* computed from the clock of a JVM and compared with that of MySQL.       *)
(***************************************************************************)
EXTENDS Integers, FiniteSets

CONSTANTS
    Rows,           \* ids of tb_seckill_order_outbox
    Relays,         \* relayOwner of the processes
    Steady,         \* relays assumed to poll for ever, for liveness only
    BatchSize,
    MaxFaults       \* bound: failed calls and sends, lost records, crashes

ASSUME OutboxConstantsOK ==
    /\ Rows \subseteq Nat
    /\ Relays \cap {"nobody", "dead"} = {} /\ Steady \subseteq Relays
    /\ BatchSize \in Nat \ {0} /\ MaxFaults \in Nat

VARIABLES
    status,
    owner, leased,  \* relay_owner; relay_lease_until is in the future
    due,            \* next_retry_time has come
    topic,          \* records in Kafka
    pc, batch,      \* where a relay is, and its rows
    sent,           \* sentIds; failedIdsByBackoff has the rest of the batch
    stored,         \* orders with a row in the order table
    faults,         \* bound
    \* ghosts
    fresh,          \* rows with a send that Kafka confirmed since they were last queued
    valid           \* rows a relay claimed and no one has freed since

row == <<status, owner, leased, due>>
round == <<pc, batch, sent>>
vars == <<row, topic, stored, round, faults, fresh, valid>>

OutboxStates == {"none", "PENDING", "SENT", "COMPLETED", "MANUAL_REVIEW"}

Open(o) == status[o] \in {"PENDING", "SENT"}

OutboxTypeOK ==
    /\ status \in [Rows -> OutboxStates]
    /\ owner \in [Rows -> Relays \cup {"nobody", "dead"}]
    /\ leased \in [Rows -> BOOLEAN]
    /\ due \in [Rows -> BOOLEAN]
    /\ topic \subseteq Rows /\ stored \subseteq Rows
    /\ pc \in [Relays -> {"idle", "claim", "read", "send", "mark", "retry"}]
    /\ batch \in [Relays -> SUBSET Rows]
    /\ sent \in [Relays -> SUBSET Rows]
    /\ \A r \in Relays : sent[r] \subseteq batch[r]
    /\ \A o \in Rows : leased[o] => owner[o] # "nobody" /\ Open(o)
    /\ faults \in 0 .. MaxFaults
    /\ fresh \subseteq Rows
    /\ valid \in [Relays -> SUBSET Rows]

Init ==
    /\ status = [o \in Rows |-> "none"]
    /\ owner = [o \in Rows |-> "nobody"]
    /\ leased = [o \in Rows |-> FALSE]
    /\ due = [o \in Rows |-> FALSE]
    /\ topic = {} /\ stored = {}
    /\ pc = [r \in Relays |-> "idle"]
    /\ batch = [r \in Relays |-> {}]
    /\ sent = [r \in Relays |-> {}]
    /\ faults = 0
    /\ fresh = {}
    /\ valid = [r \in Relays |-> {}]

\* Mutant: relay_lease_until is left as it is.
OwnerFreed(S) ==
    /\ owner' = [o \in Rows |-> IF o \in S THEN "nobody" ELSE owner[o]]
    /\ leased' = leased
    /\ valid' = [r \in Relays |-> valid[r] \ S]

\* relay_owner = NULL, relay_lease_until = NULL
Freed(S) ==
    /\ owner' = [o \in Rows |-> IF o \in S THEN "nobody" ELSE owner[o]]
    /\ leased' = [o \in Rows |-> leased[o] /\ o \notin S]
    /\ valid' = [r \in Relays |-> valid[r] \ S]

Marked(S, s) == status' = [o \in Rows |-> IF o \in S THEN s ELSE status[o]]
Deferred(S) == due' = [o \in Rows |-> due[o] /\ o \notin S]

Fault ==
    /\ faults < MaxFaults
    /\ faults' = faults + 1

-----------------------------------------------------------------------------
(* relayPending *)

EndRound(r) ==
    /\ pc' = [pc EXCEPT ![r] = "idle"]
    /\ batch' = [batch EXCEPT ![r] = {}]
    /\ sent' = [sent EXCEPT ![r] = {}]

\* Mutant: rows that were sent are not looked at again.
NeverSent(o) == status[o] = "PENDING" /\ due[o] /\ ~leased[o]

Dispatchable(o) == Open(o) /\ due[o] /\ ~leased[o]

\* ORDER BY id LIMIT
Page(S) == {o \in S : Cardinality({p \in S : p < o}) < BatchSize}

FindDispatchable(r) ==
    /\ pc[r] = "idle"
    /\ {o \in Rows : Dispatchable(o)} # {}
    /\ batch' = [batch EXCEPT ![r] = Page({o \in Rows : Dispatchable(o)})]
    /\ pc' = [pc EXCEPT ![r] = "claim"]
    /\ UNCHANGED <<row, topic, stored, sent, faults, fresh, valid>>

\* Mutant: the update trusts the select for the lease.
FoundFree(o) == Open(o) /\ due[o]

\* The WHERE of the update repeats that of the select.
Claimable(o) == Open(o) /\ due[o] /\ ~leased[o]

Claimed(r) == {o \in batch[r] : Claimable(o)}

ClaimEffect(r) ==
    /\ owner' = [o \in Rows |-> IF o \in Claimed(r) THEN r ELSE owner[o]]
    /\ leased' = [o \in Rows |-> leased[o] \/ o \in Claimed(r)]

ClaimRelayBatch(r) ==
    /\ pc[r] = "claim"
    /\ ClaimEffect(r)
    /\ \/ /\ Claimed(r) # {}
          /\ pc' = [pc EXCEPT ![r] = "read"]
          /\ valid' = [valid EXCEPT ![r] = Claimed(r)]
          /\ UNCHANGED <<batch, sent>>
       \/ /\ Claimed(r) = {}
          /\ EndRound(r)
          /\ UNCHANGED valid
    /\ UNCHANGED <<status, due, topic, stored, faults, fresh>>

Mine(r) == {o \in batch[r] : owner[o] = r}

FindClaimedBatch(r) ==
    /\ pc[r] = "read"
    /\ \/ /\ Mine(r) # {}
          /\ batch' = [batch EXCEPT ![r] = Mine(r)]
          /\ pc' = [pc EXCEPT ![r] = "send"]
          /\ UNCHANGED <<sent, valid>>
       \/ /\ Mine(r) = {}
          /\ EndRound(r)
          /\ valid' = [valid EXCEPT ![r] = {}]
    /\ UNCHANGED <<row, topic, stored, faults, fresh>>

-----------------------------------------------------------------------------
(* dispatchBatch *)

\* Sends the whole batch and then waits for the answers.  A send that is refused
\* or times out may have put its record into Kafka all the same.
Dispatch(r) ==
    /\ pc[r] = "send"
    /\ \E F \in SUBSET batch[r] :
          /\ (F = {} /\ UNCHANGED faults) \/ (F # {} /\ Fault)
          /\ \E lost \in SUBSET F : topic' = topic \cup (batch[r] \ lost)
          /\ sent' = [sent EXCEPT ![r] = batch[r] \ F]
          /\ fresh' = fresh \cup (batch[r] \ F)
    /\ pc' = [pc EXCEPT ![r] = "mark"]
    /\ UNCHANGED <<row, stored, batch, valid>>

\* Mutant: the update of the report does not ask for the owner.
AnyOwner(r, S) == {o \in S : Open(o)}

\* Rows that a report of the relay still applies to.
Reportable(r, S) == {o \in S : owner[o] = r /\ Open(o)}

SentEffect(r) ==
    /\ Marked(Reportable(r, sent[r]), "SENT")
    /\ Freed(Reportable(r, sent[r]))
    /\ Deferred(Reportable(r, sent[r]))

MarkSentBatch(r) ==
    /\ pc[r] = "mark"
    /\ SentEffect(r)
    /\ pc' = [pc EXCEPT ![r] = "retry"]
    /\ UNCHANGED <<topic, stored, batch, sent, faults, fresh>>

RetryEffect(r, S) ==
    /\ Freed(Reportable(r, S))
    /\ Deferred(Reportable(r, S))
    /\ UNCHANGED status

ScheduleRetryBatch(r) ==
    /\ pc[r] = "retry"
    /\ RetryEffect(r, batch[r] \ sent[r])
    /\ EndRound(r)
    /\ UNCHANGED <<topic, stored, faults, fresh>>

\* A statement throws, with or without effect (one of several, in the case of
\* scheduleRetryBatch); the round is over and what it claimed waits for the lease.
CallFails(r) ==
    /\ Fault
    /\ \/ /\ pc[r] \in {"claim", "read", "mark", "retry"}
          /\ UNCHANGED <<row, valid>>
       \/ /\ pc[r] = "claim"
          /\ ClaimEffect(r)
          /\ UNCHANGED <<status, due, valid>>
       \/ pc[r] = "mark" /\ SentEffect(r)
       \/ pc[r] = "retry" /\ \E S \in SUBSET (batch[r] \ sent[r]) : RetryEffect(r, S)
    /\ EndRound(r)
    /\ UNCHANGED <<topic, stored, fresh>>

\* A process dies; the one in its place has a new relayOwner.
Crash(r) ==
    /\ Fault
    /\ EndRound(r)
    /\ owner' = [o \in Rows |-> IF owner[o] = r THEN "dead" ELSE owner[o]]
    /\ valid' = [valid EXCEPT ![r] = {}]
    /\ UNCHANGED <<status, leased, due, topic, stored, fresh>>

-----------------------------------------------------------------------------
(* The clock of MySQL, and what others do to a row. *)

LeaseEnds(o) ==
    /\ leased[o]
    /\ leased' = [leased EXCEPT ![o] = FALSE]
    /\ valid' = [r \in Relays |-> valid[r] \ {o}]
    /\ UNCHANGED <<status, owner, due, topic, stored, round, faults, fresh>>

BecomesDue(o) ==
    /\ Open(o) /\ ~due[o]
    /\ due' = [due EXCEPT ![o] = TRUE]
    /\ UNCHANGED <<status, owner, leased, topic, stored, round, faults, fresh, valid>>

\* insertCommitted
Insert(o) ==
    /\ status[o] = "none"
    /\ Marked({o}, "PENDING")
    /\ due' = [due EXCEPT ![o] = TRUE]
    /\ UNCHANGED <<owner, leased, topic, stored, round, faults, fresh, valid>>

\* createOrders: the order, and markCompletedBatchByIds for its row if that is open.
\* Kafka delivers the record again when the acknowledgement is not reached.
Consume(o) ==
    /\ o \in topic
    /\ topic' \in {topic, topic \ {o}}
    /\ stored' = stored \cup {o}
    /\ Marked({o} \cap {p \in Rows : Open(p)}, "COMPLETED")
    /\ Freed({o} \cap {p \in Rows : Open(p)})
    /\ UNCHANGED <<due, round, faults, fresh>>

\* SeckillAcceptedOrderRecoveryService.retry: markCompleted, or requeueAccepted,
\* before which the order may be stored after all.
Retried(o) ==
    \/ /\ o \in stored /\ Open(o)
       /\ Marked({o}, "COMPLETED")
       /\ Freed({o})
       /\ UNCHANGED <<due, fresh>>
    \/ /\ status[o] # "COMPLETED"
       /\ Marked({o}, "PENDING")
       /\ Freed({o})
       /\ Deferred({o})
       /\ fresh' = fresh \ {o}

\* A record the consumer cannot handle: retried, or parked when that fails, or of
\* no effect, which is also what a record is that Kafka no longer has.
DeadLetter(o) ==
    /\ o \in topic
    /\ Fault
    /\ topic' = topic \ {o}
    /\ \/ Retried(o)
       \/ /\ status[o] # "COMPLETED"
          /\ Marked({o}, "MANUAL_REVIEW")
          /\ Freed({o})
          /\ UNCHANGED <<due, fresh>>
       \/ UNCHANGED <<row, fresh, valid>>
    /\ UNCHANGED <<stored, round>>

RetryManualReview(o) ==
    /\ status[o] = "MANUAL_REVIEW"
    /\ Retried(o)
    /\ UNCHANGED <<topic, stored, round, faults>>

RelayStep(r) ==
    \/ FindDispatchable(r) \/ ClaimRelayBatch(r) \/ FindClaimedBatch(r)
    \/ Dispatch(r) \/ MarkSentBatch(r) \/ ScheduleRetryBatch(r)

Next ==
    \/ \E r \in Relays : RelayStep(r) \/ CallFails(r) \/ Crash(r)
    \/ \E o \in Rows :
          \/ LeaseEnds(o) \/ BecomesDue(o)
          \/ Insert(o) \/ Consume(o) \/ DeadLetter(o) \/ RetryManualReview(o)

Spec == Init /\ [][Next]_vars

\* Some relays poll, clocks advance, consumer and review work; the lease does not end
\* every time between the claim of such a relay and its next statement.
LiveSpec ==
    /\ Spec
    /\ \A r \in Steady :
          WF_vars(RelayStep(r)) /\ SF_vars(FindClaimedBatch(r) /\ Mine(r) # {})
    /\ \A o \in Rows :
          /\ WF_vars(LeaseEnds(o) \/ BecomesDue(o))
          /\ WF_vars(Consume(o) \/ RetryManualReview(o))

-----------------------------------------------------------------------------

\* A row is SENT only when a record went out after it was last queued, however late
\* the report of an earlier round comes: otherwise it would wait for a record that
\* does not exist until the recheck.
SentIsFresh == \A o \in Rows : status[o] = "SENT" => o \in fresh

\* Two relays that found the same row never both hold it under a lease that runs.
OneHolder == \A r, s \in Relays : r # s => valid[r] \cap valid[s] = {}

\* A row that another relay has just sent, or that waits for its back-off, is not
\* claimed on the strength of an earlier select.
HolderIsDue == \A r \in Relays : \A o \in valid[r] : due[o]

\* The order of every row is stored, although sends fail, records are lost, claims
\* are left behind by a crash and a batch fails in part.
RowsStored == \A o \in Rows : status[o] = "PENDING" ~> o \in stored
=============================================================================
