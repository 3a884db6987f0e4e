---------------------------- MODULE HandoffRelay ----------------------------
(***************************************************************************)
(* The relays that carry accepted orders of one voucher from the Redis     *)
(* handoff to the MySQL outbox.  A lease in Redis lets one of them work at *)
(* a time, but nobody renews it during a round.  A batch with a row that   *)
(* MySQL refuses is halved until that row is alone, and it is quarantined. *)
(***************************************************************************)
EXTENDS Integers, Sequences, FiniteSets

CONSTANTS
    Relays,
    Orders,
    Refused,        \* orders whose row breaks a constraint or conflicts with another
    BatchSize,
    MaxFaults       \* bound: failed calls, crashes and shutdowns

ASSUME RelayConstantsOK ==
    /\ Refused \subseteq Orders
    /\ BatchSize \in Nat \ {0} /\ MaxFaults \in Nat
    /\ Relays \cap {"free", "dead"} = {}
    /\ IsFiniteSet(Orders)

VARIABLES
    handoff, score,     \* the sorted set of the voucher
    accepted,           \* the hash seckill:order:accepted
    quarantine,         \* the sorted set of isolated members
    outbox,             \* orders with a committed row
    lease,              \* owner in the lease key; "dead" is a process that is gone
    pc,                 \* where a relay is
    work,               \* batches persistWithIsolation has still to handle, next first
    committed,          \* insertCommitted has returned for the first of them
    faults              \* bound

redis == <<handoff, score, accepted, quarantine>>
relay == <<pc, work, committed>>
vars == <<redis, outbox, lease, relay, faults>>

RelayTypeOK ==
    /\ handoff \subseteq Orders
    /\ score \in [Orders -> Nat]
    /\ accepted \subseteq Orders
    /\ quarantine \subseteq Orders
    /\ outbox \subseteq Orders \ Refused
    /\ lease \in Relays \cup {"free", "dead"}
    /\ pc \in [Relays -> {"lease", "read", "work", "isolate", "stopped"}]
    /\ work \in [Relays -> Seq(SUBSET Orders)]
    /\ committed \in [Relays -> BOOLEAN]
    /\ \A r \in Relays :
          /\ committed[r] => pc[r] = "work"
          /\ committed[r] \/ pc[r] = "isolate" => work[r] # <<>>
    /\ faults \in 0 .. MaxFaults

Init ==
    /\ handoff = {} /\ score = [o \in Orders |-> 0]
    /\ accepted = {} /\ quarantine = {} /\ outbox = {}
    /\ lease = "free"
    /\ pc = [r \in Relays |-> "lease"]
    /\ work = [r \in Relays |-> <<>>]
    /\ committed = [r \in Relays |-> FALSE]
    /\ faults = 0

Admitted == {o \in Orders : score[o] > 0}

-----------------------------------------------------------------------------

\* seckill.lua: ZADD and HSET in one script.
Admit(o) ==
    /\ score[o] = 0
    /\ score' = [score EXCEPT ![o] = Cardinality(Admitted) + 1]
    /\ handoff' = handoff \cup {o}
    /\ accepted' = accepted \cup {o}
    /\ UNCHANGED <<quarantine, outbox, lease, relay, faults>>

-----------------------------------------------------------------------------

Running(r) == pc[r] # "stopped"
Idle(r) == pc' = [pc EXCEPT ![r] = "lease"]

\* Mutant: the next round takes its first batch for committed.
AbandonCommitted(r) ==
    /\ Idle(r)
    /\ work' = [work EXCEPT ![r] = <<>>]
    /\ UNCHANGED committed

\* The round is given up; what it has not finished stays in Redis.
Abandon(r) ==
    /\ Idle(r)
    /\ work' = [work EXCEPT ![r] = <<>>]
    /\ committed' = [committed EXCEPT ![r] = FALSE]

\* SET NX, or PEXPIRE when the lease is ours.
Obtainable(r) == lease \in {"free", r}

AcquireOrRenewLease(r) ==
    /\ pc[r] = "lease"
    /\ Obtainable(r)
    /\ lease' = r
    /\ pc' = [pc EXCEPT ![r] = "read"]
    /\ UNCHANGED <<redis, outbox, work, committed, faults>>

\* The lease runs out, also under a relay that is still in its round.
LeaseExpires ==
    /\ lease # "free"
    /\ lease' = "free"
    /\ UNCHANGED <<redis, outbox, relay, faults>>

\* ZRANGE 0 limit-1
FindFirst(limit) ==
    {o \in handoff : Cardinality({p \in handoff : score[p] < score[o]}) < limit}

Read(r) ==
    /\ pc[r] = "read"
    /\ \/ /\ handoff = {}
          /\ Idle(r)
          /\ UNCHANGED work
       \/ /\ handoff # {}
          /\ pc' = [pc EXCEPT ![r] = "work"]
          /\ work' = [work EXCEPT ![r] = <<FindFirst(BatchSize)>>]
    /\ UNCHANGED <<redis, outbox, lease, committed, faults>>

EndRound(r) ==
    /\ pc[r] = "work"
    /\ work[r] = <<>>
    /\ Idle(r)
    /\ UNCHANGED <<redis, outbox, lease, work, committed, faults>>

-----------------------------------------------------------------------------
(* persistWithIsolation, on the first batch of work *)

Top(r) == Head(work[r])
Working(r) == pc[r] = "work" /\ work[r] # <<>>

\* Mutant: rows that INSERT IGNORE left out are not looked for.
Unverified(B) == FALSE

\* The transaction fails and is rolled back as a whole.
Conflicts(B) == B \cap Refused # {}

\* insertCommitted: rows that are there already count as inserted.
InsertCommitted(r) ==
    /\ Working(r) /\ ~committed[r]
    /\ ~Conflicts(Top(r))
    /\ outbox' = outbox \cup (Top(r) \ Refused)
    /\ committed' = [committed EXCEPT ![r] = TRUE]
    /\ UNCHANGED <<redis, lease, pc, work, faults>>

\* Mutant: a pair is not halved any more.
AlonePair(B) == Cardinality(B) <= 2

Alone(B) == Cardinality(B) = 1

\* Mutant: the second half starts one too early.
RightEarly(B, left) == B \ {o \in left : \E p \in left : score[p] > score[o]}

Right(B, left) == B \ left

Left(B) == {o \in B : Cardinality({p \in B : score[p] < score[o]}) < Cardinality(B) \div 2}

InsertRefused(r) ==
    /\ Working(r) /\ ~committed[r]
    /\ Conflicts(Top(r))
    /\ \/ /\ Alone(Top(r))
          /\ pc' = [pc EXCEPT ![r] = "isolate"]
          /\ UNCHANGED work
       \/ /\ ~Alone(Top(r))
          /\ work' = [work EXCEPT
                        ![r] = <<Left(Top(r)), Right(Top(r), Left(Top(r)))>> \o Tail(@)]
          /\ UNCHANGED pc
    /\ UNCHANGED <<redis, outbox, lease, committed, faults>>

Pop(r) ==
    /\ work' = [work EXCEPT ![r] = Tail(@)]
    /\ committed' = [committed EXCEPT ![r] = FALSE]

\* ZREM and HDEL of a whole batch in one script
Complete(B) ==
    /\ handoff' = handoff \ B
    /\ accepted' = accepted \ B
    /\ UNCHANGED <<score, quarantine>>

CompleteBatch(r) ==
    /\ Working(r) /\ committed[r]
    /\ Complete(Top(r))
    /\ Pop(r)
    /\ UNCHANGED <<outbox, lease, pc, faults>>

\* seckill_handoff_quarantine.lua: nothing is added for a member already gone
Found(B) == B \cap handoff

QuarantineEffect(B) ==
    /\ quarantine' = quarantine \cup Found(B)
    /\ handoff' = handoff \ B
    /\ UNCHANGED <<score, accepted>>

\* members.iterator().next()
First(B) == {o \in B : \A p \in B : score[o] <= score[p]}

Quarantine(r) ==
    /\ pc[r] = "isolate"
    /\ QuarantineEffect(First(Top(r)))
    /\ pc' = [pc EXCEPT ![r] = "work"]
    /\ Pop(r)
    /\ UNCHANGED <<outbox, lease, faults>>

\* MySQL or Redis does not answer; the call may have taken effect.
CallFails(r) ==
    /\ faults < MaxFaults
    /\ faults' = faults + 1
    /\ pc[r] = "isolate" \/ Working(r)
    /\ \/ UNCHANGED <<redis, outbox>>
       \/ /\ pc[r] = "work" /\ ~committed[r] /\ ~Conflicts(Top(r))
          /\ outbox' = outbox \cup (Top(r) \ Refused)
          /\ UNCHANGED redis
       \/ /\ pc[r] = "work" /\ committed[r]
          /\ Complete(Top(r))
          /\ UNCHANGED outbox
       \/ /\ pc[r] = "isolate"
          /\ QuarantineEffect(First(Top(r)))
          /\ UNCHANGED outbox
    /\ Abandon(r)
    /\ UNCHANGED lease

-----------------------------------------------------------------------------

\* Bound: one relay stays up.
Spare(r) == \E s \in Relays \ {r} : Running(s)

\* stop(), seen at the end of a round: compare-delete of the lease.
Stop(r) ==
    /\ pc[r] = "lease"
    /\ Spare(r) /\ faults < MaxFaults
    /\ faults' = faults + 1
    /\ pc' = [pc EXCEPT ![r] = "stopped"]
    /\ lease' = IF lease = r THEN "free" ELSE lease
    /\ UNCHANGED <<redis, outbox, work, committed>>

Crash(r) ==
    /\ Running(r) /\ Spare(r) /\ faults < MaxFaults
    /\ faults' = faults + 1
    /\ pc' = [pc EXCEPT ![r] = "stopped"]
    /\ work' = [work EXCEPT ![r] = <<>>]
    /\ committed' = [committed EXCEPT ![r] = FALSE]
    /\ lease' = IF lease = r THEN "dead" ELSE lease
    /\ UNCHANGED <<redis, outbox>>

\* A new process has a new owner id.
Start(r) ==
    /\ pc[r] = "stopped"
    /\ Idle(r)
    /\ UNCHANGED <<redis, outbox, lease, work, committed, faults>>

RoundStep(r) ==
    \/ Read(r) \/ EndRound(r) \/ InsertCommitted(r) \/ InsertRefused(r)
    \/ CompleteBatch(r) \/ Quarantine(r)

Next ==
    \/ \E o \in Orders : Admit(o)
    \/ LeaseExpires
    \/ \E r \in Relays :
          AcquireOrRenewLease(r) \/ RoundStep(r) \/ CallFails(r) \/ Stop(r) \/ Crash(r)
              \/ Start(r)

Spec == Init /\ [][Next]_vars

\* A lease nobody renews runs out, and a relay polls again and again.
LiveSpec ==
    /\ Spec
    /\ WF_vars(LeaseExpires)
    /\ \A r \in Relays : WF_vars(RoundStep(r)) /\ SF_vars(AcquireOrRenewLease(r))

-----------------------------------------------------------------------------

\* An accepted order is in the handoff, in the outbox or in the quarantine, whatever
\* fails between the MySQL commit and the Redis script (README, why a ZSet handoff).
NoOrderLost == Admitted \subseteq handoff \cup outbox \cup quarantine

\* The proof of acceptance stays until the row is committed, so that the status query
\* finds the order: only insertCommitted lets completeBatch delete it.
AcceptedUntilDurable == Admitted \subseteq accepted \cup outbox

\* Halving isolates the row that MySQL refuses and no other, also when two relays
\* whose rounds overlap work on the same batch.
OnlyRefusedIsolated == quarantine \subseteq Refused

\* Every order leaves the handoff in the end: no order blocks those behind it.
HandoffDrains == \A o \in Orders : o \in handoff ~> o \notin handoff

\* The part of SeckillOrder that this module details: the requests have a user and a
\* unit each, and nothing happens behind the outbox.
Pipeline == INSTANCE SeckillOrder
    WITH Users <- Orders, BuyerOf <- [o \in Orders |-> o], NoOrder <- "none",
         Rejected <- Refused, InitStock <- Cardinality(Orders),
         MaxFailed <- 0, Dying <- {},
         stock <- Cardinality(Orders \ Admitted), purchased <- Admitted,
         recovering <- FALSE,
         outbox <- [o \in Orders |-> IF o \in outbox THEN "PENDING" ELSE "none"],
         order <- [o \in Orders |-> "none"], dbStock <- Cardinality(Orders),
         topic <- {}, dlt <- {},
         dltPc <- "idle", dltOrder <- "none", reviewPc <- "idle", reviewOrder <- "none",
         cancelPc <- "idle", cancelOrder <- "none", undone <- {}, unheard <- {},
         leaked <- 0, reopened <- {}, withheld <- {}, blocked <- {}

\* Relays with overlapping rounds, lost leases and half-finished batches act on Redis
\* and MySQL like the one-step handoff of SeckillOrder: a batch is deleted when its
\* rows are there, and a member is isolated because MySQL refuses it.
ImplementsHandoff == Pipeline!Spec
=============================================================================
