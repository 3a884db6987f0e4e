----------------------------- MODULE ShopCache -----------------------------
(***************************************************************************)
(* One shop in MySQL, its copy in Redis (L2) and a copy in every JVM (L1). *)
(* A change is committed together with an outbox row, evicted by the JVM   *)
(* that made it and broadcast to every JVM over Kafka.  Queries hold the   *)
(* READ side of the shop's consistency lock, updates and the consumers of  *)
(* the broadcast its WRITE side; saveShop takes no lock.                   *)
(***************************************************************************)
EXTENDS Integers, FiniteSets

CONSTANTS
    Jvms,
    Readers,        \* request threads
    JvmOf,          \* their JVM
    NoOne,
    MaxVersion,     \* bound: versions of the shop
    MaxChanges,     \* bound: changes made
    MaxFaults       \* bound: failed calls and crashes

ASSUME ShopConstantsOK ==
    /\ JvmOf \in [Readers -> Jvms]
    /\ NoOne \notin Readers \cup Jvms
    /\ MaxVersion \in Nat \ {0} /\ MaxChanges \in Nat /\ MaxFaults \in Nat

VARIABLES
    db,             \* committed version of the shop, 0 before it is saved
    outbox,         \* state of the row written with each version
    topic,          \* versions broadcast
    inbox,          \* of the consumer of each JVM: not acknowledged yet
    dead,           \* given up, in the dead-letter topic
    l1, redis,      \* the copies; 0 in Redis is the null marker
    pc, stage, val, \* a reader, its pass through the caches, what it has in hand
    updater,        \* JVM that holds the WRITE lock for an update
    evicting,       \* JVMs that have committed and still have to evict
    fresh,          \* ghost: the version a JVM last evicted under the WRITE lock for
    faults          \* bound

caches == <<l1, redis>>
broadcast == <<outbox, topic, inbox, dead>>
reading == <<pc, stage, val>>
writing == <<updater, evicting>>
vars == <<db, broadcast, caches, reading, writing, fresh, faults>>

Miss == -1
Versions == 0 .. MaxVersion
Changes == 1 .. MaxVersion

ShopTypeOK ==
    /\ db \in Versions
    /\ outbox \in [Changes -> {"none", "PENDING", "SENT", "FAILED"}]
    /\ topic \subseteq Changes
    /\ inbox \in [Jvms -> SUBSET Changes]
    /\ dead \subseteq Jvms \X Changes
    /\ l1 \in [Jvms -> Changes \cup {Miss}]
    /\ redis \in Versions \cup {Miss}
    /\ pc \in [Readers -> {"idle", "local", "redis", "lock", "load", "fill", "put"}]
    /\ stage \in [Readers -> {"first", "locked", "last"}]
    /\ val \in [Readers -> Versions \cup {Miss}]
    /\ \A r \in Readers : pc[r] \in {"fill", "put"} => val[r] \in Versions
    /\ updater \in Jvms \cup {NoOne}
    /\ evicting \subseteq Jvms
    /\ fresh \in [Jvms -> Versions]
    /\ faults \in 0 .. MaxFaults

\* The shop is new, or was saved long ago.
Init ==
    /\ db \in {0, 1}
    /\ outbox = [v \in Changes |-> "none"]
    /\ topic = {} /\ inbox = [j \in Jvms |-> {}] /\ dead = {}
    /\ l1 = [j \in Jvms |-> Miss] /\ redis = Miss
    /\ pc = [r \in Readers |-> "idle"]
    /\ stage = [r \in Readers |-> "first"]
    /\ val = [r \in Readers |-> Miss]
    /\ updater = NoOne /\ evicting = {}
    /\ fresh = [j \in Jvms |-> db]
    /\ faults = 0

-----------------------------------------------------------------------------
(* queryById, under the READ lock *)

Goto(r, l) == pc' = [pc EXCEPT ![r] = l]

\* The method returns or throws, and its locks are let go.
Answer(r) ==
    /\ Goto(r, "idle")
    /\ stage' = [stage EXCEPT ![r] = "first"]
    /\ val' = [val EXCEPT ![r] = Miss]

\* A hit in L1 is answered at once, and so is what the Bloom filter turns away,
\* which is never a saved shop.
Query(r) ==
    /\ pc[r] = "idle"
    /\ updater = NoOne
    /\ l1[JvmOf[r]] = Miss
    /\ Goto(r, "redis")
    /\ UNCHANGED <<db, broadcast, caches, stage, val, writing, fresh, faults>>

\* readLastChance, and the second look under the rebuild lock.
ReadLocal(r) ==
    /\ pc[r] = "local"
    /\ IF l1[JvmOf[r]] # Miss THEN Answer(r) ELSE Goto(r, "redis") /\ UNCHANGED <<stage, val>>
    /\ UNCHANGED <<db, broadcast, caches, writing, fresh, faults>>

\* A hit goes to L1, the null marker is an answer, a miss leads to the rebuild lock,
\* with the lock to MySQL, and without it to an exception.
ReadRedis(r) ==
    /\ pc[r] = "redis"
    /\ \/ /\ redis \in Changes
          /\ val' = [val EXCEPT ![r] = redis]
          /\ Goto(r, "put")
          /\ UNCHANGED stage
       \/ (redis = 0 \/ (redis = Miss /\ stage[r] = "last")) /\ Answer(r)
       \/ /\ redis = Miss /\ stage[r] # "last"
          /\ Goto(r, IF stage[r] = "first" THEN "lock" ELSE "load")
          /\ UNCHANGED <<stage, val>>
    /\ UNCHANGED <<db, broadcast, caches, writing, fresh, faults>>

\* tryLock of the rebuild lock, taken or timed out; either way the caches are looked
\* at again.  Its lease may end under a slow holder, so that nothing depends on it.
TryLock(r) ==
    /\ pc[r] = "lock"
    /\ \E got \in {"locked", "last"} : stage' = [stage EXCEPT ![r] = got]
    /\ Goto(r, "local")
    /\ UNCHANGED <<db, broadcast, caches, val, writing, fresh, faults>>

Load(r) ==
    /\ pc[r] = "load"
    /\ val' = [val EXCEPT ![r] = db]
    /\ Goto(r, "fill")
    /\ UNCHANGED <<db, broadcast, caches, stage, writing, fresh, faults>>

\* cacheShop or cacheNull
Fill(r) ==
    /\ pc[r] = "fill"
    /\ redis' = val[r]
    /\ Goto(r, "put")
    /\ UNCHANGED <<db, broadcast, l1, stage, val, writing, fresh, faults>>

\* Mutant: a missing shop is kept in the JVM.
KeptAsIs(v) == v

\* localCache.put, or invalidate when there is no such shop.
Kept(v) == IF v = 0 THEN Miss ELSE v

Put(r) ==
    /\ pc[r] = "put"
    /\ l1' = [l1 EXCEPT ![JvmOf[r]] = Kept(val[r])]
    /\ Answer(r)
    /\ UNCHANGED <<db, broadcast, redis, writing, fresh, faults>>

Fault == faults < MaxFaults /\ faults' = faults + 1

\* Redis or MySQL fails; a failed SET may have been carried out.
QueryFails(r) ==
    /\ Fault
    /\ pc[r] \in {"redis", "lock", "load", "fill"}
    /\ redis' = redis \/ (pc[r] = "fill" /\ redis' = val[r])
    /\ Answer(r)
    /\ UNCHANGED <<db, broadcast, l1, writing, fresh>>

-----------------------------------------------------------------------------
(* saveShop and update *)

\* Mutants: the lock excludes updates only; the change is not published.
LockIgnoresReaders == updater = NoOne
CommitSilently == db' = db + 1 /\ outbox' = outbox

\* The WRITE side of the lock can be taken.
WriteFree == updater = NoOne /\ \A r \in Readers : pc[r] = "idle"

\* The row and the outbox row of ShopCacheInvalidationPublisher commit together.
CommitChange ==
    /\ db' = db + 1
    /\ outbox' = [outbox EXCEPT ![db + 1] = "PENDING"]

\* bound
MoreChanges == db < MaxVersion /\ Cardinality({v \in Changes : outbox[v] # "none"}) < MaxChanges

Save(j) ==
    /\ db = 0 /\ MoreChanges
    /\ CommitChange
    /\ evicting' = evicting \cup {j}
    /\ UNCHANGED <<topic, inbox, dead, caches, reading, updater, fresh, faults>>

UpdateLock(j) ==
    /\ WriteFree
    /\ j \notin evicting
    /\ updater' = j
    /\ UNCHANGED <<db, broadcast, caches, reading, evicting, fresh, faults>>

Update(j) ==
    /\ updater = j /\ j \notin evicting
    /\ db > 0 /\ MoreChanges
    /\ CommitChange
    /\ evicting' = evicting \cup {j}
    /\ UNCHANGED <<topic, inbox, dead, caches, reading, updater, fresh, faults>>

\* No such shop, or the transaction is rolled back.
UpdateRefused(j) ==
    /\ updater = j /\ j \notin evicting
    /\ updater' = NoOne
    /\ UNCHANGED <<db, broadcast, caches, reading, evicting, fresh, faults>>

Forget(j) == l1' = [l1 EXCEPT ![j] = Miss]

\* From here on nothing older than what MySQL holds now may come back on j.
Refreshed(j) == fresh' = [fresh EXCEPT ![j] = db]

\* evictBestEffort after the commit, and the end of an update's WRITE lock.  A
\* failure of Redis is swallowed.  Only under the lock does it last.
EvictAfterCommit(j) ==
    /\ j \in evicting
    /\ evicting' = evicting \ {j}
    /\ updater' = IF updater = j THEN NoOne ELSE updater
    /\ Forget(j)
    /\ \/ /\ redis' = Miss
          /\ IF updater = j THEN Refreshed(j) ELSE UNCHANGED fresh
          /\ UNCHANGED faults
       \/ Fault /\ UNCHANGED <<redis, fresh>>
    /\ UNCHANGED <<db, broadcast, reading>>

\* MySQL has committed and the answer is lost: afterCommit is not run.
CommitUnheard(j) ==
    /\ Fault
    /\ j \in evicting
    /\ evicting' = evicting \ {j}
    /\ updater' = IF updater = j THEN NoOne ELSE updater
    /\ UNCHANGED <<db, broadcast, caches, reading, fresh>>

-----------------------------------------------------------------------------
(* ShopCacheInvalidationOutboxRelay and the consumers *)

\* Mutant: the JVMs share a consumer group.
PublishShared(v) ==
    /\ topic' = topic \cup {v}
    /\ \E j \in Jvms : inbox' = [inbox EXCEPT ![j] = @ \cup {v}]

Publish(v) ==
    /\ topic' = topic \cup {v}
    /\ inbox' = [j \in Jvms |-> inbox[j] \cup {v}]

\* The row stays pending if the answer or markSent is lost; it is sent again.
RelaySend(v) ==
    /\ outbox[v] = "PENDING"
    /\ Publish(v)
    /\ outbox' \in {outbox, [outbox EXCEPT ![v] = "SENT"]}
    /\ UNCHANGED <<db, dead, caches, reading, writing, fresh, faults>>

\* The last of the attempts counts as failed, whether the record arrived or not.
RelayParks(v) ==
    /\ outbox[v] = "PENDING"
    /\ Fault
    /\ outbox' = [outbox EXCEPT ![v] = "FAILED"]
    /\ Publish(v) \/ UNCHANGED <<topic, inbox>>
    /\ UNCHANGED <<db, dead, caches, reading, writing, fresh>>

Acknowledge(j, v) == inbox' = [inbox EXCEPT ![j] = @ \ {v}]
DeadLetter(j, v) == Acknowledge(j, v) /\ dead' = dead \cup {<<j, v>>}

\* Evicts under the WRITE lock, where no reader looks between the two caches.
Consume(j, v) ==
    /\ v \in inbox[j]
    /\ WriteFree
    /\ Forget(j)
    /\ redis' = Miss
    /\ Refreshed(j)
    /\ Acknowledge(j, v)
    /\ UNCHANGED <<db, outbox, topic, dead, reading, writing, faults>>

\* Redis fails: the record is read again, or was for the last time.
ConsumeFails(j, v) ==
    /\ v \in inbox[j]
    /\ WriteFree
    /\ Fault
    /\ Forget(j) \/ UNCHANGED l1
    /\ DeadLetter(j, v) \/ UNCHANGED <<inbox, dead>>
    /\ UNCHANGED <<db, outbox, topic, redis, reading, writing, fresh>>

\* All attempts time out at the lock, which queries of a hot shop keep from it.
ConsumeStarves(j, v) ==
    /\ v \in inbox[j]
    /\ ~WriteFree
    /\ DeadLetter(j, v)
    /\ UNCHANGED <<db, outbox, topic, caches, reading, writing, fresh, faults>>

-----------------------------------------------------------------------------

ExpireLocal(j) ==
    /\ l1[j] # Miss
    /\ Forget(j)
    /\ UNCHANGED <<db, broadcast, redis, reading, writing, fresh, faults>>

ExpireRedis ==
    /\ redis # Miss
    /\ redis' = Miss
    /\ UNCHANGED <<db, broadcast, l1, reading, writing, fresh, faults>>

Here(r, j) == JvmOf[r] = j

\* Its locks expire, an open transaction is rolled back, and the JVM that replaces
\* it joins as a new consumer group, which reads the topic from the start.
Crash(j) ==
    /\ Fault
    /\ pc' = [r \in Readers |-> IF Here(r, j) THEN "idle" ELSE pc[r]]
    /\ stage' = [r \in Readers |-> IF Here(r, j) THEN "first" ELSE stage[r]]
    /\ val' = [r \in Readers |-> IF Here(r, j) THEN Miss ELSE val[r]]
    /\ updater' = IF updater = j THEN NoOne ELSE updater
    /\ evicting' = evicting \ {j}
    /\ Forget(j)
    /\ inbox' = [inbox EXCEPT ![j] = topic]
    /\ UNCHANGED <<db, outbox, topic, dead, redis, fresh>>

ReaderStep(r) ==
    \/ Query(r) \/ ReadLocal(r) \/ ReadRedis(r) \/ TryLock(r) \/ Load(r) \/ Fill(r) \/ Put(r)
    \/ QueryFails(r)

WriterStep(j) ==
    \/ Save(j) \/ UpdateLock(j) \/ Update(j) \/ UpdateRefused(j)
    \/ EvictAfterCommit(j) \/ CommitUnheard(j)

ConsumerStep(j, v) == Consume(j, v) \/ ConsumeFails(j, v) \/ ConsumeStarves(j, v)

Next ==
    \/ \E r \in Readers : ReaderStep(r)
    \/ \E j \in Jvms : WriterStep(j) \/ ExpireLocal(j) \/ Crash(j)
    \/ \E v \in Changes : RelaySend(v) \/ RelayParks(v)
    \/ \E j \in Jvms, v \in Changes : ConsumerStep(j, v)
    \/ ExpireRedis

Spec == Init /\ [][Next]_vars

\* The relay is polled and every JVM's consumer runs; a query need not end.
LiveSpec ==
    /\ Spec
    /\ \A v \in Changes : WF_vars(RelaySend(v))
    /\ \A j \in Jvms, v \in Changes : WF_vars(ConsumerStep(j, v))

-----------------------------------------------------------------------------

\* A JVM that has evicted under the WRITE lock never sees an older shop again: no
\* reader that loaded before the change fills L1 or Redis after the eviction, also
\* when the rebuild lock has expired or saveShop commits without a lock.
RefillsAreFresh ==
    \A j \in Jvms :
        /\ l1[j] # Miss => l1[j] >= fresh[j]
        /\ redis # Miss => redis >= fresh[j]

\* A change that a JVM has not evicted for is still on its way there, or is where an
\* operator finds it: no crash, lost answer or restart drops it silently.
ChangeIsKept ==
    \A v \in Changes, j \in Jvms :
        v <= db => \/ fresh[j] >= v \/ v \in inbox[j] \/ <<j, v>> \in dead
                   \/ outbox[v] \in {"PENDING", "FAILED"}

\* Every change reaches every JVM, or is parked by the relay or dead-lettered by the
\* consumer.
ReachesEveryJvm ==
    \A v \in Changes, j \in Jvms :
        v <= db ~> (fresh[j] >= v \/ <<j, v>> \in dead \/ outbox[v] = "FAILED")
=============================================================================
