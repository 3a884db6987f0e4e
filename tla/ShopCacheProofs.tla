-------------------------- MODULE ShopCacheProofs --------------------------
(***************************************************************************)
(* After an eviction under the WRITE lock nothing older comes back, and no *)
(* change is dropped on its way to a JVM, for any number of JVMs, readers, *)
(* changes and faults.                                                     *)
(***************************************************************************)
EXTENDS ShopCache, TLAPS

\* The WRITE lock excludes the readers.
LockInv == updater # NoOne => \A r \in Readers : pc[r] = "idle"

\* What a reader carries to a cache is as fresh as what any JVM has evicted for.
CarriedInv == \A r \in Readers, j \in Jvms : pc[r] \in {"fill", "put"} => val[r] >= fresh[j]

FreshInv == RefillsAreFresh /\ CarriedInv /\ LockInv /\ \A j \in Jvms : fresh[j] <= db

\* Nothing is broadcast that is not committed.
BroadcastInv ==
    /\ \A j \in Jvms : inbox[j] \subseteq topic
    /\ \A v \in topic : v <= db
    /\ \A v \in Changes : outbox[v] = "PENDING" => v <= db

ShopInv == ShopTypeOK /\ FreshInv /\ BroadcastInv /\ ChangeIsKept

LEMMA ShopInit == Init => ShopInv
BY ShopConstantsOK
DEF Init, ShopInv, ShopTypeOK, FreshInv, RefillsAreFresh, CarriedInv, LockInv, BroadcastInv,
    ChangeIsKept, Changes, Versions, Miss

\* Readers leave the change and its broadcast alone, and keep the locks.
LEMMA ReaderType ==
    ASSUME ShopInv, NEW r \in Readers, ReaderStep(r)
    PROVE  ShopTypeOK'
<1> USE ShopConstantsOK DEF ShopInv, ShopTypeOK, Goto, Answer, Changes, Versions, Miss, caches, broadcast, writing
<1>1. CASE Query(r)
  BY <1>1 DEF Query
<1>2. CASE ReadLocal(r)
  <2>1. CASE Answer(r)
    BY <1>2, <2>1 DEF ReadLocal
  <2>2. CASE Goto(r, "redis") /\ UNCHANGED <<stage, val>>
    BY <1>2, <2>2 DEF ReadLocal
  <2> QED BY <1>2, <2>1, <2>2 DEF ReadLocal
<1>3. CASE ReadRedis(r)
  <2>1. CASE redis \in Changes /\ val' = [val EXCEPT ![r] = redis] /\ Goto(r, "put") /\ UNCHANGED stage
    BY <1>3, <2>1 DEF ReadRedis
  <2>2. CASE Answer(r)
    BY <1>3, <2>2 DEF ReadRedis
  <2>3. CASE Goto(r, IF stage[r] = "first" THEN "lock" ELSE "load") /\ UNCHANGED <<stage, val>>
    BY <1>3, <2>3 DEF ReadRedis
  <2> QED BY <1>3, <2>1, <2>2, <2>3 DEF ReadRedis
<1>4. CASE TryLock(r)
  BY <1>4 DEF TryLock
<1>5. CASE Load(r)
  BY <1>5 DEF Load
<1>6. CASE Fill(r)
  BY <1>6 DEF Fill
<1>7. CASE Put(r)
  BY <1>7 DEF Put, Kept
<1>8. CASE QueryFails(r)
  BY <1>8 DEF QueryFails, Fault
<1> QED BY <1>1, <1>2, <1>3, <1>4, <1>5, <1>6, <1>7, <1>8 DEF ReaderStep

LEMMA ReaderFresh ==
    ASSUME ShopInv, NEW r \in Readers, ReaderStep(r)
    PROVE  FreshInv'
<1>t. /\ db \in Versions /\ fresh \in [Jvms -> Versions] /\ val \in [Readers -> Versions \cup {Miss}]
      /\ l1 \in [Jvms -> Changes \cup {Miss}] /\ redis \in Versions \cup {Miss} /\ JvmOf[r] \in Jvms
      /\ pc \in [Readers -> {"idle", "local", "redis", "lock", "load", "fill", "put"}]
      /\ \A s \in Readers : pc[s] \in {"fill", "put"} => val[s] \in Versions
      /\ \A j \in Jvms : fresh[j] <= db
  BY ShopConstantsOK DEF ShopInv, ShopTypeOK, FreshInv
<1>u. RefillsAreFresh /\ CarriedInv /\ LockInv
  BY DEF ShopInv, FreshInv
<1>k. updater = NoOne
  <2>1. pc[r] # "idle" \/ updater = NoOne
    BY DEF ReaderStep, Query, ReadLocal, ReadRedis, TryLock, Load, Fill, Put, QueryFails
  <2> QED BY <2>1, <1>u DEF LockInv
<1>s. UNCHANGED <<db, updater, fresh>>
  BY DEF ReaderStep, Query, ReadLocal, ReadRedis, TryLock, Load, Fill, Put, QueryFails, Answer, writing
<1>l. LockInv' /\ \A j \in Jvms : fresh'[j] <= db'
  BY <1>k, <1>s, <1>t DEF LockInv
<1> USE DEF RefillsAreFresh, CarriedInv, Goto, Versions, Changes, Miss
<1>1. CASE Query(r) \/ ReadLocal(r) \/ TryLock(r)
  <2>1. /\ UNCHANGED <<l1, redis>>
        /\ \A s \in Readers : pc'[s] \in {"fill", "put"} => pc[s] = pc'[s] /\ val'[s] = val[s]
    BY <1>1, <1>t DEF Query, ReadLocal, TryLock, Answer, caches
  <2> QED BY <2>1, <1>l, <1>s, <1>u DEF FreshInv
<1>2. CASE ReadRedis(r)
  <2>1. UNCHANGED <<l1, redis>>
    BY <1>2 DEF ReadRedis, caches
  <2>2. \A s \in Readers : pc'[s] \in {"fill", "put"} =>
            (pc[s] = pc'[s] /\ val'[s] = val[s]) \/ (redis # Miss /\ val'[s] = redis)
    BY <1>2, <1>t DEF ReadRedis, Answer
  <2>3. CarriedInv'
    BY <2>2, <1>s, <1>u
  <2> QED BY <2>1, <2>3, <1>l, <1>s, <1>u DEF FreshInv
<1>3. CASE Load(r)
  <2>1. UNCHANGED <<l1, redis>>
    BY <1>3 DEF Load, caches
  <2>2. \A s \in Readers : pc'[s] \in {"fill", "put"} =>
            (pc[s] = pc'[s] /\ val'[s] = val[s]) \/ val'[s] = db
    BY <1>3, <1>t DEF Load
  <2>3. CarriedInv'
    BY <2>2, <1>s, <1>t, <1>u
  <2> QED BY <2>1, <2>3, <1>l, <1>s, <1>u DEF FreshInv
<1>4. CASE Fill(r)
  <2>1. l1' = l1 /\ redis' = val[r] /\ pc[r] = "fill" /\ val' = val
    BY <1>4 DEF Fill
  <2>2. CarriedInv'
    BY <1>4, <2>1, <1>s, <1>t, <1>u DEF Fill
  <2>3. RefillsAreFresh'
    BY <2>1, <1>s, <1>t, <1>u
  <2> QED BY <2>2, <2>3, <1>l DEF FreshInv
<1>5. CASE Put(r)
  <2>1. /\ redis' = redis /\ pc[r] = "put"
        /\ l1' = [l1 EXCEPT ![JvmOf[r]] = IF val[r] = 0 THEN Miss ELSE val[r]]
    BY <1>5 DEF Put, Kept
  <2>2. CarriedInv'
    BY <1>5, <1>s, <1>t, <1>u DEF Put, Answer
  <2>3. RefillsAreFresh'
    BY <2>1, <1>s, <1>t, <1>u
  <2> QED BY <2>2, <2>3, <1>l DEF FreshInv
<1>6. CASE QueryFails(r)
  <2>1. l1' = l1 /\ (redis' = redis \/ (pc[r] = "fill" /\ redis' = val[r]))
    BY <1>6 DEF QueryFails
  <2>2. CarriedInv'
    BY <1>6, <1>s, <1>t, <1>u DEF QueryFails, Answer
  <2>3. RefillsAreFresh'
    BY <2>1, <1>s, <1>t, <1>u
  <2> QED BY <2>2, <2>3, <1>l DEF FreshInv
<1> QED BY <1>1, <1>2, <1>3, <1>4, <1>5, <1>6 DEF ReaderStep

LEMMA ReaderInv ==
    ASSUME ShopInv, NEW r \in Readers, ReaderStep(r)
    PROVE  ShopInv'
<1>1. UNCHANGED <<db, outbox, topic, inbox, dead, fresh>>
  BY DEF ReaderStep, Query, ReadLocal, ReadRedis, TryLock, Load, Fill, Put, QueryFails, broadcast
<1>2. BroadcastInv' /\ ChangeIsKept'
  BY <1>1 DEF ShopInv, BroadcastInv, ChangeIsKept
<1> QED BY <1>2, ReaderType, ReaderFresh DEF ShopInv

\* A JVM evicts while no reader carries anything.
LEMMA EvictedUnderLock ==
    ASSUME ShopInv, NEW j \in Jvms, \A r \in Readers : pc[r] = "idle",
           Forget(j), redis' = Miss, Refreshed(j), UNCHANGED <<db, pc, val>>, LockInv'
    PROVE  FreshInv' /\ (\A i \in Jvms : fresh'[i] >= fresh[i]) /\ fresh'[j] = db
BY DEF ShopInv, ShopTypeOK, FreshInv, RefillsAreFresh, CarriedInv, Forget, Refreshed, Versions, Miss

\* A JVM evicts, or a cache expires, whatever the readers do.
LEMMA EvictedAnyhow ==
    ASSUME ShopInv, l1' \in [Jvms -> Changes \cup {Miss}], \A i \in Jvms : l1'[i] \in {l1[i], Miss},
           redis' \in {redis, Miss}, UNCHANGED fresh, db' \in Versions, db' >= db,
           \A r \in Readers : pc'[r] \in {"fill", "put"} => pc'[r] = pc[r] /\ val'[r] = val[r],
           LockInv'
    PROVE  FreshInv'
BY DEF ShopInv, ShopTypeOK, FreshInv, RefillsAreFresh, CarriedInv, Versions, Miss

LEMMA ForgetType ==
    ASSUME ShopTypeOK, NEW j \in Jvms, Forget(j)
    PROVE  l1' \in [Jvms -> Changes \cup {Miss}] /\ \A i \in Jvms : l1'[i] \in {l1[i], Miss}
BY DEF ShopTypeOK, Forget

LEMMA CommitKeeps ==
    ASSUME ShopInv, CommitChange, MoreChanges, UNCHANGED <<topic, inbox, dead, fresh>>
    PROVE  /\ db' \in Versions /\ db' >= db
           /\ outbox' \in [Changes -> {"none", "PENDING", "SENT", "FAILED"}]
           /\ BroadcastInv' /\ ChangeIsKept'
<1>1. db \in 0 .. MaxVersion /\ db < MaxVersion /\ db' = db + 1 /\ MaxVersion \in Nat
  BY ShopConstantsOK DEF ShopInv, ShopTypeOK, Versions, MoreChanges, CommitChange
<1>2. outbox' = [outbox EXCEPT ![db'] = "PENDING"] /\ db' \in Changes
  BY <1>1 DEF CommitChange, Changes
<1>3. outbox \in [Changes -> {"none", "PENDING", "SENT", "FAILED"}] /\ topic \subseteq Changes
  BY DEF ShopInv, ShopTypeOK
<1>4. \A v \in Changes : v <= db' => v <= db \/ v = db'
  BY <1>1 DEF Changes
<1>5. BroadcastInv'
  <2>1. \A v \in topic : v <= db'
    BY <1>1, <1>3 DEF ShopInv, BroadcastInv, Changes
  <2>2. \A v \in Changes : outbox'[v] = "PENDING" => v <= db'
    BY <1>1, <1>2, <1>3 DEF ShopInv, BroadcastInv, Changes
  <2> QED BY <2>1, <2>2 DEF ShopInv, BroadcastInv
<1>6. ChangeIsKept'
  BY <1>2, <1>3, <1>4 DEF ShopInv, ChangeIsKept
<1> QED BY <1>1, <1>2, <1>3, <1>5, <1>6 DEF Versions

LEMMA WriterInv ==
    ASSUME ShopInv, NEW j \in Jvms, WriterStep(j)
    PROVE  ShopInv'
<1>t. ShopTypeOK /\ FreshInv /\ BroadcastInv /\ ChangeIsKept /\ LockInv
  BY DEF ShopInv, FreshInv
<1>u. l1 \in [Jvms -> Changes \cup {Miss}]
  BY <1>t DEF ShopTypeOK
<1> USE DEF reading, writing, caches, broadcast
<1>1. CASE Save(j) \/ Update(j)
  <2>1. CommitChange /\ MoreChanges /\ UNCHANGED <<topic, inbox, dead, fresh, l1, redis, pc, stage, val, updater, faults>>
    BY <1>1 DEF Save, Update
  <2>2. evicting' = evicting \cup {j}
    BY <1>1 DEF Save, Update
  <2>3. LockInv'
    BY <2>1, <1>t DEF LockInv
  <2>4. FreshInv'
    BY <2>1, <2>3, <1>u, EvictedAnyhow, CommitKeeps
  <2>5. ShopTypeOK'
    BY <2>1, <2>2, <1>t, CommitKeeps DEF ShopTypeOK
  <2> QED BY <2>1, <2>4, <2>5, CommitKeeps DEF ShopInv
<1>2. CASE UpdateLock(j) \/ UpdateRefused(j)
  <2>1. /\ UNCHANGED <<db, outbox, topic, inbox, dead, fresh, l1, redis, pc, stage, val, evicting, faults>>
        /\ updater' \in Jvms \cup {NoOne}
    BY <1>2 DEF UpdateLock, UpdateRefused
  <2>2. LockInv'
    BY <1>2, <2>1, <1>t DEF UpdateLock, UpdateRefused, WriteFree, LockInv
  <2>3. FreshInv'
    BY <2>1, <2>2, <1>t DEF FreshInv, RefillsAreFresh, CarriedInv
  <2>4. ShopTypeOK'
    BY <2>1, <1>t DEF ShopTypeOK
  <2> QED BY <2>1, <2>3, <2>4, <1>t DEF ShopInv, BroadcastInv, ChangeIsKept
<1>3. CASE EvictAfterCommit(j)
  <2>1. /\ UNCHANGED <<db, outbox, topic, inbox, dead, pc, stage, val>> /\ Forget(j)
        /\ evicting' = evicting \ {j} /\ updater' = IF updater = j THEN NoOne ELSE updater
    BY <1>3 DEF EvictAfterCommit
  <2>2. LockInv'
    BY <2>1, <1>t DEF LockInv
  <2>3. CASE redis' = Miss /\ updater = j /\ Refreshed(j) /\ UNCHANGED faults
    <3>1. \A r \in Readers : pc[r] = "idle"
      BY <2>3, <1>t, ShopConstantsOK DEF LockInv
    <3>2. FreshInv' /\ (\A i \in Jvms : fresh'[i] >= fresh[i]) /\ fresh' \in [Jvms -> Versions]
      BY <2>1, <2>2, <2>3, <3>1, <1>t, EvictedUnderLock DEF Refreshed, ShopTypeOK
    <3>3. ShopTypeOK'
      BY <2>1, <2>3, <3>2, <1>t, ForgetType DEF ShopTypeOK
    <3>4. ChangeIsKept'
      BY <2>1, <3>2, <1>t DEF ChangeIsKept, Changes, Versions, ShopTypeOK
    <3> QED BY <2>1, <3>2, <3>3, <3>4, <1>t DEF ShopInv, BroadcastInv
  <2>4. CASE redis' \in {redis, Miss} /\ UNCHANGED fresh
    <3>1. FreshInv'
      BY <2>1, <2>2, <2>4, <1>t, ForgetType, EvictedAnyhow DEF ShopTypeOK, Versions
    <3>2. faults' \in 0 .. MaxFaults
      BY <1>3, <1>t, ShopConstantsOK DEF EvictAfterCommit, Fault, ShopTypeOK
    <3>3. ShopTypeOK'
      BY <2>1, <2>4, <3>2, <1>t, ForgetType DEF ShopTypeOK
    <3> QED BY <2>1, <2>4, <3>1, <3>3, <1>t DEF ShopInv, BroadcastInv, ChangeIsKept
  <2> QED BY <1>3, <2>3, <2>4 DEF EvictAfterCommit
<1>4. CASE CommitUnheard(j)
  <2>1. /\ UNCHANGED <<db, outbox, topic, inbox, dead, fresh, l1, redis, pc, stage, val>>
        /\ evicting' = evicting \ {j} /\ updater' = IF updater = j THEN NoOne ELSE updater
    BY <1>4 DEF CommitUnheard
  <2>2. faults' \in 0 .. MaxFaults
    BY <1>4, <1>t, ShopConstantsOK DEF CommitUnheard, Fault, ShopTypeOK
  <2>3. LockInv'
    BY <2>1, <1>t DEF LockInv
  <2>4. FreshInv'
    BY <2>1, <2>3, <1>t DEF FreshInv, RefillsAreFresh, CarriedInv
  <2>5. ShopTypeOK'
    BY <2>1, <2>2, <1>t DEF ShopTypeOK
  <2> QED BY <2>1, <2>4, <2>5, <1>t DEF ShopInv, BroadcastInv, ChangeIsKept
<1> QED BY <1>1, <1>2, <1>3, <1>4 DEF WriterStep

LEMMA RelayInv ==
    ASSUME ShopInv, NEW v \in Changes, RelaySend(v) \/ RelayParks(v)
    PROVE  ShopInv'
<1>t. ShopTypeOK /\ FreshInv /\ BroadcastInv /\ ChangeIsKept
  BY DEF ShopInv
<1> USE DEF reading, writing, caches
<1>1. /\ UNCHANGED <<db, dead, l1, redis, pc, stage, val, updater, evicting, fresh>>
      /\ v <= db /\ (Publish(v) \/ UNCHANGED <<topic, inbox>>)
  BY <1>t DEF RelaySend, RelayParks, BroadcastInv
<1>2. outbox' \in {outbox, [outbox EXCEPT ![v] = "SENT"], [outbox EXCEPT ![v] = "FAILED"]}
      /\ faults' \in 0 .. MaxFaults
  BY <1>t, ShopConstantsOK DEF RelaySend, RelayParks, Fault, ShopTypeOK
<1>3. FreshInv'
  BY <1>1, <1>t DEF FreshInv, RefillsAreFresh, CarriedInv, LockInv
<1>4. topic' \subseteq Changes /\ inbox' \in [Jvms -> SUBSET Changes]
  BY <1>1, <1>t DEF Publish, ShopTypeOK
<1>5. outbox' \in [Changes -> {"none", "PENDING", "SENT", "FAILED"}]
  BY <1>2, <1>t DEF ShopTypeOK
<1>6. ShopTypeOK'
  BY <1>1, <1>2, <1>4, <1>5, <1>t DEF ShopTypeOK
<1>7. BroadcastInv'
  BY <1>1, <1>2, <1>t DEF BroadcastInv, Publish, ShopTypeOK
<1>8. ChangeIsKept'
  <2>1. ASSUME outbox' = [outbox EXCEPT ![v] = "SENT"] PROVE Publish(v)
    BY <2>1, <1>t DEF RelaySend, RelayParks, ShopTypeOK
  <2>2. \A w \in Changes \ {v} : outbox'[w] = outbox[w]
    BY <1>2, <1>t DEF ShopTypeOK
  <2>3. \A j \in Jvms : inbox[j] \subseteq inbox'[j]
    BY <1>1, <1>t DEF Publish, ShopTypeOK
  <2>4. outbox'[v] \in {"PENDING", "FAILED"} \/ Publish(v)
    BY <1>2, <2>1, <1>t DEF RelaySend, RelayParks, ShopTypeOK
  <2>5. Publish(v) => \A j \in Jvms : v \in inbox'[j]
    BY DEF Publish
  <2> QED BY <1>1, <2>2, <2>3, <2>4, <2>5, <1>t DEF ChangeIsKept
<1> QED BY <1>3, <1>6, <1>7, <1>8 DEF ShopInv

LEMMA ConsumerInv ==
    ASSUME ShopInv, NEW j \in Jvms, NEW v \in Changes, ConsumerStep(j, v)
    PROVE  ShopInv'
<1>t. ShopTypeOK /\ FreshInv /\ BroadcastInv /\ ChangeIsKept /\ LockInv
  BY DEF ShopInv, FreshInv
<1> USE DEF reading, writing, caches
<1>1. UNCHANGED <<db, outbox, topic, pc, stage, val, updater, evicting>> /\ v \in inbox[j]
  BY DEF ConsumerStep, Consume, ConsumeFails, ConsumeStarves
<1>2. LockInv'
  BY <1>1, <1>t DEF LockInv
<1>3. v <= db
  BY <1>1, <1>t DEF BroadcastInv
<1>4. ASSUME Acknowledge(j, v)
      PROVE  /\ inbox' \in [Jvms -> SUBSET Changes]
             /\ \A i \in Jvms : inbox'[i] = IF i = j THEN inbox[i] \ {v} ELSE inbox[i]
  BY <1>4, <1>t DEF Acknowledge, ShopTypeOK
<1>5. CASE Consume(j, v)
  <2>1. /\ Forget(j) /\ redis' = Miss /\ Refreshed(j) /\ Acknowledge(j, v) /\ UNCHANGED <<dead, faults>>
        /\ \A r \in Readers : pc[r] = "idle"
    BY <1>5 DEF Consume, WriteFree
  <2>2. FreshInv' /\ (\A i \in Jvms : fresh'[i] >= fresh[i]) /\ fresh'[j] = db
    BY <1>1, <1>2, <2>1, EvictedUnderLock
  <2>3. fresh' \in [Jvms -> Versions]
    BY <2>1, <1>t DEF Refreshed, ShopTypeOK
  <2>4. ShopTypeOK'
    BY <1>1, <1>4, <2>1, <2>3, <1>t, ForgetType DEF ShopTypeOK
  <2>5. BroadcastInv'
    BY <1>1, <1>4, <2>1, <1>t DEF BroadcastInv
  <2>6. ChangeIsKept'
    <3>1. ASSUME NEW w \in Changes, NEW i \in Jvms, fresh[i] >= w PROVE fresh'[i] >= w
      BY <2>2, <2>3, <3>1, <1>t DEF ShopTypeOK, Versions, Changes
    <3>2. fresh'[j] >= v
      BY <1>3, <2>2, <1>t DEF ShopTypeOK, Versions, Changes
    <3> QED BY <1>1, <1>4, <2>1, <3>1, <3>2, <1>t DEF ChangeIsKept
  <2> QED BY <2>2, <2>4, <2>5, <2>6 DEF ShopInv
<1>6. CASE ConsumeFails(j, v) \/ ConsumeStarves(j, v)
  <2>1. /\ Forget(j) \/ UNCHANGED l1
        /\ UNCHANGED <<redis, fresh>>
        /\ DeadLetter(j, v) \/ UNCHANGED <<inbox, dead>>
    BY <1>6 DEF ConsumeFails, ConsumeStarves
  <2>2. faults' \in 0 .. MaxFaults
    BY <1>6, <1>t, ShopConstantsOK DEF ConsumeFails, ConsumeStarves, Fault, ShopTypeOK
  <2>3. l1' \in [Jvms -> Changes \cup {Miss}] /\ \A i \in Jvms : l1'[i] \in {l1[i], Miss}
    BY <2>1, <1>t, ForgetType DEF ShopTypeOK
  <2>4. FreshInv'
    BY <1>1, <1>2, <2>1, <2>3, <1>t, EvictedAnyhow DEF ShopTypeOK, Versions
  <2>5. ShopTypeOK'
    BY <1>1, <1>4, <2>1, <2>2, <2>3, <1>t DEF DeadLetter, ShopTypeOK
  <2>6. BroadcastInv'
    BY <1>1, <1>4, <2>1, <1>t DEF BroadcastInv, DeadLetter
  <2>7. ChangeIsKept'
    BY <1>1, <1>4, <2>1, <1>t DEF ChangeIsKept, DeadLetter
  <2> QED BY <2>4, <2>5, <2>6, <2>7 DEF ShopInv
<1> QED BY <1>5, <1>6 DEF ConsumerStep

LEMMA OtherInv ==
    ASSUME ShopInv, (\E j \in Jvms : ExpireLocal(j) \/ Crash(j)) \/ ExpireRedis \/ UNCHANGED vars
    PROVE  ShopInv'
<1>t. ShopTypeOK /\ FreshInv /\ BroadcastInv /\ ChangeIsKept /\ LockInv
  BY DEF ShopInv, FreshInv
<1> USE DEF reading, writing, caches, broadcast
<1>1. CASE (\E j \in Jvms : ExpireLocal(j)) \/ ExpireRedis \/ UNCHANGED vars
  <2>1. /\ UNCHANGED <<db, outbox, topic, inbox, dead, pc, stage, val, updater, evicting, fresh, faults>>
        /\ redis' \in {redis, Miss}
    BY <1>1 DEF ExpireLocal, ExpireRedis, vars
  <2>2. l1' \in [Jvms -> Changes \cup {Miss}] /\ \A i \in Jvms : l1'[i] \in {l1[i], Miss}
    BY <1>1, <1>t, ForgetType DEF ExpireLocal, ExpireRedis, vars, ShopTypeOK
  <2>3. LockInv'
    BY <2>1, <1>t DEF LockInv
  <2>4. FreshInv'
    BY <2>1, <2>2, <2>3, <1>t, EvictedAnyhow DEF ShopTypeOK, Versions
  <2>5. ShopTypeOK'
    BY <2>1, <2>2, <1>t DEF ShopTypeOK
  <2> QED BY <2>1, <2>4, <2>5, <1>t DEF ShopInv, BroadcastInv, ChangeIsKept
<1>2. ASSUME NEW j \in Jvms, Crash(j) PROVE ShopInv'
  <2>1. /\ UNCHANGED <<db, outbox, topic, dead, redis, fresh>> /\ Forget(j)
        /\ updater' \in {updater, NoOne} /\ evicting' \subseteq evicting
        /\ inbox' = [inbox EXCEPT ![j] = topic]
    BY <1>2 DEF Crash
  <2>2. /\ pc' \in [Readers -> {"idle", "local", "redis", "lock", "load", "fill", "put"}]
        /\ stage' \in [Readers -> {"first", "locked", "last"}]
        /\ val' \in [Readers -> Versions \cup {Miss}]
        /\ \A r \in Readers : pc'[r] # "idle" => pc'[r] = pc[r] /\ val'[r] = val[r]
        /\ \A r \in Readers : pc[r] = "idle" => pc'[r] = "idle"
        /\ faults' \in 0 .. MaxFaults
    BY <1>2, <1>t, ShopConstantsOK DEF Crash, Fault, ShopTypeOK
  <2>3. LockInv'
    BY <2>1, <2>2, <1>t DEF LockInv
  <2>4. FreshInv'
    BY <2>1, <2>2, <2>3, <1>t, ForgetType, EvictedAnyhow DEF ShopTypeOK, Versions
  <2>5. inbox' \in [Jvms -> SUBSET Changes] /\ \A i \in Jvms : inbox[i] \subseteq inbox'[i]
    BY <2>1, <1>t DEF ShopTypeOK, BroadcastInv
  <2>6. ShopTypeOK'
    BY <2>1, <2>2, <2>5, <1>t, ForgetType DEF ShopTypeOK
  <2>7. BroadcastInv'
    BY <2>1, <1>t DEF BroadcastInv, ShopTypeOK
  <2>8. ChangeIsKept'
    BY <2>1, <2>5, <1>t DEF ChangeIsKept
  <2> QED BY <2>4, <2>6, <2>7, <2>8 DEF ShopInv
<1> QED BY <1>1, <1>2

LEMMA ShopInvHolds == Spec => []ShopInv
<1>1. ShopInv /\ [Next]_vars => ShopInv'
  BY ReaderInv, WriterInv, RelayInv, ConsumerInv, OtherInv DEF Next
<1> QED BY <1>1, ShopInit, PTL DEF Spec

\* L1 never keeps the null marker, and a reader fills the caches with what it read only.
THEOREM ShopTypeCorrect == Spec => []ShopTypeOK
BY ShopInvHolds, PTL DEF ShopInv

\* No reader brings back what was evicted under the WRITE lock.
THEOREM RefillsAreFreshHolds == Spec => []RefillsAreFresh
BY ShopInvHolds, PTL DEF ShopInv, FreshInv

\* A committed change stays on its way to every JVM until it is applied or parked.
THEOREM ChangeIsKeptHolds == Spec => []ChangeIsKept
BY ShopInvHolds, PTL DEF ShopInv
=============================================================================
