---------------------------- MODULE VoucherCache ----------------------------
(***************************************************************************)
(* One seckill voucher: its rows in MySQL and their projection in Redis,   *)
(* the metadata with a logical expiry and the null marker.                 *)
(* An administrator's transaction writes Redis before it commits and puts  *)
(* the old metadata back when it is rolled back; requests rebuild what is  *)
(* missing or expired, under a lock that administrators do not take.       *)
(* The copies in the JVMs live for 30 s and only spare Redis queries: an   *)
(* action here is a query that one of them has not answered.               *)
(***************************************************************************)
EXTENDS Integers, FiniteSets

CONSTANTS
    Jvms,
    Readers,        \* request threads, with the rebuild tasks they submit
    Admins,         \* changes made by administrators, one each (a bound)
    JvmOf,          \* the JVM of a reader or an administrator
    NoOne,
    Missing,        \* no row, or no key
    MaxFaults       \* bound: failed calls, expired leases and crashes

Threads == Readers \cup Admins

ASSUME VoucherConstantsOK ==
    /\ JvmOf \in [Threads -> Jvms]
    /\ Readers \cap Admins = {}
    /\ {NoOne, Missing} \cap Threads = {}
    /\ MaxFaults \in Nat

VARIABLES
    db,             \* committed rows: the change that wrote each, or Missing
    meta, expired,  \* the hash in Redis, and whether its logical expiry is past
    null,           \* the null marker
    lasting,        \* the hash has no physical expiry
    pc, val,        \* a thread, and the rows it has in hand
    old, patch,     \* rows an administrator has read, and tables it changes
    lock,           \* holder of the rebuild lock
    faults,         \* bound
    doubt           \* ghost: changes and rebuilds have met, or one was not undone

redis == <<meta, expired, null, lasting>>
change == <<old, patch>>
vars == <<db, redis, pc, val, change, lock, faults, doubt>>

\* What is projected of tb_seckill_voucher and of tb_voucher.
Tables == {"times", "status"}

\* A voucher nobody has saved yet, or one that was saved by NoOne long ago.
Init ==
    /\ db \in {Missing, [t \in Tables |-> NoOne]}
    /\ meta \in {Missing, db}
    /\ expired = FALSE /\ null = FALSE /\ lasting = FALSE
    /\ pc = [x \in Threads |-> "idle"]
    /\ val = [x \in Threads |-> Missing]
    /\ old = [a \in Admins |-> Missing]
    /\ patch = [a \in Admins |-> {}]
    /\ lock = NoOne /\ faults = 0 /\ doubt = FALSE

Goto(x, l) == pc' = [pc EXCEPT ![x] = l]
Carry(x, v) == val' = [val EXCEPT ![x] = v]
Fault == faults < MaxFaults /\ faults' = faults + 1

\* synchronizeMetadata, or deleteVoucher
Project(v) == meta' = v /\ expired' = FALSE /\ null' = FALSE /\ lasting' = FALSE

\* synchronizeMetadata cut off after HSET: a new hash has no physical expiry yet.
HashOnly(v) ==
    /\ meta' = v /\ expired' = FALSE
    /\ lasting' = (lasting \/ meta = Missing)
    /\ UNCHANGED null

\* The calls of synchronizeMetadata fail somewhere.
ProjectFails(v) == Project(v) \/ HashOnly(v) \/ UNCHANGED redis

Loading == {r \in Readers : pc[r] \in {"load", "loaded", "sync"}}
Changing == {a \in Admins : pc[a] \notin {"idle", "done"}}

-----------------------------------------------------------------------------
(* SeckillVoucherCacheService *)

\* An expired copy is answered and then rebuilt; any other, and the null marker, is
\* answered.
Query(r) ==
    /\ pc[r] = "idle"
    /\ \/ meta # Missing /\ expired /\ Goto(r, "refresh")
       \/ meta = Missing /\ ~null /\ Goto(r, "miss")
    /\ UNCHANGED <<db, redis, val, change, lock, faults, doubt>>

\* Mutant: an expired copy stops its own rebuild.
AnyCopyWillDo(r) == meta = Missing /\ (pc[r] = "miss" => ~null)

\* The second look, under the lock: a synchronous rebuild is content with any copy, the
\* rebuild of an expired one only with one that is not expired.
StillStale(r) ==
    IF pc[r] = "miss" THEN meta = Missing /\ ~null ELSE meta = Missing \/ expired

\* rebuildSynchronously and rebuildAsynchronously; a thread that does not get the lock,
\* or finds a copy, is done.
TryLock(r) ==
    /\ pc[r] \in {"miss", "refresh"}
    /\ IF lock = NoOne /\ StillStale(r)
       THEN lock' = r /\ Goto(r, "load") /\ doubt' = (doubt \/ Changing # {})
       ELSE Goto(r, "idle") /\ UNCHANGED <<lock, doubt>>
    /\ UNCHANGED <<db, redis, val, change, faults>>

\* loadFromDatabase: one table after the other
LoadTimes(r) ==
    /\ pc[r] = "load"
    /\ Carry(r, db)
    /\ Goto(r, "loaded")
    /\ UNCHANGED <<db, redis, change, lock, faults, doubt>>

LoadStatus(r) ==
    /\ pc[r] = "loaded"
    /\ Carry(r, IF val[r] = Missing THEN Missing ELSE [val[r] EXCEPT !["status"] = db["status"]])
    /\ Goto(r, "sync")
    /\ UNCHANGED <<db, redis, change, lock, faults, doubt>>

Leave(r) ==
    /\ lock' = IF lock = r THEN NoOne ELSE lock
    /\ Goto(r, "idle") /\ Carry(r, Missing)

\* synchronizeMetadata, or cacheNull, which leaves the metadata alone
Rebuild(r) ==
    /\ pc[r] = "sync"
    /\ \/ val[r] # Missing /\ Project(val[r])
       \/ val[r] = Missing /\ null' = TRUE /\ UNCHANGED <<meta, expired, lasting>>
    /\ Leave(r)
    /\ UNCHANGED <<db, change, faults, doubt>>

\* Redis or MySQL fails, or the rebuild pool is full; a write may have been carried out.
QueryFails(r) ==
    /\ Fault
    /\ pc[r] # "idle"
    /\ UNCHANGED redis \/ (pc[r] = "sync" /\ val[r] # Missing /\ ProjectFails(val[r]))
    /\ Leave(r)
    /\ UNCHANGED <<db, change, doubt>>

-----------------------------------------------------------------------------
(* addSeckillVoucher and updateSeckillVoucher *)

Start(a, tables) ==
    /\ pc[a] = "idle"
    /\ patch' = [patch EXCEPT ![a] = tables]
    /\ old' = [old EXCEPT ![a] = db]
    /\ Goto(a, "open")
    /\ doubt' = (doubt \/ Changing \cup Loading # {})
    /\ UNCHANGED <<db, redis, val, lock, faults>>

\* Its id is new.
Add(a) == db = Missing /\ (\A b \in Admins : pc[b] = "idle") /\ Start(a, Tables)

Update(a) == db # Missing /\ \E tables \in SUBSET Tables : Start(a, tables)

HasRowLocks(a) == pc[a] \in {"write", "commit"}

\* A field that is not given keeps the value in rows.
Patched(a, rows) == [t \in Tables |-> IF t \in patch[a] THEN a ELSE rows[t]]

\* The UPDATEs of the given fields; each waits for the row lock of another change.
Write(a) ==
    /\ pc[a] = "open"
    /\ \A b \in Admins : HasRowLocks(b) => patch[a] \cap patch[b] = {}
    /\ Carry(a, Patched(a, old[a]))
    /\ Goto(a, "write")
    /\ UNCHANGED <<db, redis, change, lock, faults, doubt>>

Synchronize(a) ==
    /\ pc[a] = "write"
    /\ Project(val[a])
    /\ Goto(a, "commit")
    /\ UNCHANGED <<db, val, change, lock, faults, doubt>>

\* Redis fails, before, between or after the writes, and the transaction is rolled back.
SynchronizeFails(a) ==
    /\ pc[a] = "write"
    /\ Fault
    /\ ProjectFails(val[a])
    /\ Goto(a, "undo")
    /\ UNCHANGED <<db, val, change, lock, doubt>>

CommitRows(a) == db' = Patched(a, db)

Done(a) ==
    /\ Goto(a, "done") /\ Carry(a, Missing)
    /\ old' = [old EXCEPT ![a] = Missing]
    /\ patch' = [patch EXCEPT ![a] = {}]

Commit(a) ==
    /\ pc[a] = "commit"
    /\ CommitRows(a)
    /\ Done(a)
    /\ UNCHANGED <<redis, lock, faults, doubt>>

\* Rolled back, or committed without an answer: STATUS_UNKNOWN is compensated, too.
CommitFails(a) ==
    /\ pc[a] = "commit"
    /\ Fault
    /\ UNCHANGED <<db, doubt>> \/ (CommitRows(a) /\ doubt' = TRUE)
    /\ Goto(a, "undo")
    /\ UNCHANGED <<redis, val, change, lock>>

\* Mutant: a new voucher stays in Redis.
UndoUpdateOnly(a) == IF old[a] = Missing THEN val[a] ELSE old[a]

\* What the compensation puts back; Missing is deleteVoucher.
Restored(a) == old[a]

\* afterCompletion of registerRollbackCompensation; its failure is logged.
Undo(a) ==
    /\ pc[a] = "undo"
    /\ \/ Project(Restored(a)) /\ UNCHANGED <<faults, doubt>>
       \/ Fault /\ doubt' = TRUE /\ UNCHANGED redis
    /\ Done(a)
    /\ UNCHANGED <<db, lock>>

-----------------------------------------------------------------------------

ExpireLogically ==
    /\ meta # Missing /\ ~expired
    /\ expired' = TRUE
    /\ UNCHANGED <<db, meta, null, lasting, pc, val, change, lock, faults, doubt>>

\* At least a day after the logical expiry.
ExpireMeta ==
    /\ expired /\ ~lasting
    /\ meta' = Missing /\ expired' = FALSE
    /\ UNCHANGED <<db, null, lasting, pc, val, change, lock, faults, doubt>>

ExpireNull ==
    /\ null
    /\ null' = FALSE
    /\ UNCHANGED <<db, meta, expired, lasting, pc, val, change, lock, faults, doubt>>

\* The holder of the rebuild lock is slow.
LeaseEnds ==
    /\ lock # NoOne
    /\ Fault
    /\ lock' = NoOne
    /\ UNCHANGED <<db, redis, pc, val, change, doubt>>

\* The JVM restarts, and SeckillVoucherStockInitializer projects the rows it finds, as
\* the thread s, or fails to.  An open transaction is rolled back, and nothing is put
\* back in Redis, whose writes may have been cut off.
Crash(j) ==
    LET here == {x \in Threads : JvmOf[x] = j}
        cut == Changing \cap here
        writing == {a \in cut : pc[a] = "write"}
    IN  /\ Fault
        /\ \E s \in (here \cap Readers) \cup {NoOne} :
               /\ s # NoOne => db # Missing
               /\ pc' = [x \in Threads |-> IF x = s THEN "load"
                                           ELSE IF x \in cut THEN "done"
                                           ELSE IF x \in here \cap Readers THEN "idle" ELSE pc[x]]
               /\ doubt' = (doubt \/ cut # {} \/ (s # NoOne /\ Changing # {}))
        /\ val' = [x \in Threads |-> IF x \in here THEN Missing ELSE val[x]]
        /\ old' = [a \in Admins |-> IF a \in cut THEN Missing ELSE old[a]]
        /\ patch' = [a \in Admins |-> IF a \in cut THEN {} ELSE patch[a]]
        /\ lock' = IF lock \in here THEN NoOne ELSE lock
        /\ UNCHANGED redis \/ \E a \in writing : HashOnly(val[a])
        /\ UNCHANGED db

ReaderStep(r) == Query(r) \/ TryLock(r) \/ LoadTimes(r) \/ LoadStatus(r) \/ Rebuild(r)

AdminStep(a) ==
    Write(a) \/ Synchronize(a) \/ SynchronizeFails(a) \/ Commit(a) \/ CommitFails(a) \/ Undo(a)

Next ==
    \/ \E r \in Readers : ReaderStep(r) \/ QueryFails(r)
    \/ \E a \in Admins : Add(a) \/ Update(a) \/ AdminStep(a)
    \/ \E j \in Jvms : Crash(j)
    \/ ExpireLogically \/ ExpireMeta \/ ExpireNull \/ LeaseEnds

Spec == Init /\ [][Next]_vars

\* The voucher is queried again and again, and time passes.  Queries renew the metadata
\* of a voucher that exists, so ExpireMeta is fair only where there are no rows.
LiveSpec ==
    /\ Spec
    /\ \A r \in Readers : WF_vars(ReaderStep(r))
    /\ \A a \in Admins : WF_vars(AdminStep(a))
    /\ WF_vars(ExpireLogically) /\ WF_vars(ExpireNull)
    /\ WF_vars(db = Missing /\ ExpireMeta)

-----------------------------------------------------------------------------

\* Redis shows the committed rows whenever no change is open, unless a change has met
\* another one or a rebuild, or one was cut off or committed unheard: neither a roll-back
\* at any step, nor a slow rebuild, nor two rebuilds at once leave it wrong.
RedisMirrors ==
    ~doubt /\ Changing = {} => meta \in {Missing, db}

\* Whatever the changes, the rebuilds, the crashes and the roll-backs have left behind,
\* Redis shows the committed rows in the end, or nothing of a voucher that was never
\* saved; and the metadata of a saved one is there again and again.  The exception is
\* the hash of a voucher that was not saved and got no expiry before the crash: it
\* stays, because a rebuild that finds no rows does not delete it.
Abandoned == db = Missing /\ lasting

Converges ==
    /\ <>[](Abandoned \/ meta \in {Missing, db})
    /\ []<>(Abandoned \/ meta = db)
=============================================================================
