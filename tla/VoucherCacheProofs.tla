------------------------- MODULE VoucherCacheProofs -------------------------
(***************************************************************************)
(* Until changes and rebuilds meet, Redis never shows anything but the     *)
(* committed rows once a change is over, however it ended, for any number  *)
(* of requests, administrators and JVMs.                                   *)
(***************************************************************************)
EXTENDS VoucherCache, TLAPS

\* The arrays have their places, and a voucher has both of its rows.
Shaped ==
    /\ DOMAIN pc = Threads /\ DOMAIN val = Threads
    /\ DOMAIN old = Admins /\ DOMAIN patch = Admins
    /\ db # Missing => db = [t \in Tables |-> db[t]]

\* One change is open at a time, and no rebuild is reading rows next to it.
Alone == (\A a, b \in Changing : a = b) /\ (Changing = {} \/ Loading = {})

\* Whatever a rebuild has read is what is committed still.
Fetched == \A r \in Readers : pc[r] \in {"loaded", "sync"} => val[r] = db

\* An open change has the committed rows at hand to put them back, and until it has
\* failed Redis shows either these or the rows it is going to commit.
Restorable ==
    \A a \in Changing :
        /\ old[a] = db
        /\ pc[a] \in {"write", "commit"} => val[a] = Patched(a, db)
        /\ pc[a] \in {"open", "write"} => meta \in {Missing, db}
        /\ pc[a] = "commit" => meta \in {Missing, val[a]}

Undoubted == Alone /\ Fetched /\ Restorable /\ (Changing = {} => meta \in {Missing, db})

VoucherInv == Shaped /\ (~doubt => Undoubted)

LEMMA InitVoucherInv == Init => VoucherInv
BY VoucherConstantsOK
DEF Init, VoucherInv, Shaped, Undoubted, Alone, Fetched, Restorable, Changing, Loading, Tables,
    Threads

\* Readers and administrators are different threads.
LEMMA Apart ==
    /\ \A r \in Readers : r \in Threads /\ r \notin Admins
    /\ \A a \in Admins : a \in Threads
BY VoucherConstantsOK DEF Threads

\* Doubt does not go away.
LEMMA DoubtStays ==
    ASSUME Next, ~doubt' PROVE ~doubt
BY DEF Next, ReaderStep, Query, TryLock, LoadTimes, LoadStatus, Rebuild, QueryFails, Add, Update,
       Start, AdminStep, Write, Synchronize, SynchronizeFails, Commit, CommitFails, Undo, Crash,
       ExpireLogically, ExpireMeta, ExpireNull, LeaseEnds

LEMMA ShapedStep == Shaped /\ [Next]_vars => Shaped'
<1> SUFFICES ASSUME Shaped, [Next]_vars PROVE Shaped'
  OBVIOUS
<1> USE DEF Shaped, Goto, Carry, Leave, Done
<1>1. CASE UNCHANGED vars
  BY <1>1 DEF vars, change
<1>2. ASSUME NEW r \in Readers, ReaderStep(r) \/ QueryFails(r) PROVE Shaped'
  BY <1>2 DEF ReaderStep, Query, TryLock, LoadTimes, LoadStatus, Rebuild, QueryFails, change
<1>3. ASSUME NEW a \in Admins, Add(a) \/ Update(a) PROVE Shaped'
  BY <1>3 DEF Add, Update, Start
<1>4. ASSUME NEW a \in Admins, AdminStep(a) PROVE Shaped'
  BY <1>4 DEF AdminStep, Write, Synchronize, SynchronizeFails, Commit, CommitFails, Undo,
              CommitRows, Patched, change
<1>5. ASSUME NEW j \in Jvms, Crash(j) PROVE Shaped'
  BY <1>5 DEF Crash
<1>6. CASE ExpireLogically \/ ExpireMeta \/ ExpireNull \/ LeaseEnds
  BY <1>6 DEF ExpireLogically, ExpireMeta, ExpireNull, LeaseEnds, change
<1> QED BY <1>1, <1>2, <1>3, <1>4, <1>5, <1>6 DEF Next

-----------------------------------------------------------------------------
(***************************************************************************)
(* Requests and time: no change moves.                                     *)
(***************************************************************************)

\* Redis may lose the metadata at any time; it may get the committed rows when no change
\* is open.
Harmless == meta' \in {Missing, meta} \/ (Changing = {} /\ meta' = db)

Spared(a) ==
    /\ pc'[a] = pc[a]
    /\ a \in Changing => val'[a] = val[a] /\ old'[a] = old[a] /\ patch'[a] = patch[a]

LEMMA ChangesRest ==
    ASSUME Undoubted, db' = db, \A a \in Admins : Spared(a),
           Harmless, Fetched', Loading' \subseteq Loading \/ Changing = {}
    PROVE  Undoubted'
<1>1. Changing' = Changing
  BY DEF Changing, Spared
<1>2. \A a \in Changing : Patched(a, db)' = Patched(a, db) /\ a \in Admins
  BY DEF Changing, Patched, Spared
<1>3. Alone'
  BY <1>1 DEF Undoubted, Alone
<1>4. Restorable'
  BY <1>1, <1>2 DEF Undoubted, Restorable, Harmless, Spared
<1> QED BY <1>1, <1>3, <1>4 DEF Undoubted, Harmless

LEMMA ReaderKeeps ==
    ASSUME VoucherInv, NEW r \in Readers, ReaderStep(r) \/ QueryFails(r), ~doubt'
    PROVE  Undoubted'
<1> USE Apart DEF Goto, Carry, Leave
<1>0. UNCHANGED <<db, change>>
  BY DEF ReaderStep, Query, TryLock, LoadTimes, LoadStatus, Rebuild, QueryFails
<1>1. ~doubt /\ Undoubted /\ Shaped /\ UNCHANGED <<db, change>>
  BY <1>0, DoubtStays DEF VoucherInv, Next
<1>2. \A x \in Threads : x # r => pc'[x] = pc[x] /\ val'[x] = val[x]
  BY <1>1 DEF Shaped, ReaderStep, Query, TryLock, LoadTimes, LoadStatus, Rebuild, QueryFails
<1>3. \A a \in Admins : Spared(a)
  BY <1>0, <1>2 DEF Spared, change
<1>4. \A q \in Readers : q # r => q \in Threads /\ (q \in Loading' <=> q \in Loading)
  BY <1>2 DEF Loading
<1>5. pc[r] = "sync" => Changing = {} /\ val[r] = db
  BY <1>1 DEF Undoubted, Alone, Fetched, Loading
<1>6. CASE Query(r) \/ Rebuild(r) \/ QueryFails(r)
  <2>1. pc'[r] \in {"idle", "refresh", "miss"}
    BY <1>1, <1>6 DEF Shaped, Query, Rebuild, QueryFails
  <2>2. Harmless
    BY <1>5, <1>6 DEF Harmless, Query, Rebuild, QueryFails, ProjectFails, Project, HashOnly, redis
  <2>3. Loading' \subseteq Loading /\ Fetched'
    BY <1>1, <1>2, <1>4, <2>1 DEF Loading, Fetched, Undoubted
  <2> QED BY <1>1, <1>3, <2>2, <2>3, ChangesRest
<1>7. CASE TryLock(r)
  <2>1. pc'[r] = "idle" \/ (pc'[r] = "load" /\ Changing = {})
    BY <1>1, <1>7 DEF Shaped, TryLock
  <2>2. Harmless
    BY <1>7 DEF Harmless, TryLock, redis
  <2>3. (Loading' \subseteq Loading \/ Changing = {}) /\ Fetched'
    BY <1>1, <1>2, <1>4, <2>1 DEF Loading, Fetched, Undoubted
  <2> QED BY <1>1, <1>3, <2>2, <2>3, ChangesRest
<1>8. CASE LoadTimes(r) \/ LoadStatus(r)
  <2>1. val'[r] = db
    <3>1. CASE LoadTimes(r)
      BY <1>1, <3>1 DEF Shaped, LoadTimes
    <3>2. CASE LoadStatus(r)
      <4>1. val[r] = db
        BY <1>1, <3>2 DEF LoadStatus, Undoubted, Fetched
      <4>2. val'[r] = IF db = Missing THEN Missing ELSE [db EXCEPT !["status"] = db["status"]]
        BY <1>1, <3>2, <4>1 DEF Shaped, LoadStatus
      <4> QED BY <1>1, <4>2 DEF Shaped, Tables
    <3> QED BY <1>8, <3>1, <3>2
  <2>2. r \in Loading /\ Harmless
    BY <1>8 DEF Loading, Harmless, LoadTimes, LoadStatus, redis
  <2>3. Loading' \subseteq Loading /\ Fetched'
    BY <1>1, <1>2, <1>4, <2>1, <2>2 DEF Loading, Fetched, Undoubted
  <2> QED BY <1>1, <1>3, <2>2, <2>3, ChangesRest
<1> QED BY <1>6, <1>7, <1>8 DEF ReaderStep

LEMMA TimeKeeps ==
    ASSUME VoucherInv, ExpireLogically \/ ExpireMeta \/ ExpireNull \/ LeaseEnds, ~doubt'
    PROVE  Undoubted'
<1>1. /\ Undoubted /\ db' = db /\ UNCHANGED <<pc, val>> /\ Harmless
      /\ \A a \in Admins : Spared(a)
  BY DEF VoucherInv, ExpireLogically, ExpireMeta, ExpireNull, LeaseEnds, Harmless, redis, change,
         Spared
<1>2. Fetched' /\ Loading' = Loading
  BY <1>1 DEF Undoubted, Fetched, Loading
<1> QED BY <1>1, <1>2, ChangesRest

\* A crash that leaves no doubt hits no change; what its JVM reads now it reads alone.
LEMMA CrashKeeps ==
    ASSUME VoucherInv, NEW j \in Jvms, Crash(j), ~doubt'
    PROVE  Undoubted'
<1> DEFINE here == {x \in Threads : JvmOf[x] = j}
<1>1. Undoubted /\ Changing \cap here = {}
  BY DEF VoucherInv, Crash
<1>2. PICK s \in (here \cap Readers) \cup {NoOne} :
        /\ pc' = [x \in Threads |-> IF x = s THEN "load"
                                    ELSE IF x \in Changing \cap here THEN "done"
                                    ELSE IF x \in here \cap Readers THEN "idle" ELSE pc[x]]
        /\ s # NoOne => Changing = {}
  BY DEF Crash
<1>3. /\ db' = db /\ meta' = meta
      /\ val' = [x \in Threads |-> IF x \in here THEN Missing ELSE val[x]]
  BY <1>1 DEF Crash, redis
<1>4. \A a \in Admins : old'[a] = old[a] /\ patch'[a] = patch[a]
  BY <1>1 DEF Crash
<1>5. \A a \in Admins : Spared(a)
  BY <1>1, <1>2, <1>3, <1>4, Apart, VoucherConstantsOK DEF Spared, Changing
<1>6. \A r \in Readers : pc'[r] \in {pc[r], "idle"} \/ (pc'[r] = "load" /\ Changing = {})
  BY <1>2, Apart, VoucherConstantsOK DEF Changing
<1>7. \A r \in Readers : pc'[r] \in {"loaded", "sync"} => r \notin here
  BY <1>2, Apart
<1>8. Fetched'
  BY <1>1, <1>3, <1>6, <1>7, Apart DEF Undoubted, Fetched
<1>9. Loading' \subseteq Loading \/ Changing = {}
  BY <1>6 DEF Loading
<1> QED BY <1>1, <1>3, <1>5, <1>8, <1>9, ChangesRest DEF Harmless

-----------------------------------------------------------------------------
(***************************************************************************)
(* Changes.                                                                *)
(***************************************************************************)

LEMMA StartKeeps ==
    ASSUME VoucherInv, NEW a \in Admins, NEW tables, Start(a, tables), ~doubt'
    PROVE  Undoubted'
<1>1. Undoubted /\ Shaped /\ Changing = {} /\ Loading = {}
  BY DEF VoucherInv, Start
<1>2. /\ db' = db /\ meta' = meta /\ val' = val
      /\ pc' = [pc EXCEPT ![a] = "open"] /\ old'[a] = db
  BY <1>1, Apart DEF Start, Goto, Shaped, redis
<1>3. Changing' = {a}
  BY <1>1, <1>2, Apart DEF Changing, Shaped
<1>4. Loading' = {} /\ Fetched'
  BY <1>1, <1>2, Apart DEF Loading, Undoubted, Fetched, Shaped
<1>5. pc'[a] = "open"
  BY <1>1, <1>2, Apart DEF Shaped
<1>6. Restorable'
  BY <1>1, <1>2, <1>3, <1>5 DEF Restorable, Undoubted
<1> QED BY <1>3, <1>4, <1>6 DEF Undoubted, Alone

\* A step of the only open change a, which leaves it as Restorable wants it, or over.
LEMMA ChangeGoesOn ==
    ASSUME Shaped, Undoubted, NEW a \in Changing,
           NEW l \in {"write", "commit", "undo", "done"}, pc' = [pc EXCEPT ![a] = l],
           l # "done" => old'[a] = db',
           l \in {"write", "commit"} => val'[a] = Patched(a, db)',
           l = "write" => meta' \in {Missing, db'},
           l = "commit" => meta' \in {Missing, val'[a]},
           l = "done" => meta' \in {Missing, db'}
    PROVE  Undoubted'
<1>1. a \in Admins /\ a \in Threads /\ pc'[a] = l
  BY Apart DEF Changing, Shaped
<1>2. Changing = {a} /\ Loading = {}
  BY DEF Undoubted, Alone
<1>3. \A x \in Threads : x # a => pc'[x] = pc[x]
  BY DEF Shaped
<1>4. Changing' \subseteq {a} /\ (Changing' = {} <=> l = "done")
  BY <1>1, <1>2, <1>3, Apart DEF Changing
<1>5. Loading' = {} /\ Fetched'
  BY <1>1, <1>2, <1>3, Apart DEF Loading, Fetched
<1>6. Alone'
  BY <1>4, <1>5 DEF Alone
<1>7. Restorable'
  BY <1>1, <1>4 DEF Restorable
<1> QED BY <1>4, <1>5, <1>6, <1>7 DEF Undoubted

LEMMA AdminKeeps ==
    ASSUME VoucherInv, NEW a \in Admins, AdminStep(a), ~doubt'
    PROVE  Undoubted'
<1>1. /\ Undoubted /\ Shaped /\ a \in Changing /\ a \in Threads
  BY DoubtStays, Apart
  DEF VoucherInv, Next, Changing, AdminStep, Write, Synchronize, SynchronizeFails, Commit,
      CommitFails, Undo
<1>2. /\ old[a] = db
      /\ pc[a] \in {"write", "commit"} => val[a] = Patched(a, db)
      /\ pc[a] = "open" => meta \in {Missing, db}
      /\ pc[a] = "commit" => meta \in {Missing, val[a]}
  BY <1>1 DEF Undoubted, Restorable
<1> USE DEF Goto, Carry
<1>3. CASE Write(a)
  <2>1. /\ pc' = [pc EXCEPT ![a] = "write"] /\ old' = old /\ db' = db /\ meta' = meta
        /\ patch' = patch /\ val'[a] = Patched(a, old[a]) /\ pc[a] = "open"
    BY <1>1, <1>3 DEF Write, Shaped, redis, change
  <2>2. Patched(a, db)' = Patched(a, db)
    BY <2>1 DEF Patched
  <2> QED BY <1>1, <1>2, <2>1, <2>2, ChangeGoesOn
<1>4. CASE Synchronize(a)
  <2>1. /\ pc' = [pc EXCEPT ![a] = "commit"] /\ old' = old /\ db' = db /\ meta' = val[a]
        /\ patch' = patch /\ val' = val /\ pc[a] = "write"
    BY <1>4 DEF Synchronize, Project, change
  <2>2. Patched(a, db)' = Patched(a, db)
    BY <2>1 DEF Patched
  <2> QED BY <1>1, <1>2, <2>1, <2>2, ChangeGoesOn
<1>5. CASE SynchronizeFails(a)
  <2>1. /\ pc' = [pc EXCEPT ![a] = "undo"] /\ old' = old /\ db' = db
    BY <1>5 DEF SynchronizeFails, change
  <2> QED BY <1>1, <1>2, <2>1, ChangeGoesOn
<1>6. CASE Commit(a)
  <2>1. /\ pc' = [pc EXCEPT ![a] = "done"] /\ db' = Patched(a, db) /\ meta' = meta
        /\ pc[a] = "commit"
    BY <1>6 DEF Commit, Done, CommitRows, redis
  <2> QED BY <1>1, <1>2, <2>1, ChangeGoesOn
<1>7. CASE CommitFails(a)
  <2>1. /\ pc' = [pc EXCEPT ![a] = "undo"] /\ old' = old /\ db' = db
    BY <1>7 DEF CommitFails, change
  <2> QED BY <1>1, <1>2, <2>1, ChangeGoesOn
<1>8. CASE Undo(a)
  <2>1. /\ pc' = [pc EXCEPT ![a] = "done"] /\ meta' = old[a] /\ db' = db
    BY <1>8 DEF Undo, Done, Project, Restored
  <2> QED BY <1>1, <1>2, <2>1, ChangeGoesOn
<1> QED BY <1>3, <1>4, <1>5, <1>6, <1>7, <1>8 DEF AdminStep

-----------------------------------------------------------------------------

LEMMA VoucherStep == VoucherInv /\ [Next]_vars => VoucherInv'
<1> SUFFICES ASSUME VoucherInv, [Next]_vars PROVE VoucherInv'
  OBVIOUS
<1>1. Shaped'
  BY ShapedStep DEF VoucherInv
<1>2. CASE UNCHANGED vars
  BY <1>1, <1>2
  DEF vars, redis, change, VoucherInv, Undoubted, Alone, Fetched, Restorable, Changing, Loading,
      Patched
<1>3. CASE Next
  <2> SUFFICES ASSUME ~doubt' PROVE Undoubted'
    BY <1>1 DEF VoucherInv
  <2>1. ASSUME NEW a \in Admins, Add(a) \/ Update(a) PROVE Undoubted'
    BY <2>1, StartKeeps DEF Add, Update
  <2> QED BY <1>3, <2>1, ReaderKeeps, TimeKeeps, CrashKeeps, AdminKeeps DEF Next
<1> QED BY <1>1, <1>2, <1>3

\* A change of a voucher that ends, in whatever way, leaves Redis with the committed rows
\* or with nothing, as long as it met no other change and no rebuild and was undone if it
\* had to be: a failed write is put back, and a slow rebuild writes what is still true.
THEOREM RedisMirrorsHolds == Spec => []RedisMirrors
<1>1. VoucherInv => RedisMirrors
  BY DEF VoucherInv, Undoubted, RedisMirrors
<1> QED BY <1>1, InitVoucherInv, VoucherStep, PTL DEF Spec
=============================================================================
