------------------------- MODULE HandoffRelayProofs -------------------------
(***************************************************************************)
(* No accepted order is lost between Redis and MySQL, for any number of    *)
(* relays, orders and failures: a batch is deleted from Redis only by a    *)
(* relay whose insert of that batch is committed, and rows stay.           *)
(***************************************************************************)
EXTENDS HandoffRelay, FiniteSetTheorems, TLAPS

\* What a relay takes for committed is in the outbox.
Durable == \A r \in Relays : committed[r] => Top(r) \subseteq outbox

RelayInv == RelayTypeOK /\ Durable /\ NoOrderLost /\ AcceptedUntilDurable

LEMMA ScoreOK == RelayTypeOK => Cardinality(Admitted) + 1 \in Nat \ {0}
<1> SUFFICES ASSUME RelayTypeOK PROVE Cardinality(Admitted) + 1 \in Nat \ {0}
    OBVIOUS
<1>1. IsFiniteSet(Admitted)
    BY RelayConstantsOK, FS_Subset DEF Admitted
<1> QED
    BY <1>1, FS_CardinalityType

LEMMA RelayInvInit == Init => RelayInv
BY RelayConstantsOK
DEF Init, RelayInv, RelayTypeOK, Durable, NoOrderLost, AcceptedUntilDurable, Admitted

LEMMA RelayInvStep == RelayInv /\ [Next]_vars => RelayInv'
<1> SUFFICES ASSUME RelayInv, [Next]_vars PROVE RelayInv'
    OBVIOUS
<1> USE RelayConstantsOK DEF RelayInv, RelayTypeOK, redis, relay, Idle
<1>1. ASSUME NEW o \in Orders, Admit(o) PROVE RelayInv'
  <2>1. RelayTypeOK' /\ Durable'
    BY <1>1, ScoreOK DEF Admit, Durable, Top
  <2>2. Admitted' = Admitted \cup {o}
    <3>1. PICK n \in Nat \ {0} : score' = [score EXCEPT ![o] = n]
      BY <1>1, ScoreOK DEF Admit
    <3> QED
      BY <3>1 DEF Admitted
  <2> QED
    BY <1>1, <2>1, <2>2 DEF Admit, NoOrderLost, AcceptedUntilDurable
<1>2. ASSUME LeaseExpires PROVE RelayInv'
    BY <1>2 DEF LeaseExpires, Durable, Top, NoOrderLost, AcceptedUntilDurable, Admitted
<1>3. ASSUME NEW r \in Relays, AcquireOrRenewLease(r) PROVE RelayInv'
    BY <1>3 DEF AcquireOrRenewLease, Obtainable, Durable, Top, NoOrderLost,
                AcceptedUntilDurable, Admitted
<1>4. ASSUME NEW r \in Relays, Read(r) PROVE RelayInv'
  <2>1. FindFirst(BatchSize) \in SUBSET Orders
    BY DEF FindFirst
  <2>2. ~committed[r]
    BY <1>4 DEF Read
  <2>3. work' \in [Relays -> Seq(SUBSET Orders)]
    <3>1. <<FindFirst(BatchSize)>> \in Seq(SUBSET Orders)
      BY <2>1
    <3> QED
      BY <1>4, <3>1 DEF Read
  <2>5. RelayTypeOK'
    BY <1>4, <2>2, <2>3 DEF Read
  <2>4. Durable'
    BY <1>4, <2>2 DEF Read, Durable, Top
  <2> QED
    BY <1>4, <2>4, <2>5 DEF Read, NoOrderLost, AcceptedUntilDurable, Admitted
<1>5. ASSUME NEW r \in Relays, EndRound(r) PROVE RelayInv'
    BY <1>5 DEF EndRound, Durable, Top, NoOrderLost, AcceptedUntilDurable, Admitted
<1>6. ASSUME NEW r \in Relays, InsertCommitted(r) PROVE RelayInv'
  <2>1. Top(r) \subseteq Orders /\ Top(r) \cap Refused = {}
    BY <1>6 DEF InsertCommitted, Working, Top, Conflicts
  <2>2. RelayTypeOK'
    BY <1>6, <2>1 DEF InsertCommitted, Working
  <2>3. Durable'
    BY <1>6, <2>1 DEF InsertCommitted, Durable, Top
  <2> QED
    BY <1>6, <2>2, <2>3 DEF InsertCommitted, NoOrderLost, AcceptedUntilDurable, Admitted
<1>7. ASSUME NEW r \in Relays, InsertRefused(r) PROVE RelayInv'
  <2>1. ~committed[r] /\ Top(r) \in SUBSET Orders /\ Tail(work[r]) \in Seq(SUBSET Orders)
    BY <1>7 DEF InsertRefused, Working, Top
  <2> DEFINE halves == <<Left(Top(r)), Right(Top(r), Left(Top(r)))>>
  <2>2. halves \in Seq(SUBSET Orders)
    BY <2>1 DEF Left, Right
  <2>3. halves \o Tail(work[r]) \in Seq(SUBSET Orders)
    BY <2>1, <2>2
  <2>4. work' \in [Relays -> Seq(SUBSET Orders)]
    BY <1>7, <2>3 DEF InsertRefused
  <2>7. /\ pc' \in [Relays -> {"lease", "read", "work", "isolate", "stopped"}]
        /\ UNCHANGED <<redis, outbox, lease, committed, faults>>
    BY <1>7 DEF InsertRefused
  <2>8. \A s \in Relays : committed'[s] => pc'[s] = "work" /\ work'[s] # <<>>
    BY <1>7, <2>1, <2>7 DEF InsertRefused
  <2>9. \A s \in Relays : pc'[s] = "isolate" => work'[s] # <<>>
    <3>1. CASE pc' = [pc EXCEPT ![r] = "isolate"] /\ UNCHANGED work
      BY <1>7, <3>1 DEF InsertRefused, Working
    <3>2. CASE UNCHANGED pc
      BY <1>7, <3>2 DEF InsertRefused, Working
    <3> QED
      BY <1>7, <3>1, <3>2 DEF InsertRefused
  <2>5. RelayTypeOK'
    BY <2>4, <2>7, <2>8, <2>9
  <2>6. Durable'
    BY <1>7, <2>1 DEF InsertRefused, Durable, Top
  <2> QED
    BY <1>7, <2>5, <2>6 DEF InsertRefused, NoOrderLost, AcceptedUntilDurable, Admitted
<1>8. ASSUME NEW r \in Relays, Working(r), Pop(r), UNCHANGED <<outbox, pc>> PROVE Durable'
    BY <1>8 DEF Working, Pop, Durable, Top
<1>9. ASSUME NEW r \in Relays, committed[r], Complete(Top(r)), UNCHANGED outbox
      PROVE  /\ handoff' \subseteq Orders /\ accepted' \subseteq Orders
             /\ quarantine' \subseteq Orders
             /\ NoOrderLost' /\ AcceptedUntilDurable'
    BY <1>9 DEF Complete, Durable, NoOrderLost, AcceptedUntilDurable, Admitted
<1>10. ASSUME NEW B, QuarantineEffect(B), UNCHANGED outbox
       PROVE  /\ handoff' \subseteq Orders /\ accepted' \subseteq Orders
              /\ quarantine' \subseteq Orders
              /\ NoOrderLost' /\ AcceptedUntilDurable'
    BY <1>10 DEF QuarantineEffect, Found, NoOrderLost, AcceptedUntilDurable, Admitted
<1>11. ASSUME NEW r \in Relays, CompleteBatch(r) PROVE RelayInv'
  <2>1. Tail(work[r]) \in Seq(SUBSET Orders)
    BY <1>11 DEF CompleteBatch, Working
  <2>2. Durable'
    BY <1>8, <1>11 DEF CompleteBatch
  <2>3. /\ handoff' \subseteq Orders /\ accepted' \subseteq Orders
        /\ quarantine' \subseteq Orders /\ NoOrderLost' /\ AcceptedUntilDurable'
    BY <1>9, <1>11 DEF CompleteBatch
  <2>4. RelayTypeOK'
    BY <1>11, <2>1, <2>3 DEF CompleteBatch, Complete, Pop
  <2> QED
    BY <2>2, <2>3, <2>4
<1>12. ASSUME NEW r \in Relays, Quarantine(r) PROVE RelayInv'
  <2>1. Tail(work[r]) \in Seq(SUBSET Orders)
    BY <1>12 DEF Quarantine
  <2>2. ~committed[r]
    BY <1>12 DEF Quarantine
  <2>3. /\ handoff' \subseteq Orders /\ accepted' \subseteq Orders
        /\ quarantine' \subseteq Orders /\ NoOrderLost' /\ AcceptedUntilDurable'
    BY <1>10, <1>12 DEF Quarantine
  <2>4. RelayTypeOK'
    BY <1>12, <2>1, <2>2, <2>3 DEF Quarantine, QuarantineEffect, Pop
  <2>5. Durable'
    BY <1>12, <2>2 DEF Quarantine, Pop, Durable, Top
  <2> QED
    BY <2>3, <2>4, <2>5
<1>13. ASSUME NEW r \in Relays, Abandon(r), outbox \subseteq outbox'
       PROVE  Durable'
    BY <1>13 DEF Abandon, Durable, Top
<1>14. ASSUME NEW r \in Relays, CallFails(r) PROVE RelayInv'
  <2>1. /\ handoff' \subseteq Orders /\ accepted' \subseteq Orders
        /\ quarantine' \subseteq Orders /\ outbox' \subseteq Orders \ Refused
        /\ outbox \subseteq outbox' /\ score' = score
        /\ NoOrderLost' /\ AcceptedUntilDurable'
    <3>1. CASE UNCHANGED <<redis, outbox>>
      BY <3>1 DEF NoOrderLost, AcceptedUntilDurable, Admitted
    <3>2. CASE Working(r) /\ outbox' = outbox \cup (Top(r) \ Refused) /\ UNCHANGED redis
      <4>1. Top(r) \subseteq Orders
        BY <3>2 DEF Working, Top
      <4> QED
        BY <3>2, <4>1 DEF NoOrderLost, AcceptedUntilDurable, Admitted
    <3>3. CASE committed[r] /\ Complete(Top(r)) /\ UNCHANGED outbox
      BY <1>9, <3>3 DEF Complete
    <3>4. CASE QuarantineEffect(First(Top(r))) /\ UNCHANGED outbox
      BY <1>10, <3>4 DEF QuarantineEffect
    <3> QED
      BY <1>14, <3>1, <3>2, <3>3, <3>4 DEF CallFails, Working
  <2>2. Durable'
    BY <1>13, <1>14, <2>1 DEF CallFails
  <2>3. RelayTypeOK'
    BY <1>14, <2>1 DEF CallFails, Abandon
  <2> QED
    BY <2>1, <2>2, <2>3
<1>15. ASSUME NEW r \in Relays, Stop(r) PROVE RelayInv'
    BY <1>15 DEF Stop, Durable, Top, NoOrderLost, AcceptedUntilDurable, Admitted
<1>16. ASSUME NEW r \in Relays, Crash(r) PROVE RelayInv'
    BY <1>16 DEF Crash, Durable, Top, NoOrderLost, AcceptedUntilDurable, Admitted
<1>17. ASSUME NEW r \in Relays, Start(r) PROVE RelayInv'
    BY <1>17 DEF Start, Durable, Top, NoOrderLost, AcceptedUntilDurable, Admitted
<1>18. CASE UNCHANGED vars
    BY <1>18 DEF vars, Durable, Top, NoOrderLost, AcceptedUntilDurable, Admitted
<1> QED
    BY <1>1, <1>2, <1>3, <1>4, <1>5, <1>6, <1>7, <1>11, <1>12, <1>14, <1>15, <1>16, <1>17,
       <1>18 DEF Next, RoundStep

LEMMA RelayInvHolds == Spec => []RelayInv
BY RelayInvInit, RelayInvStep, PTL DEF Spec

\* Types, and a relay marks a batch as committed only while it has one in hand.
THEOREM RelayTypeCorrect == Spec => []RelayTypeOK
BY RelayInvHolds, PTL DEF RelayInv

\* No accepted order is lost, whichever relays, crashes and failed calls there are.
THEOREM NoOrderLostHolds == Spec => []NoOrderLost
BY RelayInvHolds, PTL DEF RelayInv

\* The proof of acceptance outlives the uncommitted row.
THEOREM AcceptedUntilDurableHolds == Spec => []AcceptedUntilDurable
BY RelayInvHolds, PTL DEF RelayInv

-----------------------------------------------------------------------------
(***************************************************************************)
(* The relays implement the handoff of SeckillOrder.  A step of theirs is  *)
(* one of the pipeline if what it works on is accounted for: a member of a *)
(* batch that has left the handoff meanwhile has its row or was isolated,  *)
(* and an isolated batch is one order, which MySQL refuses.                *)
(***************************************************************************)

Known == handoff \cup outbox \cup quarantine \subseteq Admitted

AcceptedIsListed == accepted \subseteq handoff \cup quarantine

BatchesKnown == \A r \in Relays : work[r] \in Seq(SUBSET Admitted)

Isolating == \A r \in Relays : pc[r] = "isolate" => \E o \in Refused : Top(r) = {o}

HandoffInv ==
    RelayInv /\ Known /\ AcceptedIsListed /\ BatchesKnown /\ Isolating /\ OnlyRefusedIsolated

LEMMA SeqGrows ==
    ASSUME NEW S, NEW T, S \subseteq T
    PROVE  Seq(S) \subseteq Seq(T)
OBVIOUS

LEMMA HandoffInvInit == Init => HandoffInv
BY RelayInvInit, RelayConstantsOK
DEF Init, HandoffInv, Known, AcceptedIsListed, BatchesKnown, Isolating, OnlyRefusedIsolated, Admitted

\* An order alone in its batch is the batch.
LEMMA AloneIsFirst ==
    ASSUME NEW o \in Orders, RelayTypeOK
    PROVE  First({o}) = {o}
BY DEF First, RelayTypeOK

LEMMA AloneRefused ==
    ASSUME NEW B \in SUBSET Orders, Alone(B), Conflicts(B)
    PROVE  \E o \in Refused : B = {o}
<1>1. IsFiniteSet(B)
  BY RelayConstantsOK, FS_Subset
<1>2. PICK o : o \in B \cap Refused
  BY DEF Conflicts
<1>3. Cardinality(B \ {o}) = 0
  <2>1. Cardinality(B) = 1 /\ o \in B
    BY <1>2 DEF Alone
  <2> QED BY <1>1, <2>1, FS_RemoveElement
<1>4. B \ {o} = {}
  BY <1>1, <1>3, FS_EmptySet, FS_Subset
<1> QED BY <1>2, <1>4

LEMMA HandoffInvStep ==
    ASSUME HandoffInv, [Next]_vars
    PROVE  HandoffInv'
<1> DEFINE Rest == Known /\ AcceptedIsListed /\ BatchesKnown /\ Isolating /\ OnlyRefusedIsolated
<1>0. RelayInv'
  BY RelayInvStep DEF HandoffInv
<1> SUFFICES Rest'
  BY <1>0 DEF HandoffInv
<1>t. /\ handoff \subseteq Orders /\ accepted \subseteq Orders /\ score \in [Orders -> Nat]
      /\ outbox \subseteq Orders \ Refused
      /\ work \in [Relays -> Seq(SUBSET Orders)] /\ pc \in [Relays -> {"lease", "read", "work", "isolate", "stopped"}]
      /\ \A r \in Relays : pc[r] = "isolate" => work[r] # <<>>
  BY DEF HandoffInv, RelayInv, RelayTypeOK
<1>u. Rest
  BY DEF HandoffInv
<1> USE DEF Known, AcceptedIsListed, BatchesKnown, Isolating, OnlyRefusedIsolated
\* A step that changes work only by abandoning, or not at all.
<1>a. ASSUME NEW r \in Relays, Abandon(r), score' = score, Known', AcceptedIsListed', OnlyRefusedIsolated'
      PROVE  Rest'
  <2>1. /\ \A s \in Relays : pc'[s] = "isolate" => s # r /\ pc[s] = "isolate"
        /\ \A s \in Relays : s # r => work'[s] = work[s]
        /\ work'[r] = <<>> /\ Admitted' = Admitted
    BY <1>a, <1>t DEF Abandon, Idle, Admitted
  <2>2. BatchesKnown'
    <3>1. <<>> \in Seq(SUBSET Admitted)
      OBVIOUS
    <3>2. ASSUME NEW s \in Relays PROVE work'[s] \in Seq(SUBSET Admitted)
      BY <2>1, <3>1, <1>u
    <3> QED BY <2>1, <3>2
  <2>3. Isolating'
    BY <2>1, <1>u DEF Top
  <2> QED BY <1>a, <2>2, <2>3
<1>b. ASSUME UNCHANGED <<redis, outbox, work>>,
             \A r \in Relays : pc'[r] = "isolate" => pc[r] = "isolate"
      PROVE  Rest'
  BY <1>b, <1>u DEF redis, Top, Admitted
<1>c. ASSUME NEW r \in Relays, Working(r) PROVE Top(r) \subseteq Admitted /\ Top(r) \subseteq Orders
  <2>1. Head(work[r]) \in SUBSET Admitted
    BY <1>c, <1>u DEF Working
  <2> QED BY <2>1 DEF Top, Admitted
<1>1. ASSUME NEW o \in Orders, Admit(o) PROVE Rest'
  <2>1. Admitted' = Admitted \cup {o}
    <3>1. PICK n \in Nat \ {0} : score' = [score EXCEPT ![o] = n]
      BY <1>1, ScoreOK DEF Admit, HandoffInv, RelayInv
    <3> QED BY <3>1, <1>t DEF Admitted
  <2>2. Seq(SUBSET Admitted) \subseteq Seq(SUBSET Admitted')
    BY <2>1, SeqGrows
  <2> QED BY <1>1, <2>1, <2>2, <1>u DEF Admit, relay, Top
<1>2. ASSUME NEW r \in Relays, Read(r) PROVE Rest'
  <2>1. FindFirst(BatchSize) \in SUBSET Admitted
    BY <1>u DEF FindFirst
  <2>2. <<FindFirst(BatchSize)>> \in Seq(SUBSET Admitted)
    BY <2>1
  <2>3. \A s \in Relays : pc'[s] = "isolate" => s # r /\ pc[s] = "isolate"
    BY <1>2, <1>t DEF Read, Idle
  <2>4. \A s \in Relays : s # r => work'[s] = work[s]
    BY <1>2, <1>t DEF Read
  <2>5. work'[r] \in Seq(SUBSET Admitted)
    BY <1>2, <2>2, <1>t, <1>u DEF Read
  <2>6. Isolating'
    BY <2>3, <2>4, <1>u DEF Top
  <2> QED BY <1>2, <2>4, <2>5, <2>6, <1>u DEF Read, redis, Admitted
<1>3. ASSUME NEW r \in Relays, InsertCommitted(r) PROVE Rest'
  BY <1>3, <1>c, <1>t, <1>u DEF InsertCommitted, redis, Top, Admitted
<1>4. ASSUME NEW r \in Relays, InsertRefused(r) PROVE Rest'
  <2>0. Working(r) /\ Conflicts(Top(r)) /\ Top(r) \in SUBSET Orders /\ Top(r) \in SUBSET Admitted
    BY <1>4, <1>c DEF InsertRefused
  <2>1. CASE Alone(Top(r)) /\ pc' = [pc EXCEPT ![r] = "isolate"] /\ UNCHANGED work
    <3>1. \E o \in Refused : Top(r) = {o}
      BY <2>0, <2>1, AloneRefused
    <3> QED BY <1>4, <2>1, <3>1, <1>t, <1>u DEF InsertRefused, redis, Top, Admitted
  <2>2. CASE work' = [work EXCEPT ![r] = <<Left(Top(r)), Right(Top(r), Left(Top(r)))>> \o Tail(@)] /\ UNCHANGED pc
    <3>1. /\ Tail(work[r]) \in Seq(SUBSET Admitted)
          /\ <<Left(Top(r)), Right(Top(r), Left(Top(r)))>> \in Seq(SUBSET Admitted)
      BY <2>0, <1>u DEF Working, Left, Right
    <3>2. <<Left(Top(r)), Right(Top(r), Left(Top(r)))>> \o Tail(work[r]) \in Seq(SUBSET Admitted)
      BY <3>1
    <3>3. BatchesKnown'
      BY <1>4, <2>2, <3>2, <1>t, <1>u DEF InsertRefused, redis, Admitted
    <3>4. Isolating'
      BY <2>0, <2>2, <1>t, <1>u DEF Working, Top
    <3> QED BY <1>4, <3>3, <3>4, <1>u DEF InsertRefused, redis, Admitted
  <2> QED BY <1>4, <2>1, <2>2 DEF InsertRefused
\* Pop of a relay whose next place is "work".
<1>d. ASSUME NEW r \in Relays, work[r] # <<>>, Pop(r), score' = score,
             \A s \in Relays : pc'[s] = "isolate" => s # r /\ pc[s] = "isolate"
      PROVE  BatchesKnown' /\ Isolating'
  <2>1. Tail(work[r]) \in Seq(SUBSET Admitted)
    BY <1>d, <1>u
  <2> QED BY <1>d, <2>1, <1>t, <1>u DEF Pop, Top, Admitted
<1>e. ASSUME NEW r \in Relays, Working(r), committed[r], Complete(Top(r)), UNCHANGED outbox
      PROVE  Known' /\ AcceptedIsListed' /\ OnlyRefusedIsolated'
  BY <1>e, <1>u DEF Complete, Admitted
<1>f. ASSUME NEW r \in Relays, pc[r] = "isolate", QuarantineEffect(First(Top(r))), UNCHANGED outbox
      PROVE  Known' /\ AcceptedIsListed' /\ OnlyRefusedIsolated'
  <2>1. PICK o \in Refused : Top(r) = {o}
    BY <1>f, <1>u
  <2>2. First(Top(r)) = {o}
    BY <2>1, AloneIsFirst, RelayConstantsOK DEF HandoffInv, RelayInv
  <2> QED BY <1>f, <2>2, <1>u DEF QuarantineEffect, Found, Admitted
<1>5. ASSUME NEW r \in Relays, CompleteBatch(r) PROVE Rest'
  <2>1. Known' /\ AcceptedIsListed' /\ OnlyRefusedIsolated'
    BY <1>5, <1>e DEF CompleteBatch
  <2>2. BatchesKnown' /\ Isolating'
    BY <1>5, <1>d, <1>t DEF CompleteBatch, Complete, Working
  <2> QED BY <2>1, <2>2
<1>6. ASSUME NEW r \in Relays, Quarantine(r) PROVE Rest'
  <2>1. Known' /\ AcceptedIsListed' /\ OnlyRefusedIsolated'
    BY <1>6, <1>f DEF Quarantine
  <2>2. \A s \in Relays : pc'[s] = "isolate" => s # r /\ pc[s] = "isolate"
    BY <1>6, <1>t DEF Quarantine
  <2>3. BatchesKnown' /\ Isolating'
    BY <1>6, <2>2, <1>d, <1>t DEF Quarantine, QuarantineEffect
  <2> QED BY <2>1, <2>3
<1>7. ASSUME NEW r \in Relays, CallFails(r) PROVE Rest'
  <2>1. Abandon(r) /\ (pc[r] = "isolate" \/ Working(r))
    BY <1>7 DEF CallFails
  <2>2. CASE UNCHANGED <<redis, outbox>>
    BY <2>1, <2>2, <1>a, <1>u DEF redis, Admitted
  <2>3. CASE pc[r] = "work" /\ outbox' = outbox \cup (Top(r) \ Refused) /\ UNCHANGED redis
    <3>1. Top(r) \subseteq Admitted
      BY <2>1, <2>3, <1>c
    <3> QED BY <2>1, <2>3, <3>1, <1>a, <1>u DEF redis, Admitted
  <2>4. CASE pc[r] = "work" /\ committed[r] /\ Complete(Top(r)) /\ UNCHANGED outbox
    <3>1. Working(r) /\ score' = score
      BY <2>1, <2>4 DEF Complete
    <3> QED BY <2>1, <2>4, <3>1, <1>a, <1>e
  <2>5. CASE pc[r] = "isolate" /\ QuarantineEffect(First(Top(r))) /\ UNCHANGED outbox
    <3>1. score' = score
      BY <2>5 DEF QuarantineEffect
    <3> QED BY <2>1, <2>5, <3>1, <1>a, <1>f
  <2> QED BY <1>7, <2>2, <2>3, <2>4, <2>5 DEF CallFails
<1>8. ASSUME NEW r \in Relays, AcquireOrRenewLease(r) \/ EndRound(r) \/ Stop(r) \/ Start(r)
      PROVE  Rest'
  BY <1>8, <1>b, <1>t DEF AcquireOrRenewLease, EndRound, Stop, Start, Idle
<1>9. ASSUME NEW r \in Relays, Crash(r) PROVE Rest'
  <2>2. /\ \A s \in Relays : pc'[s] = "isolate" => s # r /\ pc[s] = "isolate"
        /\ \A s \in Relays : s # r => work'[s] = work[s]
        /\ work'[r] = <<>> /\ Admitted' = Admitted
    BY <1>9, <1>t DEF Crash, redis, Admitted
  <2>3. BatchesKnown'
    <3>1. <<>> \in Seq(SUBSET Admitted)
      OBVIOUS
    <3>2. ASSUME NEW s \in Relays PROVE work'[s] \in Seq(SUBSET Admitted)
      BY <2>2, <3>1, <1>u
    <3> QED BY <2>2, <3>2
  <2>4. Isolating'
    BY <2>2, <1>u DEF Top
  <2> QED BY <1>9, <2>2, <2>3, <2>4, <1>u DEF Crash, redis
<1>10. CASE LeaseExpires \/ UNCHANGED vars
  BY <1>10, <1>b DEF LeaseExpires, vars, relay
<1> QED
  BY <1>1, <1>2, <1>3, <1>4, <1>5, <1>6, <1>7, <1>8, <1>9, <1>10 DEF Next, RoundStep

\* Isolation never removes an order that MySQL would take, also when two relays
\* halve the same batch.
THEOREM OnlyRefusedIsolatedHolds == Spec => []OnlyRefusedIsolated
<1>1. HandoffInv /\ [Next]_vars => HandoffInv'
  BY HandoffInvStep
<1>2. HandoffInv => OnlyRefusedIsolated
  BY DEF HandoffInv
<1> QED BY <1>1, <1>2, HandoffInvInit, PTL DEF Spec

\* Nothing the pipeline sees has changed.
Silent == UNCHANGED <<handoff, accepted, quarantine, outbox, score>>

LEMMA SilentStep ==
    ASSUME Silent
    PROVE  UNCHANGED Pipeline!vars
BY DEF Silent, Admitted, Pipeline!vars, Pipeline!redisVars, Pipeline!dbVars, Pipeline!kafkaVars,
       Pipeline!retryVars, Pipeline!cancelVars

LEMMA PipelineAdmit ==
    ASSUME HandoffInv, NEW o \in Orders, Admit(o)
    PROVE  Pipeline!Seckill(o)
<1>1. o \notin Admitted /\ Admitted \subseteq Orders /\ IsFiniteSet(Orders)
  BY RelayConstantsOK DEF Admit, Admitted
<1>2. Admitted' = Admitted \cup {o}
  <2>1. PICK n \in Nat \ {0} : score' = [score EXCEPT ![o] = n]
    BY ScoreOK DEF Admit, HandoffInv, RelayInv
  <2> QED BY <2>1 DEF Admitted, HandoffInv, RelayInv, RelayTypeOK
<1>3. Cardinality(Orders \ Admitted) > 0 /\ Cardinality((Orders \ Admitted)') = Cardinality(Orders \ Admitted) - 1
  <2>1. IsFiniteSet(Orders \ Admitted) /\ o \in Orders \ Admitted
    BY <1>1, FS_Difference
  <2>2. (Orders \ Admitted)' = (Orders \ Admitted) \ {o}
    BY <1>2
  <2>3. Cardinality(Orders \ Admitted) \in Nat /\ Cardinality(Orders \ Admitted) # 0
    BY <2>1, FS_CardinalityType, FS_EmptySet
  <2>4. Cardinality((Orders \ Admitted) \ {o}) = Cardinality(Orders \ Admitted) - 1
    BY <2>1, FS_RemoveElement
  <2>5. Cardinality(Orders \ Admitted) > 0
    BY <2>3
  <2> QED BY <2>2, <2>4, <2>5, Zenon
<1>4. o \notin Pipeline!Admitted
  BY <1>1 DEF HandoffInv, Known, Pipeline!Admitted
<1> QED
  BY <1>1, <1>2, <1>3, <1>4
  DEF Admit, Pipeline!Seckill, Pipeline!Admissible, Pipeline!dbVars, Pipeline!kafkaVars,
      Pipeline!retryVars, Pipeline!cancelVars

LEMMA InsertOfBatch ==
    ASSUME NEW B \in (SUBSET handoff) \ {{}}, B \subseteq handoff \ Refused,
           outbox' = outbox \cup B, UNCHANGED redis
    PROVE  Pipeline!Next
<1>1. Admitted' = Admitted
  BY DEF redis, Admitted
<1>2. Pipeline!HandoffInsert(B)
  BY <1>1
  DEF redis, Pipeline!HandoffInsert, Pipeline!redisVars, Pipeline!kafkaVars, Pipeline!retryVars,
      Pipeline!cancelVars
<1> QED BY <1>2 DEF Pipeline!Next, Pipeline!Transport

LEMMA PipelineInsert ==
    ASSUME HandoffInv, NEW r \in Relays, Working(r), ~Conflicts(Top(r)),
           outbox' = outbox \cup (Top(r) \ Refused), UNCHANGED redis
    PROVE  [Pipeline!Next]_(Pipeline!vars)
<1> DEFINE B == Top(r) \cap handoff
<1>1. Top(r) \subseteq Admitted
  <2>1. Head(work[r]) \in SUBSET Admitted
    BY DEF Working, HandoffInv, BatchesKnown
  <2> QED BY <2>1 DEF Top
\* Whatever of the batch has left the handoff has its row.
<1>2. Top(r) \ handoff \subseteq outbox
  BY <1>1 DEF HandoffInv, RelayInv, NoOrderLost, OnlyRefusedIsolated, Conflicts
<1>3. B \in SUBSET handoff /\ B \subseteq handoff \ Refused /\ outbox' = outbox \cup B
  BY <1>2 DEF Conflicts
<1>4. CASE B = {}
  BY <1>3, <1>4, SilentStep DEF Silent, redis
<1>5. CASE B # {}
  BY <1>3, <1>5, InsertOfBatch
<1> QED BY <1>4, <1>5

LEMMA PipelineComplete ==
    ASSUME HandoffInv, NEW r \in Relays, committed[r], Complete(Top(r)), UNCHANGED outbox
    PROVE  [Pipeline!Next]_(Pipeline!vars)
<1> DEFINE B == Top(r) \cap handoff
<1>1. Top(r) \subseteq outbox /\ outbox \cap Refused = {}
  BY DEF HandoffInv, RelayInv, RelayTypeOK, Durable
<1>2. accepted' = accepted \ B /\ handoff' = handoff \ B
  BY <1>1 DEF Complete, HandoffInv, AcceptedIsListed, OnlyRefusedIsolated
<1>3. Admitted' = Admitted
  BY DEF Complete, Admitted
<1>4. CASE B = {}
  BY <1>2, <1>4, SilentStep DEF Silent, Complete
<1>5. CASE B # {}
  <2>1. Pipeline!Stored(B)
    BY <1>1 DEF Pipeline!Stored, HandoffInv, RelayInv, RelayTypeOK
  <2>2. Pipeline!HandoffComplete(B)
    BY <1>2, <1>3, <2>1
    DEF Complete, Pipeline!HandoffComplete, Pipeline!dbVars, Pipeline!kafkaVars,
        Pipeline!retryVars, Pipeline!cancelVars
  <2>3. \E C \in (SUBSET handoff) \ {{}} : Pipeline!HandoffComplete(C)
    <3> HIDE DEF B
    <3>1. B \in (SUBSET handoff) \ {{}}
      BY <1>5 DEF B
    <3> QED BY <2>2, <3>1
  <2> QED BY <2>3 DEF Pipeline!Next, Pipeline!Transport
<1> QED BY <1>4, <1>5

LEMMA PipelineQuarantine ==
    ASSUME HandoffInv, NEW r \in Relays, pc[r] = "isolate", QuarantineEffect(First(Top(r))),
           UNCHANGED outbox
    PROVE  [Pipeline!Next]_(Pipeline!vars)
<1>1. PICK o \in Refused : Top(r) = {o}
  BY DEF HandoffInv, Isolating
<1>2. First(Top(r)) = {o}
  BY <1>1, AloneIsFirst, RelayConstantsOK DEF HandoffInv, RelayInv
<1>3. Admitted' = Admitted
  BY DEF QuarantineEffect, Admitted
<1>4. CASE o \notin handoff
  BY <1>2, <1>4, SilentStep DEF Silent, QuarantineEffect, Found
<1>5. CASE o \in handoff
  <2>1. Pipeline!HandoffQuarantine(o)
    BY <1>2, <1>3, <1>5
    DEF QuarantineEffect, Found, Pipeline!HandoffQuarantine, Pipeline!dbVars, Pipeline!kafkaVars,
        Pipeline!retryVars, Pipeline!cancelVars
  <2> QED BY <1>5, <2>1 DEF Pipeline!Next, Pipeline!Transport
<1> QED BY <1>4, <1>5

LEMMA PipelineStep ==
    ASSUME HandoffInv, [Next]_vars
    PROVE  [Pipeline!Next]_(Pipeline!vars)
<1>1. CASE \E o \in Orders : Admit(o)
  BY <1>1, PipelineAdmit DEF Pipeline!Next
<1>2. ASSUME NEW r \in Relays, InsertCommitted(r) PROVE [Pipeline!Next]_(Pipeline!vars)
  BY <1>2, PipelineInsert DEF InsertCommitted
<1>3. ASSUME NEW r \in Relays, CompleteBatch(r) PROVE [Pipeline!Next]_(Pipeline!vars)
  BY <1>3, PipelineComplete DEF CompleteBatch
<1>4. ASSUME NEW r \in Relays, Quarantine(r) PROVE [Pipeline!Next]_(Pipeline!vars)
  BY <1>4, PipelineQuarantine DEF Quarantine
<1>5. ASSUME NEW r \in Relays, CallFails(r) PROVE [Pipeline!Next]_(Pipeline!vars)
  <2>1. CASE UNCHANGED <<redis, outbox>>
    BY <2>1, SilentStep DEF Silent, redis
  <2>2. CASE pc[r] = "work" /\ ~Conflicts(Top(r)) /\ outbox' = outbox \cup (Top(r) \ Refused)
             /\ UNCHANGED redis
    <3>1. Working(r)
      BY <1>5, <2>2 DEF CallFails
    <3> QED BY <2>2, <3>1, PipelineInsert
  <2> QED BY <1>5, <2>1, <2>2, PipelineComplete, PipelineQuarantine DEF CallFails
<1>6. ASSUME NEW r \in Relays,
             AcquireOrRenewLease(r) \/ Read(r) \/ EndRound(r) \/ InsertRefused(r) \/ Stop(r)
                \/ Crash(r) \/ Start(r)
      PROVE  UNCHANGED Pipeline!vars
  BY <1>6, SilentStep
  DEF AcquireOrRenewLease, Read, EndRound, InsertRefused, Stop, Crash, Start, Silent, redis
<1>7. CASE LeaseExpires \/ UNCHANGED vars
  BY <1>7, SilentStep DEF LeaseExpires, vars, Silent, redis
<1> QED BY <1>1, <1>2, <1>3, <1>4, <1>5, <1>6, <1>7 DEF Next, RoundStep

LEMMA PipelineInit == Init => Pipeline!Init
<1> SUFFICES ASSUME Init PROVE Pipeline!Init
  OBVIOUS
<1>1. Admitted = {}
  BY DEF Init, Admitted
<1> QED BY <1>1 DEF Init, Pipeline!Init

\* Every behaviour of the relays, for any number of them, is one of the pipeline, so
\* that what is proved about the pipeline rests on these relays.
THEOREM HandoffImplementsPipeline == Spec => ImplementsHandoff
<1>1. HandoffInv /\ [Next]_vars => HandoffInv' /\ [Pipeline!Next]_(Pipeline!vars)
  BY HandoffInvStep, PipelineStep
<1> QED BY <1>1, HandoffInvInit, PipelineInit, PTL DEF Spec, ImplementsHandoff, Pipeline!Spec
=============================================================================
