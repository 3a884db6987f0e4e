-------------------------- MODULE OutboxRelayProofs -------------------------
(***************************************************************************)
(* The claim protocol of the outbox relays is right for any number of      *)
(* relays and rows, although nobody renews a lease: what a relay may still *)
(* report is decided by the owner in the row alone.                        *)
(***************************************************************************)
EXTENDS OutboxRelay, TLAPS

\* What a relay claimed, and no one has freed since, is its own, under a lease that
\* runs, and due.
ClaimsHold ==
    \A r \in Relays : \A o \in valid[r] : owner[o] = r /\ leased[o] /\ due[o]

\* Confirmed sends are held only from the sends to the last report.
SentInRound == \A r \in Relays : sent[r] # {} => pc[r] \in {"mark", "retry"}

\* A row that a relay has sent and still owns was not queued again since: queueing
\* frees the row, and the relay cannot own it again within the round.
ReportsAreFresh ==
    \A r \in Relays : \A o \in sent[r] : owner[o] = r => o \in fresh

OutboxInv ==
    /\ OutboxTypeOK
    /\ ClaimsHold
    /\ SentInRound
    /\ ReportsAreFresh
    /\ SentIsFresh

LEMMA InitOutboxInv == Init => OutboxInv
BY OutboxConstantsOK
DEF Init, OutboxInv, OutboxTypeOK, OutboxStates, Open, ClaimsHold, SentInRound,
    ReportsAreFresh, SentIsFresh

\* A step after which no relay holds a row as sent that it did not hold before.
RoundsFit ==
    /\ pc' \in [Relays -> {"idle", "claim", "read", "send", "mark", "retry"}]
    /\ batch' \in [Relays -> SUBSET Rows]
    /\ sent' \in [Relays -> SUBSET Rows]
    /\ \A q \in Relays : sent'[q] \subseteq batch'[q] /\ sent'[q] \subseteq sent[q]
    /\ \A q \in Relays : sent'[q] # {} => pc'[q] \in {"mark", "retry"}

LEMMA RoundOver ==
    ASSUME OutboxInv, NEW r \in Relays, EndRound(r) PROVE RoundsFit
BY DEF OutboxInv, OutboxTypeOK, SentInRound, EndRound, RoundsFit

LEMMA RoundRests ==
    ASSUME OutboxInv, UNCHANGED round PROVE RoundsFit
BY DEF OutboxInv, OutboxTypeOK, SentInRound, RoundsFit, round

LEMMA FaultCounts ==
    ASSUME OutboxTypeOK, Fault PROVE faults' \in 0 .. MaxFaults
BY OutboxConstantsOK DEF OutboxTypeOK, Fault

-----------------------------------------------------------------------------
(* The statements of a relay on the rows. *)

\* A claim takes only rows that are due and under no lease: no claim that holds is
\* lost, no report that applies is touched.
LEMMA ClaimSafe ==
    ASSUME OutboxInv, NEW r \in Relays, sent[r] = {}, ClaimEffect(r),
           UNCHANGED <<status, due>>
    PROVE  /\ owner' \in [Rows -> Relays \cup {"nobody", "dead"}]
           /\ leased' \in [Rows -> BOOLEAN]
           /\ \A o \in Rows : leased'[o] => owner'[o] # "nobody" /\ Open(o)'
           /\ \A q \in Relays : \A o \in valid[q] : owner'[o] = q /\ leased'[o] /\ due'[o]
           /\ \A o \in Claimed(r) : o \in Rows /\ owner'[o] = r /\ leased'[o] /\ due'[o]
           /\ \A q \in Relays : \A o \in sent[q] : owner'[o] = q => owner[o] = q
<1>1. batch[r] \subseteq Rows /\ Claimed(r) \subseteq Rows /\ \A q \in Relays : valid[q] \subseteq Rows
    BY DEF OutboxInv, OutboxTypeOK, Claimed
<1>2. \A q \in Relays : sent[q] \subseteq Rows
    BY DEF OutboxInv, OutboxTypeOK
<1>3. owner \in [Rows -> Relays \cup {"nobody", "dead"}] /\ leased \in [Rows -> BOOLEAN]
    BY DEF OutboxInv, OutboxTypeOK
<1>4. \A o \in Claimed(r) : Open(o) /\ due[o] /\ ~leased[o]
    BY DEF Claimed, Claimable
<1>5. owner' = [o \in Rows |-> IF o \in Claimed(r) THEN r ELSE owner[o]]
    BY DEF ClaimEffect
<1>6. leased' = [o \in Rows |-> leased[o] \/ o \in Claimed(r)]
    BY DEF ClaimEffect
<1>7. owner' \in [Rows -> Relays \cup {"nobody", "dead"}] /\ leased' \in [Rows -> BOOLEAN]
    BY <1>3, <1>5, <1>6
<1>8. \A o \in Rows : leased[o] => owner[o] # "nobody" /\ Open(o)
    BY DEF OutboxInv, OutboxTypeOK
<1>9. \A o \in Rows : leased'[o] => owner'[o] # "nobody" /\ Open(o)'
    BY <1>4, <1>5, <1>6, <1>8, OutboxConstantsOK DEF Open
<1>10. \A q \in Relays : \A o \in valid[q] : owner'[o] = q /\ leased'[o] /\ due'[o]
    BY <1>1, <1>4, <1>5, <1>6 DEF OutboxInv, ClaimsHold
<1>11. \A o \in Claimed(r) : owner'[o] = r /\ leased'[o] /\ due'[o]
    BY <1>1, <1>4, <1>5, <1>6
<1>12. \A q \in Relays : \A o \in sent[q] : owner'[o] = q => owner[o] = q
    BY <1>2, <1>5
<1> QED
    BY <1>1, <1>7, <1>9, <1>10, <1>11, <1>12

\* Freeing rows ends their claims and every report about them.
LEMMA FreedSafe ==
    ASSUME OutboxInv, NEW S \in SUBSET Rows, Freed(S)
    PROVE  /\ owner' \in [Rows -> Relays \cup {"nobody", "dead"}]
           /\ leased' \in [Rows -> BOOLEAN]
           /\ valid' \in [Relays -> SUBSET Rows]
           /\ \A o \in Rows : leased'[o] => o \notin S /\ owner'[o] # "nobody" /\ Open(o)
           /\ \A q \in Relays : \A o \in valid'[q] :
                 o \notin S /\ owner'[o] = q /\ leased'[o] /\ due[o]
           /\ \A q \in Relays : \A o \in sent[q] :
                 owner'[o] = q => o \notin S /\ owner[o] = q
<1>1. owner \in [Rows -> Relays \cup {"nobody", "dead"}] /\ leased \in [Rows -> BOOLEAN]
    BY DEF OutboxInv, OutboxTypeOK
<1>2. \A q \in Relays : valid[q] \subseteq Rows /\ sent[q] \subseteq Rows
    BY DEF OutboxInv, OutboxTypeOK
<1>3. owner' = [o \in Rows |-> IF o \in S THEN "nobody" ELSE owner[o]]
    BY DEF Freed
<1>4. leased' = [o \in Rows |-> leased[o] /\ o \notin S]
    BY DEF Freed
<1>5. valid' = [q \in Relays |-> valid[q] \ S]
    BY DEF Freed
<1>6. owner' \in [Rows -> Relays \cup {"nobody", "dead"}] /\ leased' \in [Rows -> BOOLEAN]
    BY <1>1, <1>3, <1>4
<1>7. valid' \in [Relays -> SUBSET Rows]
    BY <1>2, <1>5
<1>8. \A o \in Rows : leased[o] => owner[o] # "nobody" /\ Open(o)
    BY DEF OutboxInv, OutboxTypeOK
<1>9. \A o \in Rows : leased'[o] => o \notin S /\ owner'[o] # "nobody" /\ Open(o)
    BY <1>3, <1>4, <1>8
<1>10. \A q \in Relays : \A o \in valid'[q] :
          o \notin S /\ owner'[o] = q /\ leased'[o] /\ due[o]
    BY <1>2, <1>3, <1>4, <1>5 DEF OutboxInv, ClaimsHold
<1>11. \A q \in Relays : \A o \in sent[q] : owner'[o] = q => o \notin S /\ owner[o] = q
    BY <1>2, <1>3, OutboxConstantsOK
<1> QED
    BY <1>6, <1>7, <1>9, <1>10, <1>11

\* Rows are freed and may change their status: no claim or report about them is left.
LEMMA MarkSafe ==
    ASSUME OutboxInv, RoundsFit, NEW S \in SUBSET Rows, Freed(S),
           status' \in [Rows -> OutboxStates], due' \in [Rows -> BOOLEAN],
           \A o \in Rows \ S : status'[o] = status[o] /\ due'[o] = due[o],
           topic' \subseteq Rows, stored' \subseteq Rows, faults' \in 0 .. MaxFaults,
           fresh' \subseteq Rows, fresh \ fresh' \subseteq S,
           \A o \in S : status'[o] = "SENT" => o \in fresh'
    PROVE  OutboxInv'
<1>1. \A q \in Relays : valid'[q] \subseteq Rows /\ sent[q] \subseteq Rows
    BY FreedSafe DEF OutboxInv, OutboxTypeOK
<1>2. OutboxTypeOK'
    BY FreedSafe DEF OutboxInv, OutboxTypeOK, Open, RoundsFit
<1>3. ClaimsHold'
    BY <1>1, FreedSafe DEF ClaimsHold
<1>4. SentInRound'
    BY DEF RoundsFit, SentInRound
<1>5. ReportsAreFresh'
  <2> SUFFICES ASSUME NEW q \in Relays, NEW o \in sent'[q], owner'[o] = q
               PROVE  o \in fresh'
    BY DEF ReportsAreFresh
  <2>1. o \in sent[q]
    BY DEF RoundsFit
  <2>2. o \in Rows \ S /\ owner[o] = q
    BY <1>1, <2>1, FreedSafe
  <2> QED
    BY <2>1, <2>2 DEF OutboxInv, ReportsAreFresh
<1>6. SentIsFresh'
  <2> SUFFICES ASSUME NEW o \in Rows, status'[o] = "SENT" PROVE o \in fresh'
    BY DEF SentIsFresh
  <2>1. CASE o \in S
    BY <2>1
  <2>2. CASE o \notin S
    BY <2>2 DEF OutboxInv, SentIsFresh
  <2> QED
    BY <2>1, <2>2
<1> QED
    BY <1>2, <1>3, <1>4, <1>5, <1>6 DEF OutboxInv

\* The rows keep their status: claims and reports may only become fewer.
LEMMA RowsRest ==
    ASSUME OutboxInv, RoundsFit, status' = status, topic' \subseteq Rows, stored' = stored,
           faults' \in 0 .. MaxFaults, fresh' = fresh,
           owner' \in [Rows -> Relays \cup {"nobody", "dead"}],
           leased' \in [Rows -> BOOLEAN], due' \in [Rows -> BOOLEAN],
           valid' \in [Relays -> SUBSET Rows],
           \A o \in Rows : leased'[o] => owner'[o] # "nobody" /\ Open(o),
           \A q \in Relays : \A o \in valid'[q] : owner'[o] = q /\ leased'[o] /\ due'[o],
           \A q \in Relays : \A o \in sent'[q] : owner'[o] = q => owner[o] = q
    PROVE  OutboxInv'
<1>1. OutboxTypeOK'
    BY DEF OutboxInv, OutboxTypeOK, Open, RoundsFit
<1>2. ClaimsHold' /\ SentInRound' /\ SentIsFresh'
    BY DEF OutboxInv, RoundsFit, ClaimsHold, SentInRound, SentIsFresh
<1>3. ReportsAreFresh'
    BY DEF OutboxInv, RoundsFit, ReportsAreFresh, Open
<1> QED
    BY <1>1, <1>2, <1>3 DEF OutboxInv

-----------------------------------------------------------------------------

LEMMA RetriedSafe ==
    ASSUME OutboxInv, RoundsFit, NEW o \in Rows, Retried(o),
           topic' \subseteq Rows, stored' \subseteq Rows, faults' \in 0 .. MaxFaults
    PROVE  OutboxInv'
<1>1. status \in [Rows -> OutboxStates] /\ due \in [Rows -> BOOLEAN] /\ fresh \subseteq Rows
    BY DEF OutboxInv, OutboxTypeOK
<1>2. Freed({o}) /\ {o} \in SUBSET Rows
    BY DEF Retried
<1>3. \E s \in {"COMPLETED", "PENDING"} : Marked({o}, s)
    BY DEF Retried
<1>4. /\ status' \in [Rows -> OutboxStates] /\ status'[o] # "SENT"
      /\ \A p \in Rows \ {o} : status'[p] = status[p]
    BY <1>1, <1>3 DEF Marked, OutboxStates
<1>5. due' \in [Rows -> BOOLEAN] /\ \A p \in Rows \ {o} : due'[p] = due[p]
    BY <1>1 DEF Retried, Deferred
<1>6. fresh' \subseteq Rows /\ fresh \ fresh' \subseteq {o}
    BY <1>1 DEF Retried
<1> QED
    BY <1>2, <1>4, <1>5, <1>6, MarkSafe

LEMMA OutboxStep == OutboxInv /\ [Next]_vars => OutboxInv'
<1> SUFFICES ASSUME OutboxInv, [Next]_vars PROVE OutboxInv'
    OBVIOUS
<1>t. /\ status \in [Rows -> OutboxStates] /\ due \in [Rows -> BOOLEAN]
      /\ owner \in [Rows -> Relays \cup {"nobody", "dead"}] /\ leased \in [Rows -> BOOLEAN]
      /\ valid \in [Relays -> SUBSET Rows] /\ faults \in 0 .. MaxFaults
      /\ topic \subseteq Rows /\ stored \subseteq Rows /\ fresh \subseteq Rows
    BY DEF OutboxInv, OutboxTypeOK
<1>b. /\ batch \in [Relays -> SUBSET Rows] /\ sent \in [Relays -> SUBSET Rows]
      /\ pc \in [Relays -> {"idle", "claim", "read", "send", "mark", "retry"}]
      /\ \A q \in Relays : sent[q] \subseteq batch[q]
    BY DEF OutboxInv, OutboxTypeOK
<1>l. \A o \in Rows : leased[o] => owner[o] # "nobody" /\ Open(o)
    BY DEF OutboxInv, OutboxTypeOK
<1>c. \A q \in Relays : \A o \in valid[q] : owner[o] = q /\ leased[o] /\ due[o]
    BY DEF OutboxInv, ClaimsHold
<1>s. \A q \in Relays : sent[q] # {} => pc[q] \in {"mark", "retry"}
    BY DEF OutboxInv, SentInRound
<1>r. \A r \in Relays, S \in SUBSET Rows : Reportable(r, S) \in SUBSET Rows
    BY DEF Reportable
<1>1. ASSUME NEW r \in Relays, FindDispatchable(r) PROVE OutboxInv'
  <2>1. Page({o \in Rows : Dispatchable(o)}) \in SUBSET Rows
    BY DEF Page
  <2>2. /\ batch' \in [Relays -> SUBSET Rows]
        /\ pc' \in [Relays -> {"idle", "claim", "read", "send", "mark", "retry"}]
        /\ \A q \in Relays \ {r} : batch'[q] = batch[q] /\ pc'[q] = pc[q]
    BY <1>1, <1>b, <2>1 DEF FindDispatchable
  <2>3. sent' = sent /\ sent[r] = {}
    BY <1>1, <1>s DEF FindDispatchable
  <2>4. RoundsFit
    BY <1>b, <1>s, <2>2, <2>3 DEF RoundsFit
  <2>5. UNCHANGED <<row, topic, stored, faults, fresh, valid>>
    BY <1>1 DEF FindDispatchable
  <2> QED
    BY <1>t, <1>l, <1>c, <2>4, <2>5, RowsRest DEF row
<1>2. ASSUME NEW r \in Relays, ClaimRelayBatch(r) PROVE OutboxInv'
  <2>1. /\ sent[r] = {} /\ ClaimEffect(r)
        /\ UNCHANGED <<status, due, topic, stored, faults, fresh>>
    BY <1>2, <1>s DEF ClaimRelayBatch
  <2>2. RoundsFit
    <3>1. CASE EndRound(r)
      BY <3>1, RoundOver
    <3>2. CASE pc' = [pc EXCEPT ![r] = "read"] /\ UNCHANGED <<batch, sent>>
      BY <1>b, <1>s, <2>1, <3>2 DEF RoundsFit
    <3> QED
      BY <1>2, <3>1, <3>2 DEF ClaimRelayBatch
  <2>3. /\ valid' \in [Relays -> SUBSET Rows]
        /\ \A q \in Relays : \A o \in valid'[q] : owner'[o] = q /\ leased'[o] /\ due'[o]
    BY <1>2, <1>t, <2>1, ClaimSafe DEF ClaimRelayBatch
  <2>4. /\ owner' \in [Rows -> Relays \cup {"nobody", "dead"}]
        /\ leased' \in [Rows -> BOOLEAN]
        /\ \A o \in Rows : leased'[o] => owner'[o] # "nobody" /\ Open(o)
        /\ \A q \in Relays : \A o \in sent[q] : owner'[o] = q => owner[o] = q
    BY <2>1, ClaimSafe DEF Open
  <2>5. \A q \in Relays : \A o \in sent'[q] : owner'[o] = q => owner[o] = q
    BY <2>2, <2>4 DEF RoundsFit
  <2> QED
    BY <1>t, <2>1, <2>2, <2>3, <2>4, <2>5, RowsRest
<1>3. ASSUME NEW r \in Relays, FindClaimedBatch(r) PROVE OutboxInv'
  <2>1. sent[r] = {} /\ UNCHANGED <<row, topic, stored, faults, fresh>>
    BY <1>3, <1>s DEF FindClaimedBatch
  <2>2. RoundsFit
    <3>1. CASE EndRound(r)
      BY <3>1, RoundOver
    <3>2. CASE /\ batch' = [batch EXCEPT ![r] = Mine(r)]
               /\ pc' = [pc EXCEPT ![r] = "send"] /\ UNCHANGED sent
      BY <1>b, <1>s, <2>1, <3>2 DEF RoundsFit, Mine
    <3> QED
      BY <1>3, <3>1, <3>2 DEF FindClaimedBatch
  <2>3. /\ valid' \in [Relays -> SUBSET Rows]
        /\ \A q \in Relays : valid'[q] \subseteq valid[q]
    BY <1>3, <1>t DEF FindClaimedBatch
  <2> QED
    BY <1>t, <1>l, <1>c, <2>1, <2>2, <2>3, RowsRest DEF row
<1>4. ASSUME NEW r \in Relays, Dispatch(r) PROVE OutboxInv'
  <2>1. PICK F \in SUBSET batch[r] :
           /\ (F = {} /\ UNCHANGED faults) \/ (F # {} /\ Fault)
           /\ \E lost \in SUBSET F : topic' = topic \cup (batch[r] \ lost)
           /\ sent' = [sent EXCEPT ![r] = batch[r] \ F]
           /\ fresh' = fresh \cup (batch[r] \ F)
    BY <1>4 DEF Dispatch
  <2>2. pc' = [pc EXCEPT ![r] = "mark"] /\ UNCHANGED <<row, stored, batch, valid>>
    BY <1>4 DEF Dispatch
  <2>3. faults' \in 0 .. MaxFaults
    BY <1>t, <2>1, FaultCounts DEF OutboxInv
  <2>4. topic' \subseteq Rows /\ fresh' \subseteq Rows /\ fresh \subseteq fresh'
    BY <1>t, <1>b, <2>1
  <2>5. /\ sent' \in [Relays -> SUBSET Rows]
        /\ \A q \in Relays \ {r} : sent'[q] = sent[q]
        /\ sent'[r] \subseteq batch[r] /\ sent'[r] \subseteq fresh'
    BY <1>b, <2>1
  <2>6. /\ pc' \in [Relays -> {"idle", "claim", "read", "send", "mark", "retry"}]
        /\ \A q \in Relays \ {r} : pc'[q] = pc[q]
        /\ pc'[r] = "mark"
    BY <1>b, <2>2
  <2>7. OutboxTypeOK'
    BY <1>b, <2>2, <2>3, <2>4, <2>5, <2>6 DEF OutboxInv, OutboxTypeOK, row, Open
  <2>8. ClaimsHold' /\ SentIsFresh'
    BY <1>c, <2>2, <2>4 DEF OutboxInv, ClaimsHold, SentIsFresh, row
  <2>9. SentInRound'
    BY <1>s, <2>5, <2>6 DEF SentInRound
  <2>10. ReportsAreFresh'
    BY <2>2, <2>4, <2>5 DEF OutboxInv, ReportsAreFresh, Open, row
  <2> QED
    BY <2>7, <2>8, <2>9, <2>10 DEF OutboxInv
<1>5. ASSUME NEW r \in Relays, SentEffect(r), RoundsFit, faults' \in 0 .. MaxFaults,
             UNCHANGED <<topic, stored, fresh>>
      PROVE  OutboxInv'
  <2> DEFINE S == Reportable(r, sent[r])
  <2>1. S \in SUBSET Rows /\ S \subseteq fresh
    BY <1>b DEF Reportable, OutboxInv, ReportsAreFresh
  <2>2. Freed(S) /\ Marked(S, "SENT") /\ Deferred(S)
    BY <1>5 DEF SentEffect
  <2>3. status' \in [Rows -> OutboxStates] /\ \A o \in Rows \ S : status'[o] = status[o]
    BY <1>t, <2>2 DEF Marked, OutboxStates
  <2>4. due' \in [Rows -> BOOLEAN] /\ \A o \in Rows \ S : due'[o] = due[o]
    BY <1>t, <2>2 DEF Deferred
  <2> HIDE DEF S
  <2> QED
    BY <1>t, <1>5, <2>1, <2>2, <2>3, <2>4, MarkSafe
<1>6. ASSUME NEW r \in Relays, NEW U \in SUBSET Rows, RetryEffect(r, U), RoundsFit,
             faults' \in 0 .. MaxFaults, UNCHANGED <<topic, stored, fresh>>
      PROVE  OutboxInv'
  <2> DEFINE S == Reportable(r, U)
  <2>1. S \in SUBSET Rows
    BY DEF Reportable
  <2>2. Freed(S) /\ Deferred(S) /\ UNCHANGED status
    BY <1>6 DEF RetryEffect
  <2>3. due' \in [Rows -> BOOLEAN] /\ \A o \in Rows \ S : due'[o] = due[o]
    BY <1>t, <2>2 DEF Deferred
  <2> HIDE DEF S
  <2> QED
    BY <1>t, <1>6, <2>1, <2>2, <2>3, MarkSafe DEF OutboxInv, SentIsFresh
<1>7. ASSUME NEW r \in Relays, MarkSentBatch(r) PROVE OutboxInv'
  <2>1. pc' = [pc EXCEPT ![r] = "retry"] /\ UNCHANGED <<batch, sent>>
    BY <1>7 DEF MarkSentBatch
  <2>2. RoundsFit
    BY <1>b, <1>s, <2>1 DEF RoundsFit
  <2> QED
    BY <1>5, <1>7, <1>t, <2>2 DEF MarkSentBatch
<1>8. ASSUME NEW r \in Relays, ScheduleRetryBatch(r) PROVE OutboxInv'
  <2>1. RoundsFit /\ batch[r] \ sent[r] \in SUBSET Rows
    BY <1>8, <1>b, RoundOver DEF ScheduleRetryBatch
  <2> QED
    BY <1>6, <1>8, <1>t, <2>1 DEF ScheduleRetryBatch
<1>9. ASSUME NEW r \in Relays, CallFails(r) PROVE OutboxInv'
  <2>1. /\ RoundsFit /\ faults' \in 0 .. MaxFaults
        /\ UNCHANGED <<topic, stored, fresh>>
    BY <1>9, RoundOver, FaultCounts DEF CallFails, OutboxInv
  <2>2. CASE UNCHANGED <<row, valid>>
    <3>1. UNCHANGED <<status, owner, leased, due>>
      BY <2>2 DEF row
    <3> QED
      BY <1>t, <1>l, <1>c, <2>1, <2>2, <3>1, RowsRest
  <2>3. CASE pc[r] = "claim" /\ ClaimEffect(r) /\ UNCHANGED <<status, due, valid>>
    <3>1. sent[r] = {}
      BY <1>s, <2>3
    <3>2. /\ owner' \in [Rows -> Relays \cup {"nobody", "dead"}]
          /\ leased' \in [Rows -> BOOLEAN]
          /\ \A o \in Rows : leased'[o] => owner'[o] # "nobody" /\ Open(o)
          /\ \A q \in Relays : \A o \in valid'[q] : owner'[o] = q /\ leased'[o] /\ due'[o]
          /\ \A q \in Relays : \A o \in sent[q] : owner'[o] = q => owner[o] = q
      BY <2>3, <3>1, ClaimSafe DEF Open
    <3>3. \A q \in Relays : \A o \in sent'[q] : owner'[o] = q => owner[o] = q
      BY <2>1, <3>2 DEF RoundsFit
    <3> QED
      BY <1>t, <2>1, <2>3, <3>2, <3>3, RowsRest
  <2>4. CASE SentEffect(r)
    BY <1>5, <2>1, <2>4
  <2>5. ASSUME NEW U \in SUBSET (batch[r] \ sent[r]), RetryEffect(r, U) PROVE OutboxInv'
    BY <1>6, <1>b, <2>1, <2>5
  <2> QED
    BY <1>9, <2>2, <2>3, <2>4, <2>5 DEF CallFails
<1>10. ASSUME NEW r \in Relays, Crash(r) PROVE OutboxInv'
  <2>1. RoundsFit /\ faults' \in 0 .. MaxFaults
    BY <1>10, RoundOver, FaultCounts DEF Crash, OutboxInv
  <2>2. /\ owner' = [o \in Rows |-> IF owner[o] = r THEN "dead" ELSE owner[o]]
        /\ valid' = [valid EXCEPT ![r] = {}]
        /\ UNCHANGED <<status, leased, due, topic, stored, fresh>>
    BY <1>10 DEF Crash
  <2>3. /\ owner' \in [Rows -> Relays \cup {"nobody", "dead"}]
        /\ \A o \in Rows : leased[o] => owner'[o] # "nobody"
    BY <1>t, <1>l, <2>2
  <2>4. /\ valid' \in [Relays -> SUBSET Rows]
        /\ \A q \in Relays : \A o \in valid'[q] : owner'[o] = q
    BY <1>t, <1>c, <2>2
  <2>5. \A q \in Relays : \A o \in Rows : owner'[o] = q => owner[o] = q
    BY <1>t, <2>2, OutboxConstantsOK
  <2>6. \A q \in Relays : sent'[q] \subseteq Rows
    BY <2>1 DEF RoundsFit
  <2>7. \A q \in Relays : \A o \in valid'[q] : leased'[o] /\ due'[o]
    BY <1>c, <1>t, <2>2
  <2> QED
    BY <1>t, <1>l, <2>1, <2>2, <2>3, <2>4, <2>5, <2>6, <2>7, RowsRest
<1>11. ASSUME NEW o \in Rows, LeaseEnds(o) PROVE OutboxInv'
  <2>1. RoundsFit
    BY <1>11, RoundRests DEF LeaseEnds
  <2>2. /\ leased' \in [Rows -> BOOLEAN]
        /\ \A p \in Rows : leased'[p] => leased[p]
        /\ \A p \in Rows \ {o} : leased'[p] = leased[p]
    BY <1>11, <1>t DEF LeaseEnds
  <2>3. /\ valid' \in [Relays -> SUBSET Rows]
        /\ \A q \in Relays : \A p \in valid'[q] : p \in valid[q] /\ p # o /\ p \in Rows
    BY <1>11, <1>t DEF LeaseEnds
  <2>4. UNCHANGED <<status, owner, due, topic, stored, faults, fresh>>
    BY <1>11 DEF LeaseEnds
  <2> QED
    BY <1>t, <1>l, <1>c, <2>1, <2>2, <2>3, <2>4, RowsRest
<1>12. ASSUME NEW o \in Rows, BecomesDue(o) PROVE OutboxInv'
  <2>1. RoundsFit
    BY <1>12, RoundRests DEF BecomesDue
  <2>2. due' \in [Rows -> BOOLEAN] /\ \A p \in Rows : due[p] => due'[p]
    BY <1>12, <1>t DEF BecomesDue
  <2>3. UNCHANGED <<status, owner, leased, topic, stored, faults, fresh, valid>>
    BY <1>12 DEF BecomesDue
  <2> QED
    BY <1>t, <1>l, <1>c, <2>1, <2>2, <2>3, RowsRest
<1>13. ASSUME NEW o \in Rows, Insert(o) PROVE OutboxInv'
  <2>1. UNCHANGED <<owner, leased, topic, stored, round, faults, fresh, valid>>
    BY <1>13 DEF Insert
  <2>2. /\ status' \in [Rows -> OutboxStates] /\ status'[o] = "PENDING"
        /\ \A p \in Rows \ {o} : status'[p] = status[p]
    BY <1>13, <1>t DEF Insert, Marked, OutboxStates
  <2>3. due' \in [Rows -> BOOLEAN] /\ \A p \in Rows : due[p] => due'[p]
    BY <1>13, <1>t DEF Insert
  <2>4. ~leased[o]
    BY <1>13, <1>l DEF Insert, Open
  <2>5. OutboxTypeOK'
    BY <2>1, <2>2, <2>3 DEF OutboxInv, OutboxTypeOK, Open, round
  <2>6. ClaimsHold' /\ SentInRound' /\ SentIsFresh'
    BY <1>t, <1>c, <2>1, <2>2, <2>3
    DEF OutboxInv, ClaimsHold, SentInRound, SentIsFresh, round
  <2>7. ReportsAreFresh'
    BY <1>13, <2>1, <2>2 DEF OutboxInv, ReportsAreFresh, round
  <2> QED
    BY <2>5, <2>6, <2>7 DEF OutboxInv
<1>14. ASSUME NEW o \in Rows, Consume(o) PROVE OutboxInv'
  <2> DEFINE S == {o} \cap {p \in Rows : Open(p)}
  <2>1. RoundsFit /\ UNCHANGED <<due, faults, fresh>>
    BY <1>14, RoundRests DEF Consume
  <2>2. S \in SUBSET Rows /\ Freed(S) /\ Marked(S, "COMPLETED")
    BY <1>14 DEF Consume
  <2>3. /\ status' \in [Rows -> OutboxStates]
        /\ \A p \in Rows \ S : status'[p] = status[p]
        /\ \A p \in S : status'[p] = "COMPLETED"
    BY <1>t, <2>2 DEF Marked, OutboxStates
  <2>4. topic' \subseteq Rows /\ stored' \subseteq Rows
    BY <1>14, <1>t DEF Consume
  <2> HIDE DEF S
  <2> QED
    BY <1>t, <2>1, <2>2, <2>3, <2>4, MarkSafe
<1>15. ASSUME NEW o \in Rows, DeadLetter(o) PROVE OutboxInv'
  <2>1. /\ RoundsFit /\ faults' \in 0 .. MaxFaults
        /\ topic' \subseteq Rows /\ stored' = stored
    BY <1>15, <1>t, RoundRests, FaultCounts DEF DeadLetter, OutboxInv
  <2>2. CASE Retried(o)
    BY <1>t, <2>1, <2>2, RetriedSafe
  <2>3. CASE Marked({o}, "MANUAL_REVIEW") /\ Freed({o}) /\ UNCHANGED <<due, fresh>>
    <3>1. /\ status' \in [Rows -> OutboxStates]
          /\ \A p \in Rows \ {o} : status'[p] = status[p]
          /\ status'[o] = "MANUAL_REVIEW"
      BY <1>t, <2>3 DEF Marked, OutboxStates
    <3> QED
      BY <1>t, <2>1, <2>3, <3>1, MarkSafe
  <2>4. CASE UNCHANGED <<row, fresh, valid>>
    <3>1. UNCHANGED <<status, owner, leased, due>>
      BY <2>4 DEF row
    <3> QED
      BY <1>t, <1>l, <1>c, <2>1, <2>4, <3>1, RowsRest
  <2> QED
    BY <1>15, <2>2, <2>3, <2>4 DEF DeadLetter
<1>16. ASSUME NEW o \in Rows, RetryManualReview(o) PROVE OutboxInv'
  <2>1. RoundsFit /\ UNCHANGED <<topic, stored, faults>> /\ Retried(o)
    BY <1>16, RoundRests DEF RetryManualReview
  <2> QED
    BY <1>t, <2>1, RetriedSafe
<1>17. CASE UNCHANGED vars
  <2>1. RoundsFit
    BY <1>17, RoundRests DEF vars
  <2> QED
    BY <1>t, <1>l, <1>c, <1>17, <2>1, RowsRest DEF vars, row
<1> QED
    BY <1>1, <1>2, <1>3, <1>4, <1>7, <1>8, <1>9, <1>10, <1>11, <1>12, <1>13, <1>14,
       <1>15, <1>16, <1>17
    DEF Next, RelayStep

LEMMA OutboxInvariant == Spec => []OutboxInv
BY InitOutboxInv, OutboxStep, PTL DEF Spec

-----------------------------------------------------------------------------

\* Types, and a lease runs only on an open row that has an owner: what completes,
\* parks or queues a row ends its lease as well.
THEOREM OutboxTypeCorrect == Spec => []OutboxTypeOK
BY OutboxInvariant, PTL DEF OutboxInv

\* However late a report comes, a row that was queued again is not marked SENT by it.
THEOREM SentIsFreshHolds == Spec => []SentIsFresh
BY OutboxInvariant, PTL DEF OutboxInv

\* Relays that found the same rows never hold one of them together.
THEOREM OneHolderHolds == Spec => []OneHolder
<1>1. OutboxInv => OneHolder
    BY DEF OutboxInv, OutboxTypeOK, ClaimsHold, OneHolder
<1> QED
    BY <1>1, OutboxInvariant, PTL

\* A claim is never based on the time at which the row was found.
THEOREM HolderIsDueHolds == Spec => []HolderIsDue
<1>1. OutboxInv => HolderIsDue
    BY DEF OutboxInv, OutboxTypeOK, ClaimsHold, HolderIsDue
<1> QED
    BY <1>1, OutboxInvariant, PTL
=============================================================================
