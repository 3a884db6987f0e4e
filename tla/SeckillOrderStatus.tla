------------------------- MODULE SeckillOrderStatus -------------------------
(***************************************************************************)
(* A buyer who asks for the status of his order while the pipeline moves.  *)
(* querySeckillOrderStatus looks in three places, one after the other and  *)
(* without a transaction: the order table, the outbox, and the hash of     *)
(* accepted orders in Redis.                                               *)
(***************************************************************************)
EXTENDS SeckillOrder

CONSTANT Asked      \* orders whose buyers ask

ASSUME AskedAssumption == Asked \subseteq Orders

VARIABLES
    askPc,          \* where the query looks next
    askOrder,       \* the order it is about
    answer,         \* the last answer about an order
    known           \* ghost: where the order was when the query began

askVars == <<askPc, askOrder, answer, known>>
statusVars == <<vars, askVars>>

Answers == {"none", "missing", "PROCESSING", "MANUAL_REVIEW", "SUCCESS", "CANCELLED"}

StatusTypeOK ==
    /\ TypeOK
    /\ askPc \in {"idle", "outbox", "accepted"}
    /\ askOrder \in Asked \cup {NoOrder}
    /\ (askPc = "idle") <=> (askOrder = NoOrder)
    /\ answer \in [Asked -> Answers]
    /\ known \in {"nowhere", "accepted", "stored"}

StatusInit ==
    /\ Init
    /\ askPc = "idle"
    /\ askOrder = NoOrder
    /\ answer = [o \in Asked |-> "none"]
    /\ known = "nowhere"

-----------------------------------------------------------------------------

\* Result.ok or Result.fail
Answer(o, a) ==
    /\ answer' = [answer EXCEPT ![o] = a]
    /\ askPc' = "idle"
    /\ askOrder' = NoOrder
    /\ known' = "nowhere"

GoOn(o, place) ==
    /\ askPc' = place
    /\ askOrder' = o
    /\ UNCHANGED answer

\* Mutant: the query of the order table leaves cancelled orders out.
OnlyActive(o) == order[o] = "ACTIVE"

\* getById
OrderFound(o) == order[o] # "none"

Whereabouts(o) ==
    IF outbox[o] # "none" THEN "stored" ELSE IF o \in accepted THEN "accepted" ELSE "nowhere"

AskOrder(o) ==
    /\ askPc = "idle"
    /\ \/ /\ OrderFound(o)
          /\ Answer(o, IF order[o] = "CANCELLED" THEN "CANCELLED" ELSE "SUCCESS")
       \/ /\ ~OrderFound(o)
          /\ GoOn(o, "outbox")
          /\ known' = Whereabouts(o)
    /\ UNCHANGED vars

\* Mutant: the mapper selects the rows that the relay still works on.
RowOpen(o) == Open(o)

\* findByOrderId
RowFound(o) == outbox[o] # "none"

AskOutbox ==
    /\ askPc = "outbox"
    /\ \/ /\ RowFound(askOrder)
          /\ Answer(askOrder,
                    IF outbox[askOrder] = "MANUAL_REVIEW" THEN "MANUAL_REVIEW" ELSE "PROCESSING")
       \/ /\ ~RowFound(askOrder)
          /\ GoOn(askOrder, "accepted")
          /\ UNCHANGED known
    /\ UNCHANGED vars

\* HGET seckill:order:accepted
AskAccepted ==
    /\ askPc = "accepted"
    /\ Answer(askOrder, IF askOrder \in accepted THEN "PROCESSING" ELSE "missing")
    /\ UNCHANGED vars

StatusNext ==
    \/ \E o \in Asked : AskOrder(o)
    \/ AskOutbox
    \/ AskAccepted
    \/ Next /\ UNCHANGED askVars

StatusSpec == StatusInit /\ [][StatusNext]_statusVars

\* A buyer asks again and again, and a query that began comes to its answer: with one
\* order in Asked, weak fairness is enough.
PatientSpec ==
    /\ StatusSpec
    /\ Fairness
    /\ WF_statusVars(AskOutbox)
    /\ WF_statusVars(AskAccepted)
    /\ \A o \in Asked : WF_statusVars(AskOrder(o))

-----------------------------------------------------------------------------

\* Once an order has its row, every query finds it, whatever the consumer, the dead
\* letters and the review do between the reads: Redis is asked only about orders
\* that had no row when the query began.
StoredIsFound == askPc = "accepted" => known # "stored"

\* What a buyer was told about a finished order is never taken back.
AnswersAdvance ==
    [][\A o \in Asked :
        /\ answer[o] = "CANCELLED" => answer'[o] = "CANCELLED"
        /\ answer[o] = "SUCCESS" => answer'[o] \in {"SUCCESS", "CANCELLED"}]_statusVars

\* A buyer who keeps asking learns the outcome of an order that MySQL can store,
\* also when he cancels before he asks.
OutcomeLearned ==
    \A o \in Asked \ Rejected : o \in Admitted ~> answer[o] \in {"SUCCESS", "CANCELLED"}
=============================================================================
