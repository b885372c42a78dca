---------------------- MODULE NotificationDeliveryProofs ----------------------
(***************************************************************************)
(* What is proved of the delivery of an event, for any number of batches   *)
(* and any limits.                                                         *)
(*                                                                         *)
(* Counters and statuses are written from reads that may be old.  They     *)
(* stay right because a batch goes on only with a counter below its limit  *)
(* (ConsumerMemory, SenderMemory), and writes the status that belongs to   *)
(* the counter it writes.                                                  *)
(*                                                                         *)
(* One event gives one row (RowInv), and as long as nothing was lost, one  *)
(* batch of the senders is at work and what has been delivered is no       *)
(* longer due, or about to be recorded (OnceInv): nobody sends it again.   *)
(***************************************************************************)
EXTENDS NotificationDelivery, TLAPS

Working(s) == sender[s].at \in {"calling", "sent", "erring"}

\* What a batch remembers of the row it is working on.
ConsumerMemory ==
    \A c \in Consumer : consumer[c].at = "recording" => consumer[c].attempts < MaxAttempts
SenderMemory ==
    \A s \in Sender :
        /\ sender[s].todo \subseteq Created
        /\ Working(s) => sender[s].todo # {}
        /\ sender[s].at \in {"calling", "erring"} => sender[s].retries < MaxRetry
        /\ sender[s].at = "sent" => receiver # "nothing"

\* The unique index: one row of the event at most, committed or about to be.
RowInv ==
    /\ \A m, n \in Created : m = n
    /\ \A c \in Consumer : consumer[c].at = "inserted" =>
          Created = {} /\ \A d \in Consumer : consumer[d].at = "inserted" => d = c

\* Nothing is sent before it is a row; and while nothing was lost, one batch is at work,
\* and a message that was delivered is recorded or being recorded by it.
OnceInv ==
    /\ receiver # "twice"
    /\ Created = {} => receiver = "nothing"
    /\ ~mayRepeat =>
          /\ \A s \in Sender : sender[s].at # "idle" =>
                sendLock /\ \A t \in Sender : sender[t].at # "idle" => t = s
          /\ receiver = "message" =>
                /\ Due = {} \/ \E s \in Sender : sender[s].at = "sent"
                /\ \A s \in Sender : sender[s].at \notin {"calling", "erring"}

DeliveryInv ==
    /\ TypeOK
    /\ CountersMatchStatus
    /\ SuccessWasDelivered
    /\ ConsumerMemory
    /\ SenderMemory
    /\ RowInv
    /\ OnceInv

\* The limits are positive, so that 0 and the successor of a smaller counter are counters.
LEMMA Limits ==
    /\ MaxAttempts \in Nat /\ MaxAttempts > 0 /\ MaxRetry \in Nat /\ MaxRetry > 0
    /\ \A n \in 0 .. MaxAttempts : n < MaxAttempts => n + 1 \in 0 .. MaxAttempts
    /\ \A n \in 0 .. MaxRetry : n < MaxRetry => n + 1 \in 0 .. MaxRetry
  BY AttemptsAssumption

LEMMA InitDeliveryInv == Init => DeliveryInv
  <1> SUFFICES ASSUME Init
               PROVE  DeliveryInv
    OBVIOUS
  <1>0. /\ 0 \in 0 .. MaxAttempts /\ 0 \in 0 .. MaxRetry /\ 0 \in 0 .. MaxIncidents
        /\ [at |-> "idle", attempts |-> 0] \in ConsumerState
        /\ [at |-> "idle", todo |-> {}, retries |-> 0] \in SenderState
        /\ [status |-> "NONE", retries |-> 0]
              \in [status : NotificationStatus \cup {"NONE"}, retries : 0 .. MaxRetry]
    BY Limits, IncidentsAssumption DEF ConsumerState, SenderState
  <1>1. TypeOK
    BY <1>0 DEF Init, TypeOK, EventStatus, Received
  <1>2. Created = {} /\ Due = {}
    BY DEF Init, Created, Due
  <1>3. CountersMatchStatus /\ SuccessWasDelivered
    BY Limits, <1>2 DEF Init, CountersMatchStatus, SuccessWasDelivered
  <1>4. ConsumerMemory /\ SenderMemory /\ RowInv /\ OnceInv
    BY Limits, <1>2 DEF Init, ConsumerMemory, SenderMemory, RowInv, OnceInv, Working
  <1> QED BY <1>1, <1>3, <1>4 DEF DeliveryInv

-----------------------------------------------------------------------------
(* The batches of the consumers.                                            *)

\* What a consumer does to its own state.
LEMMA ConsumerTypes ==
    ASSUME TypeOK, NEW c \in Consumer, NEW x \in ConsumerState,
           consumer' = [consumer EXCEPT ![c] = x]
    PROVE  /\ consumer' \in [Consumer -> ConsumerState]
           /\ consumer'[c] = x
           /\ \A d \in Consumer \ {c} : consumer'[d] = consumer[d]
  BY DEF TypeOK

\* A consumer that drops what it has read.
LEMMA ConsumerForgets ==
    ASSUME TypeOK, NEW c \in Consumer,
           NEW at \in {"idle", "batch", "processing", "inserted", "failing", "done"},
           ConsumerTo(c, at)
    PROVE  /\ consumer' \in [Consumer -> ConsumerState]
           /\ consumer'[c].at = at
           /\ \A d \in Consumer \ {c} : consumer'[d] = consumer[d]
  <1> DEFINE x == [at |-> at, attempts |-> 0]
  <1>1. x \in ConsumerState /\ x.at = at
    BY Limits DEF ConsumerState
  <1>2. consumer' = [consumer EXCEPT ![c] = x]
    BY DEF ConsumerTo
  <1> HIDE DEF x
  <1> QED BY <1>1, <1>2, ConsumerTypes

\* A consumer that writes no row leaves the senders and the receiver alone.
LEMMA SendersUntouched ==
    ASSUME SuccessWasDelivered, SenderMemory, OnceInv, UNCHANGED <<notification, sendVars>>
    PROVE  SuccessWasDelivered' /\ SenderMemory' /\ OnceInv' /\ Created' = Created
  BY DEF SuccessWasDelivered, SenderMemory, Working, OnceInv, Created, Due, sendVars,
     receiverVars

LEMMA ConsumerKeepsRow ==
    ASSUME RowInv, NEW c \in Consumer, Created' = Created, consumer'[c].at # "inserted",
           \A d \in Consumer \ {c} : consumer'[d] = consumer[d]
    PROVE  RowInv'
  BY DEF RowInv

LEMMA ConsumerMoves ==
    ASSUME DeliveryInv, NEW c \in Consumer,
           StartConsuming(c) \/ ReadEvent(c) \/ EventFails(c) \/ FinishConsuming(c)
             \/ ConsumerCrash(c)
    PROVE  DeliveryInv'
  <1> USE DEF DeliveryInv
  <1>1. PICK at \in {"idle", "batch", "processing", "failing", "done"} : ConsumerTo(c, at)
    BY DEF StartConsuming, ReadEvent, EventFails, FinishConsuming, ConsumerCrash
  <1>2. /\ consumer' \in [Consumer -> ConsumerState]
        /\ consumer'[c].at \notin {"recording", "inserted"}
        /\ \A d \in Consumer \ {c} : consumer'[d] = consumer[d]
    BY <1>1, ConsumerForgets
  <1>3. UNCHANGED <<event, notification, sendVars>>
    BY DEF StartConsuming, ReadEvent, EventFails, FinishConsuming, ConsumerCrash
  <1>4. /\ eventLock' \subseteq Consumer
        /\ incidents' \in 0 .. MaxIncidents
    BY IncidentsAssumption
       DEF TypeOK, StartConsuming, ReadEvent, EventFails, FinishConsuming, ConsumerCrash
  <1>5. TypeOK'
    BY <1>2, <1>3, <1>4 DEF TypeOK, sendVars, receiverVars
  <1>6. CountersMatchStatus' /\ ConsumerMemory'
    BY <1>2, <1>3 DEF CountersMatchStatus, Due, ConsumerMemory
  <1>7. SuccessWasDelivered' /\ SenderMemory' /\ OnceInv' /\ Created' = Created
    BY <1>3, SendersUntouched
  <1>8. RowInv'
    BY <1>2, <1>7, ConsumerKeepsRow
  <1> QED BY <1>5, <1>6, <1>7, <1>8

LEMMA InsertStep ==
    ASSUME DeliveryInv, NEW c \in Consumer, Insert(c)
    PROVE  DeliveryInv'
  <1> USE DEF DeliveryInv
  <1>1. UNCHANGED <<event, eventLock, notification, sendVars, incidents>>
    BY DEF Insert
  <1>2. /\ consumer' \in [Consumer -> ConsumerState]
        /\ consumer'[c].at = "inserted"
        /\ \A d \in Consumer \ {c} : consumer'[d] = consumer[d]
    BY ConsumerForgets DEF Insert
  <1>3. TypeOK'
    BY <1>1, <1>2 DEF TypeOK, sendVars, receiverVars
  <1>4. CountersMatchStatus' /\ ConsumerMemory'
    BY <1>1, <1>2 DEF CountersMatchStatus, Due, ConsumerMemory
  <1>5. SuccessWasDelivered' /\ SenderMemory' /\ OnceInv' /\ Created' = Created
    BY <1>1, SendersUntouched
  <1>6. RowInv'
    BY <1>2, <1>5 DEF Insert, IndexFree, RowInv
  <1> QED BY <1>3, <1>4, <1>5, <1>6

\* The row that is committed with the event is the first.
LEMMA CompleteStep ==
    ASSUME DeliveryInv, NEW c \in Consumer, CompleteEvent(c)
    PROVE  DeliveryInv'
  <1> USE DEF DeliveryInv
  <1>1. ConsumerTo(c, "done") /\ UNCHANGED <<eventLock, sendVars, incidents>>
    BY DEF CompleteEvent
  <1>2. /\ consumer' \in [Consumer -> ConsumerState]
        /\ consumer'[c].at = "done"
        /\ \A d \in Consumer \ {c} : consumer'[d] = consumer[d]
    BY <1>1, ConsumerForgets
  <1>3. /\ event' \in [status : EventStatus, attempts : 0 .. MaxAttempts, available : BOOLEAN]
        /\ event'.status = "COMPLETED"
    BY DEF TypeOK, CompleteEvent, EventStatus
  <1>4. ConsumerMemory'
    BY <1>2 DEF ConsumerMemory
  <1>5. CASE UNCHANGED notification
    <2>1. TypeOK'
      BY <1>1, <1>2, <1>3, <1>5 DEF TypeOK, sendVars, receiverVars
    <2>2. CountersMatchStatus'
      BY <1>3, <1>5 DEF CountersMatchStatus, Due
    <2>3. SuccessWasDelivered' /\ SenderMemory' /\ OnceInv' /\ Created' = Created
      BY <1>1, <1>5, SendersUntouched
    <2>4. RowInv'
      BY <1>2, <2>3, ConsumerKeepsRow
    <2> QED BY <1>4, <2>1, <2>2, <2>3, <2>4
  <1>6. CASE consumer[c].at = "inserted"
    <2>1. /\ Created = {}
          /\ \A d \in Consumer \ {c} : consumer[d].at # "inserted"
          /\ receiver = "nothing"
      BY <1>6 DEF RowInv, OnceInv
    <2>2. PICK n \in Row : notification' = [notification EXCEPT ![n] = Queued]
      BY <1>6, <2>1, RowAssumption DEF CompleteEvent
    <2>3. /\ notification' \in
               [Row -> [status : NotificationStatus \cup {"NONE"}, retries : 0 .. MaxRetry]]
          /\ notification'[n] = Queued
          /\ \A m \in Row \ {n} : notification'[m].status = "NONE"
      BY <2>1, <2>2, Limits DEF TypeOK, Queued, NotificationStatus, Created
    <2>4. Created' = {n}
      BY <2>3 DEF Created, Queued
    <2>5. TypeOK'
      BY <1>1, <1>2, <1>3, <2>3 DEF TypeOK, sendVars, receiverVars
    <2>6. CountersMatchStatus' /\ SuccessWasDelivered'
      BY <1>3, <2>3, Limits DEF CountersMatchStatus, SuccessWasDelivered, Due, Queued
    <2>7. SenderMemory'
      BY <1>1, <2>1 DEF SenderMemory, Working, sendVars, receiverVars
    <2>8. RowInv'
      BY <1>2, <2>1, <2>4 DEF RowInv
    <2>9. OnceInv'
      BY <1>1, <2>1, <2>4 DEF OnceInv, sendVars, receiverVars
    <2> QED BY <1>4, <2>5, <2>6, <2>7, <2>8, <2>9
  <1> QED BY <1>5, <1>6 DEF CompleteEvent

LEMMA ReadFailureStep ==
    ASSUME DeliveryInv, NEW c \in Consumer, ReadFailure(c)
    PROVE  DeliveryInv'
  <1> USE DEF DeliveryInv
  <1>1. PICK at \in {"recording", "done"}, n \in 0 .. MaxAttempts :
            /\ consumer' = [consumer EXCEPT ![c] = [at |-> at, attempts |-> n]]
            /\ at = "recording" => n < MaxAttempts
    <2>1. CASE EventDue
      BY <2>1 DEF ReadFailure, EventDue, TypeOK, CountersMatchStatus
    <2>2. CASE ~EventDue
      BY <2>2, Limits DEF ReadFailure, ConsumerTo
    <2> QED BY <2>1, <2>2
  <1> DEFINE x == [at |-> at, attempts |-> n]
  <1>x. /\ x \in ConsumerState /\ x.at # "inserted"
        /\ x.at = "recording" => x.attempts < MaxAttempts
    BY <1>1 DEF ConsumerState
  <1>y. consumer' = [consumer EXCEPT ![c] = x]
    BY <1>1
  <1> HIDE DEF x
  <1>2. /\ consumer' \in [Consumer -> ConsumerState]
        /\ consumer'[c].at # "inserted"
        /\ consumer'[c].at = "recording" => consumer'[c].attempts < MaxAttempts
        /\ \A d \in Consumer \ {c} : consumer'[d] = consumer[d]
    BY <1>x, <1>y, ConsumerTypes
  <1>3. UNCHANGED <<event, eventLock, notification, sendVars, incidents>>
    BY DEF ReadFailure
  <1>4. TypeOK'
    BY <1>2, <1>3 DEF TypeOK, sendVars, receiverVars
  <1>5. CountersMatchStatus' /\ ConsumerMemory'
    BY <1>2, <1>3 DEF CountersMatchStatus, Due, ConsumerMemory
  <1>6. SuccessWasDelivered' /\ SenderMemory' /\ OnceInv' /\ Created' = Created
    BY <1>3, SendersUntouched
  <1>7. RowInv'
    BY <1>2, <1>6, ConsumerKeepsRow
  <1> QED BY <1>4, <1>5, <1>6, <1>7

LEMMA RecordFailureStep ==
    ASSUME DeliveryInv, NEW c \in Consumer, RecordFailure(c)
    PROVE  DeliveryInv'
  <1> USE DEF DeliveryInv
  <1> DEFINE attempts == consumer[c].attempts + 1
  <1>1. consumer[c].attempts \in 0 .. MaxAttempts /\ consumer[c].attempts < MaxAttempts
    BY DEF TypeOK, ConsumerState, RecordFailure, ConsumerMemory
  <1>2. attempts \in 0 .. MaxAttempts
    BY <1>1, Limits
  <1>3. /\ ConsumerTo(c, "done")
        /\ UNCHANGED <<eventLock, notification, sendVars, incidents>>
        /\ event' = [status |-> IF attempts >= MaxAttempts THEN "FAILED" ELSE "RETRYING",
                     attempts |-> attempts, available |-> FALSE]
    BY DEF RecordFailure
  <1> HIDE DEF attempts
  <1>4. /\ consumer' \in [Consumer -> ConsumerState]
        /\ consumer'[c].at = "done"
        /\ \A d \in Consumer \ {c} : consumer'[d] = consumer[d]
    BY <1>3, ConsumerForgets
  <1>5. TypeOK'
    BY <1>2, <1>3, <1>4 DEF TypeOK, EventStatus, sendVars, receiverVars
  <1>6. CountersMatchStatus' /\ ConsumerMemory'
    BY <1>2, <1>3, <1>4, Limits DEF CountersMatchStatus, Due, ConsumerMemory
  <1>7. SuccessWasDelivered' /\ SenderMemory' /\ OnceInv' /\ Created' = Created
    BY <1>3, SendersUntouched
  <1>8. RowInv'
    BY <1>4, <1>7, ConsumerKeepsRow
  <1> QED BY <1>5, <1>6, <1>7, <1>8

-----------------------------------------------------------------------------
(* The batches of the senders.                                              *)

LEMMA SenderTypes ==
    ASSUME TypeOK, NEW s \in Sender, NEW x \in SenderState,
           sender' = [sender EXCEPT ![s] = x]
    PROVE  /\ sender' \in [Sender -> SenderState]
           /\ sender'[s] = x
           /\ \A t \in Sender \ {s} : sender'[t] = sender[t]
  BY DEF TypeOK

LEMMA SenderForgets ==
    ASSUME TypeOK, NEW s \in Sender, NEW at \in {"idle", "batch"}, NEW todo \in SUBSET Row,
           SenderTo(s, at, todo)
    PROVE  /\ sender' \in [Sender -> SenderState]
           /\ sender'[s].at = at /\ sender'[s].todo = todo
           /\ \A t \in Sender \ {s} : sender'[t] = sender[t]
  <1> DEFINE x == [at |-> at, todo |-> todo, retries |-> 0]
  <1>1. x \in SenderState /\ x.at = at /\ x.todo = todo
    BY Limits DEF SenderState
  <1>2. sender' = [sender EXCEPT ![s] = x]
    BY DEF SenderTo
  <1> HIDE DEF x
  <1> QED BY <1>1, <1>2, SenderTypes

\* A sender that has called goes on with the same rows and the counter it has read.
LEMMA SenderCalled ==
    ASSUME TypeOK, NEW s \in Sender, NEW at \in {"sent", "erring"},
           sender' = [sender EXCEPT ![s].at = at]
    PROVE  /\ sender' \in [Sender -> SenderState]
           /\ sender'[s].at = at
           /\ sender'[s].todo = sender[s].todo /\ sender'[s].retries = sender[s].retries
           /\ \A t \in Sender \ {s} : sender'[t] = sender[t]
  BY DEF TypeOK, SenderState

\* A sender that has written goes on with the next row.
LEMMA SenderGoesOn ==
    ASSUME TypeOK, SenderMemory, NEW s \in Sender, sender[s].todo # {}, NextRow(s)
    PROVE  /\ sender' \in [Sender -> SenderState]
           /\ sender'[s].at = "batch" /\ sender'[s].todo \subseteq sender[s].todo
           /\ \A t \in Sender \ {s} : sender'[t] = sender[t]
           /\ Current(s) \in sender[s].todo
           /\ Current(s) \in Created
           /\ Current(s) \in Row
  <1>1. Current(s) \in sender[s].todo
    BY DEF Current
  <1>2. sender[s].todo \in SUBSET Row
    BY DEF TypeOK, SenderState
  <1>3. (sender[s].todo \ {Current(s)}) \in SUBSET Row
    BY <1>2
  <1> QED BY <1>1, <1>2, <1>3, SenderForgets DEF NextRow, SenderMemory

\* What is known of the rows once the only one is rewritten.
LEMMA RowWritten ==
    ASSUME TypeOK, RowInv, NEW n \in Created,
           NEW x \in [status : NotificationStatus, retries : 0 .. MaxRetry],
           notification' = [notification EXCEPT ![n] = x]
    PROVE  /\ notification' \in
                 [Row -> [status : NotificationStatus \cup {"NONE"}, retries : 0 .. MaxRetry]]
           /\ notification'[n] = x
           /\ \A m \in Row \ {n} : notification'[m].status = "NONE"
           /\ Created' = Created
           /\ Created # {}
           /\ Due' = IF x.status \in {"PENDING", "RETRYING"} THEN {n} ELSE {}
  <1>1. n \in Row /\ \A m \in Row \ {n} : notification[m].status = "NONE"
    BY DEF Created, RowInv
  <1>2. /\ notification' \in
              [Row -> [status : NotificationStatus \cup {"NONE"}, retries : 0 .. MaxRetry]]
        /\ notification'[n] = x
        /\ \A m \in Row \ {n} : notification'[m] = notification[m]
    BY <1>1 DEF TypeOK
  <1>3. x.status # "NONE"
    BY DEF NotificationStatus
  <1>4. Created' = Created
    BY <1>1, <1>2, <1>3 DEF Created
  <1>5. Due' = IF x.status \in {"PENDING", "RETRYING"} THEN {n} ELSE {}
    BY <1>1, <1>2 DEF Due
  <1> QED BY <1>1, <1>2, <1>4, <1>5

\* Consumers and rows when a sender only moves.
LEMMA RowsUntouched ==
    ASSUME CountersMatchStatus, ConsumerMemory, RowInv, UNCHANGED <<consumeVars, notification>>
    PROVE  /\ CountersMatchStatus' /\ ConsumerMemory' /\ RowInv'
           /\ Created' = Created /\ Due' = Due
  BY DEF CountersMatchStatus, ConsumerMemory, RowInv, Created, Due, consumeVars

LEMMA StartSendingStep ==
    ASSUME DeliveryInv, NEW s \in Sender, StartSending(s)
    PROVE  DeliveryInv'
  <1> USE DEF DeliveryInv
  <1>1. UNCHANGED <<consumeVars, notification, receiverVars, incidents>>
    BY DEF StartSending
  <1>2. Due \subseteq Created /\ Due \in SUBSET Row
    BY DEF Due, Created
  <1>3. /\ sender' \in [Sender -> SenderState]
        /\ sender'[s].at = "batch" /\ sender'[s].todo = Due
        /\ \A t \in Sender \ {s} : sender'[t] = sender[t]
    BY <1>2, SenderForgets DEF StartSending
  <1>4. TypeOK'
    BY <1>1, <1>3 DEF TypeOK, consumeVars, receiverVars, StartSending
  <1>5. CountersMatchStatus' /\ ConsumerMemory' /\ RowInv' /\ Created' = Created /\ Due' = Due
    BY <1>1, RowsUntouched
  <1>6. SuccessWasDelivered'
    BY <1>1 DEF SuccessWasDelivered, receiverVars
  <1>7. SenderMemory'
    BY <1>1, <1>2, <1>3, <1>5 DEF SenderMemory, Working, receiverVars
  <1>8. OnceInv'
    BY <1>1, <1>3, <1>5 DEF OnceInv, receiverVars, StartSending
  <1> QED BY <1>4, <1>5, <1>6, <1>7, <1>8

LEMMA ReadNotificationStep ==
    ASSUME DeliveryInv, NEW s \in Sender, ReadNotification(s)
    PROVE  DeliveryInv'
  <1> USE DEF DeliveryInv
  <1>1. UNCHANGED <<consumeVars, notification, receiverVars, sendLock, incidents>>
    BY DEF ReadNotification
  <1>2. sender[s].at = "batch" /\ sender[s].todo # {}
    BY DEF ReadNotification
  <1>3. CountersMatchStatus' /\ ConsumerMemory' /\ RowInv' /\ Created' = Created /\ Due' = Due
    BY <1>1, RowsUntouched
  <1>4. SuccessWasDelivered'
    BY <1>1 DEF SuccessWasDelivered, receiverVars
  <1>5. CASE Current(s) \in Due
    <2> DEFINE n == notification[Current(s)].retries
    <2>1. n \in 0 .. MaxRetry /\ n < MaxRetry
      BY <1>5 DEF TypeOK, CountersMatchStatus, Due
    <2>2. sender' = [sender EXCEPT ![s].at = "calling", ![s].retries = n]
      BY <1>5 DEF ReadNotification
    <2> HIDE DEF n
    <2>3. /\ sender' \in [Sender -> SenderState]
          /\ sender'[s].at = "calling" /\ sender'[s].retries = n
          /\ sender'[s].todo = sender[s].todo
          /\ \A t \in Sender \ {s} : sender'[t] = sender[t]
      BY <2>1, <2>2 DEF TypeOK, SenderState
    <2>4. TypeOK'
      BY <1>1, <2>3 DEF TypeOK, consumeVars, receiverVars
    <2>5. SenderMemory'
      BY <1>1, <1>2, <1>3, <2>1, <2>3 DEF SenderMemory, Working, receiverVars
    <2>6. OnceInv'
      BY <1>1, <1>2, <1>3, <1>5, <2>3 DEF OnceInv, receiverVars
    <2> QED BY <1>3, <1>4, <2>4, <2>5, <2>6
  <1>6. CASE Current(s) \notin Due
    <2>1. NextRow(s)
      BY <1>6 DEF ReadNotification
    <2>2. /\ sender' \in [Sender -> SenderState]
          /\ sender'[s].at = "batch" /\ sender'[s].todo \subseteq sender[s].todo
          /\ \A t \in Sender \ {s} : sender'[t] = sender[t]
      BY <1>2, <2>1, SenderGoesOn
    <2>3. TypeOK'
      BY <1>1, <2>2 DEF TypeOK, consumeVars, receiverVars
    <2>4. SenderMemory'
      BY <1>1, <1>3, <2>2 DEF SenderMemory, Working, receiverVars
    <2>5. OnceInv'
      BY <1>1, <1>2, <1>3, <2>2 DEF OnceInv, receiverVars
    <2> QED BY <1>3, <1>4, <2>3, <2>4, <2>5
  <1> QED BY <1>5, <1>6

\* A call: as long as nothing was lost, nothing has been delivered before it.
LEMMA CallStep ==
    ASSUME DeliveryInv, NEW s \in Sender, Send(s) \/ SendFails(s) \/ AnswerLost(s)
    PROVE  DeliveryInv'
  <1> USE DEF DeliveryInv
  <1>1. /\ UNCHANGED <<consumeVars, notification, sendLock, incidents>>
        /\ sender[s].at = "calling"
    BY DEF Send, SendFails, AnswerLost, receiverVars
  <1>2. ~mayRepeat => receiver # "message"
    BY <1>1 DEF OnceInv
  <1>3. /\ receiver' \in Received /\ mayRepeat' \in BOOLEAN
        /\ receiver' # "twice"
        /\ receiver # "nothing" => receiver' # "nothing"
        /\ Send(s) => receiver' # "nothing" /\ mayRepeat' = mayRepeat
        /\ ~mayRepeat' /\ receiver' = "message" => Send(s)
        /\ mayRepeat => mayRepeat'
    BY <1>2 DEF Send, SendFails, AnswerLost, Delivered, receiverVars, TypeOK, Received, OnceInv
  <1>4. /\ sender' \in [Sender -> SenderState]
        /\ sender'[s].at \in {"sent", "erring"}
        /\ sender'[s].at = "sent" <=> Send(s)
        /\ sender'[s].todo = sender[s].todo /\ sender'[s].retries = sender[s].retries
        /\ \A t \in Sender \ {s} : sender'[t] = sender[t]
    <2>1. CASE Send(s)
      <3>1. sender' = [sender EXCEPT ![s].at = "sent"]
        BY <2>1 DEF Send
      <3> QED BY <2>1, <3>1, SenderCalled
    <2>2. CASE SendFails(s) \/ AnswerLost(s)
      <3>1. sender' = [sender EXCEPT ![s].at = "erring"]
        BY <2>2 DEF SendFails, AnswerLost
      <3>2. sender'[s].at = "erring"
        BY <3>1, SenderCalled
      <3>3. ~Send(s)
        <4>1. SUFFICES ASSUME Send(s) PROVE sender'[s].at = "sent"
          BY <3>2
        <4>2. sender' = [sender EXCEPT ![s].at = "sent"]
          BY <4>1 DEF Send
        <4> QED BY <4>2, SenderCalled
      <3> QED BY <3>1, <3>2, <3>3, SenderCalled
    <2> QED BY <2>1, <2>2
  <1>5. CountersMatchStatus' /\ ConsumerMemory' /\ RowInv' /\ Created' = Created /\ Due' = Due
    BY <1>1, RowsUntouched
  <1>6. TypeOK'
    BY <1>1, <1>3, <1>4 DEF TypeOK, consumeVars
  <1>7. SuccessWasDelivered'
    BY <1>1, <1>3 DEF SuccessWasDelivered
  <1>8. SenderMemory'
    BY <1>1, <1>3, <1>4, <1>5 DEF SenderMemory, Working
  <1>9. OnceInv'
    <2>1. Created # {}
      BY <1>1 DEF SenderMemory, Working
    <2>2. ASSUME ~mayRepeat'
          PROVE  \A t \in Sender : sender'[t].at # "idle" =>
                    sendLock' /\ \A u \in Sender : sender'[u].at # "idle" => u = t
      BY <1>1, <1>3, <1>4, <2>2 DEF OnceInv
    <2>3. ASSUME ~mayRepeat', receiver' = "message"
          PROVE  /\ \E t \in Sender : sender'[t].at = "sent"
                 /\ \A t \in Sender : sender'[t].at \notin {"calling", "erring"}
      <3>1. sender'[s].at = "sent"
        BY <1>3, <1>4, <2>3
      <3> QED BY <2>2, <2>3, <3>1
    <2> QED BY <1>3, <1>5, <2>1, <2>2, <2>3 DEF OnceInv
  <1> QED BY <1>5, <1>6, <1>7, <1>8, <1>9

LEMMA RecordSentStep ==
    ASSUME DeliveryInv, NEW s \in Sender, RecordSent(s)
    PROVE  DeliveryInv'
  <1> USE DEF DeliveryInv
  <1>1. /\ UNCHANGED <<consumeVars, receiverVars, sendLock, incidents>>
        /\ NextRow(s)
        /\ sender[s].at = "sent" /\ sender[s].todo # {}
        /\ receiver # "nothing"
    BY DEF RecordSent, SenderMemory, Working
  <1>2. /\ sender' \in [Sender -> SenderState]
        /\ sender'[s].at = "batch" /\ sender'[s].todo \subseteq sender[s].todo
        /\ \A t \in Sender \ {s} : sender'[t] = sender[t]
        /\ Current(s) \in Created /\ Current(s) \in Row
    BY <1>1, SenderGoesOn
  <1> DEFINE n == Current(s)
             x == [notification[n] EXCEPT !.status = "SUCCESS"]
  <1>3. x \in [status : NotificationStatus, retries : 0 .. MaxRetry] /\ x.status = "SUCCESS"
    <2>1. notification[n] \in [status : NotificationStatus \cup {"NONE"}, retries : 0 .. MaxRetry]
      BY <1>2 DEF TypeOK
    <2> QED BY <2>1 DEF NotificationStatus
  <1>4. notification' = [notification EXCEPT ![n] = x]
    BY <1>2 DEF RecordSent, TypeOK
  <1> HIDE DEF n, x
  <1>5. n \in Created
    BY <1>2 DEF n
  <1>6. /\ notification' \in
              [Row -> [status : NotificationStatus \cup {"NONE"}, retries : 0 .. MaxRetry]]
        /\ \A m \in Row : notification'[m].status \in {"SUCCESS", "NONE"}
        /\ Created' = Created /\ Created # {} /\ Due' = {}
    BY <1>3, <1>4, <1>5, RowWritten
  <1>7. TypeOK'
    BY <1>1, <1>2, <1>6 DEF TypeOK, consumeVars, receiverVars
  <1>8. CountersMatchStatus' /\ SuccessWasDelivered' /\ ConsumerMemory' /\ RowInv'
    BY <1>1, <1>6 DEF CountersMatchStatus, SuccessWasDelivered, ConsumerMemory, RowInv,
       consumeVars, receiverVars
  <1>9. SenderMemory'
    BY <1>1, <1>2, <1>6 DEF SenderMemory, Working, receiverVars
  <1>10. OnceInv'
    BY <1>1, <1>2, <1>6 DEF OnceInv, receiverVars
  <1> QED BY <1>7, <1>8, <1>9, <1>10

LEMMA RecordRetryStep ==
    ASSUME DeliveryInv, NEW s \in Sender, RecordRetry(s)
    PROVE  DeliveryInv'
  <1> USE DEF DeliveryInv
  <1> DEFINE retries == sender[s].retries + 1
             n == Current(s)
             x == [status |-> IF retries >= MaxRetry THEN "FAILED" ELSE "RETRYING",
                   retries |-> retries]
  <1>1. /\ UNCHANGED <<consumeVars, receiverVars, sendLock, incidents>>
        /\ NextRow(s)
        /\ sender[s].at = "erring" /\ sender[s].todo # {}
        /\ sender[s].retries \in 0 .. MaxRetry /\ sender[s].retries < MaxRetry
        /\ notification' = [notification EXCEPT ![n] = x]
    BY DEF RecordRetry, SenderMemory, Working, TypeOK, SenderState
  <1>2. /\ sender' \in [Sender -> SenderState]
        /\ sender'[s].at = "batch" /\ sender'[s].todo \subseteq sender[s].todo
        /\ \A t \in Sender \ {s} : sender'[t] = sender[t]
        /\ n \in Created
    BY <1>1, SenderGoesOn
  <1>3. retries \in 0 .. MaxRetry
    BY <1>1, Limits
  <1> HIDE DEF retries
  <1>4. /\ x \in [status : NotificationStatus, retries : 0 .. MaxRetry]
        /\ x.status \in {"FAILED", "RETRYING"}
        /\ x.status = "FAILED" => x.retries = MaxRetry
        /\ x.status = "RETRYING" => x.retries < MaxRetry
    BY <1>3, Limits DEF NotificationStatus
  <1> HIDE DEF n, x
  <1>5. /\ notification' \in
              [Row -> [status : NotificationStatus \cup {"NONE"}, retries : 0 .. MaxRetry]]
        /\ notification'[n] = x
        /\ \A m \in Row \ {n} : notification'[m].status = "NONE"
        /\ Created' = Created /\ Created # {}
    BY <1>1, <1>2, <1>4, RowWritten
  <1>6. TypeOK'
    BY <1>1, <1>2, <1>5 DEF TypeOK, consumeVars, receiverVars
  <1>7. CountersMatchStatus' /\ SuccessWasDelivered'
    BY <1>1, <1>4, <1>5 DEF CountersMatchStatus, SuccessWasDelivered, Due, consumeVars
  <1>8. ConsumerMemory' /\ RowInv'
    BY <1>1, <1>5 DEF ConsumerMemory, RowInv, consumeVars
  <1>9. SenderMemory'
    BY <1>1, <1>2, <1>5 DEF SenderMemory, Working, receiverVars
  <1>10. OnceInv'
    BY <1>1, <1>2, <1>5 DEF OnceInv, receiverVars
  <1> QED BY <1>6, <1>7, <1>8, <1>9, <1>10

LEMMA SenderEnds ==
    ASSUME DeliveryInv, NEW s \in Sender, FinishSending(s) \/ SenderCrash(s)
    PROVE  DeliveryInv'
  <1> USE DEF DeliveryInv
  <1>1. /\ UNCHANGED <<consumeVars, notification, receiver>>
        /\ SenderTo(s, "idle", {})
        /\ sender[s].at # "idle"
    BY DEF FinishSending, SenderCrash, receiverVars
  <1>2. /\ sender' \in [Sender -> SenderState]
        /\ sender'[s].at = "idle" /\ sender'[s].todo = {}
        /\ \A t \in Sender \ {s} : sender'[t] = sender[t]
    BY <1>1, SenderForgets
  <1>3. /\ mayRepeat' \in BOOLEAN /\ sendLock' \in BOOLEAN
        /\ mayRepeat => mayRepeat'
        /\ sender[s].at = "sent" => mayRepeat'
    BY DEF FinishSending, SenderCrash, TypeOK, receiverVars
  <1>4. incidents' \in 0 .. MaxIncidents
    <2>1. CASE FinishSending(s)
      BY <2>1 DEF TypeOK, FinishSending
    <2>2. CASE SenderCrash(s)
      <3>1. incidents \in 0 .. MaxIncidents /\ incidents < MaxIncidents
        BY <2>2 DEF TypeOK, SenderCrash
      <3>2. incidents + 1 \in 0 .. MaxIncidents
        BY <3>1, IncidentsAssumption
      <3> QED BY <2>2, <3>2 DEF SenderCrash
    <2> QED BY <2>1, <2>2
  <1>5. TypeOK'
    BY <1>1, <1>2, <1>3, <1>4 DEF TypeOK, consumeVars
  <1>6. CountersMatchStatus' /\ ConsumerMemory' /\ RowInv' /\ Created' = Created /\ Due' = Due
    BY <1>1, RowsUntouched
  <1>7. SuccessWasDelivered'
    BY <1>1 DEF SuccessWasDelivered
  <1>8. SenderMemory'
    BY <1>1, <1>2, <1>6 DEF SenderMemory, Working
  <1>9. OnceInv'
    BY <1>1, <1>2, <1>3, <1>6 DEF OnceInv
  <1> QED BY <1>5, <1>6, <1>7, <1>8, <1>9

-----------------------------------------------------------------------------

\* What belongs to no batch: time, and an operator who resends.
LEMMA OtherStep ==
    ASSUME DeliveryInv, EventLockExpires \/ BackoffEnds \/ SendLockExpires \/ Resend
    PROVE  DeliveryInv'
  <1> USE DEF DeliveryInv
  <1>1. CASE EventLockExpires \/ BackoffEnds
    <2>1. /\ UNCHANGED <<consumer, notification, sendVars, incidents>>
          /\ event' \in [status : EventStatus, attempts : 0 .. MaxAttempts, available : BOOLEAN]
          /\ event'.status = event.status /\ event'.attempts = event.attempts
          /\ eventLock' \subseteq Consumer
      BY <1>1 DEF TypeOK, EventLockExpires, BackoffEnds
    <2>2. TypeOK'
      BY <2>1 DEF TypeOK, sendVars, receiverVars
    <2>3. CountersMatchStatus' /\ ConsumerMemory'
      BY <2>1 DEF CountersMatchStatus, Due, ConsumerMemory
    <2>4. SuccessWasDelivered' /\ SenderMemory' /\ OnceInv' /\ Created' = Created
      BY <2>1, SendersUntouched
    <2>5. RowInv'
      BY <2>1, <2>4 DEF RowInv
    <2> QED BY <2>2, <2>3, <2>4, <2>5
  <1>2. CASE SendLockExpires
    <2>1. /\ UNCHANGED <<consumeVars, notification, receiver, sender, incidents>>
          /\ mayRepeat' \in BOOLEAN /\ sendLock' \in BOOLEAN
          /\ mayRepeat => mayRepeat'
          /\ (\E s \in Sender : sender[s].at # "idle") => mayRepeat'
      BY <1>2 DEF SendLockExpires, TypeOK
    <2>2. TypeOK'
      BY <2>1 DEF TypeOK, consumeVars
    <2>3. CountersMatchStatus' /\ ConsumerMemory' /\ RowInv' /\ Created' = Created /\ Due' = Due
      BY <2>1, RowsUntouched
    <2>4. SuccessWasDelivered' /\ SenderMemory' /\ OnceInv'
      BY <2>1, <2>3 DEF SuccessWasDelivered, SenderMemory, Working, OnceInv
    <2> QED BY <2>2, <2>3, <2>4
  <1>3. CASE Resend
    <2>1. /\ UNCHANGED <<consumeVars, receiver, sender, sendLock>>
          /\ mayRepeat' \in BOOLEAN
          /\ mayRepeat => mayRepeat'
          /\ receiver = "message" => mayRepeat'
      BY <1>3 DEF Resend, TypeOK
    <2>2. PICK n \in Created : notification' = [notification EXCEPT ![n] = Queued]
      BY <1>3 DEF Resend
    <2>3. incidents' \in 0 .. MaxIncidents
      <3>1. incidents \in 0 .. MaxIncidents /\ incidents < MaxIncidents
        BY <1>3 DEF TypeOK, Resend
      <3>2. incidents + 1 \in 0 .. MaxIncidents
        BY <3>1, IncidentsAssumption
      <3> QED BY <1>3, <3>2 DEF Resend
    <2>4. /\ Queued \in [status : NotificationStatus, retries : 0 .. MaxRetry]
          /\ Queued.status = "PENDING" /\ Queued.retries < MaxRetry
      BY Limits DEF Queued, NotificationStatus
    <2>5. /\ notification' \in
                [Row -> [status : NotificationStatus \cup {"NONE"}, retries : 0 .. MaxRetry]]
          /\ notification'[n] = Queued
          /\ \A m \in Row \ {n} : notification'[m].status = "NONE"
          /\ Created' = Created /\ Created # {}
      BY <2>2, <2>4, RowWritten
    <2>6. TypeOK'
      BY <2>1, <2>3, <2>5 DEF TypeOK, consumeVars
    <2>7. CountersMatchStatus' /\ SuccessWasDelivered'
      BY <2>1, <2>4, <2>5 DEF CountersMatchStatus, SuccessWasDelivered, Due, consumeVars
    <2>8. ConsumerMemory' /\ RowInv' /\ SenderMemory'
      BY <2>1, <2>5 DEF ConsumerMemory, RowInv, SenderMemory, Working, consumeVars
    <2>9. OnceInv'
      BY <2>1, <2>5 DEF OnceInv
    <2> QED BY <2>6, <2>7, <2>8, <2>9
  <1> QED BY <1>1, <1>2, <1>3

LEMMA DeliveryStep == DeliveryInv /\ [Next]_vars => DeliveryInv'
  <1> SUFFICES ASSUME DeliveryInv, [Next]_vars
               PROVE  DeliveryInv'
    OBVIOUS
  <1>1. ASSUME NEW c \in Consumer, StartConsuming(c) \/ ConsumerStep(c) \/ ConsumerCrash(c)
        PROVE  DeliveryInv'
    BY <1>1, ConsumerMoves, InsertStep, CompleteStep, ReadFailureStep, RecordFailureStep
       DEF ConsumerStep
  <1>2. ASSUME NEW s \in Sender, StartSending(s) \/ SenderStep(s) \/ SenderCrash(s)
        PROVE  DeliveryInv'
    BY <1>2, StartSendingStep, ReadNotificationStep, CallStep, RecordSentStep, RecordRetryStep,
       SenderEnds DEF SenderStep
  <1>3. CASE UNCHANGED vars
    BY <1>3 DEF DeliveryInv, TypeOK, CountersMatchStatus, Due, SuccessWasDelivered,
       ConsumerMemory, SenderMemory, Working, Created, RowInv, OnceInv, vars, consumeVars,
       sendVars, receiverVars
  <1> QED BY <1>1, <1>2, <1>3, OtherStep DEF Next

THEOREM DeliveryCorrect == Spec => []DeliveryInv
  BY InitDeliveryInv, DeliveryStep, PTL DEF Spec

\* The counters never pass their limits and the rows keep their types, for any number of
\* overlapping batches (processEvent, recordFailure, sendOne).
THEOREM DeliveryTypes == Spec => []TypeOK
  <1>1. DeliveryInv => TypeOK
    BY DEF DeliveryInv
  <1> QED BY <1>1, DeliveryCorrect, PTL

\* Statuses and counters agree although recordFailure and sendOne write both from
\* reads that may be old.
THEOREM CountersCorrect == Spec => []CountersMatchStatus
  <1>1. DeliveryInv => CountersMatchStatus
    BY DEF DeliveryInv
  <1> QED BY <1>1, DeliveryCorrect, PTL

\* A notification shown as SUCCESS was delivered, or refused by Lark in an answer nobody
\* looked at; a call that threw, a crash or a lost answer never makes it so (sendOne).
THEOREM SuccessCorrect == Spec => []SuccessWasDelivered
  <1>1. DeliveryInv => SuccessWasDelivered
    BY DEF DeliveryInv
  <1> QED BY <1>1, DeliveryCorrect, PTL

\* Overlapping consumers, failed transactions and events consumed again give one row and
\* one message: only a sender that loses its key, its instance or an answer, or somebody
\* who resends, makes it two (processEvent, sendPendingBatch, resend).
THEOREM OneMessage == Spec => []OneMessagePerEvent
  <1>1. DeliveryInv => OneMessagePerEvent
    BY DEF DeliveryInv, OnceInv, OneMessagePerEvent
  <1> QED BY <1>1, DeliveryCorrect, PTL

=============================================================================
