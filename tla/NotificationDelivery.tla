------------------------- MODULE NotificationDelivery -------------------------
(***************************************************************************)
(* The way of one notification event to its receiver.                      *)
(*                                                                         *)
(* A business transaction has written the event.  processPendingEvents     *)
(* turns it into a notification row; sendPendingBatch sends that row as a  *)
(* message.  Both run every minute in every instance, each behind a Redis  *)
(* key that expires after 55 seconds whether the batch has ended or not,   *)
(* so that several batches of a kind can be under way.  A batch is         *)
(* followed on this event only: what else it does takes time, in which     *)
(* its key may expire.  A batch that finds nothing to do is left out.      *)
(***************************************************************************)
EXTENDS Naturals

CONSTANTS
    Row,           \* ids of notification rows
    Consumer,      \* runs of processPendingEvents, each with a lock token of its own
    Sender,        \* runs of sendPendingBatch
    MaxAttempts,   \* MAX_EVENT_ATTEMPTS
    MaxRetry,      \* MAX_RETRY
    MaxIncidents   \* bound: instances that stop in a batch, and manual resends

ASSUME AttemptsAssumption == MaxAttempts \in Nat \ {0} /\ MaxRetry \in Nat \ {0}
ASSUME RowAssumption == Row # {}
ASSUME IncidentsAssumption == MaxIncidents \in Nat

VARIABLES
    event,          \* the perf_notification_events row
    notification,   \* the perf_notifications rows of the event; NONE is no row
    receiver,       \* what has come of the event at its receiver
    mayRepeat,      \* history: something was lost after which a message may come twice
    consumer,       \* what each run of processPendingEvents is doing
    eventLock,      \* the token under the key of the consumers, if the key exists
    sender,         \* what each run of sendPendingBatch is doing
    sendLock,       \* the key of the senders exists
    incidents

consumeVars == <<event, consumer, eventLock>>
receiverVars == <<receiver, mayRepeat>>
sendVars == <<receiverVars, sender, sendLock>>
vars == <<consumeVars, notification, sendVars, incidents>>

EventStatus == {"PENDING", "RETRYING", "COMPLETED", "FAILED"}
NotificationStatus == {"PENDING", "RETRYING", "SUCCESS", "FAILED"}

\* "refused" is an answer of Lark with a code other than 0, and no message; "twice" a
\* second message that nothing explains.
Received == {"nothing", "refused", "message", "twice"}

\* Where a batch is, the rows it has still to send, and the counter it has read.
ConsumerState == [at : {"idle", "batch", "processing", "inserted", "failing",
                        "recording", "done"},
                  attempts : 0 .. MaxAttempts]
SenderState == [at : {"idle", "batch", "calling", "sent", "erring"},
                todo : SUBSET Row, retries : 0 .. MaxRetry]

TypeOK ==
    /\ event \in [status : EventStatus, attempts : 0 .. MaxAttempts, available : BOOLEAN]
    /\ notification \in
          [Row -> [status : NotificationStatus \cup {"NONE"}, retries : 0 .. MaxRetry]]
    /\ receiver \in Received
    /\ mayRepeat \in BOOLEAN
    /\ consumer \in [Consumer -> ConsumerState]
    /\ eventLock \subseteq Consumer
    /\ sender \in [Sender -> SenderState]
    /\ sendLock \in BOOLEAN
    /\ incidents \in 0 .. MaxIncidents

EventDue == event.status \in {"PENDING", "RETRYING"}
Created == {n \in Row : notification[n].status # "NONE"}
Due == {n \in Row : notification[n].status \in {"PENDING", "RETRYING"}}
Queued == [status |-> "PENDING", retries |-> 0]

\* What a batch has read is dropped when it has written.
ConsumerTo(c, at) == consumer' = [consumer EXCEPT ![c] = [at |-> at, attempts |-> 0]]
SenderTo(s, at, todo) ==
    sender' = [sender EXCEPT ![s] = [at |-> at, todo |-> todo, retries |-> 0]]

\* The row a batch is sending.
Current(s) == CHOOSE n \in sender[s].todo : TRUE
NextRow(s) == SenderTo(s, "batch", sender[s].todo \ {Current(s)})

-----------------------------------------------------------------------------
(* Plausible mistakes, each the wrong form of one definition below.         *)

\* Without the unique index: a row is looked for, and created when none is found.
NoneFound == Created = {}

\* The row is marked before the message is handed over.
MarkedFirst(s) ==
    /\ sender[s].at = "calling"
    /\ notification' = [notification EXCEPT ![Current(s)].status = "SUCCESS"]
    /\ sender' = [sender EXCEPT ![s].at = "sent"]
    /\ UNCHANGED <<consumeVars, receiverVars, sendLock, incidents>>

\* The key of the senders is set without a lifetime.
NeverExpires == FALSE /\ UNCHANGED vars

-----------------------------------------------------------------------------
(* processPendingEvents.                                                    *)

StartConsuming(c) ==
    /\ consumer[c].at = "idle"
    /\ eventLock = {}
    /\ EventDue /\ event.available
    /\ eventLock' = {c}
    /\ ConsumerTo(c, "batch")
    /\ UNCHANGED <<event, notification, sendVars, incidents>>

\* processEvent reads the row in the transaction that will complete it.
ReadEvent(c) ==
    /\ consumer[c].at = "batch"
    /\ ConsumerTo(c, IF EventDue THEN "processing" ELSE "done")
    /\ UNCHANGED <<event, eventLock, notification, sendVars, incidents>>

\* sourceEventId is unique: no row has this event, nor does one that is about to be
\* committed.
IndexFree ==
    /\ Created = {}
    /\ \A c \in Consumer : consumer[c].at # "inserted"

\* The first half of the upsert: a row is created if there is none.  An insert waits for
\* that of another batch: it then finds the row, or its transaction fails.
Insert(c) ==
    /\ consumer[c].at = "processing"
    /\ IndexFree
    /\ ConsumerTo(c, "inserted")
    /\ UNCHANGED <<event, eventLock, notification, sendVars, incidents>>

\* A row that is there is left as it is; an own one is committed with the event.
CompleteEvent(c) ==
    /\ \/ /\ consumer[c].at = "inserted"
          /\ notification' =
                [notification EXCEPT ![CHOOSE n \in Row : n \notin Created] = Queued]
       \/ /\ consumer[c].at = "processing"
          /\ Created # {}
          /\ UNCHANGED notification
    /\ event' = [event EXCEPT !.status = "COMPLETED"]
    /\ ConsumerTo(c, "done")
    /\ UNCHANGED <<eventLock, sendVars, incidents>>

\* The transaction fails and leaves nothing.
EventFails(c) ==
    /\ consumer[c].at \in {"processing", "inserted"}
    /\ ConsumerTo(c, "failing")
    /\ UNCHANGED <<event, eventLock, notification, sendVars, incidents>>

\* recordFailure, first statement: an event that has ended is left alone ..
ReadFailure(c) ==
    /\ consumer[c].at = "failing"
    /\ IF EventDue
       THEN consumer' = [consumer EXCEPT ![c] =
                [at |-> "recording", attempts |-> event.attempts]]
       ELSE ConsumerTo(c, "done")
    /\ UNCHANGED <<event, eventLock, notification, sendVars, incidents>>

\* .. second statement: the row is updated by its id, with the attempts read before.
RecordFailure(c) ==
    /\ consumer[c].at = "recording"
    /\ LET attempts == consumer[c].attempts + 1
       IN  event' = [status |-> IF attempts >= MaxAttempts THEN "FAILED" ELSE "RETRYING",
                     attempts |-> attempts, available |-> FALSE]
    /\ ConsumerTo(c, "done")
    /\ UNCHANGED <<eventLock, notification, sendVars, incidents>>

\* Only the own key is deleted.
FinishConsuming(c) ==
    /\ consumer[c].at = "done"
    /\ eventLock' = eventLock \ {c}
    /\ ConsumerTo(c, "idle")
    /\ UNCHANGED <<event, notification, sendVars, incidents>>

ConsumerCrash(c) ==
    /\ incidents < MaxIncidents
    /\ consumer[c].at # "idle"
    /\ incidents' = incidents + 1
    /\ ConsumerTo(c, "idle")
    /\ UNCHANGED <<event, eventLock, notification, sendVars>>

EventLockExpires ==
    /\ eventLock # {}
    /\ eventLock' = {}
    /\ UNCHANGED <<event, consumer, notification, sendVars, incidents>>

BackoffEnds ==
    /\ ~event.available
    /\ event' = [event EXCEPT !.available = TRUE]
    /\ UNCHANGED <<consumer, eventLock, notification, sendVars, incidents>>

-----------------------------------------------------------------------------
(* sendPendingBatch.                                                        *)

StartSending(s) ==
    /\ sender[s].at = "idle"
    /\ ~sendLock
    /\ Due # {}
    /\ sendLock' = TRUE
    /\ SenderTo(s, "batch", Due)
    /\ UNCHANGED <<consumeVars, notification, receiverVars, incidents>>

\* sendOne reads the row again.
ReadNotification(s) ==
    /\ sender[s].at = "batch"
    /\ sender[s].todo # {}
    /\ IF Current(s) \in Due
       THEN sender' = [sender EXCEPT ![s].at = "calling",
                                     ![s].retries = notification[Current(s)].retries]
       ELSE NextRow(s)
    /\ UNCHANGED <<consumeVars, notification, receiverVars, sendLock, incidents>>

Delivered ==
    receiver' = IF receiver = "message" /\ ~mayRepeat THEN "twice" ELSE "message"

\* The call returns: the message is with the receiver, or Lark has refused it with a
\* code in its answer, which nobody looks at.
Send(s) ==
    /\ sender[s].at = "calling"
    /\ \/ Delivered
       \/ receiver' = IF receiver = "nothing" THEN "refused" ELSE receiver
    /\ sender' = [sender EXCEPT ![s].at = "sent"]
    /\ UNCHANGED <<consumeVars, notification, mayRepeat, sendLock, incidents>>

\* The call throws.
SendFails(s) ==
    /\ sender[s].at = "calling"
    /\ sender' = [sender EXCEPT ![s].at = "erring"]
    /\ UNCHANGED <<consumeVars, notification, receiverVars, sendLock, incidents>>

\* The message is delivered and the answer lost.
AnswerLost(s) ==
    /\ sender[s].at = "calling"
    /\ Delivered
    /\ mayRepeat' = TRUE
    /\ sender' = [sender EXCEPT ![s].at = "erring"]
    /\ UNCHANGED <<consumeVars, notification, sendLock, incidents>>

\* Both outcomes are written by the id of the row, whatever its status is now.
RecordSent(s) ==
    /\ sender[s].at = "sent"
    /\ notification' = [notification EXCEPT ![Current(s)].status = "SUCCESS"]
    /\ NextRow(s)
    /\ UNCHANGED <<consumeVars, receiverVars, sendLock, incidents>>

RecordRetry(s) ==
    /\ sender[s].at = "erring"
    /\ LET retries == sender[s].retries + 1
       IN  notification' = [notification EXCEPT ![Current(s)] =
               [status |-> IF retries >= MaxRetry THEN "FAILED" ELSE "RETRYING",
                retries |-> retries]]
    /\ NextRow(s)
    /\ UNCHANGED <<consumeVars, receiverVars, sendLock, incidents>>

\* The key is deleted, whoever holds it now.
FinishSending(s) ==
    /\ sender[s].at = "batch"
    /\ sender[s].todo = {}
    /\ sendLock' = FALSE
    /\ SenderTo(s, "idle", {})
    /\ UNCHANGED <<consumeVars, notification, receiverVars, incidents>>

\* What was sent stays unrecorded if the instance stops after the call.
SenderCrash(s) ==
    /\ incidents < MaxIncidents
    /\ sender[s].at # "idle"
    /\ incidents' = incidents + 1
    /\ mayRepeat' = (mayRepeat \/ sender[s].at = "sent")
    /\ SenderTo(s, "idle", {})
    /\ UNCHANGED <<consumeVars, notification, receiver, sendLock>>

\* A batch at work without its key is joined by another.
SendLockExpires ==
    /\ sendLock
    /\ sendLock' = FALSE
    /\ mayRepeat' = (mayRepeat \/ \E s \in Sender : sender[s].at # "idle")
    /\ UNCHANGED <<consumeVars, notification, receiver, sender, incidents>>

\* resend, whatever the status of the row.
Resend ==
    /\ incidents < MaxIncidents
    /\ \E n \in Created : notification' = [notification EXCEPT ![n] = Queued]
    /\ incidents' = incidents + 1
    /\ mayRepeat' = (mayRepeat \/ receiver = "message")
    /\ UNCHANGED <<consumeVars, receiver, sender, sendLock>>

-----------------------------------------------------------------------------

Init ==
    /\ event = [status |-> "PENDING", attempts |-> 0, available |-> TRUE]
    /\ notification = [n \in Row |-> [status |-> "NONE", retries |-> 0]]
    /\ receiver = "nothing"
    /\ mayRepeat = FALSE
    /\ consumer = [c \in Consumer |-> [at |-> "idle", attempts |-> 0]]
    /\ eventLock = {}
    /\ sender = [s \in Sender |-> [at |-> "idle", todo |-> {}, retries |-> 0]]
    /\ sendLock = FALSE
    /\ incidents = 0

ConsumerStep(c) ==
    \/ ReadEvent(c)
    \/ Insert(c) \/ CompleteEvent(c) \/ EventFails(c)
    \/ ReadFailure(c) \/ RecordFailure(c)
    \/ FinishConsuming(c)

SenderStep(s) ==
    \/ ReadNotification(s)
    \/ Send(s) \/ SendFails(s) \/ AnswerLost(s)
    \/ RecordSent(s) \/ RecordRetry(s)
    \/ FinishSending(s)

Next ==
    \/ \E c \in Consumer : StartConsuming(c) \/ ConsumerStep(c) \/ ConsumerCrash(c)
    \/ \E s \in Sender : StartSending(s) \/ SenderStep(s) \/ SenderCrash(s)
    \/ EventLockExpires
    \/ BackoffEnds
    \/ SendLockExpires
    \/ Resend

\* Both crons run every minute in some instance, and the calls of a batch end or throw;
\* keys expire and back-offs end.  Nobody has to crash or to resend.
Fairness ==
    /\ WF_vars(\E c \in Consumer : StartConsuming(c))
    /\ WF_vars(\E s \in Sender : StartSending(s))
    /\ \A c \in Consumer : WF_vars(ConsumerStep(c))
    /\ \A s \in Sender : WF_vars(SenderStep(s))
    /\ WF_vars(EventLockExpires)
    /\ WF_vars(BackoffEnds)
    /\ WF_vars(SendLockExpires)

Spec == Init /\ [][Next]_vars /\ Fairness

-----------------------------------------------------------------------------
(* Properties.                                                              *)

\* A notification is shown as sent only if its receiver has got the message, or Lark has
\* refused it in an answer: sendOne takes every call that returns for a success.
SuccessWasDelivered ==
    (\E n \in Row : notification[n].status = "SUCCESS") => receiver # "nothing"

\* The counters stay what the statuses say, although both are written from old reads:
\* FAILED exactly at the limit, RETRYING below it.
CountersMatchStatus ==
    /\ event.status = "FAILED" => event.attempts = MaxAttempts
    /\ event.status \in {"PENDING", "RETRYING"} => event.attempts < MaxAttempts
    /\ \A n \in Row :
          /\ notification[n].status = "FAILED" => notification[n].retries = MaxRetry
          /\ n \in Due => notification[n].retries < MaxRetry

\* However often an event is consumed and by however many overlapping batches, its
\* receiver gets a second message only after a sender lost something: its key while at
\* work, the answer of its call, or its instance before it had recorded the call; or
\* after somebody resent what had been delivered (processEvent, sendOne, resend).
OneMessagePerEvent == receiver # "twice"

\* Every event ends in a message, or in one of the two FAILED states an operator sees,
\* although instances stop with a key in their hands; an event that fails after it has
\* given rise to a notification does not keep that from being sent.
EventIsSettled ==
    event.status = "PENDING" ~>
        \/ event.status = "FAILED" /\ Created = {}
        \/ \E n \in Row : notification[n].status \in {"SUCCESS", "FAILED"}
=============================================================================
