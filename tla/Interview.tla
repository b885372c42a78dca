------------------------------- MODULE Interview -------------------------------
(***************************************************************************)
(* The result interviews of one participant and their events in the Lark   *)
(* calendar.                                                               *)
(*                                                                         *)
(* A request that touches the calendar checks, calls Lark, and only then   *)
(* opens the transaction that stores what it did: CallX does the first     *)
(* two, CommitX the third, and CallLost stands for everything that can end *)
(* the request in between (a crash, a failed transaction).  Scheduling     *)
(* checks again under the row locks; the other requests write by id and    *)
(* check nothing.  Requests that call nobody read at BeginX and write at   *)
(* CommitX.  The appeal of a row, set by schedule and linkAppeal, is left  *)
(* out: no operation reads it.                                             *)
(***************************************************************************)
EXTENDS Naturals, FiniteSets, Sequences

CONSTANTS
    Call,           \* requests that overlap
    Slot,           \* times an interview can be set to
    MaxEvents       \* bound: calendar events ever created

ASSUME MaxEventsAssumption == MaxEvents \in Nat \ {0}

VARIABLES
    published,   \* the participant is in one of SCHEDULABLE_STATUSES
    archived,    \* the cycle is ARCHIVED
    appealOpen,  \* the participant has an appeal that may be linked
    interview,   \* the rows, in order of their ids
    event,       \* external: the calendar events, in order of creation
    call,        \* what each request has read and done
    lost,        \* events whose request ended before its transaction committed
    crossed,     \* rows on which two rival requests overlapped
    cancelled    \* rows with INTERVIEW_CANCELLED events in the outbox

interviewVars ==
    <<published, archived, appealOpen, interview, event, call, lost, crossed, cancelled>>

Rows == DOMAIN interview
Events == DOMAIN event

InterviewRow ==
    [status : {"SCHEDULED", "COMPLETED", "CANCELLED"}, slot : Slot,
     event : 1 .. MaxEvents]
CalendarEvent == [live : BOOLEAN, slot : Slot]

NoCall == [kind |-> "none"]
ScheduleCall == [kind : {"schedule"}, event : 1 .. MaxEvents, link : BOOLEAN]
RescheduleCall == [kind : {"reschedule"}, row : 1 .. MaxEvents, slot : Slot]
RowCall == [kind : {"cancel", "complete"}, row : 1 .. MaxEvents]
CallState == {NoCall} \cup ScheduleCall \cup RescheduleCall \cup RowCall

InterviewTypeOK ==
    /\ {published, archived, appealOpen} \subseteq BOOLEAN
    /\ interview \in Seq(InterviewRow)
    /\ event \in Seq(CalendarEvent) /\ Len(event) <= MaxEvents
    /\ call \in [Call -> CallState]
    /\ lost \subseteq Events
    /\ crossed \cup cancelled \subseteq Rows

InterviewInit ==
    /\ published = FALSE /\ archived = FALSE /\ appealOpen = FALSE
    /\ interview = <<>> /\ event = <<>>
    /\ call = [c \in Call |-> NoCall]
    /\ lost = {} /\ crossed = {} /\ cancelled = {}

-----------------------------------------------------------------------------
(* Requests.                                                                *)

\* The requests under way for row i.
CallsOn(i) == {c \in Call : call[c] \in RescheduleCall \cup RowCall /\ call[c].row = i}

\* Two moves of one interview, or its completion and its cancellation: the one that
\* commits last decides the row, whatever the calendar says.
Rivals == {{"reschedule"}, {"complete", "cancel"}}

\* A request for row i starts.
StartCall(c, i, what) ==
    /\ call[c] = NoCall
    /\ call' = [call EXCEPT ![c] = what]
    /\ crossed' = IF \E d \in CallsOn(i) : {call[d].kind, what.kind} \in Rivals
                    THEN crossed \cup {i} ELSE crossed

EndCall(c) == call' = [call EXCEPT ![c] = NoCall]

\* schedule, up to the event: createEvent removes the event again by itself when
\* the attendees cannot be added, so a failed call leaves nothing.
CallSchedule(c) ==
    /\ call[c] = NoCall
    /\ published /\ ~archived
    /\ Len(event) < MaxEvents
    /\ \E s \in Slot, link \in {appealOpen, FALSE} :
        /\ event' = Append(event, [live |-> TRUE, slot |-> s])
        /\ call' = [call EXCEPT ![c] =
                       [kind |-> "schedule", event |-> Len(event) + 1, link |-> link]]
    /\ UNCHANGED <<published, archived, appealOpen, interview, lost, crossed, cancelled>>

\* loadWritableParticipant, assertSchedulable and assertLinkableAppeal under the
\* row locks.
StillSchedulable(c) == ~archived /\ published /\ (call[c].link => appealOpen)

\* schedule, the transaction: when it refuses, the event stays behind.
CommitSchedule(c) ==
    /\ call[c] \in ScheduleCall
    /\ IF StillSchedulable(c)
         THEN /\ interview' = Append(interview,
                     [status |-> "SCHEDULED", slot |-> event[call[c].event].slot,
                      event |-> call[c].event])
              /\ UNCHANGED lost
         ELSE lost' = lost \cup {call[c].event} /\ UNCHANGED interview
    /\ EndCall(c)
    /\ UNCHANGED <<published, archived, appealOpen, event, crossed, cancelled>>

\* updateEvent or cancelEvent; Lark refuses both for an event that is gone.
LarkWrites(i, e) ==
    /\ event[interview[i].event].live
    /\ event' = [event EXCEPT ![interview[i].event] = e]

\* Mutant: the calendar is written without a look at the row.
ChangeableAnyway(i) == ~archived

\* loadManageableInterview, and the status.
Changeable(i) == ~archived /\ interview[i].status = "SCHEDULED"

CallReschedule(c, i) ==
    /\ Changeable(i)
    /\ \E s \in Slot :
        /\ LarkWrites(i, [live |-> TRUE, slot |-> s])
        /\ StartCall(c, i, [kind |-> "reschedule", row |-> i, slot |-> s])
    /\ UNCHANGED <<published, archived, appealOpen, interview, lost, cancelled>>

CommitReschedule(c) ==
    /\ call[c] \in RescheduleCall
    /\ interview' = [interview EXCEPT ![call[c].row].slot = call[c].slot]
    /\ EndCall(c)
    /\ UNCHANGED <<published, archived, appealOpen, event, lost, crossed, cancelled>>

CallCancel(c, i) ==
    /\ Changeable(i)
    /\ LarkWrites(i, [event[interview[i].event] EXCEPT !.live = FALSE])
    /\ StartCall(c, i, [kind |-> "cancel", row |-> i])
    /\ UNCHANGED <<published, archived, appealOpen, interview, lost, cancelled>>

\* Mutant: the attendees are not told.
CancelledSilently(i) == cancelled

\* enqueueInterviewCancelledEvents: in the transaction.
WithCancelNotice(i) == cancelled \cup {i}

CommitCancel(c) ==
    /\ call[c] \in RowCall /\ call[c].kind = "cancel"
    /\ interview' = [interview EXCEPT ![call[c].row].status = "CANCELLED"]
    /\ cancelled' = WithCancelNotice(call[c].row)
    /\ EndCall(c)
    /\ UNCHANGED <<published, archived, appealOpen, event, lost, crossed>>

\* complete: reads; it touches no event.
BeginComplete(c, i) ==
    /\ Changeable(i)
    /\ StartCall(c, i, [kind |-> "complete", row |-> i])
    /\ UNCHANGED <<published, archived, appealOpen, interview, event, lost, cancelled>>

CommitComplete(c) ==
    /\ call[c] \in RowCall /\ call[c].kind = "complete"
    /\ interview' = [interview EXCEPT ![call[c].row].status = "COMPLETED"]
    /\ EndCall(c)
    /\ UNCHANGED <<published, archived, appealOpen, event, lost, crossed, cancelled>>

\* The request ends between its call and its commit.
CallLost(c) ==
    /\ call[c] # NoCall
    /\ lost' = lost \cup (IF call[c] \in ScheduleCall THEN {call[c].event}
                          ELSE IF call[c].kind \in {"reschedule", "cancel"}
                                 THEN {interview[call[c].row].event} ELSE {})
    /\ EndCall(c)
    /\ UNCHANGED <<published, archived, appealOpen, interview, event, crossed, cancelled>>

-----------------------------------------------------------------------------
(* The result and the cycle, as module ResultChain has them.                *)

\* Publication, and the withdrawal of a publication by a new decision.
PublishOrRetract ==
    /\ ~archived
    /\ published' = ~published
    /\ appealOpen' = FALSE
    /\ UNCHANGED <<archived, interview, event, call, lost, crossed, cancelled>>

\* An appeal comes, or is resolved or invalidated.
AppealChanges ==
    /\ ~archived /\ published
    /\ appealOpen' = ~appealOpen
    /\ UNCHANGED <<published, archived, interview, event, call, lost, crossed, cancelled>>

ArchiveCycle ==
    /\ ~archived
    /\ archived' = TRUE
    /\ UNCHANGED <<published, appealOpen, interview, event, call, lost, crossed, cancelled>>

InterviewNext ==
    \/ \E c \in Call :
        \/ CallSchedule(c) \/ CommitSchedule(c)
        \/ CommitReschedule(c) \/ CommitCancel(c) \/ CommitComplete(c)
        \/ CallLost(c)
        \/ \E i \in Rows :
            \/ CallReschedule(c, i) \/ CallCancel(c, i)
            \/ BeginComplete(c, i)
    \/ PublishOrRetract \/ AppealChanges \/ ArchiveCycle

InterviewSpec == InterviewInit /\ [][InterviewNext]_interviewVars

-----------------------------------------------------------------------------
(* Properties.                                                              *)

\* The calendar says what the rows say: an event is gone exactly when its interview
\* is cancelled, and both have the same time.  Excepted are interviews with a
\* request under way, one that ended between the call to Lark and its transaction
\* (interview.service.ts calls Lark first, in every operation), or two rivals that
\* overlapped: no other overlap, crash or order of commits separates them.
CalendarAgrees ==
    \A i \in Rows :
        \/ CallsOn(i) # {} \/ i \in crossed \/ interview[i].event \in lost
        \/ /\ event[interview[i].event].live <=> interview[i].status # "CANCELLED"
           /\ event[interview[i].event].slot = interview[i].slot

\* Whatever overlaps and whatever is lost, a cancelled interview has no event left
\* and its attendees have been told, and nobody has been told of a cancellation
\* before the event was gone.
CancelledIsGone ==
    /\ \A i \in Rows : interview[i].status = "CANCELLED" => i \in cancelled
    /\ \A i \in cancelled : ~event[interview[i].event].live

=============================================================================
