------------------------------ MODULE CycleTasks ------------------------------
(***************************************************************************)
(* From a cycle in preparation to evaluation tasks that are open.          *)
(*                                                                         *)
(* HR prepares a cycle, adds and removes participants and moves the plan;  *)
(* a scheduler that runs every minute, on every instance, starts cycles    *)
(* that are due and opens tasks that are due; a page that shows a task     *)
(* opens it as well.  Handlers that lock the cycle row are one action.     *)
(* Three things are not under that lock and are taken apart: an opener     *)
(* reads the due tasks and then updates them one by one under a condition; *)
(* remove and deleteCycle check the status of the cycle before they        *)
(* change anything.                                                        *)
(*                                                                         *)
(* One human stage stands for SELF, PEER and MANAGER, whose tasks are rows *)
(* apart.  CALIBRATED stands for every status of the result chain, whose   *)
(* handlers, with the archive, are in module ResultChain.  Whether CoreHR  *)
(* has a job level, a leader and a department for somebody is an input.    *)
(***************************************************************************)
EXTENDS Naturals, FiniteSets

CONSTANTS
    Participant,  \* ids of the participant rows
    Scheduler,    \* instances that run runScheduler
    Page,         \* requests that open the task they show or write
    Start,        \* times a cycle may be planned to start at
    Offset,       \* start offsets a schedule preset may have
    Batch,        \* tasks one scan takes
    MaxTime,      \* bound: the last minute of the clock
    MaxEdits      \* bound: changes to plan and forms, and rollbacks

ASSUME ParticipantAssumption == Participant \subseteq Nat
ASSUME BatchAssumption == Batch \in Nat \ {0}
ASSUME TimeAssumption ==
    MaxTime \in Nat \ {0} /\ Start \subseteq Nat \ {0} /\ Offset \subseteq Nat /\ MaxEdits \in Nat
ASSUME OpenerAssumption == Scheduler \cap Page = {}

VARIABLES
    now,       \* the clock, from 1
    cycle,     \* status, deletedAt, plannedStartAt and the current schedule preset
    status,    \* status of each participant row, "none" without one
    bound,     \* participants whose row has a form snapshot, a leader and a department
    task,      \* the task of the stage
    sheet,     \* its answers: none, a draft or a submission
    told,      \* TASK_OPENED events: participant and openedAt
    decided,   \* participants with calibrations, valid or invalidated
    reading,   \* due tasks each opener has read in its open transaction
    removing,  \* the remove request that has checked the cycle's status
    deleting,  \* a deleteCycle request has done so (bound: one such request at a time)
    failure,   \* what an activation attempt has still to report, or "told" for good
    edits      \* how many of the bounded changes were made

rowVars == <<status, bound, task, sheet, told, decided>>
requestVars == <<removing, deleting>>
vars == <<now, cycle, rowVars, reading, requestVars, failure, edits>>

Opener == Scheduler \cup Page
Time == 1 .. MaxTime
NotOpened == 0

\* A task row exists once it has a start; the clock starts at 1.
NoTask == [start |-> 0, opened |-> NotOpened, done |-> FALSE]
Task == [start : Nat, opened : Nat, done : BOOLEAN]

ParticipantStatus == {"none", "ACTIVE", "CALIBRATED", "NO_RESULT", "WITHDRAWN"}
CycleRow == [status : {"DRAFT", "SCHEDULED", "ACTIVE"}, deleted : BOOLEAN,
             start : Start, offset : Offset, notify : BOOLEAN]

\* What an opener has read: the time it took at the beginning, and the tasks.
Read == [at : Nat, tasks : SUBSET Participant]
Idle == [at |-> 0, tasks |-> {}]

Present == {p \in Participant : status[p] # "none"}
Preparing == cycle.status \in {"DRAFT", "SCHEDULED"}
Live == ~cycle.deleted
Running == Live /\ cycle.status = "ACTIVE"

\* Bounds the runs, not the code.
Edit == edits < MaxEdits /\ edits' = edits + 1

\* generateCyclePlan: when the stage starts under the plan in force.
PlanStart == cycle.start + cycle.offset

\* assert_cycle_schedule_ready, at every commit that leaves the cycle SCHEDULED.
ScheduleReady(c, rows, forms) ==
    c.status = "SCHEDULED" => rows # {} /\ rows \subseteq forms

TypeOK ==
    /\ now \in Time
    /\ cycle \in CycleRow
    /\ status \in [Participant -> ParticipantStatus]
    /\ bound \subseteq Participant
    /\ task \in [Participant -> Task]
    /\ sheet \in [Participant -> {"none", "draft", "submitted"}]
    /\ told \subseteq Participant \X Time
    /\ decided \subseteq Participant
    /\ reading \in [Opener -> Read]
    /\ removing \subseteq Participant
    /\ deleting \in BOOLEAN
    /\ failure \in {"none", "check", "error", "told"}
    /\ edits \in 0 .. MaxEdits
    /\ \A p \in Participant : status[p] = "none" =>
          task[p] = NoTask /\ sheet[p] = "none" /\ p \notin bound

Init ==
    /\ now = 1
    /\ cycle \in {c \in CycleRow : c.status = "DRAFT" /\ ~c.deleted /\ c.notify}
    /\ status = [p \in Participant |-> "none"]
    /\ bound = {}
    /\ task = [p \in Participant |-> NoTask]
    /\ sheet = [p \in Participant |-> "none"]
    /\ told = {}
    /\ decided = {}
    /\ reading = [o \in Opener |-> Idle]
    /\ removing = {}
    /\ deleting = FALSE
    /\ failure = "none"
    /\ edits = 0

-----------------------------------------------------------------------------
(* Opening a task.                                                          *)

\* What openDueTasks and openIfDue select.
Due(p) ==
    /\ Running
    /\ status[p] = "ACTIVE"
    /\ task[p].start # 0 /\ task[p].start <= now
    /\ task[p].opened = NotOpened /\ ~task[p].done

\* Mutant: an opener forgets that another one may have been faster.
MayOpenAgain(p) ==
    status[p] = "ACTIVE" /\ task[p].start # 0 /\ ~task[p].done

\* Mutant: the participant who left meanwhile is forgotten.
MayOpenClosed(p) ==
    task[p].start # 0 /\ task[p].opened = NotOpened

\* The condition of the updateMany that opens: the cycle and the start are not in it.
MayOpen(p) ==
    /\ status[p] = "ACTIVE"
    /\ task[p].start # 0
    /\ task[p].opened = NotOpened /\ ~task[p].done

Opened(tasks, at) ==
    [p \in Participant |-> IF p \in tasks THEN [task[p] EXCEPT !.opened = at] ELSE task[p]]

\* enqueueTaskOpenedEvents, in the same transaction, if the plan has the rule enabled.
Tell(tasks, at) == told \cup (IF cycle.notify THEN tasks \X {at} ELSE {})

\* orderBy id, take Batch.
FirstOf(S, n) == {p \in S : Cardinality({q \in S : q < p}) < n}

\* Mutant: the query keeps tasks that are open, as the reminder scan does.
ReadAnyDueTasks(s) ==
    /\ s \in Scheduler
    /\ reading[s] = Idle
    /\ \E p \in Participant : Due(p)
    /\ LET due == {p \in Participant : Running /\ status[p] = "ACTIVE" /\ ~task[p].done
                                        /\ task[p].start # 0 /\ task[p].start <= now}
       IN  reading' = [reading EXCEPT ![s] = [at |-> now, tasks |-> FirstOf(due, Batch)]]
    /\ UNCHANGED <<now, cycle, rowVars, requestVars, failure, edits>>

ReadDueTasks(s) ==
    /\ s \in Scheduler
    /\ reading[s] = Idle
    /\ \E p \in Participant : Due(p)
    /\ reading' = [reading EXCEPT ![s] =
                       [at |-> now, tasks |-> FirstOf({p \in Participant : Due(p)}, Batch)]]
    /\ UNCHANGED <<now, cycle, rowVars, requestVars, failure, edits>>

ReadTask(r, p) ==
    /\ r \in Page
    /\ reading[r] = Idle
    /\ Due(p)
    /\ reading' = [reading EXCEPT ![r] = [at |-> now, tasks |-> {p}]]
    /\ UNCHANGED <<now, cycle, rowVars, requestVars, failure, edits>>

OpenTasks(o) ==
    /\ reading[o] # Idle
    /\ LET tasks == {p \in reading[o].tasks : MayOpen(p)}
       IN  /\ task' = Opened(tasks, reading[o].at)
           /\ told' = Tell(tasks, reading[o].at)
    /\ reading' = [reading EXCEPT ![o] = Idle]
    /\ UNCHANGED <<now, cycle, status, bound, sheet, decided, requestVars, failure, edits>>

\* The instance stops or the transaction fails: what it did is rolled back.
LoseTransaction(o) ==
    /\ reading[o] # Idle
    /\ reading' = [reading EXCEPT ![o] = Idle]
    /\ UNCHANGED <<now, cycle, rowVars, requestVars, failure, edits>>

-----------------------------------------------------------------------------
(* Starting a cycle.                                                        *)

\* Mutant: tasks of an earlier start are replaced.
SeededAnew(rows) ==
    [p \in Participant |->
        IF p \in rows
        THEN [start |-> PlanStart, opened |-> IF PlanStart <= now THEN now ELSE NotOpened,
              done |-> FALSE]
        ELSE task[p]]

\* buildEvaluationTaskSeeds and createMany with skipDuplicates: a task of an earlier
\* start is left as it is.
Seeded(rows) ==
    [p \in Participant |->
        IF p \in rows /\ task[p] = NoTask
        THEN [start |-> PlanStart,
              opened |-> IF PlanStart <= now THEN now ELSE NotOpened,
              done |-> FALSE]
        ELSE task[p]]

\* Tasks with openedAt = now among the rows.
JustOpened(rows, tasks) == {p \in rows : tasks[p].opened = now}

StartDue == Live /\ cycle.status = "SCHEDULED" /\ cycle.start <= now

Activate ==
    /\ StartDue
    /\ Present # {}
    /\ bound' = Present
    /\ task' = Seeded(Present)
    /\ told' = Tell(JustOpened(Present, task'), now)
    /\ cycle' = [cycle EXCEPT !.status = "ACTIVE"]
    /\ UNCHANGED <<now, status, sheet, decided, reading, requestVars, failure, edits>>

\* The transaction ends without a change, or throws; what to report is kept in memory.
\* Once told, an owner is not told again of the same: the event's key is its contents.
FailToActivate ==
    /\ StartDue
    /\ failure = "none"
    /\ failure' \in {"check", "error"}
    /\ UNCHANGED <<now, cycle, rowVars, reading, requestVars, edits>>

\* Mutant: an unexpected error is only logged.
ReportFailedChecks ==
    /\ failure \in {"check", "error"}
    /\ failure' = IF failure = "check" THEN "told" ELSE "none"
    /\ UNCHANGED <<now, cycle, rowVars, reading, requestVars, edits>>

\* After an error the cycle is looked at again; after a failed check it is not.
ReportFailure ==
    /\ failure \in {"check", "error"}
    /\ failure' = IF failure = "check" \/ (Live /\ cycle.status = "SCHEDULED")
                  THEN "told" ELSE "none"
    /\ UNCHANGED <<now, cycle, rowVars, reading, requestVars, edits>>

LoseReport ==
    /\ failure \in {"check", "error"}
    /\ failure' = "none"
    /\ UNCHANGED <<now, cycle, rowVars, reading, requestVars, edits>>

-----------------------------------------------------------------------------
(* Preparing and stopping a cycle.                                          *)

Schedule ==
    /\ Live /\ cycle.status = "DRAFT"
    /\ Present # {} /\ Present \subseteq bound
    /\ cycle' = [cycle EXCEPT !.status = "SCHEDULED"]
    /\ UNCHANGED <<now, rowVars, reading, requestVars, failure, edits>>

ReturnToDraft ==
    /\ Live /\ cycle.status = "SCHEDULED"
    /\ cycle' = [cycle EXCEPT !.status = "DRAFT"]
    /\ UNCHANGED <<now, rowVars, reading, requestVars, failure, edits>>

\* updateCycle takes no lock; a super administrator may move the start of a running cycle.
UpdateCycle(start) ==
    /\ Edit
    /\ Live
    /\ cycle' = [cycle EXCEPT !.start = start]
    /\ UNCHANGED <<now, rowVars, reading, requestVars, failure>>

\* Tasks not yet open get the new start, and are opened at once when it has come.
UpdatePlan(offset, notify) ==
    /\ Edit
    /\ Live
    /\ cycle' = [cycle EXCEPT !.offset = offset, !.notify = notify]
    /\ LET start == cycle.start + offset
           moved == {p \in Participant : Running /\ status[p] = "ACTIVE"
                                          /\ task[p] # NoTask /\ task[p].opened = NotOpened}
           opens == IF start <= now THEN moved ELSE {}
       IN  /\ task' = [p \in Participant |->
                          IF p \in moved
                          THEN [task[p] EXCEPT !.start = start,
                                               !.opened = IF p \in opens THEN now ELSE @]
                          ELSE task[p]]
           /\ told' = told \cup (IF notify THEN opens \X {now} ELSE {})
    /\ UNCHANGED <<now, status, bound, sheet, decided, reading, requestVars, failure>>

\* reapplyPublishedConfig: a new version with the same plan; the rows are bound again.
ReapplyPublishedConfig(found) ==
    /\ Edit
    /\ Live /\ Preparing
    /\ bound' = bound \cup found
    /\ UNCHANGED <<now, cycle, status, task, sheet, told, decided, reading, requestVars,
                   failure>>

\* Serializable, under the locks of the cycle and of every participant.
Rollback(target, start) ==
    /\ Edit
    /\ Running
    /\ target = "SCHEDULED" => start > now
    /\ cycle' = [cycle EXCEPT !.status = target,
                              !.start = IF target = "SCHEDULED" THEN start ELSE @]
    /\ ScheduleReady(cycle', Present, bound)
    /\ status' = [p \in Participant |->
                     IF status[p] = "CALIBRATED" THEN "ACTIVE" ELSE status[p]]
    /\ UNCHANGED <<now, bound, task, sheet, told, decided, reading, requestVars, failure>>

CheckDelete ==
    /\ Live /\ cycle.status = "DRAFT"
    /\ ~deleting /\ removing = {}
    /\ deleting' = TRUE
    /\ UNCHANGED <<now, cycle, rowVars, reading, removing, failure, edits>>

\* The update names the id alone.
DeleteCycle ==
    /\ deleting
    /\ deleting' = FALSE
    /\ cycle' = [cycle EXCEPT !.deleted = TRUE]
    /\ UNCHANGED <<now, rowVars, reading, removing, failure, edits>>

-----------------------------------------------------------------------------
(* Participants.                                                            *)

\* Mutant: somebody added to a running cycle gets no tasks.
AddWithoutTasks(p, found) ==
    /\ Live /\ status[p] = "none"
    /\ cycle.status = "ACTIVE" => found
    /\ status' = [status EXCEPT ![p] = "ACTIVE"]
    /\ bound' = IF found THEN bound \cup {p} ELSE bound \ {p}
    /\ ScheduleReady(cycle, Present \cup {p}, bound')
    /\ UNCHANGED <<now, cycle, task, sheet, told, decided, reading, requestVars, failure,
                   edits>>

\* addByOpenIds, for one employee who has no row yet.
Add(p, found) ==
    /\ Live /\ status[p] = "none"
    /\ cycle.status = "ACTIVE" => found
    /\ status' = [status EXCEPT ![p] = "ACTIVE"]
    /\ bound' = IF found THEN bound \cup {p} ELSE bound \ {p}
    /\ ScheduleReady(cycle, Present \cup {p}, bound')
    /\ task' = IF cycle.status = "ACTIVE" THEN Seeded({p}) ELSE task
    /\ told' = IF cycle.status = "ACTIVE" THEN Tell(JustOpened({p}, task'), now) ELSE told
    /\ UNCHANGED <<now, cycle, sheet, decided, reading, requestVars, failure, edits>>

CheckRemove(p) ==
    /\ removing = {} /\ ~deleting
    /\ Live /\ Preparing
    /\ status[p] # "none"
    /\ removing' = {p}
    /\ UNCHANGED <<now, cycle, rowVars, reading, deleting, failure, edits>>

\* The task and the sheet go with the row; an event of the task or a calibration forbids it.
Removable(p) ==
    /\ Live /\ status[p] # "none"
    /\ ~\E e \in told : e[1] = p
    /\ p \notin decided
    /\ ScheduleReady(cycle, Present \ {p}, bound)

Remove(p) ==
    /\ p \in removing
    /\ removing' = removing \ {p}
    /\ IF Removable(p)
       THEN /\ status' = [status EXCEPT ![p] = "none"]
            /\ bound' = bound \ {p}
            /\ task' = [task EXCEPT ![p] = NoTask]
            /\ sheet' = [sheet EXCEPT ![p] = "none"]
            /\ UNCHANGED <<told, decided>>
       ELSE UNCHANGED rowVars
    /\ UNCHANGED <<now, cycle, reading, deleting, failure, edits>>

\* withdraw and markNoResult close the row and every task that is not complete.
Close(p, to) ==
    /\ Running /\ status[p] = "ACTIVE"
    /\ to = "NO_RESULT" => sheet[p] # "submitted" /\ p \notin decided
    /\ status' = [status EXCEPT ![p] = to]
    /\ task' = [task EXCEPT ![p].done = TRUE]
    /\ UNCHANGED <<now, cycle, bound, sheet, told, decided, reading, requestVars, failure, edits>>

\* Not bound to the cycle's status; what has no submission is to be done again.
RevokeNoResult(p) ==
    /\ Edit
    /\ Live /\ status[p] = "NO_RESULT"
    /\ status' = [status EXCEPT ![p] = "ACTIVE"]
    /\ task' = [task EXCEPT ![p].done = sheet[p] = "submitted"]
    /\ UNCHANGED <<now, cycle, bound, sheet, told, decided, reading, requestVars, failure>>

Calibrate(p) ==
    /\ Running /\ status[p] = "ACTIVE" /\ sheet[p] = "submitted"
    /\ status' = [status EXCEPT ![p] = "CALIBRATED"]
    /\ decided' = decided \cup {p}
    /\ UNCHANGED <<now, cycle, bound, task, sheet, told, reading, requestVars, failure, edits>>

-----------------------------------------------------------------------------
(* Answers.                                                                 *)

\* ensureWritable, for a task that is open; one that is due is opened first by ReadTask.
Writable(p) == Running /\ status[p] = "ACTIVE" /\ task[p].opened # NotOpened

Write(p, to) ==
    /\ Writable(p)
    /\ to = "draft" => sheet[p] = "none"
    /\ sheet' = [sheet EXCEPT ![p] = to]
    /\ task' = IF to = "submitted" THEN [task EXCEPT ![p].done = TRUE] ELSE task
    /\ UNCHANGED <<now, cycle, status, bound, told, decided, reading, requestVars, failure, edits>>

\* A structural form change turns the sheets into drafts and their tasks into unfinished
\* ones, whatever the status of the participant; submissions forbid it outside DRAFT.
ChangeForms ==
    /\ Edit
    /\ Live
    /\ cycle.status = "DRAFT" \/ \A p \in Present : sheet[p] # "submitted"
    /\ LET affected == {p \in Present : sheet[p] # "none"}
       IN  /\ sheet' = [p \in Participant |-> IF p \in affected THEN "draft" ELSE sheet[p]]
           /\ task' = [p \in Participant |->
                          IF p \in affected THEN [task[p] EXCEPT !.done = FALSE] ELSE task[p]]
    /\ UNCHANGED <<now, cycle, status, bound, told, decided, reading, requestVars, failure>>

-----------------------------------------------------------------------------
(* The clock.                                                               *)

Tick ==
    /\ now < MaxTime
    /\ now' = now + 1
    /\ UNCHANGED <<cycle, rowVars, reading, requestVars, failure, edits>>

Next ==
    \/ \E s \in Scheduler : ReadDueTasks(s)
    \/ \E r \in Page, p \in Participant : ReadTask(r, p)
    \/ \E o \in Opener : OpenTasks(o) \/ LoseTransaction(o)
    \/ Activate \/ FailToActivate \/ ReportFailure \/ LoseReport
    \/ Schedule \/ ReturnToDraft
    \/ \E found \in SUBSET Present : ReapplyPublishedConfig(found)
    \/ \E start \in Start : UpdateCycle(start)
    \/ \E offset \in Offset, notify \in BOOLEAN : UpdatePlan(offset, notify)
    \/ \E target \in {"DRAFT", "SCHEDULED"}, start \in Start : Rollback(target, start)
    \/ CheckDelete \/ DeleteCycle
    \/ \E p \in Participant :
          \/ \E found \in BOOLEAN : Add(p, found)
          \/ CheckRemove(p) \/ Remove(p)
          \/ \E to \in {"WITHDRAWN", "NO_RESULT"} : Close(p, to)
          \/ RevokeNoResult(p) \/ Calibrate(p)
          \/ \E to \in {"draft", "submitted"} : Write(p, to)
    \/ ChangeForms
    \/ Tick

\* The scheduler runs every minute on some instance and its transactions are not lost for
\* ever; nor are the reports of failed starts.  Nobody has to show or to write anything.
Fairness ==
    /\ WF_vars(\E s \in Scheduler : ReadDueTasks(s))
    /\ \A s \in Scheduler : SF_vars(OpenTasks(s))
    /\ WF_vars(Activate \/ FailToActivate)
    /\ SF_vars(ReportFailure)

Spec == Init /\ [][Next]_vars
FairSpec == Spec /\ Fairness

-----------------------------------------------------------------------------
(* Properties.                                                              *)

\* openedAt, once set, stays as long as its row: no second opener, no plan change, no
\* rollback and no second start of the cycle changes it.
OpenedIsFinal ==
    [][\A p \in Participant :
          task[p].opened # NotOpened /\ status'[p] # "none"
              => task'[p].opened = task[p].opened]_vars

\* Every TASK_OPENED event speaks of the opening of a task that is there: whoever was
\* told once is not told again, and the row is not removed behind the event.
EventMatchesOpening == \A e \in told : task[e[1]].opened = e[2]

\* Nobody who left, has no result or is calibrated gets a task opened, nor one that is
\* complete, whatever an opener read before.
ClosedNeverOpens ==
    [][\A p \in Participant :
          task[p].opened = NotOpened /\ task'[p].opened # NotOpened
              => status'[p] = "ACTIVE" /\ ~task'[p].done]_vars

\* While a cycle runs, everybody in it has forms, a leader and tasks, whether there at the
\* start, added later, or added during an earlier preparation after a rollback.
RunningIsComplete ==
    cycle.status = "ACTIVE" => \A p \in Present : p \in bound /\ task[p].start # 0

\* A task that is due is opened in the end, or is no longer due: tasks of smaller ids do
\* not keep a batch from reaching it.
DueIsOpened == \A p \in Participant : Due(p) ~> ~Due(p)

\* A cycle that is due starts in the end, or is no longer due, or its owner was told why,
\* be it a failed check or an error.
StartIsSettled == StartDue ~> ~StartDue \/ failure = "told"
=============================================================================
