------------------------------ MODULE AiReport ------------------------------
(***************************************************************************)
(* The queue of AI reports, for the report of one participant.             *)
(*                                                                         *)
(* The report is one database row.  Submissions and operators put it in    *)
(* the queue; the workers (AiReportProcessor, one per running instance)    *)
(* claim it, ask the AI gateway and write the outcome back, each in a      *)
(* statement of its own: nothing is locked in between.  The row is         *)
(* protected by conditional updates only, and manual requests check the    *)
(* row and the cycle before they write.                                    *)
(*                                                                         *)
(* The SHA-256 of the human input is a counter: it covers the timestamps   *)
(* of the answer sheets and never comes back to an earlier value.          *)
(***************************************************************************)
EXTENDS Naturals, FiniteSets

CONSTANTS
    Worker,        \* running instances of the processor
    Request,       \* calls of requestGeneration and retry, each made once
    MaxAttempts,   \* MAX_AUTOMATIC_ATTEMPTS
    MaxInput       \* bound: changes of the human input

ASSUME WorkerAssumption == IsFiniteSet(Worker) /\ Worker # {}
ASSUME AttemptsAssumption == MaxAttempts \in Nat \ {0}

VARIABLES
    cycle,        \* ACTIVE, PAUSED (rolled back to preparation) or ARCHIVED
    input,        \* revision of the human input; 0: no MANAGER submission yet
    report,       \* the perf_ai_reports row
    aiTaskDone,   \* completed_at of the participant's AI task is set
    worker,       \* what each processor is doing
    request       \* what each manual request is doing

vars == <<cycle, input, report, aiTaskDone, worker, request>>

ReportStatus == {"NONE", "PENDING", "GENERATING", "SUCCESS", "FAILED"}

\* available: available_at has passed.  overdue: started_at is longer ago than the
\* timeout.  output: the input revision the stored answer was generated from.
Report == [status : ReportStatus, revision : Nat, processing : Nat, attempts : Nat,
           available : BOOLEAN, overdue : BOOLEAN, output : Nat]

WorkerState == [at : {"idle", "found", "generating", "failing"},
                status : ReportStatus, revision : Nat]

TypeOK ==
    /\ cycle \in {"ACTIVE", "PAUSED", "ARCHIVED"}
    /\ input \in Nat
    /\ report \in Report
    /\ aiTaskDone \in BOOLEAN
    /\ worker \in [Worker -> WorkerState]
    /\ request \in [Request -> {"new", "generate", "retry", "done"}]

Idle == [at |-> "idle", status |-> "NONE", revision |-> 0]

-----------------------------------------------------------------------------
(* Plausible mistakes, each the wrong form of one definition below.         *)

\* A claim counts the attempts before this one.
AttemptsNotAbove == report.attempts <= MaxAttempts

\* The answer is accepted for whatever run is in progress.
RunInProgress(w) == report.status = "GENERATING"

\* The same input is generated again.
AlwaysQueued == IF input = 0 THEN report
                ELSE [status |-> "PENDING", revision |-> input, processing |-> 0,
                      attempts |-> 0, available |-> TRUE, overdue |-> FALSE, output |-> 0]

\* Only a run that may be repeated is taken back.
RecoverRepeatable ==
    /\ cycle = "ACTIVE"
    /\ report.status = "GENERATING" /\ report.overdue
    /\ report.attempts < MaxAttempts
    /\ report' = [report EXCEPT !.status = "FAILED", !.available = TRUE,
                                !.processing = 0, !.overdue = FALSE]
    /\ UNCHANGED <<cycle, input, aiTaskDone, worker, request>>

-----------------------------------------------------------------------------
(* Queueing.                                                                *)

Queued(r) ==
    [status |-> "PENDING", revision |-> r, processing |-> 0, attempts |-> 0,
     available |-> TRUE, overdue |-> FALSE, output |-> 0]

\* refreshForParticipant: nothing without a MANAGER submission, nothing for the
\* revision that is already there, otherwise the report starts over.
Refreshed ==
    IF input = 0 \/ (report.status # "NONE" /\ report.revision = input)
    THEN report
    ELSE Queued(input)

\* requestGeneration holds the participant row from its last check to its write.
ParticipantFree == \A q \in Request : request[q] # "generate"

\* A submission refreshes the report in its own transaction, which locks the cycle
\* and the participant.
SubmitHuman ==
    /\ cycle = "ACTIVE"
    /\ ParticipantFree
    /\ input < MaxInput
    /\ input' = input + 1
    /\ report' = Queued(input')
    /\ UNCHANGED <<cycle, aiTaskDone, worker, request>>

\* Stage results are recalculated and stored elsewhere too (a manager opens the
\* context, a red line is confirmed, the configuration changes); the report is not
\* refreshed then.
RecalculateStages ==
    /\ cycle = "ACTIVE"
    /\ input \in 1..(MaxInput - 1)
    /\ input' = input + 1
    /\ UNCHANGED <<cycle, report, aiTaskDone, worker, request>>

-----------------------------------------------------------------------------
(* The processor.                                                           *)

AttemptsLeft == report.attempts < MaxAttempts

\* claimNext, first statement: a report that may run.
FindReport(w) ==
    /\ worker[w].at = "idle"
    /\ cycle = "ACTIVE"
    /\ report.status \in {"PENDING", "FAILED"}
    /\ report.available
    /\ AttemptsLeft
    /\ worker' = [worker EXCEPT ![w] =
          [at |-> "found", status |-> report.status, revision |-> report.revision]]
    /\ UNCHANGED <<cycle, input, report, aiTaskDone, request>>

\* claimNext, second statement: claimed if status and revision are still those found.
ClaimReport(w) ==
    /\ worker[w].at = "found"
    /\ report.status = worker[w].status
    /\ report.revision = worker[w].revision
    /\ report' = [report EXCEPT !.status = "GENERATING", !.processing = report.revision,
                                !.attempts = @ + 1, !.overdue = FALSE]
    /\ worker' = [worker EXCEPT ![w].at = "generating"]
    /\ UNCHANGED <<cycle, input, aiTaskDone, request>>

ClaimLost(w) ==
    /\ worker[w].at = "found"
    /\ \/ report.status # worker[w].status
       \/ report.revision # worker[w].revision
    /\ worker' = [worker EXCEPT ![w] = Idle]
    /\ UNCHANGED <<cycle, input, report, aiTaskDone, request>>

\* The row is being generated, for the revision of this worker's job.
RunIsCurrent(w) ==
    /\ report.status = "GENERATING"
    /\ report.revision = worker[w].revision
    /\ report.processing = worker[w].revision

Complete(w) ==
    /\ worker[w].at = "generating"
    /\ RunIsCurrent(w)
    /\ cycle = "ACTIVE"
    /\ report' = [report EXCEPT !.status = "SUCCESS", !.output = worker[w].revision,
                                !.processing = 0, !.overdue = FALSE]
    /\ aiTaskDone' = TRUE
    /\ worker' = [worker EXCEPT ![w] = Idle]
    /\ UNCHANGED <<cycle, input, request>>

\* The gateway fails or times out, the answer is invalid, or it comes too late for
\* complete to accept it: the processor then reports a failure.
GenerationFails(w) ==
    /\ worker[w].at = "generating"
    /\ worker' = [worker EXCEPT ![w].at = "failing"]
    /\ UNCHANGED <<cycle, input, report, aiTaskDone, request>>

\* fail: its update repeats the conditions of its read.
Fail(w) ==
    /\ worker[w].at = "failing"
    /\ report' = IF RunIsCurrent(w) /\ cycle = "ACTIVE"
                 THEN [report EXCEPT !.status = "FAILED", !.available = FALSE,
                                     !.processing = 0, !.overdue = FALSE]
                 ELSE report
    /\ worker' = [worker EXCEPT ![w] = Idle]
    /\ UNCHANGED <<cycle, input, aiTaskDone, request>>

\* The instance stops; a restarted one knows nothing of the job.  A stop between the
\* two statements of a claim has written nothing: it is a worker that lost its claim.
Crash(w) ==
    /\ worker[w].at \in {"generating", "failing"}
    /\ worker' = [worker EXCEPT ![w] = Idle]
    /\ UNCHANGED <<cycle, input, report, aiTaskDone, request>>

\* recoverTimedOut, at the start of every tick.
RecoverTimedOut ==
    /\ cycle = "ACTIVE"
    /\ report.status = "GENERATING"
    /\ report.overdue
    /\ report' = [report EXCEPT !.status = "FAILED", !.available = TRUE,
                                !.processing = 0, !.overdue = FALSE]
    /\ UNCHANGED <<cycle, input, aiTaskDone, worker, request>>

\* Time passes: the back-off of a failed report ends, a run exceeds the timeout.
BackoffEnds ==
    /\ ~report.available
    /\ report' = [report EXCEPT !.available = TRUE]
    /\ UNCHANGED <<cycle, input, aiTaskDone, worker, request>>

RunTimesOut ==
    /\ report.status = "GENERATING"
    /\ ~report.overdue
    /\ report' = [report EXCEPT !.overdue = TRUE]
    /\ UNCHANGED <<cycle, input, aiTaskDone, worker, request>>

-----------------------------------------------------------------------------
(* Manual requests: checked first, written later.                           *)

\* The transaction of refreshForParticipant checks the cycle again, without locking it.
BeginGenerate(q) ==
    /\ request[q] = "new"
    /\ ParticipantFree
    /\ cycle = "ACTIVE"
    /\ request' = [request EXCEPT ![q] = "generate"]
    /\ UNCHANGED <<cycle, input, report, aiTaskDone, worker>>

FinishGenerate(q) ==
    /\ request[q] = "generate"
    /\ report' = Refreshed
    /\ request' = [request EXCEPT ![q] = "done"]
    /\ UNCHANGED <<cycle, input, aiTaskDone, worker>>

BeginRetry(q) ==
    /\ request[q] = "new"
    /\ cycle = "ACTIVE"
    /\ report.status = "FAILED"
    /\ request' = [request EXCEPT ![q] = "retry"]
    /\ UNCHANGED <<cycle, input, report, aiTaskDone, worker>>

\* The update names the row and no condition.
FinishRetry(q) ==
    /\ request[q] = "retry"
    /\ report' = Queued(report.revision)
    /\ request' = [request EXCEPT ![q] = "done"]
    /\ UNCHANGED <<cycle, input, aiTaskDone, worker>>

-----------------------------------------------------------------------------
(* The cycle around the report.                                             *)

\* The rollback to preparation locks every participant, the archive none.
Pause ==
    /\ cycle = "ACTIVE"
    /\ ParticipantFree
    /\ cycle' = "PAUSED"
    /\ UNCHANGED <<input, report, aiTaskDone, worker, request>>

Resume ==
    /\ cycle = "PAUSED"
    /\ cycle' = "ACTIVE"
    /\ UNCHANGED <<input, report, aiTaskDone, worker, request>>

Archive ==
    /\ cycle = "ACTIVE"
    /\ cycle' = "ARCHIVED"
    /\ UNCHANGED <<input, report, aiTaskDone, worker, request>>

-----------------------------------------------------------------------------

Init ==
    /\ cycle = "ACTIVE"
    /\ input = 0
    /\ report = [status |-> "NONE", revision |-> 0, processing |-> 0, attempts |-> 0,
                 available |-> TRUE, overdue |-> FALSE, output |-> 0]
    /\ aiTaskDone = FALSE
    /\ worker = [w \in Worker |-> Idle]
    /\ request = [q \in Request |-> "new"]

Finish(w) == Complete(w) \/ GenerationFails(w)

WorkerStep(w) ==
    FindReport(w) \/ ClaimReport(w) \/ ClaimLost(w) \/ Finish(w) \/ Fail(w)

RequestStep(q) ==
    BeginGenerate(q) \/ FinishGenerate(q) \/ BeginRetry(q) \/ FinishRetry(q)

Next ==
    \/ SubmitHuman
    \/ RecalculateStages
    \/ \E w \in Worker : WorkerStep(w) \/ Crash(w)
    \/ RecoverTimedOut
    \/ BackoffEnds
    \/ RunTimesOut
    \/ \E q \in Request : RequestStep(q)
    \/ Pause
    \/ Resume
    \/ Archive

\* The processor ticks every 30 seconds in every instance and each of its calls ends;
\* the clock moves on.  Nobody has to submit, retry, crash or move the cycle.
Fairness ==
    /\ \A w \in Worker : WF_vars(WorkerStep(w))
    /\ WF_vars(RecoverTimedOut)
    /\ WF_vars(BackoffEnds)
    /\ WF_vars(RunTimesOut)

Spec == Init /\ [][Next]_vars
FairSpec == Spec /\ Fairness

-----------------------------------------------------------------------------
(* Properties.                                                              *)

\* complete: an answer is stored only with the status SUCCESS, and it was generated
\* from the revision the report names, however late it arrives.
OutputIsOfCurrentInput ==
    /\ report.output # 0 <=> report.status = "SUCCESS"
    /\ report.status = "SUCCESS" => report.output = report.revision

\* processing_revision names a run exactly while one is in progress, and that run
\* is for the current revision (schema.prisma, processingRevision).
RunIsOfCurrentInput ==
    /\ report.status = "GENERATING" <=> report.processing # 0
    /\ report.status = "GENERATING" => report.processing = report.revision

\* A claim does not compare attempts: each instance that found the report before the
\* last attempt failed may add one beyond MAX_AUTOMATIC_ATTEMPTS, and no more.
AttemptsBounded ==
    report.attempts <= MaxAttempts + Cardinality(Worker) - 1

\* Unless a manual retry is under way, a stored answer is only replaced by the queueing
\* of a newer input: no late failure, timeout or repeated request discards it.
SuccessIsKept ==
    [][report.status = "SUCCESS" /\ (\A q \in Request : request[q] # "retry") =>
          \/ report'.status = "SUCCESS"
          \/ report'.revision > report.revision]_vars

\* A queued report ends with an answer or with its attempts used up, although
\* instances crash and answers are lost, unless the cycle is stopped.
QueuedIsSettled ==
    report.status = "PENDING" ~>
        \/ report.status = "SUCCESS"
        \/ report.status = "FAILED" /\ ~AttemptsLeft
        \/ cycle # "ACTIVE"

=============================================================================
