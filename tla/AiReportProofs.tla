--------------------------- MODULE AiReportProofs ---------------------------
(***************************************************************************)
(* What is proved of the AI report queue, for any number of instances,     *)
(* manual requests and changes of the input.                               *)
(*                                                                         *)
(* OutputIsOfCurrentInput and RunIsOfCurrentInput are inductive together   *)
(* with what makes a claim sound: a worker that found a report found it    *)
(* claimable, and a report that exists has a revision, which is never      *)
(* ahead of the input.                                                     *)
(***************************************************************************)
EXTENDS AiReport, FiniteSetTheorems, TLAPS

\* A report exists exactly when it has a revision.
RevisionInv ==
    /\ report.status = "NONE" <=> report.revision = 0
    /\ report.revision <= input

\* What is remembered across statements about the report.
MemoryInv ==
    /\ \A w \in Worker : worker[w].at = "found" => worker[w].status \in {"PENDING", "FAILED"}
    /\ \A q \in Request : request[q] = "retry" => report.status # "NONE"

RunInv == OutputIsOfCurrentInput /\ RunIsOfCurrentInput /\ RevisionInv /\ MemoryInv

QueueInv == TypeOK /\ RunInv

-----------------------------------------------------------------------------

LEMMA QueuedIsReport ==
    ASSUME NEW r \in Nat
    PROVE  /\ Queued(r) \in Report
           /\ Queued(r).status = "PENDING" /\ Queued(r).revision = r
           /\ Queued(r).processing = 0 /\ Queued(r).output = 0
  BY DEF Queued, Report, ReportStatus

LEMMA IdleIsState == Idle \in WorkerState
  BY DEF Idle, WorkerState, ReportStatus

LEMMA InitQueueInv == Init => QueueInv
  <1> SUFFICES ASSUME Init
               PROVE  QueueInv
    OBVIOUS
  <1>1. report \in Report
    BY DEF Init, Report, ReportStatus
  <1>2. TypeOK
    BY <1>1, IdleIsState DEF Init, TypeOK
  <1>3. RunInv
    BY DEF Init, RunInv, OutputIsOfCurrentInput, RunIsOfCurrentInput, RevisionInv,
       MemoryInv, Idle
  <1> QED BY <1>2, <1>3 DEF QueueInv

-----------------------------------------------------------------------------
(* The processor.                                                           *)

LEMMA FindStep ==
    ASSUME QueueInv, NEW w \in Worker, FindReport(w)
    PROVE  QueueInv'
  <1>1. TypeOK'
    BY DEF QueueInv, TypeOK, FindReport, WorkerState, Report, ReportStatus
  <1>2. RunInv'
    BY DEF QueueInv, TypeOK, RunInv, OutputIsOfCurrentInput, RunIsOfCurrentInput,
           RevisionInv, MemoryInv, FindReport
  <1> QED BY <1>1, <1>2 DEF QueueInv

LEMMA ClaimStep ==
    ASSUME QueueInv, NEW w \in Worker, ClaimReport(w)
    PROVE  QueueInv'
  <1>1. report.attempts + 1 \in Nat
    BY DEF QueueInv, TypeOK, Report
  <1>2. TypeOK'
    BY <1>1 DEF QueueInv, TypeOK, ClaimReport, WorkerState, Report, ReportStatus
  <1>3. report.status \in {"PENDING", "FAILED"}
    BY DEF QueueInv, RunInv, MemoryInv, ClaimReport
  <1>4. /\ report'.status = "GENERATING" /\ report'.revision = report.revision
        /\ report'.processing = report.revision /\ report'.output = report.output
    BY DEF QueueInv, TypeOK, Report, ClaimReport
  <1>5. RunInv'
    BY <1>3, <1>4 DEF QueueInv, TypeOK, RunInv, OutputIsOfCurrentInput,
       RunIsOfCurrentInput, RevisionInv, MemoryInv, ClaimReport
  <1> QED BY <1>2, <1>5 DEF QueueInv

LEMMA CompleteStep ==
    ASSUME QueueInv, NEW w \in Worker, Complete(w)
    PROVE  QueueInv'
  <1>1. TypeOK'
    BY DEF QueueInv, TypeOK, Complete, WorkerState, Report, ReportStatus, Idle
  <1>2. /\ report.status = "GENERATING"
        /\ worker[w].revision = report.revision /\ report.processing = report.revision
    BY DEF Complete, RunIsCurrent
  <1>3. /\ report'.status = "SUCCESS" /\ report'.revision = report.revision
        /\ report'.processing = 0 /\ report'.output = report.revision
    BY <1>2 DEF QueueInv, TypeOK, Report, Complete
  <1>4. RunInv'
    BY <1>2, <1>3 DEF QueueInv, TypeOK, RunInv, OutputIsOfCurrentInput,
       RunIsOfCurrentInput, RevisionInv, MemoryInv, Complete, Idle
  <1> QED BY <1>1, <1>4 DEF QueueInv

\* A run that ends without an answer, in whichever way.
LEMMA RunEnds ==
    ASSUME QueueInv, report.status = "GENERATING", NEW a \in BOOLEAN,
           report' = [report EXCEPT !.status = "FAILED", !.available = a,
                                    !.processing = 0, !.overdue = FALSE]
    PROVE  /\ report' \in Report
           /\ report'.status = "FAILED" /\ report'.revision = report.revision
           /\ report'.processing = 0 /\ report'.output = report.output
  BY DEF QueueInv, TypeOK, Report, ReportStatus

LEMMA FailStep ==
    ASSUME QueueInv, NEW w \in Worker, Fail(w)
    PROVE  QueueInv'
  <1>1. CASE RunIsCurrent(w) /\ cycle = "ACTIVE"
    <2>1. /\ report' \in Report
          /\ report'.status = "FAILED" /\ report'.revision = report.revision
          /\ report'.processing = 0 /\ report'.output = report.output
      BY <1>1, RunEnds DEF Fail, RunIsCurrent
    <2>2. report.status = "GENERATING"
      BY <1>1 DEF RunIsCurrent
    <2>3. TypeOK'
      BY <2>1, IdleIsState DEF QueueInv, TypeOK, Fail
    <2>4. RunInv'
      BY <2>1, <2>2 DEF QueueInv, TypeOK, RunInv, OutputIsOfCurrentInput,
         RunIsOfCurrentInput, RevisionInv, MemoryInv, Fail, Idle
    <2> QED BY <2>3, <2>4 DEF QueueInv
  <1>2. CASE ~(RunIsCurrent(w) /\ cycle = "ACTIVE")
    <2>1. report' = report
      BY <1>2 DEF Fail
    <2>2. TypeOK'
      BY <2>1, IdleIsState DEF QueueInv, TypeOK, Fail
    <2>3. RunInv'
      BY <2>1 DEF QueueInv, TypeOK, RunInv, OutputIsOfCurrentInput,
         RunIsOfCurrentInput, RevisionInv, MemoryInv, Fail, Idle
    <2> QED BY <2>2, <2>3 DEF QueueInv
  <1> QED BY <1>1, <1>2

\* Steps of a worker alone: the claim is lost, the gateway fails, the instance stops.
LEMMA WorkerOnlyStep ==
    ASSUME QueueInv, NEW w \in Worker,
           ClaimLost(w) \/ GenerationFails(w) \/ Crash(w)
    PROVE  QueueInv'
  <1>1. UNCHANGED <<cycle, input, report, aiTaskDone, request>>
    BY DEF ClaimLost, GenerationFails, Crash
  <1>2. \/ worker' = [worker EXCEPT ![w] = Idle]
        \/ worker' = [worker EXCEPT ![w].at = "failing"]
    BY DEF ClaimLost, GenerationFails, Crash
  <1>3. worker' \in [Worker -> WorkerState]
    <2>1. CASE worker' = [worker EXCEPT ![w] = Idle]
      BY <2>1, IdleIsState DEF QueueInv, TypeOK
    <2>2. CASE worker' = [worker EXCEPT ![w].at = "failing"]
      BY <2>2 DEF QueueInv, TypeOK, WorkerState
    <2> QED BY <1>2, <2>1, <2>2
  <1>4. \A v \in Worker : worker'[v].at = "found" => worker'[v] = worker[v]
    <2>1. CASE worker' = [worker EXCEPT ![w] = Idle]
      BY <2>1 DEF QueueInv, TypeOK, Idle
    <2>2. CASE worker' = [worker EXCEPT ![w].at = "failing"]
      BY <2>2 DEF QueueInv, TypeOK, WorkerState
    <2> QED BY <1>2, <2>1, <2>2
  <1>5. TypeOK'
    BY <1>1, <1>3 DEF QueueInv, TypeOK
  <1>6. RunInv'
    BY <1>1, <1>4 DEF QueueInv, RunInv, OutputIsOfCurrentInput, RunIsOfCurrentInput,
       RevisionInv, MemoryInv
  <1> QED BY <1>5, <1>6 DEF QueueInv

LEMMA RecoverStep == QueueInv /\ RecoverTimedOut => QueueInv'
  <1> SUFFICES ASSUME QueueInv, RecoverTimedOut
               PROVE  QueueInv'
    OBVIOUS
  <1>1. /\ report' \in Report
        /\ report'.status = "FAILED" /\ report'.revision = report.revision
        /\ report'.processing = 0 /\ report'.output = report.output
    BY RunEnds DEF RecoverTimedOut
  <1>2. TypeOK'
    BY <1>1 DEF QueueInv, TypeOK, RecoverTimedOut
  <1>3. RunInv'
    BY <1>1 DEF QueueInv, TypeOK, RunInv, OutputIsOfCurrentInput,
       RunIsOfCurrentInput, RevisionInv, MemoryInv, RecoverTimedOut
  <1> QED BY <1>2, <1>3 DEF QueueInv

LEMMA ClockStep == QueueInv /\ (BackoffEnds \/ RunTimesOut) => QueueInv'
  <1> SUFFICES ASSUME QueueInv, BackoffEnds \/ RunTimesOut
               PROVE  QueueInv'
    OBVIOUS
  <1>1. /\ report' \in Report
        /\ report'.status = report.status /\ report'.revision = report.revision
        /\ report'.processing = report.processing /\ report'.output = report.output
    BY DEF QueueInv, TypeOK, Report, BackoffEnds, RunTimesOut
  <1>2. TypeOK'
    BY <1>1 DEF QueueInv, TypeOK, BackoffEnds, RunTimesOut
  <1>3. RunInv'
    BY <1>1 DEF QueueInv, TypeOK, RunInv, OutputIsOfCurrentInput,
       RunIsOfCurrentInput, RevisionInv, MemoryInv, BackoffEnds, RunTimesOut
  <1> QED BY <1>2, <1>3 DEF QueueInv

-----------------------------------------------------------------------------
(* Submissions and manual requests.                                         *)

LEMMA SubmitStep == QueueInv /\ SubmitHuman => QueueInv'
  <1> SUFFICES ASSUME QueueInv, SubmitHuman
               PROVE  QueueInv'
    OBVIOUS
  <1>1. input' \in Nat /\ input' # 0
    BY DEF QueueInv, TypeOK, SubmitHuman
  <1>2. /\ report' \in Report
        /\ report'.status = "PENDING" /\ report'.revision = input'
        /\ report'.processing = 0 /\ report'.output = 0
    BY <1>1, QueuedIsReport DEF SubmitHuman
  <1>3. TypeOK'
    BY <1>1, <1>2 DEF QueueInv, TypeOK, SubmitHuman
  <1>4. RunInv'
    BY <1>1, <1>2 DEF QueueInv, TypeOK, RunInv, OutputIsOfCurrentInput,
       RunIsOfCurrentInput, RevisionInv, MemoryInv, SubmitHuman
  <1> QED BY <1>3, <1>4 DEF QueueInv

LEMMA RecalculateStep == QueueInv /\ RecalculateStages => QueueInv'
  BY DEF QueueInv, TypeOK, RunInv, OutputIsOfCurrentInput, RunIsOfCurrentInput,
         RevisionInv, MemoryInv, RecalculateStages, Report

LEMMA GenerateStep ==
    ASSUME QueueInv, NEW q \in Request, FinishGenerate(q)
    PROVE  QueueInv'
  <1>1. CASE input = 0 \/ (report.status # "NONE" /\ report.revision = input)
    <2>1. report' = report
      BY <1>1 DEF FinishGenerate, Refreshed
    <2>2. TypeOK'
      BY <2>1 DEF QueueInv, TypeOK, FinishGenerate
    <2>3. RunInv'
      BY <2>1 DEF QueueInv, TypeOK, RunInv, OutputIsOfCurrentInput,
         RunIsOfCurrentInput, RevisionInv, MemoryInv, FinishGenerate
    <2> QED BY <2>2, <2>3 DEF QueueInv
  <1>2. CASE ~(input = 0 \/ (report.status # "NONE" /\ report.revision = input))
    <2>1. input \in Nat /\ input # 0
      BY <1>2 DEF QueueInv, TypeOK
    <2>2. /\ report' \in Report
          /\ report'.status = "PENDING" /\ report'.revision = input
          /\ report'.processing = 0 /\ report'.output = 0
      BY <1>2, <2>1, QueuedIsReport DEF FinishGenerate, Refreshed
    <2>3. TypeOK'
      BY <2>2 DEF QueueInv, TypeOK, FinishGenerate
    <2>4. RunInv'
      BY <2>1, <2>2 DEF QueueInv, TypeOK, RunInv, OutputIsOfCurrentInput,
         RunIsOfCurrentInput, RevisionInv, MemoryInv, FinishGenerate
    <2> QED BY <2>3, <2>4 DEF QueueInv
  <1> QED BY <1>1, <1>2

LEMMA RetryStep ==
    ASSUME QueueInv, NEW q \in Request, FinishRetry(q)
    PROVE  QueueInv'
  <1>1. report.revision \in Nat /\ report.revision # 0
    BY DEF QueueInv, TypeOK, Report, RunInv, MemoryInv, RevisionInv, FinishRetry
  <1>2. /\ report' \in Report
        /\ report'.status = "PENDING" /\ report'.revision = report.revision
        /\ report'.processing = 0 /\ report'.output = 0
    BY <1>1, QueuedIsReport DEF FinishRetry
  <1>3. TypeOK'
    BY <1>2 DEF QueueInv, TypeOK, FinishRetry
  <1>4. RunInv'
    BY <1>1, <1>2 DEF QueueInv, TypeOK, RunInv, OutputIsOfCurrentInput,
       RunIsOfCurrentInput, RevisionInv, MemoryInv, FinishRetry
  <1> QED BY <1>3, <1>4 DEF QueueInv

LEMMA BeginStep ==
    ASSUME QueueInv, NEW q \in Request, BeginGenerate(q) \/ BeginRetry(q)
    PROVE  QueueInv'
  <1>1. TypeOK'
    BY DEF QueueInv, TypeOK, BeginGenerate, BeginRetry
  <1>2. RunInv'
    BY DEF QueueInv, TypeOK, RunInv, OutputIsOfCurrentInput, RunIsOfCurrentInput,
           RevisionInv, MemoryInv, BeginGenerate, BeginRetry
  <1> QED BY <1>1, <1>2 DEF QueueInv

-----------------------------------------------------------------------------

LEMMA NextQueueInv == QueueInv /\ [Next]_vars => QueueInv'
  <1> SUFFICES ASSUME QueueInv, [Next]_vars
               PROVE  QueueInv'
    OBVIOUS
  <1>1. CASE SubmitHuman
    BY <1>1, SubmitStep
  <1>2. CASE RecalculateStages
    BY <1>2, RecalculateStep
  <1>3. ASSUME NEW w \in Worker, WorkerStep(w) \/ Crash(w)
        PROVE  QueueInv'
    BY <1>3, FindStep, ClaimStep, CompleteStep, FailStep, WorkerOnlyStep
       DEF WorkerStep, Finish
  <1>4. CASE RecoverTimedOut
    BY <1>4, RecoverStep
  <1>5. CASE BackoffEnds \/ RunTimesOut
    BY <1>5, ClockStep
  <1>6. ASSUME NEW q \in Request, RequestStep(q)
        PROVE  QueueInv'
    BY <1>6, BeginStep, GenerateStep, RetryStep DEF RequestStep
  <1>7. CASE Pause \/ Resume \/ Archive
    BY <1>7 DEF Pause, Resume, Archive, QueueInv, TypeOK, RunInv,
       OutputIsOfCurrentInput, RunIsOfCurrentInput, RevisionInv, MemoryInv
  <1>8. CASE UNCHANGED vars
    BY <1>8 DEF vars, QueueInv, TypeOK, RunInv,
       OutputIsOfCurrentInput, RunIsOfCurrentInput, RevisionInv, MemoryInv
  <1> QED BY <1>1, <1>2, <1>3, <1>4, <1>5, <1>6, <1>7, <1>8 DEF Next

\* The inductive invariant holds throughout.
THEOREM QueueCorrect == Spec => []QueueInv
  BY InitQueueInv, NextQueueInv, PTL DEF Spec

\* However late an answer of the gateway arrives (complete), the stored one was
\* generated from the revision the report names.
THEOREM OutputCorrect == Spec => []OutputIsOfCurrentInput
  <1>1. QueueInv => OutputIsOfCurrentInput
    BY DEF QueueInv, RunInv
  <1> QED BY <1>1, QueueCorrect, PTL

\* processing_revision names a run exactly while one is in progress, for the current
\* revision (claimNext, fail, recoverTimedOut, refreshForParticipant, retry).
THEOREM RunCorrect == Spec => []RunIsOfCurrentInput
  <1>1. QueueInv => RunIsOfCurrentInput
    BY DEF QueueInv, RunInv
  <1> QED BY <1>1, QueueCorrect, PTL

-----------------------------------------------------------------------------
(* A stored answer is kept.                                                 *)

\* One step from a stored answer, without a manual retry under way.
Kept == report.status = "SUCCESS" /\ (\A q \in Request : request[q] # "retry") =>
          \/ report'.status = "SUCCESS"
          \/ report'.revision > report.revision

LEMMA KeptStep == QueueInv /\ [Next]_vars => Kept
  <1> SUFFICES ASSUME QueueInv, [Next]_vars, report.status = "SUCCESS",
                      \A q \in Request : request[q] # "retry"
               PROVE  \/ report'.status = "SUCCESS"
                      \/ report'.revision > report.revision
    BY DEF Kept
  <1>t. input \in Nat /\ report.revision \in Nat /\ report.revision <= input
    BY DEF QueueInv, TypeOK, Report, RunInv, RevisionInv
  <1>1. CASE SubmitHuman
    <2>1. input' = input + 1 /\ report' = Queued(input')
      BY <1>1 DEF SubmitHuman
    <2> QED BY <1>t, <2>1, QueuedIsReport
  <1>2. ASSUME NEW w \in Worker, WorkerStep(w) \/ Crash(w)
        PROVE  report' = report
    BY <1>2 DEF WorkerStep, Finish, Crash, FindReport, ClaimReport, ClaimLost, Complete,
       GenerationFails, Fail, RunIsCurrent, QueueInv, RunInv, MemoryInv
  <1>3. ASSUME NEW q \in Request, RequestStep(q)
        PROVE  report' = report \/ report'.revision > report.revision
    <2>1. CASE FinishGenerate(q)
      <3>1. CASE report.revision = input
        BY <2>1, <3>1 DEF FinishGenerate, Refreshed
      <3>2. CASE report.revision # input
        <4>1. report' = Queued(input) \/ report' = report
          BY <2>1 DEF FinishGenerate, Refreshed
        <4>2. input > report.revision
          BY <1>t, <3>2
        <4> QED BY <1>t, <4>1, <4>2, QueuedIsReport
      <3> QED BY <3>1, <3>2
    <2>2. CASE BeginGenerate(q) \/ BeginRetry(q)
      BY <2>2 DEF BeginGenerate, BeginRetry
    <2> QED BY <1>3, <2>1, <2>2 DEF RequestStep, FinishRetry
  <1>4. CASE RecalculateStages \/ RecoverTimedOut \/ RunTimesOut \/ Pause \/ Resume \/ Archive
    BY <1>4 DEF RecalculateStages, RecoverTimedOut, RunTimesOut, Pause, Resume, Archive
  <1>5. CASE BackoffEnds
    BY <1>5 DEF BackoffEnds, QueueInv, TypeOK, Report
  <1>6. CASE UNCHANGED vars
    BY <1>6 DEF vars
  <1> QED BY <1>1, <1>2, <1>3, <1>4, <1>5, <1>6 DEF Next

\* No late failure, timeout or repeated request discards a stored answer.
THEOREM SuccessKept == Spec => SuccessIsKept
  <1>1. QueueInv /\ [Next]_vars => [Kept]_vars
    BY KeptStep
  <1> QED BY <1>1, QueueCorrect, PTL DEF Spec, SuccessIsKept, Kept

-----------------------------------------------------------------------------
(* Attempts.                                                                *)

\* The instances that may still claim what they found.
Holders == {w \in Worker : worker[w].at = "found"}

\* Every one of them may add an attempt, and a report is found with one left.
HoldersBounded ==
    report.attempts + Cardinality(Holders) <= MaxAttempts + Cardinality(Worker) - 1

LEMMA HoldersCount ==
    /\ Cardinality(Worker) \in Nat /\ 1 <= Cardinality(Worker)
    /\ \A H \in SUBSET Worker :
          /\ IsFiniteSet(H) /\ Cardinality(H) \in Nat /\ Cardinality(H) <= Cardinality(Worker)
          /\ \A w \in H : Cardinality(H \ {w}) = Cardinality(H) - 1
  <1>1. IsFiniteSet(Worker) /\ Cardinality(Worker) \in Nat /\ Cardinality(Worker) # 0
    BY WorkerAssumption, FS_CardinalityType, FS_EmptySet
  <1>2. ASSUME NEW H \in SUBSET Worker
        PROVE  /\ IsFiniteSet(H) /\ Cardinality(H) \in Nat
               /\ Cardinality(H) <= Cardinality(Worker)
               /\ \A w \in H : Cardinality(H \ {w}) = Cardinality(H) - 1
    <2>1. IsFiniteSet(H) /\ Cardinality(H) <= Cardinality(Worker)
      BY <1>1, FS_Subset
    <2>2. Cardinality(H) \in Nat
      BY <2>1, FS_CardinalityType
    <2>3. \A w \in H : Cardinality(H \ {w}) = Cardinality(H) - 1
      BY <2>1, FS_RemoveElement
    <2> QED BY <2>1, <2>2, <2>3
  <1> QED BY <1>1, <1>2

\* Attempts count up by claims alone, and start over with a queued input.
LEMMA AttemptsStep ==
    ASSUME QueueInv, [Next]_vars
    PROVE  \/ report'.attempts = report.attempts /\ Holders' \subseteq Holders
           \/ report'.attempts = 0
           \/ report.attempts < MaxAttempts /\ report'.attempts = report.attempts
           \/ \E w \in Holders :
                 report'.attempts = report.attempts + 1 /\ Holders' \subseteq Holders \ {w}
  <1>1. report \in Report /\ worker \in [Worker -> WorkerState]
    BY DEF QueueInv, TypeOK
  <1>2. \A r \in Nat : Queued(r).attempts = 0
    BY DEF Queued
  <1>3. CASE SubmitHuman
    BY <1>3 DEF SubmitHuman, Queued
  <1>4. ASSUME NEW w \in Worker, FindReport(w)
        PROVE  report.attempts < MaxAttempts /\ report'.attempts = report.attempts
    BY <1>4 DEF FindReport, AttemptsLeft
  <1>5. ASSUME NEW w \in Worker, ClaimReport(w)
        PROVE  /\ w \in Holders /\ report'.attempts = report.attempts + 1
               /\ Holders' \subseteq Holders \ {w}
    <2>1. w \in Holders
      BY <1>5 DEF ClaimReport, Holders
    <2>2. report'.attempts = report.attempts + 1
      BY <1>1, <1>5 DEF ClaimReport, Report
    <2>3. Holders' \subseteq Holders \ {w}
      <3>1. worker' = [worker EXCEPT ![w].at = "generating"]
        BY <1>5 DEF ClaimReport
      <3> QED BY <1>1, <3>1 DEF Holders, WorkerState
    <2> QED BY <2>1, <2>2, <2>3
  <1>6. ASSUME NEW w \in Worker,
               ClaimLost(w) \/ Complete(w) \/ GenerationFails(w) \/ Fail(w) \/ Crash(w)
        PROVE  report'.attempts = report.attempts /\ Holders' \subseteq Holders
    <2>1. report'.attempts = report.attempts
      BY <1>1, <1>6 DEF ClaimLost, Complete, GenerationFails, Fail, Crash, Report
    <2>2. worker' = [worker EXCEPT ![w] = Idle] \/ worker' = [worker EXCEPT ![w].at = "failing"]
      BY <1>6 DEF ClaimLost, Complete, GenerationFails, Fail, Crash
    <2> QED BY <1>1, <2>1, <2>2 DEF Holders, WorkerState, Idle
  <1>7. CASE RecoverTimedOut \/ BackoffEnds \/ RunTimesOut
    <2>1. report'.attempts = report.attempts /\ worker' = worker
      BY <1>1, <1>7 DEF RecoverTimedOut, BackoffEnds, RunTimesOut, Report
    <2> QED BY <2>1 DEF Holders
  <1>8. ASSUME NEW q \in Request, RequestStep(q)
        PROVE  report'.attempts = 0 \/ (report' = report /\ Holders' = Holders)
    BY <1>8 DEF RequestStep, BeginGenerate, FinishGenerate, BeginRetry, FinishRetry,
       Refreshed, Queued, Holders
  <1>9. CASE RecalculateStages \/ Pause \/ Resume \/ Archive \/ UNCHANGED vars
    BY <1>9 DEF RecalculateStages, Pause, Resume, Archive, vars, Holders
  <1> QED BY <1>3, <1>4, <1>5, <1>6, <1>7, <1>8, <1>9 DEF Next, WorkerStep, Finish

LEMMA HoldersStep == QueueInv /\ HoldersBounded /\ [Next]_vars => HoldersBounded'
  <1> SUFFICES ASSUME QueueInv, HoldersBounded, [Next]_vars
               PROVE  HoldersBounded'
    OBVIOUS
  <1>1. /\ report.attempts \in Nat /\ report'.attempts \in Nat /\ MaxAttempts \in Nat
        /\ 1 <= MaxAttempts
    BY NextQueueInv, AttemptsAssumption DEF QueueInv, TypeOK, Report
  <1>2. Holders \in SUBSET Worker /\ Holders' \in SUBSET Worker
    BY DEF Holders
  <1>3. PICK n0 \in Nat : n0 = Cardinality(Worker) /\ 1 <= n0
    BY HoldersCount
  <1>4. PICK h0 \in Nat : h0 = Cardinality(Holders) /\ h0 <= n0
    BY <1>2, <1>3, HoldersCount
  <1>5. PICK h1 \in Nat : h1 = Cardinality(Holders') /\ h1 <= n0
    BY <1>2, <1>3, HoldersCount
  <1>6. Holders' \subseteq Holders => h1 <= h0
    <2>1. IsFiniteSet(Holders)
      BY <1>2, HoldersCount
    <2> QED BY <1>4, <1>5, <2>1, FS_Subset
  <1>7. \A w \in Holders : Holders' \subseteq Holders \ {w} => h1 <= h0 - 1
    <2> SUFFICES ASSUME NEW w \in Holders, Holders' \subseteq Holders \ {w}
                 PROVE  h1 <= h0 - 1
      OBVIOUS
    <2>1. /\ Holders \ {w} \in SUBSET Worker /\ IsFiniteSet(Holders \ {w})
          /\ Cardinality(Holders \ {w}) = h0 - 1
      BY <1>2, <1>4, HoldersCount
    <2> QED BY <1>5, <2>1, FS_Subset
  <1>8. report.attempts + h0 <= MaxAttempts + n0 - 1
    BY <1>3, <1>4 DEF HoldersBounded
  <1>9. report'.attempts + h1 <= MaxAttempts + n0 - 1
    <2>1. CASE report'.attempts = report.attempts /\ Holders' \subseteq Holders
      BY <1>1, <1>6, <1>8, <2>1
    <2>2. CASE report'.attempts = 0
      BY <1>1, <1>3, <1>5, <2>2
    <2>3. CASE report.attempts < MaxAttempts /\ report'.attempts = report.attempts
      BY <1>1, <1>5, <2>3
    <2>4. ASSUME NEW w \in Holders, report'.attempts = report.attempts + 1,
                 Holders' \subseteq Holders \ {w}
          PROVE  report'.attempts + h1 <= MaxAttempts + n0 - 1
      <3>1. h1 <= h0 - 1
        BY <1>7, <2>4
      <3> QED BY <1>1, <1>8, <2>4, <3>1
    <2> QED BY <2>1, <2>2, <2>3, <2>4, AttemptsStep
  <1> QED BY <1>3, <1>5, <1>9 DEF HoldersBounded

\* Rows, workers and requests keep their types.
THEOREM QueueTypes == Spec => []TypeOK
  <1>1. QueueInv => TypeOK
    BY DEF QueueInv
  <1> QED BY <1>1, QueueCorrect, PTL

\* However many instances found the report before its last attempt failed, they add
\* at most one attempt each, and one of them was within the limit.
THEOREM AttemptsCorrect == Spec => []AttemptsBounded
  <1>1. Init => HoldersBounded
    <2> SUFFICES ASSUME Init
                 PROVE  HoldersBounded
      OBVIOUS
    <2>1. Holders = {} /\ report.attempts = 0
      BY DEF Init, Holders, Idle
    <2> QED BY <2>1, HoldersCount, FS_EmptySet, AttemptsAssumption DEF HoldersBounded
  <1>2. QueueInv /\ HoldersBounded => AttemptsBounded
    <2> SUFFICES ASSUME QueueInv, HoldersBounded
                 PROVE  AttemptsBounded
      OBVIOUS
    <2>1. report.attempts \in Nat /\ Holders \in SUBSET Worker
      BY DEF QueueInv, TypeOK, Report, Holders
    <2>2. Cardinality(Holders) \in Nat /\ Cardinality(Worker) \in Nat
      BY <2>1, HoldersCount
    <2> QED BY <2>1, <2>2, AttemptsAssumption DEF HoldersBounded, AttemptsBounded
  <1> QED BY <1>1, <1>2, HoldersStep, QueueCorrect, PTL DEF Spec

=============================================================================
