# A TLA+ model of the performance review backend

The repository is a performance review system: a NestJS backend on PostgreSQL
(`backend/src`, Prisma), a Next.js front end (`web`), and documents (`CONTEXT.md`, the
domain glossary, and `docs/adr`, the decisions). The modules here model the backend,
where the rules live. The front end only displays state and sends back the revisions and
ids it was shown.

## 1. Inventory

| Component | State it keeps | Operations | What is hard |
|---|---|---|---|
| Result chain (`calibration/`, `appeal/`) | calibrations, red lines, result versions, appeals | decide (keep, adjust), confirm/revoke red line, publish cycle, confirm, appeal, resolve | versions are appended by two paths; decisions are made on pages that age; publication reads its candidates outside its transactions |
| Participant lifecycle (`participant/`) | status, forms, leader, evaluation lock | add, remove, mark/revoke no result, withdraw | closing or removing a participant races scans, submissions and calibration |
| Cycle lifecycle (`cycle/`) | cycle status, schedule plan, evaluation tasks, archive and rollback records | schedule, return to draft, activate, update plan, open due tasks, archive, roll back, delete | all participants at once; snapshot isolation; tasks that survive a rollback; scans on every instance |
| Evaluation writes (`evaluation/`) | drafts, submissions, stage results, configuration version | save, submit, recalculate | configuration read before the lock; recalculation on read |
| Configuration change (`evaluation/active-cycle-config-*`, `cycle-form-change*`) | configuration versions, form snapshots | preview impact, apply | preview versus apply; recalculating what is being submitted |
| Stage calculation (`calculation/`) | none | weighted scores, level mapping, constraints | rounding and boundaries |
| Reviewer assignments (`review/`, `evaluation/leader-transfer.service.ts`) | assignments, PEER task, PEER result | save list, replace, batch add, transfer the leader, submit | every list is computed from an earlier read; two tables that must agree |
| Notification outbox (`notification/`) | events, notifications | enqueue, consume, send, retry, resend | at-least-once consumption, overlapping workers |
| AI reports (`ai-report/`) | one report row per participant | refresh, claim, complete, fail, recover, retry | answers of timed-out runs, input changing while a run is under way |
| Interviews (`interview/`) | interviews, calendar events | schedule, reschedule, cancel, complete | the calendar is called before the transaction |
| Templates (`form-template/`, `config-template/`) | versioned drafts and publications | edit, publish, archive, copy, bind | publication races editing; copies are numbered from a read |
| OKR synchronisation (`okr/`) | rows, locks, run status | full run, run for one employee, cleanup | locks that expire, overlapping runs, cleanup by time of writing |
| Contact synchronisation, auth, roles, audit, migration | | | no protocol between actors |

How they interact. Every handler that touches a participant's result takes
`SELECT .. FOR UPDATE` on the cycle row and then on the participant row, so the handlers
of one cycle run one after the other. They communicate through rows: a submission moves
the *input revision* a calibration page must quote; a calibration sets the *evaluation
lock* that submissions check; publications, appeals, rollbacks and task openings enqueue
*events* in the same transaction, which a worker turns into notifications. What crosses a
transaction boundary is where the hazards are: pages, candidate lists, previews,
snapshots, worker claims, calls to Lark. `PROJECT.json` lists them with their lines.

What makes each component correct:

- *Result chain*: one version in force per participant; numbers never reused; the status,
  the lock, the decisions and the versions agree; a new version only for a new level; one
  appeal per round, resolved on a decision the handler saw; history append-only.
- *Lifecycles*: archive only when all are closed, and read-only afterwards; a cycle back
  in preparation carries nothing of the old chain; a running cycle has all its tasks, each
  opened and announced once, and every due task is opened in the end.
- *Evaluation writes*: the stored stage results say what the sheets, the reviews and the
  red lines say, under the configuration in force; no write after the lock.
- *Assignments*: a review counts exactly while its assignment is in force; nobody has two
  roles; a review that counts is not lost to an old list.
- *Calculation*: a better answer never lowers the level.
- *Outbox, AI queue*: every event ends in exactly one notification or in FAILED; a report
  shown as SUCCESS belongs to the current input.
- *Interviews*: the calendar says what the row says. *Templates*: what a cycle can copy is
  validated and frozen. *OKR*: nothing the source has is removed.

## 2. Modules

| Module | Contents |
|---|---|
| `ResultChainState`, `ResultChain` | the rows of the result chain, and the handlers that read what is committed |
| `ResultChainSnapshots` | the specification of the chain: those handlers, with archive and rollback on their snapshots |
| `EmployeeResult` | abstract: what an employee is shown; implemented by `ResultChainSnapshots`, but for the closing |
| `StageResult` | reads and writes of SELF and MANAGER stage results, apart |
| `PeerReview` | assignments, PEER submissions, the PEER task and result, leader transfer, new versions of the configuration |
| `StageScore` | how answers become a level |
| `CycleTasks` | preparation, start, plan, task opening, rollback, deletion; liveness of opening and of the start |
| `AiReport` | the report queue; liveness of generation |
| `NotificationDelivery` | batches, keys that expire, refusals, retries; liveness of delivery |
| `Interview` | interviews and the calendar |
| `Templates` | form and configuration versions |
| `OkrSync` | runs, locks and cleanup of the OKR copy |
| `ResultChainProofs`, `ResultChainHistoryProofs` | proofs about `ResultChainSnapshots` |
| `StageResultProofs`, `PeerReviewProofs`, `CycleTasksProofs`, `AiReportProofs`, `NotificationDeliveryProofs` | proofs about the module they are named after |
| `ServicesProofs` | proofs about `OkrSync`, `Interview`, `Templates` and `StageScore` |
| `MC*` | instances for TLC |

How they fit together. `ResultChain` takes the inputs of the chain (sheets, stage level,
red lines) as atomic writes; `StageResult` takes the same writes apart and keeps of the
chain only the first decision, which freezes them; `PeerReview` does so for the PEER
stage. What a submission is worth is left to `StageScore`. `CycleTasks` shares with
`ResultChain` the cycle and participant status and has what happens before anybody is
calibrated; a status of the chain is one value there. `AiReport` and
`NotificationDelivery` take what the chain gives them: an input that changes, an event
that was enqueued. `Interview`, `Templates` and `OkrSync` share no row with the others but
the status they ask for.

Several modules have *plausible mistakes*: wrong forms of a single definition, each placed
beside it or at the head of the module. No specification uses them. Put in the place of
their definition, they show that each property can fail.

## 3. The result chain

`ResultChainState` declares the rows as variables and the queries on them; `ResultChain`
has one action per handler; `ResultChainSnapshots` adds archive and rollback, which do not
see all that is committed, and is the specification that is checked and proved about.

| Variable | Column or table |
|---|---|
| `cycle`, `status`, `locked` | `perf_cycles.status`, `perf_participants.status`, `evaluation_locked_at` |
| `submitted`, `stageLevel` | SUBMITTED answer sheets of SELF and MANAGER; the MANAGER stage level under the current configuration version (`NoLevel`: none) |
| `revision` | the input revision (a hash over submissions, stage results and red lines), as a counter |
| `redLines` | number of red lines confirmed and not revoked |
| `decisions`, `versions`, `appeals` | `perf_calibrations`, `perf_result_versions`, `perf_appeals`; the row id is the position |
| `outbox` | `perf_notification_events` by dedupe key |
| `page` | the calibration context an operator has open |
| `batch` | the candidates of the running `publishCycle` |
| `archiveTx`, `rollbackTx` | an archive that waits and saw no blocker; a rollback that waits, with its target and the decisions it saw |
| `reopened`, `survived` | history: whose status changed while the archive waited; who kept a decision the last rollback had not seen |

| Actions | Handlers |
|---|---|
| `SubmitSelf`, `SubmitManager` | `submitSelf`, `submitManager`, behind `lockHumanWrite` |
| `ViewManagerContext` | `getManagerContext`: a read that recalculates and stores |
| `ConfirmRedLine`, `RevokeRedLine` | `confirm`, `revoke` of a red line |
| `ChangeConfiguration`, `ReapplyConfiguration`, `ChangeForms` | the three ways a cycle gets another configuration or form |
| `OpenPage`, `Keep`, `Adjust` | `getContext`, `decide` |
| `StartPublish`, `PublishChanged`, `PublishUnchanged`, `PublishAborted` | `publishCycle` |
| `Confirm`, `CreateAppeal`, `ResolveMaintained`, `ResolveAdjusted` | `confirm`, `create`, `resolveAppeal` |
| `MarkNoResult`, `RevokeNoResult`, `Withdraw` | `participant/` |
| `Schedule`, `ReturnToDraft`, `Activate` | `cycle/` |
| `BeginArchive`, `CommitArchive`, `BeginRollback`, `CommitRollback`, `AbortTx` | `archive`, `rollback`: the snapshot, and what is written after the wait; a serialisation failure |

Every other handler takes the lock of the cycle row and reads what is committed then, so
it is one action.
`publishCycle` is in steps: reading the candidates, one transaction per participant (with
or without a new version), and an abort that leaves the earlier participants published.
Decisions quote the page, which may be as old as TLC likes. `getManagerContext` takes no
lock and asks for no status: it goes on rewriting stage results even in an archived cycle, which moves the input revision and
nothing else. Permissions, texts, snapshots of answers and audit records are left out; the
final level is kept because properties speak of it.

Bounds: `MaxDecisions`, `MaxVersions`, `MaxRedLines` and `MaxRevision` cap the rows of one
participant; they stop an action, not the rest of the system. Two decisions, three
versions and four input changes are enough for: publish, recalibrate, republish; publish,
appeal, recalibrate, adjust, and then again after a red line; a rollback in any of these
states followed by a second round; an archive or a rollback with an old snapshot beside
any of it. The pair of participants has one decision and one version each: what it adds is
that an archive asks for both and can overlook either.

`NoResultHasNothing` is about who is told that there will be no result: `markNoResult`
refuses whoever submitted SELF or has a decision in force, `submitSelf` refuses whoever is
closed, and a rollback that overlooks a decision leaves its participant ACTIVE with that
decision, so that he cannot be marked.

### Snapshots

`archive` and `rollback` run at isolation level Serializable, and PostgreSQL takes the
snapshot of such a transaction at its first statement, here `SELECT .. FOR UPDATE`, *before*
it waits for the row. The wait fails only if the row was *updated* by the transaction waited
for, and serialisable conflict checks count only transactions that are themselves
serialisable. The handlers of a participant run at the default READ COMMITTED and lock the
cycle row without updating it, so what they commit meanwhile is not seen by the archive; a
rollback also locks the participant rows and fails when one was updated
(`ParticipantRowUpdated`), which a further decision, a red line and a SELF submission do not
do. A change of the cycle's status or of its configuration does update the cycle row, and
what waits for it fails (`CycleRowStep`). `StageResult` and `PeerReview` use the same rules
for the configuration change. These rules are the database's and are taken from how it is
used.

What follows from them is in the properties. `ClosedUnlessReopened`: everybody in an archived
cycle is settled whose status did not change while the archive waited.
`ChainOnlyWhileRunning`, `LockFollowsChain` and `StatusFollowsVersion` except those who kept a
decision the rollback had not seen (`survived`), and only in one direction each.
`PromiseButForClosing` says what an employee is still promised: everything `EmployeeResult`
says, except that a cycle may close before the result of somebody in `reopened` was confirmed.
Run `archive_snapshot` shows that the archive does go past a blocker, against ADR 0055 and
the comment beside the lock.

## 4. Evaluation: stage results, peer reviews, scores

### SELF and MANAGER results

`StageResult` follows the stage results of one participant. Its question is which writer
stores a result computed from something that has been replaced since.

| Variable | Code |
|---|---|
| `config` | `currentConfigVersionId`; a stage result is a row per version |
| `rated` | the level of the SUBMITTED MANAGER sheet under that version |
| `redLine`, `stored` | a red line is in force; `stageLevel` of the MANAGER row of the current version |
| `self`, `selfRow` | the SELF sheet: none, a draft, or which answers were submitted last; the versions with a SELF row |
| `decision` | the first calibration decision, which locks the sheets |
| `view`, `submission`, `change` | what a `getManagerContext`, a `submitSelf`, a configuration change has read and not yet used |

`submitManager` and the red line handlers recalculate inside their own transaction and are
one action each. `getManagerContext`, `submitSelf` (whose configuration version is read
before the transaction) and `apply` of a configuration change (whose snapshot is older than
its lock) are a read and a write with anything in between. A configuration change fails if
a row it updates was updated since its snapshot: submitting the MANAGER sheet, resubmitting
a SELF sheet and deciding update such a row; confirming a red line and a first SELF
submission without a draft do not.

The properties say that these three writers are the only ones that can spoil a result, and
that `PreLevel`, which asks for red lines again when a decision is made, keeps a stale row
from getting past a red line. `CalibratedInputIsFrozen` is about a submission that races
the first decision: its first reads are outside the lock, and what is compared again under
the lock must keep it out. Two viewers and three versions: two overtaken views and two
changes in a row.

### Peer reviews

`PeerReview` follows one participant, any colleagues and any number of overlapping
requests.

| Variable | Code |
|---|---|
| `cycle`, `status` | ACTIVE, or DRAFT for the preparation; ACTIVE, WITHDRAWN, or LOCKED for a calibration and what follows it, or NO_RESULT |
| `leader`, `promoted` | `leaderOpenIdSnapshot`; history: the master data made somebody leader who had still to answer |
| `assignment` | `perf_review_assignments`; the row id is the position |
| `submission` | per reviewer, the assignment its one effective PEER sheet belongs to |
| `done` | `completedAt` of the PEER task |
| `result` | the stored PEER stage result of the current configuration version, as the set of submissions it was computed from |
| `lag` | history: why that may not be what counts today |
| `request` | what a saved list, a replacement, a transfer, a view or a configuration change has read |

A saved list, a replacement, a leader transfer, a view of the result and a change of the
configuration or the forms are a `Begin` and a `Commit`. What the commit checks again (row
lock, conditional updates, the partial unique index and the trigger on assignments) is in
the commit. `BatchAdd` and `SubmitPeer` check under the lock and are one action. `Abandon`
is a request that fails or is refused.

Results are kept by configuration version, and there are three ways to another version.
A change of the calculation in a running cycle, or of another form, recalculates the result
from the submissions in its snapshot; a change of the PEER form turns those into drafts and
reopens their assignments; `Reapply` of the published configuration in preparation does
neither. A submission that the snapshot has is updated by a resubmission, which fails the
change; a first submission only inserts and is missed, as is whatever a view, already under
way, would have stored under the version before. `ResultIsCurrent` names what is left of
these: an overtaken view, change or replacement (`"old read"`) and the time after a
reapplied configuration, in which there is no result (`"reapplied"`).

`OneRolePerPerson` holds for the requests; but a second start and a reapplied configuration
take the leader from the master data without a look at the assignments, and may make a
reviewer with a pending assignment the leader (`promoted`), until the next transfer or
refresh.

Bounds: three people, three assignment rows and two requests: the leader can become a
reviewer and the other way round, a replaced reviewer can be assigned again, and each
request can be overtaken by another request and by a submission. In preparation, and once
the participant is locked or has left, one request is open at a time
(`OneOutsideReview`). PEER drafts, the archive and the deletion of a participant in
preparation are left out; so is what a reapplied configuration with other dimensions does to
old submissions: recalculating then throws for every submission until all are replaced,
which is a `SubmitPeer` that does not happen.

### From answers to a level

`StageScore` is the unified calculator, called after each change of its inputs: the
average of each relation, weights normalised over the relations that answered, the
composite, the level of a score, the level constraints, the red line. Configured scores,
answered scores and weights have two decimals in the code and are counted in hundredths
(100 points or 100 % are `Hundred`). A calculated score is a whole number of `1/Unit` of a
hundredth; each quotient is rounded half up to that precision where the code rounds it
(there to 40 digits), and the stored composite to a hundredth. `PraiseNeverLowers` compares
a result with the one before: improving answers, and losing the reviewer who is the harshest
in every dimension, lower neither composite nor level. `LevelsAreEarned` says what each
result must be: a dimension on which everybody agrees has that level, whatever the weights,
and the final level is the worst of what composite, dimensions and red line allow
(`Ceilings`, written without the order in which the code applies its constraints).

Bounds: three reviewers of two relations with the default weights 20 and 35, the leader
with 100; one dimension answered by level and one by score; raw scores on both sides of
two interval ends (59, 79.99, 81, 100); mapping scores at an interval end and just below it
(80 and 79.99); `Unit = 10`. The proofs of both properties are for every scale and every `Unit`.

## 5. Cycle, participants and tasks

`CycleTasks` follows one cycle from its preparation to tasks that are open.

| Variable | Code |
|---|---|
| `now` | the clock of the schedule |
| `cycle` | `status`, `deletedAt`, `plannedStartAt`, start offset and notification switch of the schedule preset |
| `status`, `bound` | participant status; form snapshot, leader and department found |
| `task`, `sheet` | `perf_evaluation_tasks` of one human stage (`startAt`, `openedAt`, `completedAt`) and its answers |
| `told` | TASK_OPENED events, by participant and `openedAt` |
| `reading` | due tasks an opener has read and not yet updated |
| `removing`, `deleting` | a remove or delete request that has checked the cycle status |
| `failure` | what an activation attempt has still to report, and that it was reported |

| Actions | Handlers |
|---|---|
| `ReadDueTasks`, `ReadTask`, `OpenTasks`, `LoseTransaction` | `openDueTasks` of the scheduler; `ensureTaskOpened` of a page; a transaction that fails |
| `Activate`, `FailToActivate`, `ReportFailure`, `LoseReport` | the scheduled start, its checks and its failure report |
| `Schedule`, `ReturnToDraft`, `UpdateCycle`, `UpdatePlan`, `ReapplyPublishedConfig` | `cycle.service.ts`, `cycle-setup.service.ts` |
| `Rollback`, `CheckDelete`, `DeleteCycle` | back to preparation; deletion, whose check is outside its transaction |
| `Add`, `CheckRemove`, `Remove`, `Close`, `RevokeNoResult`, `Calibrate` | `participant/`, and the first calibration |
| `Write`, `ChangeForms` | a draft or a submission; a structural change of the forms |

A handler that locks the cycle row is one action. The openers do not: they read what is
due and update it row by row under a condition, so their read may be of any age. Whether
CoreHR knows a job level, a leader and a department is a choice (`found`).

Bounds: two participants, one scheduler and one page that overlap, batches of one task (so
that the second due task depends on the first being taken away), two planned starts, two
offsets, three minutes, one change of plan, forms or cycle back to preparation
(`MaxEdits`). The run for liveness fixes start and offset and has two minutes; it still has
failed starts, lost transactions, a rollback and a second start.

Fairness (`cycle_due` only): `runScheduler` is a cron of every minute, so reading due
tasks (`WF`) and trying a start that is due (`WF` of `Activate` or `FailToActivate`) happen again
and again; a transaction that is tried again and again is not lost every time (`SF` of
`OpenTasks`, one scheduler at a time; `SF` of `ReportFailure`). No page has to be shown and nobody has to
write, remove or repair anything. A start that fails is reported, not retried into
success: `StartIsSettled` asks for a start, for no longer being due, or for a report.

## 6. AI reports

`AiReport` is the life of one `perf_ai_reports` row. `Worker`s are running instances of the
processor; `Request`s are manual calls, made once each. Every statement that writes the row
is an action: `Refreshed` (within a submission, or after `requestGeneration` has checked
the cycle), `FindReport` and `ClaimReport` (`claimNext`), `Complete`, `Fail`,
`RecoverTimedOut`, `BeginRetry` and `FinishRetry` (`retry`). `overdue` and `available`
stand for the comparison of `started_at` and `available_at` with the clock. The hash of
the human input is a counter, because the hashed content holds timestamps and does not
return to an earlier value. The stored answer is the revision it was generated from.

Bounds: two instances, two requests, two attempts and two inputs let each answer be
overtaken by a timeout, a retry and a new input.

Fairness (`QueuedIsSettled` only): the processor is a cron job of every 30 seconds in
every instance, every call to the gateway has a timeout and ends, and clocks go on. The
crons take a report again and again, so weak fairness of a worker's step, of the recovery
and of time is what the code gives. The generator is assumed to be enabled. Nobody has to
submit, retry or crash. An instance may crash in every generation: attempts are counted
when they start, so they run out. A stop *between* the two statements of a claim writes
nothing and is left out, since one that repeated for ever would be a broken instance.

## 7. Notifications

`NotificationDelivery` follows one event from the outbox to its receiver. The batches of
`processPendingEvents` (`Consumer`) and `sendPendingBatch` (`Sender`) are started by crons
in every instance, behind a Redis key of 55 seconds. A key may expire while its batch is
still under way, so that batches overlap.
The two keys differ: `FinishConsuming` deletes only its own, `FinishSending` whichever is
there. Every read and every write of a batch is an action of its own; the outcome is
written by row id, from what was read before. The rows are those of one event: `Insert` and
`CompleteEvent` are the two halves of a transaction whose insert the unique
`sourceEventId` guards (`IndexFree`), against committed rows and against the insert of an
overlapping batch.

Lark is modelled by how it is called. A call delivers the message or is refused with a code
in its answer (`Send`), throws (`SendFails`), or delivers and loses the answer
(`AnswerLost`). `sendOne` takes every call that returns for a success and looks at no
code, while the calendar adapter (`lark-interview-calendar.adapter.ts:51`) and the OKR
synchronisation (`okr-sync.service.ts:411`) treat a code other than 0 as a failure. So
`SuccessWasDelivered` can say only that a call returned with an answer: the receiver has the
message, or Lark refused it.

`OneMessagePerEvent` is the other half: a second message needs a loss that explains it
(`mayRepeat`): the key of a batch at work, the answer of a call, an instance that stopped
between call and record, or a resend of what had been delivered.

Bounds: two batches of either kind, two attempts and two retries instead of three, two ids
of rows; one crash or manual resend (`MaxIncidents`). Overlap, a late outcome over a newer
one, and a batch that dies with the key in its hands all occur.

Fairness: both crons run every minute in some instance (it is not assumed which), calls end
or throw, keys expire, back-offs end. `sendEnabled` is on; with it off, notifications
stay PENDING by intent.

## 8. Interviews, templates, OKR rows

**`Interview`**: the interviews of one participant and, as external state, their Lark
events. `CallSchedule`, `CallReschedule`, `CallCancel` check and call Lark; `Commit..`
stores; `CallLost` is everything that ends the request in between. `BeginComplete` reads,
`CommitComplete` writes by id. `PublishOrRetract`, `AppealChanges` and `ArchiveCycle` are
what other handlers do meanwhile. Two events, two requests and two slots let every pair of
requests cross on one row. `crossed` and `lost` are history; they name exactly what
`CalendarAgrees` excepts.

**`Templates`**: form templates with their versions, and the versions of a configuration
template that bind them. The job level (`prefix`) belongs to the version: several templates
may serve one level, and an edit of a draft may change it. Numbers are counted per template,
which goes by the id of its first version. `BeginFormEdit`/`CommitFormEdit` (content and job
level) and `NumberFormCopy`/`InsertFormCopy` are a read and a write with anything in between;
`CreateForm`, `PublishForm`, `ArchiveForm`, `BindForms`, `PublishConfig`, `ArchiveConfig`,
`CopyConfig` lock their version, or have all they looked at checked again by a database
trigger. `TemplatesInit` is the seeded state: one published form of each job level and a
configuration without forms. Four form versions, two configurations and two requests, five
versions in all (`FewVersions`), are enough for two copies at once, a draft moved to the
other level while it is published, and a binding archived before its configuration is
published.

**`OkrSync`**: the OKR rows of one employee under a full run and runs from a page. A lock
per kind of run has a time to live and no owner (`ExpireLock`; `EndRun` frees whichever is
there); `CleanUp` removes what was not written since the run began (`written` stands for
`synced_at >= syncStartedAt`). `LarkChanges` changes the source at any time, `CrashRuns`
ends the process. One objective is enough, because the rows do not depend on each other in
any action but through the sets of a run, and the proofs are for any number; three runs
of two kinds are needed for a run that deletes the lock of a later run of its own kind
while a run of the other kind is under way.

The four services, with `StageScore`, are explored by one run: a behaviour of
`MCServices` is one of a single service, the others stand still (`Parts` names those a run
explores). They share no state, so nothing is lost by that.

## 9. Runs

| Run | Question |
|---|---|
| `chain` | one participant, every handler in every order, archive and rollback on old snapshots: do status, lock, decisions, versions, appeals and events agree, is a decision only made on what its page showed, has nobody without a result one, and does the chain implement `EmployeeResult` but for the closing? |
| `chain_pair` | two participants: is everybody in an archived cycle settled who did not move behind the archive's snapshot? |
| `stage_result` | which writers let a stage result fall behind its inputs? Only the overtaken ones. Are the sheets frozen once a decision is made? |
| `peer_review` | do assignments, submissions, task and result agree, whatever list or change was computed from whatever old read or snapshot? |
| `cycle_tasks` | is every task there, opened once, announced once, and never opened for somebody who left? |
| `cycle_due` | is every due task opened and every due start settled? |
| `ai_report` | is the stored answer that of the current input, is it kept, and is what is queued settled? |
| `notification` | is SUCCESS the answer of a call, does a second message always have a reason, is everything settled? |
| `services` | do calendar, templates, OKR rows and levels stay right under overlap, loss and crashes, and at the boundaries? |
| `open_appeal` | refuted: an open appeal can always be resolved |
| `archive_snapshot` | refuted: everybody in an archived cycle is settled |
| `okr_access` | refuted: rows are only removed if the source no longer has them |

The three refuted runs each check one sentence of a document or comment; the sentence and
what the run shows are in `PROJECT.json` under `findings`. The type invariants
(`TypeOK`, `InterviewTypeOK`, `OkrTypeOK`, `TemplatesTypeOK`) and a few invariants that
the proofs need anyway are proved and in no run. The system may stop (an archived cycle
accepts nothing; a settled report stays), so no run checks deadlock.

### Behaviour seen while modelling

What follows was met while the code was translated. It is part of the models, or was left
out with them where the text says so; no run of its own records it.

*Result chain.* `publishCycle` takes a recalibrated CONFIRMED participant back to
RESULT_PUBLISHED, although `participant-state.ts` lists no successor of CONFIRMED. The
archive never compares the confirmed version with the latest calibration
(`cycle-archive.service.ts:224`; `CONTEXT.md:192` says which level is archived). Its
blockers are recomputed on a snapshot older than the lock it waits for
(`cycle-archive.service.ts:88`; run `archive_snapshot`). A decision committed
while a rollback waits for the cycle row survives it: its participant is unlocked in a cycle
back in preparation, and keeps a decision in force.

*Evaluation.* A `getManagerContext` that was overtaken stores the level of the sheet
before, which Keep then takes (`manager-evaluation-submission.service.ts:182`, ADR 0014).
A SELF submission overtaken by a configuration change leaves its result under the old
version. A form change reopens the tasks of withdrawn participants
(`cycle-form-change.service.ts:500` against `participant.service.ts:592`).

*Assignments.* `lockHumanWrite` requires an ACTIVE cycle, so reviewer lists cannot be
saved before the start, against the comment at `reviewer.service.ts:334`. `batchAdd` leaves a complete
PEER task complete. Removing or transferring the last pending assignment never completes
the task. When the new leader of a changed form still has a SUBMITTED assignment, the
form change ends in the exception of the trigger. A second start and a reapplied
configuration rewrite `leaderOpenIdSnapshot` from the master data
(`cycle-activation.service.ts:151`, `cycle-setup.service.ts:348`) and leave a pending
assignment of the new leader, which the transfer would have replaced.

*Cycle.* `updateCycle` moves the start of a running cycle without moving its tasks
(`cycle.service.ts:99`). The scan that enqueues reminders asks for no participant status
(`notification-event.service.ts:528`).

*AI reports.* `claimNext` asks for no cycle status: a report found before an archive is
claimed after it and stays GENERATING (`ai-report.service.ts:113`), and a manual request
begun before the archive writes after it. A manual retry can reset a report claimed since
it was checked.

*Notifications.* A message that Lark refuses in its answer is stored as SUCCESS
(`notification.service.ts:200`; `schema.prisma:522` calls SUCCESS sent). A message may be sent twice
(`notification.service.ts:181`, against the comment at line 97). A late `recordFailure` puts a COMPLETED event back to RETRYING,
harmless because of the unique `sourceEventId`.

*Services.* Completing and cancelling an interview at once leaves whichever commits last
(`interview.service.ts:255`); a change whose call began before the archive is stored after it
(`:451`); a stop after `cancelEvent` leaves a SCHEDULED interview without an event. The
status key of an OKR run says "running" after a crash. A form can be copied from a source
archived meanwhile.

*Rounding.* The level is taken from quotients rounded to 40 digits. With weights 20 and 40,
seven reviewers at 79, 79, 79, 79, 78, 78, 78 and seven at 81 (five) and 80 (two), the exact
composite is 80, the computed one just below it, and the level B instead of A; the comment
at `stage-result-calculator.ts:119` says that only the final composite is rounded.

## 10. Proofs

TLAPS proves what follows for every value of the constants (participants, people,
instances, requests, batches, rows, levels, bounds), from the `ASSUME`s of the modules only. Temporal
theorems have the form `Spec => []P` or `Spec => [][A]_vars`. Each rests on an inductive
invariant; the paragraphs say what it adds to the properties and why.

**`ResultChainProofs`**, `ResultInv == TypeOK /\ NumberInv /\ ChainInv /\ Waiting`. All of
it is about `ResultChainSnapshots`, so about archives and rollbacks on snapshots of any age:

- `TypeCorrect`: types, one lemma per action.
- `NumbersCorrect`, `CurrentVersionUnique`: `NumbersContinue` is not inductive: a
  publication numbers from the current version if there is one and from the last row
  otherwise. `CurrentIsLast` (part of `NumberInv`) says that a version in force is the last
  row, so both give the next position. `VersionSteps` says in how many ways a step can
  change the version rows (not at all, confirm the current one, append, invalidate all);
  the steps of the invariant are proved by these four cases.
- `LockCorrect`, `StatusCorrect`: the status, the lock, the decisions in force and the
  version in force agree, but for a decision a rollback had not seen. Neither is inductive
  without the other; `ChainOK(p)` is their conjunction. `Waiting` says that an archive or a
  rollback waits only in a running cycle.
- `ArchiveFinal`: no action changes a row of the chain of an archived cycle, and a waiting
  rollback does not commit in one.
- `ClosedCorrect`, by `ClosedInv`: while an archive waits, everybody is settled who is not in
  `reopened`, and so is everybody in an archived cycle.
- `PreparationIsClean`, by `NothingInForce`: a cycle in preparation carries nothing of a chain
  but decisions a rollback overlooked.
- `NoResultCorrect`: nobody with NO_RESULT has a SELF sheet or a decision in force.

**`ResultChainHistoryProofs`**, on top of it. `RowSteps` names the handlers that write a row
of the chain.

- `DecisionInformed`, by `PageInv`: a page is never ahead of the input, and one that
  names the current input shows the level of that input; so the comparison `decide` makes
  is enough.
- `HistoryGrows`: row by row, over `VersionSteps` and the ways appeals change.
- `SourcesCorrect`, by `SourceInv` and `SeenInv`: versions name decisions that exist, and a
  waiting rollback has seen the decision of every version there is. This is what the
  conditional lock is for: a publication of a later decision updates the participant row and
  makes the rollback fail. Hence a rollback that commits takes the decision of every version
  with it.
- `AppealingBound`, `AdjustedByDecision`, by `AppealInv`: an appeal while APPEALING is on
  the current version, which only a resolution, a rollback or a publication takes away.
- `EventsCorrect`, by `EventInv`: `EventsMatchRows` row by row.
- `PromiseKept`: `ResultChainSnapshots` implements `EmployeeResult`, but for the closing. The
  mapping takes the current version as the result shown and the number of rows as the
  count; every step is shown to be one of the abstract ones, to leave the mapped state alone,
  or to close the cycle while only results of people in `reopened` are unconfirmed.

**`StageResultProofs`**: `OnlyOvertakenLevel` and `OnlyOvertakenSelf`, case by case over the
writers, and `SheetsFrozen`. The types are all the invariant they need.

**`PeerReviewProofs`**, `PeerInv`: beside the types and the three invariants themselves,
what a view or a change has read are rows that exist (`ReadsOfRows`), and a submission
belongs to a row of its own reviewer (`SubmissionsOwned`). `SubmittedBacked`, `OneRole` and
`ResultCurrent` are its parts; `EffectiveKept` and `DoneHonest` follow step by step.

**`CycleTasksProofs`**, `TasksInv`: an opener holds a time of the clock (`ReadAtTime`), and
a row without a task carries nothing while one that may still be worked on is not complete
before it was opened (`TaskShape`). `OpeningsMatch`, `RunningComplete`, `OpenedFinal`,
`ClosedStaysClosed`.

**`AiReportProofs`**, `QueueInv`: `OutputCorrect` and `RunCorrect` need `RevisionInv` (a
report that exists has a revision not ahead of the input) and `MemoryInv` (a worker found
a claimable status, a retry found a report). `SuccessKept` is the action property that no
late answer discards a stored one. `AttemptsCorrect` counts:
the attempts and the workers that may still claim what they found stay together within
the bound (`HoldersBounded`).

**`NotificationDeliveryProofs`**, `DeliveryInv`: `DeliveryTypes`, `CountersCorrect` and
`SuccessCorrect` need `ConsumerMemory` and `SenderMemory`: a batch goes on only with a
counter below its limit, and a batch about to write SUCCESS has had an answer. `OneMessage`
needs `RowInv` (the index leaves one row, committed or about to be) and `OnceInv` (as long as
nothing was lost, one batch of senders is at work under its key, and what was delivered is
recorded or about to be recorded by it).

**`ServicesProofs`**:

- `OkrInv`: of two runs under way, the later one has written all that the earlier one may
  rely on, or has seen no more of the source (`LaterKnowsMore`); what a run asked for and
  was there all the time is written or was refused (`AskedIsWritten`). From it
  `RemovedGone`, `SuccessExact`, `LocksSerialised`.
- `InterviewInv`: on a row nobody fought over, the calendar is exactly one request ahead
  of the row (`OneRequestAhead`), and no two rows or requests share an event. From it
  `CalendarAgreed`, `CancelledGone`.
- `TemplatesInv`: a published form was validated, and numbers of a
  template have no gaps and requests hold numbers that were next once, so that such a number
  is taken or still the next. From it
  `NumbersOrdered`, `ConfigsWhole`, `PublishedFrozen`, `NewDraftsPublished`.
- `LevelsEarned` states `LevelsAreEarned` for every configuration and set of reviewers the
  configuration checks accept: averages and weighted quotients of scores that lie in one
  interval stay in it, rounding included, and the three constraints with the red line give the
  worst of what applies (`ConstrainedLevel`).
- `BetterIsNotLower` states `PraiseNeverLowers` for every form, scale, set of weights and
  set of reviewers the configuration checks accept. A sum over a set is a recursive
  function on its subsets, and the induction theorems cannot be used here, so the module
  has its own: a family of subsets that is not everything lacks a least one
  (`LeastSubset`, `SubsetInduction`), hence the sum exists, is unique and does not depend on
  the order (`SumsExist`, `SumsUnique`, `SumInsert`). On that rest: an average without its
  lowest member is not lower (`WithoutTheLowest`, `AverageNotLower`); a quotient rounded half
  up follows the exact quotient, compared by cross-multiplication (`HalfUpMonotone`);
  every score stays within the scale (`AverageBounds`, `RelationScoreBounds`), so that
  there is a level for it (`LevelOfScore`), and levels and constraints are monotone
  (`LevelMonotone`, `ConstrainedMonotone`). `ScoreInv` says that the stored result is the
  one of the stored answers.

Model-checked only: the four liveness properties `DueIsOpened`, `StartIsSettled`,
`QueuedIsSettled` and `EventIsSettled`, because liveness under fairness is out of the
prover's reach. Every other property of a passing run is proved. The other way round,
`OneCurrentVersion` is proved and in no run (`PromiseButForClosing` fails whenever it does),
and so are `HistoryOnlyGrows` and `ArchiveIsFinal`.

## 11. Not modelled

- *Within modelled components*: the handler assignment of an appeal and the batch
  confirmation, which is a sequence of Keep decisions; the projections for pages; PEER
  and MANAGER drafts, which nobody else reads; the preview of a configuration change and
  the mapping of old answers to new fields; `linkAppeal` and `updateNotes` of interviews;
  the scan that enqueues reminders and reminders sent by hand; the contents of the start
  checks and of the publication validators, which are one condition each.
- *Contact synchronisation*: upserts under the same kind of lock as the OKR runs; nothing
  is removed and no run depends on another.
- *Authentication, roles, audit*: an action stands for a caller who may call it; the
  audit log is written after the transaction and read by nobody.
- *Legacy migration and cutover*: one-time checks and a read-only archive.
- *Web front end*: about half of the code. It renders, calls the API
  and keeps no protocol of its own: no autosave, no queue, no state that outlives a page.
  What it sends back (revisions, version ids, row ids, however old) is an input of the
  modelled handlers. The share of the whole repository that is modelled is therefore
  small; the services with rules and concurrency are covered.
