---------------------------- MODULE ResultChain ----------------------------
(***************************************************************************)
(* The result chain of one performance cycle: calibration decisions, red   *)
(* lines, employee result versions, confirmations, appeals.                *)
(*                                                                         *)
(* Every handler below is one PostgreSQL transaction at READ COMMITTED     *)
(* that first takes SELECT .. FOR UPDATE on the cycle row, so the handlers *)
(* of a cycle are serialised and each is one action.  What is NOT          *)
(* serialised is what a handler is given from outside the transaction, and *)
(* that is modelled as state: the calibration page an operator has open,   *)
(* and the candidate list publishCycle read before its per-participant     *)
(* transactions.  Archive and rollback run on snapshots of their own:      *)
(* ResultChainSnapshots adds them and is the specification.                *)
(*                                                                         *)
(* Permissions, wording and the audit records written after each           *)
(* transaction are left out.                                               *)
(***************************************************************************)
EXTENDS ResultChainState

-----------------------------------------------------------------------------
(* Plausible mistakes, each the wrong form of one definition below.  The    *)
(* specification does not use them: putting one in place of its definition  *)
(* breaks the property PROJECT.json pairs it with.                          *)

\* The previous version is left in force.
SupersedeNothing(p) == versions[p]

\* Every decision sends the participant back to CALIBRATED.
AlwaysCalibrated(p) == "CALIBRATED"

\* The status of the participant is forgotten: a submission only asks for the lock.
WriteUnlessLocked(p) == cycle = "ACTIVE" /\ ~locked[p]

\* An appeal is accepted on a version the employee saw earlier.
AnyUnconfirmedVersion(p, v) == versions[p][v].valid /\ ~versions[p][v].confirmed

\* An appeal may be resolved on the decision the version came from.
AnyDecision(p, v, d) == TRUE

\* Calibration is not refused outside a running cycle.
CalibrateInAnyCycle(p) ==
    /\ status[p] \notin {"NO_RESULT", "WITHDRAWN", "RE_CONFIRMING"}
    /\ status[p] = "APPEALING" => OpenAppeals(p) # {}

\* The decision token is compared, the input token is not.
DecisionIsFresh(p) == page[p].decision = LatestDecision(p)

-----------------------------------------------------------------------------
(* Result versions.                                                         *)

\* The level that decision d gives the employee.
FinalLevel(p, d) == IF redLines[p] > 0 THEN C ELSE decisions[p][d].level

\* version = (current ?? latest historical ?? 0) + 1; invalidated rows count.
NextNumbers(p) ==
    LET base == IF CurrentVersion(p) # {} THEN CurrentVersion(p) ELSE LastVersion(p)
    IN  IF base = {} THEN {1} ELSE {versions[p][v].number + 1 : v \in base}

Supersede(p) ==
    [v \in DOMAIN versions[p] |->
        [versions[p][v] EXCEPT !.superseded = @ \/ v \in CurrentVersion(p)]]

\* The current version is superseded and a new one appended and announced.
PublishVersion(p, n, l, d) ==
    /\ Len(versions[p]) < MaxVersions
    /\ versions' = [versions EXCEPT ![p] = Append(Supersede(p), NewVersion(n, l, d))]
    /\ outbox' = outbox \cup {<<"RESULT_PUBLISHED", p, Len(versions[p]) + 1>>}

-----------------------------------------------------------------------------
(* Evaluation input.                                                        *)

\* What recalculating the MANAGER stage finds: nothing without a sheet, the level
\* stored before, or any level when the configuration was replaced since.
RecalculatedLevel(p) ==
    IF "MANAGER" \notin submitted[p] THEN {NoLevel}
    ELSE IF stageLevel[p] # NoLevel THEN {stageLevel[p]}
    ELSE Level

Recalculate(p) ==
    \E l \in RecalculatedLevel(p) : stageLevel' = [stageLevel EXCEPT ![p] = l]

\* lockHumanWrite: the cycle runs and the participant is neither locked nor closed.
HumanWriteAllowed(p) ==
    cycle = "ACTIVE" /\ ~locked[p] /\ status[p] = "ACTIVE"

SubmitSelf(p) ==
    /\ HumanWriteAllowed(p)
    /\ InputChanged(p)
    /\ submitted' = [submitted EXCEPT ![p] = @ \cup {"SELF"}]
    /\ UNCHANGED <<cycle, stageLevel, redLines, chainVars, page, batch>>

SubmitManager(p, l) ==
    /\ HumanWriteAllowed(p)
    /\ InputChanged(p)
    /\ submitted' = [submitted EXCEPT ![p] = @ \cup {"MANAGER"}]
    /\ stageLevel' = [stageLevel EXCEPT ![p] = l]
    /\ UNCHANGED <<cycle, redLines, chainVars, page, batch>>

\* HR may confirm and revoke red lines in any participant status.
ConfirmRedLine(p) ==
    /\ cycle = "ACTIVE"
    /\ redLines[p] < MaxRedLines
    /\ InputChanged(p)
    /\ redLines' = [redLines EXCEPT ![p] = @ + 1]
    /\ Recalculate(p)
    /\ UNCHANGED <<cycle, submitted, chainVars, page, batch>>

RevokeRedLine(p) ==
    /\ cycle = "ACTIVE"
    /\ redLines[p] > 0
    /\ InputChanged(p)
    /\ redLines' = [redLines EXCEPT ![p] = @ - 1]
    /\ Recalculate(p)
    /\ UNCHANGED <<cycle, submitted, chainVars, page, batch>>

\* getManagerContext recalculates and stores the stage results whenever the leader
\* opens the sheet, whatever the cycle and the participant are in.
ViewManagerContext(p) ==
    /\ "MANAGER" \in submitted[p]
    /\ InputChanged(p)
    /\ Recalculate(p)
    /\ UNCHANGED <<cycle, submitted, redLines, chainVars, page, batch>>

\* apply: in a running cycle a configuration change recalculates the stages of all
\* participants, calibrated or not.
ChangeConfiguration ==
    /\ cycle = "ACTIVE"
    /\ EveryInputChanged
    /\ stageLevel' \in [Participant -> Level \cup {NoLevel}]
    /\ \A p \in Participant : stageLevel'[p] = NoLevel <=> "MANAGER" \notin submitted[p]
    /\ UNCHANGED <<cycle, submitted, redLines, chainVars, page, batch>>

\* reapplyPublishedConfig: another configuration version, and nothing recalculated.
ReapplyConfiguration ==
    /\ cycle \in {"DRAFT", "SCHEDULED"}
    /\ EveryInputChanged
    /\ stageLevel' = [p \in Participant |-> NoLevel]
    /\ UNCHANGED <<cycle, submitted, redLines, chainVars, page, batch>>

\* A structural form change in a draft cycle sends the sheets of the changed stages
\* back to draft and recalculates the others.
ChangeForms(stages) ==
    /\ cycle = "DRAFT"
    /\ EveryInputChanged
    /\ submitted' = [p \in Participant |-> submitted[p] \ stages]
    /\ stageLevel' \in [Participant -> Level \cup {NoLevel}]
    /\ \A p \in Participant :
          stageLevel'[p] \in IF "MANAGER" \in stages THEN {NoLevel} ELSE RecalculatedLevel(p)
    /\ UNCHANGED <<cycle, redLines, chainVars, page, batch>>

-----------------------------------------------------------------------------
(* Calibration.                                                             *)

\* getContext: what the workbench shows and sends back with the decision.
OpenPage(p) ==
    /\ stageLevel[p] # NoLevel
    /\ page' = [page EXCEPT ![p] = [decision |-> LatestDecision(p),
                                    revision |-> revision[p],
                                    level    |-> PreLevel(p)]]
    /\ UNCHANGED <<cycle, inputVars, chainVars, batch>>

CycleAllowsCalibration(p) ==
    /\ cycle = "ACTIVE"
    /\ status[p] \notin {"NO_RESULT", "WITHDRAWN", "RE_CONFIRMING"}
    /\ status[p] = "APPEALING" => OpenAppeals(p) # {}

\* expectedCalibrationRevision and expectedInputRevision are those of the page.
PageIsFresh(p) ==
    /\ page[p].decision = LatestDecision(p)
    /\ page[p].revision = revision[p]

\* The first decision of a round makes the participant CALIBRATED.
DecidedStatus(p) == IF locked[p] THEN status[p] ELSE "CALIBRATED"

Decide(p, l) ==
    /\ CycleAllowsCalibration(p)
    /\ submitted[p] = Stage
    /\ stageLevel[p] # NoLevel
    /\ PageIsFresh(p)
    /\ Len(decisions[p]) < MaxDecisions
    /\ decisions' = [decisions EXCEPT ![p] = Append(@, [level |-> l, valid |-> TRUE])]
    /\ locked' = [locked EXCEPT ![p] = TRUE]
    /\ status' = [status EXCEPT ![p] = DecidedStatus(p)]
    /\ UNCHANGED <<cycle, inputVars, versions, appeals, outbox, page, batch>>

Keep(p) == Decide(p, PreLevel(p))

Adjust(p, l) ==
    /\ redLines[p] > 0 => l = C
    /\ l # PreLevel(p)
    /\ Decide(p, l)

-----------------------------------------------------------------------------
(* publishCycle: the candidates are read outside any transaction, then each *)
(* is published in a transaction of its own, which does not look at the     *)
(* participant's status again.                                              *)

Publishable(p) ==
    /\ status[p] \in {"CALIBRATED", "RESULT_PUBLISHED", "CONFIRMED"}
    /\ ValidDecisions(p) # {}

StartPublish ==
    /\ batch = {}
    /\ \E ps \in SUBSET {p \in Participant : Publishable(p)} :
          ps # {} /\ batch' = ps
    /\ UNCHANGED <<cycle, inputVars, chainVars, page>>

LevelChanged(p, d) ==
    \A v \in CurrentVersion(p) : versions[p][v].level # FinalLevel(p, d)

\* An employee-visible level change appends a version and reopens confirmation.
PublishChanged(p) ==
    /\ p \in batch
    /\ cycle = "ACTIVE"
    /\ \E d \in LatestDecision(p), n \in NextNumbers(p) :
          /\ LevelChanged(p, d)
          /\ PublishVersion(p, n, FinalLevel(p, d), d)
    /\ status' = [status EXCEPT ![p] = "RESULT_PUBLISHED"]
    /\ batch' = batch \ {p}
    /\ UNCHANGED <<cycle, inputVars, locked, decisions, appeals, page>>

\* The same level: nothing is written.
PublishUnchanged(p) ==
    /\ p \in batch
    /\ cycle = "ACTIVE"
    /\ \E d \in LatestDecision(p), v \in CurrentVersion(p) :
          versions[p][v].level = FinalLevel(p, d)
    /\ batch' = batch \ {p}
    /\ UNCHANGED <<cycle, inputVars, chainVars, page>>

\* An exception or a crash ends the loop; what was published stays published.
PublishAborted ==
    /\ batch # {}
    /\ batch' = {}
    /\ UNCHANGED <<cycle, inputVars, chainVars, page>>

-----------------------------------------------------------------------------
(* The employee: confirmation and appeal, for the version on their screen.  *)

Confirm(p, v) ==
    /\ cycle = "ACTIVE"
    /\ status[p] \in {"RESULT_PUBLISHED", "RE_CONFIRMING"}
    /\ v \in CurrentVersion(p)
    /\ ~versions[p][v].confirmed
    /\ versions' = [versions EXCEPT ![p][v].confirmed = TRUE]
    /\ status' = [status EXCEPT ![p] = "CONFIRMED"]
    /\ UNCHANGED <<cycle, inputVars, locked, decisions, appeals, outbox, page, batch>>

\* The appeal of this round has been used, whatever became of it.
AppealUsed(p) == ValidAppeals(p) # {}

Appealable(p, v) == v \in CurrentVersion(p) /\ ~versions[p][v].confirmed

CreateAppeal(p, v) ==
    /\ cycle # "ARCHIVED"
    /\ ~AppealUsed(p)
    /\ status[p] = "RESULT_PUBLISHED"
    /\ Appealable(p, v)
    /\ appeals' = [appeals EXCEPT ![p] =
          Append(@, [version |-> v, resolved |-> FALSE, adjusted |-> FALSE,
                     basis |-> 0, valid |-> TRUE])]
    /\ status' = [status EXCEPT ![p] = "APPEALING"]
    /\ outbox' = outbox \cup {<<"APPEAL_CREATED", p, Len(appeals[p]) + 1>>}
    /\ UNCHANGED <<cycle, inputVars, locked, decisions, versions, page, batch>>

\* The handler resolves on the decision its page shows (expectedCalibrationRevision)
\* and only while the appealed version is still the current one.
ResolvableOn(p, a, d) ==
    /\ cycle = "ACTIVE"
    /\ status[p] = "APPEALING"
    /\ a \in OpenAppeals(p)
    /\ d \in LatestDecision(p)
    /\ d \in page[p].decision
    /\ appeals[p][a].version \in CurrentVersion(p)

CloseAppeal(p, a, d, changed) ==
    appeals' = [appeals EXCEPT ![p][a].resolved = TRUE,
                               ![p][a].adjusted = changed,
                               ![p][a].basis    = d]

\* Same level: the original version goes back to its confirmation entry.
ResolveMaintained(p, a) ==
    /\ \E d \in LatestDecision(p) :
          /\ ResolvableOn(p, a, d)
          /\ versions[p][appeals[p][a].version].level = FinalLevel(p, d)
          /\ CloseAppeal(p, a, d, FALSE)
    /\ status' = [status EXCEPT ![p] = "RESULT_PUBLISHED"]
    /\ outbox' = outbox \cup {<<"APPEAL_RESOLVED_MAINTAINED", p, a>>}
    /\ UNCHANGED <<cycle, inputVars, locked, decisions, versions, page, batch>>

IsNewDecision(p, v, d) == versions[p][v].source # d

\* Another level: only on a decision other than the one the appealed version
\* came from; a new version is published and awaits reconfirmation.
ResolveAdjusted(p, a) ==
    /\ \E d \in LatestDecision(p) :
          LET v == appeals[p][a].version IN
          /\ ResolvableOn(p, a, d)
          /\ versions[p][v].level # FinalLevel(p, d)
          /\ IsNewDecision(p, v, d)
          /\ PublishVersion(p, versions[p][v].number + 1, FinalLevel(p, d), d)
          /\ CloseAppeal(p, a, d, TRUE)
    /\ status' = [status EXCEPT ![p] = "RE_CONFIRMING"]
    /\ UNCHANGED <<cycle, inputVars, locked, decisions, page, batch>>

-----------------------------------------------------------------------------
(* Participants that leave the result chain.                                *)

MarkNoResult(p) ==
    /\ cycle = "ACTIVE"
    /\ status[p] \notin {"NO_RESULT", "WITHDRAWN"}
    /\ "SELF" \notin submitted[p]
    /\ \A v \in DOMAIN versions[p] : ~versions[p][v].valid
    /\ ValidDecisions(p) = {}
    /\ status' = [status EXCEPT ![p] = "NO_RESULT"]
    /\ UNCHANGED <<cycle, inputVars, locked, decisions, versions, appeals,
                   outbox, page, batch>>

\* Allowed in every cycle status but ARCHIVED.
RevokeNoResult(p) ==
    /\ cycle # "ARCHIVED"
    /\ status[p] = "NO_RESULT"
    /\ status' = [status EXCEPT ![p] = "ACTIVE"]
    /\ UNCHANGED <<cycle, inputVars, locked, decisions, versions, appeals,
                   outbox, page, batch>>

Withdraw(p) ==
    /\ cycle = "ACTIVE"
    /\ status[p] = "ACTIVE"
    /\ status' = [status EXCEPT ![p] = "WITHDRAWN"]
    /\ UNCHANGED <<cycle, inputVars, locked, decisions, versions, appeals,
                   outbox, page, batch>>

-----------------------------------------------------------------------------
(* The cycle.                                                               *)

Schedule ==
    /\ cycle = "DRAFT"
    /\ cycle' = "SCHEDULED"
    /\ UNCHANGED <<inputVars, chainVars, page, batch>>

ReturnToDraft ==
    /\ cycle = "SCHEDULED"
    /\ cycle' = "DRAFT"
    /\ UNCHANGED <<inputVars, chainVars, page, batch>>

Activate ==
    /\ cycle = "SCHEDULED"
    /\ cycle' = "ACTIVE"
    /\ UNCHANGED <<inputVars, chainVars, page, batch>>

-----------------------------------------------------------------------------

RowsInit ==
    /\ cycle = "DRAFT"
    /\ status = [p \in Participant |-> "ACTIVE"]
    /\ locked = [p \in Participant |-> FALSE]
    /\ submitted = [p \in Participant |-> {}]
    /\ stageLevel = [p \in Participant |-> NoLevel]
    /\ revision = [p \in Participant |-> 0]
    /\ redLines = [p \in Participant |-> 0]
    /\ decisions = [p \in Participant |-> <<>>]
    /\ versions = [p \in Participant |-> <<>>]
    /\ appeals = [p \in Participant |-> <<>>]
    /\ outbox = {}
    /\ page = [p \in Participant |-> [decision |-> {}, revision |-> 0, level |-> C]]
    /\ batch = {}

InputStep(p) ==
    \/ SubmitSelf(p)
    \/ \E l \in Level : SubmitManager(p, l)
    \/ ConfirmRedLine(p)
    \/ RevokeRedLine(p)
    \/ ViewManagerContext(p)

CalibrationStep(p) ==
    \/ OpenPage(p)
    \/ Keep(p)
    \/ \E l \in Level : Adjust(p, l)

PublishStep(p) == PublishChanged(p) \/ PublishUnchanged(p)

EmployeeStep(p) ==
    \E v \in DOMAIN versions[p] : Confirm(p, v) \/ CreateAppeal(p, v)

AppealStep(p) ==
    \E a \in DOMAIN appeals[p] : ResolveMaintained(p, a) \/ ResolveAdjusted(p, a)

LeaveStep(p) == MarkNoResult(p) \/ RevokeNoResult(p) \/ Withdraw(p)

ParticipantStep(p) ==
    \/ InputStep(p)
    \/ CalibrationStep(p)
    \/ PublishStep(p)
    \/ EmployeeStep(p)
    \/ AppealStep(p)
    \/ LeaveStep(p)

ConfigurationStep ==
    \/ ChangeConfiguration
    \/ ReapplyConfiguration
    \/ \E stages \in SUBSET Stage \ {{}} : ChangeForms(stages)

CycleStep ==
    \/ Schedule
    \/ ReturnToDraft
    \/ Activate
    \/ ConfigurationStep

HandlerNext ==
    \/ \E p \in Participant : ParticipantStep(p)
    \/ StartPublish
    \/ PublishAborted
    \/ CycleStep

-----------------------------------------------------------------------------
(* Safety.                                                                  *)

\* result.service.ts publishes without re-reading the status and appeals publish
\* through another path; whatever their order, an employee never has two versions
\* that are both in force (the partial unique index perf_result_versions_current_key).
OneCurrentVersion ==
    \A p \in Participant : \A v, w \in CurrentVersion(p) : v = w

\* Version numbers go on through superseded and rolled-back rows: the n-th version
\* row of a participant has number n, so (participant, version) is never reused.
NumbersContinue ==
    \A p \in Participant : \A v \in DOMAIN versions[p] : versions[p][v].number = v

\* A participant has at most one appeal in a round, maintained or adjusted, unless a
\* rollback has invalidated it (ADR 0003); and while APPEALING it is open, and filed on
\* the version that is still current, so that it can be resolved without anybody
\* republishing first.
AppealingIsBound ==
    \A p \in Participant :
        /\ \A a, b \in ValidAppeals(p) : a = b
        /\ status[p] = "APPEALING" =>
              \E a \in OpenAppeals(p) : appeals[p][a].version \in CurrentVersion(p)

\* An appeal changes the employee's level only through a decision made after the
\* one the appealed version came from; the appealed version is no longer current.
AdjustedByNewDecision ==
    \A p \in Participant : \A a \in DOMAIN appeals[p] :
        LET appeal == appeals[p][a] IN
        appeal.adjusted =>
            /\ versions[p][appeal.version].source < appeal.basis
            /\ appeal.version \notin CurrentVersion(p)
            /\ \E w \in DOMAIN versions[p] :
                  w > appeal.version /\ versions[p][w].source = appeal.basis

\* Every version carries the level of the decision it names, or C; its decision is
\* valid as long as the version is, so no result outlives its calibration.
VersionsComeFromDecisions ==
    \A p \in Participant : \A v \in DOMAIN versions[p] :
        LET version == versions[p][v] IN
        /\ version.source \in DOMAIN decisions[p]
        /\ version.level \in {C, decisions[p][version.source].level}
        /\ version.valid <=> decisions[p][version.source].valid

\* NO_RESULT is for those who never submitted SELF and are not decided on: no submission
\* or decision that raced the closing stands beside it, nor one that outlived a rollback.
NoResultHasNothing ==
    \A p \in Participant :
        status[p] = "NO_RESULT" => "SELF" \notin submitted[p] /\ ValidDecisions(p) = {}

\* The outbox holds one event for each version, appeal, maintained appeal and
\* current version lost to a rollback, and nothing else.
EventsMatchRows ==
    outbox =
        (UNION {{<<"RESULT_PUBLISHED", p, v>> : v \in DOMAIN versions[p]} :
                   p \in Participant})
        \cup (UNION {{<<"APPEAL_CREATED", p, a>> : a \in DOMAIN appeals[p]} :
                   p \in Participant})
        \cup (UNION {{<<"APPEAL_RESOLVED_MAINTAINED", p, a>> :
                   a \in {b \in DOMAIN appeals[p] :
                             appeals[p][b].resolved /\ ~appeals[p][b].adjusted}} :
                   p \in Participant})
        \cup (UNION {{<<"RESULT_INVALIDATED", p, v>> :
                   v \in {w \in DOMAIN versions[p] :
                             ~versions[p][w].valid /\ ~versions[p][w].superseded}} :
                   p \in Participant})

-----------------------------------------------------------------------------
(* What a step may never do.                                                *)

\* An archived cycle is read-only: no handler of the chain changes a row of it.  The
\* stage results are apart: getManagerContext goes on rewriting them.
ArchiveIsFinal ==
    [][cycle = "ARCHIVED" => UNCHANGED <<cycle, submitted, redLines, chainVars>>]_rowVars

\* History is append-only: the rows of a participant keep what they said, and being
\* superseded, confirmed, resolved or invalidated is never undone.
HistoryOnlyGrows ==
    [][\A p \in Participant :
        /\ \A d \in DOMAIN decisions[p] :
              /\ d \in DOMAIN decisions'[p]
              /\ decisions'[p][d].level = decisions[p][d].level
              /\ decisions'[p][d].valid => decisions[p][d].valid
        /\ \A v \in DOMAIN versions[p] :
              LET old == versions[p][v]  new == versions'[p][v] IN
              /\ v \in DOMAIN versions'[p]
              /\ <<new.number, new.level, new.source>> = <<old.number, old.level, old.source>>
              /\ old.superseded => new.superseded
              /\ old.confirmed => new.confirmed
              /\ new.valid => old.valid
        /\ \A a \in DOMAIN appeals[p] :
              LET old == appeals[p][a]  new == appeals'[p][a] IN
              /\ a \in DOMAIN appeals'[p]
              /\ new.version = old.version
              /\ old.resolved =>
                    <<new.resolved, new.adjusted, new.basis>> = <<TRUE, old.adjusted, old.basis>>
              /\ new.valid => old.valid]_rowVars

\* ADR 0030 and 0040: a decision is made on the latest decision and on the level the
\* operator was shown, whatever was submitted, found or decided while the page was open.
DecisionOnWhatWasShown ==
    [][\A p \in Participant :
        Len(decisions'[p]) > Len(decisions[p]) =>
            /\ page[p].decision = LatestDecision(p)
            /\ page[p].level = PreLevel(p)]_rowVars

-----------------------------------------------------------------------------
(* What the documents say and the code does not do: a run refutes it.         *)

\* ADR 0003: with one appeal per cycle, archiving drains and cannot be stuck.  An open
\* appeal can only be resolved while its participant is APPEALING; only a rollback
\* of the cycle takes it away otherwise, and it blocks the archive.
OpenAppealIsResolvable ==
    \A p \in Participant : OpenAppeals(p) # {} => status[p] = "APPEALING"
=============================================================================
