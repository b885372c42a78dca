----------------------------- MODULE StageResult -----------------------------
(***************************************************************************)
(* Who stores the stage results of one participant, and from which reads.  *)
(*                                                                         *)
(* A stage result is a row for each stage and configuration version.       *)
(* Submitting the MANAGER sheet and confirming or revoking a red line      *)
(* recalculate it in their own transaction, under the lock of the cycle    *)
(* row.  Three writers do not read under that lock: getManagerContext      *)
(* recalculates on every read and takes no lock at all; submitSelf takes   *)
(* the configuration version from a query before its transaction; a        *)
(* configuration change runs on the snapshot its transaction took before   *)
(* it waited for the cycle row.  For these, reading and writing are two    *)
(* actions.                                                                *)
(***************************************************************************)
EXTENDS Naturals

CONSTANTS
    Viewer,      \* concurrent calls of getManagerContext
    Level,       \* the rating symbols
    C,           \* the level a red line forces
    NoLevel,     \* no READY result
    MaxConfig    \* bound: configuration versions

ASSUME StageLevelAssumption == C \in Level /\ NoLevel \notin Level
ASSUME ConfigAssumption == MaxConfig \in Nat \ {0}

VARIABLES
    config,      \* currentConfigVersionId
    rated,       \* level the SUBMITTED MANAGER sheet has under that version, if any
    redLine,     \* a confirmed red line is not revoked
    stored,      \* MANAGER row of the current version: its stageLevel
    self,        \* the SELF sheet: none, a draft, or the answers submitted last
    selfRow,     \* versions with a READY SELF row
    decision,    \* level of the first calibration decision, which locks the sheets
    view,        \* what each getManagerContext call has read
    submission,  \* version a submitSelf call has read, if one is under way
    change       \* what the snapshot of a waiting configuration change shows, if any

sheetVars == <<rated, redLine, self>>
rowVars == <<stored, selfRow>>
vars == <<config, sheetVars, rowVars, decision, view, submission, change>>

Idle == [reading |-> FALSE, config |-> 0, rated |-> NoLevel, redLine |-> FALSE]

\* Two ways to answer: a submission can be told from the one before it.
Answers == {"first answers", "other answers"}
SelfSubmitted == self \in Answers

TypeOK ==
    /\ config \in 1 .. MaxConfig
    /\ rated \in Level \cup {NoLevel}
    /\ redLine \in BOOLEAN
    /\ stored \in Level \cup {NoLevel}
    /\ self \in {"none", "draft"} \cup Answers
    /\ selfRow \subseteq 1 .. config
    /\ decision \in Level \cup {NoLevel}
    /\ view \in [Viewer -> [reading : BOOLEAN, config : Nat,
                            rated : Level \cup {NoLevel}, redLine : BOOLEAN]]
    /\ submission \subseteq 1 .. config
    /\ change \subseteq [redLine : BOOLEAN, self : BOOLEAN]

-----------------------------------------------------------------------------
(* Plausible mistakes, each the wrong form of one definition below.         *)

\* The SELF stage is not replayed under the new version.
ReplayManagerOnly(snap) == selfRow

\* A confirmed red line is left to the next recalculation.
RedLineConfirmedOnly ==
    /\ redLine' = TRUE
    /\ UNCHANGED <<config, rated, self, rowVars, decision, view, submission, change>>

\* The participant is not looked at again under the lock.
CommitUnchecked(a) ==
    /\ submission # {}
    /\ self' = a
    /\ selfRow' = selfRow \cup submission
    /\ submission' = {}
    /\ change' = IF self = "none" THEN change ELSE {}
    /\ UNCHANGED <<config, rated, redLine, stored, decision, view>>

-----------------------------------------------------------------------------
(* recalculate.                                                             *)

Calculated(l, red) == IF l # NoLevel /\ red THEN C ELSE l

SheetsOpen == decision = NoLevel

\* claimManagerWriteAuthority updates the participant row, so a configuration change
\* that waits with an older snapshot fails on it.
SubmitManager(l) ==
    /\ SheetsOpen
    /\ rated' = l
    /\ stored' = Calculated(l, redLine)
    /\ change' = {}
    /\ UNCHANGED <<config, redLine, self, selfRow, decision, view, submission>>

ConfirmRedLine ==
    /\ redLine' = TRUE
    /\ stored' = Calculated(rated, TRUE)
    /\ UNCHANGED <<config, rated, self, selfRow, decision, view, submission, change>>

\* Other confirmed red lines may remain.
RevokeRedLine ==
    /\ redLine
    /\ redLine' \in BOOLEAN
    /\ stored' = Calculated(rated, redLine')
    /\ UNCHANGED <<config, rated, self, selfRow, decision, view, submission, change>>

\* getManagerContext: the sheet, the red lines and the version are read ..
BeginView(v) ==
    /\ ~view[v].reading
    /\ rated # NoLevel
    /\ view' = [view EXCEPT ![v] = [reading |-> TRUE, config |-> config,
                                    rated |-> rated, redLine |-> redLine]]
    /\ UNCHANGED <<config, sheetVars, rowVars, decision, submission, change>>

\* .. and the row of that version is stored, whatever happened since.
FinishView(v) ==
    /\ view[v].reading
    /\ stored' = IF view[v].config = config
                 THEN Calculated(view[v].rated, view[v].redLine)
                 ELSE stored
    /\ view' = [view EXCEPT ![v] = Idle]
    /\ UNCHANGED <<config, sheetVars, selfRow, decision, submission, change>>

-----------------------------------------------------------------------------
(* submitSelf.                                                              *)

SaveSelfDraft ==
    /\ SheetsOpen
    /\ self = "none"
    /\ self' = "draft"
    /\ UNCHANGED <<config, rated, redLine, rowVars, decision, view, submission, change>>

BeginSubmitSelf ==
    /\ submission = {}
    /\ SheetsOpen
    /\ submission' = {config}
    /\ UNCHANGED <<config, sheetVars, rowVars, decision, view, change>>

\* The result is stored for the version read before the transaction.  A first
\* submission without a draft updates no row a waiting configuration change updates.
CommitSubmitSelf(a) ==
    /\ submission # {}
    /\ SheetsOpen
    /\ self' = a
    /\ selfRow' = selfRow \cup submission
    /\ submission' = {}
    /\ change' = IF self = "none" THEN change ELSE {}
    /\ UNCHANGED <<config, rated, redLine, stored, decision, view>>

RejectSubmitSelf ==
    /\ submission # {}
    /\ ~SheetsOpen
    /\ submission' = {}
    /\ UNCHANGED <<config, sheetVars, rowVars, decision, view, change>>

-----------------------------------------------------------------------------
(* apply, of an active configuration change.                                *)

BeginChange ==
    /\ change = {}
    /\ config < MaxConfig
    /\ change' = {[redLine |-> redLine, self |-> SelfSubmitted]}
    /\ UNCHANGED <<config, sheetVars, rowVars, decision, view, submission>>

Replayed(snap) == IF snap.self THEN selfRow \cup {config + 1} ELSE selfRow

\* The sheet may have another level under the new ratings; the stages of the snapshot
\* are stored for the new version.
CommitChange(l) ==
    /\ config < MaxConfig
    /\ rated = NoLevel <=> l = NoLevel
    /\ \E snap \in change :
          /\ stored' = Calculated(l, snap.redLine)
          /\ selfRow' = Replayed(snap)
    /\ rated' = l
    /\ config' = config + 1
    /\ change' = {}
    /\ UNCHANGED <<redLine, self, decision, view, submission>>

AbortChange ==
    /\ change # {}
    /\ change' = {}
    /\ UNCHANGED <<config, sheetVars, rowVars, decision, view, submission>>

-----------------------------------------------------------------------------
(* The first decision, with KEEP.  It updates the participant row as well.   *)

PreLevel == IF redLine THEN C ELSE stored

Keep ==
    /\ SheetsOpen
    /\ SelfSubmitted
    /\ rated # NoLevel
    /\ stored # NoLevel
    /\ decision' = PreLevel
    /\ change' = {}
    /\ UNCHANGED <<config, sheetVars, rowVars, view, submission>>

-----------------------------------------------------------------------------

Init ==
    /\ config = 1
    /\ rated = NoLevel
    /\ redLine = FALSE
    /\ stored = NoLevel
    /\ self = "none"
    /\ selfRow = {}
    /\ decision = NoLevel
    /\ view = [v \in Viewer |-> Idle]
    /\ submission = {}
    /\ change = {}

SelfStep ==
    \/ SaveSelfDraft
    \/ BeginSubmitSelf
    \/ \E a \in Answers : CommitSubmitSelf(a)
    \/ RejectSubmitSelf

ChangeStep ==
    \/ BeginChange
    \/ \E l \in Level \cup {NoLevel} : CommitChange(l)
    \/ AbortChange

Next ==
    \/ \E l \in Level : SubmitManager(l)
    \/ ConfirmRedLine
    \/ RevokeRedLine
    \/ \E v \in Viewer : BeginView(v) \/ FinishView(v)
    \/ SelfStep
    \/ ChangeStep
    \/ Keep

Spec == Init /\ [][Next]_vars

-----------------------------------------------------------------------------
(* Properties.                                                              *)

\* The MANAGER row says what the effective sheet and the red lines say now.
LevelIsCurrent == stored = Calculated(rated, redLine)

\* The effective SELF sheet has a result under the version in use.
SelfIsCalculated == SelfSubmitted => config \in selfRow

\* A view, a submission, a change that something has overtaken since it read.
OvertakenView(v) ==
    view[v].reading /\ <<view[v].rated, view[v].redLine>> # <<rated, redLine>>
OvertakenSubmission == \E c \in submission : c # config
OvertakenChange ==
    \E snap \in change : snap.redLine # redLine \/ snap.self # SelfSubmitted

\* Nothing else spoils the MANAGER level: whatever is submitted, found, revoked or
\* reconfigured, a right level goes wrong only in the step in which an overtaken view
\* stores its result or an overtaken configuration change commits.
OnlyOvertakenSpoilsLevel ==
    [][LevelIsCurrent /\ ~LevelIsCurrent' =>
          \/ \E v \in Viewer : OvertakenView(v) /\ ~view'[v].reading
          \/ OvertakenChange /\ config' # config]_vars

\* Nor the SELF result: it is missing only after an overtaken submission or change.
OnlyOvertakenLosesSelf ==
    [][SelfIsCalculated /\ ~SelfIsCalculated' =>
          \/ OvertakenSubmission /\ submission' = {}
          \/ OvertakenChange /\ config' # config]_vars

\* ADR 0039: once a participant is calibrated the sheets are frozen, also for a
\* submission that was let in before the decision and is written after it.  Only a new
\* configuration still gives the answers another level.
CalibratedInputIsFrozen ==
    [][decision # NoLevel =>
          /\ self' = self
          /\ rated' # rated => config' # config]_vars

=============================================================================
