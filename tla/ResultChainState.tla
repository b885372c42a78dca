------------------------- MODULE ResultChainState -------------------------
(***************************************************************************)
(* The rows of one performance cycle that make up its result chain, and    *)
(* the queries the handlers of ResultChain run on them.                    *)
(*                                                                         *)
(* Row ids are positions in the sequence of the participant's rows (they   *)
(* are serial, and rows are never deleted).                                *)
(***************************************************************************)
EXTENDS Integers, Sequences, FiniteSets

CONSTANTS
    Participant,   \* the participants of the cycle
    Level,         \* the rating symbols S, A, B, C (or a subset)
    C,             \* the level a red line forces
    NoLevel,       \* no MANAGER stage result under the current configuration
    MaxDecisions,  \* bound: calibration rows of one participant
    MaxVersions,   \* bound: result version rows of one participant
    MaxRedLines,   \* bound: red lines active at once for one participant
    MaxRevision    \* bound: changes of the evaluation input of one participant

ASSUME LevelAssumption == C \in Level /\ NoLevel \notin Level
ASSUME BoundAssumption ==
    {MaxDecisions, MaxVersions, MaxRedLines, MaxRevision} \subseteq Nat

VARIABLES
    cycle,       \* perf_cycles.status
    status,      \* perf_participants.status
    locked,      \* perf_participants.evaluation_locked_at IS NOT NULL
    submitted,   \* the required stages that have a SUBMITTED answer sheet
    stageLevel,  \* level of the MANAGER stage result under the current configuration,
                 \* before red lines
    revision,    \* inputRevision: the hash of the human inputs, as a counter
    redLines,    \* number of confirmed red lines that are not revoked
    decisions,   \* perf_calibrations rows
    versions,    \* perf_result_versions rows
    appeals,     \* perf_appeals rows
    outbox,      \* perf_notification_events, by dedupe key
    page,        \* the calibration context an operator has open
    batch        \* candidates of the running publishCycle call

inputVars == <<submitted, stageLevel, revision, redLines>>
chainVars == <<status, locked, decisions, versions, appeals, outbox>>
rowVars == <<cycle, inputVars, chainVars, page, batch>>

CycleStatus == {"DRAFT", "SCHEDULED", "ACTIVE", "ARCHIVED"}
ResultStatus ==
    {"CALIBRATED", "RESULT_PUBLISHED", "APPEALING", "RE_CONFIRMING", "CONFIRMED"}
ParticipantStatus == ResultStatus \cup {"ACTIVE", "NO_RESULT", "WITHDRAWN"}
Stage == {"SELF", "MANAGER"}

Decision == [level : Level, valid : BOOLEAN]
Version == [number : Nat, level : Level, source : Nat,
            superseded : BOOLEAN, confirmed : BOOLEAN, valid : BOOLEAN]
Appeal == [version : Nat, resolved : BOOLEAN, adjusted : BOOLEAN,
           basis : Nat, valid : BOOLEAN]
Page == [decision : SUBSET Nat, revision : Nat, level : Level]
EventType == {"RESULT_PUBLISHED", "APPEAL_CREATED",
              "APPEAL_RESOLVED_MAINTAINED", "RESULT_INVALIDATED"}

TypeOK ==
    /\ cycle \in CycleStatus
    /\ status \in [Participant -> ParticipantStatus]
    /\ locked \in [Participant -> BOOLEAN]
    /\ submitted \in [Participant -> SUBSET Stage]
    /\ stageLevel \in [Participant -> Level \cup {NoLevel}]
    /\ revision \in [Participant -> Nat]
    /\ redLines \in [Participant -> Nat]
    /\ decisions \in [Participant -> Seq(Decision)]
    /\ versions \in [Participant -> Seq(Version)]
    /\ appeals \in [Participant -> Seq(Appeal)]
    /\ outbox \subseteq (EventType \X Participant \X Nat)
    /\ page \in [Participant -> Page]
    /\ batch \subseteq Participant

-----------------------------------------------------------------------------
(* What the handlers read.  A query that takes at most one row is a set of  *)
(* row ids with at most one member.                                         *)

ValidDecisions(p) == {d \in DOMAIN decisions[p] : decisions[p][d].valid}
LatestDecision(p) ==
    {d \in ValidDecisions(p) : \A e \in ValidDecisions(p) : e <= d}

CurrentVersion(p) ==
    {v \in DOMAIN versions[p] :
        versions[p][v].valid /\ ~versions[p][v].superseded}
LastVersion(p) ==
    {v \in DOMAIN versions[p] :
        \A w \in DOMAIN versions[p] :
            versions[p][w].number <= versions[p][v].number}

ValidAppeals(p) == {a \in DOMAIN appeals[p] : appeals[p][a].valid}
OpenAppeals(p) == {a \in ValidAppeals(p) : ~appeals[p][a].resolved}

\* The level before calibration: the MANAGER stage level, or C under a red line.
PreLevel(p) == IF redLines[p] > 0 THEN C ELSE stageLevel[p]

NewVersion(n, l, d) ==
    [number |-> n, level |-> l, source |-> d,
     superseded |-> FALSE, confirmed |-> FALSE, valid |-> TRUE]

\* Every write of an answer sheet, stage result or red line moves the hash.
InputChanged(p) ==
    /\ revision[p] < MaxRevision
    /\ revision' = [revision EXCEPT ![p] = @ + 1]

\* So does another configuration version, for everybody.
EveryInputChanged ==
    /\ \A p \in Participant : revision[p] < MaxRevision
    /\ revision' = [p \in Participant |-> revision[p] + 1]

=============================================================================
