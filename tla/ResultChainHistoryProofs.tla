----------------------- MODULE ResultChainHistoryProofs -----------------------
(* What the result chain remembers: the rows it appends, the appeals and     *)
(* events that go with them, and that it implements what EmployeeResult      *)
(* promises, but for what an archive on an old snapshot lets through.        *)
(* Everything is proved for every set of participants and levels and every   *)
(* bound, on the invariant ResultInv of ResultChainProofs, through the       *)
(* handlers first and the two commits in the last sections.                  *)
EXTENDS ResultChainProofs

-----------------------------------------------------------------------------
(* The steps that touch a row of the chain.                                 *)

\* Whatever the handlers do, a row of a decision, version, appeal or event is
\* written by one of a few of them.
LEMMA RowSteps ==
    ASSUME TypeOK, [HandlerNext]_rowVars
    PROVE  \/ UNCHANGED <<decisions, versions, appeals, outbox>>
           \/ \E p \in Participant, l \in Level : Decide(p, l)
           \/ \E p \in Participant : PublishChanged(p)
           \/ \E p \in Participant : EmployeeStep(p)
           \/ \E p \in Participant : AppealStep(p)
<1> USE DEF rowVars, inputVars, chainVars
<1>1. ASSUME NEW p \in Participant, ParticipantStep(p)
      PROVE  \/ UNCHANGED <<decisions, versions, appeals, outbox>>
             \/ \E l \in Level : Decide(p, l)
             \/ PublishChanged(p)
             \/ EmployeeStep(p)
             \/ AppealStep(p)
  <2>1. CASE InputStep(p)
    BY <2>1 DEF InputStep, SubmitSelf, SubmitManager, ConfirmRedLine, RevokeRedLine,
                ViewManagerContext
  <2>2. CASE CalibrationStep(p)
    <3>1. Keep(p) => PreLevel(p) \in Level
      BY QueryTypes DEF Keep, Decide
    <3> QED BY <2>2, <3>1 DEF CalibrationStep, OpenPage, Keep, Adjust
  <2>3. CASE PublishUnchanged(p)
    BY <2>3 DEF PublishUnchanged
  <2>4. CASE LeaveStep(p)
    BY <2>4 DEF LeaveStep, MarkNoResult, RevokeNoResult, Withdraw
  <2> QED BY <1>1, <2>1, <2>2, <2>3, <2>4 DEF ParticipantStep, PublishStep
<1>2. CASE StartPublish \/ PublishAborted \/ UNCHANGED rowVars
  BY <1>2 DEF StartPublish, PublishAborted
<1>3. CASE Schedule \/ ReturnToDraft \/ Activate
  BY <1>3 DEF Schedule, ReturnToDraft, Activate
<1>4. CASE ConfigurationStep
  BY <1>4, ConfigurationFrame
<1> QED BY <1>1, <1>2, <1>3, <1>4 DEF HandlerNext, CycleStep

-----------------------------------------------------------------------------
(* The page an operator decides on.                                         *)

\* The page is never ahead of the input, and one that names the current input shows
\* the level of that input, if there is one.
PageIsTrue(p) ==
    /\ page[p].revision <= revision[p]
    /\ page[p].revision = revision[p] /\ stageLevel[p] # NoLevel =>
          page[p].level = PreLevel(p)

PageInv == \A p \in Participant : PageIsTrue(p)

LEMMA PageInit == RowsInit => PageInv
BY DEF RowsInit, PageInv, PageIsTrue

\* A change of the input leaves every page that was open behind.
LEMMA PageOvertaken ==
    ASSUME TypeOK, NEW p \in Participant, PageIsTrue(p),
           page' = page, revision'[p] = revision[p] + 1
    PROVE  PageIsTrue(p)'
<1>1. revision[p] \in Nat /\ page[p].revision \in Nat
  BY DEF TypeOK, Page
<1> QED BY <1>1 DEF PageIsTrue

\* A step that changes neither page nor input.
LEMMA PageUntouched ==
    ASSUME PageInv, UNCHANGED <<inputVars, page>>
    PROVE  PageInv'
BY DEF PageInv, PageIsTrue, PreLevel, inputVars

\* One change of the input of one participant.
LEMMA InputKeepsPage ==
    ASSUME TypeOK, PageInv, NEW p \in Participant, InputStep(p)
    PROVE  PageInv'
<1>1. /\ page' = page
      /\ revision' = [revision EXCEPT ![p] = @ + 1]
      /\ \A q \in Participant : q # p =>
            stageLevel'[q] = stageLevel[q] /\ redLines'[q] = redLines[q]
  BY DEF InputStep, SubmitSelf, SubmitManager, ConfirmRedLine, RevokeRedLine,
         ViewManagerContext, InputChanged, Recalculate, TypeOK
<1> SUFFICES ASSUME NEW q \in Participant PROVE PageIsTrue(q)'
  BY DEF PageInv
<1>2. PageIsTrue(q)
  BY DEF PageInv
<1>3. CASE q = p
  BY <1>1, <1>2, <1>3, PageOvertaken DEF TypeOK
<1>4. CASE q # p
  <2>1. revision'[q] = revision[q]
    BY <1>1, <1>4 DEF TypeOK
  <2> QED BY <1>1, <1>2, <1>4, <2>1 DEF PageIsTrue, PreLevel
<1> QED BY <1>3, <1>4

\* Opening a page shows what there is.
LEMMA OpenKeepsPage ==
    ASSUME TypeOK, PageInv, NEW p \in Participant, OpenPage(p)
    PROVE  PageInv'
<1> SUFFICES ASSUME NEW q \in Participant PROVE PageIsTrue(q)'
  BY DEF PageInv
<1>1. revision' = revision /\ stageLevel' = stageLevel /\ redLines' = redLines
  BY DEF OpenPage, inputVars
<1>2. PreLevel(q)' = PreLevel(q)
  BY <1>1 DEF PreLevel
<1>3. CASE q = p
  <2>1. page'[q] = [decision |-> LatestDecision(p), revision |-> revision[p],
                    level |-> PreLevel(p)]
    BY <1>3 DEF OpenPage, TypeOK
  <2>2. page'[q].revision = revision[q] /\ page'[q].level = PreLevel(q)
    BY <1>3, <2>1
  <2>3. revision[q] \in Nat
    BY DEF TypeOK
  <2> QED BY <1>1, <1>2, <2>2, <2>3 DEF PageIsTrue
<1>4. CASE q # p
  <2>1. page'[q] = page[q]
    BY <1>4 DEF OpenPage, TypeOK
  <2>2. PageIsTrue(q)
    BY DEF PageInv
  <2> QED BY <1>1, <1>2, <2>1, <2>2 DEF PageIsTrue
<1> QED BY <1>3, <1>4

\* A change for everybody leaves every page behind.
LEMMA ConfigurationKeepsPage ==
    ASSUME TypeOK, PageInv, ConfigurationStep
    PROVE  PageInv'
<1>1. revision' = [p \in Participant |-> revision[p] + 1]
  BY DEF ConfigurationStep, ChangeConfiguration, ReapplyConfiguration, ChangeForms,
         EveryInputChanged
<1>2. page' = page
  BY ConfigurationFrame
<1> SUFFICES ASSUME NEW q \in Participant PROVE PageIsTrue(q)'
  BY DEF PageInv
<1> QED BY <1>1, <1>2, PageOvertaken DEF PageInv

LEMMA HandlerPageStep == TypeOK /\ PageInv /\ [HandlerNext]_rowVars => PageInv'
<1> SUFFICES ASSUME TypeOK, PageInv, [HandlerNext]_rowVars PROVE PageInv'
  OBVIOUS
<1>1. ASSUME NEW p \in Participant, ParticipantStep(p) PROVE PageInv'
  <2>1. CASE InputStep(p)
    BY <2>1, InputKeepsPage
  <2>2. CASE OpenPage(p)
    BY <2>2, OpenKeepsPage
  <2>3. CASE Keep(p) \/ \E l \in Level : Adjust(p, l)
    BY <2>3, PageUntouched DEF Keep, Adjust, Decide
  <2>4. CASE PublishStep(p)
    BY <2>4, PageUntouched DEF PublishStep, PublishChanged, PublishUnchanged
  <2>5. CASE EmployeeStep(p)
    BY <2>5, PageUntouched DEF EmployeeStep, Confirm, CreateAppeal
  <2>6. CASE AppealStep(p)
    BY <2>6, PageUntouched DEF AppealStep, ResolveMaintained, ResolveAdjusted
  <2>7. CASE LeaveStep(p)
    BY <2>7, PageUntouched DEF LeaveStep, MarkNoResult, RevokeNoResult, Withdraw
  <2> QED BY <1>1, <2>1, <2>2, <2>3, <2>4, <2>5, <2>6, <2>7
          DEF ParticipantStep, CalibrationStep
<1>2. CASE StartPublish \/ PublishAborted \/ UNCHANGED rowVars
  BY <1>2, PageUntouched DEF StartPublish, PublishAborted, rowVars
<1>3. CASE Schedule \/ ReturnToDraft \/ Activate
  BY <1>3, PageUntouched DEF Schedule, ReturnToDraft, Activate
<1> QED BY <1>1, <1>2, <1>3, ConfigurationKeepsPage DEF HandlerNext, CycleStep

\* A decision is appended by Decide alone.
LEMMA HandlerDecisionStep ==
    ASSUME TypeOK, PageInv, [HandlerNext]_rowVars, NEW p \in Participant,
           Len(decisions'[p]) > Len(decisions[p])
    PROVE  /\ page[p].decision = LatestDecision(p)
           /\ page[p].level = PreLevel(p)
<1>1. Len(decisions[p]) \in Nat /\ DOMAIN decisions[p] = 1..Len(decisions[p])
  BY RowTypes
<1>2. decisions'[p] # decisions[p]
  BY <1>1
<1>4. \A q \in Participant :
          PublishChanged(q) \/ EmployeeStep(q) \/ AppealStep(q) => decisions' = decisions
  BY DEF PublishChanged, EmployeeStep, Confirm, CreateAppeal, AppealStep,
         ResolveMaintained, ResolveAdjusted
<1>5. PICK q \in Participant, l \in Level : Decide(q, l)
  BY <1>2, <1>4, RowSteps
<1>6. q = p
  BY <1>2, <1>5 DEF Decide, TypeOK
<1>7. PageIsFresh(p) /\ stageLevel[p] # NoLevel
  BY <1>5, <1>6 DEF Decide
<1> QED BY <1>7 DEF PageIsFresh, PageInv, PageIsTrue

-----------------------------------------------------------------------------
(* How a step may change the decisions and appeals of a participant.        *)

SameDecisions(p) == decisions'[p] = decisions[p]

Decided(p) ==
    \E l \in Level : decisions'[p] = Append(decisions[p], [level |-> l, valid |-> TRUE])

LEMMA DecisionSteps ==
    ASSUME TypeOK, [HandlerNext]_rowVars, NEW q \in Participant
    PROVE  SameDecisions(q) \/ Decided(q)
<1>1. ASSUME NEW p \in Participant, NEW l \in Level, Decide(p, l)
      PROVE  SameDecisions(q) \/ Decided(q)
  <2>1. CASE q = p
    BY <1>1, <2>1 DEF Decide, Decided, TypeOK
  <2>2. CASE q # p
    BY <1>1, <2>2 DEF Decide, SameDecisions, TypeOK
  <2> QED BY <2>1, <2>2
<1>2. \A p \in Participant :
          PublishChanged(p) \/ EmployeeStep(p) \/ AppealStep(p) => decisions' = decisions
  BY DEF PublishChanged, EmployeeStep, Confirm, CreateAppeal, AppealStep,
         ResolveMaintained, ResolveAdjusted
<1> QED BY <1>1, <1>2, RowSteps DEF SameDecisions

SameAppeals(p) == appeals'[p] = appeals[p]

NewAppeal(v) ==
    [version |-> v, resolved |-> FALSE, adjusted |-> FALSE, basis |-> 0, valid |-> TRUE]

Appealed(p) ==
    \E v \in CurrentVersion(p) : appeals'[p] = Append(appeals[p], NewAppeal(v))

Closed(p, a, d, changed) ==
    appeals'[p] = [appeals[p] EXCEPT ![a] =
        [@ EXCEPT !.resolved = TRUE, !.adjusted = changed, !.basis = d]]

AppealClosed(p) ==
    \E a \in OpenAppeals(p), d \in LatestDecision(p), changed \in BOOLEAN :
        Closed(p, a, d, changed)

\* CloseAppeal, seen from the participant and from the others.
LEMMA CloseRows ==
    ASSUME TypeOK, NEW p \in Participant, NEW a \in DOMAIN appeals[p], NEW d,
           NEW changed, CloseAppeal(p, a, d, changed)
    PROVE  /\ Closed(p, a, d, changed)
           /\ \A q \in Participant : q # p => SameAppeals(q)
<1> DEFINE row == [appeals[p][a] EXCEPT !.resolved = TRUE, !.adjusted = changed, !.basis = d]
<1>1. appeals[p] \in Seq(Appeal) /\ appeals[p][a] \in Appeal
  BY SeqDomain DEF TypeOK
<1>2. appeals' = [appeals EXCEPT ![p] = [appeals[p] EXCEPT ![a] = row]]
  BY <1>1 DEF CloseAppeal, TypeOK, Appeal
<1> QED BY <1>2 DEF Closed, SameAppeals, TypeOK

\* The two ways of resolving an appeal close it on the latest decision.
LEMMA ResolveRows ==
    ASSUME TypeOK, NEW p \in Participant, NEW a \in DOMAIN appeals[p],
           ResolveMaintained(p, a) \/ ResolveAdjusted(p, a)
    PROVE  /\ AppealClosed(p)
           /\ \A q \in Participant : q # p => SameAppeals(q)
<1>1. CASE ResolveMaintained(p, a)
  <2>1. PICK d \in LatestDecision(p) : ResolvableOn(p, a, d) /\ CloseAppeal(p, a, d, FALSE)
    BY <1>1 DEF ResolveMaintained
  <2> QED BY <2>1, CloseRows DEF AppealClosed, ResolvableOn
<1>2. CASE ResolveAdjusted(p, a)
  <2>1. PICK d \in LatestDecision(p) : ResolvableOn(p, a, d) /\ CloseAppeal(p, a, d, TRUE)
    BY <1>2 DEF ResolveAdjusted
  <2> QED BY <2>1, CloseRows DEF AppealClosed, ResolvableOn
<1> QED BY <1>1, <1>2

LEMMA AppealSteps ==
    ASSUME TypeOK, [HandlerNext]_rowVars, NEW q \in Participant
    PROVE  SameAppeals(q) \/ Appealed(q) \/ AppealClosed(q)
<1>1. \A p \in Participant :
          PublishChanged(p) \/ (\E l \in Level : Decide(p, l)) => appeals' = appeals
  BY DEF PublishChanged, Decide
<1>2. ASSUME NEW p \in Participant, EmployeeStep(p)
      PROVE  SameAppeals(q) \/ Appealed(q)
  <2>1. ASSUME NEW v \in DOMAIN versions[p], Confirm(p, v) PROVE SameAppeals(q)
    BY <2>1 DEF Confirm, SameAppeals
  <2>2. ASSUME NEW v \in DOMAIN versions[p], CreateAppeal(p, v)
        PROVE  SameAppeals(q) \/ Appealed(q)
    <3>1. v \in CurrentVersion(p)
      BY <2>2 DEF CreateAppeal, Appealable
    <3>2. appeals' = [appeals EXCEPT ![p] = Append(@, NewAppeal(v))]
      BY <2>2 DEF CreateAppeal, NewAppeal
    <3> QED BY <3>1, <3>2 DEF SameAppeals, Appealed, TypeOK
  <2> QED BY <1>2, <2>1, <2>2 DEF EmployeeStep
<1>3. ASSUME NEW p \in Participant, AppealStep(p)
      PROVE  SameAppeals(q) \/ AppealClosed(q)
  BY <1>3, ResolveRows DEF AppealStep
<1> QED BY <1>1, <1>2, <1>3, RowSteps DEF SameAppeals

-----------------------------------------------------------------------------
(* History only grows.                                                      *)

\* The three parts of HistoryOnlyGrows for one participant.
DecisionsGrow(p) ==
    \A d \in DOMAIN decisions[p] :
        /\ d \in DOMAIN decisions'[p]
        /\ decisions'[p][d].level = decisions[p][d].level
        /\ decisions'[p][d].valid => decisions[p][d].valid

VersionsGrow(p) ==
    \A v \in DOMAIN versions[p] :
        LET old == versions[p][v]  new == versions'[p][v] IN
        /\ v \in DOMAIN versions'[p]
        /\ <<new.number, new.level, new.source>> = <<old.number, old.level, old.source>>
        /\ old.superseded => new.superseded
        /\ old.confirmed => new.confirmed
        /\ new.valid => old.valid

AppealsGrow(p) ==
    \A a \in DOMAIN appeals[p] :
        LET old == appeals[p][a]  new == appeals'[p][a] IN
        /\ a \in DOMAIN appeals'[p]
        /\ new.version = old.version
        /\ old.resolved =>
              <<new.resolved, new.adjusted, new.basis>> = <<TRUE, old.adjusted, old.basis>>
        /\ new.valid => old.valid

LEMMA HandlerDecisionsGrowStep ==
    ASSUME TypeOK, [HandlerNext]_rowVars, NEW p \in Participant
    PROVE  DecisionsGrow(p)
<1> DEFINE k == Len(decisions[p])
<1>1. /\ decisions[p] \in Seq(Decision)
      /\ k \in Nat
      /\ DOMAIN decisions[p] = 1..k
      /\ \A d \in 1..k : decisions[p][d] \in Decision
  BY RowTypes DEF TypeOK
<1>2. CASE SameDecisions(p)
  BY <1>2 DEF SameDecisions, DecisionsGrow
<1>3. CASE Decided(p)
  <2>1. PICK l \in Level : decisions'[p] = Append(decisions[p], [level |-> l, valid |-> TRUE])
    BY <1>3 DEF Decided
  <2>2. [level |-> l, valid |-> TRUE] \in Decision
    BY DEF Decision
  <2>3. /\ decisions'[p] \in Seq(Decision)
        /\ Len(decisions'[p]) = k + 1
        /\ \A d \in 1..k : decisions'[p][d] = decisions[p][d]
    BY <1>1, <2>1, <2>2, AppendRow
  <2>4. DOMAIN decisions'[p] = 1..(k + 1)
    BY <2>3, SeqDomain
  <2>5. \A d \in 1..k : d \in 1..(k + 1)
    BY <1>1
  <2> QED BY <1>1, <2>3, <2>4, <2>5 DEF DecisionsGrow
<1> QED BY <1>2, <1>3, DecisionSteps

LEMMA VersionRowsGrow ==
    ASSUME TypeOK, NEW p \in Participant,
           SameVersions(p) \/ ConfirmedCurrent(p) \/ Published(p) \/ Invalidated(p)
    PROVE  VersionsGrow(p)
<1> DEFINE k == Len(versions[p])
<1>1. /\ versions[p] \in Seq(Version)
      /\ k \in Nat
      /\ DOMAIN versions[p] = 1..k
      /\ \A v \in 1..k : versions[p][v] \in Version
  BY RowTypes DEF TypeOK
<1>2. CASE SameVersions(p)
  BY <1>2 DEF SameVersions, VersionsGrow
<1>3. CASE ConfirmedCurrent(p)
  <2>1. PICK w \in CurrentVersion(p) :
            versions'[p] = [versions[p] EXCEPT ![w] = [@ EXCEPT !.confirmed = TRUE]]
    BY <1>3 DEF ConfirmedCurrent
  <2>2. DOMAIN versions'[p] = 1..k
    BY <1>1, <2>1
  <2>3. \A v \in 1..k : v # w => versions'[p][v] = versions[p][v]
    BY <1>1, <2>1
  <2>4. w \in 1..k
    BY <1>1 DEF CurrentVersion
  <2>5. versions'[p][w] = [versions[p][w] EXCEPT !.confirmed = TRUE]
    BY <1>1, <2>1, <2>4
  <2>6. LET old == versions[p][w]  new == versions'[p][w] IN
        /\ <<new.number, new.level, new.source>> = <<old.number, old.level, old.source>>
        /\ new.superseded = old.superseded
        /\ new.confirmed = TRUE
        /\ new.valid = old.valid
    BY <1>1, <2>4, <2>5 DEF Version
  <2> QED BY <1>1, <2>2, <2>3, <2>6 DEF VersionsGrow
<1>4. CASE Published(p)
  <2>1. /\ DOMAIN versions'[p] = 1..(k + 1)
        /\ \A v \in 1..k :
              LET old == versions[p][v]  new == versions'[p][v] IN
              /\ <<new.number, new.level, new.source>> = <<old.number, old.level, old.source>>
              /\ new.confirmed = old.confirmed
              /\ new.valid = old.valid
              /\ new.superseded <=> old.superseded \/ v \in CurrentVersion(p)
    BY <1>4, PublishedRows
  <2>2. \A v \in 1..k : v \in 1..(k + 1)
    BY <1>1
  <2> QED BY <1>1, <2>1, <2>2 DEF VersionsGrow
<1>5. CASE Invalidated(p)
  <2>1. /\ DOMAIN versions'[p] = 1..k
        /\ \A v \in 1..k : versions'[p][v] = [versions[p][v] EXCEPT !.valid = FALSE]
    BY <1>1, <1>5 DEF Invalidated
  <2>2. \A v \in 1..k :
            LET old == versions[p][v]  new == versions'[p][v] IN
            /\ <<new.number, new.level, new.source>> = <<old.number, old.level, old.source>>
            /\ new.superseded = old.superseded
            /\ new.confirmed = old.confirmed
            /\ new.valid = FALSE
    BY <1>1, <2>1 DEF Version
  <2> QED BY <1>1, <2>1, <2>2 DEF VersionsGrow
<1> QED BY <1>2, <1>3, <1>4, <1>5

LEMMA HandlerVersionsGrowStep ==
    ASSUME TypeOK, [HandlerNext]_rowVars, NEW p \in Participant
    PROVE  VersionsGrow(p)
BY VersionSteps, VersionRowsGrow

\* What closing an appeal does to the rows.
LEMMA ClosedRow ==
    ASSUME TypeOK, NEW p \in Participant, NEW a \in DOMAIN appeals[p], NEW d \in Nat,
           NEW changed, Closed(p, a, d, changed)
    PROVE  /\ DOMAIN appeals'[p] = DOMAIN appeals[p]
           /\ \A b \in DOMAIN appeals[p] : b # a => appeals'[p][b] = appeals[p][b]
           /\ appeals'[p][a].version = appeals[p][a].version
           /\ appeals'[p][a].valid = appeals[p][a].valid
           /\ appeals'[p][a].resolved = TRUE
           /\ appeals'[p][a].adjusted = changed
           /\ appeals'[p][a].basis = d
<1> DEFINE row == [appeals[p][a] EXCEPT !.resolved = TRUE, !.adjusted = changed, !.basis = d]
<1>1. appeals[p] \in Seq(Appeal) /\ appeals[p][a] \in Appeal
  BY RowTypes DEF TypeOK
<1>2. appeals'[p] = [appeals[p] EXCEPT ![a] = row]
  BY DEF Closed
<1>3. /\ row.version = appeals[p][a].version
      /\ row.valid = appeals[p][a].valid
      /\ row.resolved = TRUE
      /\ row.adjusted = changed
      /\ row.basis = d
  BY <1>1 DEF Appeal
<1> HIDE DEF row
<1>4. appeals'[p][a] = row
  BY <1>1, <1>2
<1>5. DOMAIN appeals'[p] = DOMAIN appeals[p]
  BY <1>2
<1>6. \A b \in DOMAIN appeals[p] : b # a => appeals'[p][b] = appeals[p][b]
  BY <1>1, <1>2
<1> QED BY <1>3, <1>4, <1>5, <1>6

\* What filing an appeal does to the rows.
LEMMA AppealedRow ==
    ASSUME TypeOK, NEW p \in Participant, NEW v \in Nat,
           appeals'[p] = Append(appeals[p], NewAppeal(v))
    PROVE  LET k == Len(appeals[p]) IN
           /\ k \in Nat
           /\ DOMAIN appeals[p] = 1..k
           /\ DOMAIN appeals'[p] = 1..(k + 1)
           /\ \A a \in 1..k : appeals'[p][a] = appeals[p][a]
           /\ appeals'[p][k + 1] = NewAppeal(v)
<1>1. appeals[p] \in Seq(Appeal) /\ NewAppeal(v) \in Appeal
  BY DEF TypeOK, NewAppeal, Appeal
<1>2. /\ appeals'[p] \in Seq(Appeal)
      /\ Len(appeals'[p]) = Len(appeals[p]) + 1
      /\ \A a \in 1..Len(appeals[p]) : appeals'[p][a] = appeals[p][a]
      /\ appeals'[p][Len(appeals[p]) + 1] = NewAppeal(v)
  BY <1>1, AppendRow
<1>3. DOMAIN appeals'[p] = 1..Len(appeals'[p])
  BY <1>2, SeqDomain
<1> QED BY <1>2, <1>3, RowTypes

\* What a rollback does to the appeals.
LEMMA VoidedRow ==
    ASSUME TypeOK, NEW p \in Participant, AppealsVoided(p)
    PROVE  /\ DOMAIN appeals'[p] = DOMAIN appeals[p]
           /\ \A a \in DOMAIN appeals[p] :
                 /\ appeals'[p][a].version = appeals[p][a].version
                 /\ appeals'[p][a].resolved = appeals[p][a].resolved
                 /\ appeals'[p][a].adjusted = appeals[p][a].adjusted
                 /\ appeals'[p][a].basis = appeals[p][a].basis
                 /\ appeals'[p][a].valid = FALSE
<1>1. \A a \in DOMAIN appeals[p] : appeals[p][a] \in Appeal
  BY RowTypes
<1>2. /\ DOMAIN appeals'[p] = DOMAIN appeals[p]
      /\ \A a \in DOMAIN appeals[p] :
            appeals'[p][a] = [appeals[p][a] EXCEPT !.valid = FALSE]
  BY DEF AppealsVoided
<1> QED BY <1>1, <1>2 DEF Appeal

LEMMA AppealRowsGrow ==
    ASSUME TypeOK, NEW p \in Participant,
           SameAppeals(p) \/ Appealed(p) \/ AppealClosed(p) \/ AppealsVoided(p)
    PROVE  AppealsGrow(p)
<1>1. \A a \in DOMAIN appeals[p] : appeals[p][a].resolved \in BOOLEAN
  BY RowTypes DEF Appeal
<1>2. CASE SameAppeals(p)
  BY <1>1, <1>2 DEF SameAppeals, AppealsGrow
<1>3. CASE Appealed(p)
  <2>1. PICK v \in CurrentVersion(p) : appeals'[p] = Append(appeals[p], NewAppeal(v))
    BY <1>3 DEF Appealed
  <2>2. v \in Nat
    BY RowTypes DEF CurrentVersion
  <2> DEFINE k == Len(appeals[p])
  <2>3. /\ k \in Nat
        /\ DOMAIN appeals[p] = 1..k
        /\ DOMAIN appeals'[p] = 1..(k + 1)
        /\ \A a \in 1..k : appeals'[p][a] = appeals[p][a]
    BY <2>1, <2>2, AppealedRow
  <2>4. \A a \in 1..k : a \in 1..(k + 1)
    BY <2>3
  <2> HIDE DEF k
  <2> QED BY <1>1, <2>3, <2>4 DEF AppealsGrow
<1>4. CASE AppealClosed(p)
  <2>1. PICK a \in OpenAppeals(p), d \in LatestDecision(p), changed \in BOOLEAN :
            Closed(p, a, d, changed)
    BY <1>4 DEF AppealClosed
  <2>2. a \in DOMAIN appeals[p] /\ ~appeals[p][a].resolved
    BY DEF OpenAppeals, ValidAppeals
  <2>3. d \in Nat
    BY QueryTypes
  <2>4. /\ DOMAIN appeals'[p] = DOMAIN appeals[p]
        /\ \A b \in DOMAIN appeals[p] : b # a => appeals'[p][b] = appeals[p][b]
        /\ appeals'[p][a].version = appeals[p][a].version
        /\ appeals'[p][a].valid = appeals[p][a].valid
    BY <2>1, <2>2, <2>3, ClosedRow
  <2> QED BY <1>1, <2>2, <2>4 DEF AppealsGrow
<1>5. CASE AppealsVoided(p)
  BY <1>1, <1>5, VoidedRow DEF AppealsGrow
<1> QED BY <1>2, <1>3, <1>4, <1>5

LEMMA HandlerAppealsGrowStep ==
    ASSUME TypeOK, [HandlerNext]_rowVars, NEW p \in Participant
    PROVE  AppealsGrow(p)
BY AppealSteps, AppealRowsGrow

-----------------------------------------------------------------------------
(* Where versions come from.                                                *)

\* A publication, with the level the decision gives.
PublishedFrom(p, d) ==
    \E n \in NextNumbers(p) :
        versions'[p] = Append(Supersede(p), NewVersion(n, FinalLevel(p, d), d))

LEMMA PublishSources ==
    ASSUME TypeOK, NEW p \in Participant,
           \/ PublishChanged(p)
           \/ \E a \in DOMAIN appeals[p] : ResolveAdjusted(p, a)
    PROVE  /\ \E d \in LatestDecision(p) : PublishedFrom(p, d)
           /\ decisions' = decisions
<1>1. CASE PublishChanged(p)
  <2>1. PICK d \in LatestDecision(p), n \in NextNumbers(p) :
            PublishVersion(p, n, FinalLevel(p, d), d)
    BY <1>1 DEF PublishChanged
  <2> QED BY <1>1, <2>1 DEF PublishVersion, PublishedFrom, PublishChanged, TypeOK
<1>2. ASSUME NEW a \in DOMAIN appeals[p], ResolveAdjusted(p, a)
      PROVE  /\ \E d \in LatestDecision(p) : PublishedFrom(p, d)
             /\ decisions' = decisions
  <2> DEFINE v == appeals[p][a].version
  <2>1. PICK d \in LatestDecision(p) :
            /\ ResolvableOn(p, a, d)
            /\ PublishVersion(p, versions[p][v].number + 1, FinalLevel(p, d), d)
    BY <1>2 DEF ResolveAdjusted
  <2>2. versions[p][v].number + 1 \in NextNumbers(p)
    BY <2>1 DEF ResolvableOn, NextNumbers
  <2> QED BY <1>2, <2>1, <2>2 DEF PublishVersion, PublishedFrom, ResolveAdjusted, TypeOK
<1> QED BY <1>1, <1>2

\* The rows after a publication from decision d.
LEMMA PublishedFromRows ==
    ASSUME TypeOK, NEW p \in Participant, NEW d \in LatestDecision(p), PublishedFrom(p, d)
    PROVE  LET k == Len(versions[p]) IN
           /\ k \in Nat
           /\ DOMAIN versions[p] = 1..k
           /\ DOMAIN versions'[p] = 1..(k + 1)
           /\ versions'[p][k + 1].source = d
           /\ versions'[p][k + 1].level = FinalLevel(p, d)
           /\ versions'[p][k + 1].valid = TRUE
           /\ versions'[p][k + 1].superseded = FALSE
           /\ \A v \in 1..k :
                  LET old == versions[p][v]  new == versions'[p][v] IN
                  /\ <<new.number, new.level, new.source>> = <<old.number, old.level, old.source>>
                  /\ new.confirmed = old.confirmed
                  /\ new.valid = old.valid
                  /\ new.superseded <=> old.superseded \/ v \in CurrentVersion(p)
<1> DEFINE k == Len(versions[p])
<1>1. PICK n \in NextNumbers(p) :
          versions'[p] = Append(Supersede(p), NewVersion(n, FinalLevel(p, d), d))
  BY DEF PublishedFrom
<1>2. FinalLevel(p, d) \in Level /\ n \in Nat /\ d \in Nat
  BY QueryTypes
<1>3. Published(p)
  BY <1>1, <1>2 DEF Published
<1>4. NewVersion(n, FinalLevel(p, d), d) \in Version
  BY <1>2 DEF NewVersion, Version
<1>5. versions'[p][k + 1] = NewVersion(n, FinalLevel(p, d), d)
  BY <1>1, <1>4, SupersedeType, AppendRow
<1> QED BY <1>3, <1>5, PublishedRows DEF NewVersion

\* VersionsComeFromDecisions for one participant.
SourcesOK(p) ==
    \A v \in DOMAIN versions[p] :
        /\ versions[p][v].source \in DOMAIN decisions[p]
        /\ versions[p][v].level \in {C, decisions[p][versions[p][v].source].level}
        /\ versions[p][v].valid <=> decisions[p][versions[p][v].source].valid

SourceInv == \A p \in Participant : SourcesOK(p)

LEMMA SourceInvIsProperty == SourceInv <=> VersionsComeFromDecisions
BY DEF SourceInv, SourcesOK, VersionsComeFromDecisions

LEMMA SourceInit == RowsInit => SourceInv
BY DEF RowsInit, SourceInv, SourcesOK

\* A publication names a decision in force.
LEMMA PublishKeepsSources ==
    ASSUME TypeOK, NEW p \in Participant, SourcesOK(p), NEW d \in LatestDecision(p),
           PublishedFrom(p, d), decisions' = decisions
    PROVE  SourcesOK(p)'
<1> DEFINE k == Len(versions[p])
<1>1. /\ k \in Nat
      /\ DOMAIN versions[p] = 1..k
      /\ DOMAIN versions'[p] = 1..(k + 1)
      /\ versions'[p][k + 1].source = d
      /\ versions'[p][k + 1].level = FinalLevel(p, d)
      /\ versions'[p][k + 1].valid = TRUE
      /\ \A v \in 1..k :
             LET old == versions[p][v]  new == versions'[p][v] IN
             /\ <<new.number, new.level, new.source>> = <<old.number, old.level, old.source>>
             /\ new.valid = old.valid
  BY PublishedFromRows
<1>2. d \in DOMAIN decisions[p] /\ decisions[p][d].valid
  BY DEF LatestDecision, ValidDecisions
<1>3. FinalLevel(p, d) \in {C, decisions[p][d].level}
  BY DEF FinalLevel
<1>4. \A v \in 1..(k + 1) : v \in 1..k \/ v = k + 1
  BY <1>1
<1> HIDE DEF k
<1>5. \A v \in 1..k :
          /\ versions'[p][v].source \in DOMAIN decisions'[p]
          /\ versions'[p][v].level \in {C, decisions'[p][versions'[p][v].source].level}
          /\ versions'[p][v].valid <=> decisions'[p][versions'[p][v].source].valid
  BY <1>1 DEF SourcesOK
<1> QED BY <1>1, <1>2, <1>3, <1>4, <1>5 DEF SourcesOK

\* A confirmation leaves level, source and validity alone.
LEMMA ConfirmedRow ==
    ASSUME TypeOK, NEW p \in Participant, NEW v \in DOMAIN versions[p], Confirm(p, v)
    PROVE  /\ DOMAIN versions'[p] = DOMAIN versions[p]
           /\ \A w \in DOMAIN versions[p] :
                 LET old == versions[p][w]  new == versions'[p][w] IN
                 /\ new.number = old.number /\ new.level = old.level /\ new.source = old.source
                 /\ new.superseded = old.superseded /\ new.valid = old.valid
                 /\ new.confirmed = (old.confirmed \/ w = v)
           /\ \A q \in Participant : q # p => versions'[q] = versions[q]
<1> DEFINE row == [versions[p][v] EXCEPT !.confirmed = TRUE]
<1>1. versions[p] \in Seq(Version) /\ versions[p][v] \in Version
  BY RowTypes DEF TypeOK
<1>2. versions' = [versions EXCEPT ![p] = [versions[p] EXCEPT ![v] = row]]
  BY DEF Confirm
<1>3. /\ row.number = versions[p][v].number
      /\ row.level = versions[p][v].level
      /\ row.source = versions[p][v].source
      /\ row.superseded = versions[p][v].superseded
      /\ row.valid = versions[p][v].valid
      /\ row.confirmed = TRUE
  BY <1>1 DEF Version
<1> HIDE DEF row
<1>4. /\ versions'[p] = [versions[p] EXCEPT ![v] = row]
      /\ \A q \in Participant : q # p => versions'[q] = versions[q]
  BY <1>2 DEF TypeOK
<1>5. /\ DOMAIN versions'[p] = DOMAIN versions[p]
      /\ versions'[p][v] = row
      /\ \A w \in DOMAIN versions[p] : w # v => versions'[p][w] = versions[p][w]
  BY <1>1, <1>4
<1>6. \A w \in DOMAIN versions[p] : versions[p][w].confirmed \in BOOLEAN
  BY RowTypes DEF Version
<1> QED BY <1>3, <1>4, <1>5, <1>6

LEMMA HandlerSourceStep == TypeOK /\ SourceInv /\ [HandlerNext]_rowVars => SourceInv'
<1> SUFFICES ASSUME TypeOK, SourceInv, [HandlerNext]_rowVars, NEW q \in Participant
             PROVE  SourcesOK(q)'
  BY DEF SourceInv
<1>1. SourcesOK(q)
  BY DEF SourceInv
<1>2. CASE decisions'[q] = decisions[q] /\ versions'[q] = versions[q]
  BY <1>1, <1>2 DEF SourcesOK
<1>3. ASSUME NEW p \in Participant, NEW l \in Level, Decide(p, l) PROVE SourcesOK(q)'
  <2>1. versions' = versions
    BY <1>3 DEF Decide
  <2>2. CASE decisions'[q] = decisions[q]
    BY <1>2, <2>1, <2>2
  <2>3. CASE Decided(q)
    <3> DEFINE k == Len(decisions[q])
    <3>1. PICK m \in Level : decisions'[q] = Append(decisions[q], [level |-> m, valid |-> TRUE])
      BY <2>3 DEF Decided
    <3>2. decisions[q] \in Seq(Decision) /\ [level |-> m, valid |-> TRUE] \in Decision
      BY DEF TypeOK, Decision
    <3>3. /\ decisions'[q] \in Seq(Decision)
          /\ Len(decisions'[q]) = k + 1
          /\ \A d \in 1..k : decisions'[q][d] = decisions[q][d]
      BY <3>1, <3>2, AppendRow
    <3>4. DOMAIN decisions'[q] = 1..(k + 1) /\ DOMAIN decisions[q] = 1..k /\ k \in Nat
      BY <3>3, SeqDomain, RowTypes
    <3>5. \A d \in 1..k : d \in 1..(k + 1)
      BY <3>4
    <3> HIDE DEF k
    <3> QED BY <1>1, <2>1, <3>3, <3>4, <3>5 DEF SourcesOK
  <2> QED BY <1>3, <2>2, <2>3 DEF Decide, Decided, TypeOK
<1>4. ASSUME NEW p \in Participant,
             \/ PublishChanged(p)
             \/ \E a \in DOMAIN appeals[p] : ResolveAdjusted(p, a)
      PROVE  SourcesOK(q)'
  <2>1. PICK d \in LatestDecision(p) : PublishedFrom(p, d)
    BY <1>4, PublishSources
  <2>2. decisions' = decisions
    BY <1>4, PublishSources
  <2>3. CASE q = p
    BY <1>1, <2>1, <2>2, <2>3, PublishKeepsSources
  <2>4. CASE q # p
    BY <1>2, <1>4, <2>2, <2>4, PublishSteps DEF SameVersions
  <2> QED BY <2>3, <2>4
<1>5. ASSUME NEW p \in Participant, NEW v \in DOMAIN versions[p], Confirm(p, v)
      PROVE  SourcesOK(q)'
  <2>1. decisions' = decisions
    BY <1>5 DEF Confirm
  <2>2. CASE q = p
    BY <1>1, <1>5, <2>1, <2>2, ConfirmedRow DEF SourcesOK
  <2>3. CASE q # p
    BY <1>2, <1>5, <2>1, <2>3, ConfirmedRow
  <2> QED BY <2>2, <2>3
<1>6. ASSUME NEW p \in Participant, NEW v \in DOMAIN versions[p], CreateAppeal(p, v)
      PROVE  SourcesOK(q)'
  BY <1>2, <1>6 DEF CreateAppeal
<1>7. ASSUME NEW p \in Participant, NEW a \in DOMAIN appeals[p], ResolveMaintained(p, a)
      PROVE  SourcesOK(q)'
  BY <1>2, <1>7 DEF ResolveMaintained
<1> QED BY <1>2, <1>3, <1>4, <1>5, <1>6, <1>7, RowSteps
        DEF EmployeeStep, AppealStep

-----------------------------------------------------------------------------
(* Appeals.                                                                 *)

\* AppealingIsBound for one participant, and that an appeal names a version row.
BoundOK(p) ==
    /\ \A a, b \in ValidAppeals(p) : a = b
    /\ status[p] = "APPEALING" =>
          \E a \in OpenAppeals(p) : appeals[p][a].version \in CurrentVersion(p)
    /\ \A a \in DOMAIN appeals[p] : appeals[p][a].version \in DOMAIN versions[p]

\* What AdjustedByNewDecision says of one appeal that was adjusted.
AdjustedFrom(p, v, basis) ==
    /\ versions[p][v].source < basis
    /\ v \notin CurrentVersion(p)
    /\ \E w \in DOMAIN versions[p] : w > v /\ versions[p][w].source = basis

AdjustedOK(p) ==
    \A a \in DOMAIN appeals[p], v, basis \in Nat :
        /\ appeals[p][a].adjusted
        /\ appeals[p][a].version = v
        /\ appeals[p][a].basis = basis
        => AdjustedFrom(p, v, basis)

AppealInv == \A p \in Participant : BoundOK(p) /\ AdjustedOK(p)

LEMMA AppealInvParts == TypeOK /\ AppealInv => AppealingIsBound /\ AdjustedByNewDecision
<1> SUFFICES ASSUME TypeOK, AppealInv PROVE AppealingIsBound /\ AdjustedByNewDecision
  OBVIOUS
<1>1. AppealingIsBound
  BY DEF AppealInv, BoundOK, AppealingIsBound
<1>2. ASSUME NEW p \in Participant, NEW a \in DOMAIN appeals[p], appeals[p][a].adjusted
      PROVE  AdjustedFrom(p, appeals[p][a].version, appeals[p][a].basis)
  <2>1. appeals[p][a] \in Appeal
    BY RowTypes
  <2>2. appeals[p][a].version \in Nat /\ appeals[p][a].basis \in Nat
    BY <2>1 DEF Appeal
  <2> QED BY <1>2, <2>2 DEF AppealInv, AdjustedOK
<1>3. AdjustedByNewDecision
  BY <1>2 DEF AdjustedFrom, AdjustedByNewDecision
<1> QED BY <1>1, <1>3

LEMMA AppealInit == RowsInit => AppealInv
BY DEF RowsInit, AppealInv, BoundOK, AdjustedOK, ValidAppeals

\* A step that leaves the appeals alone, and a participant who is appealing as well.
LEMMA BoundFrame ==
    ASSUME NEW q \in Participant, BoundOK(q), SameAppeals(q), VersionsGrow(q),
           status'[q] = "APPEALING" => status[q] = "APPEALING" /\ SameVersions(q)
    PROVE  BoundOK(q)'
<1>1. ValidAppeals(q)' = ValidAppeals(q) /\ OpenAppeals(q)' = OpenAppeals(q)
  BY DEF SameAppeals, ValidAppeals, OpenAppeals
<1>2. \A a \in DOMAIN appeals'[q] : appeals'[q][a].version \in DOMAIN versions'[q]
  BY DEF BoundOK, SameAppeals, VersionsGrow
<1>3. SameVersions(q) => CurrentVersion(q)' = CurrentVersion(q)
  BY DEF SameVersions, CurrentVersion
<1> QED BY <1>1, <1>2, <1>3 DEF BoundOK, SameAppeals

\* Versions that only grow keep what was said of an adjusted appeal.
LEMMA AdjustedStays ==
    ASSUME TypeOK, NEW q \in Participant, VersionsGrow(q),
           NEW v \in DOMAIN versions[q], NEW basis, AdjustedFrom(q, v, basis)
    PROVE  AdjustedFrom(q, v, basis)'
<1>1. versions'[q][v].source = versions[q][v].source
  BY DEF VersionsGrow
<1>2. v \notin CurrentVersion(q)'
  BY DEF VersionsGrow, CurrentVersion, AdjustedFrom
<1>3. PICK w \in DOMAIN versions[q] : w > v /\ versions[q][w].source = basis
  BY DEF AdjustedFrom
<1>4. w \in DOMAIN versions'[q] /\ versions'[q][w].source = basis
  BY <1>3 DEF VersionsGrow
<1> QED BY <1>1, <1>2, <1>3, <1>4 DEF AdjustedFrom

\* A step after which no further appeal counts as adjusted.
LEMMA AdjustedFrame ==
    ASSUME TypeOK, NEW q \in Participant, BoundOK(q), AdjustedOK(q), VersionsGrow(q),
           \A a \in DOMAIN appeals'[q] : appeals'[q][a].adjusted =>
               /\ a \in DOMAIN appeals[q]
               /\ appeals[q][a].adjusted
               /\ appeals'[q][a].version = appeals[q][a].version
               /\ appeals'[q][a].basis = appeals[q][a].basis
    PROVE  AdjustedOK(q)'
<1> SUFFICES ASSUME NEW a \in DOMAIN appeals'[q], NEW v \in Nat, NEW basis \in Nat,
                    appeals'[q][a].adjusted,
                    appeals'[q][a].version = v,
                    appeals'[q][a].basis = basis
             PROVE  AdjustedFrom(q, v, basis)'
  BY DEF AdjustedOK
<1>1. v \in DOMAIN versions[q] /\ AdjustedFrom(q, v, basis)
  BY DEF BoundOK, AdjustedOK
<1> QED BY <1>1, AdjustedStays

\* Filing an appeal: the first of the round, on the current version.
LEMMA CreateKeepsAppeals ==
    ASSUME TypeOK, NEW p \in Participant, BoundOK(p), AdjustedOK(p),
           NEW v \in DOMAIN versions[p], CreateAppeal(p, v)
    PROVE  BoundOK(p)' /\ AdjustedOK(p)'
<1> DEFINE k == Len(appeals[p])
<1>1. v \in Nat /\ v \in CurrentVersion(p) /\ ValidAppeals(p) = {}
  BY RowTypes DEF CreateAppeal, Appealable, AppealUsed
<1>2. versions' = versions
  BY DEF CreateAppeal
<1>3. appeals'[p] = Append(appeals[p], NewAppeal(v))
  BY DEF CreateAppeal, NewAppeal, TypeOK
<1>4. /\ k \in Nat
      /\ DOMAIN appeals[p] = 1..k
      /\ DOMAIN appeals'[p] = 1..(k + 1)
      /\ \A a \in 1..k : appeals'[p][a] = appeals[p][a]
      /\ appeals'[p][k + 1] = NewAppeal(v)
  BY <1>1, <1>3, AppealedRow
<1>5. /\ \A a \in 1..(k + 1) : a \in 1..k \/ a = k + 1
      /\ k + 1 \in 1..(k + 1)
  BY <1>4
<1> HIDE DEF k
<1>6. appeals'[p][k + 1].valid /\ ~appeals'[p][k + 1].resolved
      /\ appeals'[p][k + 1].version = v /\ ~appeals'[p][k + 1].adjusted
  BY <1>4 DEF NewAppeal
<1>7. \A a \in 1..k : ~appeals'[p][a].valid
  BY <1>1, <1>4 DEF ValidAppeals
<1>8. ValidAppeals(p)' = {k + 1} /\ OpenAppeals(p)' = {k + 1}
  BY <1>4, <1>5, <1>6, <1>7 DEF ValidAppeals, OpenAppeals
<1>9. CurrentVersion(p)' = CurrentVersion(p)
  BY <1>2 DEF CurrentVersion
<1>10. \A a \in DOMAIN appeals'[p] : appeals'[p][a].version \in DOMAIN versions'[p]
  BY <1>2, <1>4, <1>5, <1>6 DEF BoundOK
<1>11. BoundOK(p)'
  BY <1>1, <1>6, <1>8, <1>9, <1>10 DEF BoundOK
<1>12. VersionsGrow(p)
  BY <1>2 DEF VersionsGrow
<1>13. AdjustedOK(p)'
  BY <1>4, <1>5, <1>6, <1>12, AdjustedFrame
<1> QED BY <1>11, <1>13

\* Closing an appeal of a participant who stops appealing.
LEMMA CloseKeepsBound ==
    ASSUME TypeOK, NEW p \in Participant, BoundOK(p), VersionsGrow(p),
           NEW a \in DOMAIN appeals[p], NEW d \in Nat, NEW changed,
           Closed(p, a, d, changed), status'[p] # "APPEALING"
    PROVE  BoundOK(p)'
<1>1. /\ DOMAIN appeals'[p] = DOMAIN appeals[p]
      /\ \A b \in DOMAIN appeals[p] : b # a => appeals'[p][b] = appeals[p][b]
      /\ appeals'[p][a].version = appeals[p][a].version
      /\ appeals'[p][a].valid = appeals[p][a].valid
  BY ClosedRow
<1>2. ValidAppeals(p)' = ValidAppeals(p)
  BY <1>1 DEF ValidAppeals
<1>3. \A b \in DOMAIN appeals'[p] : appeals'[p][b].version \in DOMAIN versions'[p]
  BY <1>1 DEF BoundOK, VersionsGrow
<1> QED BY <1>2, <1>3 DEF BoundOK

LEMMA MaintainKeepsAppeals ==
    ASSUME TypeOK, NEW p \in Participant, BoundOK(p), AdjustedOK(p),
           NEW a \in DOMAIN appeals[p], ResolveMaintained(p, a)
    PROVE  BoundOK(p)' /\ AdjustedOK(p)'
<1>0. PICK changed : changed = FALSE
  OBVIOUS
<1>1. PICK d \in LatestDecision(p) : CloseAppeal(p, a, d, changed)
  BY <1>0 DEF ResolveMaintained
<1>2. d \in Nat
  BY QueryTypes
<1>3. Closed(p, a, d, changed)
  BY <1>1, CloseRows
<1>4. versions' = versions /\ status'[p] # "APPEALING"
  BY DEF ResolveMaintained, TypeOK
<1>5. VersionsGrow(p)
  BY <1>4 DEF VersionsGrow
<1>6. BoundOK(p)'
  BY <1>2, <1>3, <1>4, <1>5, CloseKeepsBound
<1>7. /\ DOMAIN appeals'[p] = DOMAIN appeals[p]
      /\ \A b \in DOMAIN appeals[p] : b # a => appeals'[p][b] = appeals[p][b]
  BY <1>2, <1>3, ClosedRow
<1>8. appeals'[p][a].adjusted = changed
  <2>1. appeals[p] \in Seq(Appeal) /\ appeals[p][a] \in Appeal
    BY RowTypes DEF TypeOK
  <2>2. appeals'[p][a] = [appeals[p][a] EXCEPT !.resolved = TRUE, !.adjusted = changed, !.basis = d]
    BY <1>3, <2>1 DEF Closed
  <2> QED BY <2>1, <2>2 DEF Appeal
<1>9. ~appeals'[p][a].adjusted
  BY <1>0, <1>8
<1>10. AdjustedOK(p)'
  BY <1>5, <1>7, <1>9, AdjustedFrame
<1> QED BY <1>6, <1>10

\* The decision an appeal is adjusted on is newer than the one appealed against: both
\* are in force, it is the latest and another one.
LEMMA AdjustKeepsAppeals ==
    ASSUME TypeOK, SourceInv, NEW p \in Participant, BoundOK(p), AdjustedOK(p),
           VersionsGrow(p), NEW a \in DOMAIN appeals[p], ResolveAdjusted(p, a)
    PROVE  BoundOK(p)' /\ AdjustedOK(p)'
<1> DEFINE k == Len(versions[p])
<1>1. PICK v : v = appeals[p][a].version
  OBVIOUS
<1>2. PICK d \in LatestDecision(p) :
          /\ ResolvableOn(p, a, d)
          /\ IsNewDecision(p, v, d)
          /\ PublishVersion(p, versions[p][v].number + 1, FinalLevel(p, d), d)
          /\ CloseAppeal(p, a, d, TRUE)
  BY <1>1 DEF ResolveAdjusted
<1>3. d \in Nat
  BY QueryTypes
<1>4. Closed(p, a, d, TRUE)
  BY <1>2, CloseRows
<1>5. status'[p] # "APPEALING"
  BY DEF ResolveAdjusted, TypeOK
<1>6. BoundOK(p)'
  BY <1>3, <1>4, <1>5, CloseKeepsBound
<1>7. v \in CurrentVersion(p)
  BY <1>1, <1>2 DEF ResolvableOn
<1>8. versions[p][v].number + 1 \in NextNumbers(p)
  BY <1>7 DEF NextNumbers
<1>9. PublishedFrom(p, d)
  BY <1>2, <1>8 DEF PublishVersion, PublishedFrom, TypeOK
<1>10. /\ k \in Nat
       /\ DOMAIN versions[p] = 1..k
       /\ DOMAIN versions'[p] = 1..(k + 1)
       /\ versions'[p][k + 1].source = d
       /\ \A w \in 1..k : /\ versions'[p][w].source = versions[p][w].source
                          /\ versions'[p][w].superseded <=>
                                versions[p][w].superseded \/ w \in CurrentVersion(p)
  BY <1>9, PublishedFromRows
<1>11. v \in 1..k /\ versions[p][v].valid
  BY <1>7, <1>10 DEF CurrentVersion
<1>12. versions[p][v].source < d
  <2>1. /\ versions[p][v].source \in DOMAIN decisions[p]
        /\ decisions[p][versions[p][v].source].valid
    BY <1>10, <1>11 DEF SourceInv, SourcesOK
  <2>2. versions[p][v].source <= d
    BY <2>1 DEF LatestDecision, ValidDecisions
  <2>3. versions[p][v].source # d
    BY <1>2 DEF IsNewDecision
  <2>4. versions[p][v].source \in Nat
    BY <2>1, RowTypes
  <2> QED BY <1>3, <2>2, <2>3, <2>4
<1>13. AdjustedFrom(p, v, d)'
  <2>1. v \notin CurrentVersion(p)'
    BY <1>7, <1>10, <1>11 DEF CurrentVersion
  <2>2. k + 1 \in DOMAIN versions'[p] /\ k + 1 > v
    BY <1>10, <1>11
  <2> QED BY <1>10, <1>11, <1>12, <2>1, <2>2 DEF AdjustedFrom
<1>14. /\ DOMAIN appeals'[p] = DOMAIN appeals[p]
       /\ \A b \in DOMAIN appeals[p] : b # a => appeals'[p][b] = appeals[p][b]
       /\ appeals'[p][a].version = v
       /\ appeals'[p][a].basis = d
  BY <1>1, <1>3, <1>4, ClosedRow
<1>15. ASSUME NEW b \in DOMAIN appeals'[p], NEW u \in Nat, NEW basis \in Nat,
              appeals'[p][b].adjusted,
              appeals'[p][b].version = u,
              appeals'[p][b].basis = basis
       PROVE  AdjustedFrom(p, u, basis)'
  <2>1. CASE b = a
    BY <1>13, <1>14, <1>15, <2>1
  <2>2. CASE b # a
    <3>1. appeals'[p][b] = appeals[p][b] /\ b \in DOMAIN appeals[p]
      BY <1>14, <2>2
    <3>2. u \in DOMAIN versions[p] /\ AdjustedFrom(p, u, basis)
      BY <1>15, <3>1 DEF BoundOK, AdjustedOK
    <3> QED BY <3>2, AdjustedStays
  <2> QED BY <2>1, <2>2
<1> QED BY <1>6, <1>15 DEF AdjustedOK

\* A rollback: no appeal is in force any more, nobody is appealing.
LEMMA RollbackKeepsAppeals ==
    ASSUME TypeOK, InvalidateResults, ReleaseParticipants,
           NEW p \in Participant, BoundOK(p), AdjustedOK(p), VersionsGrow(p)
    PROVE  BoundOK(p)' /\ AdjustedOK(p)'
<1>1. AppealsVoided(p)
  BY DEF InvalidateResults, AppealsVoided
<1>2. status'[p] # "APPEALING"
  BY DEF ReleaseParticipants, ResultStatus
<1>3. ValidAppeals(p)' = {}
  BY RollbackVoidsAppeals
<1>4. /\ DOMAIN appeals'[p] = DOMAIN appeals[p]
      /\ \A a \in DOMAIN appeals[p] :
            /\ appeals'[p][a].version = appeals[p][a].version
            /\ appeals'[p][a].adjusted = appeals[p][a].adjusted
            /\ appeals'[p][a].basis = appeals[p][a].basis
  BY <1>1, VoidedRow
<1>5. BoundOK(p)'
  BY <1>2, <1>3, <1>4 DEF BoundOK, VersionsGrow
<1>6. AdjustedOK(p)'
  BY <1>4, AdjustedFrame
<1> QED BY <1>5, <1>6

\* A participant's status becomes APPEALING only by filing an appeal.
LEMMA StartsAppealing ==
    ASSUME TypeOK, [HandlerNext]_rowVars, NEW q \in Participant, status'[q] = "APPEALING"
    PROVE  \/ status[q] = "APPEALING" /\ SameVersions(q)
           \/ \E v \in DOMAIN versions[q] : CreateAppeal(q, v)
<1> USE DEF rowVars, inputVars, chainVars, SameVersions
<1>1. ASSUME NEW p \in Participant, ParticipantStep(p)
      PROVE  \/ status[q] = "APPEALING" /\ SameVersions(q)
             \/ \E v \in DOMAIN versions[q] : CreateAppeal(q, v)
  <2>1. CASE InputStep(p)
    BY <2>1 DEF InputStep, SubmitSelf, SubmitManager, ConfirmRedLine, RevokeRedLine,
                ViewManagerContext
  <2>2. CASE CalibrationStep(p)
    BY <2>2 DEF CalibrationStep, OpenPage, Keep, Adjust, Decide, DecidedStatus, TypeOK
  <2>3. CASE PublishStep(p)
    <3>1. CASE PublishChanged(p)
      BY <3>1, PublishSteps DEF PublishChanged, TypeOK
    <3>2. CASE PublishUnchanged(p)
      BY <3>2 DEF PublishUnchanged
    <3> QED BY <2>3, <3>1, <3>2 DEF PublishStep
  <2>4. ASSUME NEW v \in DOMAIN versions[p], Confirm(p, v)
        PROVE  status[q] = "APPEALING" /\ SameVersions(q)
    BY <2>4, ConfirmedRow DEF Confirm, TypeOK
  <2>5. ASSUME NEW v \in DOMAIN versions[p], CreateAppeal(p, v)
        PROVE  \/ status[q] = "APPEALING" /\ SameVersions(q)
               \/ \E w \in DOMAIN versions[q] : CreateAppeal(q, w)
    <3>1. CASE q = p
      BY <2>5, <3>1
    <3>2. CASE q # p
      BY <2>5, <3>2 DEF CreateAppeal, TypeOK
    <3> QED BY <3>1, <3>2
  <2>6. ASSUME NEW a \in DOMAIN appeals[p], ResolveMaintained(p, a)
        PROVE  status[q] = "APPEALING" /\ SameVersions(q)
    BY <2>6 DEF ResolveMaintained, TypeOK
  <2>7. ASSUME NEW a \in DOMAIN appeals[p], ResolveAdjusted(p, a)
        PROVE  status[q] = "APPEALING" /\ SameVersions(q)
    <3>1. q # p => SameVersions(q)
      BY <2>7, PublishSteps
    <3> QED BY <2>7, <3>1 DEF ResolveAdjusted, TypeOK
  <2>8. CASE LeaveStep(p)
    BY <2>8 DEF LeaveStep, MarkNoResult, RevokeNoResult, Withdraw, TypeOK
  <2> QED BY <1>1, <2>1, <2>2, <2>3, <2>4, <2>5, <2>6, <2>7, <2>8
          DEF ParticipantStep, EmployeeStep, AppealStep
<1>2. CASE StartPublish \/ PublishAborted \/ UNCHANGED rowVars
  BY <1>2 DEF StartPublish, PublishAborted
<1>3. CASE Schedule \/ ReturnToDraft \/ Activate
  BY <1>3 DEF Schedule, ReturnToDraft, Activate
<1>4. CASE ConfigurationStep
  BY <1>4, ConfigurationFrame
<1> QED BY <1>1, <1>2, <1>3, <1>4 DEF HandlerNext, CycleStep

LEMMA HandlerAppealStep == TypeOK /\ SourceInv /\ AppealInv /\ [HandlerNext]_rowVars => AppealInv'
<1> SUFFICES ASSUME TypeOK, SourceInv, AppealInv, [HandlerNext]_rowVars, NEW q \in Participant
             PROVE  BoundOK(q)' /\ AdjustedOK(q)'
  BY DEF AppealInv
<1>1. BoundOK(q) /\ AdjustedOK(q) /\ VersionsGrow(q)
  BY HandlerVersionsGrowStep DEF AppealInv
<1>2. CASE \E v \in DOMAIN versions[q] : CreateAppeal(q, v)
  BY <1>1, <1>2, CreateKeepsAppeals
<1>3. CASE SameAppeals(q) /\ ~\E v \in DOMAIN versions[q] : CreateAppeal(q, v)
  <2>1. status'[q] = "APPEALING" => status[q] = "APPEALING" /\ SameVersions(q)
    BY <1>3, StartsAppealing
  <2>2. BoundOK(q)'
    BY <1>1, <1>3, <2>1, BoundFrame
  <2>3. AdjustedOK(q)'
    BY <1>1, <1>3, AdjustedFrame DEF SameAppeals
  <2> QED BY <2>2, <2>3
<1>4. ASSUME NEW a \in DOMAIN appeals[q], ResolveMaintained(q, a)
      PROVE  BoundOK(q)' /\ AdjustedOK(q)'
  BY <1>1, <1>4, MaintainKeepsAppeals
<1>5. ASSUME NEW a \in DOMAIN appeals[q], ResolveAdjusted(q, a)
      PROVE  BoundOK(q)' /\ AdjustedOK(q)'
  BY <1>1, <1>5, AdjustKeepsAppeals
<1>7. ASSUME NEW p \in Participant,
             \/ PublishChanged(p)
             \/ \E l \in Level : Decide(p, l)
             \/ \E v \in DOMAIN versions[p] : Confirm(p, v)
      PROVE  SameAppeals(q)
  BY <1>7 DEF PublishChanged, Decide, Confirm, SameAppeals
<1>8. ASSUME NEW p \in Participant, p # q, NEW v \in DOMAIN versions[p], CreateAppeal(p, v)
      PROVE  SameAppeals(q)
  BY <1>8 DEF CreateAppeal, SameAppeals, TypeOK
<1>9. ASSUME NEW p \in Participant, p # q, AppealStep(p) PROVE SameAppeals(q)
  BY <1>9, ResolveRows DEF AppealStep
<1>10. CASE UNCHANGED <<decisions, versions, appeals, outbox>>
  BY <1>2, <1>3, <1>10 DEF SameAppeals
<1>11. ASSUME NEW p \in Participant, EmployeeStep(p) \/ AppealStep(p)
       PROVE  BoundOK(q)' /\ AdjustedOK(q)'
  BY <1>2, <1>3, <1>4, <1>5, <1>7, <1>8, <1>9, <1>11 DEF EmployeeStep, AppealStep
<1> QED BY <1>2, <1>3, <1>7, <1>10, <1>11, RowSteps

-----------------------------------------------------------------------------
(* Events.                                                                  *)

Maintained(p) ==
    {a \in DOMAIN appeals[p] : appeals[p][a].resolved /\ ~appeals[p][a].adjusted}

LostVersions(p) ==
    {w \in DOMAIN versions[p] : ~versions[p][w].valid /\ ~versions[p][w].superseded}

\* EventsMatchRows for one participant, row by row.
EventsOK(p) ==
    \A n \in Nat :
        /\ <<"RESULT_PUBLISHED", p, n>> \in outbox <=> n \in DOMAIN versions[p]
        /\ <<"APPEAL_CREATED", p, n>> \in outbox <=> n \in DOMAIN appeals[p]
        /\ <<"APPEAL_RESOLVED_MAINTAINED", p, n>> \in outbox <=> n \in Maintained(p)
        /\ <<"RESULT_INVALIDATED", p, n>> \in outbox <=> n \in LostVersions(p)

EventInv == \A p \in Participant : EventsOK(p)

LEMMA EventInit == RowsInit => EventInv
BY DEF RowsInit, EventInv, EventsOK, Maintained, LostVersions

LEMMA EventInvIsProperty == TypeOK /\ EventInv => EventsMatchRows
<1> SUFFICES ASSUME TypeOK, EventInv PROVE EventsMatchRows
  OBVIOUS
<1> DEFINE
      P == UNION {{<<"RESULT_PUBLISHED", p, v>> : v \in DOMAIN versions[p]} :
                     p \in Participant}
      A == UNION {{<<"APPEAL_CREATED", p, a>> : a \in DOMAIN appeals[p]} :
                     p \in Participant}
      M == UNION {{<<"APPEAL_RESOLVED_MAINTAINED", p, a>> : 
                         a \in {b \in DOMAIN appeals[p] :
                                   appeals[p][b].resolved /\ ~appeals[p][b].adjusted}} :
                     p \in Participant}
      I == UNION {{<<"RESULT_INVALIDATED", p, v>> : 
                         v \in {w \in DOMAIN versions[p] :
                                   ~versions[p][w].valid /\ ~versions[p][w].superseded}} :
                     p \in Participant}
<1>1. \A p \in Participant : /\ DOMAIN versions[p] \subseteq Nat
                             /\ DOMAIN appeals[p] \subseteq Nat
                             /\ Maintained(p) \subseteq Nat
                             /\ LostVersions(p) \subseteq Nat
  BY RowTypes DEF Maintained, LostVersions
<1>2. \A p \in Participant : EventsOK(p)
  BY DEF EventInv
<1>3. outbox \subseteq P \cup A \cup M \cup I
  <2> SUFFICES ASSUME NEW e \in outbox PROVE e \in P \cup A \cup M \cup I
    OBVIOUS
  <2>1. PICK t \in EventType, p \in Participant, n \in Nat : e = <<t, p, n>>
    BY DEF TypeOK
  <2>2. CASE t = "RESULT_PUBLISHED"
    <3>1. n \in DOMAIN versions[p]
      BY <1>2, <2>1, <2>2 DEF EventsOK
    <3> QED BY <2>1, <2>2, <3>1
  <2>3. CASE t = "APPEAL_CREATED"
    <3>1. n \in DOMAIN appeals[p]
      BY <1>2, <2>1, <2>3 DEF EventsOK
    <3> QED BY <2>1, <2>3, <3>1
  <2>4. CASE t = "APPEAL_RESOLVED_MAINTAINED"
    <3>1. n \in Maintained(p)
      BY <1>2, <2>1, <2>4 DEF EventsOK
    <3>2. e \in M
      BY <2>1, <2>4, <3>1 DEF Maintained
    <3> QED BY <3>2
  <2>5. CASE t = "RESULT_INVALIDATED"
    <3>1. n \in LostVersions(p)
      BY <1>2, <2>1, <2>5 DEF EventsOK
    <3>2. e \in I
      BY <2>1, <2>5, <3>1 DEF LostVersions
    <3> QED BY <3>2
  <2> QED BY <2>1, <2>2, <2>3, <2>4, <2>5 DEF EventType
<1>4. P \subseteq outbox
  <2> SUFFICES ASSUME NEW e \in P PROVE e \in outbox
    OBVIOUS
  <2>1. PICK p \in Participant : \E n \in DOMAIN versions[p] : e = <<"RESULT_PUBLISHED", p, n>>
    OBVIOUS
  <2> QED BY <1>1, <1>2, <2>1 DEF EventsOK
<1>5. A \subseteq outbox
  <2> SUFFICES ASSUME NEW e \in A PROVE e \in outbox
    OBVIOUS
  <2>1. PICK p \in Participant : \E n \in DOMAIN appeals[p] : e = <<"APPEAL_CREATED", p, n>>
    OBVIOUS
  <2> QED BY <1>1, <1>2, <2>1 DEF EventsOK
<1>6. M \subseteq outbox
  <2> SUFFICES ASSUME NEW e \in M PROVE e \in outbox
    OBVIOUS
  <2>1. PICK p \in Participant : \E n \in Maintained(p) : e = <<"APPEAL_RESOLVED_MAINTAINED", p, n>>
    BY DEF Maintained
  <2> QED BY <1>1, <1>2, <2>1 DEF EventsOK
<1>7. I \subseteq outbox
  <2> SUFFICES ASSUME NEW e \in I PROVE e \in outbox
    OBVIOUS
  <2>1. PICK p \in Participant : \E n \in LostVersions(p) : e = <<"RESULT_INVALIDATED", p, n>>
    BY DEF LostVersions
  <2> QED BY <1>1, <1>2, <2>1 DEF EventsOK
<1> HIDE DEF P, A, M, I
<1>8. outbox = P \cup A \cup M \cup I
  BY <1>3, <1>4, <1>5, <1>6, <1>7
<1> QED BY <1>8 DEF P, A, M, I, EventsMatchRows

\* A step that leaves the rows of a participant alone, and announces one of another.
LEMMA EventOthers ==
    ASSUME NEW q \in Participant, EventsOK(q), SameVersions(q), SameAppeals(q),
           NEW p \in Participant, p # q, NEW t, NEW m, outbox' = outbox \cup {<<t, p, m>>}
    PROVE  EventsOK(q)'
<1>1. /\ DOMAIN versions'[q] = DOMAIN versions[q]
      /\ DOMAIN appeals'[q] = DOMAIN appeals[q]
      /\ Maintained(q)' = Maintained(q)
      /\ LostVersions(q)' = LostVersions(q)
  BY DEF SameVersions, SameAppeals, Maintained, LostVersions
<1>2. \A s, n : <<s, q, n>> \in outbox' <=> <<s, q, n>> \in outbox
  OBVIOUS
<1> QED BY <1>1, <1>2 DEF EventsOK

LEMMA EventUntouched ==
    ASSUME NEW q \in Participant, EventsOK(q), SameVersions(q), SameAppeals(q),
           outbox' = outbox
    PROVE  EventsOK(q)'
BY DEF EventsOK, SameVersions, SameAppeals, Maintained, LostVersions

\* A publication appends a row and loses none.
LEMMA PublishKeepsLost ==
    ASSUME TypeOK, NEW p \in Participant, NEW d \in LatestDecision(p), PublishedFrom(p, d)
    PROVE  LostVersions(p)' = LostVersions(p)
<1> DEFINE k == Len(versions[p])
<1>1. /\ k \in Nat
      /\ DOMAIN versions[p] = 1..k
      /\ DOMAIN versions'[p] = 1..(k + 1)
      /\ versions'[p][k + 1].valid = TRUE
      /\ \A v \in 1..k :
             LET old == versions[p][v]  new == versions'[p][v] IN
             /\ new.valid = old.valid
             /\ new.superseded <=> old.superseded \/ v \in CurrentVersion(p)
  BY PublishedFromRows
<1>2. \A v \in 1..(k + 1) : v \in 1..k \/ v = k + 1
  BY <1>1
<1>3. \A v \in 1..k : v \in 1..(k + 1)
  BY <1>1
<1> HIDE DEF k
<1> QED BY <1>1, <1>2, <1>3 DEF LostVersions, CurrentVersion

LEMMA PublishKeepsEvents ==
    ASSUME TypeOK, NEW p \in Participant, EventsOK(p), NEW d \in LatestDecision(p),
           PublishedFrom(p, d), DOMAIN appeals'[p] = DOMAIN appeals[p],
           Maintained(p)' = Maintained(p),
           outbox' = outbox \cup {<<"RESULT_PUBLISHED", p, Len(versions[p]) + 1>>}
    PROVE  EventsOK(p)'
<1> DEFINE k == Len(versions[p])
<1>1. /\ k \in Nat
      /\ DOMAIN versions[p] = 1..k
      /\ DOMAIN versions'[p] = 1..(k + 1)
  BY PublishedFromRows
<1>2. LostVersions(p)' = LostVersions(p)
  BY PublishKeepsLost
<1>3. \A n \in Nat : n \in 1..(k + 1) <=> n \in 1..k \/ n = k + 1
  BY <1>1
<1>4. outbox' = outbox \cup {<<"RESULT_PUBLISHED", p, k + 1>>}
  OBVIOUS
<1> HIDE DEF k
<1> QED BY <1>1, <1>2, <1>3, <1>4 DEF EventsOK

LEMMA ConfirmKeepsEvents ==
    ASSUME TypeOK, NEW p \in Participant, EventsOK(p), NEW v \in DOMAIN versions[p],
           Confirm(p, v)
    PROVE  EventsOK(p)'
<1>1. /\ DOMAIN versions'[p] = DOMAIN versions[p]
      /\ LostVersions(p)' = LostVersions(p)
  BY ConfirmedRow DEF LostVersions
<1>2. appeals' = appeals /\ outbox' = outbox
  BY DEF Confirm
<1>3. Maintained(p)' = Maintained(p)
  BY <1>2 DEF Maintained
<1> QED BY <1>1, <1>2, <1>3 DEF EventsOK

LEMMA CreateKeepsEvents ==
    ASSUME TypeOK, NEW p \in Participant, EventsOK(p), NEW v \in DOMAIN versions[p],
           CreateAppeal(p, v)
    PROVE  EventsOK(p)'
<1> DEFINE k == Len(appeals[p])
<1>1. v \in Nat
  BY RowTypes
<1>2. /\ versions' = versions
      /\ outbox' = outbox \cup {<<"APPEAL_CREATED", p, k + 1>>}
      /\ appeals'[p] = Append(appeals[p], NewAppeal(v))
  BY DEF CreateAppeal, NewAppeal, TypeOK
<1>3. /\ k \in Nat
      /\ DOMAIN appeals[p] = 1..k
      /\ DOMAIN appeals'[p] = 1..(k + 1)
      /\ \A a \in 1..k : appeals'[p][a] = appeals[p][a]
      /\ appeals'[p][k + 1] = NewAppeal(v)
  BY <1>1, <1>2, AppealedRow
<1>4. ~appeals'[p][k + 1].resolved
  BY <1>3 DEF NewAppeal
<1>5. \A n \in Nat : n \in 1..(k + 1) <=> n \in 1..k \/ n = k + 1
  BY <1>3
<1>6. 1..(k + 1) \subseteq Nat /\ 1..k \subseteq Nat
  BY <1>3
<1> HIDE DEF k
<1>7. Maintained(p)' = Maintained(p)
  BY <1>3, <1>4, <1>5, <1>6 DEF Maintained
<1>8. LostVersions(p)' = LostVersions(p)
  BY <1>2 DEF LostVersions
<1> QED BY <1>2, <1>3, <1>5, <1>7, <1>8 DEF EventsOK

LEMMA MaintainKeepsEvents ==
    ASSUME TypeOK, NEW p \in Participant, EventsOK(p), NEW a \in DOMAIN appeals[p],
           ResolveMaintained(p, a)
    PROVE  EventsOK(p)'
<1>0. PICK changed : changed = FALSE
  OBVIOUS
<1>1. PICK d \in LatestDecision(p) : CloseAppeal(p, a, d, changed)
  BY <1>0 DEF ResolveMaintained
<1>2. d \in Nat
  BY QueryTypes
<1>3. Closed(p, a, d, changed)
  BY <1>1, CloseRows
<1>4. /\ DOMAIN appeals'[p] = DOMAIN appeals[p]
      /\ \A b \in DOMAIN appeals[p] : b # a => appeals'[p][b] = appeals[p][b]
      /\ appeals'[p][a].resolved = TRUE
  BY <1>2, <1>3, ClosedRow
<1>5. appeals'[p][a].adjusted = changed
  <2>1. appeals[p] \in Seq(Appeal) /\ appeals[p][a] \in Appeal
    BY RowTypes DEF TypeOK
  <2>2. appeals'[p][a] = [appeals[p][a] EXCEPT !.resolved = TRUE, !.adjusted = changed, !.basis = d]
    BY <1>3, <2>1 DEF Closed
  <2> QED BY <2>1, <2>2 DEF Appeal
<1>6. ~appeals'[p][a].adjusted
  BY <1>0, <1>5
<1>7. Maintained(p)' = Maintained(p) \cup {a}
  BY <1>4, <1>6 DEF Maintained
<1>8. /\ versions' = versions
      /\ outbox' = outbox \cup {<<"APPEAL_RESOLVED_MAINTAINED", p, a>>}
  BY DEF ResolveMaintained
<1>9. LostVersions(p)' = LostVersions(p)
  BY <1>8 DEF LostVersions
<1> QED BY <1>4, <1>7, <1>8, <1>9 DEF EventsOK

LEMMA AdjustKeepsEvents ==
    ASSUME TypeOK, NEW p \in Participant, EventsOK(p), NEW a \in DOMAIN appeals[p],
           ResolveAdjusted(p, a)
    PROVE  EventsOK(p)'
<1>0. PICK changed : changed = TRUE
  OBVIOUS
<1>1. PICK d \in LatestDecision(p) :
          ResolvableOn(p, a, d) /\ CloseAppeal(p, a, d, changed)
  BY <1>0 DEF ResolveAdjusted
<1>2. d \in Nat
  BY QueryTypes
<1>3. Closed(p, a, d, changed)
  BY <1>1, CloseRows
<1>4. /\ DOMAIN appeals'[p] = DOMAIN appeals[p]
      /\ \A b \in DOMAIN appeals[p] : b # a => appeals'[p][b] = appeals[p][b]
  BY <1>2, <1>3, ClosedRow
<1>5. appeals'[p][a].adjusted = changed
  <2>1. appeals[p] \in Seq(Appeal) /\ appeals[p][a] \in Appeal
    BY RowTypes DEF TypeOK
  <2>2. appeals'[p][a] = [appeals[p][a] EXCEPT !.resolved = TRUE, !.adjusted = changed, !.basis = d]
    BY <1>3, <2>1 DEF Closed
  <2> QED BY <2>1, <2>2 DEF Appeal
<1>6. ~appeals[p][a].resolved /\ appeals'[p][a].adjusted
  BY <1>0, <1>1, <1>5 DEF ResolvableOn, OpenAppeals
<1>7. Maintained(p)' = Maintained(p)
  BY <1>4, <1>6 DEF Maintained
<1>8. outbox' = outbox \cup {<<"RESULT_PUBLISHED", p, Len(versions[p]) + 1>>}
  BY DEF ResolveAdjusted, PublishVersion
<1>9. \E e \in LatestDecision(p) : PublishedFrom(p, e)
  BY PublishSources
<1> QED BY <1>4, <1>7, <1>8, <1>9, PublishKeepsEvents

LEMMA RollbackKeepsEvents ==
    ASSUME TypeOK, InvalidateResults, outbox' = outbox \cup InvalidationEvents,
           NEW p \in Participant, EventsOK(p)
    PROVE  EventsOK(p)'
<1>1. AppealsVoided(p)
  BY DEF InvalidateResults, AppealsVoided
<1>2. DOMAIN appeals'[p] = DOMAIN appeals[p] /\ Maintained(p)' = Maintained(p)
  BY <1>1, VoidedRow DEF Maintained
<1>3. \A v \in DOMAIN versions[p] : versions[p][v] \in Version
  BY RowTypes
<1>4. /\ DOMAIN versions'[p] = DOMAIN versions[p]
      /\ \A v \in DOMAIN versions[p] :
            versions'[p][v] = [versions[p][v] EXCEPT !.valid = FALSE]
  BY DEF InvalidateResults
<1>5. \A v \in DOMAIN versions[p] : /\ versions'[p][v].valid = FALSE
                                    /\ versions'[p][v].superseded = versions[p][v].superseded
  BY <1>3, <1>4 DEF Version
<1>6. LostVersions(p)' = LostVersions(p) \cup CurrentVersion(p)
  BY <1>4, <1>5 DEF LostVersions, CurrentVersion
<1>7. \A t, n : <<t, p, n>> \in InvalidationEvents <=>
                    t = "RESULT_INVALIDATED" /\ n \in CurrentVersion(p)
  BY DEF InvalidationEvents
<1> QED BY <1>2, <1>4, <1>6, <1>7 DEF EventsOK

LEMMA HandlerEventStep == TypeOK /\ EventInv /\ [HandlerNext]_rowVars => EventInv'
<1> SUFFICES ASSUME TypeOK, EventInv, [HandlerNext]_rowVars, NEW q \in Participant
             PROVE  EventsOK(q)'
  BY DEF EventInv
<1>1. EventsOK(q)
  BY DEF EventInv
<1>2. CASE UNCHANGED <<decisions, versions, appeals, outbox>>
  BY <1>1, <1>2, EventUntouched DEF SameVersions, SameAppeals
<1>3. ASSUME NEW p \in Participant, NEW l \in Level, Decide(p, l) PROVE EventsOK(q)'
  BY <1>1, <1>3, EventUntouched DEF Decide, SameVersions, SameAppeals
<1>4. ASSUME NEW p \in Participant, PublishChanged(p) PROVE EventsOK(q)'
  <2>1. PICK d \in LatestDecision(p) : PublishedFrom(p, d)
    BY <1>4, PublishSources
  <2>2. /\ appeals' = appeals
        /\ outbox' = outbox \cup {<<"RESULT_PUBLISHED", p, Len(versions[p]) + 1>>}
    BY <1>4 DEF PublishChanged, PublishVersion
  <2>3. CASE q = p
    <3>1. Maintained(p)' = Maintained(p)
      BY <2>2 DEF Maintained
    <3> QED BY <1>1, <2>1, <2>2, <2>3, <3>1, PublishKeepsEvents
  <2>4. CASE q # p
    <3>1. SameVersions(q) /\ SameAppeals(q)
      BY <1>4, <2>2, <2>4, PublishSteps DEF SameAppeals
    <3> QED BY <1>1, <2>2, <2>4, <3>1, EventOthers
  <2> QED BY <2>3, <2>4
<1>5. ASSUME NEW p \in Participant, NEW v \in DOMAIN versions[p], Confirm(p, v)
      PROVE  EventsOK(q)'
  <2>1. q # p => SameVersions(q)
    BY <1>5, ConfirmedRow DEF SameVersions
  <2>2. appeals' = appeals /\ outbox' = outbox
    BY <1>5 DEF Confirm
  <2> QED BY <1>1, <1>5, <2>1, <2>2, ConfirmKeepsEvents, EventUntouched DEF SameAppeals
<1>6. ASSUME NEW p \in Participant, NEW v \in DOMAIN versions[p], CreateAppeal(p, v)
      PROVE  EventsOK(q)'
  <2>1. CASE q = p
    BY <1>1, <1>6, <2>1, CreateKeepsEvents
  <2>2. CASE q # p
    <3>1. /\ SameVersions(q) /\ SameAppeals(q)
          /\ outbox' = outbox \cup {<<"APPEAL_CREATED", p, Len(appeals[p]) + 1>>}
      BY <1>6, <2>2 DEF CreateAppeal, SameVersions, SameAppeals, TypeOK
    <3> QED BY <1>1, <2>2, <3>1, EventOthers
  <2> QED BY <2>1, <2>2
<1>7. ASSUME NEW p \in Participant, NEW a \in DOMAIN appeals[p], ResolveMaintained(p, a)
      PROVE  EventsOK(q)'
  <2>1. CASE q = p
    BY <1>1, <1>7, <2>1, MaintainKeepsEvents
  <2>2. CASE q # p
    <3>1. SameAppeals(q)
      BY <1>7, <2>2, ResolveRows
    <3>2. /\ SameVersions(q)
          /\ outbox' = outbox \cup {<<"APPEAL_RESOLVED_MAINTAINED", p, a>>}
      BY <1>7 DEF ResolveMaintained, SameVersions
    <3> QED BY <1>1, <2>2, <3>1, <3>2, EventOthers
  <2> QED BY <2>1, <2>2
<1>8. ASSUME NEW p \in Participant, NEW a \in DOMAIN appeals[p], ResolveAdjusted(p, a)
      PROVE  EventsOK(q)'
  <2>1. CASE q = p
    BY <1>1, <1>8, <2>1, AdjustKeepsEvents
  <2>2. CASE q # p
    <3>1. SameAppeals(q)
      BY <1>8, <2>2, ResolveRows
    <3>2. SameVersions(q)
      BY <1>8, <2>2, PublishSteps
    <3>3. outbox' = outbox \cup {<<"RESULT_PUBLISHED", p, Len(versions[p]) + 1>>}
      BY <1>8 DEF ResolveAdjusted, PublishVersion
    <3> QED BY <1>1, <2>2, <3>1, <3>2, <3>3, EventOthers
  <2> QED BY <2>1, <2>2
<1> QED BY <1>2, <1>3, <1>4, <1>5, <1>6, <1>7, <1>8, RowSteps
        DEF EmployeeStep, AppealStep

-----------------------------------------------------------------------------
(* The chain implements EmployeeResult.                                     *)

ShownRow(p, v) ==
    [number    |-> versions[p][v].number,
     level     |-> versions[p][v].level,
     confirmed |-> versions[p][v].confirmed]

ShownTo(p) == {ShownRow(p, v) : v \in CurrentVersion(p)}

\* What EmployeeResult calls shown and count.
shownResults == [p \in Participant |-> ShownTo(p)]
shownCount == [p \in Participant |-> Len(versions[p])]

LEMMA PromiseVars ==
    Promise!vars = <<cycle = "ARCHIVED", shownResults, shownCount>>
BY DEF Promise!vars, shownResults, shownCount, ShownTo, ShownRow

\* A participant whose versions stay sees the same.
LEMMA ShownStays ==
    ASSUME NEW q \in Participant, SameVersions(q)
    PROVE  ShownTo(q)' = ShownTo(q) /\ Len(versions'[q]) = Len(versions[q])
BY DEF SameVersions, ShownTo, ShownRow, CurrentVersion

\* After a publication exactly the new version is shown.
LEMMA PublishShows ==
    ASSUME TypeOK, NumberInv, NEW p \in Participant, NEW d \in LatestDecision(p),
           PublishedFrom(p, d)
    PROVE  /\ Len(versions'[p]) = Len(versions[p]) + 1
           /\ ShownTo(p)' = {[number |-> Len(versions[p]) + 1,
                              level |-> FinalLevel(p, d), confirmed |-> FALSE]}
<1> DEFINE k == Len(versions[p])
<1>1. PICK n \in NextNumbers(p) :
          versions'[p] = Append(Supersede(p), NewVersion(n, FinalLevel(p, d), d))
  BY DEF PublishedFrom
<1>2. n = k + 1
  BY NextNumberIsNextRow
<1>3. FinalLevel(p, d) \in Level /\ n \in Nat /\ d \in Nat
  BY QueryTypes
<1>4. NewVersion(n, FinalLevel(p, d), d) \in Version
  BY <1>3 DEF NewVersion, Version
<1>5. /\ versions'[p][k + 1] = NewVersion(n, FinalLevel(p, d), d)
      /\ Len(versions'[p]) = k + 1
  BY <1>1, <1>4, SupersedeType, AppendRow
<1>6. /\ k \in Nat
      /\ DOMAIN versions[p] = 1..k
      /\ DOMAIN versions'[p] = 1..(k + 1)
      /\ versions'[p][k + 1].valid = TRUE
      /\ versions'[p][k + 1].superseded = FALSE
      /\ \A v \in 1..k :
             LET old == versions[p][v]  new == versions'[p][v] IN
             /\ new.valid = old.valid
             /\ new.superseded <=> old.superseded \/ v \in CurrentVersion(p)
  BY PublishedFromRows
<1>7. /\ \A v \in 1..(k + 1) : v \in 1..k \/ v = k + 1
      /\ k + 1 \in 1..(k + 1)
  BY <1>6
<1> HIDE DEF k
<1>8. CurrentVersion(p)' = {k + 1}
  BY <1>6, <1>7 DEF CurrentVersion
<1>9. /\ versions'[p][k + 1].number = k + 1
      /\ versions'[p][k + 1].level = FinalLevel(p, d)
      /\ versions'[p][k + 1].confirmed = FALSE
  BY <1>2, <1>5 DEF NewVersion
<1>10. ShownTo(p)' = {[number |-> versions'[p][v].number, level |-> versions'[p][v].level,
                       confirmed |-> versions'[p][v].confirmed] : v \in CurrentVersion(p)'}
  BY DEF ShownTo, ShownRow
<1>11. ShownTo(p)' = {[number |-> k + 1, level |-> FinalLevel(p, d), confirmed |-> FALSE]}
  BY <1>8, <1>9, <1>10
<1> QED BY <1>5, <1>11 DEF k

\* Every result shown has a level other than the one to be published.
LEMMA PublicationIsNews ==
    ASSUME TypeOK, NumberInv, NEW p \in Participant,
           \/ PublishChanged(p)
           \/ \E a \in DOMAIN appeals[p] : ResolveAdjusted(p, a)
    PROVE  \E d \in LatestDecision(p) :
               /\ PublishedFrom(p, d)
               /\ \A r \in ShownTo(p) : r.level # FinalLevel(p, d)
<1>1. CASE PublishChanged(p)
  <2>1. PICK d \in LatestDecision(p), n \in NextNumbers(p) :
            /\ LevelChanged(p, d)
            /\ PublishVersion(p, n, FinalLevel(p, d), d)
    BY <1>1 DEF PublishChanged
  <2>2. PublishedFrom(p, d)
    BY <2>1 DEF PublishVersion, PublishedFrom, TypeOK
  <2>3. \A r \in ShownTo(p) : r.level # FinalLevel(p, d)
    BY <2>1 DEF LevelChanged, ShownTo, ShownRow
  <2> QED BY <2>2, <2>3
<1>2. ASSUME NEW a \in DOMAIN appeals[p], ResolveAdjusted(p, a)
      PROVE  \E d \in LatestDecision(p) :
                 /\ PublishedFrom(p, d)
                 /\ \A r \in ShownTo(p) : r.level # FinalLevel(p, d)
  <2> DEFINE v == appeals[p][a].version
  <2>1. PICK d \in LatestDecision(p) :
            /\ ResolvableOn(p, a, d)
            /\ versions[p][v].level # FinalLevel(p, d)
            /\ PublishVersion(p, versions[p][v].number + 1, FinalLevel(p, d), d)
    BY <1>2 DEF ResolveAdjusted
  <2>2. v \in CurrentVersion(p)
    BY <2>1 DEF ResolvableOn
  <2>3. versions[p][v].number + 1 \in NextNumbers(p)
    BY <2>2 DEF NextNumbers
  <2>4. PublishedFrom(p, d)
    BY <2>1, <2>3 DEF PublishVersion, PublishedFrom, TypeOK
  <2>5. \A w \in CurrentVersion(p) : w = v
    BY <2>2 DEF NumberInv, CurrentIsLast
  <2> HIDE DEF v
  <2>6. \A r \in ShownTo(p) : r.level # FinalLevel(p, d)
    BY <2>1, <2>5 DEF ShownTo, ShownRow
  <2> QED BY <2>4, <2>6
<1> QED BY <1>1, <1>2

\* Both publishing paths show a new result.
LEMMA PublishIsShow ==
    ASSUME TypeOK, NumberInv, NEW p \in Participant, cycle' = cycle, cycle # "ARCHIVED",
           \/ PublishChanged(p)
           \/ \E a \in DOMAIN appeals[p] : ResolveAdjusted(p, a)
    PROVE  \E l \in Level : Promise!Show(p, l)
<1>1. PICK d \in LatestDecision(p) :
          PublishedFrom(p, d) /\ \A r \in ShownTo(p) : r.level # FinalLevel(p, d)
  BY PublicationIsNews
<1>2. PICK l \in Level : l = FinalLevel(p, d)
  BY QueryTypes
<1>3. /\ Len(versions'[p]) = Len(versions[p]) + 1
      /\ ShownTo(p)' = {[number |-> Len(versions[p]) + 1,
                         level |-> l, confirmed |-> FALSE]}
  BY <1>1, <1>2, PublishShows
<1>4. \A q \in Participant : q # p => SameVersions(q)
  BY PublishSteps
<1>5. \A q \in Participant : q # p =>
          ShownTo(q)' = ShownTo(q) /\ Len(versions'[q]) = Len(versions[q])
  BY <1>4, ShownStays
<1>6. shownCount' = [shownCount EXCEPT ![p] = @ + 1]
  BY <1>3, <1>5 DEF shownCount
<1>7. shownResults' = [shownResults EXCEPT ![p] =
          {[number |-> shownCount[p] + 1, level |-> l, confirmed |-> FALSE]}]
  BY <1>3, <1>5 DEF shownResults, shownCount
<1>8. \A r \in shownResults[p] : r.level # l
  BY <1>1, <1>2 DEF shownResults
<1>9. Promise!Show(p, l)
  BY <1>6, <1>7, <1>8
     DEF Promise!Show, shownResults, shownCount, ShownTo, ShownRow
<1> QED BY <1>9

\* Sequences with the same domain have the same length.
LEMMA RangeLength ==
    ASSUME NEW m \in Nat, NEW n \in Nat, 1..m = 1..n
    PROVE  m = n
<1>1. /\ m > 0 => m \in 1..m
      /\ n > 0 => n \in 1..n
  OBVIOUS
<1> QED BY <1>1

\* A confirmation answers the one result shown.
LEMMA ConfirmIsConfirm ==
    ASSUME TypeOK, NumberInv, NEW p \in Participant, NEW v \in DOMAIN versions[p],
           Confirm(p, v)
    PROVE  Promise!Confirm(p)
<1>1. /\ cycle = "ACTIVE" /\ cycle' = cycle
      /\ v \in CurrentVersion(p)
      /\ ~versions[p][v].confirmed
  BY DEF Confirm
<1>2. CurrentVersion(p) = {v}
  BY <1>1 DEF NumberInv, CurrentIsLast
<1>3. /\ DOMAIN versions'[p] = DOMAIN versions[p]
      /\ \A w \in DOMAIN versions[p] : /\ versions'[p][w].superseded = versions[p][w].superseded
                                       /\ versions'[p][w].valid = versions[p][w].valid
      /\ versions'[p][v].number = versions[p][v].number
      /\ versions'[p][v].level = versions[p][v].level
      /\ \A q \in Participant : q # p => versions'[q] = versions[q]
  BY ConfirmedRow
<1>4. CurrentVersion(p)' = {v}
  BY <1>2, <1>3 DEF CurrentVersion
<1>5. versions'[p][v].confirmed = TRUE
  BY ConfirmedRow
<1>6. ShownRow(p, v)' = [ShownRow(p, v) EXCEPT !.confirmed = TRUE]
  <2>1. ShownRow(p, v)' = [number |-> versions'[p][v].number, level |-> versions'[p][v].level,
                           confirmed |-> versions'[p][v].confirmed]
    BY DEF ShownRow
  <2>2. ShownRow(p, v)' = [number |-> versions[p][v].number, level |-> versions[p][v].level,
                           confirmed |-> TRUE]
    BY <1>3, <1>5, <2>1
  <2>3. ASSUME NEW n, NEW l, NEW c, NEW yes
        PROVE  [[number |-> n, level |-> l, confirmed |-> c] EXCEPT !.confirmed = yes]
                   = [number |-> n, level |-> l, confirmed |-> yes]
    OBVIOUS
  <2>4. [ShownRow(p, v) EXCEPT !.confirmed = TRUE] =
            [number |-> versions[p][v].number, level |-> versions[p][v].level,
             confirmed |-> TRUE]
    BY <2>3, Zenon DEF ShownRow
  <2> QED BY <2>2, <2>4
<1>7. ShownTo(p) = {ShownRow(p, v)} /\ ShownTo(p)' = {ShownRow(p, v)'}
  BY <1>2, <1>4 DEF ShownTo
<1>8. Len(versions'[p]) = Len(versions[p])
  <2>1. versions' \in [Participant -> Seq(Version)]
    <3>1. versions'[p] = [versions[p] EXCEPT ![v] = [versions[p][v] EXCEPT !.confirmed = TRUE]]
      BY DEF Confirm, TypeOK
    <3>2. versions[p] \in Seq(Version) /\ versions[p][v] \in Version
      BY RowTypes DEF TypeOK
    <3>3. [versions[p][v] EXCEPT !.confirmed = TRUE] \in Version
      BY <3>2 DEF Version
    <3>4. versions'[p] \in Seq(Version)
      BY <3>1, <3>2, <3>3
    <3> QED BY <3>4 DEF Confirm, TypeOK
  <2>2. DOMAIN versions'[p] = 1..Len(versions'[p]) /\ Len(versions'[p]) \in Nat
    BY <2>1, SeqDomain
  <2>3. DOMAIN versions[p] = 1..Len(versions[p]) /\ Len(versions[p]) \in Nat
    BY RowTypes
  <2> QED BY <1>3, <2>2, <2>3, RangeLength
<1>9. \A q \in Participant : q # p =>
          ShownTo(q)' = ShownTo(q) /\ Len(versions'[q]) = Len(versions[q])
  BY <1>3, ShownStays DEF SameVersions
<1>10. shownCount' = shownCount
  BY <1>8, <1>9 DEF shownCount
<1>11. shownResults' = [shownResults EXCEPT ![p] =
           {[ShownRow(p, v) EXCEPT !.confirmed = TRUE]}]
  BY <1>6, <1>7, <1>9 DEF shownResults
<1>12. ShownRow(p, v) \in shownResults[p] /\ ~ShownRow(p, v).confirmed
  BY <1>1, <1>7 DEF shownResults, ShownRow
<1>13. \E r \in shownResults[p] :
           /\ ~r.confirmed
           /\ shownResults' = [shownResults EXCEPT ![p] = {[r EXCEPT !.confirmed = TRUE]}]
  BY <1>11, <1>12
<1> QED BY <1>1, <1>10, <1>13
        DEF Promise!Confirm, shownResults, shownCount, ShownTo, ShownRow

\* A rollback retracts every result.
LEMMA RollbackIsRetract ==
    ASSUME TypeOK, InvalidateResults, cycle # "ARCHIVED", cycle' # "ARCHIVED"
    PROVE  Promise!RetractAll
<1>1. ASSUME NEW p \in Participant
      PROVE  ShownTo(p)' = {} /\ Len(versions'[p]) = Len(versions[p])
  <2> DEFINE k == Len(versions[p])
  <2>1. /\ k \in Nat
        /\ DOMAIN versions[p] = 1..k
        /\ \A v \in 1..k : versions[p][v] \in Version
    BY RowTypes
  <2>2. versions'[p] = [v \in 1..k |-> [versions[p][v] EXCEPT !.valid = FALSE]]
    BY <2>1 DEF InvalidateResults
  <2>3. \A v \in 1..k : versions'[p][v].valid = FALSE
    BY <2>1, <2>2 DEF Version
  <2>4. CurrentVersion(p)' = {}
    BY <2>2, <2>3 DEF CurrentVersion
  <2>5. Len(versions'[p]) = k
    BY <2>1, <2>2
  <2> QED BY <2>4, <2>5 DEF ShownTo
<1>2. shownResults' = [p \in Participant |-> {}] /\ shownCount' = shownCount
  BY <1>1 DEF shownResults, shownCount
<1> QED BY <1>2
        DEF Promise!RetractAll, shownResults, shownCount, ShownTo, ShownRow

LEMMA PromiseInit == RowsInit => Promise!Init
<1> SUFFICES ASSUME RowsInit PROVE Promise!Init
  OBVIOUS
<1>1. cycle # "ARCHIVED"
  BY DEF RowsInit
<1>2. \A p \in Participant : ShownTo(p) = {} /\ Len(versions[p]) = 0
  BY DEF RowsInit, ShownTo, CurrentVersion
<1>3. /\ shownResults = [p \in Participant |-> {}]
      /\ shownCount = [p \in Participant |-> 0]
  BY <1>2 DEF shownResults, shownCount
<1> QED BY <1>1, <1>3 DEF Promise!Init, shownResults, shownCount, ShownTo, ShownRow

\* A step that neither touches a version nor archives the cycle.
LEMMA PromiseStutter ==
    ASSUME \A p \in Participant : SameVersions(p),
           cycle' = "ARCHIVED" <=> cycle = "ARCHIVED"
    PROVE  UNCHANGED Promise!vars
<1>1. shownResults' = shownResults /\ shownCount' = shownCount
  BY ShownStays DEF shownResults, shownCount
<1> QED BY <1>1 DEF Promise!vars, shownResults, shownCount, ShownTo, ShownRow

\* Every step but the one that archives the cycle.
LEMMA OpenPromiseStep ==
    ASSUME TypeOK, NumberInv, [HandlerNext]_rowVars, cycle' = "ARCHIVED" => cycle = "ARCHIVED"
    PROVE  [Promise!Next]_(Promise!vars)
<1> SUFFICES Promise!Next \/ UNCHANGED Promise!vars
  OBVIOUS
<1>1. CASE cycle = "ARCHIVED"
  <2>1. versions' = versions /\ cycle' = cycle
    BY <1>1, ArchivedHandlers DEF chainVars
  <2> QED BY <1>1, <2>1, PromiseStutter DEF SameVersions
<1>2. CASE cycle # "ARCHIVED" /\ cycle' # "ARCHIVED"
  <2>1. CASE UNCHANGED <<decisions, versions, appeals, outbox>>
    BY <1>2, <2>1, PromiseStutter DEF SameVersions
  <2>2. ASSUME NEW p \in Participant, NEW l \in Level, Decide(p, l)
        PROVE  UNCHANGED Promise!vars
    BY <1>2, <2>2, PromiseStutter DEF Decide, SameVersions
  <2>3. ASSUME NEW p \in Participant,
               \/ PublishChanged(p)
               \/ \E a \in DOMAIN appeals[p] : ResolveAdjusted(p, a)
        PROVE  Promise!Next
    <3>1. cycle' = cycle
      BY <2>3 DEF PublishChanged, ResolveAdjusted
    <3>2. \E l \in Level : Promise!Show(p, l)
      BY <1>2, <2>3, <3>1, PublishIsShow
    <3> QED BY <3>2 DEF Promise!Next
  <2>4. ASSUME NEW p \in Participant, NEW v \in DOMAIN versions[p], Confirm(p, v)
        PROVE  Promise!Next
    <3>1. Promise!Confirm(p)
      BY <2>4, ConfirmIsConfirm
    <3> QED BY <3>1 DEF Promise!Next
  <2>5. ASSUME NEW p \in Participant,
               \/ \E v \in DOMAIN versions[p] : CreateAppeal(p, v)
               \/ \E a \in DOMAIN appeals[p] : ResolveMaintained(p, a)
        PROVE  UNCHANGED Promise!vars
    BY <1>2, <2>5, PromiseStutter DEF CreateAppeal, ResolveMaintained, SameVersions
  <2> QED BY <2>1, <2>2, <2>3, <2>4, <2>5, RowSteps
          DEF EmployeeStep, AppealStep
<1> QED BY <1>1, <1>2

-----------------------------------------------------------------------------
(* The commits of archive and rollback.                                     *)

\* A waiting rollback has seen the decision of every version: a publication updates the
\* participant's row and fails it, a further decision does not.
SeenInv ==
    \A tx \in rollbackTx : \A p \in Participant :
        /\ tx.seen[p] \in Nat
        /\ \A v \in DOMAIN versions[p] : versions[p][v].source <= tx.seen[p]

LEMMA SeenInit == Init => SeenInv
BY DEF Init, SeenInv

LEMMA SeenStep == TypeOK /\ SourceInv /\ SeenInv /\ [Next]_vars => SeenInv'
<1> SUFFICES ASSUME TypeOK, SourceInv, SeenInv, [Next]_vars PROVE SeenInv'
  OBVIOUS
<1>1. ASSUME NEW p \in Participant, HandlerStep(p) PROVE SeenInv'
  <2>1. CASE rollbackTx' = {}
    BY <2>1 DEF SeenInv
  <2>2. CASE rollbackTx' = rollbackTx /\ ~ParticipantRowUpdated(p)
    <3>1. versions'[p] = versions[p]
      BY <2>2 DEF ParticipantRowUpdated
    <3>2. \A q \in Participant : versions'[q] = versions[q]
      BY <1>1, <3>1, StatusOfOthers DEF HandlerStep, SameVersions
    <3> QED BY <2>2, <3>2 DEF SeenInv
  <2> QED BY <1>1, <2>1, <2>2 DEF HandlerStep
<1>2. CASE BatchStep
  BY <1>2 DEF BatchStep, StartPublish, PublishAborted, chainVars, SeenInv
<1>3. CASE CycleRowStep \/ CommitArchive \/ CommitRollback \/ AbortTx
  BY <1>3 DEF CycleRowStep, CommitArchive, CommitRollback, AbortTx, SeenInv
<1>4. CASE BeginArchive
  BY <1>4 DEF BeginArchive, rowVars, chainVars, SeenInv
<1>5. ASSUME NEW target \in {"DRAFT", "SCHEDULED"}, BeginRollback(target) PROVE SeenInv'
  <2>1. /\ versions' = versions
        /\ rollbackTx' = {[target |-> target,
                           seen   |-> [p \in Participant |-> Len(decisions[p])]]}
    BY <1>5 DEF BeginRollback, rowVars, chainVars
  <2>2. ASSUME NEW p \in Participant
        PROVE  /\ Len(decisions[p]) \in Nat
               /\ \A v \in DOMAIN versions[p] : versions[p][v].source <= Len(decisions[p])
    BY RowTypes DEF SourceInv, SourcesOK
  <2> QED BY <2>1, <2>2 DEF SeenInv
<1>6. CASE UNCHANGED vars
  BY <1>6 DEF vars, rowVars, chainVars, SeenInv
<1> QED BY <1>1, <1>2, <1>3, <1>4, <1>5, <1>6 DEF Next

\* The versions a rollback voids name decisions it has seen, and voids as well.
LEMMA SourceStep ==
    TypeOK /\ Waiting /\ SourceInv /\ SeenInv /\ [Next]_vars => SourceInv'
<1> SUFFICES ASSUME TypeOK, Waiting, SourceInv, SeenInv, [Next]_vars,
                    NEW p \in Participant
             PROVE  SourcesOK(p)'
  BY DEF SourceInv
<1>1. CASE [HandlerNext]_rowVars
  BY <1>1, HandlerSourceStep DEF SourceInv
<1>2. CASE CommitArchive
  BY <1>2 DEF CommitArchive, chainVars, SourceInv, SourcesOK
<1>3. CASE CommitRollback
  <2>1. PICK tx \in rollbackTx : InvalidateSnapshot(tx)
    BY <1>3, CommitRollbackRows
  <2>2. /\ DOMAIN decisions'[p] = DOMAIN decisions[p]
        /\ \A d \in DOMAIN decisions[p] :
              /\ decisions'[p][d].level = decisions[p][d].level
              /\ decisions'[p][d].valid <=> decisions[p][d].valid /\ d > tx.seen[p]
    BY <2>1, SeenDecisions
  <2>3. \A v \in DOMAIN versions[p] : versions[p][v] \in Version
    BY RowTypes
  <2>4. /\ DOMAIN versions'[p] = DOMAIN versions[p]
        /\ \A v \in DOMAIN versions[p] :
              versions'[p][v] = [versions[p][v] EXCEPT !.valid = FALSE]
    BY <2>1 DEF InvalidateSnapshot, InvalidateResults
  <2>5. \A v \in DOMAIN versions[p] : /\ versions'[p][v].level = versions[p][v].level
                                      /\ versions'[p][v].source = versions[p][v].source
                                      /\ versions'[p][v].valid = FALSE
    BY <2>3, <2>4 DEF Version
  <2>6. ASSUME NEW v \in DOMAIN versions[p]
        PROVE  ~(versions[p][v].source > tx.seen[p])
    <3>1. versions[p][v].source \in Nat
      BY <2>3 DEF Version
    <3>2. tx.seen[p] \in Nat /\ versions[p][v].source <= tx.seen[p]
      BY DEF SeenInv
    <3> QED BY <3>1, <3>2
  <2> QED BY <2>2, <2>4, <2>5, <2>6 DEF SourceInv, SourcesOK
<1> QED BY <1>1, <1>2, <1>3, Steps

LEMMA AppealStepKeeps ==
    TypeOK /\ SourceInv /\ AppealInv /\ Waiting /\ [Next]_vars => AppealInv'
<1> SUFFICES ASSUME TypeOK, SourceInv, AppealInv, Waiting, [Next]_vars,
                    NEW p \in Participant
             PROVE  BoundOK(p)' /\ AdjustedOK(p)'
  BY DEF AppealInv
<1>1. CASE [HandlerNext]_rowVars
  BY <1>1, HandlerAppealStep DEF AppealInv
<1>2. CASE CommitArchive
  <2>1. UNCHANGED <<status, versions, appeals>>
    BY <1>2 DEF CommitArchive, chainVars
  <2>2. BoundOK(p)'
    BY <2>1, BoundFrame DEF AppealInv, SameAppeals, SameVersions, VersionsGrow
  <2>3. AdjustedOK(p)'
    BY <2>1, AdjustedFrame DEF AppealInv, VersionsGrow
  <2> QED BY <2>2, <2>3
<1>3. CASE CommitRollback
  <2>1. InvalidateResults /\ Invalidated(p)
    BY <1>3, CommitRollbackRows
  <2>2. VersionsGrow(p)
    BY <2>1, VersionRowsGrow
  <2> QED BY <1>3, <2>1, <2>2, RollbackKeepsAppeals DEF CommitRollback, AppealInv
<1> QED BY <1>1, <1>2, <1>3, Steps

LEMMA EventStep ==
    TypeOK /\ EventInv /\ Waiting /\ [Next]_vars => EventInv'
<1> SUFFICES ASSUME TypeOK, EventInv, Waiting, [Next]_vars,
                    NEW p \in Participant
             PROVE  EventsOK(p)'
  BY DEF EventInv
<1>1. CASE [HandlerNext]_rowVars
  BY <1>1, HandlerEventStep DEF EventInv
<1>2. CASE CommitArchive
  BY <1>2, EventUntouched DEF CommitArchive, chainVars, EventInv, SameVersions, SameAppeals
<1>3. CASE CommitRollback
  BY <1>3, CommitRollbackRows, RollbackKeepsEvents DEF CommitRollback, EventInv
<1> QED BY <1>1, <1>2, <1>3, Steps

LEMMA PageStep ==
    TypeOK /\ PageInv /\ [Next]_vars => PageInv'
<1> SUFFICES ASSUME TypeOK, PageInv, [Next]_vars PROVE PageInv'
  OBVIOUS
<1>1. CASE [HandlerNext]_rowVars
  BY <1>1, HandlerPageStep
<1>2. CASE CommitArchive \/ CommitRollback
  BY <1>2, PageUntouched DEF CommitArchive, CommitRollback
<1> QED BY <1>1, <1>2, Steps

\* Everything proved so far, as one invariant.
RowInv == SourceInv /\ SeenInv /\ AppealInv /\ EventInv /\ PageInv

LEMMA RowInvariant == Spec => [](ResultInv /\ RowInv)
<1>1. Init => RowInv
  BY SourceInit, SeenInit, AppealInit, EventInit, PageInit DEF Init, RowInv
<1>2. ResultInv /\ RowInv /\ [Next]_vars => RowInv'
  BY SourceStep, SeenStep, AppealStepKeeps, EventStep, PageStep DEF ResultInv, RowInv
<1> QED BY <1>1, <1>2, ResultInvariant, PTL DEF Spec

\* VersionsComeFromDecisions: a version has the level of the decision it names, or C, and
\* is in force no longer than that decision is: a rollback that misses a decision misses
\* no version of it.
THEOREM SourcesCorrect == Spec => []VersionsComeFromDecisions
<1>1. RowInv => VersionsComeFromDecisions
  BY SourceInvIsProperty DEF RowInv
<1> QED BY <1>1, RowInvariant, PTL

\* AppealingIsBound: an employee has one appeal in force at most, and while APPEALING it
\* is open and filed on the version that is still current.
THEOREM AppealingBound == Spec => []AppealingIsBound
<1>1. ResultInv /\ RowInv => AppealingIsBound
  BY AppealInvParts DEF ResultInv, RowInv
<1> QED BY <1>1, RowInvariant, PTL

\* AdjustedByNewDecision: an appeal changes a level only through a decision newer than the
\* one the appealed version came from, and that version is never in force again.
THEOREM AdjustedByDecision == Spec => []AdjustedByNewDecision
<1>1. ResultInv /\ RowInv => AdjustedByNewDecision
  BY AppealInvParts DEF ResultInv, RowInv
<1> QED BY <1>1, RowInvariant, PTL

\* EventsMatchRows: whatever is published, appealed, resolved and rolled back, the outbox
\* holds exactly one event for each of it, and those told by a rollback are those whose
\* version it voided.
THEOREM EventsCorrect == Spec => []EventsMatchRows
<1>1. ResultInv /\ RowInv => EventsMatchRows
  BY EventInvIsProperty DEF ResultInv, RowInv
<1> QED BY <1>1, RowInvariant, PTL

\* A commit changes the rows of a participant as HistoryOnlyGrows allows.
LEMMA RowsGrow ==
    ASSUME ResultInv, [Next]_vars, NEW p \in Participant
    PROVE  DecisionsGrow(p) /\ VersionsGrow(p) /\ AppealsGrow(p)
<1>1. TypeOK /\ Waiting
  BY DEF ResultInv
<1>2. CASE [HandlerNext]_rowVars
  BY <1>1, <1>2, HandlerDecisionsGrowStep, HandlerVersionsGrowStep, HandlerAppealsGrowStep
<1>3. CASE CommitArchive
  <2>1. UNCHANGED <<decisions, versions, appeals>>
    BY <1>3 DEF CommitArchive, chainVars
  <2>2. DecisionsGrow(p)
    BY <2>1 DEF DecisionsGrow
  <2> QED BY <1>1, <2>1, <2>2, VersionRowsGrow, AppealRowsGrow DEF SameVersions, SameAppeals
<1>4. CASE CommitRollback
  <2>1. PICK tx \in rollbackTx : InvalidateSnapshot(tx)
    BY <1>1, <1>4, CommitRollbackRows
  <2>2. DecisionsGrow(p)
    BY <1>1, <2>1, SeenDecisions DEF DecisionsGrow
  <2> QED BY <1>1, <1>4, <2>2, CommitRollbackRows, VersionRowsGrow, AppealRowsGrow
<1> QED BY <1>2, <1>3, <1>4, Steps

\* HistoryOnlyGrows: no handler and neither commit, whatever its snapshot did not show,
\* rewrites what a decision, a version or an appeal said, or undoes that it was superseded,
\* confirmed, resolved or invalidated.
THEOREM HistoryGrows == Spec => HistoryOnlyGrows
<1>1. ResultInv /\ [Next]_vars =>
          [\A p \in Participant : DecisionsGrow(p) /\ VersionsGrow(p) /\ AppealsGrow(p)]_rowVars
  BY RowsGrow
<1>2. ResultInv /\ [Next]_vars => [
        \A p \in Participant :
        /\ \A d \in DOMAIN decisions[p] :
              /\ d \in DOMAIN decisions'[p]
              /\ decisions'[p][d].level = decisions[p][d].level
              /\ decisions'[p][d].valid => decisions[p][d].valid
        /\ \A v \in DOMAIN versions[p] :
              LET old == versions[p][v]  new == versions'[p][v] IN
              /\ v \in DOMAIN versions'[p]
              /\ <<new.number, new.level, new.source>> = <<old.number, old.level, old.source>>
              /\ old.superseded => new.superseded
              /\ old.confirmed => new.confirmed
              /\ new.valid => old.valid
        /\ \A a \in DOMAIN appeals[p] :
              LET old == appeals[p][a]  new == appeals'[p][a] IN
              /\ a \in DOMAIN appeals'[p]
              /\ new.version = old.version
              /\ old.resolved =>
                    <<new.resolved, new.adjusted, new.basis>> = <<TRUE, old.adjusted, old.basis>>
              /\ new.valid => old.valid]_rowVars
  BY <1>1, Zenon DEF DecisionsGrow, VersionsGrow, AppealsGrow
<1> QED BY <1>2, ResultInvariant, PTL DEF Spec, HistoryOnlyGrows

\* DecisionOnWhatWasShown: whatever was submitted, found or decided while the page was
\* open, a decision is only made on the latest decision and the level it showed.
THEOREM DecisionInformed == Spec => DecisionOnWhatWasShown
<1>1. ResultInv /\ RowInv /\ [Next]_vars =>
          [\A p \in Participant :
              Len(decisions'[p]) > Len(decisions[p]) =>
                  /\ page[p].decision = LatestDecision(p)
                  /\ page[p].level = PreLevel(p)]_rowVars
  <2> SUFFICES ASSUME ResultInv, RowInv, [Next]_vars, NEW p \in Participant,
                      Len(decisions'[p]) > Len(decisions[p])
               PROVE  page[p].decision = LatestDecision(p) /\ page[p].level = PreLevel(p)
    OBVIOUS
  <2>1. TypeOK /\ PageInv /\ Waiting
    BY DEF ResultInv, RowInv
  <2>2. CASE [HandlerNext]_rowVars
    BY <2>1, <2>2, HandlerDecisionStep
  <2>3. Len(decisions[p]) \in Nat
    BY <2>1, RowTypes
  <2>4. CASE CommitArchive
    BY <2>3, <2>4 DEF CommitArchive, chainVars
  <2>5. CASE CommitRollback
    BY <2>1, <2>3, <2>5, CommitRollbackRows, SeenDecisions
  <2> QED BY <2>2, <2>4, <2>5, Steps
<1> QED BY <1>1, RowInvariant, PTL DEF Spec, DecisionOnWhatWasShown

\* What an archive closes on: the result of everybody whose status did not change while it
\* waited is confirmed.
LEMMA ArchiveCloses ==
    ASSUME ResultInv, ClosedInv, CommitArchive
    PROVE  /\ cycle = "ACTIVE" /\ cycle' = "ARCHIVED" /\ UNCHANGED chainVars
           /\ \A p \in Participant \ reopened :
                  \A v \in CurrentVersion(p) : versions[p][v].confirmed
<1>1. archiveTx /\ cycle' = "ARCHIVED" /\ UNCHANGED chainVars
  BY DEF CommitArchive
<1>2. cycle = "ACTIVE"
  BY <1>1 DEF ResultInv, Waiting
<1>3. ASSUME NEW p \in Participant \ reopened, NEW v \in CurrentVersion(p)
      PROVE  versions[p][v].confirmed
  <2>1. status[p] \in {"CONFIRMED", "NO_RESULT", "WITHDRAWN"}
    BY <1>1 DEF ClosedInv, Settled
  <2>2. status[p] \in ResultStatus
    BY DEF ResultInv, ChainInv, ChainOK
  <2>3. status[p] = "CONFIRMED"
    BY <2>1, <2>2 DEF ResultStatus
  <2> QED BY <2>3 DEF ResultInv, ChainInv, ChainOK
<1> QED BY <1>1, <1>2, <1>3

\* PromiseButForClosing: the result an employee is shown changes only as EmployeeResult
\* allows; the one thing lost is that a result published or appealed behind the snapshot of
\* an archive may be unconfirmed when the cycle closes.
THEOREM PromiseKept == Spec => PromiseButForClosing
<1>1. Init => Promise!Init
  BY PromiseInit DEF Init
<1>2. ResultInv /\ ClosedInv /\ [Next]_vars =>
          [\/ Promise!Next
           \/ /\ cycle = "ACTIVE" /\ cycle' = "ARCHIVED" /\ UNCHANGED chainVars
              /\ \A p \in Participant \ reopened :
                     \A v \in CurrentVersion(p) : versions[p][v].confirmed]_(Promise!vars)
  <2> SUFFICES ASSUME ResultInv, ClosedInv, [Next]_vars
               PROVE  \/ [Promise!Next]_(Promise!vars)
                      \/ /\ cycle = "ACTIVE" /\ cycle' = "ARCHIVED" /\ UNCHANGED chainVars
                         /\ \A p \in Participant \ reopened :
                                \A v \in CurrentVersion(p) : versions[p][v].confirmed
    OBVIOUS
  <2>1. TypeOK /\ NumberInv /\ Waiting
    BY DEF ResultInv
  <2>2. CASE [HandlerNext]_rowVars /\ (cycle' = "ARCHIVED" => cycle = "ARCHIVED")
    BY <2>1, <2>2, OpenPromiseStep
  <2>3. CASE CommitArchive
    BY <2>3, ArchiveCloses
  <2>4. CASE CommitRollback
    BY <2>1, <2>4, CommitRollbackRows, RollbackIsRetract DEF Promise!Next
  <2> QED BY <2>2, <2>3, <2>4, Steps
<1> QED BY <1>1, <1>2, ClosedInvariant, PTL DEF Spec, PromiseButForClosing

=============================================================================
