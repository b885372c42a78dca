-------------------------- MODULE ResultChainProofs --------------------------
(* Theorems about the result chain, for every set of participants and levels *)
(* and every value of the bounds.  A step of the specification is a step of  *)
(* the handlers of ResultChain, or the commit of an archive or of a rollback *)
(* that works on an old snapshot (Steps): each invariant is carried through  *)
(* the handlers first, then through the two commits.                         *)
EXTENDS ResultChainSnapshots, TLAPS

-----------------------------------------------------------------------------
(* Sequences of rows.                                                       *)

\* A function on 1..n is a sequence: rows rewritten in place stay a sequence.
LEMMA RowsAreSeq ==
    ASSUME NEW S, NEW n \in Nat, NEW f \in [1..n -> S]
    PROVE  f \in Seq(S)
BY SMT

\* The rows of a sequence are indexed by 1..Len.
LEMMA SeqDomain ==
    ASSUME NEW S, NEW s \in Seq(S)
    PROVE  /\ Len(s) \in Nat
           /\ DOMAIN s = 1..Len(s)
           /\ \A i \in DOMAIN s : s[i] \in S
BY SMT

\* Appending a row keeps the others where they are.
LEMMA AppendRow ==
    ASSUME NEW S, NEW s \in Seq(S), NEW e \in S
    PROVE  /\ Append(s, e) \in Seq(S)
           /\ Len(Append(s, e)) = Len(s) + 1
           /\ \A i \in 1..Len(s) : Append(s, e)[i] = s[i]
           /\ Append(s, e)[Len(s) + 1] = e
BY SMT

-----------------------------------------------------------------------------
(* Types.                                                                   *)

\* The rows of one participant.
LEMMA RowTypes ==
    ASSUME TypeOK, NEW p \in Participant
    PROVE  /\ Len(decisions[p]) \in Nat /\ Len(versions[p]) \in Nat /\ Len(appeals[p]) \in Nat
           /\ DOMAIN decisions[p] = 1..Len(decisions[p])
           /\ DOMAIN versions[p] = 1..Len(versions[p])
           /\ DOMAIN appeals[p] = 1..Len(appeals[p])
           /\ DOMAIN decisions[p] \subseteq Nat
           /\ DOMAIN versions[p] \subseteq Nat
           /\ DOMAIN appeals[p] \subseteq Nat
           /\ \A d \in DOMAIN decisions[p] : decisions[p][d] \in Decision
           /\ \A v \in DOMAIN versions[p] :
                 versions[p][v] \in Version /\ versions[p][v].number \in Nat
           /\ \A a \in DOMAIN appeals[p] :
                 appeals[p][a] \in Appeal /\ appeals[p][a].version \in Nat
<1>1. /\ decisions[p] \in Seq(Decision)
      /\ versions[p] \in Seq(Version)
      /\ appeals[p] \in Seq(Appeal)
  BY DEF TypeOK
<1>2. /\ Len(decisions[p]) \in Nat
      /\ DOMAIN decisions[p] = 1..Len(decisions[p])
      /\ \A d \in DOMAIN decisions[p] : decisions[p][d] \in Decision
  BY <1>1, SeqDomain
<1>3. /\ Len(versions[p]) \in Nat
      /\ DOMAIN versions[p] = 1..Len(versions[p])
      /\ \A v \in DOMAIN versions[p] : versions[p][v] \in Version
  BY <1>1, SeqDomain
<1>4. /\ Len(appeals[p]) \in Nat
      /\ DOMAIN appeals[p] = 1..Len(appeals[p])
      /\ \A a \in DOMAIN appeals[p] : appeals[p][a] \in Appeal
  BY <1>1, SeqDomain
<1>5. /\ \A v \in DOMAIN versions[p] : versions[p][v].number \in Nat
      /\ \A a \in DOMAIN appeals[p] : appeals[p][a].version \in Nat
  BY <1>3, <1>4 DEF Version, Appeal
<1>6. /\ DOMAIN decisions[p] \subseteq Nat
      /\ DOMAIN versions[p] \subseteq Nat
      /\ DOMAIN appeals[p] \subseteq Nat
  BY <1>2, <1>3, <1>4
<1> QED BY <1>2, <1>3, <1>4, <1>5, <1>6

\* Rewriting the rows of a participant one by one keeps their type.
LEMMA SupersedeType ==
    ASSUME TypeOK, NEW p \in Participant
    PROVE  /\ Supersede(p) \in Seq(Version)
           /\ Len(Supersede(p)) = Len(versions[p])
<1> DEFINE n == Len(versions[p])
<1>1. /\ versions[p] \in Seq(Version)
      /\ n \in Nat
      /\ DOMAIN versions[p] = 1..n
      /\ \A v \in 1..n : versions[p][v] \in Version
  BY SeqDomain DEF TypeOK
<1>2. \A v \in 1..n :
          [versions[p][v] EXCEPT !.superseded = @ \/ v \in CurrentVersion(p)] \in Version
  BY <1>1 DEF Version
<1>3. Supersede(p) \in [1..n -> Version]
  BY <1>1, <1>2 DEF Supersede
<1>4. DOMAIN Supersede(p) = 1..n
  BY <1>3
<1> QED BY <1>1, <1>3, <1>4, RowsAreSeq, SeqDomain

LEMMA PublishType ==
    ASSUME TypeOK, NEW p \in Participant, NEW n \in Nat, NEW l \in Level, NEW d \in Nat,
           PublishVersion(p, n, l, d)
    PROVE  /\ versions' \in [Participant -> Seq(Version)]
           /\ outbox' \subseteq EventType \X Participant \X Nat
<1>1. NewVersion(n, l, d) \in Version
  BY DEF NewVersion, Version
<1>2. Append(Supersede(p), NewVersion(n, l, d)) \in Seq(Version)
  BY <1>1, SupersedeType, AppendRow
<1>3. Len(versions[p]) \in Nat
  BY SeqDomain DEF TypeOK
<1> QED BY <1>2, <1>3 DEF PublishVersion, TypeOK, EventType

\* What the queries return.
LEMMA QueryTypes ==
    ASSUME TypeOK, NEW p \in Participant
    PROVE  /\ CurrentVersion(p) \subseteq 1..Len(versions[p])
           /\ LatestDecision(p) \subseteq 1..Len(decisions[p])
           /\ LatestDecision(p) \subseteq Nat
           /\ NextNumbers(p) \subseteq Nat
           /\ stageLevel[p] # NoLevel => PreLevel(p) \in Level
           /\ \A d \in LatestDecision(p) : FinalLevel(p, d) \in Level
<1>1. /\ DOMAIN versions[p] = 1..Len(versions[p])
      /\ \A v \in DOMAIN versions[p] : versions[p][v] \in Version
  BY SeqDomain DEF TypeOK
<1>2. /\ DOMAIN decisions[p] = 1..Len(decisions[p])
      /\ \A d \in DOMAIN decisions[p] : decisions[p][d] \in Decision
      /\ Len(decisions[p]) \in Nat
  BY SeqDomain DEF TypeOK
<1>3. CurrentVersion(p) \subseteq DOMAIN versions[p]
  BY DEF CurrentVersion
<1>4. LatestDecision(p) \subseteq DOMAIN decisions[p]
  BY DEF LatestDecision, ValidDecisions
<1>5. NextNumbers(p) \subseteq Nat
  BY <1>1 DEF NextNumbers, LastVersion, CurrentVersion, Version
<1>6. stageLevel[p] # NoLevel => PreLevel(p) \in Level
  BY LevelAssumption DEF PreLevel, TypeOK
<1>7. \A d \in LatestDecision(p) : FinalLevel(p, d) \in Level
  BY <1>2, <1>4, LevelAssumption DEF FinalLevel, Decision
<1>8. LatestDecision(p) \subseteq Nat
  BY <1>2, <1>4
<1> QED BY <1>1, <1>2, <1>3, <1>4, <1>5, <1>6, <1>7, <1>8

\* Versions and appeals invalidated by a rollback keep their type.
LEMMA InvalidateResultsType ==
    ASSUME TypeOK, InvalidateResults
    PROVE  /\ versions' \in [Participant -> Seq(Version)]
           /\ appeals' \in [Participant -> Seq(Appeal)]
<1>1. \A p \in Participant : versions'[p] \in Seq(Version)
  <2> TAKE p \in Participant
  <2> DEFINE n == Len(versions[p])
  <2>1. /\ n \in Nat
        /\ DOMAIN versions[p] = 1..n
        /\ \A v \in 1..n : versions[p][v] \in Version
    BY SeqDomain DEF TypeOK
  <2>2. \A v \in 1..n : [versions[p][v] EXCEPT !.valid = FALSE] \in Version
    BY <2>1 DEF Version
  <2>3. versions'[p] \in [1..n -> Version]
    BY <2>1, <2>2 DEF InvalidateResults
  <2> QED BY <2>1, <2>3, RowsAreSeq
<1>2. \A p \in Participant : appeals'[p] \in Seq(Appeal)
  <2> TAKE p \in Participant
  <2> DEFINE n == Len(appeals[p])
  <2>1. /\ n \in Nat
        /\ DOMAIN appeals[p] = 1..n
        /\ \A a \in 1..n : appeals[p][a] \in Appeal
    BY SeqDomain DEF TypeOK
  <2>2. \A a \in 1..n : [appeals[p][a] EXCEPT !.valid = FALSE] \in Appeal
    BY <2>1 DEF Appeal
  <2>3. appeals'[p] \in [1..n -> Appeal]
    BY <2>1, <2>2 DEF InvalidateResults
  <2> QED BY <2>1, <2>3, RowsAreSeq
<1> QED BY <1>1, <1>2 DEF InvalidateResults

\* Closing an appeal rewrites three columns of one row.
LEMMA CloseType ==
    ASSUME TypeOK, NEW p \in Participant, NEW a \in DOMAIN appeals[p], NEW d \in Nat,
           NEW changed \in BOOLEAN, CloseAppeal(p, a, d, changed)
    PROVE  appeals' \in [Participant -> Seq(Appeal)]
<1> DEFINE row == [appeals[p][a] EXCEPT !.resolved = TRUE, !.adjusted = changed, !.basis = d]
<1>1. appeals[p] \in Seq(Appeal) /\ appeals[p][a] \in Appeal
  BY SeqDomain DEF TypeOK
<1>2. row \in Appeal
  BY <1>1 DEF Appeal
<1>3. [appeals[p] EXCEPT ![a] = row] \in Seq(Appeal)
  BY <1>1, <1>2
<1>4. appeals' = [appeals EXCEPT ![p] = [appeals[p] EXCEPT ![a] = row]]
  BY <1>1 DEF CloseAppeal, TypeOK, Appeal
<1> QED BY <1>3, <1>4 DEF TypeOK

LEMMA TypeInit == RowsInit => TypeOK
<1> SUFFICES ASSUME RowsInit PROVE TypeOK
  OBVIOUS
<1>1. /\ decisions \in [Participant -> Seq(Decision)]
      /\ versions \in [Participant -> Seq(Version)]
      /\ appeals \in [Participant -> Seq(Appeal)]
  BY DEF RowsInit
<1>2. page \in [Participant -> Page]
  BY LevelAssumption DEF RowsInit, Page
<1> QED BY <1>1, <1>2, LevelAssumption
        DEF RowsInit, TypeOK, CycleStatus, ParticipantStatus, ResultStatus, Stage

\* A recalculated stage has a level or none.
LEMMA RecalculateType ==
    ASSUME TypeOK, NEW p \in Participant
    PROVE  /\ RecalculatedLevel(p) \subseteq Level \cup {NoLevel}
           /\ Recalculate(p) => stageLevel' \in [Participant -> Level \cup {NoLevel}]
<1>1. RecalculatedLevel(p) \subseteq Level \cup {NoLevel}
  BY DEF RecalculatedLevel, TypeOK
<1> QED BY <1>1 DEF Recalculate, TypeOK

\* A change of the configuration keeps the types.
LEMMA ConfigurationType == TypeOK /\ ConfigurationStep => TypeOK'
<1> SUFFICES ASSUME TypeOK, ConfigurationStep PROVE TypeOK'
  OBVIOUS
<1> USE DEF chainVars
<1>1. ASSUME EveryInputChanged PROVE revision' \in [Participant -> Nat]
  <2>1. \A p \in Participant : revision[p] + 1 \in Nat
    BY DEF TypeOK
  <2> QED BY <1>1, <2>1 DEF EveryInputChanged
<1>2. CASE ChangeConfiguration
  BY <1>1, <1>2 DEF ChangeConfiguration, TypeOK
<1>3. CASE ReapplyConfiguration
  BY <1>1, <1>3 DEF ReapplyConfiguration, TypeOK
<1>4. ASSUME NEW stages \in SUBSET Stage \ {{}}, ChangeForms(stages) PROVE TypeOK'
  <2>1. submitted' \in [Participant -> SUBSET Stage]
    BY <1>4 DEF ChangeForms, TypeOK
  <2> QED BY <1>1, <1>4, <2>1 DEF ChangeForms, TypeOK
<1> QED BY <1>2, <1>3, <1>4 DEF ConfigurationStep

\* A configuration change writes the evaluation input and nothing of the chain.
LEMMA ConfigurationFrame ==
    ConfigurationStep => UNCHANGED <<cycle, redLines, chainVars, page, batch>>
BY DEF ConfigurationStep, ChangeConfiguration, ReapplyConfiguration, ChangeForms

\* Every handler keeps the types; one step per action.
LEMMA HandlerTypeStep == TypeOK /\ [HandlerNext]_rowVars => TypeOK'
<1> SUFFICES ASSUME TypeOK, [HandlerNext]_rowVars PROVE TypeOK'
  OBVIOUS
<1> USE DEF rowVars, inputVars, chainVars
<1>1. ASSUME NEW p \in Participant, InputStep(p) PROVE TypeOK'
  <2>1. revision[p] \in Nat /\ redLines[p] \in Nat
    BY DEF TypeOK
  <2>2. CASE SubmitSelf(p)
    <3>1. revision' \in [Participant -> Nat]
      BY <2>1, <2>2 DEF SubmitSelf, InputChanged, TypeOK
    <3>2. submitted' \in [Participant -> SUBSET Stage]
      BY <2>2 DEF SubmitSelf, TypeOK, Stage
    <3> QED BY <2>2, <3>1, <3>2 DEF SubmitSelf, TypeOK
  <2>3. ASSUME NEW l \in Level, SubmitManager(p, l) PROVE TypeOK'
    <3>1. revision' \in [Participant -> Nat]
      BY <2>1, <2>3 DEF SubmitManager, InputChanged, TypeOK
    <3>2. submitted' \in [Participant -> SUBSET Stage]
      BY <2>3 DEF SubmitManager, TypeOK, Stage
    <3> QED BY <2>3, <3>1, <3>2 DEF SubmitManager, TypeOK
  <2>4. CASE ConfirmRedLine(p)
    <3>1. revision' \in [Participant -> Nat] /\ redLines' \in [Participant -> Nat]
      BY <2>1, <2>4 DEF ConfirmRedLine, InputChanged, TypeOK
    <3>2. stageLevel' \in [Participant -> Level \cup {NoLevel}]
      BY <2>4, RecalculateType DEF ConfirmRedLine
    <3> QED BY <2>4, <3>1, <3>2 DEF ConfirmRedLine, TypeOK
  <2>5. CASE RevokeRedLine(p)
    <3>1. revision[p] + 1 \in Nat /\ redLines[p] - 1 \in Nat
      BY <2>1, <2>5 DEF RevokeRedLine
    <3>2. revision' \in [Participant -> Nat] /\ redLines' \in [Participant -> Nat]
      BY <2>5, <3>1 DEF RevokeRedLine, InputChanged, TypeOK
    <3>3. stageLevel' \in [Participant -> Level \cup {NoLevel}]
      BY <2>5, RecalculateType DEF RevokeRedLine
    <3> QED BY <2>5, <3>2, <3>3 DEF RevokeRedLine, TypeOK
  <2>6. CASE ViewManagerContext(p)
    <3>1. revision' \in [Participant -> Nat]
      BY <2>1, <2>6 DEF ViewManagerContext, InputChanged, TypeOK
    <3>2. stageLevel' \in [Participant -> Level \cup {NoLevel}]
      BY <2>6, RecalculateType DEF ViewManagerContext
    <3> QED BY <2>6, <3>1, <3>2 DEF ViewManagerContext, TypeOK
  <2> QED BY <1>1, <2>2, <2>3, <2>4, <2>5, <2>6 DEF InputStep
<1>2. ASSUME NEW p \in Participant, OpenPage(p) PROVE TypeOK'
  <2>1. [decision |-> LatestDecision(p), revision |-> revision[p], level |-> PreLevel(p)] \in Page
    BY <1>2, QueryTypes DEF OpenPage, Page, TypeOK
  <2> QED BY <1>2, <2>1 DEF OpenPage, TypeOK
<1>3. ASSUME NEW p \in Participant, NEW l \in Level, Decide(p, l) PROVE TypeOK'
  <2>1. Append(decisions[p], [level |-> l, valid |-> TRUE]) \in Seq(Decision)
    BY AppendRow DEF TypeOK, Decision
  <2>2. DecidedStatus(p) \in ParticipantStatus
    BY DEF DecidedStatus, TypeOK, ParticipantStatus, ResultStatus
  <2> QED BY <1>3, <2>1, <2>2 DEF Decide, TypeOK
<1>4. ASSUME NEW p \in Participant, PublishChanged(p) PROVE TypeOK'
  <2>1. PICK d \in LatestDecision(p), n \in NextNumbers(p) :
            PublishVersion(p, n, FinalLevel(p, d), d)
    BY <1>4 DEF PublishChanged
  <2>2. d \in Nat /\ n \in Nat /\ FinalLevel(p, d) \in Level
    BY QueryTypes
  <2>3. /\ versions' \in [Participant -> Seq(Version)]
        /\ outbox' \subseteq EventType \X Participant \X Nat
    BY <2>1, <2>2, PublishType
  <2> QED BY <1>4, <2>3 DEF PublishChanged, TypeOK, ParticipantStatus, ResultStatus
<1>5. ASSUME NEW p \in Participant, PublishUnchanged(p) PROVE TypeOK'
  BY <1>5 DEF PublishUnchanged, TypeOK
<1>6. ASSUME NEW p \in Participant, NEW v \in DOMAIN versions[p], Confirm(p, v)
      PROVE  TypeOK'
  <2> DEFINE row == [versions[p][v] EXCEPT !.confirmed = TRUE]
  <2>1. versions[p] \in Seq(Version) /\ versions[p][v] \in Version
    BY SeqDomain DEF TypeOK
  <2>2. row \in Version
    BY <2>1 DEF Version
  <2>3. [versions[p] EXCEPT ![v] = row] \in Seq(Version)
    BY <2>1, <2>2
  <2>4. versions' = [versions EXCEPT ![p] = [versions[p] EXCEPT ![v] = row]]
    BY <1>6 DEF Confirm
  <2> QED BY <1>6, <2>3, <2>4 DEF Confirm, TypeOK, ParticipantStatus, ResultStatus
<1>7. ASSUME NEW p \in Participant, NEW v \in DOMAIN versions[p], CreateAppeal(p, v)
      PROVE  TypeOK'
  <2> DEFINE row == [version |-> v, resolved |-> FALSE, adjusted |-> FALSE,
                     basis |-> 0, valid |-> TRUE]
  <2>1. v \in Nat /\ Len(appeals[p]) \in Nat
    BY RowTypes
  <2>2. row \in Appeal
    BY <2>1 DEF Appeal
  <2>3. Append(appeals[p], row) \in Seq(Appeal)
    BY <2>2, AppendRow DEF TypeOK
  <2> QED BY <1>7, <2>1, <2>3
          DEF CreateAppeal, TypeOK, ParticipantStatus, ResultStatus, EventType
<1>8. ASSUME NEW p \in Participant, NEW a \in DOMAIN appeals[p], ResolveMaintained(p, a)
      PROVE  TypeOK'
  <2>1. PICK d \in LatestDecision(p) : CloseAppeal(p, a, d, FALSE)
    BY <1>8 DEF ResolveMaintained
  <2>2. d \in Nat /\ a \in Nat
    BY QueryTypes, RowTypes
  <2>3. appeals' \in [Participant -> Seq(Appeal)]
    BY <2>1, <2>2, CloseType
  <2>4. status' \in [Participant -> ParticipantStatus]
    BY <1>8 DEF ResolveMaintained, TypeOK, ParticipantStatus, ResultStatus
  <2>5. outbox' \subseteq EventType \X Participant \X Nat
    BY <1>8, <2>2 DEF ResolveMaintained, TypeOK, EventType
  <2> QED BY <1>8, <2>3, <2>4, <2>5 DEF ResolveMaintained, TypeOK
<1>9. ASSUME NEW p \in Participant, NEW a \in DOMAIN appeals[p], ResolveAdjusted(p, a)
      PROVE  TypeOK'
  <2> DEFINE v == appeals[p][a].version
  <2>1. PICK d \in LatestDecision(p) :
            /\ ResolvableOn(p, a, d)
            /\ PublishVersion(p, versions[p][v].number + 1, FinalLevel(p, d), d)
            /\ CloseAppeal(p, a, d, TRUE)
    BY <1>9 DEF ResolveAdjusted
  <2>2. d \in Nat /\ FinalLevel(p, d) \in Level
    BY QueryTypes
  <2>3. v \in DOMAIN versions[p]
    BY <2>1 DEF ResolvableOn, CurrentVersion
  <2>4. versions[p][v].number \in Nat
    BY <2>3, RowTypes
  <2>5. /\ versions' \in [Participant -> Seq(Version)]
        /\ outbox' \subseteq EventType \X Participant \X Nat
    BY <2>1, <2>2, <2>4, PublishType
  <2>6. appeals' \in [Participant -> Seq(Appeal)]
    BY <2>1, <2>2, CloseType
  <2> QED BY <1>9, <2>5, <2>6 DEF ResolveAdjusted, TypeOK, ParticipantStatus, ResultStatus
<1>10. ASSUME NEW p \in Participant, LeaveStep(p) PROVE TypeOK'
  BY <1>10 DEF LeaveStep, MarkNoResult, RevokeNoResult, Withdraw, TypeOK,
               ParticipantStatus, ResultStatus
<1>11. CASE StartPublish
  BY <1>11 DEF StartPublish, TypeOK
<1>12. CASE PublishAborted
  BY <1>12 DEF PublishAborted, TypeOK
<1>13. CASE Schedule \/ ReturnToDraft \/ Activate
  BY <1>13 DEF Schedule, ReturnToDraft, Activate, TypeOK, CycleStatus
<1>15. CASE UNCHANGED rowVars
  BY <1>15 DEF TypeOK
<1>16. ASSUME NEW p \in Participant, ParticipantStep(p) PROVE TypeOK'
  <2>1. CASE CalibrationStep(p)
    <3>1. CASE Keep(p)
      <4>1. PreLevel(p) \in Level
        BY <3>1, QueryTypes DEF Keep, Decide
      <4> QED BY <3>1, <4>1, <1>3 DEF Keep
    <3> QED BY <2>1, <3>1, <1>2, <1>3 DEF CalibrationStep, Adjust
  <2>2. CASE PublishStep(p)
    BY <2>2, <1>4, <1>5 DEF PublishStep
  <2>3. CASE EmployeeStep(p)
    BY <2>3, <1>6, <1>7 DEF EmployeeStep
  <2>4. CASE AppealStep(p)
    BY <2>4, <1>8, <1>9 DEF AppealStep
  <2> QED BY <1>16, <1>1, <1>10, <2>1, <2>2, <2>3, <2>4 DEF ParticipantStep
<1>17. CASE CycleStep
  BY <1>17, <1>13, ConfigurationType DEF CycleStep
<1> QED BY <1>11, <1>12, <1>15, <1>16, <1>17 DEF HandlerNext

-----------------------------------------------------------------------------
(* How a step may change the version rows of a participant.                 *)

SameVersions(p) == versions'[p] = versions[p]

ConfirmedCurrent(p) ==
    \E v \in CurrentVersion(p) :
        versions'[p] = [versions[p] EXCEPT ![v] = [@ EXCEPT !.confirmed = TRUE]]

Published(p) ==
    \E n \in NextNumbers(p), l \in Level, d \in LatestDecision(p) :
        versions'[p] = Append(Supersede(p), NewVersion(n, l, d))

Invalidated(p) ==
    versions'[p] = [v \in DOMAIN versions[p] |-> [versions[p][v] EXCEPT !.valid = FALSE]]

AppealsVoided(p) ==
    appeals'[p] = [a \in DOMAIN appeals[p] |-> [appeals[p][a] EXCEPT !.valid = FALSE]]

\* Both publishing paths, publishCycle and an adjusted appeal, have the same effect.
LEMMA PublishSteps ==
    ASSUME TypeOK, NEW p \in Participant, NEW q \in Participant,
           \/ PublishChanged(p)
           \/ \E a \in DOMAIN appeals[p] : ResolveAdjusted(p, a)
    PROVE  IF q = p THEN Published(q) ELSE SameVersions(q)
<1>1. CASE PublishChanged(p)
  <2>1. PICK d \in LatestDecision(p), n \in NextNumbers(p) :
            PublishVersion(p, n, FinalLevel(p, d), d)
    BY <1>1 DEF PublishChanged
  <2>2. FinalLevel(p, d) \in Level
    BY QueryTypes
  <2> QED BY <2>1, <2>2 DEF PublishVersion, Published, SameVersions, TypeOK
<1>2. ASSUME NEW a \in DOMAIN appeals[p], ResolveAdjusted(p, a)
      PROVE  IF q = p THEN Published(q) ELSE SameVersions(q)
  <2> DEFINE v == appeals[p][a].version
  <2>1. PICK d \in LatestDecision(p) :
            /\ ResolvableOn(p, a, d)
            /\ PublishVersion(p, versions[p][v].number + 1, FinalLevel(p, d), d)
    BY <1>2 DEF ResolveAdjusted
  <2>2. FinalLevel(p, d) \in Level
    BY QueryTypes
  <2>3. versions[p][v].number + 1 \in NextNumbers(p)
    BY <2>1 DEF ResolvableOn, NextNumbers
  <2> QED BY <2>1, <2>2, <2>3 DEF PublishVersion, Published, SameVersions, TypeOK
<1> QED BY <1>1, <1>2

LEMMA VersionSteps ==
    ASSUME TypeOK, [HandlerNext]_rowVars, NEW q \in Participant
    PROVE  SameVersions(q) \/ ConfirmedCurrent(q) \/ Published(q)
<1> USE DEF rowVars, inputVars, chainVars
<1>1. ASSUME NEW p \in Participant, ParticipantStep(p)
      PROVE  SameVersions(q) \/ ConfirmedCurrent(q) \/ Published(q)
  <2>1. CASE InputStep(p)
    BY <2>1 DEF InputStep, SubmitSelf, SubmitManager, ConfirmRedLine, RevokeRedLine,
                ViewManagerContext, SameVersions
  <2>2. CASE CalibrationStep(p)
    BY <2>2 DEF CalibrationStep, OpenPage, Keep, Adjust, Decide, SameVersions
  <2>3. CASE PublishChanged(p)
    BY <2>3, PublishSteps
  <2>4. CASE PublishUnchanged(p)
    BY <2>4 DEF PublishUnchanged, SameVersions
  <2>5. ASSUME NEW v \in DOMAIN versions[p], Confirm(p, v)
        PROVE  SameVersions(q) \/ ConfirmedCurrent(q)
    <3>1. v \in CurrentVersion(p)
      BY <2>5 DEF Confirm
    <3>2. versions' = [versions EXCEPT ![p] =
                          [versions[p] EXCEPT ![v] = [versions[p][v] EXCEPT !.confirmed = TRUE]]]
      BY <2>5 DEF Confirm
    <3>3. CASE q = p
      BY <3>1, <3>2, <3>3 DEF ConfirmedCurrent, TypeOK
    <3>4. CASE q # p
      BY <3>2, <3>4 DEF SameVersions, TypeOK
    <3> QED BY <3>3, <3>4
  <2>6. ASSUME NEW v \in DOMAIN versions[p], CreateAppeal(p, v) PROVE SameVersions(q)
    BY <2>6 DEF CreateAppeal, SameVersions
  <2>7. ASSUME NEW a \in DOMAIN appeals[p], ResolveMaintained(p, a) PROVE SameVersions(q)
    BY <2>7 DEF ResolveMaintained, SameVersions
  <2>8. ASSUME NEW a \in DOMAIN appeals[p], ResolveAdjusted(p, a)
        PROVE  SameVersions(q) \/ Published(q)
    BY <2>8, PublishSteps
  <2>9. CASE LeaveStep(p)
    BY <2>9 DEF LeaveStep, MarkNoResult, RevokeNoResult, Withdraw, SameVersions
  <2> QED BY <1>1, <2>1, <2>2, <2>3, <2>4, <2>5, <2>6, <2>7, <2>8, <2>9
          DEF ParticipantStep, PublishStep, EmployeeStep, AppealStep
<1>2. CASE StartPublish \/ PublishAborted \/ UNCHANGED rowVars
  BY <1>2 DEF StartPublish, PublishAborted, SameVersions
<1>3. CASE Schedule \/ ReturnToDraft \/ Activate
  BY <1>3 DEF Schedule, ReturnToDraft, Activate, SameVersions
<1>4. CASE ConfigurationStep
  BY <1>4, ConfigurationFrame DEF SameVersions
<1> QED BY <1>1, <1>2, <1>3, <1>4 DEF HandlerNext, CycleStep

\* What setting one flag leaves alone.
LEMMA MarkedRow ==
    ASSUME NEW r \in Version, NEW b \in BOOLEAN
    PROVE  LET m == [r EXCEPT !.superseded = b] IN
           /\ <<m.number, m.level, m.source>> = <<r.number, r.level, r.source>>
           /\ m.confirmed = r.confirmed
           /\ m.valid = r.valid
           /\ m.superseded = b
BY DEF Version

\* A publication appends one row and supersedes the current one.
LEMMA PublishedRows ==
    ASSUME TypeOK, NEW p \in Participant, Published(p)
    PROVE  LET k == Len(versions[p]) IN
           /\ k \in Nat
           /\ DOMAIN versions[p] = 1..k
           /\ DOMAIN versions'[p] = 1..(k + 1)
           /\ Len(versions'[p]) = k + 1
           /\ \E n \in NextNumbers(p), l \in Level, d \in LatestDecision(p) :
                  versions'[p][k + 1] = NewVersion(n, l, d)
           /\ \A v \in 1..k :
                  LET old == versions[p][v]  new == versions'[p][v] IN
                  /\ <<new.number, new.level, new.source>> = <<old.number, old.level, old.source>>
                  /\ new.confirmed = old.confirmed
                  /\ new.valid = old.valid
                  /\ new.superseded <=> old.superseded \/ v \in CurrentVersion(p)
<1> DEFINE k == Len(versions[p])
<1>1. PICK n \in NextNumbers(p), l \in Level, d \in LatestDecision(p) :
          versions'[p] = Append(Supersede(p), NewVersion(n, l, d))
  BY DEF Published
<1>2. NewVersion(n, l, d) \in Version
  BY QueryTypes DEF NewVersion, Version
<1>3. Supersede(p) \in Seq(Version) /\ Len(Supersede(p)) = k
  BY SupersedeType
<1>4. k \in Nat /\ DOMAIN versions[p] = 1..k
  BY RowTypes
<1>5. /\ versions'[p] \in Seq(Version)
      /\ Len(versions'[p]) = k + 1
      /\ \A v \in 1..k : versions'[p][v] = Supersede(p)[v]
      /\ versions'[p][k + 1] = NewVersion(n, l, d)
  BY <1>1, <1>2, <1>3, AppendRow
<1>6. DOMAIN versions'[p] = 1..(k + 1)
  BY <1>5, SeqDomain
<1>7. ASSUME NEW v \in 1..k
      PROVE  LET old == versions[p][v]  new == versions'[p][v] IN
             /\ <<new.number, new.level, new.source>> = <<old.number, old.level, old.source>>
             /\ new.confirmed = old.confirmed
             /\ new.valid = old.valid
             /\ new.superseded <=> old.superseded \/ v \in CurrentVersion(p)
  <2> DEFINE old == versions[p][v]
             b   == old.superseded \/ v \in CurrentVersion(p)
  <2>1. old \in Version /\ b \in BOOLEAN
    BY <1>4, RowTypes
  <2>2. versions'[p][v] = [old EXCEPT !.superseded = b]
    BY <1>4, <1>5 DEF Supersede
  <2> HIDE DEF b
  <2>3. /\ <<versions'[p][v].number, versions'[p][v].level, versions'[p][v].source>>
              = <<old.number, old.level, old.source>>
        /\ versions'[p][v].confirmed = old.confirmed
        /\ versions'[p][v].valid = old.valid
        /\ versions'[p][v].superseded = b
    BY <2>1, <2>2, MarkedRow
  <2> QED BY <2>3 DEF b
<1> QED BY <1>1, <1>4, <1>5, <1>6, <1>7

-----------------------------------------------------------------------------
(* The steps of the specification.                                          *)

\* No handler of a participant changes the cycle row.
LEMMA HandlersKeepCycle ==
    ASSUME NEW p \in Participant, ParticipantStep(p)
    PROVE  cycle' = cycle
<1>1. CASE InputStep(p) \/ CalibrationStep(p)
  BY <1>1 DEF InputStep, SubmitSelf, SubmitManager, ConfirmRedLine, RevokeRedLine,
              ViewManagerContext, CalibrationStep, OpenPage, Keep, Adjust, Decide
<1>2. CASE PublishStep(p) \/ EmployeeStep(p)
  BY <1>2 DEF PublishStep, PublishChanged, PublishUnchanged, EmployeeStep, Confirm,
              CreateAppeal
<1>3. CASE AppealStep(p) \/ LeaveStep(p)
  BY <1>3 DEF AppealStep, ResolveMaintained, ResolveAdjusted, LeaveStep, MarkNoResult,
              RevokeNoResult, Withdraw
<1> QED BY <1>1, <1>2, <1>3 DEF ParticipantStep

\* Every step but the two commits is one of the handlers, and does not archive the cycle.
LEMMA Steps ==
    ASSUME [Next]_vars
    PROVE  \/ /\ [HandlerNext]_rowVars
              /\ cycle' = "ARCHIVED" => cycle = "ARCHIVED"
              /\ survived' = survived
           \/ CommitArchive
           \/ CommitRollback
<1>1. ASSUME NEW p \in Participant, HandlerStep(p)
      PROVE  [HandlerNext]_rowVars /\ cycle' = cycle /\ survived' = survived
  BY <1>1, HandlersKeepCycle DEF HandlerStep, HandlerNext
<1>2. CASE BatchStep
  BY <1>2 DEF BatchStep, HandlerNext, StartPublish, PublishAborted
<1>3. CASE CycleRowStep
  <2>1. [HandlerNext]_rowVars
    BY <1>3 DEF CycleRowStep, HandlerNext, CycleStep
  <2>2. cycle' = "ARCHIVED" => cycle = "ARCHIVED"
    BY <1>3, ConfigurationFrame DEF CycleRowStep, CycleStep, Schedule, ReturnToDraft, Activate
  <2> QED BY <1>3, <2>1, <2>2 DEF CycleRowStep
<1>4. ASSUME UNCHANGED rowVars PROVE [HandlerNext]_rowVars /\ cycle' = cycle
  BY <1>4 DEF rowVars
<1>5. UNCHANGED vars => UNCHANGED rowVars /\ survived' = survived
  BY DEF vars
<1> QED BY <1>1, <1>2, <1>3, <1>4, <1>5 DEF Next, BeginArchive, BeginRollback, AbortTx

\* An archive or a rollback waits only while the cycle runs.
Waiting ==
    /\ archiveTx \/ rollbackTx # {} => cycle = "ACTIVE"
    /\ \A tx \in rollbackTx : tx.target \in {"DRAFT", "SCHEDULED"}

LEMMA WaitingInit == Init => Waiting
BY DEF Init, Waiting

LEMMA WaitingStep == Waiting /\ [Next]_vars => Waiting'
<1> SUFFICES ASSUME Waiting, [Next]_vars PROVE Waiting'
  OBVIOUS
<1>1. ASSUME NEW p \in Participant, HandlerStep(p) PROVE Waiting'
  BY <1>1, HandlersKeepCycle DEF HandlerStep, Waiting
<1>2. CASE BatchStep
  BY <1>2 DEF BatchStep, StartPublish, PublishAborted, Waiting
<1>3. CASE CycleRowStep \/ CommitArchive \/ CommitRollback \/ AbortTx
  BY <1>3 DEF CycleRowStep, CommitArchive, CommitRollback, AbortTx, Waiting
<1>4. CASE BeginArchive
  BY <1>4 DEF BeginArchive, rowVars, Waiting
<1>5. ASSUME NEW target \in {"DRAFT", "SCHEDULED"}, BeginRollback(target) PROVE Waiting'
  BY <1>5 DEF BeginRollback, rowVars, Waiting
<1>6. CASE UNCHANGED vars
  BY <1>6 DEF vars, rowVars, Waiting
<1> QED BY <1>1, <1>2, <1>3, <1>4, <1>5, <1>6 DEF Next

\* Whether a decision stays valid is all a rollback rewrites of it.
LEMMA MarkedDecision ==
    ASSUME NEW r \in Decision, NEW b \in BOOLEAN
    PROVE  LET m == [r EXCEPT !.valid = b] IN
           m \in Decision /\ m.level = r.level /\ m.valid = b
BY DEF Decision

\* A rollback on a snapshot: the decisions it has not seen stay valid.
LEMMA SeenDecisions ==
    ASSUME TypeOK, NEW tx \in rollbackTx, InvalidateSnapshot(tx), NEW p \in Participant
    PROVE  /\ decisions'[p] \in Seq(Decision)
           /\ DOMAIN decisions'[p] = DOMAIN decisions[p]
           /\ Len(decisions'[p]) = Len(decisions[p])
           /\ \A d \in DOMAIN decisions[p] :
                 /\ decisions'[p][d].level = decisions[p][d].level
                 /\ decisions'[p][d].valid <=> decisions[p][d].valid /\ d > tx.seen[p]
<1> DEFINE k == Len(decisions[p])
           stays(d) == decisions[p][d].valid /\ d > tx.seen[p]
           row(d) == [decisions[p][d] EXCEPT !.valid = stays(d)]
<1>1. /\ k \in Nat
      /\ DOMAIN decisions[p] = 1..k
      /\ \A d \in 1..k : decisions[p][d] \in Decision
  BY RowTypes
<1>2. decisions'[p] = [d \in 1..k |-> row(d)]
  BY <1>1 DEF InvalidateSnapshot
<1>3. ASSUME NEW d \in 1..k
      PROVE  /\ row(d) \in Decision
             /\ row(d).level = decisions[p][d].level
             /\ row(d).valid = stays(d)
  <2>1. stays(d) \in BOOLEAN
    OBVIOUS
  <2> HIDE DEF stays
  <2> QED BY <1>1, <2>1, MarkedDecision
<1> HIDE DEF row
<1>4. decisions'[p] \in [1..k -> Decision]
  BY <1>2, <1>3
<1>5. decisions'[p] \in Seq(Decision)
  BY <1>1, <1>4, RowsAreSeq
<1>6. Len(decisions'[p]) = k
  BY <1>1, <1>2
<1>7. \A d \in 1..k : decisions'[p][d] = row(d)
  BY <1>2
<1> QED BY <1>1, <1>3, <1>4, <1>5, <1>6, <1>7

\* What a rollback on a snapshot does to the rows.
LEMMA CommitRollbackRows ==
    ASSUME TypeOK, Waiting, CommitRollback
    PROVE  /\ cycle = "ACTIVE" /\ cycle' \in {"DRAFT", "SCHEDULED"}
           /\ InvalidateResults
           /\ \A p \in Participant : Invalidated(p) /\ AppealsVoided(p)
           /\ \E tx \in rollbackTx : InvalidateSnapshot(tx)
<1>1. PICK tx \in rollbackTx : cycle' = tx.target /\ InvalidateSnapshot(tx)
  BY DEF CommitRollback
<1>2. InvalidateResults
  BY <1>1 DEF InvalidateSnapshot
<1> QED BY <1>1, <1>2 DEF Waiting, InvalidateResults, Invalidated, AppealsVoided

\* The types, with the rows a rollback writes.
LEMMA TypeStep ==
    TypeOK /\ Waiting /\ [Next]_vars => TypeOK'
<1> SUFFICES ASSUME TypeOK, Waiting, [Next]_vars PROVE TypeOK'
  OBVIOUS
<1>1. CASE [HandlerNext]_rowVars
  BY <1>1, HandlerTypeStep
<1>2. CASE CommitArchive
  BY <1>2 DEF CommitArchive, inputVars, chainVars, TypeOK, CycleStatus
<1>3. CASE CommitRollback
  <2>1. cycle' \in CycleStatus
    BY <1>3, CommitRollbackRows DEF CycleStatus
  <2>2. PICK tx \in rollbackTx : InvalidateSnapshot(tx)
    BY <1>3, CommitRollbackRows
  <2>3. decisions' \in [Participant -> Seq(Decision)]
    BY <2>2, SeenDecisions DEF InvalidateSnapshot
  <2>4. versions' \in [Participant -> Seq(Version)] /\ appeals' \in [Participant -> Seq(Appeal)]
    BY <1>3, CommitRollbackRows, InvalidateResultsType
  <2>5. locked' \in [Participant -> BOOLEAN] /\ status' \in [Participant -> ParticipantStatus]
    BY <1>3 DEF CommitRollback, ReleaseParticipants, TypeOK, ParticipantStatus
  <2>6. outbox' \subseteq EventType \X Participant \X Nat
    <3>1. \A p \in Participant : CurrentVersion(p) \subseteq Nat
      BY RowTypes DEF CurrentVersion
    <3>2. InvalidationEvents \subseteq EventType \X Participant \X Nat
      BY <3>1 DEF InvalidationEvents, EventType
    <3> QED BY <1>3, <3>2 DEF CommitRollback, TypeOK
  <2> QED BY <1>3, <2>1, <2>3, <2>4, <2>5, <2>6 DEF CommitRollback, inputVars, TypeOK
<1> QED BY <1>1, <1>2, <1>3, Steps

\* TypeOK: whatever the handlers do and whatever an archive or a rollback did not see,
\* every table keeps rows of its type, red lines are never revoked below none, and statuses
\* stay in their enum.
THEOREM TypeCorrect == Spec => []TypeOK
<1>1. Init => TypeOK /\ Waiting
  BY TypeInit, WaitingInit DEF Init
<1>2. (TypeOK /\ Waiting) /\ [Next]_vars => (TypeOK /\ Waiting)'
  BY TypeStep, WaitingStep
<1> QED BY <1>1, <1>2, PTL DEF Spec

-----------------------------------------------------------------------------
(* Numbers and the current version.                                         *)

\* The strengthening: a version in force is the last row of its participant, so
\* "current + 1" and "latest historical + 1" are both the next free number.
CurrentIsLast ==
    \A p \in Participant : \A v \in CurrentVersion(p) : v = Len(versions[p])

NumberInv == NumbersContinue /\ CurrentIsLast

LEMMA NumberInit == RowsInit => NumberInv
BY DEF RowsInit, NumberInv, NumbersContinue, CurrentIsLast, CurrentVersion

\* Under the invariant the next number is the next position.
LEMMA NextNumberIsNextRow ==
    ASSUME TypeOK, NumberInv, NEW p \in Participant, NEW n \in NextNumbers(p)
    PROVE  n = Len(versions[p]) + 1
<1> DEFINE k == Len(versions[p])
<1>1. /\ k \in Nat
      /\ DOMAIN versions[p] = 1..k
      /\ \A v \in 1..k : versions[p][v].number = v
  BY RowTypes DEF NumberInv, NumbersContinue
<1>2. \A v \in CurrentVersion(p) : v = k /\ versions[p][v].number = k
  BY <1>1 DEF NumberInv, CurrentIsLast, CurrentVersion
<1>3. \A v \in LastVersion(p) : versions[p][v].number = k
  <2> SUFFICES ASSUME NEW v \in LastVersion(p) PROVE versions[p][v].number = k
    OBVIOUS
  <2>1. v \in 1..k /\ \A w \in 1..k : w <= v
    BY <1>1 DEF LastVersion
  <2>2. k \in 1..k
    BY <1>1, <2>1
  <2> QED BY <1>1, <2>1, <2>2
<1>4. CASE CurrentVersion(p) # {}
  BY <1>2, <1>4 DEF NextNumbers
<1>5. CASE CurrentVersion(p) = {} /\ LastVersion(p) # {}
  BY <1>3, <1>5 DEF NextNumbers
<1>6. CASE CurrentVersion(p) = {} /\ LastVersion(p) = {}
  <2>1. n = 1
    BY <1>6 DEF NextNumbers
  <2>2. k = 0
    <3> SUFFICES ASSUME k # 0 PROVE FALSE
      OBVIOUS
    <3>1. k \in 1..k
      BY <1>1
    <3>2. k \in LastVersion(p)
      BY <1>1, <3>1 DEF LastVersion
    <3> QED BY <1>6, <3>2
  <2> QED BY <2>1, <2>2
<1> QED BY <1>4, <1>5, <1>6

\* The numbers survive whatever may happen to a version row.
LEMMA NumberRows ==
    ASSUME TypeOK, NumberInv,
           \A p \in Participant :
               SameVersions(p) \/ ConfirmedCurrent(p) \/ Published(p) \/ Invalidated(p)
    PROVE  NumberInv'
<1> SUFFICES ASSUME NEW p \in Participant
             PROVE  /\ \A v \in DOMAIN versions'[p] : versions'[p][v].number = v
                    /\ \A v \in CurrentVersion(p)' : v = Len(versions'[p])
  BY DEF NumberInv, NumbersContinue, CurrentIsLast
<1> DEFINE k == Len(versions[p])
<1>1. /\ k \in Nat
      /\ DOMAIN versions[p] = 1..k
      /\ \A v \in 1..k : versions[p][v] \in Version /\ versions[p][v].number = v
      /\ \A v \in CurrentVersion(p) : v = k
      /\ CurrentVersion(p) = {v \in 1..k : versions[p][v].valid /\ ~versions[p][v].superseded}
  BY RowTypes DEF NumberInv, NumbersContinue, CurrentIsLast, CurrentVersion
<1>2. CASE SameVersions(p)
  BY <1>1, <1>2 DEF SameVersions, CurrentVersion
<1>3. CASE ConfirmedCurrent(p)
  <2>1. PICK w \in CurrentVersion(p) :
            versions'[p] = [versions[p] EXCEPT ![w] = [@ EXCEPT !.confirmed = TRUE]]
    BY <1>3 DEF ConfirmedCurrent
  <2>2. versions[p] \in Seq(Version)
    BY DEF TypeOK
  <2>3. /\ DOMAIN versions'[p] = 1..k
        /\ Len(versions'[p]) = k
    BY <1>1, <2>1, <2>2
  <2>4. \A v \in 1..k : /\ versions'[p][v].number = v
                        /\ versions'[p][v].valid = versions[p][v].valid
                        /\ versions'[p][v].superseded = versions[p][v].superseded
    BY <1>1, <2>1 DEF Version
  <2> QED BY <1>1, <2>3, <2>4 DEF CurrentVersion
<1>4. CASE Published(p)
  <2>1. PICK n \in NextNumbers(p), l \in Level, d \in LatestDecision(p) :
            versions'[p][k + 1] = NewVersion(n, l, d)
    BY <1>4, PublishedRows
  <2>2. /\ DOMAIN versions'[p] = 1..(k + 1)
        /\ Len(versions'[p]) = k + 1
    BY <1>4, PublishedRows
  <2>3. versions'[p][k + 1].number = k + 1
    BY <2>1, NextNumberIsNextRow DEF NewVersion
  <2>4. \A v \in 1..k : versions'[p][v].number = v
    BY <1>1, <1>4, PublishedRows
  <2>5. \A v \in 1..k : ~(versions'[p][v].valid /\ ~versions'[p][v].superseded)
    BY <1>1, <1>4, PublishedRows
  <2>6. \A v \in 1..(k + 1) : v \in 1..k \/ v = k + 1
    BY <1>1
  <2> QED BY <2>2, <2>3, <2>4, <2>5, <2>6 DEF CurrentVersion
<1>5. CASE Invalidated(p)
  <2>1. versions'[p] = [v \in 1..k |-> [versions[p][v] EXCEPT !.valid = FALSE]]
    BY <1>1, <1>5 DEF Invalidated
  <2>2. DOMAIN versions'[p] = 1..k
    BY <2>1
  <2>3. \A v \in 1..k : versions'[p][v].number = v /\ ~versions'[p][v].valid
    BY <1>1, <2>1 DEF Version
  <2> QED BY <2>2, <2>3 DEF CurrentVersion
<1> QED BY <1>2, <1>3, <1>4, <1>5

LEMMA HandlerNumberStep == TypeOK /\ NumberInv /\ [HandlerNext]_rowVars => NumberInv'
BY NumberRows, VersionSteps

LEMMA NumberStep == TypeOK /\ NumberInv /\ Waiting /\ [Next]_vars => NumberInv'
<1> SUFFICES ASSUME TypeOK, NumberInv, Waiting, [Next]_vars PROVE NumberInv'
  OBVIOUS
<1>1. CASE [HandlerNext]_rowVars
  BY <1>1, HandlerNumberStep
<1>2. CASE CommitArchive
  BY <1>2, NumberRows DEF CommitArchive, chainVars, SameVersions
<1>3. CASE CommitRollback
  BY <1>3, CommitRollbackRows, NumberRows
<1> QED BY <1>1, <1>2, <1>3, Steps

-----------------------------------------------------------------------------
(* Status, lock, decisions and versions.                                    *)

\* LockFollowsChain and StatusFollowsVersion for one participant.
ChainOK(p) ==
    /\ locked[p] => status[p] \in ResultStatus
    /\ status[p] \in ResultStatus => ValidDecisions(p) # {}
    /\ p \notin survived => (ValidDecisions(p) # {} => locked[p])
    /\ status[p] \in ResultStatus \ {"CALIBRATED"} => CurrentVersion(p) # {}
    /\ CurrentVersion(p) # {} => status[p] \in ResultStatus
    /\ \A v \in CurrentVersion(p) :
          /\ status[p] = "CONFIRMED" => versions[p][v].confirmed
          /\ p \notin survived =>
                /\ status[p] # "CALIBRATED"
                /\ versions[p][v].confirmed => status[p] = "CONFIRMED"

ChainInv == \A p \in Participant : ChainOK(p)

LEMMA ChainInvParts == ChainInv <=> LockFollowsChain /\ StatusFollowsVersion
BY DEF ChainInv, ChainOK, LockFollowsChain, StatusFollowsVersion

LEMMA ChainInit == RowsInit => ChainInv
BY DEF RowsInit, ChainInv, ChainOK, ValidDecisions, CurrentVersion, ResultStatus

\* A step that leaves a participant's columns alone keeps the invariant for it.
LEMMA ChainFrame ==
    ASSUME NEW q \in Participant, ChainOK(q), SameVersions(q),
           status'[q] = status[q], locked'[q] = locked[q], decisions'[q] = decisions[q],
           survived' = survived
    PROVE  ChainOK(q)'
BY DEF ChainOK, SameVersions, ValidDecisions, CurrentVersion

\* A handler that changes only the status, staying inside the chain with the version
\* unanswered, or staying outside of it.
LEMMA StatusChange ==
    ASSUME NEW p \in Participant, ChainOK(p), SameVersions(p),
           locked'[p] = locked[p], decisions'[p] = decisions[p], survived' = survived,
           \/ /\ status[p] \in {"RESULT_PUBLISHED", "APPEALING"}
              /\ status'[p] \in {"RESULT_PUBLISHED", "APPEALING"}
           \/ status[p] \notin ResultStatus /\ status'[p] \notin ResultStatus
    PROVE  ChainOK(p)'
BY DEF ChainOK, SameVersions, ValidDecisions, CurrentVersion, ResultStatus

\* After a publication the new row, not yet confirmed, is the only version in force.
LEMMA PublishedCurrent ==
    ASSUME TypeOK, NumberInv, NEW p \in Participant, Published(p)
    PROVE  \E v \in CurrentVersion(p)' :
               CurrentVersion(p)' = {v} /\ ~versions'[p][v].confirmed
<1> DEFINE k == Len(versions[p])
<1>1. /\ k \in Nat
      /\ DOMAIN versions'[p] = 1..(k + 1)
      /\ \A v \in 1..k : /\ versions'[p][v].valid = versions[p][v].valid
                         /\ versions'[p][v].superseded <=>
                               versions[p][v].superseded \/ v \in CurrentVersion(p)
  BY PublishedRows
<1>2. PICK n \in NextNumbers(p), l \in Level, d \in LatestDecision(p) :
          versions'[p][k + 1] = NewVersion(n, l, d)
  BY PublishedRows
<1>3. /\ versions'[p][k + 1].valid
      /\ ~versions'[p][k + 1].superseded
      /\ ~versions'[p][k + 1].confirmed
  BY <1>2 DEF NewVersion
<1>4. DOMAIN versions[p] = 1..k
  BY RowTypes
<1>5. \A v \in 1..k : ~(versions'[p][v].valid /\ ~versions'[p][v].superseded)
  BY <1>1, <1>4 DEF CurrentVersion
<1>6. \A v \in 1..(k + 1) : v \in 1..k \/ v = k + 1
  BY <1>1
<1>7. k + 1 \in 1..(k + 1)
  BY <1>1
<1>8. CurrentVersion(p)' = {k + 1}
  BY <1>1, <1>3, <1>5, <1>6, <1>7 DEF CurrentVersion
<1> QED BY <1>3, <1>8

LEMMA PublishKeepsChain ==
    ASSUME TypeOK, NumberInv, NEW p \in Participant, ChainOK(p), Published(p),
           locked'[p] = locked[p], decisions'[p] = decisions[p], survived' = survived,
           status'[p] \in {"RESULT_PUBLISHED", "RE_CONFIRMING"}
    PROVE  ChainOK(p)'
<1>1. ValidDecisions(p) # {}
  BY DEF Published, LatestDecision
<1>2. p \notin survived => locked[p]
  BY <1>1 DEF ChainOK
<1>3. ValidDecisions(p)' # {}
  BY <1>1 DEF ValidDecisions
<1>4. PICK v \in CurrentVersion(p)' :
          CurrentVersion(p)' = {v} /\ ~versions'[p][v].confirmed
  BY PublishedCurrent
<1>5. /\ status'[p] \in ResultStatus \ {"CALIBRATED"}
      /\ status'[p] # "CONFIRMED"
      /\ status'[p] \in ResultStatus
  BY DEF ResultStatus
<1> QED BY <1>2, <1>3, <1>4, <1>5 DEF ChainOK

\* A decision locks the participant; the first one of a round calibrates it.
LEMMA DecideKeepsChain ==
    ASSUME TypeOK, NEW p \in Participant, NEW l \in Level, ChainOK(p), Decide(p, l),
           survived' = survived
    PROVE  ChainOK(p)'
<1> DEFINE row == [level |-> l, valid |-> TRUE]
           k   == Len(decisions[p])
<1>1. decisions[p] \in Seq(Decision) /\ row \in Decision
  BY DEF TypeOK, Decision
<1>2. decisions'[p] = Append(decisions[p], row)
  BY DEF Decide, TypeOK
<1>3. /\ decisions'[p] \in Seq(Decision)
      /\ Len(decisions'[p]) = k + 1
      /\ decisions'[p][k + 1] = row
  BY <1>1, <1>2, AppendRow
<1>4. k + 1 \in DOMAIN decisions'[p]
  <2>1. k \in Nat
    BY RowTypes
  <2>2. DOMAIN decisions'[p] = 1..(k + 1)
    BY <1>3, SeqDomain
  <2> QED BY <2>1, <2>2
<1>5. ValidDecisions(p)' # {}
  BY <1>3, <1>4 DEF ValidDecisions
<1>6. /\ locked'[p]
      /\ status'[p] = DecidedStatus(p)
      /\ versions' = versions
  BY DEF Decide, TypeOK
<1>7. CASE locked[p]
  <2>1. status'[p] = status[p]
    BY <1>6, <1>7 DEF DecidedStatus
  <2> QED BY <1>5, <1>6, <1>7, <2>1 DEF ChainOK, CurrentVersion
<1>8. CASE ~locked[p]
  <2>1. status'[p] = "CALIBRATED"
    BY <1>6, <1>8 DEF DecidedStatus
  <2>2. p \notin survived => CurrentVersion(p) = {}
    BY <1>8 DEF ChainOK
  <2>3. CurrentVersion(p)' = CurrentVersion(p)
    BY <1>6 DEF CurrentVersion
  <2> QED BY <1>5, <1>6, <2>1, <2>2, <2>3 DEF ChainOK, ResultStatus
<1> QED BY <1>7, <1>8

\* A confirmation answers the one version in force.
LEMMA ConfirmKeepsChain ==
    ASSUME TypeOK, NumberInv, NEW p \in Participant, NEW v \in DOMAIN versions[p],
           ChainOK(p), Confirm(p, v), survived' = survived
    PROVE  ChainOK(p)'
<1> DEFINE row == [versions[p][v] EXCEPT !.confirmed = TRUE]
<1>1. /\ versions[p] \in Seq(Version)
      /\ versions[p][v] \in Version
  BY RowTypes DEF TypeOK
<1>2. versions'[p] = [versions[p] EXCEPT ![v] = row]
  BY DEF Confirm, TypeOK
<1>3. /\ row.confirmed
      /\ row.valid = versions[p][v].valid
      /\ row.superseded = versions[p][v].superseded
  BY <1>1 DEF Version
<1>4. DOMAIN versions'[p] = DOMAIN versions[p]
  BY <1>2
<1>5. versions'[p][v] = row /\ \A w \in DOMAIN versions[p] \ {v} : versions'[p][w] = versions[p][w]
  BY <1>1, <1>2
<1>6. CurrentVersion(p)' = CurrentVersion(p)
  BY <1>3, <1>4, <1>5 DEF CurrentVersion
<1>7. CurrentVersion(p) = {v}
  BY DEF Confirm, NumberInv, CurrentIsLast
<1>8. /\ status'[p] = "CONFIRMED"
      /\ locked'[p] = locked[p]
      /\ decisions'[p] = decisions[p]
      /\ status[p] \in {"RESULT_PUBLISHED", "RE_CONFIRMING"}
  BY DEF Confirm, TypeOK
<1>9. ValidDecisions(p)' = ValidDecisions(p)
  BY <1>8 DEF ValidDecisions
<1>10. status[p] \in ResultStatus /\ status'[p] \in ResultStatus \ {"CALIBRATED"}
  BY <1>8 DEF ResultStatus
<1>11. ValidDecisions(p)' # {} /\ (p \notin survived => locked'[p])
  BY <1>8, <1>9, <1>10 DEF ChainOK
<1>12. versions'[p][v].confirmed
  BY <1>3, <1>5
<1> QED BY <1>6, <1>7, <1>8, <1>10, <1>11, <1>12 DEF ChainOK

\* A rollback takes the chain out of force, but for the decisions it has not seen.
LEMMA RollbackKeepsChain ==
    ASSUME TypeOK, NEW p \in Participant, CommitRollback
    PROVE  ChainOK(p)'
<1>1. PICK tx \in rollbackTx :
          /\ InvalidateSnapshot(tx)
          /\ survived' = {q \in Participant : \E d \in ValidDecisions(q) : d > tx.seen[q]}
  BY DEF CommitRollback
<1>2. /\ DOMAIN decisions'[p] = DOMAIN decisions[p]
      /\ \A d \in DOMAIN decisions[p] :
            decisions'[p][d].valid <=> decisions[p][d].valid /\ d > tx.seen[p]
  BY <1>1, SeenDecisions
<1>3. p \notin survived' => ValidDecisions(p)' = {}
  BY <1>1, <1>2 DEF ValidDecisions
<1>4. /\ DOMAIN versions'[p] = DOMAIN versions[p]
      /\ \A v \in DOMAIN versions[p] :
             versions'[p][v] = [versions[p][v] EXCEPT !.valid = FALSE]
  BY <1>1 DEF InvalidateSnapshot, InvalidateResults
<1>5. \A v \in DOMAIN versions[p] : versions[p][v] \in Version
  BY RowTypes
<1>6. \A v \in DOMAIN versions[p] : ~versions'[p][v].valid
  BY <1>4, <1>5 DEF Version
<1>7. CurrentVersion(p)' = {}
  BY <1>4, <1>6 DEF CurrentVersion
<1>8. ~locked'[p] /\ status'[p] \notin ResultStatus
  BY DEF CommitRollback, ReleaseParticipants, ResultStatus
<1> QED BY <1>3, <1>7, <1>8 DEF ChainOK

\* Handlers that leave the status, the lock, the decisions and the versions alone.
LEMMA ChainUntouched ==
    ASSUME ChainInv, UNCHANGED <<status, locked, decisions, versions, survived>>
    PROVE  ChainInv'
BY DEF ChainInv, ChainOK, ValidDecisions, CurrentVersion

\* A handler of one participant leaves the others alone.
LEMMA ChainOthers ==
    ASSUME TypeOK, NEW p \in Participant, NEW q \in Participant, q # p,
           \/ \E l \in Level : Decide(p, l)
           \/ PublishChanged(p)
           \/ EmployeeStep(p)
           \/ AppealStep(p)
           \/ LeaveStep(p)
    PROVE  /\ SameVersions(q)
           /\ status'[q] = status[q]
           /\ locked'[q] = locked[q]
           /\ decisions'[q] = decisions[q]
<1> USE DEF TypeOK, SameVersions
<1>1. ASSUME NEW l \in Level, Decide(p, l)
      PROVE  /\ SameVersions(q) /\ status'[q] = status[q] /\ locked'[q] = locked[q]
             /\ decisions'[q] = decisions[q]
  BY <1>1 DEF Decide
<1>2. CASE PublishChanged(p)
  BY <1>2, PublishSteps DEF PublishChanged
<1>3. CASE EmployeeStep(p)
  <2>1. ASSUME NEW v \in DOMAIN versions[p], Confirm(p, v)
        PROVE  SameVersions(q)
    BY <2>1 DEF Confirm
  <2> QED BY <1>3, <2>1 DEF EmployeeStep, Confirm, CreateAppeal
<1>4. CASE AppealStep(p)
  <2>1. ASSUME NEW a \in DOMAIN appeals[p], ResolveAdjusted(p, a)
        PROVE  SameVersions(q)
    BY <2>1, PublishSteps
  <2> QED BY <1>4, <2>1 DEF AppealStep, ResolveMaintained, ResolveAdjusted
<1>5. CASE LeaveStep(p)
  BY <1>5 DEF LeaveStep, MarkNoResult, RevokeNoResult, Withdraw
<1> QED BY <1>1, <1>2, <1>3, <1>4, <1>5

\* Nor does it touch their status or their versions in any other step.
LEMMA StatusOfOthers ==
    ASSUME TypeOK, NEW p \in Participant, NEW q \in Participant, q # p, ParticipantStep(p)
    PROVE  status'[q] = status[q] /\ SameVersions(q)
<1> USE DEF chainVars, SameVersions
<1>1. CASE InputStep(p)
  BY <1>1 DEF InputStep, SubmitSelf, SubmitManager, ConfirmRedLine, RevokeRedLine,
              ViewManagerContext
<1>2. CASE CalibrationStep(p)
  BY <1>2 DEF CalibrationStep, OpenPage, Keep, Adjust, Decide, TypeOK
<1>3. CASE PublishStep(p)
  BY <1>3, ChainOthers DEF PublishStep, PublishUnchanged
<1>4. CASE EmployeeStep(p) \/ AppealStep(p) \/ LeaveStep(p)
  BY <1>4, ChainOthers
<1> QED BY <1>1, <1>2, <1>3, <1>4 DEF ParticipantStep

\* Every handler keeps lock, status, decisions and current version in step.
LEMMA HandlerChainStep ==
    ASSUME TypeOK, NumberInv, ChainInv, [HandlerNext]_rowVars, survived' = survived
    PROVE  ChainInv'
<1> USE DEF rowVars, inputVars, chainVars
<1>1. ASSUME NEW p \in Participant, NEW l \in Level, Decide(p, l) PROVE ChainOK(p)'
  BY <1>1, DecideKeepsChain DEF ChainInv
<1>2. ASSUME NEW p \in Participant, PublishChanged(p) PROVE ChainOK(p)'
  <2>1. Published(p)
    BY <1>2, PublishSteps
  <2>2. /\ locked'[p] = locked[p]
        /\ decisions'[p] = decisions[p]
        /\ status'[p] = "RESULT_PUBLISHED"
    BY <1>2 DEF PublishChanged, TypeOK
  <2>3. ChainOK(p)
    BY DEF ChainInv
  <2> QED BY <2>1, <2>2, <2>3, PublishKeepsChain
<1>3. ASSUME NEW p \in Participant, EmployeeStep(p) PROVE ChainOK(p)'
  <2>1. ChainOK(p)
    BY DEF ChainInv
  <2>2. ASSUME NEW v \in DOMAIN versions[p], Confirm(p, v) PROVE ChainOK(p)'
    BY <2>1, <2>2, ConfirmKeepsChain
  <2>3. ASSUME NEW v \in DOMAIN versions[p], CreateAppeal(p, v) PROVE ChainOK(p)'
    <3>1. /\ SameVersions(p)
          /\ locked'[p] = locked[p]
          /\ decisions'[p] = decisions[p]
          /\ status[p] = "RESULT_PUBLISHED"
          /\ status'[p] = "APPEALING"
      BY <2>3 DEF CreateAppeal, TypeOK, SameVersions
    <3> QED BY <2>1, <3>1, StatusChange
  <2> QED BY <1>3, <2>2, <2>3 DEF EmployeeStep
<1>4. ASSUME NEW p \in Participant, AppealStep(p) PROVE ChainOK(p)'
  <2>1. ChainOK(p)
    BY DEF ChainInv
  <2>2. ASSUME NEW a \in DOMAIN appeals[p], ResolveMaintained(p, a) PROVE ChainOK(p)'
    <3>1. /\ SameVersions(p)
          /\ locked'[p] = locked[p]
          /\ decisions'[p] = decisions[p]
          /\ status[p] = "APPEALING"
          /\ status'[p] = "RESULT_PUBLISHED"
      BY <2>2 DEF ResolveMaintained, ResolvableOn, TypeOK, SameVersions
    <3> QED BY <2>1, <3>1, StatusChange
  <2>3. ASSUME NEW a \in DOMAIN appeals[p], ResolveAdjusted(p, a) PROVE ChainOK(p)'
    <3>1. Published(p)
      BY <2>3, PublishSteps
    <3>2. /\ locked'[p] = locked[p]
          /\ decisions'[p] = decisions[p]
          /\ status'[p] = "RE_CONFIRMING"
      BY <2>3 DEF ResolveAdjusted, TypeOK
    <3> QED BY <2>1, <3>1, <3>2, PublishKeepsChain
  <2> QED BY <1>4, <2>2, <2>3 DEF AppealStep
<1>5. ASSUME NEW p \in Participant, LeaveStep(p) PROVE ChainOK(p)'
  <2>1. ChainOK(p)
    BY DEF ChainInv
  <2>2. /\ SameVersions(p)
        /\ locked'[p] = locked[p]
        /\ decisions'[p] = decisions[p]
    BY <1>5 DEF LeaveStep, MarkNoResult, RevokeNoResult, Withdraw, TypeOK, SameVersions
  <2>3. status[p] \notin ResultStatus
    <3>1. CASE MarkNoResult(p)
      BY <2>1, <3>1 DEF MarkNoResult, ChainOK
    <3>2. CASE RevokeNoResult(p) \/ Withdraw(p)
      BY <3>2 DEF RevokeNoResult, Withdraw, ResultStatus
    <3> QED BY <1>5, <3>1, <3>2 DEF LeaveStep
  <2>4. status'[p] \notin ResultStatus
    BY <1>5 DEF LeaveStep, MarkNoResult, RevokeNoResult, Withdraw, TypeOK, ResultStatus
  <2> QED BY <2>1, <2>2, <2>3, <2>4, StatusChange
<1>6. ASSUME NEW p \in Participant,
             \/ \E l \in Level : Decide(p, l)
             \/ PublishChanged(p)
             \/ EmployeeStep(p)
             \/ AppealStep(p)
             \/ LeaveStep(p)
      PROVE  ChainInv'
  <2>1. ChainOK(p)'
    BY <1>1, <1>2, <1>3, <1>4, <1>5, <1>6
  <2>2. ASSUME NEW q \in Participant, q # p PROVE ChainOK(q)'
    <3>1. ChainOK(q)
      BY DEF ChainInv
    <3>2. /\ SameVersions(q)
          /\ status'[q] = status[q]
          /\ locked'[q] = locked[q]
          /\ decisions'[q] = decisions[q]
      BY <1>6, <2>2, ChainOthers
    <3> QED BY <3>1, <3>2, ChainFrame
  <2> QED BY <2>1, <2>2 DEF ChainInv
<1>7. ASSUME NEW p \in Participant,
             InputStep(p) \/ OpenPage(p) \/ PublishUnchanged(p)
      PROVE  ChainInv'
  BY <1>7, ChainUntouched
     DEF InputStep, SubmitSelf, SubmitManager, ConfirmRedLine, RevokeRedLine,
         ViewManagerContext, OpenPage, PublishUnchanged
<1>8. CASE UNCHANGED rowVars
  BY <1>8, ChainUntouched
<1>9. CASE StartPublish \/ PublishAborted \/ Schedule \/ ReturnToDraft \/ Activate
  BY <1>9, ChainUntouched
     DEF StartPublish, PublishAborted, Schedule, ReturnToDraft, Activate
<1>11. ASSUME NEW p \in Participant, CalibrationStep(p) PROVE ChainInv'
  <2>1. Keep(p) => PreLevel(p) \in Level
    BY QueryTypes DEF Keep, Decide
  <2>2. OpenPage(p) \/ \E l \in Level : Decide(p, l)
    BY <1>11, <2>1 DEF CalibrationStep, Keep, Adjust
  <2> QED BY <1>6, <1>7, <2>2
<1>12. CASE ConfigurationStep
  BY <1>12, ConfigurationFrame, ChainUntouched
<1> QED BY <1>6, <1>7, <1>8, <1>9, <1>11, <1>12
        DEF HandlerNext, ParticipantStep, PublishStep, CycleStep

LEMMA ChainStep == TypeOK /\ NumberInv /\ ChainInv /\ [Next]_vars => ChainInv'
<1> SUFFICES ASSUME TypeOK, NumberInv, ChainInv, [Next]_vars PROVE ChainInv'
  OBVIOUS
<1>1. CASE [HandlerNext]_rowVars /\ survived' = survived
  BY <1>1, HandlerChainStep
<1>2. CASE CommitArchive
  BY <1>2, ChainUntouched DEF CommitArchive, chainVars
<1>3. CASE CommitRollback
  BY <1>3, RollbackKeepsChain DEF ChainInv
<1>4. ([HandlerNext]_rowVars /\ survived' = survived) \/ CommitArchive \/ CommitRollback
  BY Steps
<1> QED BY <1>1, <1>2, <1>3, <1>4

\* The invariant the theorems below rest on, with the facts that carry it.
ResultInv == TypeOK /\ NumberInv /\ ChainInv /\ Waiting

LEMMA ResultInvariant == Spec => []ResultInv
<1>1. Init => ResultInv
  BY TypeInit, NumberInit, ChainInit, WaitingInit DEF Init, ResultInv
<1>2. ResultInv /\ [Next]_vars => ResultInv'
  BY TypeStep, NumberStep, ChainStep, WaitingStep DEF ResultInv
<1> QED BY <1>1, <1>2, PTL DEF Spec

\* NumbersContinue: through superseded and rolled-back rows and along both publishing
\* paths, the n-th version row of a participant has number n.
THEOREM NumbersCorrect == Spec => []NumbersContinue
<1>1. ResultInv => NumbersContinue
  BY DEF ResultInv, NumberInv
<1> QED BY <1>1, ResultInvariant, PTL

\* OneCurrentVersion: no order of publications, appeals and rollbacks leaves an
\* employee with two versions in force, whatever a rollback did not see.
THEOREM CurrentVersionUnique == Spec => []OneCurrentVersion
<1>1. ResultInv => OneCurrentVersion
  BY DEF ResultInv, NumberInv, CurrentIsLast, OneCurrentVersion
<1> QED BY <1>1, ResultInvariant, PTL

\* LockFollowsChain: whoever decides, publishes, appeals, withdraws or rolls back, the
\* evaluation lock is held only in the statuses of the chain, those only with a decision in
\* force, and a decision in force locks, unless the last rollback had not seen it.
THEOREM LockCorrect == Spec => []LockFollowsChain
<1>1. ResultInv => LockFollowsChain
  BY ChainInvParts DEF ResultInv
<1> QED BY <1>1, ResultInvariant, PTL

\* StatusFollowsVersion: what the status promises of the version in force is true, and
\* the version says no more than the status does unless a rollback overlooked a decision.
THEOREM StatusCorrect == Spec => []StatusFollowsVersion
<1>1. ResultInv => StatusFollowsVersion
  BY ChainInvParts DEF ResultInv
<1> QED BY <1>1, ResultInvariant, PTL

-----------------------------------------------------------------------------
(* The life of the cycle.                                                   *)

\* In an archived cycle only reads are left: an operator opens a page, publishCycle
\* lists its candidates, a leader opens the sheet (and stage results are rewritten).
LEMMA ArchivedHandlers ==
    ASSUME cycle = "ARCHIVED", [HandlerNext]_rowVars
    PROVE  UNCHANGED <<cycle, submitted, redLines, chainVars>>
<1> USE DEF rowVars, inputVars, chainVars
<1>1. ASSUME NEW p \in Participant, ParticipantStep(p)
      PROVE  UNCHANGED <<cycle, submitted, redLines, chainVars>>
  <2>1. InputStep(p) => ViewManagerContext(p)
    BY DEF InputStep, SubmitSelf, SubmitManager, HumanWriteAllowed, ConfirmRedLine,
           RevokeRedLine
  <2>2. ~\E l \in Level : Adjust(p, l)
    BY DEF Adjust, Decide, CycleAllowsCalibration
  <2>3. ~Keep(p)
    BY DEF Keep, Decide, CycleAllowsCalibration
  <2>4. ~PublishStep(p)
    BY DEF PublishStep, PublishChanged, PublishUnchanged
  <2>5. ~EmployeeStep(p)
    BY DEF EmployeeStep, Confirm, CreateAppeal
  <2>6. ~AppealStep(p)
    BY DEF AppealStep, ResolveMaintained, ResolveAdjusted, ResolvableOn
  <2>7. ~LeaveStep(p)
    BY DEF LeaveStep, MarkNoResult, RevokeNoResult, Withdraw
  <2> QED BY <1>1, <2>1, <2>2, <2>3, <2>4, <2>5, <2>6, <2>7
          DEF ParticipantStep, CalibrationStep, OpenPage, ViewManagerContext
<1>2. CASE StartPublish \/ PublishAborted
  BY <1>2 DEF StartPublish, PublishAborted
<1>3. ~CycleStep
  BY DEF CycleStep, Schedule, ReturnToDraft, Activate, ConfigurationStep,
         ChangeConfiguration, ReapplyConfiguration, ChangeForms
<1> QED BY <1>1, <1>2, <1>3 DEF HandlerNext

LEMMA ArchivedStep ==
    ASSUME Waiting, cycle = "ARCHIVED", [Next]_vars
    PROVE  UNCHANGED <<cycle, submitted, redLines, chainVars>>
<1>1. ~CommitArchive /\ ~CommitRollback
  BY DEF Waiting, CommitArchive, CommitRollback
<1> QED BY <1>1, Steps, ArchivedHandlers

\* ArchiveIsFinal: no handler changes a row of the chain of an archived cycle, and neither
\* does a rollback that waited for the archive, nor the other way round.
THEOREM ArchiveFinal == Spec => ArchiveIsFinal
<1>1. ResultInv /\ [Next]_vars => [cycle = "ARCHIVED" =>
                         UNCHANGED <<cycle, submitted, redLines, chainVars>>]_rowVars
  BY ArchivedStep DEF ResultInv
<1> QED BY <1>1, ResultInvariant, PTL DEF Spec, ArchiveIsFinal

\* The strengthening: what the waiting archive has seen is still so for everybody whose
\* status did not change meanwhile.
ClosedInv ==
    archiveTx \/ cycle = "ARCHIVED" => \A p \in Participant \ reopened : Settled(p)

\* A handler that changes the version or the appeals of a settled participant changes the
\* status with it.
LEMMA SettledStays ==
    ASSUME TypeOK, ChainInv, NEW p \in Participant, NEW q \in Participant, Settled(p),
           ParticipantStep(q), status'[p] = status[p]
    PROVE  Settled(p)'
<1> USE DEF chainVars
<1>1. CASE versions'[p] = versions[p] /\ appeals'[p] = appeals[p]
  BY <1>1 DEF Settled, CurrentVersion, OpenAppeals, ValidAppeals
<1>2. CASE InputStep(q)
  BY <1>1, <1>2 DEF InputStep, SubmitSelf, SubmitManager, ConfirmRedLine, RevokeRedLine,
                    ViewManagerContext
<1>3. CASE CalibrationStep(q)
  BY <1>1, <1>3 DEF CalibrationStep, OpenPage, Keep, Adjust, Decide
<1>4. CASE PublishStep(q)
  <2>1. PublishChanged(q) => q # p
    BY DEF PublishChanged, Settled, TypeOK
  <2>2. PublishChanged(q) => SameVersions(p) /\ appeals' = appeals
    BY <2>1, PublishSteps DEF PublishChanged
  <2> QED BY <1>1, <1>4, <2>2 DEF PublishStep, PublishUnchanged, SameVersions
<1>5. CASE EmployeeStep(q)
  <2>1. q # p
    BY <1>5 DEF EmployeeStep, Confirm, CreateAppeal, Settled
  <2> QED BY <1>1, <1>5, <2>1 DEF EmployeeStep, Confirm, CreateAppeal, TypeOK
<1>6. CASE AppealStep(q)
  <2>1. q # p
    BY <1>6 DEF AppealStep, ResolveMaintained, ResolveAdjusted, ResolvableOn, Settled
  <2>2. SameVersions(p)
    BY <1>6, <2>1, ChainOthers
  <2>3. appeals'[p] = appeals[p]
    BY <1>6, <2>1 DEF AppealStep, ResolveMaintained, ResolveAdjusted, CloseAppeal, TypeOK
  <2> QED BY <1>1, <2>2, <2>3 DEF SameVersions
<1>7. CASE LeaveStep(q)
  BY <1>1, <1>7 DEF LeaveStep, MarkNoResult, RevokeNoResult, Withdraw
<1> QED BY <1>2, <1>3, <1>4, <1>5, <1>6, <1>7 DEF ParticipantStep

LEMMA ClosedStep == ResultInv /\ ClosedInv /\ [Next]_vars => ClosedInv'
<1> SUFFICES ASSUME ResultInv, ClosedInv, [Next]_vars, archiveTx' \/ cycle' = "ARCHIVED",
                    NEW p \in Participant, p \notin reopened'
             PROVE  Settled(p)'
  BY DEF ClosedInv
<1> USE DEF Settled, CurrentVersion, OpenAppeals, ValidAppeals
<1>1. CASE UNCHANGED chainVars /\ reopened' = reopened /\ (archiveTx \/ cycle = "ARCHIVED")
  BY <1>1 DEF ClosedInv, chainVars
<1>2. ASSUME NEW q \in Participant, HandlerStep(q) PROVE Settled(p)'
  <2>1. cycle' = cycle /\ archiveTx' = archiveTx
    BY <1>2, HandlersKeepCycle DEF HandlerStep
  <2>2. CASE cycle = "ARCHIVED"
    <3>1. ~archiveTx
      BY <2>2 DEF ResultInv, Waiting
    <3>2. reopened' = reopened
      BY <1>2, <3>1 DEF HandlerStep
    <3>3. UNCHANGED chainVars
      BY <2>2, ArchivedStep DEF ResultInv
    <3> QED BY <1>1, <2>2, <3>2, <3>3
  <2>3. CASE archiveTx
    <3>1. p \notin reopened /\ (p = q => status'[p] = status[p])
      BY <1>2, <2>3 DEF HandlerStep
    <3>2. p # q => status'[p] = status[p]
      BY <1>2, StatusOfOthers DEF HandlerStep, ResultInv
    <3>3. Settled(p)
      BY <2>3, <3>1 DEF ClosedInv
    <3> HIDE DEF Settled
    <3> QED BY <1>2, <3>1, <3>2, <3>3, SettledStays DEF HandlerStep, ResultInv
  <2> QED BY <2>1, <2>2, <2>3
<1>3. CASE BatchStep
  BY <1>1, <1>3 DEF BatchStep, StartPublish, PublishAborted
<1>4. CASE CycleRowStep
  <2>1. CASE Schedule \/ ReturnToDraft \/ Activate
    BY <1>4, <2>1 DEF CycleRowStep, Schedule, ReturnToDraft, Activate
  <2>2. CASE ConfigurationStep
    <3>1. cycle' = cycle /\ cycle # "ARCHIVED" /\ ~archiveTx'
      BY <1>4, <2>2, ConfigurationFrame
         DEF CycleRowStep, ConfigurationStep, ChangeConfiguration, ReapplyConfiguration,
             ChangeForms
    <3> QED BY <3>1
  <2> QED BY <1>4, <2>1, <2>2 DEF CycleRowStep, CycleStep
<1>5. CASE BeginArchive
  BY <1>5 DEF BeginArchive, Blocked, rowVars, chainVars
<1>6. CASE CommitArchive
  BY <1>1, <1>6 DEF CommitArchive
<1>7. ASSUME NEW target \in {"DRAFT", "SCHEDULED"}, BeginRollback(target) PROVE Settled(p)'
  BY <1>1, <1>7 DEF BeginRollback, rowVars
<1>8. ~CommitRollback
  BY CommitRollbackRows DEF CommitRollback, ResultInv
<1>9. ~AbortTx
  BY DEF AbortTx, rowVars, ResultInv, Waiting
<1>10. CASE UNCHANGED vars
  BY <1>1, <1>10 DEF vars, rowVars
<1> QED BY <1>2, <1>3, <1>4, <1>5, <1>6, <1>7, <1>8, <1>9, <1>10 DEF Next

LEMMA ClosedInvariant == Spec => [](ResultInv /\ ClosedInv)
<1>1. Init => ClosedInv
  BY DEF Init, RowsInit, ClosedInv
<1> QED BY <1>1, ClosedStep, ResultInvariant, PTL DEF Spec

\* ClosedUnlessReopened: when a cycle is archived, and ever after, everybody in it is
\* settled whose status did not change while the archive waited with its snapshot.
THEOREM ClosedCorrect == Spec => []ClosedUnlessReopened
<1>1. ResultInv /\ ClosedInv => ClosedUnlessReopened
  BY DEF ClosedInv, ClosedUnlessReopened
<1> QED BY <1>1, ClosedInvariant, PTL

\* What a cycle in preparation is free of: by ChainOK the rest of the chain follows.
NothingInForce ==
    cycle \in {"DRAFT", "SCHEDULED"} =>
        \A p \in Participant :
            ~locked[p] /\ status[p] \notin ResultStatus /\ ValidAppeals(p) = {}

LEMMA NothingInit == Init => NothingInForce
BY DEF Init, RowsInit, NothingInForce, ValidAppeals, ResultStatus

\* A rollback takes every appeal out of force.
LEMMA RollbackVoidsAppeals ==
    ASSUME TypeOK, InvalidateResults, NEW p \in Participant
    PROVE  ValidAppeals(p)' = {}
<1>1. /\ DOMAIN appeals'[p] = DOMAIN appeals[p]
      /\ \A a \in DOMAIN appeals[p] :
             appeals'[p][a] = [appeals[p][a] EXCEPT !.valid = FALSE]
  BY DEF InvalidateResults
<1>2. \A a \in DOMAIN appeals[p] : appeals[p][a] \in Appeal
  BY RowTypes
<1>3. \A a \in DOMAIN appeals[p] : ~appeals'[p][a].valid
  BY <1>1, <1>2 DEF Appeal
<1> QED BY <1>1, <1>3 DEF ValidAppeals

\* Before the cycle runs, the only handler that writes a participant's chain is
\* RevokeNoResult.
LEMMA NothingStep == ResultInv /\ NothingInForce /\ [Next]_vars => NothingInForce'
<1> SUFFICES ASSUME ResultInv, NothingInForce, [Next]_vars,
                    cycle' \in {"DRAFT", "SCHEDULED"}, NEW p \in Participant
             PROVE  ~locked'[p] /\ status'[p] \notin ResultStatus /\ ValidAppeals(p)' = {}
  BY DEF NothingInForce
<1> USE DEF rowVars, inputVars, chainVars
<1>1. CASE CommitRollback
  BY <1>1, CommitRollbackRows, RollbackVoidsAppeals
     DEF CommitRollback, ReleaseParticipants, ResultInv, ResultStatus
<1>2. CASE /\ cycle \in {"DRAFT", "SCHEDULED"}
           /\ locked' = locked
           /\ status'[p] = status[p] \/ status'[p] \notin ResultStatus
           /\ appeals' = appeals
  BY <1>2 DEF NothingInForce, ValidAppeals
<1>3. CASE Schedule \/ ReturnToDraft \/ Activate
  BY <1>2, <1>3 DEF Schedule, ReturnToDraft, Activate
<1>4. CASE StartPublish \/ PublishAborted \/ UNCHANGED rowVars
  BY <1>2, <1>4 DEF StartPublish, PublishAborted
<1>5. ASSUME NEW q \in Participant, ParticipantStep(q)
      PROVE  ~locked'[p] /\ status'[p] \notin ResultStatus /\ ValidAppeals(p)' = {}
  <2>1. cycle' = cycle
    BY <1>5, HandlersKeepCycle
  <2>2. InputStep(q) => ViewManagerContext(q)
    BY <2>1 DEF InputStep, SubmitSelf, SubmitManager, HumanWriteAllowed, ConfirmRedLine,
                RevokeRedLine
  <2>3. ~Keep(q) /\ ~\E l \in Level : Adjust(q, l)
    BY <2>1 DEF Keep, Adjust, Decide, CycleAllowsCalibration
  <2>4. ~PublishStep(q)
    BY <2>1 DEF PublishStep, PublishChanged, PublishUnchanged
  <2>5. ~AppealStep(q)
    BY <2>1 DEF AppealStep, ResolveMaintained, ResolveAdjusted, ResolvableOn
  <2>6. ~EmployeeStep(q)
    <3>1. status[q] # "RESULT_PUBLISHED"
      BY <2>1 DEF NothingInForce, ResultStatus
    <3> QED BY <2>1, <3>1 DEF EmployeeStep, Confirm, CreateAppeal
  <2>7. OpenPage(q) \/ LeaveStep(q) \/ ViewManagerContext(q)
    BY <1>5, <2>2, <2>3, <2>4, <2>5, <2>6 DEF ParticipantStep, CalibrationStep
  <2>8. /\ locked' = locked /\ appeals' = appeals
        /\ status'[p] = status[p] \/ status'[p] \notin ResultStatus
    BY <2>7 DEF OpenPage, ViewManagerContext, LeaveStep, MarkNoResult, RevokeNoResult,
                Withdraw, ResultInv, TypeOK, ResultStatus
  <2> QED BY <1>2, <2>1, <2>8
<1>6. CASE ConfigurationStep
  BY <1>2, <1>6, ConfigurationFrame
<1>7. ~CommitArchive
  BY DEF CommitArchive
<1> QED BY <1>1, <1>3, <1>4, <1>5, <1>6, <1>7, Steps DEF HandlerNext, CycleStep

\* ChainOnlyWhileRunning: a cycle that is, or is again, in preparation has no lock, no
\* result and no appeal in force, and no decision but one the rollback had not seen.
THEOREM PreparationIsClean == Spec => []ChainOnlyWhileRunning
<1>1. ResultInv /\ NothingInForce => ChainOnlyWhileRunning
  BY DEF ResultInv, NothingInForce, ChainInv, ChainOK, ChainOnlyWhileRunning
<1> QED BY <1>1, NothingInit, NothingStep, ResultInvariant, PTL DEF Spec

-----------------------------------------------------------------------------
(* Participants without a result.                                           *)

\* A handler of one participant leaves the sheets and the decisions of the others alone.
LEMMA SheetsOfOthers ==
    ASSUME TypeOK, NEW p \in Participant, NEW q \in Participant, q # p, ParticipantStep(q)
    PROVE  submitted'[p] = submitted[p] /\ decisions'[p] = decisions[p]
<1> USE DEF chainVars, inputVars
<1>1. CASE InputStep(q)
  BY <1>1 DEF InputStep, SubmitSelf, SubmitManager, ConfirmRedLine, RevokeRedLine,
              ViewManagerContext, TypeOK
<1>2. CASE CalibrationStep(q)
  BY <1>2 DEF CalibrationStep, OpenPage, Keep, Adjust, Decide, TypeOK
<1>3. CASE PublishStep(q)
  BY <1>3 DEF PublishStep, PublishChanged, PublishUnchanged
<1>4. CASE EmployeeStep(q)
  BY <1>4 DEF EmployeeStep, Confirm, CreateAppeal
<1>5. CASE AppealStep(q)
  BY <1>5 DEF AppealStep, ResolveMaintained, ResolveAdjusted
<1>6. CASE LeaveStep(q)
  BY <1>6 DEF LeaveStep, MarkNoResult, RevokeNoResult, Withdraw
<1> QED BY <1>1, <1>2, <1>3, <1>4, <1>5, <1>6 DEF ParticipantStep

\* Whoever has NO_RESULT after a handler had it before, with no sheet or decision added,
\* or was given it for want of both.
LEMMA NoResultHandler ==
    ASSUME TypeOK, NEW p \in Participant, ParticipantStep(p), status'[p] = "NO_RESULT"
    PROVE  \/ /\ status[p] = "NO_RESULT"
              /\ submitted'[p] = submitted[p] /\ decisions'[p] = decisions[p]
           \/ "SELF" \notin submitted'[p] /\ ValidDecisions(p)' = {}
<1> USE DEF chainVars, inputVars, ValidDecisions
<1>1. CASE InputStep(p)
  BY <1>1 DEF InputStep, SubmitSelf, SubmitManager, HumanWriteAllowed, ConfirmRedLine,
              RevokeRedLine, ViewManagerContext
<1>2. CASE OpenPage(p)
  BY <1>2 DEF OpenPage
<1>3. ASSUME NEW l \in Level \cup {NoLevel, C}, Decide(p, l)
      PROVE  FALSE
  BY <1>3 DEF Decide, CycleAllowsCalibration, DecidedStatus, TypeOK
<1>4. PreLevel(p) \in Level \cup {NoLevel, C}
  BY DEF PreLevel, TypeOK
<1>5. ~Keep(p) /\ \A l \in Level : ~Adjust(p, l)
  BY <1>3, <1>4 DEF Keep, Adjust
<1>6. CASE PublishStep(p)
  BY <1>6 DEF PublishStep, PublishChanged, PublishUnchanged, TypeOK
<1>7. CASE EmployeeStep(p)
  BY <1>7 DEF EmployeeStep, Confirm, CreateAppeal, TypeOK
<1>8. CASE AppealStep(p)
  BY <1>8 DEF AppealStep, ResolveMaintained, ResolveAdjusted, TypeOK
<1>9. CASE LeaveStep(p)
  BY <1>9 DEF LeaveStep, MarkNoResult, RevokeNoResult, Withdraw, TypeOK
<1> QED BY <1>1, <1>2, <1>5, <1>6, <1>7, <1>8, <1>9 DEF ParticipantStep, CalibrationStep

LEMMA NoResultStep ==
    TypeOK /\ NoResultHasNothing /\ [Next]_vars => NoResultHasNothing'
<1> SUFFICES ASSUME TypeOK, NoResultHasNothing, [Next]_vars,
                    NEW p \in Participant, status'[p] = "NO_RESULT"
             PROVE  "SELF" \notin submitted'[p] /\ ValidDecisions(p)' = {}
  BY DEF NoResultHasNothing
<1> USE DEF rowVars, inputVars, chainVars
<1>1. CASE /\ status'[p] = status[p]
           /\ submitted'[p] \subseteq submitted[p]
           /\ decisions'[p] = decisions[p]
  BY <1>1 DEF NoResultHasNothing, ValidDecisions
<1>2. CASE CommitRollback
  <2>1. PICK tx \in rollbackTx : InvalidateSnapshot(tx)
    BY <1>2 DEF CommitRollback
  <2>2. status[p] = "NO_RESULT" /\ submitted' = submitted
    BY <1>2 DEF CommitRollback, ReleaseParticipants
  <2>3. ValidDecisions(p)' \subseteq ValidDecisions(p)
    BY <2>1, SeenDecisions DEF ValidDecisions
  <2> QED BY <2>2, <2>3 DEF NoResultHasNothing
<1>3. CASE CommitArchive \/ UNCHANGED rowVars
  BY <1>1, <1>3 DEF CommitArchive
<1>4. CASE StartPublish \/ PublishAborted
  BY <1>1, <1>4 DEF StartPublish, PublishAborted
<1>5. CASE Schedule \/ ReturnToDraft \/ Activate
  BY <1>1, <1>5 DEF Schedule, ReturnToDraft, Activate
<1>6. CASE ConfigurationStep
  BY <1>1, <1>6 DEF ConfigurationStep, ChangeConfiguration, ReapplyConfiguration, ChangeForms
<1>7. CASE ParticipantStep(p)
  BY <1>7, NoResultHandler DEF NoResultHasNothing, ValidDecisions
<1>8. ASSUME NEW q \in Participant, q # p, ParticipantStep(q)
      PROVE  "SELF" \notin submitted'[p] /\ ValidDecisions(p)' = {}
  BY <1>1, <1>8, SheetsOfOthers, StatusOfOthers
<1> QED BY <1>2, <1>3, <1>4, <1>5, <1>6, <1>7, <1>8, Steps DEF HandlerNext, CycleStep

\* NoResultHasNothing: submitSelf, markNoResult and the calibration handlers serialise on
\* the cycle row and read status, sheet and decisions under it; a rollback that misses a
\* decision leaves the participant of that decision ACTIVE.
THEOREM NoResultCorrect == Spec => []NoResultHasNothing
<1>1. Init => NoResultHasNothing
  BY DEF Init, RowsInit, NoResultHasNothing
<1> QED BY <1>1, NoResultStep, TypeCorrect, PTL DEF Spec

=============================================================================
