-------------------------- MODULE StageResultProofs --------------------------
(***************************************************************************)
(* What is proved of the stage results, for any number of views, levels    *)
(* and configuration versions: the only steps that leave a stored result   *)
(* behind its inputs are those of a writer that was overtaken.             *)
(***************************************************************************)
EXTENDS StageResult, TLAPS

LEMMA CalculatedIsLevel ==
    ASSUME NEW l \in Level \cup {NoLevel}, NEW red \in BOOLEAN
    PROVE  Calculated(l, red) \in Level \cup {NoLevel}
  BY StageLevelAssumption DEF Calculated

-----------------------------------------------------------------------------
(* Types.                                                                   *)

View == [reading : BOOLEAN, config : Nat, rated : Level \cup {NoLevel}, redLine : BOOLEAN]

LEMMA IdleIsView == Idle \in View
  BY DEF Idle, View

LEMMA InitType == Init => TypeOK
  <1> SUFFICES ASSUME Init
               PROVE  TypeOK
    OBVIOUS
  <1>1. config \in 1 .. MaxConfig
    BY ConfigAssumption DEF Init
  <1>2. view \in [Viewer -> View]
    BY IdleIsView DEF Init
  <1>3. selfRow = {} /\ submission = {} /\ change = {}
    BY DEF Init
  <1> QED BY <1>1, <1>2, <1>3 DEF Init, TypeOK, View

LEMMA ManagerType ==
    ASSUME TypeOK,
           \/ \E l \in Level : SubmitManager(l)
           \/ ConfirmRedLine
           \/ RevokeRedLine
           \/ Keep
    PROVE  TypeOK'
  <1>1. CASE \E l \in Level : SubmitManager(l)
    BY <1>1, CalculatedIsLevel DEF TypeOK, SubmitManager
  <1>2. CASE ConfirmRedLine
    BY <1>2, CalculatedIsLevel DEF TypeOK, ConfirmRedLine
  <1>3. CASE RevokeRedLine
    <2>1. redLine' \in BOOLEAN
      BY <1>3 DEF RevokeRedLine
    <2> QED BY <1>3, <2>1, CalculatedIsLevel DEF TypeOK, RevokeRedLine
  <1>4. CASE Keep
    BY <1>4, StageLevelAssumption DEF TypeOK, Keep, PreLevel, sheetVars, rowVars
  <1> QED BY <1>1, <1>2, <1>3, <1>4

LEMMA ViewType ==
    ASSUME TypeOK, NEW v \in Viewer, BeginView(v) \/ FinishView(v)
    PROVE  TypeOK'
  <1>1. CASE BeginView(v)
    <2>1. [reading |-> TRUE, config |-> config, rated |-> rated, redLine |-> redLine] \in View
      BY ConfigAssumption DEF TypeOK, View
    <2>2. view' \in [Viewer -> View]
      BY <1>1, <2>1 DEF TypeOK, BeginView, View
    <2> QED BY <1>1, <2>2 DEF TypeOK, BeginView, View, sheetVars, rowVars
  <1>2. CASE FinishView(v)
    <2>1. Calculated(view[v].rated, view[v].redLine) \in Level \cup {NoLevel}
      BY CalculatedIsLevel DEF TypeOK
    <2>2. view' \in [Viewer -> View]
      BY <1>2, IdleIsView DEF TypeOK, FinishView, View
    <2>3. stored' \in Level \cup {NoLevel}
      BY <1>2, <2>1 DEF TypeOK, FinishView
    <2> QED BY <1>2, <2>2, <2>3 DEF TypeOK, FinishView, View, sheetVars
  <1> QED BY <1>1, <1>2

LEMMA SelfType == TypeOK /\ SelfStep => TypeOK'
  <1> SUFFICES ASSUME TypeOK, SelfStep
               PROVE  TypeOK'
    OBVIOUS
  <1>1. CASE SaveSelfDraft
    BY <1>1 DEF TypeOK, SaveSelfDraft, rowVars
  <1>2. CASE BeginSubmitSelf
    <2>1. submission' \subseteq 1 .. config
      BY <1>2, ConfigAssumption DEF TypeOK, BeginSubmitSelf
    <2> QED BY <1>2, <2>1 DEF TypeOK, BeginSubmitSelf, sheetVars, rowVars
  <1>3. ASSUME NEW a \in Answers, CommitSubmitSelf(a)
        PROVE  TypeOK'
    <2>1. selfRow' \subseteq 1 .. config /\ submission' = {}
      BY <1>3 DEF TypeOK, CommitSubmitSelf
    <2>2. change' \subseteq [redLine : BOOLEAN, self : BOOLEAN]
      BY <1>3 DEF TypeOK, CommitSubmitSelf
    <2> QED BY <1>3, <2>1, <2>2 DEF TypeOK, CommitSubmitSelf
  <1>4. CASE RejectSubmitSelf
    BY <1>4 DEF TypeOK, RejectSubmitSelf, sheetVars, rowVars
  <1> QED BY <1>1, <1>2, <1>3, <1>4 DEF SelfStep

LEMMA ChangeType == TypeOK /\ ChangeStep => TypeOK'
  <1> SUFFICES ASSUME TypeOK, ChangeStep
               PROVE  TypeOK'
    OBVIOUS
  <1>1. CASE BeginChange
    <2>1. [redLine |-> redLine, self |-> SelfSubmitted] \in [redLine : BOOLEAN, self : BOOLEAN]
      <3> DEFINE b == self \in Answers
      <3>1. b \in BOOLEAN /\ redLine \in BOOLEAN
        BY DEF TypeOK
      <3> HIDE DEF b
      <3>2. [redLine |-> redLine, self |-> b] \in [redLine : BOOLEAN, self : BOOLEAN]
        BY <3>1
      <3> QED BY <3>2, Zenon DEF b, SelfSubmitted
    <2>2. change' \subseteq [redLine : BOOLEAN, self : BOOLEAN]
      BY <1>1, <2>1 DEF BeginChange
    <2> QED BY <1>1, <2>2 DEF TypeOK, BeginChange, sheetVars, rowVars
  <1>2. CASE AbortChange
    BY <1>2 DEF TypeOK, AbortChange, sheetVars, rowVars
  <1>3. ASSUME NEW l \in Level \cup {NoLevel}, CommitChange(l)
        PROVE  TypeOK'
    <2>1. PICK snap \in change : /\ stored' = Calculated(l, snap.redLine)
                                 /\ selfRow' = Replayed(snap)
      BY <1>3 DEF CommitChange
    <2>2. config' = config + 1 /\ config' \in 1 .. MaxConfig
      BY <1>3, ConfigAssumption DEF CommitChange, TypeOK
    <2>3. selfRow' \subseteq 1 .. config'
      BY <2>1, <2>2, ConfigAssumption DEF TypeOK, Replayed
    <2>4. submission' \subseteq 1 .. config'
      BY <1>3, <2>2, ConfigAssumption DEF TypeOK, CommitChange
    <2>5. stored' \in Level \cup {NoLevel}
      BY <2>1, CalculatedIsLevel DEF TypeOK
    <2> QED BY <1>3, <2>2, <2>3, <2>4, <2>5 DEF TypeOK, CommitChange
  <1> QED BY <1>1, <1>2, <1>3 DEF ChangeStep

LEMMA NextType == TypeOK /\ [Next]_vars => TypeOK'
  <1>1. ASSUME TypeOK, UNCHANGED vars
        PROVE  TypeOK'
    BY <1>1 DEF TypeOK, vars, sheetVars, rowVars
  <1> QED BY <1>1, ManagerType, ViewType, SelfType, ChangeType DEF Next

\* Every handler keeps the types, and no result is stored for a version not yet made.
THEOREM TypeCorrect == Spec => []TypeOK
  BY InitType, NextType, PTL DEF Spec

-----------------------------------------------------------------------------
(* The MANAGER level.                                                       *)

Overtakes ==
    \/ \E v \in Viewer : OvertakenView(v) /\ ~view'[v].reading
    \/ OvertakenChange /\ config' # config

LEMMA LevelStep == TypeOK /\ [Next]_vars => (LevelIsCurrent /\ ~LevelIsCurrent' => Overtakes)
  <1> SUFFICES ASSUME TypeOK, [Next]_vars, LevelIsCurrent, ~Overtakes
               PROVE  LevelIsCurrent'
    OBVIOUS
  <1>1. CASE (\E l \in Level : SubmitManager(l)) \/ ConfirmRedLine \/ RevokeRedLine
    BY <1>1 DEF SubmitManager, ConfirmRedLine, RevokeRedLine, LevelIsCurrent, Calculated
  <1>2. ASSUME NEW v \in Viewer, FinishView(v)
        PROVE  LevelIsCurrent'
    <2>1. view[v].reading /\ ~view'[v].reading
      BY <1>2 DEF FinishView, TypeOK, Idle
    <2>2. view[v].rated = rated /\ view[v].redLine = redLine
      BY <2>1 DEF Overtakes, OvertakenView
    <2> QED BY <1>2, <2>2 DEF FinishView, sheetVars, LevelIsCurrent, Calculated
  <1>3. ASSUME NEW l \in Level \cup {NoLevel}, CommitChange(l)
        PROVE  LevelIsCurrent'
    <2>1. PICK snap \in change : stored' = Calculated(l, snap.redLine)
      BY <1>3 DEF CommitChange
    <2>2. config' # config
      BY <1>3, ConfigAssumption DEF CommitChange, TypeOK
    <2>3. snap.redLine = redLine
      BY <2>2 DEF Overtakes, OvertakenChange
    <2> QED BY <1>3, <2>1, <2>3 DEF CommitChange, LevelIsCurrent, Calculated
  <1>4. ASSUME NEW v \in Viewer, BeginView(v)
        PROVE  LevelIsCurrent'
    BY <1>4 DEF BeginView, sheetVars, rowVars, LevelIsCurrent, Calculated
  <1>5. CASE SelfStep \/ BeginChange \/ AbortChange \/ Keep \/ UNCHANGED vars
    BY <1>5 DEF SelfStep, SaveSelfDraft, BeginSubmitSelf, CommitSubmitSelf, RejectSubmitSelf,
       BeginChange, AbortChange, Keep, vars, sheetVars, rowVars, LevelIsCurrent, Calculated
  <1> QED BY <1>1, <1>2, <1>3, <1>4, <1>5 DEF Next, ChangeStep

\* submitManager, confirm, revoke, recalculateStages and decide never leave a MANAGER
\* row that was right behind its sheet and red lines; only a view or a configuration
\* change that was overtaken does.
THEOREM OnlyOvertakenLevel == Spec => OnlyOvertakenSpoilsLevel
  <1>1. TypeOK /\ [Next]_vars => [LevelIsCurrent /\ ~LevelIsCurrent' => Overtakes]_vars
    BY LevelStep
  <1> QED BY <1>1, TypeCorrect, PTL DEF Spec, OnlyOvertakenSpoilsLevel, Overtakes

-----------------------------------------------------------------------------
(* The SELF result.                                                         *)

OvertakesSelf ==
    \/ OvertakenSubmission /\ submission' = {}
    \/ OvertakenChange /\ config' # config

LEMMA SelfResultStep ==
    TypeOK /\ [Next]_vars => (SelfIsCalculated /\ ~SelfIsCalculated' => OvertakesSelf)
  <1> SUFFICES ASSUME TypeOK, [Next]_vars, SelfIsCalculated, ~OvertakesSelf
               PROVE  SelfIsCalculated'
    OBVIOUS
  <1>1. ASSUME NEW a \in Answers, CommitSubmitSelf(a)
        PROVE  SelfIsCalculated'
    <2>1. PICK c \in submission : TRUE
      BY <1>1 DEF CommitSubmitSelf
    <2>2. c = config
      BY <1>1 DEF CommitSubmitSelf, OvertakesSelf, OvertakenSubmission
    <2> QED BY <1>1, <2>2 DEF CommitSubmitSelf, SelfIsCalculated
  <1>2. ASSUME NEW l \in Level \cup {NoLevel}, CommitChange(l)
        PROVE  SelfIsCalculated'
    <2>1. PICK snap \in change : selfRow' = Replayed(snap)
      BY <1>2 DEF CommitChange
    <2>2. config' = config + 1 /\ config' # config /\ self' = self
      BY <1>2, ConfigAssumption DEF CommitChange, TypeOK
    <2>3. snap.self <=> SelfSubmitted
      BY <2>2 DEF OvertakesSelf, OvertakenChange
    <2> QED BY <2>1, <2>2, <2>3 DEF Replayed, SelfIsCalculated, SelfSubmitted
  <1>3. CASE SaveSelfDraft
    BY <1>3 DEF SaveSelfDraft, SelfIsCalculated, SelfSubmitted, Answers
  <1>4. CASE BeginSubmitSelf \/ RejectSubmitSelf \/ BeginChange \/ AbortChange \/ Keep \/ UNCHANGED vars
    BY <1>4 DEF BeginSubmitSelf, RejectSubmitSelf, BeginChange, AbortChange, Keep,
       vars, sheetVars, rowVars, SelfIsCalculated, SelfSubmitted
  <1>5. CASE (\E l \in Level : SubmitManager(l)) \/ ConfirmRedLine \/ RevokeRedLine
    <2>1. UNCHANGED <<config, self, selfRow>>
      BY <1>5 DEF SubmitManager, ConfirmRedLine, RevokeRedLine
    <2> QED BY <2>1 DEF SelfIsCalculated, SelfSubmitted
  <1>6. ASSUME NEW v \in Viewer, BeginView(v) \/ FinishView(v)
        PROVE  SelfIsCalculated'
    BY <1>6 DEF BeginView, FinishView, sheetVars, rowVars, SelfIsCalculated, SelfSubmitted
  <1> QED BY <1>1, <1>2, <1>3, <1>4, <1>5, <1>6 DEF Next, SelfStep, ChangeStep

\* The effective SELF sheet loses its result of the version in use only to a submission
\* (submitSelf) or configuration change (apply) that was overtaken.
THEOREM OnlyOvertakenSelf == Spec => OnlyOvertakenLosesSelf
  <1>1. TypeOK /\ [Next]_vars => [SelfIsCalculated /\ ~SelfIsCalculated' => OvertakesSelf]_vars
    BY SelfResultStep
  <1> QED BY <1>1, TypeCorrect, PTL DEF Spec, OnlyOvertakenLosesSelf, OvertakesSelf

-----------------------------------------------------------------------------
(* The frozen sheets.                                                       *)

\* One step after the first decision.
Frozen == decision # NoLevel =>
              /\ self' = self
              /\ rated' # rated => config' # config

LEMMA FrozenStep == TypeOK /\ [Next]_vars => Frozen
  <1> SUFFICES ASSUME TypeOK, [Next]_vars, decision # NoLevel
               PROVE  self' = self /\ (rated' # rated => config' # config)
    BY DEF Frozen
  <1>1. CASE (\E l \in Level : SubmitManager(l)) \/ SelfStep \/ Keep
    BY <1>1 DEF SubmitManager, SelfStep, SaveSelfDraft, BeginSubmitSelf, CommitSubmitSelf,
       RejectSubmitSelf, Keep, SheetsOpen, sheetVars
  <1>2. CASE ConfirmRedLine \/ RevokeRedLine \/ BeginChange \/ AbortChange \/ UNCHANGED vars
    BY <1>2 DEF ConfirmRedLine, RevokeRedLine, BeginChange, AbortChange, vars, sheetVars
  <1>3. ASSUME NEW v \in Viewer, BeginView(v) \/ FinishView(v)
        PROVE  UNCHANGED <<self, rated>>
    BY <1>3 DEF BeginView, FinishView, sheetVars
  <1>4. ASSUME NEW l \in Level \cup {NoLevel}, CommitChange(l)
        PROVE  self' = self /\ config' # config
    BY <1>4, ConfigAssumption DEF CommitChange, TypeOK
  <1> QED BY <1>1, <1>2, <1>3, <1>4 DEF Next, ChangeStep

\* A submission that races the first decision (submitSelf, submitManager, decide) is
\* written before it or not at all.
THEOREM SheetsFrozen == Spec => CalibratedInputIsFrozen
  <1>1. TypeOK /\ [Next]_vars => [Frozen]_vars
    BY FrozenStep
  <1> QED BY <1>1, TypeCorrect, PTL DEF Spec, CalibratedInputIsFrozen, Frozen

=============================================================================
