--------------------------- MODULE CycleTasksProofs ---------------------------
(***************************************************************************)
(* What is proved of tasks and their openings, for any number of           *)
(* participants, schedulers and pages, any plan and any batch.             *)
(*                                                                         *)
(* An opener writes a time it took before and tasks it read before.  That  *)
(* is harmless because the condition of its update finds exactly the tasks *)
(* whose row is that of somebody who takes part (TaskShape).               *)
(***************************************************************************)
EXTENDS CycleTasks, TLAPS

\* An opener at work holds a time of the clock.
ReadAtTime == \A o \in Opener : reading[o] # Idle => reading[o].at \in Time

\* Without a task there is nothing on the row and nobody has closed it; answers need
\* an open task; whoever may still work has finished no task that was never open.
TaskShape ==
    \A p \in Participant :
        /\ task[p].start = 0 => task[p] = NoTask /\ status[p] \in {"none", "ACTIVE"}
        /\ sheet[p] # "none" => task[p].opened # NotOpened
        /\ status[p] \in {"ACTIVE", "CALIBRATED"} /\ task[p].opened = NotOpened
              => ~task[p].done

RowsRight == TaskShape /\ EventMatchesOpening /\ RunningIsComplete

TasksInv == TypeOK /\ ReadAtTime /\ RowsRight

\* A plan starts after 0 and the clock does not stand at 0.
LEMMA Times ==
    /\ \A t \in Time : t \in Nat /\ t # 0
    /\ MaxTime \in Nat /\ MaxEdits \in Nat /\ 1 \in Time /\ 0 \in 0 .. MaxEdits
    /\ \A c \in CycleRow : /\ c.start + c.offset \in Nat /\ c.start + c.offset # 0
                           /\ c.start \in Nat /\ c.offset \in Nat /\ c.start # 0
  <1>1. \A s \in Start, o \in Offset : s + o \in Nat /\ s + o # 0 /\ s \in Nat /\ o \in Nat /\ s # 0
    BY TimeAssumption
  <1>2. ASSUME NEW c \in CycleRow
        PROVE  /\ c.start + c.offset \in Nat /\ c.start + c.offset # 0
               /\ c.start \in Nat /\ c.offset \in Nat /\ c.start # 0
    <2>1. c.start \in Start /\ c.offset \in Offset
      BY DEF CycleRow
    <2> QED BY <1>1, <2>1
  <1>3. /\ \A t \in Time : t \in Nat /\ t # 0
        /\ MaxTime \in Nat /\ MaxEdits \in Nat /\ 1 \in Time /\ 0 \in 0 .. MaxEdits
    BY TimeAssumption DEF Time
  <1> QED BY <1>2, <1>3

LEMMA InitTasksInv == Init => TasksInv
  <1> SUFFICES ASSUME Init
               PROVE  TasksInv
    OBVIOUS
  <1>1. NoTask \in Task /\ Idle \in Read
    BY DEF NoTask, Task, Idle, Read, NotOpened
  <1>2. TypeOK
    <2>1. /\ now \in Time /\ cycle \in CycleRow /\ edits \in 0 .. MaxEdits
          /\ status \in [Participant -> ParticipantStatus]
          /\ task \in [Participant -> Task] /\ reading \in [Opener -> Read]
          /\ sheet \in [Participant -> {"none", "draft", "submitted"}]
      BY <1>1, Times DEF Init, ParticipantStatus
    <2>2. /\ bound = {} /\ told = {} /\ decided = {} /\ removing = {} /\ deleting \in BOOLEAN
          /\ failure = "none"
          /\ \A p \in Participant : task[p] = NoTask /\ sheet[p] = "none"
      BY DEF Init
    <2> QED BY <2>1, <2>2 DEF TypeOK
  <1>3. ReadAtTime /\ RowsRight
    BY DEF Init, ReadAtTime, RowsRight, TaskShape, EventMatchesOpening, RunningIsComplete,
       NoTask, NotOpened, CycleRow
  <1> QED BY <1>2, <1>3 DEF TasksInv

-----------------------------------------------------------------------------
(* Steps that change no row.                                                *)

LEMMA RowsStay ==
    ASSUME TasksInv, UNCHANGED rowVars, cycle' \in CycleRow,
           cycle'.status = "ACTIVE" => cycle.status = "ACTIVE"
    PROVE  RowsRight'
  BY DEF TasksInv, RowsRight, TaskShape, EventMatchesOpening, RunningIsComplete, Present, rowVars

\* What an opener has read, or that it has nothing any more.
LEMMA ReadingStep ==
    ASSUME TasksInv, NEW o \in Opener, NEW tasks \in SUBSET Participant,
           \/ reading' = [reading EXCEPT ![o] = [at |-> now, tasks |-> tasks]]
           \/ reading' = [reading EXCEPT ![o] = Idle]
    PROVE  reading' \in [Opener -> Read] /\ ReadAtTime'
  <1>1. now \in Time /\ reading \in [Opener -> Read] /\ ReadAtTime
    BY DEF TasksInv, TypeOK
  <1>2. [at |-> now, tasks |-> tasks] \in Read /\ Idle \in Read
    BY <1>1, Times DEF Read, Idle
  <1> QED BY <1>1, <1>2 DEF ReadAtTime

LEMMA ReadersStep ==
    ASSUME TasksInv,
           \/ \E s \in Scheduler : ReadDueTasks(s)
           \/ \E r \in Page, p \in Participant : ReadTask(r, p)
           \/ \E o \in Opener : LoseTransaction(o)
    PROVE  TasksInv'
  <1>1. UNCHANGED <<now, cycle, rowVars, requestVars, failure, edits>>
    BY DEF ReadDueTasks, ReadTask, LoseTransaction
  <1>2. reading' \in [Opener -> Read] /\ ReadAtTime'
    <2>1. ASSUME NEW s \in Scheduler, ReadDueTasks(s)
          PROVE  reading' \in [Opener -> Read] /\ ReadAtTime'
      <3> DEFINE tasks == FirstOf({p \in Participant : Due(p)}, Batch)
      <3>1. tasks \in SUBSET Participant /\ s \in Opener
        BY DEF FirstOf, Opener
      <3>2. reading' = [reading EXCEPT ![s] = [at |-> now, tasks |-> tasks]]
        BY <2>1 DEF ReadDueTasks
      <3> HIDE DEF tasks
      <3> QED BY <3>1, <3>2, ReadingStep
    <2>2. ASSUME NEW r \in Page, NEW p \in Participant, ReadTask(r, p)
          PROVE  reading' \in [Opener -> Read] /\ ReadAtTime'
      <3>1. {p} \in SUBSET Participant /\ r \in Opener
        BY DEF Opener
      <3> QED BY <2>2, <3>1, ReadingStep DEF ReadTask
    <2>3. ASSUME NEW o \in Opener, LoseTransaction(o)
          PROVE  reading' \in [Opener -> Read] /\ ReadAtTime'
      <3>1. {} \in SUBSET Participant
        OBVIOUS
      <3> QED BY <2>3, <3>1, ReadingStep DEF LoseTransaction
    <2> QED BY <2>1, <2>2, <2>3
  <1>3. TypeOK'
    BY <1>1, <1>2 DEF TasksInv, TypeOK, rowVars, requestVars
  <1>4. RowsRight'
    BY <1>1, RowsStay DEF TasksInv, TypeOK
  <1> QED BY <1>2, <1>3, <1>4 DEF TasksInv

\* Plans, checks, reports and the clock.
QuietStep ==
    \/ FailToActivate \/ ReportFailure \/ LoseReport
    \/ Schedule \/ ReturnToDraft
    \/ \E start \in Start : UpdateCycle(start)
    \/ CheckDelete \/ DeleteCycle
    \/ \E p \in Participant : CheckRemove(p)
    \/ Tick

LEMMA QuietStepInv == TasksInv /\ QuietStep => TasksInv'
  <1> SUFFICES ASSUME TasksInv, QuietStep
               PROVE  TasksInv'
    OBVIOUS
  <1>1. UNCHANGED <<rowVars, reading>>
    BY DEF QuietStep, FailToActivate, ReportFailure, LoseReport, Schedule, ReturnToDraft,
       UpdateCycle, CheckDelete, DeleteCycle, CheckRemove, Tick
  <1>2. cycle' \in CycleRow /\ (cycle'.status = "ACTIVE" => cycle.status = "ACTIVE")
    <2>1. cycle \in CycleRow
      BY DEF TasksInv, TypeOK
    <2> QED
      BY <2>1 DEF QuietStep, FailToActivate, ReportFailure, LoseReport, Schedule,
         ReturnToDraft, UpdateCycle, CheckDelete, DeleteCycle, CheckRemove, Tick, CycleRow
  <1>3. /\ now' \in Time /\ edits' \in 0 .. MaxEdits /\ deleting' \in BOOLEAN
        /\ failure' \in {"none", "check", "error", "told"} /\ removing' \subseteq Participant
    <2>1. /\ now \in Time /\ edits \in 0 .. MaxEdits /\ deleting \in BOOLEAN
          /\ failure \in {"none", "check", "error", "told"} /\ removing \subseteq Participant
      BY DEF TasksInv, TypeOK
    <2>2. now' \in Time /\ edits' \in 0 .. MaxEdits
      BY <2>1, Times DEF QuietStep, FailToActivate, ReportFailure, LoseReport, Schedule,
         ReturnToDraft, UpdateCycle, Edit, CheckDelete, DeleteCycle, CheckRemove, Tick, Time
    <2>3. /\ deleting' \in BOOLEAN /\ removing' \subseteq Participant
          /\ failure' \in {"none", "check", "error", "told"}
      BY <2>1 DEF QuietStep, FailToActivate, ReportFailure, LoseReport, Schedule,
         ReturnToDraft, UpdateCycle, CheckDelete, DeleteCycle, CheckRemove, Tick, requestVars
    <2> QED BY <2>2, <2>3
  <1>4. TypeOK'
    BY <1>1, <1>2, <1>3 DEF TasksInv, TypeOK, rowVars
  <1>5. ReadAtTime' /\ RowsRight'
    BY <1>1, <1>2, RowsStay DEF TasksInv, ReadAtTime
  <1> QED BY <1>4, <1>5 DEF TasksInv

-----------------------------------------------------------------------------
(* Opening and seeding.                                                     *)

\* Tasks with a start that were never open are opened, and only those are announced.
LEMMA OpenedRows ==
    ASSUME TasksInv, NEW tasks \in SUBSET Participant, NEW at \in Time, NEW notified,
           \A p \in tasks : MayOpen(p),
           task' = Opened(tasks, at),
           notified = tasks \X {at} \/ notified = {},
           told' = told \cup notified,
           UNCHANGED <<status, bound, sheet, cycle>>
    PROVE  /\ task' \in [Participant -> Task] /\ told' \subseteq Participant \X Time
           /\ \A p \in Participant : status'[p] = "none" =>
                  task'[p] = NoTask /\ sheet'[p] = "none" /\ p \notin bound'
           /\ RowsRight'
  <1> USE DEF TasksInv
  <1>1. /\ task \in [Participant -> Task] /\ told \subseteq Participant \X Time
        /\ at \in Nat /\ at # 0
    BY Times DEF TypeOK
  <1>2. /\ task' \in [Participant -> Task]
        /\ \A p \in Participant \ tasks : task'[p] = task[p]
        /\ \A p \in tasks : /\ task'[p].opened = at /\ task'[p].start = task[p].start
                            /\ task'[p].done = task[p].done
    BY <1>1 DEF Opened, Task
  <1>3. told' \subseteq Participant \X Time
    BY <1>1
  <1>4. \A p \in tasks : /\ status[p] = "ACTIVE" /\ task[p].start # 0
                         /\ task[p].opened = NotOpened /\ ~task[p].done
    BY DEF MayOpen
  <1>5. \A p \in Participant : status'[p] = "none" =>
            task'[p] = NoTask /\ sheet'[p] = "none" /\ p \notin bound'
    BY <1>2, <1>4 DEF TypeOK
  <1>6. TaskShape'
    BY <1>1, <1>2, <1>4 DEF RowsRight, TaskShape, NotOpened
  <1>7. EventMatchesOpening'
    <2>1. \A e \in told : e[1] \notin tasks
      BY <1>1, <1>4, Times DEF RowsRight, EventMatchesOpening, NotOpened
    <2> QED BY <1>1, <1>2, <2>1 DEF RowsRight, EventMatchesOpening
  <1>8. RunningIsComplete'
    BY <1>2 DEF RowsRight, RunningIsComplete, Present
  <1> QED BY <1>2, <1>3, <1>5, <1>6, <1>7, <1>8 DEF RowsRight

LEMMA OpenTasksStep ==
    ASSUME TasksInv, NEW o \in Opener, OpenTasks(o)
    PROVE  TasksInv'
  <1> DEFINE tasks == {p \in reading[o].tasks : MayOpen(p)}
             notified == IF cycle.notify THEN tasks \X {reading[o].at} ELSE {}
  <1>1. /\ reading[o] \in Read /\ reading[o].at \in Time
        /\ {} \in SUBSET Participant /\ tasks \in SUBSET Participant
    BY DEF TasksInv, TypeOK, ReadAtTime, Read, OpenTasks
  <1>2. /\ \A p \in tasks : MayOpen(p)
        /\ notified = tasks \X {reading[o].at} \/ notified = {}
    OBVIOUS
  <1>3. /\ task' = Opened(tasks, reading[o].at)
        /\ told' = told \cup notified
        /\ reading' = [reading EXCEPT ![o] = Idle]
        /\ UNCHANGED <<now, cycle, status, bound, sheet, decided, requestVars, failure, edits>>
    BY DEF OpenTasks, Tell
  <1> HIDE DEF tasks, notified
  <1>4. /\ task' \in [Participant -> Task] /\ told' \subseteq Participant \X Time
        /\ \A p \in Participant : status'[p] = "none" =>
               task'[p] = NoTask /\ sheet'[p] = "none" /\ p \notin bound'
        /\ RowsRight'
    BY <1>1, <1>2, <1>3, OpenedRows
  <1>5. reading' \in [Opener -> Read] /\ ReadAtTime'
    BY <1>1, <1>3, ReadingStep
  <1>6. TypeOK'
    BY <1>3, <1>4, <1>5 DEF TasksInv, TypeOK, requestVars
  <1> QED BY <1>4, <1>5, <1>6 DEF TasksInv

\* Rows without a task get one; the others keep theirs.
LEMMA SeededRows ==
    ASSUME TasksInv, NEW rows \in SUBSET Participant
    PROVE  /\ Seeded(rows) \in [Participant -> Task]
           /\ \A p \in Participant : Seeded(rows)[p] =
                 IF p \in rows /\ task[p].start = 0
                 THEN [start |-> PlanStart, opened |-> IF PlanStart <= now THEN now ELSE NotOpened,
                       done |-> FALSE]
                 ELSE task[p]
           /\ PlanStart # 0 /\ now # 0 /\ now \in Time
  <1>1. /\ PlanStart \in Nat /\ PlanStart # 0 /\ now \in Nat /\ now # 0 /\ now \in Time
        /\ task \in [Participant -> Task]
    BY Times DEF TasksInv, TypeOK, PlanStart
  <1>2. \A p \in Participant : task[p] = NoTask <=> task[p].start = 0
    <2>1. NoTask.start = 0
      BY DEF NoTask
    <2>2. \A p \in Participant : task[p].start = 0 => task[p] = NoTask
      BY DEF TasksInv, RowsRight, TaskShape
    <2> QED BY <2>1, <2>2
  <1>3. [start |-> PlanStart, opened |-> IF PlanStart <= now THEN now ELSE NotOpened,
         done |-> FALSE] \in Task
    BY <1>1 DEF Task, NotOpened
  <1> QED BY <1>1, <1>2, <1>3 DEF Seeded

LEMMA ActivateStep == TasksInv /\ Activate => TasksInv'
  <1> SUFFICES ASSUME TasksInv, Activate
               PROVE  TasksInv'
    OBVIOUS
  <1> DEFINE new == JustOpened(Present, task')
             notified == IF cycle.notify THEN new \X {now} ELSE {}
  <1>1. /\ task' = Seeded(Present) /\ bound' = Present /\ told' = told \cup notified
        /\ cycle' = [cycle EXCEPT !.status = "ACTIVE"]
        /\ UNCHANGED <<now, status, sheet, decided, reading, requestVars, failure, edits>>
    BY DEF Activate, Tell
  <1>2. /\ Present \in SUBSET Participant /\ new \in SUBSET Participant
        /\ \A p \in new : task'[p].opened = now
        /\ notified = new \X {now} \/ notified = {}
    BY DEF Present, JustOpened
  <1> HIDE DEF new, notified
  <1>3. /\ task' \in [Participant -> Task]
        /\ \A p \in Participant : task'[p] =
              IF p \in Present /\ task[p].start = 0
              THEN [start |-> PlanStart, opened |-> IF PlanStart <= now THEN now ELSE NotOpened,
                    done |-> FALSE]
              ELSE task[p]
        /\ PlanStart # 0 /\ now # 0 /\ now \in Time
    BY <1>1, <1>2, SeededRows
  <1>4. told' \subseteq Participant \X Time
    BY <1>1, <1>2, <1>3 DEF TasksInv, TypeOK
  <1>5. cycle' \in CycleRow
    BY <1>1 DEF TasksInv, TypeOK, CycleRow
  <1>6. \A p \in Participant : status'[p] = "none" =>
            task'[p] = NoTask /\ sheet'[p] = "none" /\ p \notin bound'
    BY <1>1, <1>3 DEF TasksInv, TypeOK, Present
  <1>7. TypeOK'
    BY <1>1, <1>2, <1>3, <1>4, <1>5, <1>6 DEF TasksInv, TypeOK, requestVars
  <1>8. TaskShape'
    BY <1>1, <1>3 DEF TasksInv, RowsRight, TaskShape, Present, NoTask, NotOpened
  <1>9. EventMatchesOpening'
    <2>1. \A e \in told : e[1] \in Participant /\ task[e[1]].opened = e[2] /\ e[2] # 0
      BY Times DEF TasksInv, TypeOK, RowsRight, EventMatchesOpening
    <2>2. \A e \in told : task[e[1]].start # 0
      BY <2>1 DEF TasksInv, RowsRight, TaskShape, NoTask, NotOpened
    <2>3. \A e \in notified : e[1] \in new /\ e[2] = now
      BY <1>2
    <2> QED BY <1>1, <1>2, <1>3, <2>1, <2>2, <2>3 DEF EventMatchesOpening
  <1>10. RunningIsComplete'
    BY <1>1, <1>2, <1>3 DEF RunningIsComplete, Present
  <1>11. ReadAtTime'
    BY <1>1 DEF TasksInv, ReadAtTime
  <1> QED BY <1>7, <1>8, <1>9, <1>10, <1>11 DEF TasksInv, RowsRight

LEMMA AddStep ==
    ASSUME TasksInv, NEW p \in Participant, NEW found \in BOOLEAN, Add(p, found)
    PROVE  TasksInv'
  <1> DEFINE new == JustOpened({p}, task')
             notified == IF cycle.status = "ACTIVE" /\ cycle.notify THEN new \X {now} ELSE {}
  <1>1. /\ status[p] = "none" /\ status' = [status EXCEPT ![p] = "ACTIVE"]
        /\ cycle.status = "ACTIVE" => found
        /\ bound' = IF found THEN bound \cup {p} ELSE bound \ {p}
        /\ task' = IF cycle.status = "ACTIVE" THEN Seeded({p}) ELSE task
        /\ told' = told \cup notified
        /\ UNCHANGED <<now, cycle, sheet, decided, reading, requestVars, failure, edits>>
    BY DEF Add, Tell
  <1>2. /\ {p} \in SUBSET Participant /\ new \in SUBSET Participant
        /\ \A q \in new : task'[q].opened = now
        /\ notified = new \X {now} \/ notified = {}
    BY DEF JustOpened
  <1> HIDE DEF new, notified
  <1>3. /\ Seeded({p}) \in [Participant -> Task]
        /\ \A q \in Participant : Seeded({p})[q] =
              IF q \in {p} /\ task[q].start = 0
              THEN [start |-> PlanStart, opened |-> IF PlanStart <= now THEN now ELSE NotOpened,
                    done |-> FALSE]
              ELSE task[q]
        /\ PlanStart # 0 /\ now # 0 /\ now \in Time
    BY <1>2, SeededRows
  <1>4. /\ task' \in [Participant -> Task]
        /\ \A q \in Participant \ {p} : task'[q] = task[q]
        /\ task[p] = NoTask /\ sheet[p] = "none"
        /\ ~task'[p].done
        /\ task'[p].start = 0 => task'[p] = NoTask
        /\ cycle.status = "ACTIVE" => task'[p].start # 0
    <2>1. task \in [Participant -> Task] /\ task[p] = NoTask /\ sheet[p] = "none"
      BY <1>1 DEF TasksInv, TypeOK
    <2>2. NoTask.start = 0 /\ ~NoTask.done
      BY DEF NoTask
    <2>3. CASE cycle.status = "ACTIVE"
      <3>1. task' = Seeded({p})
        BY <1>1, <2>3
      <3>2. p \in {p} /\ task[p].start = 0
        BY <2>1, <2>2
      <3>3. task'[p] = [start |-> PlanStart,
                        opened |-> IF PlanStart <= now THEN now ELSE NotOpened, done |-> FALSE]
        BY <1>3, <3>1, <3>2
      <3>4. task'[p].start = PlanStart /\ ~task'[p].done
        BY <3>3
      <3>5. \A q \in Participant \ {p} : task'[q] = task[q]
        BY <1>3, <3>1
      <3> QED BY <1>3, <2>1, <3>1, <3>4, <3>5
    <2>4. CASE cycle.status # "ACTIVE"
      BY <1>1, <2>1, <2>2, <2>4
    <2> QED BY <2>3, <2>4
  <1>5. /\ status' \in [Participant -> ParticipantStatus] /\ bound' \subseteq Participant
        /\ told' \subseteq Participant \X Time
    BY <1>1, <1>2, <1>3 DEF TasksInv, TypeOK, ParticipantStatus
  <1>6. \A q \in Participant : status'[q] = "none" =>
            task'[q] = NoTask /\ sheet'[q] = "none" /\ q \notin bound'
    BY <1>1, <1>4 DEF TasksInv, TypeOK
  <1>7. TypeOK'
    BY <1>1, <1>4, <1>5, <1>6 DEF TasksInv, TypeOK, requestVars
  <1>8. TaskShape'
    BY <1>1, <1>4 DEF TasksInv, TypeOK, RowsRight, TaskShape
  <1>9. EventMatchesOpening'
    <2>1. \A e \in told : e[1] \in Participant /\ task[e[1]].opened = e[2] /\ e[2] # 0
      BY Times DEF TasksInv, TypeOK, RowsRight, EventMatchesOpening
    <2>2. \A e \in told : e[1] # p
      BY <1>4, <2>1 DEF NoTask, NotOpened
    <2>3. \A e \in notified : e[1] \in new /\ e[2] = now
      BY <1>2
    <2> QED BY <1>1, <1>2, <1>4, <2>1, <2>2, <2>3 DEF EventMatchesOpening
  <1>10. RunningIsComplete'
    BY <1>1, <1>4 DEF TasksInv, TypeOK, RowsRight, RunningIsComplete, Present
  <1>11. ReadAtTime'
    BY <1>1 DEF TasksInv, ReadAtTime
  <1> QED BY <1>7, <1>8, <1>9, <1>10, <1>11 DEF TasksInv, RowsRight

-----------------------------------------------------------------------------
(* Steps that neither open a task nor announce one.                         *)

\* Starts and openings stay, and so does who is in the cycle.
LEMMA OpeningsStay ==
    ASSUME TasksInv, UNCHANGED <<told, bound>>,
           cycle'.status = "ACTIVE" => cycle.status = "ACTIVE",
           \A p \in Participant : /\ task'[p].opened = task[p].opened
                                  /\ task'[p].start = task[p].start
                                  /\ status'[p] = "none" <=> status[p] = "none",
           TaskShape'
    PROVE  RowsRight'
  <1>1. \A e \in told : e[1] \in Participant /\ task[e[1]].opened = e[2]
    BY DEF TasksInv, TypeOK, RowsRight, EventMatchesOpening
  <1>2. EventMatchesOpening'
    BY <1>1 DEF EventMatchesOpening
  <1>3. RunningIsComplete'
    BY DEF TasksInv, RowsRight, RunningIsComplete, Present
  <1> QED BY <1>2, <1>3 DEF RowsRight

\* What TaskShape says of a row whose stage was opened or whose task is there.
LEMMA RowFacts ==
    ASSUME TasksInv, NEW p \in Participant
    PROVE  /\ task[p] \in Task /\ NoTask.start = 0 /\ NoTask.opened = NotOpened /\ ~NoTask.done
           /\ status[p] = "none" => task[p] = NoTask /\ sheet[p] = "none"
           /\ sheet[p] # "none" => task[p].start # 0
           /\ task[p].opened # NotOpened => task[p].start # 0
           /\ status[p] \notin {"none", "ACTIVE"} => task[p].start # 0
           /\ cycle.status = "ACTIVE" /\ status[p] # "none" => task[p].start # 0
  BY DEF TasksInv, TypeOK, RowsRight, TaskShape, RunningIsComplete, Present, NoTask

LEMMA CloseStep ==
    ASSUME TasksInv, NEW p \in Participant, NEW to \in {"WITHDRAWN", "NO_RESULT"}, Close(p, to)
    PROVE  TasksInv'
  <1>1. /\ cycle.status = "ACTIVE" /\ status[p] = "ACTIVE"
        /\ status' = [status EXCEPT ![p] = to] /\ task' = [task EXCEPT ![p].done = TRUE]
        /\ UNCHANGED <<now, cycle, bound, sheet, told, decided, reading, requestVars, failure, edits>>
    BY DEF Close, Running
  <1>2. /\ status \in [Participant -> ParticipantStatus] /\ task \in [Participant -> Task]
        /\ task[p].start # 0
    BY <1>1, RowFacts DEF TasksInv, TypeOK
  <1>3. /\ task' \in [Participant -> Task] /\ status' \in [Participant -> ParticipantStatus]
        /\ \A q \in Participant \ {p} : task'[q] = task[q] /\ status'[q] = status[q]
        /\ task'[p].start = task[p].start /\ task'[p].opened = task[p].opened /\ status'[p] = to
    BY <1>1, <1>2 DEF Task, ParticipantStatus
  <1>4. TypeOK'
    BY <1>1, <1>3 DEF TasksInv, TypeOK, requestVars
  <1>5. TaskShape'
    BY <1>1, <1>2, <1>3 DEF TasksInv, RowsRight, TaskShape
  <1>6. RowsRight'
    BY <1>1, <1>3, <1>5, OpeningsStay
  <1> QED BY <1>1, <1>4, <1>6 DEF TasksInv, ReadAtTime

LEMMA RevokeNoResultStep ==
    ASSUME TasksInv, NEW p \in Participant, RevokeNoResult(p)
    PROVE  TasksInv'
  <1> DEFINE over == (sheet[p] = "submitted")
  <1>1. /\ edits < MaxEdits /\ edits' = edits + 1 /\ status[p] = "NO_RESULT"
        /\ status' = [status EXCEPT ![p] = "ACTIVE"]
        /\ task' = [task EXCEPT ![p].done = over]
        /\ UNCHANGED <<now, cycle, bound, sheet, told, decided, reading, requestVars, failure>>
    BY DEF RevokeNoResult, Edit
  <1>2. over \in BOOLEAN /\ (over => sheet[p] # "none")
    OBVIOUS
  <1> HIDE DEF over
  <1>3. /\ status \in [Participant -> ParticipantStatus] /\ task \in [Participant -> Task]
        /\ task[p].start # 0
    BY <1>1, RowFacts DEF TasksInv, TypeOK
  <1>4. task' \in [Participant -> Task] /\ status' \in [Participant -> ParticipantStatus]
    BY <1>1, <1>2, <1>3 DEF Task, ParticipantStatus
  <1>5. /\ \A q \in Participant \ {p} : task'[q] = task[q] /\ status'[q] = status[q]
        /\ task'[p].start = task[p].start /\ task'[p].opened = task[p].opened
        /\ status'[p] = "ACTIVE"
    BY <1>1, <1>3 DEF Task
  <1>6. task'[p].done => task[p].opened # NotOpened
    <2>1. task'[p].done = over
      BY <1>1, <1>3 DEF Task
    <2> QED BY <1>2, <2>1 DEF TasksInv, RowsRight, TaskShape
  <1>7. edits' \in 0 .. MaxEdits
    BY <1>1, Times DEF TasksInv, TypeOK
  <1>8. TypeOK'
    BY <1>1, <1>4, <1>5, <1>7 DEF TasksInv, TypeOK, requestVars
  <1>9. TaskShape'
    BY <1>1, <1>3, <1>5, <1>6 DEF TasksInv, RowsRight, TaskShape
  <1>10. RowsRight'
    BY <1>1, <1>5, <1>9, OpeningsStay
  <1> QED BY <1>1, <1>8, <1>10 DEF TasksInv, ReadAtTime

LEMMA CalibrateStep ==
    ASSUME TasksInv, NEW p \in Participant, Calibrate(p)
    PROVE  TasksInv'
  <1>1. /\ status[p] = "ACTIVE" /\ sheet[p] = "submitted"
        /\ status' = [status EXCEPT ![p] = "CALIBRATED"] /\ decided' = decided \cup {p}
        /\ UNCHANGED <<now, cycle, bound, task, sheet, told, reading, requestVars, failure, edits>>
    BY DEF Calibrate
  <1>2. status \in [Participant -> ParticipantStatus] /\ task[p].start # 0
    BY <1>1, RowFacts DEF TasksInv, TypeOK
  <1>3. /\ status' \in [Participant -> ParticipantStatus]
        /\ \A q \in Participant \ {p} : status'[q] = status[q]
        /\ status'[p] = "CALIBRATED"
    BY <1>1, <1>2 DEF ParticipantStatus
  <1>4. TypeOK'
    BY <1>1, <1>3 DEF TasksInv, TypeOK, requestVars
  <1>5. TaskShape'
    BY <1>1, <1>2, <1>3 DEF TasksInv, RowsRight, TaskShape
  <1>6. RowsRight'
    BY <1>1, <1>3, <1>5, OpeningsStay
  <1> QED BY <1>1, <1>4, <1>6 DEF TasksInv, ReadAtTime

LEMMA WriteStep ==
    ASSUME TasksInv, NEW p \in Participant, NEW to \in {"draft", "submitted"}, Write(p, to)
    PROVE  TasksInv'
  <1>1. /\ status[p] = "ACTIVE" /\ task[p].opened # NotOpened
        /\ sheet' = [sheet EXCEPT ![p] = to]
        /\ task' = [task EXCEPT ![p].done = TRUE] \/ task' = task
        /\ UNCHANGED <<now, cycle, status, bound, told, decided, reading, requestVars, failure, edits>>
    BY DEF Write, Writable
  <1>2. /\ task \in [Participant -> Task] /\ task[p].start # 0
        /\ sheet \in [Participant -> {"none", "draft", "submitted"}]
    BY <1>1, RowFacts DEF TasksInv, TypeOK
  <1>3. /\ task' \in [Participant -> Task]
        /\ sheet' \in [Participant -> {"none", "draft", "submitted"}]
        /\ \A q \in Participant \ {p} : task'[q] = task[q] /\ sheet'[q] = sheet[q]
        /\ task'[p].start = task[p].start /\ task'[p].opened = task[p].opened
    BY <1>1, <1>2 DEF Task
  <1>4. TypeOK'
    BY <1>1, <1>3 DEF TasksInv, TypeOK, requestVars
  <1>5. TaskShape'
    BY <1>1, <1>2, <1>3 DEF TasksInv, RowsRight, TaskShape
  <1>6. RowsRight'
    BY <1>1, <1>3, <1>5, OpeningsStay
  <1> QED BY <1>1, <1>4, <1>6 DEF TasksInv, ReadAtTime

LEMMA ChangeFormsStep == TasksInv /\ ChangeForms => TasksInv'
  <1> SUFFICES ASSUME TasksInv, ChangeForms
               PROVE  TasksInv'
    OBVIOUS
  <1> DEFINE affected == {p \in Present : sheet[p] # "none"}
  <1>1. /\ edits < MaxEdits /\ edits' = edits + 1
        /\ sheet' = [p \in Participant |-> IF p \in affected THEN "draft" ELSE sheet[p]]
        /\ task' = [p \in Participant |->
                       IF p \in affected THEN [task[p] EXCEPT !.done = FALSE] ELSE task[p]]
        /\ UNCHANGED <<now, cycle, status, bound, told, decided, reading, requestVars, failure>>
    BY DEF ChangeForms, Edit
  <1>2. \A p \in Participant : p \in affected => sheet[p] # "none" /\ status[p] # "none"
    BY DEF Present
  <1> HIDE DEF affected
  <1>3. /\ task \in [Participant -> Task] /\ edits \in 0 .. MaxEdits
        /\ sheet \in [Participant -> {"none", "draft", "submitted"}]
    BY DEF TasksInv, TypeOK
  <1>4. /\ task' \in [Participant -> Task] /\ edits' \in 0 .. MaxEdits
        /\ sheet' \in [Participant -> {"none", "draft", "submitted"}]
    <2>1. edits' \in 0 .. MaxEdits
      BY <1>1, <1>3, Times
    <2>2. sheet' \in [Participant -> {"none", "draft", "submitted"}]
      BY <1>1, <1>3
    <2>3. task' \in [Participant -> Task]
      BY <1>1, <1>3 DEF Task
    <2> QED BY <2>1, <2>2, <2>3
  <1>5. \A p \in Participant :
            /\ task'[p].start = task[p].start /\ task'[p].opened = task[p].opened
            /\ p \notin affected => task'[p] = task[p] /\ sheet'[p] = sheet[p]
            /\ p \in affected => ~task'[p].done
    BY <1>1, <1>3 DEF Task
  <1>6. TypeOK'
    BY <1>1, <1>2, <1>4, <1>5 DEF TasksInv, TypeOK, requestVars
  <1>7. TaskShape'
    <2>1. \A p \in Participant : p \in affected => task[p].start # 0
      BY <1>2, RowFacts
    <2> QED BY <1>1, <1>2, <1>5, <2>1 DEF TasksInv, RowsRight, TaskShape
  <1>8. RowsRight'
    BY <1>1, <1>5, <1>7, OpeningsStay
  <1> QED BY <1>1, <1>6, <1>8 DEF TasksInv, ReadAtTime

LEMMA ReapplyStep ==
    ASSUME TasksInv, NEW found \in SUBSET Present, ReapplyPublishedConfig(found)
    PROVE  TasksInv'
  <1>1. /\ edits < MaxEdits /\ edits' = edits + 1 /\ cycle.status # "ACTIVE"
        /\ bound' = bound \cup found
        /\ UNCHANGED <<now, cycle, status, task, sheet, told, decided, reading, requestVars,
                       failure>>
    BY DEF ReapplyPublishedConfig, Edit, Preparing
  <1>2. edits' \in 0 .. MaxEdits
    BY <1>1, Times DEF TasksInv, TypeOK
  <1>3. TypeOK'
    BY <1>1, <1>2 DEF TasksInv, TypeOK, requestVars, Present
  <1>4. RowsRight' /\ ReadAtTime'
    BY <1>1 DEF TasksInv, RowsRight, TaskShape, EventMatchesOpening, RunningIsComplete, Present,
       ReadAtTime
  <1> QED BY <1>3, <1>4 DEF TasksInv

LEMMA RollbackStep ==
    ASSUME TasksInv, NEW target \in {"DRAFT", "SCHEDULED"}, NEW start \in Start,
           Rollback(target, start)
    PROVE  TasksInv'
  <1>1. /\ edits < MaxEdits /\ edits' = edits + 1
        /\ cycle' = [cycle EXCEPT !.status = target,
                                  !.start = IF target = "SCHEDULED" THEN start ELSE @]
        /\ status' = [p \in Participant |->
                         IF status[p] = "CALIBRATED" THEN "ACTIVE" ELSE status[p]]
        /\ UNCHANGED <<now, bound, task, sheet, told, decided, reading, requestVars, failure>>
    BY DEF Rollback, Edit
  <1>2. edits' \in 0 .. MaxEdits
    BY <1>1, Times DEF TasksInv, TypeOK
  <1>3. cycle' \in CycleRow /\ cycle'.status # "ACTIVE"
    BY <1>1 DEF TasksInv, TypeOK, CycleRow
  <1>4. /\ status' \in [Participant -> ParticipantStatus]
        /\ \A p \in Participant :
              /\ status'[p] = status[p] \/ (status[p] = "CALIBRATED" /\ status'[p] = "ACTIVE")
              /\ status'[p] = "none" <=> status[p] = "none"
    BY <1>1 DEF TasksInv, TypeOK, ParticipantStatus
  <1>5. TypeOK'
    BY <1>1, <1>2, <1>3, <1>4 DEF TasksInv, TypeOK, requestVars
  <1>6. TaskShape'
    BY <1>1, <1>4 DEF TasksInv, RowsRight, TaskShape
  <1>7. RowsRight'
    BY <1>1, <1>3, <1>4, <1>6, OpeningsStay
  <1> QED BY <1>1, <1>5, <1>7 DEF TasksInv, ReadAtTime

LEMMA RemoveStep ==
    ASSUME TasksInv, NEW p \in Participant, Remove(p)
    PROVE  TasksInv'
  <1>1. /\ removing' = removing \ {p}
        /\ UNCHANGED <<now, cycle, reading, deleting, failure, edits>>
    BY DEF Remove
  <1>2. CASE ~Removable(p)
    <2>1. UNCHANGED rowVars
      BY <1>2 DEF Remove
    <2>2. TypeOK'
      BY <1>1, <2>1 DEF TasksInv, TypeOK, rowVars
    <2>3. RowsRight'
      BY <1>1, <2>1, RowsStay DEF TasksInv, TypeOK
    <2> QED BY <1>1, <2>2, <2>3 DEF TasksInv, ReadAtTime
  <1>3. CASE Removable(p)
    <2>1. /\ \A e \in told : e[1] # p
          /\ status' = [status EXCEPT ![p] = "none"] /\ bound' = bound \ {p}
          /\ task' = [task EXCEPT ![p] = NoTask] /\ sheet' = [sheet EXCEPT ![p] = "none"]
          /\ UNCHANGED <<told, decided>>
      BY <1>3 DEF Remove, Removable
    <2>2. /\ status \in [Participant -> ParticipantStatus] /\ task \in [Participant -> Task]
          /\ sheet \in [Participant -> {"none", "draft", "submitted"}]
          /\ \A e \in told : e[1] \in Participant
      BY DEF TasksInv, TypeOK
    <2>3. NoTask \in Task
      BY DEF NoTask, Task, NotOpened
    <2>4. /\ status' \in [Participant -> ParticipantStatus] /\ task' \in [Participant -> Task]
          /\ sheet' \in [Participant -> {"none", "draft", "submitted"}]
          /\ \A q \in Participant \ {p} :
                task'[q] = task[q] /\ sheet'[q] = sheet[q] /\ status'[q] = status[q]
          /\ task'[p] = NoTask /\ sheet'[p] = "none" /\ status'[p] = "none"
      BY <2>1, <2>2, <2>3 DEF ParticipantStatus
    <2>5. TypeOK'
      BY <1>1, <2>1, <2>4 DEF TasksInv, TypeOK
    <2>6. TaskShape'
      BY <2>4 DEF TasksInv, RowsRight, TaskShape
    <2>7. EventMatchesOpening'
      BY <2>1, <2>2, <2>4 DEF TasksInv, RowsRight, EventMatchesOpening
    <2>8. RunningIsComplete'
      BY <1>1, <2>1, <2>4 DEF TasksInv, RowsRight, RunningIsComplete, Present
    <2> QED BY <1>1, <2>5, <2>6, <2>7, <2>8 DEF TasksInv, RowsRight, ReadAtTime
  <1> QED BY <1>2, <1>3

\* The plan of a running cycle moves what is not open yet.
LEMMA UpdatePlanStep ==
    ASSUME TasksInv, NEW offset \in Offset, NEW notify \in BOOLEAN, UpdatePlan(offset, notify)
    PROVE  /\ TasksInv'
           /\ \A p \in Participant :
                 /\ task[p].opened # NotOpened => task'[p].opened = task[p].opened
                 /\ task[p].opened = NotOpened /\ task'[p].opened # NotOpened
                       => status'[p] = "ACTIVE" /\ ~task'[p].done
  <1> DEFINE start == cycle.start + offset
             moved == {p \in Participant : Running /\ status[p] = "ACTIVE"
                                            /\ task[p] # NoTask /\ task[p].opened = NotOpened}
             opens == IF start <= now THEN moved ELSE {}
             notified == IF notify THEN opens \X {now} ELSE {}
  <1>1. /\ edits < MaxEdits /\ edits' = edits + 1
        /\ cycle' = [cycle EXCEPT !.offset = offset, !.notify = notify]
        /\ task' = [p \in Participant |->
                       IF p \in moved
                       THEN [task[p] EXCEPT !.start = start,
                                            !.opened = IF p \in opens THEN now ELSE @]
                       ELSE task[p]]
        /\ told' = told \cup notified
        /\ UNCHANGED <<now, status, bound, sheet, decided, reading, requestVars, failure>>
    BY DEF UpdatePlan, Edit
  <1>2. /\ now \in Time /\ now \in Nat /\ now # 0 /\ start \in Nat /\ start # 0
        /\ cycle \in CycleRow /\ edits \in 0 .. MaxEdits /\ task \in [Participant -> Task]
        /\ told \subseteq Participant \X Time
    <2>1. \A s \in Start : s + offset \in Nat /\ s + offset # 0
      BY TimeAssumption
    <2> QED BY <2>1, Times DEF TasksInv, TypeOK, CycleRow
  <1>3. /\ opens \subseteq moved /\ moved \subseteq Participant
        /\ notified \subseteq opens \X {now}
        /\ \A p \in moved : status[p] = "ACTIVE" /\ task[p].opened = NotOpened
    OBVIOUS
  <1> HIDE DEF start, moved, opens, notified
  <1>4. cycle' \in CycleRow /\ cycle'.status = cycle.status
    BY <1>1, <1>2 DEF CycleRow
  <1>5. edits' \in 0 .. MaxEdits
    <2>1. edits < MaxEdits /\ edits' = edits + 1
      BY <1>1
    <2>2. edits \in 0 .. MaxEdits /\ MaxEdits \in Nat
      BY <1>2, Times
    <2> QED BY <2>1, <2>2
  <1>6. task' \in [Participant -> Task]
    BY <1>1, <1>2 DEF Task
  <1>7. /\ \A p \in Participant \ moved : task'[p] = task[p]
        /\ \A p \in moved : /\ task'[p].start = start /\ task'[p].done = task[p].done
                            /\ p \in opens => task'[p].opened = now
                            /\ p \notin opens => task'[p].opened = task[p].opened
    BY <1>1, <1>2, <1>3 DEF Task
  <1>8. \A p \in moved : ~task[p].done
    BY <1>3 DEF TasksInv, RowsRight, TaskShape
  <1>9. told' \subseteq Participant \X Time
    BY <1>1, <1>2, <1>3
  <1>10. TypeOK'
    BY <1>1, <1>3, <1>4, <1>5, <1>6, <1>7, <1>9 DEF TasksInv, TypeOK, requestVars
  <1>11. TaskShape'
    BY <1>1, <1>2, <1>3, <1>7, <1>8 DEF TasksInv, RowsRight, TaskShape
  <1>12. EventMatchesOpening'
    <2>1. \A e \in told : e[1] \in Participant /\ task[e[1]].opened = e[2] /\ e[2] # 0
      BY <1>2, Times DEF TasksInv, RowsRight, EventMatchesOpening
    <2>2. \A e \in told : e[1] \notin moved
      BY <1>3, <2>1 DEF NotOpened
    <2>3. \A e \in notified : e[1] \in opens /\ e[2] = now
      BY <1>3
    <2> QED BY <1>1, <1>3, <1>7, <2>1, <2>2, <2>3 DEF EventMatchesOpening
  <1>13. RunningIsComplete'
    BY <1>1, <1>2, <1>4, <1>7 DEF TasksInv, RowsRight, RunningIsComplete, Present
  <1>14. ReadAtTime'
    BY <1>1 DEF TasksInv, ReadAtTime
  <1>15. TasksInv'
    BY <1>10, <1>11, <1>12, <1>13, <1>14 DEF TasksInv, RowsRight
  <1>16. ASSUME NEW p \in Participant
         PROVE  /\ task[p].opened # NotOpened => task'[p].opened = task[p].opened
                /\ task[p].opened = NotOpened /\ task'[p].opened # NotOpened
                      => status'[p] = "ACTIVE" /\ ~task'[p].done
    <2>1. CASE p \in moved
      BY <1>1, <1>3, <1>7, <1>8, <2>1
    <2>2. CASE p \notin moved
      BY <1>7, <2>2
    <2> QED BY <2>1, <2>2
  <1> QED BY <1>15, <1>16

-----------------------------------------------------------------------------
(* The invariant.                                                           *)

LEMMA TasksInvStep == TasksInv /\ [Next]_vars => TasksInv'
  <1> SUFFICES ASSUME TasksInv, [Next]_vars
               PROVE  TasksInv'
    OBVIOUS
  <1>1. CASE UNCHANGED vars
    <2>1. UNCHANGED <<now, cycle, rowVars, reading, requestVars, failure, edits>>
      BY <1>1 DEF vars
    <2>2. TypeOK'
      BY <2>1 DEF TasksInv, TypeOK, rowVars, requestVars
    <2>3. RowsRight'
      BY <2>1, RowsStay DEF TasksInv, TypeOK
    <2> QED BY <2>1, <2>2, <2>3 DEF TasksInv, ReadAtTime
  <1>2. CASE QuietStep
    BY <1>2, QuietStepInv
  <1>3. ASSUME \/ \E s \in Scheduler : ReadDueTasks(s)
               \/ \E r \in Page, p \in Participant : ReadTask(r, p)
               \/ \E o \in Opener : LoseTransaction(o)
        PROVE  TasksInv'
    BY <1>3, ReadersStep
  <1>4. ASSUME NEW o \in Opener, OpenTasks(o) PROVE TasksInv'
    BY <1>4, OpenTasksStep
  <1>5. CASE Activate
    BY <1>5, ActivateStep
  <1>6. ASSUME NEW p \in Participant, NEW found \in BOOLEAN, Add(p, found) PROVE TasksInv'
    BY <1>6, AddStep
  <1>7. ASSUME NEW p \in Participant, Remove(p) PROVE TasksInv'
    BY <1>7, RemoveStep
  <1>8. ASSUME NEW offset \in Offset, NEW notify \in BOOLEAN, UpdatePlan(offset, notify)
        PROVE  TasksInv'
    BY <1>8, UpdatePlanStep
  <1>9. ASSUME NEW found \in SUBSET Present, ReapplyPublishedConfig(found) PROVE TasksInv'
    BY <1>9, ReapplyStep
  <1>10. ASSUME NEW target \in {"DRAFT", "SCHEDULED"}, NEW start \in Start,
                Rollback(target, start)
         PROVE  TasksInv'
    BY <1>10, RollbackStep
  <1>11. ASSUME NEW p \in Participant, NEW to \in {"WITHDRAWN", "NO_RESULT"}, Close(p, to)
         PROVE  TasksInv'
    BY <1>11, CloseStep
  <1>12. ASSUME NEW p \in Participant, RevokeNoResult(p) PROVE TasksInv'
    BY <1>12, RevokeNoResultStep
  <1>13. ASSUME NEW p \in Participant, Calibrate(p) PROVE TasksInv'
    BY <1>13, CalibrateStep
  <1>14. ASSUME NEW p \in Participant, NEW to \in {"draft", "submitted"}, Write(p, to)
         PROVE  TasksInv'
    BY <1>14, WriteStep
  <1>15. CASE ChangeForms
    BY <1>15, ChangeFormsStep
  <1> QED
    BY <1>1, <1>2, <1>3, <1>4, <1>5, <1>6, <1>7, <1>8, <1>9, <1>10, <1>11, <1>12, <1>13,
       <1>14, <1>15 DEF Next, QuietStep

\* Every reachable state has well-shaped rows, events that match their openings, a
\* complete running cycle, and openers that hold a time of the clock.
THEOREM TasksInvariant == Spec => []TasksInv
  <1>1. Init => TasksInv
    BY InitTasksInv
  <1>2. TasksInv /\ [Next]_vars => TasksInv'
    BY TasksInvStep
  <1> QED BY <1>1, <1>2, PTL DEF Spec

\* Every variable keeps its type, and a participant without a row has no task, no
\* answers and no binding.
THEOREM TasksTypes == Spec => []TypeOK
  <1>1. TasksInv => TypeOK
    BY DEF TasksInv
  <1> QED BY <1>1, TasksInvariant, PTL

\* Whatever openers read before, whoever is removed, activated again or moved in the
\* plan: each TASK_OPENED event names a task that was opened at the time it says.
THEOREM OpeningsMatch == Spec => []EventMatchesOpening
  <1>1. TasksInv => EventMatchesOpening
    BY DEF TasksInv, RowsRight
  <1> QED BY <1>1, TasksInvariant, PTL

\* Everybody in a running cycle has forms, a leader and tasks.
THEOREM RunningComplete == Spec => []RunningIsComplete
  <1>1. TasksInv => RunningIsComplete
    BY DEF TasksInv, RowsRight
  <1> QED BY <1>1, TasksInvariant, PTL

-----------------------------------------------------------------------------
(* What a step may not do to an opening.                                    *)

\* An opening stays as long as the row, and only active rows with work left get one.
OpeningsRight ==
    \A p \in Participant :
        /\ task[p].opened # NotOpened /\ status'[p] # "none"
              => task'[p].opened = task[p].opened
        /\ task[p].opened = NotOpened /\ task'[p].opened # NotOpened
              => status'[p] = "ACTIVE" /\ ~task'[p].done

LEMMA SeedingOpenings ==
    ASSUME TasksInv, NEW rows \in SUBSET Participant, task' = Seeded(rows),
           \A p \in rows : status'[p] = "ACTIVE" \/ task[p].start # 0
    PROVE  OpeningsRight
  <1> SUFFICES ASSUME NEW p \in Participant
               PROVE  /\ task[p].opened # NotOpened => task'[p].opened = task[p].opened
                      /\ task[p].opened = NotOpened /\ task'[p].opened # NotOpened
                            => status'[p] = "ACTIVE" /\ ~task'[p].done
    BY DEF OpeningsRight
  <1>1. CASE p \in rows /\ task[p].start = 0
    <2>1. task'[p] = [start |-> PlanStart,
                      opened |-> IF PlanStart <= now THEN now ELSE NotOpened, done |-> FALSE]
      BY <1>1, SeededRows
    <2>2. ~task'[p].done /\ status'[p] = "ACTIVE" /\ task[p].opened = NotOpened
      BY <1>1, <2>1, RowFacts
    <2> QED BY <2>2
  <1>2. CASE ~(p \in rows /\ task[p].start = 0)
    <2>1. task'[p] = task[p]
      BY <1>2, SeededRows
    <2> QED BY <2>1
  <1> QED BY <1>1, <1>2

LEMMA StepOpenings == TasksInv /\ Next => OpeningsRight
  <1> SUFFICES ASSUME TasksInv, Next
               PROVE  OpeningsRight
    OBVIOUS
  <1>1. task \in [Participant -> Task] /\ status \in [Participant -> ParticipantStatus]
    BY DEF TasksInv, TypeOK
  <1>2. ASSUME \A p \in Participant : task'[p].opened = task[p].opened
        PROVE  OpeningsRight
    BY <1>2 DEF OpeningsRight
  <1>3. ASSUME UNCHANGED task
        PROVE  OpeningsRight
    BY <1>2, <1>3
  <1>4. CASE QuietStep
    <2>1. UNCHANGED task
      BY <1>4 DEF QuietStep, FailToActivate, ReportFailure, LoseReport, Schedule,
         ReturnToDraft, UpdateCycle, CheckDelete, DeleteCycle, CheckRemove, Tick, rowVars
    <2> QED BY <1>3, <2>1
  <1>17. ASSUME \/ \E s \in Scheduler : ReadDueTasks(s)
                \/ \E r \in Page, p \in Participant : ReadTask(r, p)
                \/ \E o \in Opener : LoseTransaction(o)
         PROVE  OpeningsRight
    <2>1. UNCHANGED task
      BY <1>17 DEF ReadDueTasks, ReadTask, LoseTransaction, rowVars
    <2> QED BY <1>3, <2>1
  <1>5. ASSUME NEW o \in Opener, OpenTasks(o)
        PROVE  OpeningsRight
    <2> DEFINE tasks == {p \in reading[o].tasks : MayOpen(p)}
    <2>1. task' = Opened(tasks, reading[o].at) /\ UNCHANGED status
      BY <1>5 DEF OpenTasks
    <2>2. \A p \in tasks : status[p] = "ACTIVE" /\ ~task[p].done /\ task[p].opened = NotOpened
      BY DEF MayOpen
    <2> HIDE DEF tasks
    <2>3. \A p \in Participant :
              /\ p \in tasks => task'[p].done = task[p].done
              /\ p \notin tasks => task'[p] = task[p]
      BY <1>1, <2>1 DEF Opened, Task
    <2> QED BY <2>1, <2>2, <2>3 DEF OpeningsRight
  <1>6. CASE Activate
    <2>1. task' = Seeded(Present) /\ UNCHANGED status /\ Present \in SUBSET Participant
      BY <1>6 DEF Activate, Present
    <2>2. \A p \in Present : status[p] = "ACTIVE" \/ task[p].start # 0
      BY DEF TasksInv, RowsRight, TaskShape, Present
    <2> QED BY <2>1, <2>2, SeedingOpenings
  <1>7. ASSUME NEW p \in Participant, NEW found \in BOOLEAN, Add(p, found)
        PROVE  OpeningsRight
    <2>1. task' = Seeded({p}) \/ task' = task
      BY <1>7 DEF Add
    <2>2. {p} \in SUBSET Participant /\ status'[p] = "ACTIVE"
      BY <1>1, <1>7 DEF Add
    <2> QED BY <1>3, <2>1, <2>2, SeedingOpenings
  <1>8. ASSUME NEW p \in Participant, Remove(p)
        PROVE  OpeningsRight
    <2>1. UNCHANGED task \/ (/\ task' = [task EXCEPT ![p] = NoTask]
                             /\ status' = [status EXCEPT ![p] = "none"])
      BY <1>8 DEF Remove, rowVars
    <2>2. NoTask.opened = NotOpened
      BY DEF NoTask
    <2> QED BY <1>1, <1>3, <2>1, <2>2 DEF OpeningsRight
  <1>9. ASSUME NEW offset \in Offset, NEW notify \in BOOLEAN, UpdatePlan(offset, notify)
        PROVE  OpeningsRight
    BY <1>9, UpdatePlanStep DEF OpeningsRight
  <1>10. ASSUME NEW found \in SUBSET Present, ReapplyPublishedConfig(found)
         PROVE  OpeningsRight
    BY <1>3, <1>10 DEF ReapplyPublishedConfig
  <1>11. ASSUME NEW target \in {"DRAFT", "SCHEDULED"}, NEW start \in Start,
                Rollback(target, start)
         PROVE  OpeningsRight
    BY <1>3, <1>11 DEF Rollback
  <1>12. ASSUME NEW p \in Participant, NEW to \in {"WITHDRAWN", "NO_RESULT"}, Close(p, to)
         PROVE  OpeningsRight
    <2>1. task' = [task EXCEPT ![p].done = TRUE]
      BY <1>12 DEF Close
    <2> QED BY <1>1, <1>2, <2>1 DEF Task
  <1>13. ASSUME NEW p \in Participant, RevokeNoResult(p)
         PROVE  OpeningsRight
    <2> DEFINE over == (sheet[p] = "submitted")
    <2>1. task' = [task EXCEPT ![p].done = over]
      BY <1>13 DEF RevokeNoResult
    <2> HIDE DEF over
    <2> QED BY <1>1, <1>2, <2>1 DEF Task
  <1>14. ASSUME NEW p \in Participant, Calibrate(p)
         PROVE  OpeningsRight
    BY <1>3, <1>14 DEF Calibrate
  <1>15. ASSUME NEW p \in Participant, NEW to \in {"draft", "submitted"}, Write(p, to)
         PROVE  OpeningsRight
    <2>1. task' = [task EXCEPT ![p].done = TRUE] \/ task' = task
      BY <1>15 DEF Write
    <2> QED BY <1>1, <1>2, <2>1 DEF Task
  <1>16. CASE ChangeForms
    <2> DEFINE affected == {p \in Present : sheet[p] # "none"}
    <2>1. task' = [p \in Participant |->
                      IF p \in affected THEN [task[p] EXCEPT !.done = FALSE] ELSE task[p]]
      BY <1>16 DEF ChangeForms
    <2> HIDE DEF affected
    <2> QED BY <1>1, <1>2, <2>1 DEF Task
  <1> QED
    BY <1>4, <1>5, <1>6, <1>7, <1>8, <1>9, <1>10, <1>11, <1>12, <1>13, <1>14, <1>15, <1>16,
       <1>17 DEF Next, QuietStep

\* No scan, page, plan change, rollback or second start gives a task another opening.
THEOREM OpenedFinal == Spec => OpenedIsFinal
  <1>1. TasksInv /\ [Next]_vars =>
            [\A p \in Participant :
                task[p].opened # NotOpened /\ status'[p] # "none"
                    => task'[p].opened = task[p].opened]_vars
    BY StepOpenings DEF OpeningsRight
  <1> QED BY <1>1, TasksInvariant, PTL DEF Spec, OpenedIsFinal

\* Whatever was read before, nobody who left or is calibrated, and no finished task, is
\* opened.
THEOREM ClosedStaysClosed == Spec => ClosedNeverOpens
  <1>1. TasksInv /\ [Next]_vars =>
            [\A p \in Participant :
                task[p].opened = NotOpened /\ task'[p].opened # NotOpened
                    => status'[p] = "ACTIVE" /\ ~task'[p].done]_vars
    BY StepOpenings DEF OpeningsRight
  <1> QED BY <1>1, TasksInvariant, PTL DEF Spec, ClosedNeverOpens

=============================================================================
