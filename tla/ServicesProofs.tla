----------------------------- MODULE ServicesProofs -----------------------------
(***************************************************************************)
(* What is proved of the services beside the review itself: the copy of    *)
(* the OKR rows (OkrSync), interviews and their calendar events            *)
(* (Interview) and versioned templates (Templates), for any number of      *)
(* runs, requests, rows and versions; and of the scores (StageScore), for  *)
(* any reviewers, relations, weights, dimensions and rating scale that the *)
(* configuration accepts, and any precision.                               *)
(***************************************************************************)
EXTENDS OkrSync, Interview, Templates, StageScore, FiniteSetTheorems,
        SequenceTheorems, TLAPS

-----------------------------------------------------------------------------
(* OKR: whatever runs beside a run.                                         *)

\* A lock held by a run is there, unless one of its kind expired under a run.
LocksHeld == \A r \in Running : lock[run[r].kind] \/ run[r].kind \in expired

\* At most one objective is between the answer and the store.
OneToStore == \A r \in Running : \A o, p \in run[r].store : o = p

\* What was there all the time and has been asked for is written or was refused; what
\* was written and was there all the time is stored or was refused.
AskedIsWritten ==
    \A r \in Running :
        /\ run[r].always \subseteq upstream
        /\ \A o \in run[r].always :
              /\ o \in run[r].ask \/ o \in run[r].store \/ o \in run[r].written \/ o \in refused
              /\ o \in run[r].written => o \in stored \/ o \in refused

\* Of two runs the later one knows at least what the other one does: all that the
\* earlier one saw all the time, or all that the later one wrote.
LaterKnowsMore ==
    \A q, r \in Running :
        run[r].always \subseteq run[q].always \/ run[r].written \subseteq run[q].written

\* A run that is alone stores what Lark has had since it began.
AloneIsExact ==
    \A r \in alone :
        /\ Running = {r}
        /\ run[r].written \cup run[r].store \cup upstream \subseteq once

OkrInv ==
    /\ OkrTypeOK /\ LocksHeld /\ LocksSerialise /\ OneToStore
    /\ AskedIsWritten /\ LaterKnowsMore /\ AloneIsExact

LEMMA OkrRuns ==
    ASSUME OkrTypeOK
    PROVE  /\ NoRun \notin RunUnderWay
           /\ \A r \in Running : r \in Run /\ run[r] \in RunUnderWay
           /\ \A r \in Run : r \notin Running => run[r] = NoRun
  <1>1. NoRun \notin RunUnderWay
    BY DEF NoRun, RunUnderWay
  <1> QED BY <1>1 DEF OkrTypeOK, Running

LEMMA OkrInitInv == OkrInit => OkrInv
  <1> SUFFICES ASSUME OkrInit
               PROVE  OkrInv
    OBVIOUS
  <1>1. Running = {} /\ alone = {}
    BY DEF OkrInit, Running
  <1>2. OkrTypeOK
    BY DEF OkrInit, OkrTypeOK, Running
  <1> QED BY <1>1, <1>2 DEF OkrInv, LocksHeld, LocksSerialise, OneToStore, AskedIsWritten,
          LaterKnowsMore, AloneIsExact

LEMMA TriggerRunInv ==
    ASSUME OkrInv, NEW r \in Run, NEW k \in Kind, TriggerRun(r, k)
    PROVE  OkrInv'
  <1> DEFINE new == [kind |-> k, ask |-> Objective, store |-> {}, written |-> {},
                     always |-> upstream]
  <1>1. /\ run[r] = NoRun /\ ~lock[k] /\ lock' = [lock EXCEPT ![k] = TRUE]
        /\ run' = [run EXCEPT ![r] = new]
        /\ alone' = IF Running = {} THEN {r} ELSE {}
        /\ once' = IF Running = {} THEN upstream ELSE {}
        /\ refused' = IF Running = {} THEN {} ELSE refused
        /\ UNCHANGED <<upstream, stored, expired>>
    BY DEF TriggerRun, LockFree
  <1>2. /\ OkrTypeOK /\ \A q \in Running : q \in Run /\ run[q] \in RunUnderWay
        /\ r \notin Running /\ NoRun \notin RunUnderWay
    BY <1>1, OkrRuns DEF OkrInv, Running
  <1>3. new \in RunUnderWay /\ new # NoRun
    BY <1>2 DEF RunUnderWay, OkrTypeOK
  <1>4. /\ new.kind = k /\ new.ask = Objective /\ new.store = {} /\ new.written = {}
        /\ new.always = upstream
    OBVIOUS
  <1> HIDE DEF new
  <1>5. /\ run'[r] = new /\ \A q \in Run \ {r} : run'[q] = run[q]
        /\ run' \in [Run -> RunUnderWay \cup {NoRun}]
        /\ Running' = Running \cup {r}
    BY <1>1, <1>2, <1>3 DEF OkrTypeOK, Running
  <1>6. lock' \in [Kind -> BOOLEAN] /\ lock'[k] /\ \A j \in Kind : lock[j] => lock'[j]
    BY <1>1, <1>2 DEF OkrTypeOK
  <1>7. OkrTypeOK'
    BY <1>1, <1>2, <1>5, <1>6 DEF OkrTypeOK
  <1>8. \A q \in Running : run'[q] = run[q] /\ run[q].kind \in Kind
    BY <1>2, <1>5 DEF RunUnderWay
  <1>9. LocksHeld'
    BY <1>1, <1>4, <1>5, <1>6, <1>8 DEF OkrInv, LocksHeld
  <1>10. LocksSerialise'
    <2>1. \A q \in Running : run[q].kind = k => k \in expired
      BY <1>1 DEF OkrInv, LocksHeld
    <2> QED BY <1>1, <1>4, <1>5, <1>8, <2>1 DEF OkrInv, LocksSerialise
  <1>11. OneToStore'
    BY <1>4, <1>5, <1>8 DEF OkrInv, OneToStore
  <1>12. AskedIsWritten'
    <2>1. \A q \in Running : refused' = refused
      BY <1>1
    <2>2. upstream \subseteq Objective
      BY <1>2 DEF OkrTypeOK
    <2> QED BY <1>1, <1>4, <1>5, <1>8, <2>1, <2>2 DEF OkrInv, AskedIsWritten
  <1>13. LaterKnowsMore'
    <2>1. \A q \in Running : run[q].always \subseteq upstream
      BY DEF OkrInv, AskedIsWritten
    <2> QED BY <1>4, <1>5, <1>8, <2>1 DEF OkrInv, LaterKnowsMore
  <1>14. AloneIsExact'
    BY <1>1, <1>4, <1>5 DEF AloneIsExact
  <1> QED BY <1>7, <1>9, <1>10, <1>11, <1>12, <1>13, <1>14 DEF OkrInv

LEMMA AskInv ==
    ASSUME OkrInv, NEW r \in Run, NEW o \in Objective, AskForObjective(r, o)
    PROVE  OkrInv'
  <1> DEFINE got == run'[r].store
  <1>1. /\ run[r] # NoRun /\ run[r].store = {} /\ o \in run[r].ask
        /\ \/ /\ run' = [run EXCEPT ![r].ask = @ \ {o}, ![r].store = upstream \cap {o}]
              /\ UNCHANGED refused
           \/ /\ run' = [run EXCEPT ![r].ask = @ \ {o}]
              /\ refused' = refused \cup {o}
        /\ UNCHANGED <<upstream, stored, lock, expired, alone, once>>
    BY DEF AskForObjective
  <1>2. /\ OkrTypeOK /\ \A q \in Running : q \in Run /\ run[q] \in RunUnderWay
        /\ r \in Running /\ NoRun \notin RunUnderWay /\ run[r] \in RunUnderWay
    BY <1>1, OkrRuns DEF OkrInv, Running
  <1>3. /\ run'[r] \in RunUnderWay /\ run'[r].kind = run[r].kind
        /\ run'[r].ask = run[r].ask \ {o}
        /\ run'[r].written = run[r].written /\ run'[r].always = run[r].always
        /\ \/ run'[r].store = upstream \cap {o} /\ refused' = refused
           \/ run'[r].store = {} /\ refused' = refused \cup {o}
        /\ \A q \in Run \ {r} : run'[q] = run[q]
        /\ run' \in [Run -> RunUnderWay \cup {NoRun}]
    BY <1>1, <1>2 DEF OkrTypeOK, RunUnderWay
  <1>4. Running' = Running
    BY <1>2, <1>3 DEF Running
  <1>5. OkrTypeOK'
    BY <1>1, <1>2, <1>3, <1>4 DEF OkrTypeOK
  <1>6. LocksHeld' /\ LocksSerialise'
    BY <1>1, <1>2, <1>3, <1>4 DEF OkrInv, LocksHeld, LocksSerialise
  <1>7. OneToStore'
    BY <1>2, <1>3, <1>4 DEF OkrInv, OneToStore
  <1>8. AskedIsWritten'
    BY <1>1, <1>2, <1>3, <1>4 DEF OkrInv, AskedIsWritten
  <1>9. LaterKnowsMore'
    BY <1>2, <1>3, <1>4 DEF OkrInv, LaterKnowsMore
  <1>10. AloneIsExact'
    BY <1>1, <1>2, <1>3, <1>4 DEF OkrInv, AloneIsExact
  <1> QED BY <1>5, <1>6, <1>7, <1>8, <1>9, <1>10 DEF OkrInv

LEMMA StoreInv ==
    ASSUME OkrInv, NEW r \in Run, StoreObjective(r)
    PROVE  OkrInv'
  <1>1. PICK o \in run[r].store :
            /\ stored' = stored \cup {o}
            /\ run' = [WrittenForAll(r, o) EXCEPT ![r].store = {}]
    BY DEF StoreObjective
  <1>2. run[r] # NoRun /\ UNCHANGED <<upstream, lock, expired, refused, alone, once>>
    BY DEF StoreObjective
  <1>3. /\ OkrTypeOK /\ \A q \in Running : q \in Run /\ run[q] \in RunUnderWay
        /\ r \in Running /\ NoRun \notin RunUnderWay /\ run[r] \in RunUnderWay
        /\ \A q \in Run : q \notin Running => run[q] = NoRun
    BY <1>2, OkrRuns DEF OkrInv, Running
  <1>4. o \in Objective
    BY <1>1, <1>3 DEF RunUnderWay
  <1>5. /\ \A q \in Running : /\ run'[q] \in RunUnderWay /\ run'[q].kind = run[q].kind
                              /\ run'[q].ask = run[q].ask /\ run'[q].always = run[q].always
                              /\ run'[q].written = run[q].written \cup {o}
                              /\ q # r => run'[q].store = run[q].store
        /\ run'[r].store = {}
        /\ \A q \in Run \ Running : run'[q] = NoRun
    BY <1>1, <1>3, <1>4 DEF WrittenForAll, RunUnderWay, Running
  <1>6. run' \in [Run -> RunUnderWay \cup {NoRun}]
    <2>1. run' = [q \in Run |-> run'[q]]
      BY <1>1 DEF WrittenForAll
    <2> QED BY <1>3, <1>5, <2>1
  <1>7. Running' = Running
    BY <1>3, <1>5 DEF Running
  <1>8. OkrTypeOK'
    BY <1>1, <1>2, <1>3, <1>4, <1>6, <1>7 DEF OkrTypeOK
  <1>9. LocksHeld' /\ LocksSerialise'
    BY <1>2, <1>5, <1>7 DEF OkrInv, LocksHeld, LocksSerialise
  <1>10. OneToStore'
    BY <1>5, <1>7 DEF OkrInv, OneToStore
  <1>11. AskedIsWritten'
    <2>1. run[r].store = {o}
      BY <1>1, <1>3 DEF OkrInv, OneToStore
    <2> QED BY <1>1, <1>2, <1>5, <1>7, <2>1 DEF OkrInv, AskedIsWritten
  <1>12. LaterKnowsMore'
    BY <1>5, <1>7 DEF OkrInv, LaterKnowsMore
  <1>13. AloneIsExact'
    BY <1>1, <1>2, <1>3, <1>5, <1>7 DEF OkrInv, AloneIsExact
  <1> QED BY <1>8, <1>9, <1>10, <1>11, <1>12, <1>13 DEF OkrInv

\* The end of a run; a row goes only if whoever still counts on it was refused it.
LEMMA EndRunInv ==
    ASSUME OkrInv, NEW r \in Run, CleanUp(r) \/ FailRun(r)
    PROVE  OkrInv'
  <1>1. /\ run[r] # NoRun
        /\ stored' = stored \/ (AllAsked(r) /\ stored' = stored \cap run[r].written)
        /\ run' = [run EXCEPT ![r] = NoRun] /\ alone' = alone \ {r} /\ once' = {}
        /\ lock' = [lock EXCEPT ![run[r].kind] = FALSE]
        /\ UNCHANGED <<upstream, expired, refused>>
    BY DEF CleanUp, FailRun, EndRun, FreedLock, WithoutStale
  <1>2. /\ OkrTypeOK /\ \A q \in Running : q \in Run /\ run[q] \in RunUnderWay
        /\ r \in Running /\ NoRun \notin RunUnderWay /\ run[r].kind \in Kind
    BY <1>1, OkrRuns DEF OkrInv, Running, RunUnderWay
  <1>3. /\ \A q \in Run \ {r} : run'[q] = run[q]
        /\ run' \in [Run -> RunUnderWay \cup {NoRun}]
        /\ Running' = Running \ {r}
    BY <1>1, <1>2 DEF OkrTypeOK, Running
  <1>4. /\ lock' \in [Kind -> BOOLEAN]
        /\ \A k \in Kind : lock[k] /\ k # run[r].kind => lock'[k]
    BY <1>1, <1>2 DEF OkrTypeOK
  <1>5. alone' = {}
    BY <1>1, <1>2 DEF OkrInv, AloneIsExact
  <1>6. OkrTypeOK'
    BY <1>1, <1>2, <1>3, <1>4, <1>5 DEF OkrTypeOK
  <1>7. LocksHeld'
    <2>1. \A q \in Running \ {r} : run[q].kind \in Kind /\ run'[q] = run[q]
      BY <1>2, <1>3 DEF RunUnderWay
    <2>2. \A q \in Running \ {r} : run[q].kind = run[r].kind => run[q].kind \in expired
      BY <1>2 DEF OkrInv, LocksSerialise
    <2> QED BY <1>1, <1>3, <1>4, <2>1, <2>2 DEF OkrInv, LocksHeld
  <1>8. LocksSerialise' /\ OneToStore' /\ LaterKnowsMore'
    BY <1>1, <1>2, <1>3 DEF OkrInv, LocksSerialise, OneToStore, LaterKnowsMore
  <1>9. AskedIsWritten'
    <2> SUFFICES ASSUME NEW q \in Running \ {r}, NEW o \in run[q].always,
                        o \in run[q].written, o \in stored, o \notin stored'
                 PROVE  o \in refused
      BY <1>1, <1>2, <1>3 DEF OkrInv, AskedIsWritten
    <2>1. AllAsked(r) /\ o \notin run[r].written
      BY <1>1
    <2>2. o \in run[r].always
      BY <1>2, <2>1 DEF OkrInv, LaterKnowsMore
    <2> QED BY <1>2, <2>1, <2>2 DEF OkrInv, AskedIsWritten, AllAsked
  <1>10. AloneIsExact'
    BY <1>5 DEF AloneIsExact
  <1> QED BY <1>6, <1>7, <1>8, <1>9, <1>10 DEF OkrInv

LEMMA ExpireLockInv ==
    ASSUME OkrInv, NEW k \in Kind, ExpireLock(k)
    PROVE  OkrInv'
  <1>1. /\ lock' = [lock EXCEPT ![k] = FALSE]
        /\ expired \subseteq expired' /\ expired' \subseteq expired \cup {k}
        /\ \A r \in Running : run[r].kind = k => k \in expired'
        /\ UNCHANGED <<upstream, stored, run, refused, alone, once>>
    BY DEF ExpireLock
  <1>2. Running' = Running /\ OkrTypeOK
    BY <1>1 DEF Running, OkrInv
  <1>3. lock' \in [Kind -> BOOLEAN] /\ \A j \in Kind \ {k} : lock'[j] = lock[j]
    BY <1>1, <1>2 DEF OkrTypeOK
  <1>4. OkrTypeOK'
    BY <1>1, <1>2, <1>3 DEF OkrTypeOK
  <1>5. LocksHeld'
    <2>1. \A r \in Running : run[r].kind \in Kind
      BY <1>2, OkrRuns DEF RunUnderWay
    <2> QED BY <1>1, <1>2, <1>3, <2>1 DEF OkrInv, LocksHeld
  <1>6. LocksSerialise'
    BY <1>1, <1>2 DEF OkrInv, LocksSerialise
  <1>7. OneToStore' /\ AskedIsWritten' /\ LaterKnowsMore' /\ AloneIsExact'
    BY <1>1, <1>2 DEF OkrInv, OneToStore, AskedIsWritten, LaterKnowsMore, AloneIsExact
  <1> QED BY <1>4, <1>5, <1>6, <1>7 DEF OkrInv

LEMMA CrashRunsInv == OkrInv /\ CrashRuns => OkrInv'
  <1> SUFFICES ASSUME OkrInv, CrashRuns
               PROVE  OkrInv'
    OBVIOUS
  <1>1. Running' = {} /\ alone' = {}
    BY DEF CrashRuns, Running
  <1>2. OkrTypeOK'
    BY <1>1 DEF CrashRuns, OkrInv, OkrTypeOK
  <1> QED BY <1>1, <1>2 DEF OkrInv, LocksHeld, LocksSerialise, OneToStore, AskedIsWritten,
          LaterKnowsMore, AloneIsExact

LEMMA LarkChangesInv ==
    ASSUME OkrInv, NEW o \in Objective, LarkChanges(o)
    PROVE  OkrInv'
  <1>1. /\ upstream' = IF o \in upstream THEN upstream \ {o} ELSE upstream \cup {o}
        /\ run' = [r \in Run |-> IF run[r] = NoRun THEN NoRun
                    ELSE [run[r] EXCEPT !.always = @ \cap upstream']]
        /\ once' = IF alone = {} THEN {} ELSE once \cup upstream'
        /\ UNCHANGED <<stored, lock, expired, refused, alone>>
    BY DEF LarkChanges
  <1>2. /\ OkrTypeOK /\ \A q \in Running : q \in Run /\ run[q] \in RunUnderWay
        /\ NoRun \notin RunUnderWay /\ \A q \in Run : q \notin Running => run[q] = NoRun
    BY OkrRuns DEF OkrInv
  <1>3. upstream' \subseteq Objective
    BY <1>1, <1>2 DEF OkrTypeOK
  <1>4. /\ \A q \in Running : /\ run'[q] \in RunUnderWay /\ run'[q].kind = run[q].kind
                              /\ run'[q].ask = run[q].ask /\ run'[q].store = run[q].store
                              /\ run'[q].written = run[q].written
                              /\ run'[q].always = run[q].always \cap upstream'
        /\ \A q \in Run \ Running : run'[q] = NoRun
    BY <1>1, <1>2 DEF RunUnderWay, Running
  <1>5. run' \in [Run -> RunUnderWay \cup {NoRun}]
    BY <1>1, <1>2, <1>4
  <1>6. Running' = Running
    BY <1>2, <1>4 DEF Running
  <1>7. OkrTypeOK'
    BY <1>1, <1>2, <1>3, <1>5, <1>6 DEF OkrTypeOK
  <1>8. LocksHeld' /\ LocksSerialise'
    <2>1. UNCHANGED <<lock, expired>>
      BY <1>1
    <2> QED BY <1>4, <1>6, <2>1 DEF OkrInv, LocksHeld, LocksSerialise
  <1>9. OneToStore' /\ LaterKnowsMore'
    BY <1>4, <1>6 DEF OkrInv, OneToStore, LaterKnowsMore
  <1>11. AskedIsWritten'
    <2>1. UNCHANGED <<stored, refused>>
      BY <1>1
    <2> QED BY <1>4, <1>6, <2>1 DEF OkrInv, AskedIsWritten
  <1>10. AloneIsExact'
    BY <1>1, <1>2, <1>4, <1>6 DEF OkrInv, OkrTypeOK, AloneIsExact
  <1> QED BY <1>7, <1>8, <1>9, <1>10, <1>11 DEF OkrInv

\* The rows that disappear in a step.
LEMMA OkrStepFacts ==
    ASSUME OkrInv, [OkrNext]_okrVars
    PROVE  /\ OkrInv'
           /\ \A o \in stored \ stored' : \E r \in Running : AllAsked(r) /\ o \notin run[r].written
  <1>1. CASE UNCHANGED okrVars
    <2>1. UNCHANGED <<upstream, stored, lock, run, expired, refused, alone, once>>
      BY <1>1 DEF okrVars
    <2>2. Running' = Running
      BY <2>1 DEF Running
    <2> QED BY <2>1, <2>2 DEF OkrInv, OkrTypeOK, LocksHeld, LocksSerialise, OneToStore,
            AskedIsWritten, LaterKnowsMore, AloneIsExact
  <1>2. ASSUME NEW r \in Run, NEW k \in Kind, TriggerRun(r, k)
        PROVE  OkrInv' /\ stored' = stored
    BY <1>2, TriggerRunInv DEF TriggerRun
  <1>3. ASSUME NEW r \in Run, NEW o \in Objective, AskForObjective(r, o)
        PROVE  OkrInv' /\ stored' = stored
    BY <1>3, AskInv DEF AskForObjective
  <1>4. ASSUME NEW r \in Run, StoreObjective(r)
        PROVE  OkrInv' /\ stored \subseteq stored'
    BY <1>4, StoreInv DEF StoreObjective
  <1>5. ASSUME NEW r \in Run, CleanUp(r) \/ FailRun(r)
        PROVE  /\ OkrInv' /\ r \in Running
               /\ \A o \in stored \ stored' : AllAsked(r) /\ o \notin run[r].written
    BY <1>5, EndRunInv DEF CleanUp, FailRun, WithoutStale, Running
  <1>6. ASSUME NEW k \in Kind, ExpireLock(k)
        PROVE  OkrInv' /\ stored' = stored
    BY <1>6, ExpireLockInv DEF ExpireLock
  <1>7. ASSUME CrashRuns
        PROVE  OkrInv' /\ stored' = stored
    BY <1>7, CrashRunsInv DEF CrashRuns
  <1>8. ASSUME NEW o \in Objective, LarkChanges(o)
        PROVE  OkrInv' /\ stored' = stored
    BY <1>8, LarkChangesInv DEF LarkChanges
  <1> QED BY <1>1, <1>2, <1>3, <1>4, <1>5, <1>6, <1>7, <1>8 DEF OkrNext

\* Whatever runs, locks and source do, what the runs know of each other holds.
THEOREM OkrInvariant == OkrSpec => []OkrInv
  <1>1. OkrInit => OkrInv
    BY OkrInitInv
  <1>2. OkrInv /\ [OkrNext]_okrVars => OkrInv'
    BY OkrStepFacts
  <1> QED BY <1>1, <1>2, PTL DEF OkrSpec

\* Rows, locks and runs keep their types.
THEOREM OkrTypes == OkrSpec => []OkrTypeOK
  <1>1. OkrInv => OkrTypeOK
    BY DEF OkrInv
  <1> QED BY <1>1, OkrInvariant, PTL

\* Deleting a lock unconditionally lets two runs of a kind work only after an expiry.
THEOREM LocksSerialised == OkrSpec => []LocksSerialise
  <1>1. OkrInv => LocksSerialise
    BY DEF OkrInv
  <1> QED BY <1>1, OkrInvariant, PTL

\* No cleanup removes what Lark had all the time and did not refuse, however many runs
\* overlap.
THEOREM RemovedGone == OkrSpec => RemovedWasGone
  <1>1. OkrInv /\ [OkrNext]_okrVars =>
            [\A o \in stored \ stored' :
                o \in refused \/ \E r \in Running : AllAsked(r) /\ o \notin run[r].always]_okrVars
    <2> SUFFICES ASSUME OkrInv, [OkrNext]_okrVars, NEW o \in stored \ stored', o \notin refused
                 PROVE  \E r \in Running : AllAsked(r) /\ o \notin run[r].always
      OBVIOUS
    <2>1. PICK r \in Running : AllAsked(r) /\ o \notin run[r].written
      BY OkrStepFacts
    <2> QED BY <2>1 DEF OkrInv, AskedIsWritten, AllAsked
  <1> QED BY <1>1, OkrInvariant, PTL DEF OkrSpec, RemovedWasGone

\* A run that ends well has stored all that was there all the time, and one that was
\* alone nothing that was never there.
THEOREM SuccessExact == OkrSpec => SuccessIsExact
  <1>1. OkrInv /\ [OkrNext]_okrVars =>
            [\A r \in Run : Finishes(r) =>
                /\ run[r].always \subseteq stored' \cup refused
                /\ r \in alone => stored' \subseteq once]_okrVars
    <2> SUFFICES ASSUME OkrInv, NEW r \in Run, Finishes(r)
                 PROVE  /\ run[r].always \subseteq stored' \cup refused
                        /\ r \in alone => stored' \subseteq once
      OBVIOUS
    <2>1. r \in Running /\ AllAsked(r) /\ stored' = stored \cap run[r].written
      BY DEF Finishes
    <2>2. run[r].always \subseteq stored' \cup refused
      BY <2>1 DEF OkrInv, AskedIsWritten, AllAsked
    <2>3. r \in alone => stored' \subseteq once
      BY <2>1 DEF OkrInv, AloneIsExact
    <2> QED BY <2>2, <2>3
  <1> QED BY <1>1, OkrInvariant, PTL DEF OkrSpec, SuccessIsExact

-----------------------------------------------------------------------------
(* Interviews: what a request has done to the calendar and not yet stored.  *)

\* The requests hold rows and events that are there.
CallsRefer ==
    /\ \A c \in Call : call[c] \in RescheduleCall \cup RowCall => call[c].row \in Rows
    /\ \A c \in Call : call[c] \in ScheduleCall => call[c].event \in Events
    /\ \A i \in Rows : interview[i].event \in Events

\* No event belongs to two rows or requests, and a row's event is not under way.
EventsApart ==
    /\ \A i, j \in Rows : interview[i].event = interview[j].event => i = j
    /\ \A c, d \in Call : call[c] \in ScheduleCall /\ call[d] \in ScheduleCall
                              /\ call[c].event = call[d].event => c = d
    /\ \A c \in Call, i \in Rows :
          call[c] \in ScheduleCall => call[c].event # interview[i].event

\* The event of an interview to be stored is there.
ScheduledIsLive == \A c \in Call : call[c] \in ScheduleCall => event[call[c].event].live

\* An interview about to be cancelled has no event any more.
CancelStarted ==
    \A c \in Call : call[c] \in RowCall /\ call[c].kind = "cancel"
        => ~event[interview[call[c].row].event].live

On(i, kind) == \E c \in CallsOn(i) : call[c].kind = kind

\* Rows nobody fought over: the calendar is one request ahead of the row.
Ahead(i) ==
    /\ event[interview[i].event].live <=> interview[i].status # "CANCELLED" /\ ~On(i, "cancel")
    /\ \A c \in CallsOn(i) : call[c].kind = "reschedule" =>
          event[interview[i].event].slot = call[c].slot
    /\ \A c, d \in CallsOn(i) :
          call[c].kind = "reschedule" /\ call[d].kind = "reschedule" => c = d
    /\ ~On(i, "reschedule") => event[interview[i].event].slot = interview[i].slot
    /\ On(i, "complete") => interview[i].status # "CANCELLED" /\ ~On(i, "cancel")

OneRequestAhead ==
    \A i \in Rows : i \in crossed \/ interview[i].event \in lost \/ Ahead(i)

InterviewInv ==
    /\ InterviewTypeOK /\ CallsRefer /\ EventsApart /\ ScheduledIsLive /\ CancelStarted
    /\ CancelledIsGone /\ OneRequestAhead

LEMMA CallKinds ==
    /\ NoCall.kind = "none"
    /\ \A x \in ScheduleCall : x.kind = "schedule" /\ x.event \in 1 .. MaxEvents /\ x.link \in BOOLEAN
    /\ \A x \in RescheduleCall : x.kind = "reschedule" /\ x.row \in 1 .. MaxEvents /\ x.slot \in Slot
    /\ \A x \in RowCall : x.kind \in {"cancel", "complete"} /\ x.row \in 1 .. MaxEvents
  BY DEF NoCall, ScheduleCall, RescheduleCall, RowCall

LEMMA InterviewInitInv == InterviewInit => InterviewInv
  <1> SUFFICES ASSUME InterviewInit
               PROVE  InterviewInv
    OBVIOUS
  <1>1. Rows = {} /\ Events = {} /\ \A c \in Call : call[c] = NoCall
    BY DEF InterviewInit, Rows, Events
  <1>2. NoCall \notin ScheduleCall /\ NoCall \notin RescheduleCall /\ NoCall \notin RowCall
    BY CallKinds
  <1>3. InterviewTypeOK
    <2>1. /\ interview \in Seq(InterviewRow) /\ event \in Seq(CalendarEvent)
          /\ Len(event) <= MaxEvents
      BY MaxEventsAssumption DEF InterviewInit
    <2>2. call \in [Call -> CallState]
      BY DEF InterviewInit, CallState
    <2> QED BY <2>1, <2>2 DEF InterviewInit, InterviewTypeOK
  <1>4. CallsRefer /\ EventsApart /\ ScheduledIsLive /\ CancelStarted
    BY <1>1, <1>2 DEF CallsRefer, EventsApart, ScheduledIsLive, CancelStarted
  <1>5. CancelledIsGone /\ OneRequestAhead
    BY <1>1 DEF InterviewInit, CancelledIsGone, OneRequestAhead
  <1> QED BY <1>3, <1>4, <1>5 DEF InterviewInv

\* The sequences as functions.
LEMMA InterviewRows ==
    ASSUME InterviewTypeOK
    PROVE  /\ interview \in [Rows -> InterviewRow] /\ Rows = 1 .. Len(interview)
           /\ event \in [Events -> CalendarEvent] /\ Events = 1 .. Len(event)
           /\ Len(interview) \in Nat /\ Len(event) \in Nat /\ Events \subseteq 1 .. MaxEvents
  <1>1. /\ interview \in Seq(InterviewRow) /\ event \in Seq(CalendarEvent)
        /\ Len(event) <= MaxEvents
    BY DEF InterviewTypeOK
  <1>2. /\ interview \in [Rows -> InterviewRow] /\ Rows = 1 .. Len(interview)
        /\ event \in [Events -> CalendarEvent] /\ Events = 1 .. Len(event)
        /\ Len(interview) \in Nat /\ Len(event) \in Nat
    BY <1>1, LenProperties DEF Rows, Events
  <1>3. Events \subseteq 1 .. MaxEvents
    BY <1>1, <1>2, MaxEventsAssumption
  <1> QED BY <1>2, <1>3

\* A sequence with one of its elements replaced.
LEMMA SeqReplaced ==
    ASSUME NEW S, NEW s \in Seq(S), NEW i \in DOMAIN s, NEW e \in S,
           NEW t, t = [s EXCEPT ![i] = e]
    PROVE  /\ t \in Seq(S) /\ Len(t) = Len(s) /\ DOMAIN t = DOMAIN s /\ t[i] = e
           /\ \A j \in DOMAIN s : j # i => t[j] = s[j]
  <1>1. s \in [1 .. Len(s) -> S] /\ Len(s) \in Nat /\ DOMAIN s = 1 .. Len(s)
    BY LenProperties
  <1> QED BY <1>1

\* Requests on rows, before and after one of them starts or ends.
LEMMA CallsOnChange ==
    ASSUME InterviewInv, NEW c \in Call, NEW x \in CallState,
           call' = [call EXCEPT ![c] = x]
    PROVE  /\ call' \in [Call -> CallState] /\ call'[c] = x
           /\ \A d \in Call : d # c => call'[d] = call[d]
  BY DEF InterviewInv, InterviewTypeOK

\* A row whose event and requests stay is as far ahead as before.
LEMMA AheadStays ==
    ASSUME NEW i, Ahead(i), interview'[i] = interview[i],
           event'[interview[i].event] = event[interview[i].event],
           CallsOn(i)' = CallsOn(i), \A c \in CallsOn(i) : call'[c] = call[c]
    PROVE  Ahead(i)'
  BY DEF Ahead, On

\* A new event, nobody's row yet.
LEMMA CallScheduleInv ==
    ASSUME InterviewInv, NEW c \in Call, CallSchedule(c)
    PROVE  InterviewInv'
  <1>1. PICK s \in Slot, link \in {appealOpen, FALSE} :
            /\ event' = Append(event, [live |-> TRUE, slot |-> s])
            /\ call' = [call EXCEPT ![c] =
                           [kind |-> "schedule", event |-> Len(event) + 1, link |-> link]]
    BY DEF CallSchedule
  <1>2. /\ call[c] = NoCall /\ Len(event) < MaxEvents
        /\ UNCHANGED <<published, archived, appealOpen, interview, lost, crossed, cancelled>>
    BY DEF CallSchedule
  <1> DEFINE x == [kind |-> "schedule", event |-> Len(event) + 1, link |-> link]
             e == [live |-> TRUE, slot |-> s]
  <1>3. /\ event \in Seq(CalendarEvent) /\ Len(event) \in Nat /\ Events = 1 .. Len(event)
        /\ InterviewTypeOK
    BY InterviewRows DEF InterviewInv, InterviewTypeOK
  <1>4. e \in CalendarEvent /\ e.live /\ x.event = Len(event) + 1
    BY DEF CalendarEvent
  <1>5. x \in ScheduleCall /\ x \in CallState /\ x \notin RescheduleCall /\ x \notin RowCall
    <2>1. Len(event) + 1 \in 1 .. MaxEvents
      BY <1>2, <1>3, MaxEventsAssumption
    <2>2. link \in BOOLEAN
      BY <1>3 DEF InterviewTypeOK
    <2>3. x \in ScheduleCall
      BY <2>1, <2>2 DEF ScheduleCall
    <2> QED BY <2>3, CallKinds DEF CallState
  <1>6. /\ event' \in Seq(CalendarEvent) /\ Len(event') = Len(event) + 1
        /\ Events' = 1 .. Len(event) + 1 /\ event'[Len(event) + 1] = e
        /\ \A k \in Events : event'[k] = event[k]
    <2>1. /\ event' \in Seq(CalendarEvent) /\ Len(event') = Len(event) + 1
          /\ \A k \in 1 .. Len(event) : event'[k] = event[k] /\ event'[Len(event) + 1] = e
          /\ event'[Len(event) + 1] = e
      BY <1>1, <1>3, <1>4, AppendProperties
    <2>2. Events' = 1 .. Len(event')
      BY <2>1, LenProperties DEF Events
    <2> QED BY <1>3, <2>1, <2>2
  <1> HIDE DEF x, e
  <1>7. /\ call' \in [Call -> CallState] /\ call'[c] = x
        /\ \A d \in Call : d # c => call'[d] = call[d]
    BY <1>1, <1>5, CallsOnChange DEF x
  <1>8. /\ Events \subseteq Events' /\ Len(event) + 1 \notin Events /\ Len(event) + 1 \in Events'
        /\ Len(event') <= MaxEvents /\ Rows' = Rows
    <2>1. Rows' = Rows
      BY <1>2 DEF Rows
    <2>2. Len(event') <= MaxEvents
      BY <1>2, <1>3, <1>6, MaxEventsAssumption
    <2>3. /\ Events \subseteq Events' /\ Len(event) + 1 \notin Events
          /\ Len(event) + 1 \in Events'
      <3> DEFINE n == Len(event)
      <3>1. Events = 1 .. n /\ Events' = 1 .. n + 1 /\ n \in Nat
        BY <1>3, <1>6
      <3> HIDE DEF n
      <3>2. Events \subseteq Events' /\ n + 1 \notin Events /\ n + 1 \in Events'
        BY <3>1
      <3> QED BY <3>2 DEF n
    <2> QED BY <2>1, <2>2, <2>3
  <1>9. InterviewTypeOK'
    BY <1>2, <1>3, <1>6, <1>7, <1>8 DEF InterviewTypeOK
  <1>10. CallsRefer' /\ ScheduledIsLive' /\ CancelStarted'
    <2>1. CallsRefer'
      BY <1>2, <1>4, <1>5, <1>7, <1>8 DEF InterviewInv, CallsRefer
    <2>2. ScheduledIsLive'
      <3> SUFFICES ASSUME NEW d \in Call, call'[d] \in ScheduleCall
                   PROVE  event'[call'[d].event].live
        BY DEF ScheduledIsLive
      <3>1. CASE d = c
        BY <1>4, <1>6, <1>7, <3>1
      <3>2. CASE d # c
        <4>1. call'[d] = call[d] /\ call[d].event \in Events /\ event[call[d].event].live
          BY <1>7, <3>2 DEF InterviewInv, CallsRefer, ScheduledIsLive
        <4> QED BY <1>6, <4>1
      <3> QED BY <3>1, <3>2
    <2>3. CancelStarted'
      <3> SUFFICES ASSUME NEW d \in Call, call'[d] \in RowCall, call'[d].kind = "cancel"
                   PROVE  ~event'[interview[call'[d].row].event].live
        BY <1>2 DEF CancelStarted
      <3>1. call'[d] = call[d]
        BY <1>5, <1>7
      <3>2. /\ interview[call[d].row].event \in Events
            /\ ~event[interview[call[d].row].event].live
        BY <3>1 DEF InterviewInv, CallsRefer, CancelStarted
      <3> QED BY <1>6, <3>1, <3>2
    <2> QED BY <2>1, <2>2, <2>3
  <1>11. EventsApart'
    BY <1>2, <1>4, <1>5, <1>7, <1>8 DEF InterviewInv, CallsRefer, EventsApart
  <1>12. CancelledIsGone'
    BY <1>2, <1>3, <1>6, <1>8 DEF InterviewInv, CallsRefer, CancelledIsGone, InterviewTypeOK
  <1>13. OneRequestAhead'
    <2> SUFFICES ASSUME NEW i \in Rows, i \notin crossed, interview[i].event \notin lost
                 PROVE  Ahead(i)'
      BY <1>2, <1>8 DEF OneRequestAhead
    <2>1. Ahead(i) /\ interview[i].event \in Events
      BY DEF InterviewInv, OneRequestAhead, CallsRefer
    <2>2. c \notin CallsOn(i)
      BY <1>2, CallKinds DEF CallsOn
    <2>3. CallsOn(i)' = CallsOn(i)
      BY <1>5, <1>7, <2>2 DEF CallsOn
    <2>4. \A d \in CallsOn(i) : call'[d] = call[d]
      BY <1>7, <2>2 DEF CallsOn
    <2> QED BY <1>2, <1>6, <2>1, <2>3, <2>4, AheadStays
  <1> QED BY <1>9, <1>10, <1>11, <1>12, <1>13 DEF InterviewInv

\* What every request that ends leaves behind.
LEMMA EndedCall ==
    ASSUME InterviewInv, NEW c \in Call, EndCall(c)
    PROVE  /\ call' \in [Call -> CallState] /\ call'[c] = NoCall
           /\ NoCall \notin ScheduleCall /\ NoCall \notin RescheduleCall /\ NoCall \notin RowCall
           /\ \A d \in Call : d # c => call'[d] = call[d]
           /\ \A i : CallsOn(i)' = CallsOn(i) \ {c}
  <1>1. NoCall \notin ScheduleCall /\ NoCall \notin RescheduleCall /\ NoCall \notin RowCall
    BY CallKinds
  <1>2. /\ call' \in [Call -> CallState] /\ call'[c] = NoCall
        /\ \A d \in Call : d # c => call'[d] = call[d]
    BY CallsOnChange DEF EndCall, CallState
  <1> QED BY <1>1, <1>2 DEF CallsOn

\* Parts that only requests and rows can disturb, for a step that leaves the calendar
\* alone, ends request c and moves no row's event.
LEMMA CalendarStays ==
    ASSUME InterviewInv, NEW c \in Call, EndCall(c), UNCHANGED <<event, interview>>
    PROVE  CallsRefer' /\ EventsApart' /\ ScheduledIsLive' /\ CancelStarted'
  <1>1. Rows' = Rows /\ Events' = Events
    BY DEF Rows, Events
  <1>2. CallsRefer'
    BY <1>1, EndedCall DEF InterviewInv, CallsRefer
  <1>3. EventsApart'
    BY <1>1, EndedCall DEF InterviewInv, EventsApart
  <1>4. ScheduledIsLive' /\ CancelStarted'
    BY <1>1, EndedCall DEF InterviewInv, ScheduledIsLive, CancelStarted
  <1> QED BY <1>2, <1>3, <1>4

\* The row of a new interview takes the event over, or the event is lost.
LEMMA CommitScheduleInv ==
    ASSUME InterviewInv, NEW c \in Call, CommitSchedule(c)
    PROVE  InterviewInv'
  <1> DEFINE row == [status |-> "SCHEDULED", slot |-> event[call[c].event].slot,
                     event |-> call[c].event]
  <1>1. /\ call[c] \in ScheduleCall /\ EndCall(c)
        /\ \/ interview' = Append(interview, row) /\ UNCHANGED lost
           \/ lost' = lost \cup {call[c].event} /\ UNCHANGED interview
        /\ UNCHANGED <<published, archived, appealOpen, event, crossed, cancelled>>
    BY DEF CommitSchedule
  <1>0. row.event = call[c].event /\ row.status = "SCHEDULED"
        /\ row.slot = event[call[c].event].slot
    OBVIOUS
  <1>6. row \in [status : {"SCHEDULED"}, slot : {event[call[c].event].slot},
                 event : {call[c].event}]
    OBVIOUS
  <1> HIDE DEF row
  <1>2. /\ InterviewTypeOK /\ call[c].event \in Events /\ event[call[c].event].live
        /\ event[call[c].event] \in CalendarEvent /\ Events' = Events
        /\ Events \subseteq 1 .. MaxEvents
    BY <1>1, InterviewRows DEF InterviewInv, CallsRefer, ScheduledIsLive, Events
  <1>3. \A i \in Rows : CallsOn(i)' = CallsOn(i) /\ \A d \in CallsOn(i) : call'[d] = call[d]
    <2>1. call[c] \notin RescheduleCall /\ call[c] \notin RowCall
      BY <1>1, CallKinds
    <2> SUFFICES ASSUME NEW i \in Rows
                 PROVE  CallsOn(i)' = CallsOn(i) /\ \A d \in CallsOn(i) : call'[d] = call[d]
      OBVIOUS
    <2>2. c \notin CallsOn(i) /\ CallsOn(i) \subseteq Call
      BY <2>1 DEF CallsOn
    <2>3. CallsOn(i)' = CallsOn(i) \ {c} /\ \A d \in Call : d # c => call'[d] = call[d]
      BY <1>1, EndedCall
    <2> QED BY <2>2, <2>3
  <1>4. CASE lost' = lost \cup {call[c].event} /\ UNCHANGED interview
    <2>1. Rows' = Rows
      BY <1>4 DEF Rows
    <2>2. InterviewTypeOK'
      BY <1>1, <1>2, <1>4, <2>1, EndedCall DEF InterviewTypeOK
    <2>3. CallsRefer' /\ EventsApart' /\ ScheduledIsLive' /\ CancelStarted'
      BY <1>1, <1>4, CalendarStays
    <2>4. CancelledIsGone'
      BY <1>1, <1>4, <2>1 DEF InterviewInv, CancelledIsGone
    <2>5. OneRequestAhead'
      BY <1>1, <1>3, <1>4, <2>1, AheadStays DEF InterviewInv, OneRequestAhead
    <2> QED BY <2>2, <2>3, <2>4, <2>5 DEF InterviewInv
  <1>5. CASE interview' = Append(interview, row) /\ UNCHANGED lost
    <2>1. row \in InterviewRow
      BY <1>2, <1>6 DEF InterviewRow, CalendarEvent
    <2>2. PICK n \in Nat : n = Len(interview) + 1
      BY <1>2, InterviewRows
    <2>3. /\ interview \in Seq(InterviewRow) /\ Len(interview) \in Nat
          /\ Rows = 1 .. Len(interview)
      BY <1>2, InterviewRows DEF InterviewTypeOK
    <2>4. /\ interview' \in Seq(InterviewRow) /\ Rows' = Rows \cup {n} /\ n \notin Rows
          /\ interview'[n] = row /\ \A i \in Rows : interview'[i] = interview[i]
      <3>1. /\ interview' \in Seq(InterviewRow) /\ Len(interview') = n
            /\ \A i \in 1 .. Len(interview) : interview'[i] = interview[i]
            /\ interview'[n] = row
        BY <1>5, <2>1, <2>2, <2>3, AppendProperties
      <3>2. Rows' = 1 .. n
        BY <3>1, LenProperties DEF Rows
      <3>3. 1 .. n = Rows \cup {n} /\ n \notin Rows
        BY <2>2, <2>3
      <3> QED BY <2>3, <3>1, <3>2, <3>3
    <2>5. InterviewTypeOK'
      BY <1>1, <1>2, <1>5, <2>4, EndedCall DEF InterviewTypeOK
    <2>6. CallsRefer'
      BY <1>1, <1>2, <1>0, <2>4, EndedCall DEF InterviewInv, CallsRefer
    <2>7. EventsApart'
      <3>1. \A i \in Rows : interview[i].event # call[c].event
        BY <1>1 DEF InterviewInv, EventsApart
      <3>2. \A d \in Call : d # c /\ call[d] \in ScheduleCall => call[d].event # call[c].event
        BY <1>1 DEF InterviewInv, EventsApart
      <3>3. \A i, j \in Rows' : interview'[i].event = interview'[j].event => i = j
        BY <1>0, <2>4, <3>1 DEF InterviewInv, EventsApart
      <3>4. \A d, e \in Call : call'[d] \in ScheduleCall /\ call'[e] \in ScheduleCall
                                 /\ call'[d].event = call'[e].event => d = e
        BY <1>1, EndedCall DEF InterviewInv, EventsApart
      <3>5. \A d \in Call, i \in Rows' :
                call'[d] \in ScheduleCall => call'[d].event # interview'[i].event
        BY <1>1, <1>0, <2>4, <3>2, EndedCall DEF InterviewInv, EventsApart
      <3> QED BY <3>3, <3>4, <3>5 DEF EventsApart
    <2>8. ScheduledIsLive'
      BY <1>1, EndedCall DEF InterviewInv, ScheduledIsLive
    <2>9. CancelStarted'
      BY <1>1, <2>4, EndedCall DEF InterviewInv, CancelStarted, CallsRefer
    <2>10. CancelledIsGone'
      BY <1>1, <1>2, <1>0, <2>4 DEF InterviewInv, CancelledIsGone, InterviewTypeOK
    <2>11. OneRequestAhead'
      <3>1. ASSUME NEW i \in Rows
            PROVE  i \in crossed \/ interview'[i].event \in lost \/ Ahead(i)'
        BY <1>1, <1>3, <2>4, AheadStays DEF InterviewInv, OneRequestAhead
      <3>2. Ahead(n)'
        <4>1. CallsOn(n) = {}
          BY <2>4 DEF InterviewInv, CallsRefer, CallsOn
        <4>2. CallsOn(n)' = {}
          BY <1>1, <4>1, EndedCall
        <4>3. /\ event'[interview'[n].event].live /\ interview'[n].status = "SCHEDULED"
              /\ event'[interview'[n].event].slot = interview'[n].slot
          BY <1>1, <1>2, <1>0, <2>4
        <4> QED BY <4>2, <4>3 DEF Ahead, On
      <3>3. crossed' = crossed /\ lost' = lost /\ Rows' = Rows \cup {n}
        BY <1>1, <1>5, <2>4
      <3> SUFFICES ASSUME NEW j \in Rows \cup {n}
                   PROVE  j \in crossed \/ interview'[j].event \in lost \/ Ahead(j)'
        BY <3>3 DEF OneRequestAhead
      <3> QED BY <3>1, <3>2
    <2> QED BY <2>5, <2>6, <2>7, <2>8, <2>9, <2>10, <2>11 DEF InterviewInv
  <1> QED BY <1>1, <1>4, <1>5

\* A request stores what it did on its row.
LEMMA CommitRowInv ==
    ASSUME InterviewInv, NEW c \in Call, CommitReschedule(c) \/ CommitCancel(c) \/ CommitComplete(c)
    PROVE  InterviewInv'
  <1> DEFINE i == call[c].row
  <1>1. /\ call[c] \in RescheduleCall \cup RowCall /\ EndCall(c) /\ i \in Rows
        /\ UNCHANGED <<published, archived, appealOpen, event, lost, crossed>>
    BY DEF CommitReschedule, CommitCancel, CommitComplete, InterviewInv, CallsRefer
  <1>2. /\ InterviewTypeOK /\ interview \in [Rows -> InterviewRow]
        /\ interview \in Seq(InterviewRow) /\ Events' = Events
    BY <1>1, InterviewRows DEF InterviewInv, InterviewTypeOK, Events
  <1>3. PICK row \in InterviewRow :
            /\ interview' = [interview EXCEPT ![i] = row]
            /\ row.event = interview[i].event
            /\ \/ /\ call[c].kind = "reschedule" /\ UNCHANGED cancelled
                  /\ row.slot = call[c].slot /\ row.status = interview[i].status
               \/ /\ call[c].kind = "cancel" /\ cancelled' = cancelled \cup {i}
                  /\ row.slot = interview[i].slot /\ row.status = "CANCELLED"
               \/ /\ call[c].kind = "complete" /\ UNCHANGED cancelled
                  /\ row.slot = interview[i].slot /\ row.status = "COMPLETED"
    <2>1. interview[i] \in InterviewRow
      BY <1>1, <1>2
    <2>2. CASE CommitReschedule(c)
      <3> DEFINE row == [interview[i] EXCEPT !.slot = call[c].slot]
      <3>1. call[c] \in RescheduleCall /\ interview' = [interview EXCEPT ![i] = row]
            /\ UNCHANGED cancelled
        BY <2>2 DEF CommitReschedule
      <3>2. call[c].kind = "reschedule" /\ call[c].slot \in Slot
        BY <3>1, CallKinds
      <3>3. /\ row \in InterviewRow /\ row.event = interview[i].event
            /\ row.slot = call[c].slot /\ row.status = interview[i].status
        BY <2>1, <3>2 DEF InterviewRow
      <3> QED BY <3>1, <3>2, <3>3
    <2>3. CASE CommitCancel(c)
      <3> DEFINE row == [interview[i] EXCEPT !.status = "CANCELLED"]
      <3>1. /\ call[c].kind = "cancel" /\ interview' = [interview EXCEPT ![i] = row]
            /\ cancelled' = cancelled \cup {i}
        BY <2>3 DEF CommitCancel, WithCancelNotice
      <3>2. /\ row \in InterviewRow /\ row.event = interview[i].event
            /\ row.slot = interview[i].slot /\ row.status = "CANCELLED"
        BY <2>1 DEF InterviewRow
      <3> QED BY <3>1, <3>2
    <2>4. CASE CommitComplete(c)
      <3> DEFINE row == [interview[i] EXCEPT !.status = "COMPLETED"]
      <3>1. /\ call[c].kind = "complete" /\ interview' = [interview EXCEPT ![i] = row]
            /\ UNCHANGED cancelled
        BY <2>4 DEF CommitComplete
      <3>2. /\ row \in InterviewRow /\ row.event = interview[i].event
            /\ row.slot = interview[i].slot /\ row.status = "COMPLETED"
        BY <2>1 DEF InterviewRow
      <3> QED BY <3>1, <3>2
    <2> QED BY <2>2, <2>3, <2>4
  <1>4. c \in CallsOn(i)
    BY <1>1 DEF CallsOn
  <1> HIDE DEF i
  <1>5. /\ interview' \in Seq(InterviewRow) /\ Rows' = Rows /\ interview'[i] = row
        /\ \A j \in Rows : j # i => interview'[j] = interview[j]
        /\ \A j \in Rows : interview'[j].event = interview[j].event
    <2>1. i \in DOMAIN interview
      BY <1>1 DEF Rows
    <2>2. /\ interview' \in Seq(InterviewRow) /\ DOMAIN interview' = DOMAIN interview
          /\ interview'[i] = row
          /\ \A j \in DOMAIN interview : j # i => interview'[j] = interview[j]
      BY <1>2, <1>3, <2>1, SeqReplaced
    <2> QED BY <1>3, <2>2 DEF Rows
  <1>6. InterviewTypeOK'
    BY <1>1, <1>2, <1>3, <1>5, EndedCall DEF InterviewTypeOK
  <1>7. CallsRefer' /\ EventsApart' /\ ScheduledIsLive' /\ CancelStarted'
    <2>1. CallsRefer'
      BY <1>1, <1>2, <1>5, EndedCall DEF InterviewInv, CallsRefer
    <2>2. EventsApart'
      BY <1>1, <1>5, EndedCall DEF InterviewInv, EventsApart
    <2>3. ScheduledIsLive'
      BY <1>1, EndedCall DEF InterviewInv, ScheduledIsLive
    <2>4. CancelStarted'
      BY <1>1, <1>5, EndedCall DEF InterviewInv, CancelStarted, CallsRefer
    <2> QED BY <2>1, <2>2, <2>3, <2>4
  <1>8. CancelledIsGone'
    <2>1. \A j \in Rows : interview'[j].status = "CANCELLED" => j \in cancelled'
      BY <1>3, <1>5 DEF InterviewInv, CancelledIsGone
    <2>2. call[c].kind = "cancel" => ~event[interview[i].event].live
      <3>1. call[c].kind = "cancel" => call[c] \in RowCall
        BY <1>1, CallKinds
      <3> QED BY <3>1 DEF InterviewInv, CancelStarted, i
    <2>3. \A j \in cancelled' : j \in Rows /\ ~event[interview[j].event].live
      BY <1>1, <1>2, <1>3, <2>2 DEF InterviewInv, CancelledIsGone, InterviewTypeOK
    <2> QED BY <1>1, <1>5, <2>1, <2>3 DEF CancelledIsGone
  <1>9. OneRequestAhead'
    <2> SUFFICES ASSUME NEW j \in Rows, j \notin crossed, interview[j].event \notin lost
                 PROVE  Ahead(j)'
      BY <1>1, <1>5 DEF OneRequestAhead
    <2>1. Ahead(j)
      BY DEF InterviewInv, OneRequestAhead
    <2>2. /\ CallsOn(j)' = CallsOn(j) \ {c}
          /\ \A d \in CallsOn(j)' : call'[d] = call[d]
      BY <1>1, EndedCall DEF CallsOn
    <2>3. CASE j # i
      <3>1. c \notin CallsOn(j)
        BY <2>3 DEF CallsOn, i
      <3> QED BY <1>1, <1>5, <2>1, <2>2, <2>3, <3>1, AheadStays
    <2>4. CASE j = i
      BY <1>1, <1>3, <1>4, <1>5, <2>1, <2>2, <2>4 DEF Ahead, On
    <2> QED BY <2>3, <2>4
  <1> QED BY <1>6, <1>7, <1>8, <1>9 DEF InterviewInv

\* What every request that starts on a row adds.
LEMMA StartedCall ==
    ASSUME InterviewInv, NEW c \in Call, NEW i \in Rows, NEW what \in RescheduleCall \cup RowCall,
           what.row = i, StartCall(c, i, what)
    PROVE  /\ call' \in [Call -> CallState] /\ call'[c] = what
           /\ \A d \in Call : d # c => call'[d] = call[d]
           /\ \A j \in Rows : /\ c \notin CallsOn(j) /\ (j # i => CallsOn(j)' = CallsOn(j))
                              /\ \A d \in CallsOn(j) : call'[d] = call[d]
           /\ CallsOn(i)' = CallsOn(i) \cup {c}
           /\ crossed \subseteq crossed' /\ crossed' \subseteq crossed \cup {i}
           /\ i \notin crossed' => \A d \in CallsOn(i) : {call[d].kind, what.kind} \notin Rivals
  <1>1. /\ call[c] = NoCall /\ call' = [call EXCEPT ![c] = what] /\ what \in CallState
        /\ NoCall \notin RescheduleCall /\ NoCall \notin RowCall
    BY CallKinds DEF StartCall, CallState
  <1>2. /\ call' \in [Call -> CallState] /\ call'[c] = what
        /\ \A d \in Call : d # c => call'[d] = call[d]
    BY <1>1, CallsOnChange
  <1>3. \A j \in Rows : c \notin CallsOn(j) /\ \A d \in CallsOn(j) : call'[d] = call[d]
    BY <1>1, <1>2 DEF CallsOn
  <1>4. \A j \in Rows : j # i => CallsOn(j)' = CallsOn(j)
    BY <1>1, <1>2 DEF CallsOn
  <1>5. CallsOn(i)' = CallsOn(i) \cup {c}
    BY <1>1, <1>2 DEF CallsOn
  <1>6. /\ crossed \subseteq crossed' /\ crossed' \subseteq crossed \cup {i}
        /\ i \notin crossed' => \A d \in CallsOn(i) : {call[d].kind, what.kind} \notin Rivals
    BY DEF StartCall
  <1> QED BY <1>2, <1>3, <1>4, <1>5, <1>6

\* The calendar is ahead by the request that starts when no rival is under way.
LEMMA StartedAhead ==
    ASSUME NEW c, NEW i, NEW what, NEW e, Ahead(i),
           interview'[i] = interview[i], interview[i].status = "SCHEDULED",
           event'[interview[i].event] = e,
           CallsOn(i)' = CallsOn(i) \cup {c}, call'[c] = what,
           \A d \in CallsOn(i) : call'[d] = call[d] /\ {call[d].kind, what.kind} \notin Rivals,
           \/ /\ what.kind = "reschedule" /\ event[interview[i].event].live
              /\ e.live /\ e.slot = what.slot
           \/ /\ what.kind = "cancel" /\ event[interview[i].event].live
              /\ ~e.live /\ e.slot = event[interview[i].event].slot
           \/ what.kind = "complete" /\ e = event[interview[i].event]
    PROVE  Ahead(i)'
  <1> DEFINE k == interview[i].event
  <1>1. CASE /\ what.kind = "reschedule" /\ event[k].live /\ e.live /\ e.slot = what.slot
    <2>1. \A d \in CallsOn(i) : call[d].kind # "reschedule"
      BY <1>1 DEF Rivals
    <2> QED BY <1>1, <2>1 DEF Ahead, On
  <1>2. CASE /\ what.kind = "cancel" /\ event[k].live /\ ~e.live /\ e.slot = event[k].slot
    <2>1. \A d \in CallsOn(i) : call[d].kind # "complete"
      BY <1>2 DEF Rivals
    <2> QED BY <1>2, <2>1 DEF Ahead, On
  <1>3. CASE what.kind = "complete" /\ e = event[k]
    <2>1. \A d \in CallsOn(i) : call[d].kind # "cancel"
      BY <1>3 DEF Rivals
    <2> QED BY <1>3, <2>1 DEF Ahead, On
  <1> QED BY <1>1, <1>2, <1>3

\* A request reads its row and changes the calendar, or leaves it as it is.
LEMMA StartRowInv ==
    ASSUME InterviewInv, NEW c \in Call, NEW i \in Rows, NEW what \in RescheduleCall \cup RowCall,
           NEW e \in CalendarEvent, what.row = i, StartCall(c, i, what),
           interview[i].status = "SCHEDULED",
           event' = [event EXCEPT ![interview[i].event] = e],
           \/ /\ what.kind = "reschedule" /\ event[interview[i].event].live
              /\ e.live /\ e.slot = what.slot
           \/ /\ what.kind = "cancel" /\ event[interview[i].event].live
              /\ ~e.live /\ e.slot = event[interview[i].event].slot
           \/ what.kind = "complete" /\ e = event[interview[i].event],
           UNCHANGED <<published, archived, appealOpen, interview, lost, cancelled>>
    PROVE  InterviewInv'
  <1> DEFINE k == interview[i].event
  <1>1. /\ InterviewTypeOK /\ event \in Seq(CalendarEvent) /\ k \in Events /\ Rows' = Rows
        /\ interview \in Seq(InterviewRow) /\ interview' = interview
    BY DEF InterviewInv, InterviewTypeOK, CallsRefer, Rows
  <1>2. /\ event' \in Seq(CalendarEvent) /\ Len(event') = Len(event) /\ Events' = Events
        /\ event'[k] = e /\ \A m \in Events : m # k => event'[m] = event[m]
    BY <1>1, SeqReplaced DEF Events
  <1>3. /\ call' \in [Call -> CallState] /\ call'[c] = what
        /\ \A d \in Call : d # c => call'[d] = call[d]
        /\ \A j \in Rows : /\ c \notin CallsOn(j) /\ (j # i => CallsOn(j)' = CallsOn(j))
                           /\ \A d \in CallsOn(j) : call'[d] = call[d]
        /\ CallsOn(i)' = CallsOn(i) \cup {c}
        /\ crossed \subseteq crossed' /\ crossed' \subseteq crossed \cup {i}
        /\ i \notin crossed' => \A d \in CallsOn(i) : {call[d].kind, what.kind} \notin Rivals
    BY StartedCall
  <1>4. what \notin ScheduleCall /\ (what.kind = "cancel" => what \in RowCall)
    BY CallKinds
  <1>5. /\ \A j \in Rows : j # i => /\ interview[j].event \in Events /\ interview[j].event # k
                                   /\ event'[interview[j].event] = event[interview[j].event]
        /\ \A d \in Call : call'[d] \in ScheduleCall =>
              /\ d # c /\ call'[d] = call[d] /\ call[d].event \in Events /\ call[d].event # k
              /\ event'[call[d].event] = event[call[d].event]
    <2>1. \A j \in Rows : j # i => interview[j].event \in Events /\ interview[j].event # k
      BY DEF InterviewInv, CallsRefer, EventsApart
    <2>2. \A d \in Call : call'[d] \in ScheduleCall =>
              d # c /\ call'[d] = call[d] /\ call[d].event \in Events /\ call[d].event # k
      BY <1>3, <1>4 DEF InterviewInv, CallsRefer, EventsApart
    <2> QED BY <1>2, <2>1, <2>2
  <1> HIDE DEF k
  <1>6. InterviewTypeOK'
    <2>1. crossed' \cup cancelled' \subseteq Rows'
      BY <1>1, <1>3 DEF InterviewTypeOK
    <2> QED BY <1>1, <1>2, <1>3, <2>1 DEF InterviewTypeOK
  <1>7. CallsRefer'
    BY <1>1, <1>2, <1>3, <1>4 DEF InterviewInv, CallsRefer
  <1>8. EventsApart'
    BY <1>1, <1>3, <1>5 DEF InterviewInv, EventsApart
  <1>9. ScheduledIsLive'
    BY <1>5 DEF InterviewInv, ScheduledIsLive
  <1>10. \A j \in Rows : ~event[interview[j].event].live => ~event'[interview[j].event].live
    BY <1>2, <1>5 DEF k
  <1>11. CancelStarted'
    <2> SUFFICES ASSUME NEW d \in Call, call'[d] \in RowCall, call'[d].kind = "cancel"
                 PROVE  ~event'[interview[call'[d].row].event].live
      BY <1>1 DEF CancelStarted
    <2>1. CASE d = c
      BY <1>2, <1>3, <2>1 DEF k
    <2>2. CASE d # c
      BY <1>3, <1>10, <2>2 DEF InterviewInv, CancelStarted, CallsRefer
    <2> QED BY <2>1, <2>2
  <1>12. CancelledIsGone'
    BY <1>1, <1>10 DEF InterviewInv, CancelledIsGone, InterviewTypeOK
  <1>13. OneRequestAhead'
    <2> SUFFICES ASSUME NEW j \in Rows, j \notin crossed', interview[j].event \notin lost
                 PROVE  Ahead(j)'
      BY <1>1 DEF OneRequestAhead
    <2>1. Ahead(j) /\ interview'[j] = interview[j]
      BY <1>1, <1>3 DEF InterviewInv, OneRequestAhead
    <2>2. CASE j # i
      <3>1. event'[interview[j].event] = event[interview[j].event]
        BY <1>5, <2>2
      <3>2. CallsOn(j)' = CallsOn(j) /\ \A d \in CallsOn(j) : call'[d] = call[d]
        BY <1>3, <2>2
      <3> QED BY <2>1, <3>1, <3>2, AheadStays
    <2>3. CASE j = i
      <3>1. \A d \in CallsOn(i) : call'[d] = call[d] /\ {call[d].kind, what.kind} \notin Rivals
        BY <1>3, <2>3
      <3>2. CallsOn(i)' = CallsOn(i) \cup {c} /\ call'[c] = what
        BY <1>3
      <3>3. interview'[i] = interview[i] /\ event'[interview[i].event] = e /\ Ahead(i)
        BY <1>2, <2>1, <2>3 DEF k
      <3>4. Ahead(i)'
        BY <3>1, <3>2, <3>3, StartedAhead
      <3> QED BY <2>3, <3>4
    <2> QED BY <2>2, <2>3
  <1> QED BY <1>6, <1>7, <1>8, <1>9, <1>11, <1>12, <1>13 DEF InterviewInv

\* There are no more rows than events.
LEMMA RowsBounded ==
    ASSUME InterviewInv
    PROVE  Rows \subseteq 1 .. MaxEvents
  <1> DEFINE n == Len(interview)
             m == Len(event)
  <1>1. /\ n \in Nat /\ m \in Nat /\ m <= MaxEvents /\ MaxEvents \in Nat
        /\ Rows = 1 .. n /\ Events = 1 .. m
    BY InterviewRows, MaxEventsAssumption DEF InterviewInv, InterviewTypeOK
  <1>2. [i \in Rows |-> interview[i].event] \in [Rows -> Events]
    BY DEF InterviewInv, CallsRefer
  <1> HIDE DEF n, m
  <1>3. /\ IsFiniteSet(1 .. n) /\ Cardinality(1 .. n) = n
        /\ IsFiniteSet(1 .. m) /\ Cardinality(1 .. m) = m
    BY <1>1, FS_Interval
  <1>4. n <= m
    <2> SUFFICES ASSUME m < n
                 PROVE  FALSE
      BY <1>1
    <2> DEFINE f == [i \in Rows |-> interview[i].event]
    <2>2. f \in [Rows -> Events] /\ Cardinality(Events) < Cardinality(Rows)
          /\ IsFiniteSet(Rows) /\ IsFiniteSet(Events)
      BY <1>1, <1>2, <1>3
    <2> HIDE DEF f
    <2>3. \E i, j \in Rows : i # j /\ f[i] = f[j]
      BY <2>2, FS_PigeonHole
    <2>1. PICK i, j \in Rows : i # j /\ f[i] = f[j]
      BY <2>3
    <2> USE DEF f
    <2> QED BY <2>1 DEF InterviewInv, EventsApart
  <1> QED BY <1>1, <1>4

LEMMA CallRescheduleInv ==
    ASSUME InterviewInv, NEW c \in Call, NEW i \in Rows, CallReschedule(c, i)
    PROVE  InterviewInv'
  <1>1. PICK s \in Slot :
            /\ LarkWrites(i, [live |-> TRUE, slot |-> s])
            /\ StartCall(c, i, [kind |-> "reschedule", row |-> i, slot |-> s])
    BY DEF CallReschedule
  <1> DEFINE e == [live |-> TRUE, slot |-> s]
             what == [kind |-> "reschedule", row |-> i, slot |-> s]
  <1>2. e \in CalendarEvent /\ e.live /\ e.slot = s
    BY DEF CalendarEvent
  <1>3. /\ what \in RescheduleCall \cup RowCall /\ what.row = i /\ what.kind = "reschedule"
        /\ what.slot = s
    <2>1. i \in 1 .. MaxEvents
      BY RowsBounded
    <2> QED BY <2>1 DEF RescheduleCall
  <1>4. /\ StartCall(c, i, what) /\ event[interview[i].event].live
        /\ event' = [event EXCEPT ![interview[i].event] = e]
        /\ interview[i].status = "SCHEDULED"
        /\ UNCHANGED <<published, archived, appealOpen, interview, lost, cancelled>>
    BY <1>1 DEF CallReschedule, LarkWrites, Changeable
  <1> HIDE DEF e, what
  <1> QED BY <1>2, <1>3, <1>4, StartRowInv

LEMMA CallCancelInv ==
    ASSUME InterviewInv, NEW c \in Call, NEW i \in Rows, CallCancel(c, i)
    PROVE  InterviewInv'
  <1>1. event[interview[i].event] \in CalendarEvent
    BY InterviewRows DEF InterviewInv, CallsRefer
  <1> DEFINE e == [event[interview[i].event] EXCEPT !.live = FALSE]
  <1>2. e \in CalendarEvent /\ ~e.live /\ e.slot = event[interview[i].event].slot
    BY <1>1 DEF CalendarEvent
  <1> DEFINE what == [kind |-> "cancel", row |-> i]
  <1>3. what \in RowCall /\ what.row = i /\ what.kind = "cancel"
    BY RowsBounded DEF RowCall
  <1>4. /\ StartCall(c, i, what) /\ event[interview[i].event].live
        /\ event' = [event EXCEPT ![interview[i].event] = e]
        /\ interview[i].status = "SCHEDULED"
        /\ UNCHANGED <<published, archived, appealOpen, interview, lost, cancelled>>
    BY <1>2, <1>3 DEF CallCancel, LarkWrites, Changeable
  <1> HIDE DEF e, what
  <1> QED BY <1>2, <1>3, <1>4, StartRowInv

LEMMA BeginCompleteInv ==
    ASSUME InterviewInv, NEW c \in Call, NEW i \in Rows, BeginComplete(c, i)
    PROVE  InterviewInv'
  <1>1. PICK e \in CalendarEvent : e = event[interview[i].event]
    BY InterviewRows DEF InterviewInv, CallsRefer
  <1>2. event' = [event EXCEPT ![interview[i].event] = e]
    <2>1. event' = event /\ event \in [Events -> CalendarEvent]
      BY InterviewRows DEF BeginComplete, InterviewInv
    <2> QED BY <1>1, <2>1
  <1> DEFINE what == [kind |-> "complete", row |-> i]
  <1>3. what \in RowCall /\ what.row = i /\ what.kind = "complete"
    BY RowsBounded DEF RowCall
  <1>4. /\ StartCall(c, i, what) /\ interview[i].status = "SCHEDULED"
        /\ UNCHANGED <<published, archived, appealOpen, interview, lost, cancelled>>
    BY <1>3 DEF BeginComplete, Changeable
  <1> HIDE DEF what
  <1> QED BY <1>1, <1>2, <1>3, <1>4, StartRowInv

\* What a request leaves undone when it ends is recorded as lost.
LEMMA CallLostInv ==
    ASSUME InterviewInv, NEW c \in Call, CallLost(c)
    PROVE  InterviewInv'
  <1> DEFINE gone == IF call[c] \in ScheduleCall THEN {call[c].event}
                       ELSE IF call[c].kind \in {"reschedule", "cancel"}
                              THEN {interview[call[c].row].event} ELSE {}
  <1>1. /\ call[c] # NoCall /\ lost' = lost \cup gone /\ EndCall(c)
        /\ UNCHANGED <<published, archived, appealOpen, interview, event, crossed, cancelled>>
    BY DEF CallLost
  <1>2. InterviewTypeOK /\ Rows' = Rows /\ Events' = Events
    BY <1>1 DEF InterviewInv, Rows, Events
  <1>3. gone \subseteq Events
    <2>1. call[c] \in CallState
      BY <1>2 DEF InterviewTypeOK
    <2>2. call[c] \notin ScheduleCall => call[c] \in RescheduleCall \cup RowCall
      BY <1>1, <2>1 DEF CallState
    <2> QED BY <2>2 DEF InterviewInv, CallsRefer
  <1>4. \A i \in Rows : c \in CallsOn(i) /\ interview[i].event \notin gone
            => call[c].kind = "complete"
    BY CallKinds DEF CallsOn
  <1> HIDE DEF gone
  <1>5. InterviewTypeOK'
    BY <1>1, <1>2, <1>3, EndedCall DEF InterviewTypeOK
  <1>6. CallsRefer' /\ EventsApart' /\ ScheduledIsLive' /\ CancelStarted'
    BY <1>1, CalendarStays
  <1>7. CancelledIsGone'
    BY <1>1, <1>2 DEF InterviewInv, CancelledIsGone
  <1>8. OneRequestAhead'
    <2> SUFFICES ASSUME NEW i \in Rows, i \notin crossed, interview[i].event \notin lost \cup gone
                 PROVE  Ahead(i)'
      BY <1>1, <1>2 DEF OneRequestAhead
    <2>1. Ahead(i)
      BY DEF InterviewInv, OneRequestAhead
    <2>2. /\ CallsOn(i)' = CallsOn(i) \ {c}
          /\ \A d \in CallsOn(i) \ {c} : call'[d] = call[d]
      BY <1>1, EndedCall DEF CallsOn
    <2>3. interview' = interview /\ event' = event
      BY <1>1
    <2>4. c \in CallsOn(i) => call[c].kind = "complete"
      BY <1>4
    <2> QED BY <2>1, <2>2, <2>3, <2>4 DEF Ahead, On
  <1> QED BY <1>5, <1>6, <1>7, <1>8 DEF InterviewInv

\* Steps that touch neither rows nor calendar nor requests.
LEMMA InterviewStands ==
    ASSUME InterviewInv, UNCHANGED <<interview, event, call, lost, crossed, cancelled>>,
           {published', archived', appealOpen'} \subseteq BOOLEAN
    PROVE  InterviewInv'
  <1>1. Rows' = Rows /\ Events' = Events /\ \A i \in Rows : CallsOn(i)' = CallsOn(i)
    BY DEF Rows, Events, CallsOn
  <1>2. InterviewTypeOK'
    BY <1>1 DEF InterviewInv, InterviewTypeOK
  <1>3. CallsRefer' /\ EventsApart' /\ ScheduledIsLive' /\ CancelStarted' /\ CancelledIsGone'
    BY <1>1 DEF InterviewInv, CallsRefer, EventsApart, ScheduledIsLive, CancelStarted,
       CancelledIsGone
  <1>4. OneRequestAhead'
    BY <1>1, AheadStays DEF InterviewInv, OneRequestAhead
  <1> QED BY <1>2, <1>3, <1>4 DEF InterviewInv

LEMMA InterviewStepInv == InterviewInv /\ [InterviewNext]_interviewVars => InterviewInv'
  <1> SUFFICES ASSUME InterviewInv, [InterviewNext]_interviewVars
               PROVE  InterviewInv'
    OBVIOUS
  <1>1. CASE UNCHANGED interviewVars
    BY <1>1, InterviewStands DEF interviewVars, InterviewInv, InterviewTypeOK
  <1>2. ASSUME NEW c \in Call, \/ CallSchedule(c) \/ CommitSchedule(c) \/ CallLost(c)
                             \/ CommitReschedule(c) \/ CommitCancel(c) \/ CommitComplete(c)
        PROVE  InterviewInv'
    BY <1>2, CallScheduleInv, CommitScheduleInv, CallLostInv, CommitRowInv
  <1>3. ASSUME NEW c \in Call, NEW i \in Rows,
               CallReschedule(c, i) \/ CallCancel(c, i) \/ BeginComplete(c, i)
        PROVE  InterviewInv'
    BY <1>3, CallRescheduleInv, CallCancelInv, BeginCompleteInv
  <1>4. CASE PublishOrRetract \/ AppealChanges \/ ArchiveCycle
    BY <1>4, InterviewStands
       DEF PublishOrRetract, AppealChanges, ArchiveCycle, InterviewInv, InterviewTypeOK
  <1> QED BY <1>1, <1>2, <1>3, <1>4 DEF InterviewNext

\* Whatever overlaps, ends early or is archived, the calendar is one request ahead of
\* every row nobody fought over.
THEOREM InterviewInvariant == InterviewSpec => []InterviewInv
  <1>1. InterviewInit => InterviewInv
    BY InterviewInitInv
  <1>2. InterviewInv /\ [InterviewNext]_interviewVars => InterviewInv'
    BY InterviewStepInv
  <1> QED BY <1>1, <1>2, PTL DEF InterviewSpec

\* Rows, events and requests keep their types.
THEOREM InterviewTypes == InterviewSpec => []InterviewTypeOK
  <1>1. InterviewInv => InterviewTypeOK
    BY DEF InterviewInv
  <1> QED BY <1>1, InterviewInvariant, PTL

\* An interview nobody is changing agrees with the calendar, unless a request on it
\* was lost between Lark and the database or two rivals overlapped.
THEOREM CalendarAgreed == InterviewSpec => []CalendarAgrees
  <1>1. InterviewInv => CalendarAgrees
    BY DEF InterviewInv, OneRequestAhead, Ahead, On, CalendarAgrees
  <1> QED BY <1>1, InterviewInvariant, PTL

\* A cancelled interview has no event left and its attendees have been told.
THEOREM CancelledGone == InterviewSpec => []CancelledIsGone
  <1>1. InterviewInv => CancelledIsGone
    BY DEF InterviewInv
  <1> QED BY <1>1, InterviewInvariant, PTL

-----------------------------------------------------------------------------
(* Templates: what the numbers, the bindings and the requests rest on.      *)

\* A bounded set of numbers that is not empty has a greatest one.
LEMMA MaxOfBounded ==
    ASSUME NEW S, S # {}, NEW b \in Nat, S \subseteq 0 .. b
    PROVE  Max(S) \in S /\ \A x \in S : Max(S) >= x
  <1> DEFINE T == {n \in Nat : \A x \in S : x <= n}
  <1>1. T \subseteq Nat /\ b \in T
    OBVIOUS
  <1>2. IsWellFoundedOn(OpToRel(<, Nat), Nat)
    BY NatLessThanWellFounded
  <1>3. PICK m \in T : \A n \in T : ~(<<n, m>> \in OpToRel(<, Nat))
    BY <1>1, <1>2, WFMin
  <1>4. m \in Nat /\ (\A x \in S : x <= m) /\ \A n \in T : ~(n < m)
    BY <1>1, <1>3 DEF OpToRel
  <1>5. m \in S
    <2> SUFFICES ASSUME m \notin S
                 PROVE  FALSE
      OBVIOUS
    <2>1. \A x \in S : x \in Nat /\ x < m
      BY <1>4
    <2>4. PICK y \in S : y \in Nat /\ y < m
      BY <2>1
    <2>5. m - 1 \in Nat
      BY <1>4, <2>4
    <2>6. \A x \in Nat : x < m => x <= m - 1
      BY <1>4
    <2>2. m - 1 \in Nat /\ \A x \in S : x <= m - 1
      BY <2>1, <2>5, <2>6
    <2>3. m - 1 \in T
      BY <2>2
    <2> QED BY <1>4, <2>3
  <1>6. \A x \in S : m >= x
    BY <1>4
  <1> HIDE DEF T
  <1> QED BY <1>5, <1>6 DEF Max

\* Templates and numbers are given out one by one, so there are no more than versions.
NumbersBounded ==
    /\ \A f \in Forms : form[f].template <= Len(form) /\ form[f].number <= Len(form)
    /\ \A c \in Configs : config[c].number <= Len(config)

\* A template has every number up to those it has.
NumbersGapless ==
    \A f \in Forms : \A n \in 1 .. form[f].number :
        \E g \in Forms : form[g].template = form[f].template /\ form[g].number = n

\* Requests and configurations refer to forms that are there, and a number follows that of
\* a version of its template.
EditsRefer ==
    /\ \A e \in Editor : edit[e] \in ContentEdit \cup NumberedCopy => edit[e].id \in Forms
    /\ \A e \in Editor : edit[e] \in NumberedCopy =>
          \E g \in Forms : /\ form[g].template = form[edit[e].id].template
                           /\ edit[e].number = form[g].number + 1
    /\ \A c \in Configs : config[c].bound \subseteq Forms

\* What left the draft was validated.
PublishedIsValid == \A f \in Forms : form[f].status # "DRAFT" => form[f].content \in Publishable

TemplatesInv ==
    /\ TemplatesTypeOK /\ NumbersBounded /\ NumbersGapless /\ EditsRefer /\ PublishedIsValid
    /\ NumbersInOrder /\ ConfigsAreWhole

\* What no step does to a version.
VersionsFrozen ==
    /\ Forms \subseteq Forms' /\ Configs \subseteq Configs'
    /\ \A f \in Forms : form[f].status # "DRAFT" =>
          /\ [form'[f] EXCEPT !.status = form[f].status] = form[f]
          /\ form'[f].status \in {form[f].status, "ARCHIVED"}
    /\ \A c \in Configs : config[c].status # "DRAFT" =>
          /\ [config'[c] EXCEPT !.status = config[c].status] = config[c]
          /\ config'[c].status \in {config[c].status, "ARCHIVED"}
    /\ \A c \in Configs' : \A f \in config'[c].bound :
          (c \in Configs => f \notin config[c].bound) => form[f].status = "PUBLISHED"

\* The sequences as functions.
LEMMA TemplateRows ==
    ASSUME TemplatesTypeOK
    PROVE  /\ form \in [Forms -> FormVersion] /\ Forms = 1 .. Len(form) /\ Len(form) \in Nat
           /\ config \in [Configs -> ConfigVersion] /\ Configs = 1 .. Len(config)
           /\ Len(config) \in Nat
           /\ Forms \subseteq FormId /\ Configs \subseteq ConfigId
  <1>1. /\ form \in Seq(FormVersion) /\ Len(form) <= MaxForms
        /\ config \in Seq(ConfigVersion) /\ Len(config) <= MaxConfigs
    BY DEF TemplatesTypeOK
  <1>2. /\ form \in [Forms -> FormVersion] /\ Forms = 1 .. Len(form) /\ Len(form) \in Nat
        /\ config \in [Configs -> ConfigVersion] /\ Configs = 1 .. Len(config)
        /\ Len(config) \in Nat
    BY <1>1, LenProperties DEF Forms, Configs
  <1>3. Forms \subseteq FormId /\ Configs \subseteq ConfigId
    BY <1>1, <1>2, TemplatesAssumption DEF FormId, ConfigId
  <1> QED BY <1>2, <1>3

LEMMA EditKinds ==
    /\ NoEdit \notin ContentEdit /\ NoEdit \notin NumberedCopy
    /\ \A x \in ContentEdit : /\ x.kind = "edit" /\ x.id \in FormId
                              /\ x.prefix \in Prefix /\ x.content \in Content
    /\ \A x \in NumberedCopy : x.kind = "insert" /\ x.id \in FormId /\ x.number \in Nat
  BY DEF NoEdit, ContentEdit, NumberedCopy

LEMMA TemplatesInitInv == TemplatesInit => TemplatesInv
  <1> SUFFICES ASSUME TemplatesInit
               PROVE  TemplatesInv
    OBVIOUS
  <1> DEFINE d == [template |-> 1, prefix |-> "D", number |-> 1, status |-> "PUBLISHED",
                   content |-> Seeded]
             m == [template |-> 2, prefix |-> "M", number |-> 1, status |-> "PUBLISHED",
                   content |-> Seeded]
             k == [number |-> 1, status |-> "DRAFT", bound |-> {}]
  <1>1. form = <<d, m>> /\ config = <<k>> /\ edit = [e \in Editor |-> NoEdit]
    BY DEF TemplatesInit
  <1>2. d \in FormVersion /\ m \in FormVersion /\ k \in ConfigVersion
    <2>1. 1 \in FormId /\ 2 \in FormId /\ 1 \in ConfigId
      BY TemplatesAssumption DEF ConfigId, FormId
    <2> QED BY <2>1, TemplatesAssumption DEF FormVersion, ConfigVersion, Prefix, VersionStatus
  <1>3. /\ d.prefix = "D" /\ m.prefix = "M" /\ d.number = 1 /\ m.number = 1
        /\ d.template = 1 /\ m.template = 2
        /\ d.content \in Publishable /\ m.content \in Publishable
        /\ k.status = "DRAFT" /\ k.number = 1 /\ k.bound = {}
    BY TemplatesAssumption
  <1> HIDE DEF d, m, k
  <1>4. Forms = 1 .. 2 /\ Configs = 1 .. 1 /\ Len(form) = 2 /\ Len(config) = 1
        /\ form[1] = d /\ form[2] = m /\ config[1] = k
    BY <1>1 DEF Forms, Configs
  <1>5. \A f \in Forms : f = 1 \/ f = 2
    BY <1>4
  <1>6. \A c \in Configs : c = 1
    BY <1>4
  <1>7. TemplatesTypeOK
    <2>1. form \in Seq(FormVersion) /\ config \in Seq(ConfigVersion)
      BY <1>1, <1>2
    <2>2. Len(form) <= MaxForms /\ Len(config) <= MaxConfigs
      BY <1>4, TemplatesAssumption
    <2> QED BY <1>1, <2>1, <2>2 DEF TemplatesTypeOK, EditState
  <1>8. NumbersBounded
    BY <1>3, <1>4, <1>5, <1>6 DEF NumbersBounded
  <1>9. EditsRefer /\ PublishedIsValid
    BY <1>1, <1>3, <1>4, <1>5, <1>6, EditKinds DEF EditsRefer, PublishedIsValid
  <1>10. NumbersInOrder /\ ConfigsAreWhole
    BY <1>3, <1>4, <1>5, <1>6 DEF NumbersInOrder, ConfigsAreWhole
  <1>11. NumbersGapless
    BY <1>3, <1>4, <1>5 DEF NumbersGapless
  <1> QED BY <1>7, <1>8, <1>9, <1>10, <1>11 DEF TemplatesInv

\* A version keeps its place, its template and its number, and is frozen once it left the
\* draft.
LEMMA FormRowInv ==
    ASSUME TemplatesInv, NEW f \in Forms, NEW row \in FormVersion,
           form' = [form EXCEPT ![f] = row], config' = config,
           row.template = form[f].template, row.number = form[f].number,
           row.status # "DRAFT" => row.content \in Publishable,
           form[f].status # "DRAFT" =>
               /\ row.prefix = form[f].prefix /\ row.content = form[f].content
               /\ row.status \in {form[f].status, "ARCHIVED"},
           edit' \in [Editor -> EditState],
           \A e \in Editor : edit'[e] = edit[e] \/ edit'[e] = NoEdit
    PROVE  TemplatesInv' /\ VersionsFrozen
  <1>1. /\ TemplatesTypeOK /\ form \in Seq(FormVersion) /\ form \in [Forms -> FormVersion]
        /\ Configs' = Configs
    BY TemplateRows DEF TemplatesInv, TemplatesTypeOK, Configs
  <1>2. /\ form' \in Seq(FormVersion) /\ Len(form') = Len(form) /\ Forms' = Forms
        /\ form'[f] = row /\ \A g \in Forms : g # f => form'[g] = form[g]
    BY <1>1, SeqReplaced DEF Forms
  <1>3. \A g \in Forms :
            /\ form'[g].template = form[g].template /\ form'[g].number = form[g].number
            /\ form[g].status # "DRAFT" =>
                  /\ form'[g].prefix = form[g].prefix /\ form'[g].content = form[g].content
                  /\ form'[g].status \in {form[g].status, "ARCHIVED"}
            /\ form'[g].status # "DRAFT" => form'[g].content \in Publishable
    BY <1>2 DEF TemplatesInv, PublishedIsValid
  <1>4. TemplatesTypeOK'
    BY <1>1, <1>2 DEF TemplatesTypeOK
  <1>5. NumbersBounded' /\ NumbersGapless'
    BY <1>1, <1>2, <1>3 DEF TemplatesInv, NumbersBounded, NumbersGapless
  <1>6. EditsRefer'
    <2>1. \A e \in Editor : edit'[e] \in ContentEdit \cup NumberedCopy =>
              edit'[e] = edit[e] /\ edit[e].id \in Forms
      BY EditKinds DEF TemplatesInv, EditsRefer
    <2>2. \A e \in Editor : edit'[e] \in NumberedCopy =>
              \E g \in Forms : /\ form'[g].template = form'[edit'[e].id].template
                               /\ edit'[e].number = form'[g].number + 1
      <3> SUFFICES ASSUME NEW e \in Editor, edit'[e] \in NumberedCopy
                   PROVE  \E g \in Forms : /\ form'[g].template = form'[edit'[e].id].template
                                           /\ edit'[e].number = form'[g].number + 1
        OBVIOUS
      <3>1. edit'[e] = edit[e] /\ edit[e].id \in Forms
        BY <2>1
      <3>2. PICK g \in Forms : /\ form[g].template = form[edit[e].id].template
                               /\ edit[e].number = form[g].number + 1
        BY <3>1 DEF TemplatesInv, EditsRefer
      <3> QED BY <1>3, <3>1, <3>2
    <2>3. \A c \in Configs' : config'[c].bound \subseteq Forms'
      BY <1>1, <1>2 DEF TemplatesInv, EditsRefer
    <2> QED BY <1>2, <2>1, <2>2, <2>3 DEF EditsRefer
  <1>7. PublishedIsValid' /\ NumbersInOrder'
    BY <1>1, <1>2, <1>3 DEF TemplatesInv, PublishedIsValid, NumbersInOrder
  <1>8. ConfigsAreWhole'
    <2> SUFFICES ASSUME NEW c \in Configs, config[c].status # "DRAFT"
                 PROVE  /\ {form'[g].prefix : g \in config[c].bound} = Prefix
                        /\ Cardinality(config[c].bound) = 2
                        /\ \A g \in config[c].bound :
                            form'[g].status # "DRAFT" /\ form'[g].content \in Publishable
      BY <1>1 DEF ConfigsAreWhole
    <2>1. /\ {form[g].prefix : g \in config[c].bound} = Prefix
          /\ Cardinality(config[c].bound) = 2
          /\ \A g \in config[c].bound :
                g \in Forms /\ form[g].status # "DRAFT" /\ form[g].content \in Publishable
      BY DEF TemplatesInv, ConfigsAreWhole, EditsRefer
    <2>2. {form'[g].prefix : g \in config[c].bound} = {form[g].prefix : g \in config[c].bound}
      BY <1>3, <2>1
    <2>3. \A g \in config[c].bound :
              form'[g].status # "DRAFT" /\ form'[g].content \in Publishable
      BY <1>3, <2>1
    <2> QED BY <2>1, <2>2, <2>3
  <1>9. VersionsFrozen
    <2>1. \A g \in Forms : form[g].status # "DRAFT" =>
              [form'[g] EXCEPT !.status = form[g].status] = form[g]
      <3> SUFFICES ASSUME NEW g \in Forms, form[g].status # "DRAFT"
                   PROVE  [form'[g] EXCEPT !.status = form[g].status] = form[g]
        OBVIOUS
      <3>1. form[g] \in FormVersion /\ form'[g] \in FormVersion
        BY <1>1, <1>2
      <3> QED BY <1>3, <3>1 DEF FormVersion
    <2>2. \A c \in Configs : config[c].status # "DRAFT" =>
              /\ [config'[c] EXCEPT !.status = config[c].status] = config[c]
              /\ config'[c].status \in {config[c].status, "ARCHIVED"}
      <3>1. \A c \in Configs : config[c] \in ConfigVersion
        BY <1>1, TemplateRows
      <3> QED BY <3>1 DEF ConfigVersion
    <2> QED BY <1>1, <1>2, <1>3, <2>1, <2>2 DEF VersionsFrozen
  <1> QED BY <1>4, <1>5, <1>6, <1>7, <1>8, <1>9 DEF TemplatesInv

\* A configuration keeps its place and its number, is whole when it leaves the draft,
\* and frozen afterwards.
LEMMA ConfigRowInv ==
    ASSUME TemplatesInv, NEW c \in Configs, NEW row \in ConfigVersion,
           config' = [config EXCEPT ![c] = row], form' = form, edit' = edit,
           row.number = config[c].number, row.bound \subseteq Forms,
           config[c].status # "DRAFT" =>
               row.bound = config[c].bound /\ row.status \in {config[c].status, "ARCHIVED"},
           row.status # "DRAFT" =>
               /\ {form[f].prefix : f \in row.bound} = Prefix
               /\ Cardinality(row.bound) = 2
               /\ \A f \in row.bound : form[f].status # "DRAFT",
           \A f \in row.bound : f \notin config[c].bound => form[f].status = "PUBLISHED"
    PROVE  TemplatesInv' /\ VersionsFrozen
  <1>1. /\ TemplatesTypeOK /\ config \in Seq(ConfigVersion) /\ config \in [Configs -> ConfigVersion]
        /\ Forms' = Forms
    BY TemplateRows DEF TemplatesInv, TemplatesTypeOK, Forms
  <1>2. /\ config' \in Seq(ConfigVersion) /\ Len(config') = Len(config) /\ Configs' = Configs
        /\ config'[c] = row /\ \A d \in Configs : d # c => config'[d] = config[d]
    BY <1>1, SeqReplaced DEF Configs
  <1>3. TemplatesTypeOK'
    BY <1>1, <1>2 DEF TemplatesTypeOK
  <1>4. NumbersBounded' /\ NumbersInOrder' /\ NumbersGapless'
    <2>1. \A d \in Configs : config'[d].number = config[d].number
      BY <1>2
    <2> QED BY <1>1, <1>2, <2>1 DEF TemplatesInv, NumbersBounded, NumbersInOrder, NumbersGapless
  <1>5. EditsRefer' /\ PublishedIsValid'
    BY <1>1, <1>2 DEF TemplatesInv, EditsRefer, PublishedIsValid
  <1>6. ConfigsAreWhole'
    <2>1. \A f \in Forms : form[f].status # "DRAFT" => form[f].content \in Publishable
      BY DEF TemplatesInv, PublishedIsValid
    <2> QED BY <1>2, <2>1 DEF TemplatesInv, ConfigsAreWhole
  <1>7. VersionsFrozen
    <2>1. \A d \in Configs : config[d].status # "DRAFT" =>
              /\ [config'[d] EXCEPT !.status = config[d].status] = config[d]
              /\ config'[d].status \in {config[d].status, "ARCHIVED"}
      <3> SUFFICES ASSUME NEW d \in Configs, config[d].status # "DRAFT"
                   PROVE  /\ [config'[d] EXCEPT !.status = config[d].status] = config[d]
                          /\ config'[d].status \in {config[d].status, "ARCHIVED"}
        OBVIOUS
      <3>1. config[d] \in ConfigVersion /\ config'[d] \in ConfigVersion
        BY <1>1, <1>2
      <3>2. /\ config'[d].number = config[d].number /\ config'[d].bound = config[d].bound
            /\ config'[d].status \in {config[d].status, "ARCHIVED"}
        BY <1>2
      <3> QED BY <3>1, <3>2 DEF ConfigVersion
    <2>2. \A f \in Forms : form[f].status # "DRAFT" =>
              /\ [form'[f] EXCEPT !.status = form[f].status] = form[f]
              /\ form'[f].status \in {form[f].status, "ARCHIVED"}
      <3>1. \A f \in Forms : form[f] \in FormVersion
        BY <1>1, TemplateRows
      <3> QED BY <3>1 DEF FormVersion
    <2>3. \A d \in Configs' : \A f \in config'[d].bound :
              (d \in Configs => f \notin config[d].bound) => form[f].status = "PUBLISHED"
      BY <1>2
    <2> QED BY <1>1, <1>2, <2>1, <2>2, <2>3 DEF VersionsFrozen
  <1> QED BY <1>3, <1>4, <1>5, <1>6, <1>7 DEF TemplatesInv

\* A request starts, ends, or finds its write refused.
LEMMA EditChangesInv ==
    ASSUME TemplatesInv, form' = form, config' = config, edit' \in [Editor -> EditState],
           \A e \in Editor :
               \/ edit'[e] = edit[e] \/ edit'[e] = NoEdit
               \/ /\ edit'[e].id \in Forms
                  /\ edit'[e] \in NumberedCopy =>
                        \E g \in Forms : /\ form[g].template = form[edit'[e].id].template
                                         /\ edit'[e].number = form[g].number + 1
    PROVE  TemplatesInv' /\ VersionsFrozen
  <1>1. Forms' = Forms /\ Configs' = Configs
    BY DEF Forms, Configs
  <1>2. /\ form \in [Forms -> FormVersion] /\ config \in [Configs -> ConfigVersion]
        /\ TemplatesTypeOK
    BY TemplateRows DEF TemplatesInv
  <1>3. TemplatesTypeOK'
    BY <1>2 DEF TemplatesTypeOK
  <1>4. EditsRefer'
    BY <1>1, EditKinds DEF TemplatesInv, EditsRefer
  <1>5. /\ NumbersBounded' /\ NumbersGapless' /\ PublishedIsValid' /\ NumbersInOrder'
        /\ ConfigsAreWhole'
    BY <1>1 DEF TemplatesInv, NumbersBounded, NumbersGapless, PublishedIsValid,
       NumbersInOrder, ConfigsAreWhole
  <1>6. VersionsFrozen
    <2>1. \A f \in Forms : [form'[f] EXCEPT !.status = form[f].status] = form[f]
      BY <1>2 DEF FormVersion
    <2>2. \A c \in Configs : [config'[c] EXCEPT !.status = config[c].status] = config[c]
      BY <1>2 DEF ConfigVersion
    <2> QED BY <1>1, <2>1, <2>2 DEF VersionsFrozen
  <1> QED BY <1>3, <1>4, <1>5, <1>6 DEF TemplatesInv

\* The next number of a template follows that of one of its versions.
LEMMA NextNumberNext ==
    ASSUME TemplatesInv, NEW f \in Forms
    PROVE  /\ NextNumber(form[f].template) \in Nat
           /\ \E g \in Forms : /\ form[g].template = form[f].template
                               /\ NextNumber(form[f].template) = form[g].number + 1
  <1> DEFINE S == NumbersOf(form[f].template)
             b == Len(form)
  <1>1. form \in [Forms -> FormVersion] /\ b \in Nat
    BY TemplateRows DEF TemplatesInv
  <1>2. form[f].number \in S
    BY DEF NumbersOf, VersionsOf
  <1>3. S \subseteq 0 .. b
    <2>1. \A g \in Forms : form[g].number \in 0 .. b
      BY <1>1, TemplatesAssumption DEF TemplatesInv, NumbersBounded, FormVersion, FormId
    <2> QED BY <2>1 DEF NumbersOf, VersionsOf
  <1>4. Max(S) \in S
    <2> HIDE DEF S, b
    <2> QED BY <1>1, <1>2, <1>3, MaxOfBounded
  <1>5. PICK g \in Forms : form[g].template = form[f].template /\ Max(S) = form[g].number
    BY <1>4 DEF NumbersOf, VersionsOf
  <1>6. form[g].number \in Nat
    BY <1>1, TemplatesAssumption DEF FormVersion, FormId
  <1> QED BY <1>5, <1>6 DEF NextNumber

LEMMA BeginsInv ==
    ASSUME TemplatesInv, NEW e \in Editor, NEW f \in Forms,
           BeginFormEdit(e, f) \/ NumberFormCopy(e, f)
    PROVE  TemplatesInv' /\ VersionsFrozen
  <1>1. PICK what \in ContentEdit \cup NumberedCopy :
            /\ edit' = [edit EXCEPT ![e] = what] /\ what.id = f
            /\ what \in NumberedCopy =>
                  \E g \in Forms : /\ form[g].template = form[f].template
                                   /\ what.number = form[g].number + 1
    <2>1. f \in FormId
      BY TemplateRows DEF TemplatesInv
    <2>2. CASE BeginFormEdit(e, f)
      <3>1. PICK p \in Prefix, x \in Content :
                edit' = [edit EXCEPT ![e] = [kind |-> "edit", id |-> f, prefix |-> p, content |-> x]]
        BY <2>2 DEF BeginFormEdit, BeginEdit
      <3> DEFINE w == [kind |-> "edit", id |-> f, prefix |-> p, content |-> x]
      <3>2. w \in ContentEdit /\ w.id = f
        BY <2>1 DEF ContentEdit
      <3>3. w \notin NumberedCopy
        BY DEF NumberedCopy
      <3>4. edit' = [edit EXCEPT ![e] = w]
        BY <3>1
      <3> HIDE DEF w
      <3> QED BY <3>2, <3>3, <3>4
    <2>3. CASE NumberFormCopy(e, f)
      <3> DEFINE n == NextNumber(form[f].template)
      <3>1. edit' = [edit EXCEPT ![e] = [kind |-> "insert", id |-> f, number |-> n]]
        BY <2>3 DEF NumberFormCopy, BeginEdit
      <3>2. /\ n \in Nat
            /\ \E g \in Forms : form[g].template = form[f].template /\ n = form[g].number + 1
        BY NextNumberNext
      <3> HIDE DEF n
      <3> DEFINE w == [kind |-> "insert", id |-> f, number |-> n]
      <3>3. w \in NumberedCopy /\ w.id = f /\ w.number = n
        BY <2>1, <3>2 DEF NumberedCopy
      <3>4. edit' = [edit EXCEPT ![e] = w]
        BY <3>1
      <3> HIDE DEF w
      <3> QED BY <3>2, <3>3, <3>4
    <2> QED BY <2>2, <2>3
  <1>2. edit \in [Editor -> EditState] /\ form' = form /\ config' = config
    BY DEF BeginFormEdit, NumberFormCopy, TemplatesInv, TemplatesTypeOK
  <1>3. edit' \in [Editor -> EditState]
    BY <1>1, <1>2 DEF EditState
  <1>4. \A d \in Editor : edit'[d] = edit[d] \/ edit'[d] = what
    BY <1>1, <1>2
  <1> QED BY <1>1, <1>2, <1>3, <1>4, EditChangesInv

\* What a request that ends leaves behind.
LEMMA EndedEdit ==
    ASSUME TemplatesInv, NEW e \in Editor, EndEdit(e)
    PROVE  /\ edit' \in [Editor -> EditState]
           /\ \A d \in Editor : edit'[d] = edit[d] \/ edit'[d] = NoEdit
  BY DEF TemplatesInv, TemplatesTypeOK, EndEdit, EditState

LEMMA CommitFormEditInv ==
    ASSUME TemplatesInv, NEW e \in Editor, CommitFormEdit(e)
    PROVE  TemplatesInv' /\ VersionsFrozen
  <1> DEFINE f == edit[e].id
             row == Rewritten(edit[e])
  <1>1. /\ edit[e] \in ContentEdit /\ EndEdit(e) /\ config' = config
        /\ \/ form[f].status = "DRAFT" /\ form' = [form EXCEPT ![f] = row]
           \/ form' = form
    BY DEF CommitFormEdit, DraftByTrigger
  <1>2. /\ f \in Forms /\ form[f] \in FormVersion /\ edit[e].prefix \in Prefix
        /\ edit[e].content \in Content
    BY <1>1, TemplateRows, EditKinds DEF TemplatesInv, EditsRefer
  <1>3. CASE form' = form
    BY <1>1, <1>3, EndedEdit, EditChangesInv
  <1>4. CASE form[f].status = "DRAFT" /\ form' = [form EXCEPT ![f] = row]
    <2>1. /\ row \in FormVersion /\ row.template = form[f].template
          /\ row.number = form[f].number /\ row.status = "DRAFT"
      BY <1>2, <1>4 DEF FormVersion, Rewritten
    <2> HIDE DEF f, row
    <2> QED BY <1>1, <1>2, <1>4, <2>1, EndedEdit, FormRowInv
  <1> QED BY <1>1, <1>3, <1>4

LEMMA FormStatusInv ==
    ASSUME TemplatesInv, NEW f \in Forms, PublishForm(f) \/ ArchiveForm(f)
    PROVE  TemplatesInv' /\ VersionsFrozen
  <1>1. PICK s \in {"PUBLISHED", "ARCHIVED"} :
            /\ form' = [form EXCEPT ![f].status = s]
            /\ form[f].status = "DRAFT" \/ s = "ARCHIVED"
            /\ form[f].status # "DRAFT" \/ form[f].content \in Publishable
    BY DEF PublishForm, ArchiveForm, Valid
  <1>2. config' = config /\ edit' = edit /\ edit \in [Editor -> EditState]
    BY DEF PublishForm, ArchiveForm, TemplatesInv, TemplatesTypeOK
  <1>3. form[f] \in FormVersion /\ form[f].content \in Publishable
    BY <1>1, TemplateRows DEF TemplatesInv, PublishedIsValid
  <1> DEFINE row == [form[f] EXCEPT !.status = s]
  <1>4. /\ row \in FormVersion /\ row.template = form[f].template
        /\ row.number = form[f].number /\ row.prefix = form[f].prefix
        /\ row.content = form[f].content /\ row.status = s
    BY <1>3 DEF FormVersion, VersionStatus
  <1>5. form' = [form EXCEPT ![f] = row]
    BY <1>1
  <1> HIDE DEF row
  <1> QED BY <1>1, <1>2, <1>3, <1>4, <1>5, FormRowInv

\* Ids and numbers of versions are natural and bounded.
LEMMA FormNumbers ==
    ASSUME TemplatesInv, NEW f \in Forms
    PROVE  /\ form[f].template \in Nat /\ form[f].number \in Nat
           /\ 1 <= form[f].number
           /\ form[f].template <= Len(form) /\ form[f].number <= Len(form)
  <1>1. form[f] \in FormVersion
    BY TemplateRows DEF TemplatesInv
  <1>2. form[f].template \in FormId /\ form[f].number \in FormId
    BY <1>1 DEF FormVersion
  <1>3. \A i \in FormId : i \in Nat /\ 1 <= i
    BY TemplatesAssumption DEF FormId
  <1> QED BY <1>2, <1>3 DEF TemplatesInv, NumbersBounded

\* A new version is a draft, with the number after those of its template.
LEMMA FormAppendedInv ==
    ASSUME TemplatesInv, NEW row \in FormVersion, row.status = "DRAFT",
           form' = Append(form, row), Len(form) < MaxForms, config' = config,
           edit' \in [Editor -> EditState],
           \A e \in Editor : edit'[e] = edit[e] \/ edit'[e] = NoEdit,
           row.template <= Len(form) + 1, row.number <= Len(form) + 1,
           \A f \in Forms : form[f].template = row.template => form[f].number < row.number,
           \A n \in Nat : 1 <= n /\ n < row.number =>
               \E g \in Forms : form[g].template = row.template /\ form[g].number = n
    PROVE  TemplatesInv' /\ VersionsFrozen
  <1>1. PICK n \in Nat : n = Len(form)
    BY TemplateRows DEF TemplatesInv
  <1>2. /\ form \in Seq(FormVersion) /\ form \in [Forms -> FormVersion] /\ TemplatesTypeOK
        /\ Forms = 1 .. n /\ Configs' = Configs
    BY <1>1, TemplateRows DEF TemplatesInv, TemplatesTypeOK, Configs
  <1>3. /\ form' \in Seq(FormVersion) /\ Len(form') = n + 1 /\ form'[n + 1] = row
        /\ Forms' = Forms \cup {n + 1} /\ n + 1 \notin Forms
        /\ \A f \in Forms : form'[f] = form[f]
    <2>1. /\ form' \in Seq(FormVersion) /\ Len(form') = n + 1 /\ form'[n + 1] = row
          /\ \A f \in 1 .. n : form'[f] = form[f]
      BY <1>1, <1>2, AppendProperties
    <2>2. Forms' = 1 .. n + 1
      BY <2>1, LenProperties DEF Forms
    <2> QED BY <1>1, <1>2, <2>1, <2>2
  <1>4. TemplatesTypeOK'
    <2>1. Len(form') <= MaxForms
      BY <1>1, <1>3, TemplatesAssumption
    <2> QED BY <1>2, <1>3, <2>1 DEF TemplatesTypeOK
  <1>5. \A f \in Forms : /\ form[f].template \in Nat /\ form[f].number \in Nat
                         /\ form[f].template <= n /\ form[f].number <= n
    BY <1>1, FormNumbers
  <1>6. NumbersBounded'
    <2>1. \A f \in Forms : form'[f].template <= n + 1 /\ form'[f].number <= n + 1
      <3> SUFFICES ASSUME NEW f \in Forms
                   PROVE  form'[f].template <= n + 1 /\ form'[f].number <= n + 1
        OBVIOUS
      <3>1. form'[f] = form[f]
        BY <1>3
      <3> QED BY <1>1, <1>5, <3>1
    <2>2. \A f \in Forms' : form'[f].template <= Len(form') /\ form'[f].number <= Len(form')
      BY <1>1, <1>3, <2>1
    <2>3. \A c \in Configs : config[c].number <= Len(config)
      BY DEF TemplatesInv, NumbersBounded
    <2> QED BY <1>2, <2>2, <2>3 DEF NumbersBounded
  <1>8. NumbersGapless'
    <2> SUFFICES ASSUME NEW f \in Forms', NEW k \in 1 .. form'[f].number
                 PROVE  \E g \in Forms' : /\ form'[g].template = form'[f].template
                                          /\ form'[g].number = k
      BY DEF NumbersGapless
    <2>1. CASE f \in Forms
      <3>1. PICK g \in Forms : form[g].template = form[f].template /\ form[g].number = k
        BY <1>3, <2>1 DEF TemplatesInv, NumbersGapless
      <3> QED BY <1>3, <2>1, <3>1
    <2>2. CASE f = n + 1
      <3>1. form'[f] = row /\ row.number \in Nat
        BY <1>3, <2>2, TemplatesAssumption DEF FormVersion, FormId
      <3>2. CASE k = row.number
        BY <3>1, <3>2
      <3>3. CASE k # row.number
        <4>1. k \in Nat /\ 1 <= k /\ k < row.number
          BY <3>1, <3>3
        <4>2. PICK g \in Forms : form[g].template = row.template /\ form[g].number = k
          BY <4>1
        <4> QED BY <1>3, <3>1, <4>2
      <3> QED BY <3>2, <3>3
    <2> QED BY <1>3, <2>1, <2>2
  <1>9. EditsRefer'
    <2>1. \A d \in Editor : edit'[d] \in ContentEdit \cup NumberedCopy =>
              /\ edit'[d] = edit[d] /\ edit[d].id \in Forms'
      BY <1>3, EditKinds DEF TemplatesInv, EditsRefer
    <2>2. \A d \in Editor : edit'[d] \in NumberedCopy =>
              \E g \in Forms' : /\ form'[g].template = form'[edit'[d].id].template
                                /\ edit'[d].number = form'[g].number + 1
      <3> SUFFICES ASSUME NEW d \in Editor, edit'[d] \in NumberedCopy
                   PROVE  \E g \in Forms' : /\ form'[g].template = form'[edit'[d].id].template
                                            /\ edit'[d].number = form'[g].number + 1
        OBVIOUS
      <3>1. edit'[d] = edit[d] /\ edit[d].id \in Forms
        BY <2>1 DEF TemplatesInv, EditsRefer
      <3>2. PICK g \in Forms : /\ form[g].template = form[edit[d].id].template
                               /\ edit[d].number = form[g].number + 1
        BY <3>1 DEF TemplatesInv, EditsRefer
      <3>3. /\ g \in Forms' /\ form'[g] = form[g] /\ form'[edit[d].id] = form[edit[d].id]
        BY <1>3, <3>1, <3>2
      <3> QED BY <3>1, <3>2, <3>3
    <2>3. \A c \in Configs : config[c].bound \subseteq Forms'
      BY <1>3 DEF TemplatesInv, EditsRefer
    <2> QED BY <1>2, <2>1, <2>2, <2>3 DEF EditsRefer
  <1>10. PublishedIsValid'
    BY <1>3 DEF TemplatesInv, PublishedIsValid
  <1>11. NumbersInOrder'
    <2>1. ASSUME NEW f \in Forms', NEW g \in Forms',
                 form'[f].template = form'[g].template, f < g
          PROVE  form'[f].number < form'[g].number
      <3>1. f \in Forms
        BY <1>2, <1>3, <2>1
      <3>2. CASE g \in Forms
        BY <1>3, <2>1, <3>1, <3>2 DEF TemplatesInv, NumbersInOrder
      <3>3. CASE g = n + 1
        BY <1>3, <2>1, <3>1, <3>3
      <3> QED BY <1>3, <3>2, <3>3
    <2>2. \A c, d \in Configs' : c < d => config'[c].number < config'[d].number
      BY <1>2 DEF TemplatesInv, NumbersInOrder
    <2> QED BY <2>1, <2>2 DEF NumbersInOrder
  <1>12. ConfigsAreWhole'
    <2> SUFFICES ASSUME NEW c \in Configs, config[c].status # "DRAFT"
                 PROVE  /\ {form'[f].prefix : f \in config[c].bound} = Prefix
                        /\ Cardinality(config[c].bound) = 2
                        /\ \A f \in config[c].bound :
                              form'[f].status # "DRAFT" /\ form'[f].content \in Publishable
      BY <1>2 DEF ConfigsAreWhole
    <2>1. \A f \in config[c].bound : form'[f] = form[f]
      BY <1>3 DEF TemplatesInv, EditsRefer
    <2>2. {form'[f].prefix : f \in config[c].bound} = {form[f].prefix : f \in config[c].bound}
      <3> DEFINE new == {form'[f].prefix : f \in config[c].bound}
                 old == {form[f].prefix : f \in config[c].bound}
      <3>1. ASSUME NEW p \in new PROVE p \in old
        <4>1. PICK f \in config[c].bound : p = form'[f].prefix
          OBVIOUS
        <4>2. p = form[f].prefix
          BY <2>1, <4>1
        <4> QED BY <4>2
      <3>2. ASSUME NEW p \in old PROVE p \in new
        <4>1. PICK f \in config[c].bound : p = form[f].prefix
          OBVIOUS
        <4>2. p = form'[f].prefix
          BY <2>1, <4>1
        <4> QED BY <4>2
      <3> HIDE DEF new, old
      <3>3. new = old
        BY <3>1, <3>2
      <3> QED BY <3>3 DEF new, old
    <2>3. /\ {form[f].prefix : f \in config[c].bound} = Prefix
          /\ Cardinality(config[c].bound) = 2
          /\ \A f \in config[c].bound :
                form[f].status # "DRAFT" /\ form[f].content \in Publishable
      BY DEF TemplatesInv, ConfigsAreWhole
    <2> QED BY <2>1, <2>2, <2>3
  <1>13. VersionsFrozen
    <2>1. \A f \in Forms : [form'[f] EXCEPT !.status = form[f].status] = form[f]
      BY <1>2, <1>3 DEF FormVersion
    <2>2. \A c \in Configs : [config'[c] EXCEPT !.status = config[c].status] = config[c]
      <3>1. \A c \in Configs : config[c] \in ConfigVersion
        BY <1>2, TemplateRows
      <3> QED BY <3>1 DEF ConfigVersion
    <2>3. \A f \in Forms : form'[f].status = form[f].status
      BY <1>3
    <2> QED BY <1>2, <1>3, <2>1, <2>2, <2>3 DEF VersionsFrozen
  <1> QED BY <1>4, <1>6, <1>8, <1>9, <1>10, <1>11, <1>12, <1>13 DEF TemplatesInv

\* The template of a new form has no version before it.
LEMMA CreateFormInv ==
    ASSUME TemplatesInv, NEW p \in Prefix, CreateForm(p)
    PROVE  TemplatesInv' /\ VersionsFrozen
  <1>1. PICK n \in Nat : n = Len(form)
    BY TemplateRows DEF TemplatesInv
  <1>2. PICK x \in Content :
            form' = Append(form, [template |-> n + 1, prefix |-> p, number |-> 1,
                                  status |-> "DRAFT", content |-> x])
    BY <1>1 DEF CreateForm
  <1> DEFINE row == [template |-> n + 1, prefix |-> p, number |-> 1, status |-> "DRAFT",
                     content |-> x]
  <1>3. n < MaxForms /\ config' = config /\ edit' = edit /\ edit \in [Editor -> EditState]
    BY <1>1 DEF CreateForm, TemplatesInv, TemplatesTypeOK
  <1>4. /\ row \in FormVersion /\ row.status = "DRAFT" /\ row.template = n + 1
        /\ row.number = 1
    <2>1. n + 1 \in FormId /\ 1 \in FormId
      BY <1>3, TemplatesAssumption DEF FormId
    <2> QED BY <2>1 DEF FormVersion, VersionStatus
  <1>5. form' = Append(form, row)
    BY <1>2
  <1> HIDE DEF row
  <1>6. \A f \in Forms : form[f].template # row.template
    <2>1. \A f \in Forms : form[f].template \in Nat /\ form[f].template <= n
      BY <1>1, FormNumbers
    <2> QED BY <1>1, <1>4, <2>1
  <1>7. \A m \in Nat : ~(1 <= m /\ m < row.number)
    BY <1>4
  <1>8. row.template <= Len(form) + 1 /\ row.number <= Len(form) + 1
    BY <1>1, <1>4
  <1> QED BY <1>1, <1>3, <1>4, <1>5, <1>6, <1>7, <1>8, FormAppendedInv

\* A number that follows that of a version is taken, or greater than all of them.
LEMMA InsertFormCopyInv ==
    ASSUME TemplatesInv, NEW e \in Editor, InsertFormCopy(e)
    PROVE  TemplatesInv' /\ VersionsFrozen
  <1> DEFINE source == form[edit[e].id]
             k == edit[e].number
             row == [source EXCEPT !.status = "DRAFT", !.number = k]
  <1>1. /\ edit[e] \in NumberedCopy /\ EndEdit(e) /\ config' = config /\ Len(form) < MaxForms
        /\ \/ FreeNumber(source.template, k) /\ form' = Append(form, row)
           \/ form' = form
    BY DEF InsertFormCopy
  <1>2. CASE form' = form
    BY <1>1, <1>2, EndedEdit, EditChangesInv
  <1>3. CASE FreeNumber(source.template, k) /\ form' = Append(form, row)
    <2>1. PICK n \in Nat : n = Len(form)
      BY TemplateRows DEF TemplatesInv
    <2>2. PICK g \in Forms : form[g].template = source.template /\ k = form[g].number + 1
      BY <1>1 DEF TemplatesInv, EditsRefer
    <2>3. source \in FormVersion /\ source.template <= n /\ source.template \in Nat
      <3>1. edit[e].id \in Forms
        BY <1>1 DEF TemplatesInv, EditsRefer
      <3> QED BY <2>1, <3>1, FormNumbers, TemplateRows DEF TemplatesInv
    <2>4. \A f \in Forms : form[f].number \in Nat /\ 1 <= form[f].number /\ form[f].number <= n
      BY <2>1, FormNumbers
    <2>5. k \in Nat /\ 1 <= k /\ k <= n + 1 /\ k \in FormId
      BY <1>1, <2>1, <2>2, <2>3, <2>4, TemplatesAssumption DEF FormId
    <2>6. /\ row \in FormVersion /\ row.status = "DRAFT" /\ row.template = source.template
          /\ row.number = k
      BY <2>3, <2>5 DEF FormVersion, VersionStatus
    <2>7. \A f \in Forms : form[f].template = source.template => form[f].number < k
      <3> SUFFICES ASSUME NEW f \in Forms, form[f].template = source.template,
                          form[f].number >= k
                   PROVE  FALSE
        BY <2>4, <2>5
      <3>1. k \in 1 .. form[f].number
        BY <2>4, <2>5
      <3>2. PICK h \in Forms : form[h].template = source.template /\ form[h].number = k
        BY <3>1 DEF TemplatesInv, NumbersGapless
      <3> QED BY <1>3, <3>2 DEF FreeNumber, NumbersOf, VersionsOf
    <2>8. \A m \in Nat : 1 <= m /\ m < k =>
              \E h \in Forms : form[h].template = source.template /\ form[h].number = m
      <3> SUFFICES ASSUME NEW m \in Nat, 1 <= m, m < k
                   PROVE  \E h \in Forms : form[h].template = source.template /\ form[h].number = m
        OBVIOUS
      <3>1. m \in 1 .. form[g].number
        BY <2>2, <2>3, <2>4
      <3> QED BY <2>2, <3>1 DEF TemplatesInv, NumbersGapless
    <2>9. source.template <= n + 1
      BY <2>1, <2>3
    <2> HIDE DEF source, k, row
    <2> QED BY <1>1, <1>3, <2>1, <2>5, <2>6, <2>7, <2>8, <2>9, EndedEdit, FormAppendedInv
  <1> QED BY <1>1, <1>2, <1>3

\* Forms as bound by a draft: at most one of each job level, all of them published.
LEMMA BindFormsInv ==
    ASSUME TemplatesInv, NEW c \in Configs, NEW fs \in SUBSET Forms, BindForms(c, fs)
    PROVE  TemplatesInv' /\ VersionsFrozen
  <1> DEFINE row == [config[c] EXCEPT !.bound = fs]
  <1>1. /\ config[c] \in ConfigVersion /\ config[c].status = "DRAFT" /\ Bindable(fs)
        /\ form' = form /\ edit' = edit /\ fs \subseteq FormId
    BY TemplateRows DEF TemplatesInv, BindForms
  <1>2. /\ row \in ConfigVersion /\ row.number = config[c].number /\ row.bound = fs
        /\ row.status = "DRAFT"
    BY <1>1 DEF ConfigVersion
  <1>3. config' = [config EXCEPT ![c] = row]
    BY DEF BindForms
  <1>4. \A f \in fs : form[f].status = "PUBLISHED"
    BY <1>1 DEF Bindable
  <1> HIDE DEF row
  <1> QED BY <1>1, <1>2, <1>3, <1>4, ConfigRowInv

\* Two forms of different job levels are one of each.
LEMMA CompleteIsWhole ==
    ASSUME TemplatesInv, NEW c \in Configs, Complete(c)
    PROVE  /\ {form[f].prefix : f \in config[c].bound} = Prefix
           /\ Cardinality(config[c].bound) = 2
           /\ \A f \in config[c].bound : form[f].status = "PUBLISHED"
  <1> DEFINE B == config[c].bound
  <1>1. /\ Cardinality(B) = 2 /\ Bindable(B) /\ B \subseteq Forms
    BY DEF Complete, TemplatesInv, EditsRefer
  <1>2. form \in [Forms -> FormVersion]
    BY TemplateRows DEF TemplatesInv
  <1> HIDE DEF B
  <1>3. IsFiniteSet(B)
    <2>1. Forms = 1 .. Len(form) /\ Len(form) \in Nat
      BY TemplateRows DEF TemplatesInv
    <2>2. IsFiniteSet(1 .. Len(form))
      BY <2>1, FS_Interval
    <2>3. B \in SUBSET (1 .. Len(form))
      BY <1>1, <2>1
    <2> QED BY <2>2, <2>3, FS_Subset
  <1>4. PICK x \in B : TRUE
    BY <1>1, <1>3, FS_EmptySet
  <1>5. PICK y \in B : y # x
    <2>1. IsFiniteSet(B \ {x}) /\ Cardinality(B \ {x}) = 1
      BY <1>1, <1>3, <1>4, FS_RemoveElement
    <2>2. B \ {x} # {}
      BY <2>1, FS_EmptySet
    <2> QED BY <2>2
  <1>6. /\ form[x].prefix # form[y].prefix
        /\ \A f \in B : form[f].prefix \in Prefix /\ form[f].status = "PUBLISHED"
    BY <1>1, <1>2, <1>4, <1>5 DEF Bindable, FormVersion
  <1>7. {form[f].prefix : f \in B} = Prefix
    BY <1>4, <1>5, <1>6 DEF Prefix
  <1> QED BY <1>1, <1>6, <1>7 DEF B

LEMMA ConfigStatusInv ==
    ASSUME TemplatesInv, NEW c \in Configs, PublishConfig(c) \/ ArchiveConfig(c)
    PROVE  TemplatesInv' /\ VersionsFrozen
  <1>1. PICK s \in {"PUBLISHED", "ARCHIVED"} :
            /\ config' = [config EXCEPT ![c].status = s]
            /\ config[c].status = "DRAFT" => Complete(c)
            /\ config[c].status = "DRAFT" \/ s = "ARCHIVED"
    BY DEF PublishConfig, ArchiveConfig
  <1>2. /\ form' = form /\ edit' = edit /\ config[c] \in ConfigVersion
        /\ config[c].bound \subseteq Forms
    BY TemplateRows DEF PublishConfig, ArchiveConfig, TemplatesInv, EditsRefer
  <1>3. /\ {form[f].prefix : f \in config[c].bound} = Prefix
        /\ Cardinality(config[c].bound) = 2
        /\ \A f \in config[c].bound : form[f].status # "DRAFT"
    <2>1. CASE config[c].status = "DRAFT"
      BY <1>1, <2>1, CompleteIsWhole
    <2>2. CASE config[c].status # "DRAFT"
      BY <2>2 DEF TemplatesInv, ConfigsAreWhole
    <2> QED BY <2>1, <2>2
  <1> DEFINE row == [config[c] EXCEPT !.status = s]
  <1>4. /\ row \in ConfigVersion /\ row.number = config[c].number
        /\ row.bound = config[c].bound /\ row.status = s
    BY <1>2 DEF ConfigVersion, VersionStatus
  <1>5. config' = [config EXCEPT ![c] = row]
    BY <1>1
  <1> HIDE DEF row
  <1> QED BY <1>1, <1>2, <1>3, <1>4, <1>5, ConfigRowInv

\* A copy binds the forms that are still published.
LEMMA CopyConfigInv ==
    ASSUME TemplatesInv, NEW c \in Configs, CopyConfig(c)
    PROVE  TemplatesInv' /\ VersionsFrozen
  <1> DEFINE S == {config[d].number : d \in Configs}
             row == [number |-> Max(S) + 1, status |-> "DRAFT", bound |-> StillPublished(c)]
  <1>1. /\ config' = Append(config, row) /\ form' = form /\ edit' = edit
        /\ Len(config) < MaxConfigs
    BY DEF CopyConfig
  <1>2. /\ TemplatesTypeOK /\ config \in Seq(ConfigVersion) /\ config \in [Configs -> ConfigVersion]
        /\ Configs = 1 .. Len(config) /\ Forms' = Forms
    BY <1>1, TemplateRows DEF TemplatesInv, TemplatesTypeOK, Forms
  <1>3. PICK n \in Nat : n = Len(config)
    BY TemplateRows DEF TemplatesInv
  <1>4. /\ S # {} /\ S \subseteq 1 .. n
    <2>1. \A d \in Configs : config[d].number \in 1 .. n
      BY <1>2, <1>3, TemplatesAssumption
         DEF TemplatesInv, NumbersBounded, ConfigVersion, ConfigId
    <2> QED BY <2>1
  <1>5. Max(S) \in 1 .. n /\ \A x \in S : Max(S) >= x
    <2>1. S \subseteq 0 .. n
      BY <1>4
    <2> HIDE DEF S
    <2> QED BY <1>4, <2>1, MaxOfBounded
  <1>6. /\ StillPublished(c) \subseteq Forms /\ StillPublished(c) \subseteq FormId
        /\ \A f \in StillPublished(c) : form[f].status = "PUBLISHED"
    BY TemplateRows DEF StillPublished, TemplatesInv, EditsRefer
  <1>7. PICK m \in 1 .. n + 1 : m = Max(S) + 1 /\ \A d \in Configs : config[d].number < m
    <2> DEFINE m == Max(S) + 1
    <2>1. m \in 1 .. n + 1 /\ \A x \in S : x < m
      <3> HIDE DEF S
      <3> QED BY <1>4, <1>5
    <2>2. \A d \in Configs : config[d].number \in S
      OBVIOUS
    <2> HIDE DEF S, m
    <2> QED BY <2>1, <2>2 DEF m
  <1>8. /\ row \in ConfigVersion /\ row.status = "DRAFT" /\ row.number = m
        /\ row.bound = StillPublished(c)
    <2>1. m \in ConfigId
      BY <1>1, <1>3, TemplatesAssumption DEF ConfigId
    <2> HIDE DEF S
    <2> QED BY <1>6, <1>7, <2>1 DEF ConfigVersion, VersionStatus
  <1> HIDE DEF S, row
  <1>9. /\ config' \in Seq(ConfigVersion) /\ Len(config') = n + 1 /\ config'[n + 1] = row
        /\ Configs' = Configs \cup {n + 1} /\ n + 1 \notin Configs
        /\ \A d \in Configs : config'[d] = config[d]
    <2>1. /\ config' \in Seq(ConfigVersion) /\ Len(config') = n + 1 /\ config'[n + 1] = row
          /\ \A d \in 1 .. n : config'[d] = config[d]
      BY <1>1, <1>2, <1>3, <1>8, AppendProperties
    <2>2. Configs' = 1 .. n + 1
      BY <2>1, LenProperties DEF Configs
    <2> QED BY <1>2, <1>3, <2>1, <2>2
  <1>10. TemplatesTypeOK'
    <2>1. Len(config') <= MaxConfigs
      BY <1>1, <1>3, <1>9, TemplatesAssumption
    <2> QED BY <1>1, <1>2, <1>9, <2>1 DEF TemplatesTypeOK
  <1>11. NumbersBounded'
    <2>1. \A d \in Configs : config[d].number \in Nat /\ config[d].number <= n
      BY <1>2, <1>3 DEF TemplatesInv, NumbersBounded, ConfigVersion, ConfigId
    <2>2. \A d \in Configs' : config'[d].number <= n + 1
      BY <1>7, <1>8, <1>9, <2>1
    <2> QED BY <1>1, <1>2, <1>9, <2>2 DEF TemplatesInv, NumbersBounded
  <1>12. EditsRefer' /\ PublishedIsValid' /\ NumbersGapless'
    BY <1>1, <1>2, <1>6, <1>8, <1>9 DEF TemplatesInv, EditsRefer, PublishedIsValid,
       NumbersGapless
  <1>13. NumbersInOrder'
    <2>1. ASSUME NEW c1 \in Configs', NEW d1 \in Configs', c1 < d1
          PROVE  config'[c1].number < config'[d1].number
      <3>1. c1 \in Configs
        BY <1>2, <1>3, <1>9, <2>1
      <3>2. CASE d1 \in Configs
        BY <1>9, <2>1, <3>1, <3>2 DEF TemplatesInv, NumbersInOrder
      <3>3. CASE d1 = n + 1
        BY <1>7, <1>8, <1>9, <3>1, <3>3
      <3> QED BY <1>9, <3>2, <3>3
    <2> QED BY <1>1, <1>2, <2>1 DEF TemplatesInv, NumbersInOrder
  <1>14. ConfigsAreWhole'
    <2>1. \A d \in Configs' : config'[d].status # "DRAFT" => d \in Configs /\ config'[d] = config[d]
      BY <1>8, <1>9
    <2> SUFFICES ASSUME NEW d \in Configs', config'[d].status # "DRAFT"
                 PROVE  /\ {form'[f].prefix : f \in config'[d].bound} = Prefix
                        /\ Cardinality(config'[d].bound) = 2
                        /\ \A f \in config'[d].bound :
                            form'[f].status # "DRAFT" /\ form'[f].content \in Publishable
      BY DEF ConfigsAreWhole
    <2>2. d \in Configs /\ config'[d] = config[d] /\ form' = form
      BY <1>1, <2>1
    <2> QED BY <2>2 DEF TemplatesInv, ConfigsAreWhole
  <1>15. VersionsFrozen
    <2>1. \A d \in Configs : [config'[d] EXCEPT !.status = config[d].status] = config[d]
      BY <1>2, <1>9 DEF ConfigVersion
    <2>2. \A f \in Forms : [form'[f] EXCEPT !.status = form[f].status] = form[f]
      <3>1. \A f \in Forms : form[f] \in FormVersion
        BY <1>2, TemplateRows
      <3> QED BY <1>1, <3>1 DEF FormVersion
    <2>3. \A d \in Configs' : \A f \in config'[d].bound :
              (d \in Configs => f \notin config[d].bound) => form[f].status = "PUBLISHED"
      BY <1>6, <1>8, <1>9
    <2> QED BY <1>1, <1>2, <1>9, <2>1, <2>2, <2>3 DEF VersionsFrozen
  <1> QED BY <1>10, <1>11, <1>12, <1>13, <1>14, <1>15 DEF TemplatesInv

LEMMA TemplatesStep == TemplatesInv /\ TemplatesNext => TemplatesInv' /\ VersionsFrozen
  <1> SUFFICES ASSUME TemplatesInv, TemplatesNext
               PROVE  TemplatesInv' /\ VersionsFrozen
    OBVIOUS
  <1>1. ASSUME NEW e \in Editor, NEW f \in Forms, BeginFormEdit(e, f) \/ NumberFormCopy(e, f)
        PROVE  TemplatesInv' /\ VersionsFrozen
    BY <1>1, BeginsInv
  <1>2. ASSUME NEW e \in Editor, CommitFormEdit(e) \/ InsertFormCopy(e)
        PROVE  TemplatesInv' /\ VersionsFrozen
    BY <1>2, CommitFormEditInv, InsertFormCopyInv
  <1>3. ASSUME NEW f \in Forms, PublishForm(f) \/ ArchiveForm(f)
        PROVE  TemplatesInv' /\ VersionsFrozen
    BY <1>3, FormStatusInv
  <1>4. ASSUME NEW c \in Configs, NEW fs \in SUBSET Forms, BindForms(c, fs)
        PROVE  TemplatesInv' /\ VersionsFrozen
    BY <1>4, BindFormsInv
  <1>6. ASSUME NEW p \in Prefix, CreateForm(p)
        PROVE  TemplatesInv' /\ VersionsFrozen
    BY <1>6, CreateFormInv
  <1>5. ASSUME NEW c \in Configs, PublishConfig(c) \/ ArchiveConfig(c) \/ CopyConfig(c)
        PROVE  TemplatesInv' /\ VersionsFrozen
    BY <1>5, ConfigStatusInv, CopyConfigInv
  <1> QED BY <1>1, <1>2, <1>3, <1>4, <1>5, <1>6 DEF TemplatesNext

LEMMA TemplatesStepInv == TemplatesInv /\ [TemplatesNext]_templateVars => TemplatesInv'
  <1>1. TemplatesInv /\ UNCHANGED templateVars => TemplatesInv'
    BY DEF TemplatesInv, templateVars, TemplatesTypeOK, NumbersBounded, EditsRefer,
       PublishedIsValid, NumbersGapless, NumbersInOrder, ConfigsAreWhole, Forms, Configs
  <1> QED BY <1>1, TemplatesStep

\* Whoever edits, copies, publishes and archives at once, numbers, bindings and
\* contents stay as they must.
THEOREM TemplatesInvariant == TemplatesSpec => []TemplatesInv
  <1>1. TemplatesInit => TemplatesInv
    BY TemplatesInitInv
  <1>2. TemplatesInv /\ [TemplatesNext]_templateVars => TemplatesInv'
    BY TemplatesStepInv
  <1> QED BY <1>1, <1>2, PTL DEF TemplatesSpec

\* Versions and requests keep their types.
THEOREM TemplatesTypes == TemplatesSpec => []TemplatesTypeOK
  <1>1. TemplatesInv => TemplatesTypeOK
    BY DEF TemplatesInv
  <1> QED BY <1>1, TemplatesInvariant, PTL

\* Later versions of a template have greater numbers, however many copies are numbered at once.
THEOREM NumbersOrdered == TemplatesSpec => []NumbersInOrder
  <1>1. TemplatesInv => NumbersInOrder
    BY DEF TemplatesInv
  <1> QED BY <1>1, TemplatesInvariant, PTL

\* A published configuration binds one validated form of each job level, although drafts of
\* forms move between the levels.
THEOREM ConfigsWhole == TemplatesSpec => []ConfigsAreWhole
  <1>1. TemplatesInv => ConfigsAreWhole
    BY DEF TemplatesInv
  <1> QED BY <1>1, TemplatesInvariant, PTL

\* A version that left the draft changes only by its archiving.
THEOREM PublishedFrozen == TemplatesSpec => PublishedIsFrozen
  <1>1. TemplatesInv /\ [TemplatesNext]_templateVars =>
            [/\ \A f \in Forms : form[f].status # "DRAFT" =>
                 /\ [form'[f] EXCEPT !.status = form[f].status] = form[f]
                 /\ form'[f].status \in {form[f].status, "ARCHIVED"}
             /\ \A c \in Configs : config[c].status # "DRAFT" =>
                 /\ [config'[c] EXCEPT !.status = config[c].status] = config[c]
                 /\ config'[c].status \in {config[c].status, "ARCHIVED"}]_templateVars
    BY TemplatesStep DEF VersionsFrozen
  <1> QED BY <1>1, TemplatesInvariant, PTL DEF TemplatesSpec, PublishedIsFrozen

\* A draft never binds a form that was archived before it was made.
THEOREM NewDraftsPublished == TemplatesSpec => NewDraftsBindPublished
  <1>1. TemplatesInv /\ [TemplatesNext]_templateVars =>
            [\A c \in DOMAIN config' : \A f \in config'[c].bound :
                (c \in Configs => f \notin config[c].bound)
                    => form[f].status = "PUBLISHED"]_templateVars
    BY TemplatesStep DEF VersionsFrozen, Configs
  <1> QED BY <1>1, TemplatesInvariant, PTL DEF TemplatesSpec, NewDraftsBindPublished

-----------------------------------------------------------------------------
(* Sums over finite sets.  What MapThenSumSet computes is a recursive       *)
(* function on the subsets; that there is one, and that it does not depend  *)
(* on the order CHOOSE takes the elements in, follows from least elements   *)
(* of sets of subsets.                                                      *)

\* The sum of the values f gives to the elements of S.
SumOf(f, S) == MapThenSumSet(LAMBDA x : f[x], S)

\* g is the function MapThenSumSet computes, on all subsets of S.
SumsSubsets(g, f, S) ==
    g = [s \in SUBSET S |->
            IF s = {} THEN 0
            ELSE f[CHOOSE x \in s : TRUE] + g[s \ {CHOOSE x \in s : TRUE}]]

\* A set of subsets of a finite set has a least one.
LEMMA LeastSubset ==
    ASSUME NEW S, IsFiniteSet(S), NEW Q, Q \subseteq SUBSET S, Q # {}
    PROVE  \E s \in Q : \A t \in Q : t \subseteq s => t = s
  <1>1. IsWellFoundedOn(StrictSubsetOrdering(S), FiniteSubsetsOf(S))
    BY FS_StrictSubsetOrderingWellFounded
  <1>2. FiniteSubsetsOf(S) = SUBSET S
    BY FS_FiniteSubsetsOfFinite
  <1>3. PICK s \in Q : \A t \in Q : <<t, s>> \notin StrictSubsetOrdering(S)
    BY <1>1, <1>2, WFMin, Zenon
  <1>4. \A t \in Q : t \subseteq s => t = s
    BY <1>3 DEF StrictSubsetOrdering
  <1> QED BY <1>4

\* Induction over the subsets of a finite set, with a set for the property.
LEMMA SubsetInduction ==
    ASSUME NEW S, IsFiniteSet(S), NEW Q, {} \in Q,
           \A t \in SUBSET S, x \in S : t \in Q /\ x \notin t => t \cup {x} \in Q
    PROVE  S \in Q
  <1> SUFFICES ASSUME S \notin Q
               PROVE  FALSE
    OBVIOUS
  <1> DEFINE Bad == {t \in SUBSET S : t \notin Q}
  <1>1. PICK s \in Bad : \A t \in Bad : t \subseteq s => t = s
    <2>1. Bad \subseteq SUBSET S /\ Bad # {}
      OBVIOUS
    <2> HIDE DEF Bad
    <2> QED BY <2>1, LeastSubset
  <1>2. PICK x \in s : TRUE
    BY <1>1
  <1>3. s \ {x} \in Q
    BY <1>1, <1>2
  <1>4. (s \ {x}) \cup {x} = s /\ s \ {x} \in SUBSET S /\ x \in S
    BY <1>1, <1>2
  <1>5. (s \ {x}) \cup {x} \in Q
    BY <1>3, <1>4
  <1> QED BY <1>1, <1>4, <1>5

\* There is one such function ..
LEMMA SumsUnique ==
    ASSUME NEW S, IsFiniteSet(S), NEW f, NEW g, NEW h,
           SumsSubsets(g, f, S), SumsSubsets(h, f, S)
    PROVE  \A s \in SUBSET S : g[s] = h[s]
  <1> SUFFICES ASSUME NEW r \in SUBSET S, g[r] # h[r]
               PROVE  FALSE
    OBVIOUS
  <1> DEFINE Bad == {s \in SUBSET S : g[s] # h[s]}
  <1>1. PICK s \in Bad : \A t \in Bad : t \subseteq s => t = s
    <2>1. Bad \subseteq SUBSET S /\ Bad # {}
      OBVIOUS
    <2> HIDE DEF Bad
    <2> QED BY <2>1, LeastSubset
  <1> DEFINE y == CHOOSE x \in s : TRUE
  <1>2. s # {} /\ y \in s
    BY <1>1 DEF SumsSubsets
  <1>3. s \ {y} \in SUBSET S /\ s \ {y} \notin Bad
    BY <1>1, <1>2
  <1>4. g[s] = f[y] + g[s \ {y}] /\ h[s] = f[y] + h[s \ {y}]
    BY <1>1, <1>2 DEF SumsSubsets
  <1> QED BY <1>1, <1>3, <1>4

\* .. it is that of the smaller sets, too ..
LEMMA SumsRestricted ==
    ASSUME NEW S, NEW f, NEW g, SumsSubsets(g, f, S), NEW T \in SUBSET S
    PROVE  SumsSubsets([s \in SUBSET T |-> g[s]], f, T)
  <1> DEFINE h == [s \in SUBSET T |-> g[s]]
  <1>1. ASSUME NEW s \in SUBSET T
        PROVE  h[s] = IF s = {} THEN 0
                      ELSE f[CHOOSE x \in s : TRUE] + h[s \ {CHOOSE x \in s : TRUE}]
    <2>1. s \in SUBSET S /\ s \ {CHOOSE x \in s : TRUE} \in SUBSET T
      OBVIOUS
    <2> QED BY <2>1 DEF SumsSubsets
  <1> QED BY <1>1 DEF SumsSubsets

\* .. and it exists: at a least set without one, it could be put together.
LEMMA SumsExist ==
    ASSUME NEW S, IsFiniteSet(S), NEW f
    PROVE  \E g : SumsSubsets(g, f, S)
  <1> SUFFICES ASSUME ~ \E g : SumsSubsets(g, f, S)
               PROVE  FALSE
    OBVIOUS
  <1> DEFINE Bad == {t \in SUBSET S : ~ \E g : SumsSubsets(g, f, t)}
             Of(t) == CHOOSE g : SumsSubsets(g, f, t)
  <1>1. PICK s \in Bad : \A t \in Bad : t \subseteq s => t = s
    <2>1. Bad \subseteq SUBSET S /\ Bad # {}
      OBVIOUS
    <2> HIDE DEF Bad
    <2> QED BY <2>1, LeastSubset
  <1>2. s # {}
    <2>1. SumsSubsets([t \in SUBSET {} |-> 0], f, {})
      BY DEF SumsSubsets
    <2> QED BY <1>1, <2>1
  <1>3. ASSUME NEW t \in SUBSET s, t # s
        PROVE  SumsSubsets(Of(t), f, t)
    <2>1. \E g : SumsSubsets(g, f, t)
      BY <1>1, <1>3
    <2> QED BY <2>1
  <1> DEFINE y == CHOOSE x \in s : TRUE
             g == [t \in SUBSET s |->
                     IF t = s THEN f[y] + Of(s \ {y})[s \ {y}] ELSE Of(t)[t]]
  <1> HIDE DEF Of
  <1>4. y \in s
    BY <1>2
  <1>5. ASSUME NEW t \in SUBSET s
        PROVE  g[t] = IF t = {} THEN 0
                      ELSE f[CHOOSE x \in t : TRUE] + g[t \ {CHOOSE x \in t : TRUE}]
    <2>1. CASE t = s
      BY <1>2, <1>4, <2>1
    <2>2. CASE t # s
      <3> DEFINE z == CHOOSE x \in t : TRUE
      <3>1. g[t] = Of(t)[t]
        BY <2>2
      <3>2. Of(t)[t] = IF t = {} THEN 0 ELSE f[z] + Of(t)[t \ {z}]
        BY <1>3, <2>2 DEF SumsSubsets
      <3>3. ASSUME t # {}
            PROVE  Of(t)[t \ {z}] = g[t \ {z}]
        <4>1. t \ {z} \in SUBSET t /\ t \ {z} \in SUBSET s /\ t \ {z} # s
          BY <2>2
        <4>2. SumsSubsets([r \in SUBSET (t \ {z}) |-> Of(t)[r]], f, t \ {z})
          BY <1>3, <2>2, <4>1, SumsRestricted
        <4>3. SumsSubsets(Of(t \ {z}), f, t \ {z})
          BY <1>3, <4>1
        <4>4. IsFiniteSet(t \ {z})
          BY <1>1, <4>1, FS_Subset
        <4>5. [r \in SUBSET (t \ {z}) |-> Of(t)[r]][t \ {z}] = Of(t \ {z})[t \ {z}]
          BY <4>2, <4>3, <4>4, SumsUnique
        <4> QED BY <4>1, <4>5
      <3> QED BY <3>1, <3>2, <3>3
    <2> QED BY <2>1, <2>2
  <1>6. SumsSubsets(g, f, s)
    BY <1>5 DEF SumsSubsets
  <1> QED BY <1>1, <1>6

\* MapThenSumSet adds up the elements in the order CHOOSE gives.
LEMMA SumUnfolded ==
    ASSUME NEW S, IsFiniteSet(S), NEW f
    PROVE  SumOf(f, S) = IF S = {} THEN 0
                         ELSE f[CHOOSE x \in S : TRUE] + SumOf(f, S \ {CHOOSE x \in S : TRUE})
  <1> DEFINE Of(t) == CHOOSE g : SumsSubsets(g, f, t)
             y == CHOOSE x \in S : TRUE
             T == S \ {y}
  <1>1. \A t : SumOf(f, t) = Of(t)[t]
    BY DEF SumOf, MapThenSumSet, MapThenFoldSet, SumsSubsets
  <1>2. IsFiniteSet(T) /\ T \in SUBSET S
    BY FS_RemoveElement
  <1>3. SumsSubsets(Of(S), f, S)
    BY SumsExist
  <1>4. SumsSubsets(Of(T), f, T)
    BY <1>2, SumsExist
  <1> HIDE DEF Of
  <1>5. SumsSubsets([r \in SUBSET T |-> Of(S)[r]], f, T)
    BY <1>2, <1>3, SumsRestricted
  <1>6. [r \in SUBSET T |-> Of(S)[r]][T] = Of(T)[T]
    BY <1>2, <1>4, <1>5, SumsUnique
  <1>7. Of(S)[T] = Of(T)[T]
    BY <1>6
  <1>8. Of(S)[S] = IF S = {} THEN 0 ELSE f[y] + Of(S)[T]
    BY <1>3 DEF SumsSubsets
  <1> QED BY <1>1, <1>7, <1>8

LEMMA SumNat ==
    ASSUME NEW S, IsFiniteSet(S), NEW f, \A x \in S : f[x] \in Nat
    PROVE  SumOf(f, S) \in Nat
  <1> SUFFICES ASSUME SumOf(f, S) \notin Nat
               PROVE  FALSE
    OBVIOUS
  <1> DEFINE Bad == {t \in SUBSET S : SumOf(f, t) \notin Nat}
  <1>1. PICK s \in Bad : \A t \in Bad : t \subseteq s => t = s
    <2>1. Bad \subseteq SUBSET S /\ Bad # {}
      OBVIOUS
    <2> HIDE DEF Bad
    <2> QED BY <2>1, LeastSubset
  <1> DEFINE y == CHOOSE x \in s : TRUE
  <1>2. IsFiniteSet(s)
    BY <1>1, FS_Subset
  <1>3. SumOf(f, s) = IF s = {} THEN 0 ELSE f[y] + SumOf(f, s \ {y})
    BY <1>2, SumUnfolded
  <1>4. s # {} /\ y \in s
    BY <1>1, <1>3
  <1>5. SumOf(f, s \ {y}) \in Nat /\ f[y] \in Nat
    BY <1>1, <1>4
  <1> QED BY <1>1, <1>3, <1>4, <1>5

\* The order does not matter: any element can be taken out first.
LEMMA SumRemove ==
    ASSUME NEW S, IsFiniteSet(S), NEW f, \A x \in S : f[x] \in Nat, NEW x \in S
    PROVE  SumOf(f, S) = f[x] + SumOf(f, S \ {x})
  <1> SUFFICES ASSUME SumOf(f, S) # f[x] + SumOf(f, S \ {x})
               PROVE  FALSE
    OBVIOUS
  <1> DEFINE Bad == {t \in SUBSET S :
                       \E z \in t : SumOf(f, t) # f[z] + SumOf(f, t \ {z})}
  <1>1. PICK s \in Bad : \A t \in Bad : t \subseteq s => t = s
    <2>1. Bad \subseteq SUBSET S /\ Bad # {}
      OBVIOUS
    <2> HIDE DEF Bad
    <2> QED BY <2>1, LeastSubset
  <1>2. PICK z \in s : SumOf(f, s) # f[z] + SumOf(f, s \ {z})
    BY <1>1
  <1> DEFINE y == CHOOSE v \in s : TRUE
  <1>3. y \in s /\ s \in SUBSET S
    BY <1>1, <1>2
  <1>4. \A t \in SUBSET S : IsFiniteSet(t) /\ SumOf(f, t) \in Nat
    <2> SUFFICES ASSUME NEW t \in SUBSET S
                 PROVE  IsFiniteSet(t) /\ SumOf(f, t) \in Nat
      OBVIOUS
    <2>1. IsFiniteSet(t)
      BY FS_Subset
    <2>2. \A v \in t : f[v] \in Nat
      OBVIOUS
    <2> QED BY <2>1, <2>2, SumNat
  <1>5. SumOf(f, s) = f[y] + SumOf(f, s \ {y})
    BY <1>3, <1>4, SumUnfolded
  <1>6. z # y
    BY <1>2, <1>5
  <1>7. s \ {y} \notin Bad /\ s \ {z} \notin Bad
    BY <1>1, <1>2, <1>3
  <1>8. SumOf(f, s \ {y}) = f[z] + SumOf(f, (s \ {y}) \ {z})
    BY <1>2, <1>3, <1>6, <1>7
  <1>9. SumOf(f, s \ {z}) = f[y] + SumOf(f, (s \ {z}) \ {y})
    BY <1>2, <1>3, <1>6, <1>7
  <1>10. (s \ {y}) \ {z} = (s \ {z}) \ {y} /\ (s \ {y}) \ {z} \in SUBSET S
    BY <1>3
  <1>11. f[y] \in Nat /\ f[z] \in Nat /\ SumOf(f, (s \ {y}) \ {z}) \in Nat
    BY <1>2, <1>3, <1>4, <1>10
  <1>12. SumOf(f, (s \ {z}) \ {y}) = SumOf(f, (s \ {y}) \ {z})
    BY <1>10
  <1>13. SumOf(f, s) = f[z] + SumOf(f, s \ {z})
    <2> HIDE DEF y, Bad
    <2> QED BY <1>5, <1>8, <1>9, <1>11, <1>12
  <1> QED BY <1>2, <1>13

LEMMA SumEmpty ==
    ASSUME NEW f
    PROVE  SumOf(f, {}) = 0
  BY SumUnfolded, FS_EmptySet

\* One more element, for a set within one on which f counts.
LEMMA SumInsert ==
    ASSUME NEW S, IsFiniteSet(S), NEW f, \A x \in S : f[x] \in Nat,
           NEW t \in SUBSET S, NEW x \in S, x \notin t
    PROVE  /\ SumOf(f, t \cup {x}) = f[x] + SumOf(f, t)
           /\ f[x] \in Nat
           /\ SumOf(f, t) \in Nat
  <1>1. IsFiniteSet(t) /\ IsFiniteSet(t \cup {x})
    BY FS_Subset
  <1>2. \A y \in t \cup {x} : f[y] \in Nat
    OBVIOUS
  <1>3. (t \cup {x}) \ {x} = t
    OBVIOUS
  <1>4. SumOf(f, t \cup {x}) = f[x] + SumOf(f, (t \cup {x}) \ {x})
    BY <1>1, <1>2, SumRemove
  <1>5. SumOf(f, t) \in Nat
    BY <1>1, SumNat
  <1> QED BY <1>3, <1>4, <1>5

LEMMA SumMonotone ==
    ASSUME NEW S, IsFiniteSet(S), NEW f, NEW g,
           \A x \in S : f[x] \in Nat /\ g[x] \in Nat /\ f[x] <= g[x]
    PROVE  SumOf(f, S) <= SumOf(g, S)
  <1> DEFINE Q == {t \in SUBSET S : SumOf(f, t) <= SumOf(g, t)}
  <1>1. {} \in Q
    BY SumEmpty
  <1>2. ASSUME NEW t \in SUBSET S, NEW x \in S, t \in Q, x \notin t
        PROVE  t \cup {x} \in Q
    <2>1. SumOf(f, t \cup {x}) = f[x] + SumOf(f, t) /\ f[x] \in Nat /\ SumOf(f, t) \in Nat
      BY <1>2, SumInsert
    <2>2. SumOf(g, t \cup {x}) = g[x] + SumOf(g, t) /\ g[x] \in Nat /\ SumOf(g, t) \in Nat
      BY <1>2, SumInsert
    <2>3. f[x] <= g[x] /\ SumOf(f, t) <= SumOf(g, t) /\ t \cup {x} \in SUBSET S
      BY <1>2
    <2> HIDE DEF Q
    <2>4. SumOf(f, t \cup {x}) <= SumOf(g, t \cup {x})
      BY <2>1, <2>2, <2>3
    <2> QED BY <2>3, <2>4 DEF Q
  <1>3. S \in Q
    <2> HIDE DEF Q
    <2> QED BY <1>1, <1>2, SubsetInduction
  <1> QED BY <1>3

LEMMA SumScaled ==
    ASSUME NEW S, IsFiniteSet(S), NEW f, NEW m \in Nat, \A x \in S : f[x] \in Nat
    PROVE  SumOf([x \in S |-> m * f[x]], S) = m * SumOf(f, S)
  <1> DEFINE h == [x \in S |-> m * f[x]]
             Q == {t \in SUBSET S : SumOf(h, t) = m * SumOf(f, t)}
  <1>1. {} \in Q
    BY SumEmpty
  <1>2. ASSUME NEW t \in SUBSET S, NEW x \in S, t \in Q, x \notin t
        PROVE  t \cup {x} \in Q
    <2>1. SumOf(f, t \cup {x}) = f[x] + SumOf(f, t) /\ f[x] \in Nat /\ SumOf(f, t) \in Nat
      <3> HIDE DEF Q, h
      <3> QED BY <1>2, SumInsert
    <2>2. \A y \in S : h[y] \in Nat
      OBVIOUS
    <2>3. SumOf(h, t \cup {x}) = h[x] + SumOf(h, t)
      <3> HIDE DEF h
      <3> QED BY <1>2, <2>2, SumInsert
    <2>4. h[x] = m * f[x] /\ SumOf(h, t) = m * SumOf(f, t) /\ t \cup {x} \in SUBSET S
      BY <1>2
    <2> HIDE DEF Q, h
    <2>5. m * (f[x] + SumOf(f, t)) = m * f[x] + m * SumOf(f, t)
      BY <2>1
    <2>6. SumOf(h, t \cup {x}) = m * SumOf(f, t \cup {x})
      BY <2>1, <2>3, <2>4, <2>5
    <2> QED BY <2>4, <2>6 DEF Q
  <1>3. S \in Q
    <2> HIDE DEF Q
    <2> QED BY <1>1, <1>2, SubsetInduction
  <1> QED BY <1>3

LEMMA SumSplit ==
    ASSUME NEW S, IsFiniteSet(S), NEW f, \A x \in S : f[x] \in Nat, NEW U \in SUBSET S
    PROVE  SumOf(f, S) = SumOf(f, U) + SumOf(f, S \ U)
  <1> DEFINE Q == {t \in SUBSET S : SumOf(f, t) = SumOf(f, t \cap U) + SumOf(f, t \ U)}
  <1>1. {} \in Q
    <2>1. {} \cap U = {} /\ {} \ U = {}
      OBVIOUS
    <2> QED BY <2>1, SumEmpty
  <1>2. ASSUME NEW t \in SUBSET S, NEW x \in S, t \in Q, x \notin t
        PROVE  t \cup {x} \in Q
    <2>1. SumOf(f, t \cup {x}) = f[x] + SumOf(f, t) /\ f[x] \in Nat
      BY <1>2, SumInsert
    <2>2. t \cap U \in SUBSET S /\ t \ U \in SUBSET S /\ x \notin t \cap U /\ x \notin t \ U
      BY <1>2
    <2>3. /\ SumOf(f, (t \cap U) \cup {x}) = f[x] + SumOf(f, t \cap U)
          /\ SumOf(f, t \cap U) \in Nat
      BY <2>2, SumInsert
    <2>4. /\ SumOf(f, (t \ U) \cup {x}) = f[x] + SumOf(f, t \ U)
          /\ SumOf(f, t \ U) \in Nat
      BY <2>2, SumInsert
    <2>5. SumOf(f, t) = SumOf(f, t \cap U) + SumOf(f, t \ U)
      BY <1>2
    <2>6. CASE x \in U
      <3>1. (t \cup {x}) \cap U = (t \cap U) \cup {x} /\ (t \cup {x}) \ U = t \ U
        BY <2>6
      <3>2. SumOf(f, t \cup {x}) = SumOf(f, (t \cap U) \cup {x}) + SumOf(f, t \ U)
        BY <2>1, <2>3, <2>4, <2>5
      <3> QED BY <3>1, <3>2
    <2>7. CASE x \notin U
      <3>1. (t \cup {x}) \cap U = t \cap U /\ (t \cup {x}) \ U = (t \ U) \cup {x}
        BY <2>7
      <3>2. SumOf(f, t \cup {x}) = SumOf(f, t \cap U) + SumOf(f, (t \ U) \cup {x})
        BY <2>1, <2>3, <2>4, <2>5
      <3> QED BY <3>1, <3>2
    <2> QED BY <2>6, <2>7
  <1>3. S \in Q
    <2> HIDE DEF Q
    <2> QED BY <1>1, <1>2, SubsetInduction
  <1>4. S \cap U = U
    OBVIOUS
  <1> QED BY <1>3, <1>4

LEMMA SumOfOnes ==
    ASSUME NEW S, IsFiniteSet(S), NEW w, \A x \in S : w[x] = 1
    PROVE  SumOf(w, S) = Cardinality(S)
  <1> DEFINE Q == {t \in SUBSET S : SumOf(w, t) = Cardinality(t)}
  <1>1. {} \in Q
    BY SumEmpty, FS_EmptySet
  <1>2. ASSUME NEW t \in SUBSET S, NEW x \in S, t \in Q, x \notin t
        PROVE  t \cup {x} \in Q
    <2>1. SumOf(w, t \cup {x}) = w[x] + SumOf(w, t) /\ SumOf(w, t) \in Nat
      BY <1>2, SumInsert
    <2>2. Cardinality(t \cup {x}) = Cardinality(t) + 1
      BY <1>2, FS_Subset, FS_AddElement
    <2> QED BY <1>2, <2>1, <2>2
  <1>3. S \in Q
    <2> HIDE DEF Q
    <2> QED BY <1>1, <1>2, SubsetInduction
  <1> QED BY <1>3

LEMMA SumPositive ==
    ASSUME NEW S, IsFiniteSet(S), S # {}, NEW f, \A x \in S : f[x] \in Nat \ {0}
    PROVE  SumOf(f, S) \in Nat \ {0}
  <1>1. PICK x \in S : TRUE
    OBVIOUS
  <1>2. IsFiniteSet(S \ {x})
    BY FS_RemoveElement
  <1>3. SumOf(f, S \ {x}) \in Nat
    BY <1>2, SumNat
  <1>4. SumOf(f, S) = f[x] + SumOf(f, S \ {x}) /\ f[x] \in Nat \ {0}
    BY SumRemove
  <1> QED BY <1>3, <1>4

LEMMA ProductNat ==
    ASSUME NEW a \in Nat, NEW b \in Nat
    PROVE  a * b \in Nat
  OBVIOUS

LEMMA ProductMonotone ==
    ASSUME NEW a \in Nat, NEW b \in Nat, NEW c \in Nat, a <= b
    PROVE  a * c <= b * c /\ c * a <= c * b /\ a * c = c * a
  <1>1. PICK e \in Nat : b = a + e
    <2>1. b - a \in Nat /\ b = a + (b - a)
      OBVIOUS
    <2> QED BY <2>1
  <1>2. b * c = a * c + e * c /\ e * c \in Nat /\ a * c \in Nat
    BY <1>1
  <1> QED BY <1>2

\* What the loss of the lowest scores does to the numerator of an average.
LEMMA WithoutTheLowest ==
    ASSUME NEW kept \in Nat, NEW dropped \in Nat, NEW better \in Nat, NEW m \in Nat,
           NEW weight \in Nat, NEW rest \in Nat,
           kept <= better, dropped <= m * rest, m * weight <= better
    PROVE  (kept + dropped) * weight <= better * (weight + rest)
  <1>1. (kept + dropped) * weight = kept * weight + dropped * weight
    OBVIOUS
  <1>2. kept * weight <= better * weight
    BY ProductMonotone
  <1>3. dropped * weight <= (m * rest) * weight
    BY ProductNat, ProductMonotone
  <1>4. (m * rest) * weight = rest * (m * weight)
    OBVIOUS
  <1>5. rest * (m * weight) <= rest * better
    BY ProductNat, ProductMonotone
  <1>6. better * (weight + rest) = better * weight + rest * better
    OBVIOUS
  <1>7. /\ kept * weight \in Nat /\ dropped * weight \in Nat /\ better * weight \in Nat
        /\ rest * better \in Nat /\ rest * (m * weight) \in Nat
    BY ProductNat
  <1> QED BY <1>1, <1>2, <1>3, <1>4, <1>5, <1>6, <1>7

\* The average of U, where every score is at least what it was, is not below that of
\* S, when what is outside U is at most m and what is inside at least m.
LEMMA AverageNotLower ==
    ASSUME NEW S, IsFiniteSet(S), NEW U \in SUBSET S, NEW f, NEW g, NEW w, NEW m \in Nat,
           \A x \in S : f[x] \in Nat /\ w[x] \in Nat,
           \A x \in U : g[x] \in Nat /\ f[x] <= g[x] /\ m <= g[x],
           \A x \in S \ U : f[x] <= m
    PROVE  SumOf([x \in S |-> f[x] * w[x]], S) * SumOf(w, U)
               <= SumOf([x \in U |-> g[x] * w[x]], U) * SumOf(w, S)
  <1> DEFINE a == [x \in S |-> f[x] * w[x]]
             b == [x \in U |-> g[x] * w[x]]
  <1>1. IsFiniteSet(U) /\ IsFiniteSet(S \ U)
    BY FS_Subset
  <1>2. \A x \in S : a[x] \in Nat /\ a[x] = f[x] * w[x]
    BY ProductNat
  <1>3. \A x \in U : b[x] \in Nat /\ b[x] = g[x] * w[x]
    BY ProductNat
  <1>4. ASSUME NEW x \in U
        PROVE  a[x] <= b[x] /\ m * w[x] <= b[x] /\ m * w[x] \in Nat
    <2>1. /\ f[x] \in Nat /\ g[x] \in Nat /\ w[x] \in Nat
          /\ f[x] <= g[x] /\ m <= g[x]
      OBVIOUS
    <2>2. f[x] * w[x] <= g[x] * w[x]
      BY <2>1, ProductMonotone
    <2>3. m * w[x] <= g[x] * w[x]
      BY <2>1, ProductMonotone
    <2>4. m * w[x] \in Nat
      BY <2>1, ProductNat
    <2> QED BY <1>2, <1>3, <2>2, <2>3, <2>4
  <1>5. ASSUME NEW x \in S \ U
        PROVE  a[x] <= m * w[x] /\ m * w[x] \in Nat
    <2>1. f[x] \in Nat /\ w[x] \in Nat /\ f[x] <= m
      OBVIOUS
    <2>2. f[x] * w[x] <= m * w[x]
      BY <2>1, ProductMonotone
    <2>3. m * w[x] \in Nat
      BY <2>1, ProductNat
    <2> QED BY <1>2, <2>2, <2>3
  <1> HIDE DEF a, b
  <1>6. SumOf(a, S) = SumOf(a, U) + SumOf(a, S \ U)
    BY <1>2, SumSplit
  <1>7. SumOf(w, S) = SumOf(w, U) + SumOf(w, S \ U)
    BY SumSplit
  <1>8. /\ SumOf(a, U) \in Nat /\ SumOf(a, S \ U) \in Nat
        /\ SumOf(w, U) \in Nat /\ SumOf(w, S \ U) \in Nat
        /\ SumOf(b, U) \in Nat
    BY <1>1, <1>2, <1>3, SumNat
  <1>9. SumOf(a, U) <= SumOf(b, U)
    BY <1>1, <1>2, <1>3, <1>4, SumMonotone
  <1>10. SumOf(a, S \ U) <= m * SumOf(w, S \ U)
    <2> DEFINE c == [x \in S \ U |-> m * w[x]]
    <2>1. \A x \in S \ U : a[x] \in Nat /\ c[x] \in Nat /\ a[x] <= c[x]
      BY <1>2, <1>5
    <2>2. SumOf(c, S \ U) = m * SumOf(w, S \ U)
      BY <1>1, SumScaled
    <2> HIDE DEF c
    <2>3. SumOf(a, S \ U) <= SumOf(c, S \ U)
      BY <1>1, <2>1, SumMonotone
    <2> QED BY <2>2, <2>3
  <1>11. m * SumOf(w, U) <= SumOf(b, U)
    <2> DEFINE c == [x \in U |-> m * w[x]]
    <2>1. \A x \in U : b[x] \in Nat /\ c[x] \in Nat /\ c[x] <= b[x]
      BY <1>3, <1>4
    <2>2. SumOf(c, U) = m * SumOf(w, U)
      BY <1>1, SumScaled
    <2> HIDE DEF c
    <2>3. SumOf(c, U) <= SumOf(b, U)
      BY <1>1, <2>1, SumMonotone
    <2> QED BY <2>2, <2>3
  <1>12. (SumOf(a, U) + SumOf(a, S \ U)) * SumOf(w, U)
             <= SumOf(b, U) * (SumOf(w, U) + SumOf(w, S \ U))
    BY <1>8, <1>9, <1>10, <1>11, WithoutTheLowest
  <1> QED BY <1>6, <1>7, <1>12 DEF a, b

-----------------------------------------------------------------------------
(* Rounding.                                                                 *)

LEMMA Division ==
    ASSUME NEW x \in Nat, NEW y \in Nat \ {0}
    PROVE  /\ x \div y \in Nat
           /\ y * (x \div y) <= x
           /\ x < y * ((x \div y) + 1)
  OBVIOUS

LEMMA HalfUpNat ==
    ASSUME NEW n \in Nat, NEW d \in Nat \ {0}
    PROVE  HalfUp(n, d) \in Nat
  BY Division DEF HalfUp

\* A larger fraction is not rounded to less.
LEMMA HalfUpMonotone ==
    ASSUME NEW n \in Nat, NEW d \in Nat \ {0}, NEW k \in Nat, NEW e \in Nat \ {0},
           n * e <= k * d
    PROVE  HalfUp(n, d) <= HalfUp(k, e)
  <1> DEFINE p == HalfUp(n, d)
             q == HalfUp(k, e)
  <1>1. /\ p \in Nat
        /\ (2 * d) * p <= 2 * n + d
    <2>1. 2 * n + d \in Nat /\ 2 * d \in Nat \ {0}
      OBVIOUS
    <2> QED BY <2>1, Division DEF HalfUp
  <1>2. /\ q \in Nat
        /\ 2 * k + e < (2 * e) * (q + 1)
    <2>1. 2 * k + e \in Nat /\ 2 * e \in Nat \ {0}
      OBVIOUS
    <2> QED BY <2>1, Division DEF HalfUp
  <1> HIDE DEF p, q
  <1> SUFFICES ASSUME q + 1 <= p
               PROVE  FALSE
    BY <1>1, <1>2 DEF p, q
  <1>3. (2 * d) * (q + 1) <= 2 * n + d
    <2>1. (q + 1) * (2 * d) <= p * (2 * d) /\ (q + 1) * (2 * d) = (2 * d) * (q + 1)
      BY <1>1, <1>2, ProductMonotone
    <2>2. p * (2 * d) = (2 * d) * p
      BY <1>1
    <2> QED BY <1>1, <1>2, <2>1, <2>2
  <1>4. ((2 * d) * (q + 1)) * e <= (2 * n + d) * e
    <2>1. (2 * d) * (q + 1) \in Nat
      BY <1>2
    <2> QED BY <1>3, <2>1, ProductMonotone
  <1>5. (2 * n + d) * e = 2 * (n * e) + d * e
    OBVIOUS
  <1>6. ((2 * d) * (q + 1)) * e = ((2 * e) * (q + 1)) * d
    BY <1>2
  <1>7. (2 * k + e + 1) * d <= ((2 * e) * (q + 1)) * d
    <2>1. (2 * e) * (q + 1) \in Nat /\ 2 * k + e + 1 <= (2 * e) * (q + 1)
      BY <1>2
    <2> QED BY <2>1, ProductMonotone
  <1>8. (2 * k + e + 1) * d = 2 * (k * d) + d * e + d
    OBVIOUS
  <1>9. n * e \in Nat /\ k * d \in Nat /\ d * e \in Nat /\ d > 0
    BY ProductNat
  <1>10. ((2 * d) * (q + 1)) * e \in Nat
    BY <1>2
  <1> QED BY <1>4, <1>5, <1>6, <1>7, <1>8, <1>9, <1>10

\* What is at most, or at least, a whole number stays so.
LEMMA HalfUpBounds ==
    ASSUME NEW n \in Nat, NEW d \in Nat \ {0}, NEW m \in Nat
    PROVE  /\ n <= m * d => HalfUp(n, d) <= m
           /\ m * d <= n => m <= HalfUp(n, d)
  <1>1. HalfUp(m, 1) = m
    BY DEF HalfUp
  <1>2. n * 1 = n
    OBVIOUS
  <1> QED BY <1>1, <1>2, HalfUpMonotone

-----------------------------------------------------------------------------
(* Scores: the constraints, one after another.                              *)

\* The level after the three constraints, one after another.
LEMMA ConstrainedLevel ==
    ASSUME NEW initial \in Level, NEW levels \in SUBSET Level, NEW core \in levels
    PROVE  Constrained(initial, core, levels) =
               IF core = "C" \/ initial = "C" THEN "C"
               ELSE IF core = "B" \/ "C" \in levels THEN "B"
               ELSE initial
  <1>1. rank["S"] = 4 /\ rank["A"] = 3 /\ rank["B"] = 2 /\ rank["C"] = 1
    BY DEF rank
  <1>2. core \in Level /\ \A l \in Level : l \in {"S", "A", "B", "C"}
    BY DEF Level
  <1>3. LowerLevel(initial, "C") = "C" /\ LowerLevel("C", "B") = "C"
    BY <1>1, <1>2 DEF LowerLevel
  <1>4. LowerLevel(initial, "B") = IF initial = "C" THEN "C" ELSE "B"
    BY <1>1, <1>2 DEF LowerLevel
  <1>5. LowerLevel("B", "B") = "B"
    BY DEF LowerLevel
  <1>6. CASE core = "C"
    BY <1>3, <1>6 DEF Constrained
  <1>7. CASE core = "B"
    BY <1>3, <1>4, <1>5, <1>7 DEF Constrained
  <1>8. CASE core # "C" /\ core # "B"
    BY <1>4, <1>8 DEF Constrained
  <1> QED BY <1>6, <1>7, <1>8

-----------------------------------------------------------------------------
(* The level of a score.                                                     *)

LEMMA LevelRanks ==
    /\ rank["S"] = 4 /\ rank["A"] = 3 /\ rank["B"] = 2 /\ rank["C"] = 1
    /\ \A l \in Level : l \in {"S", "A", "B", "C"} /\ rank[l] \in 1 .. 4
  BY DEF rank, Level

\* The ends of the intervals in whole parts: a chain from 0 to 100 points.
LEMMA ScaleChain ==
    /\ Unit \in Nat \ {0}
    /\ Unit * MinScore["C"] = 0
    /\ Unit * MaxScore["C"] = Unit * MinScore["B"]
    /\ Unit * MaxScore["B"] = Unit * MinScore["A"]
    /\ Unit * MaxScore["A"] = Unit * MinScore["S"]
    /\ Unit * MaxScore["S"] = Unit * Hundred
    /\ MaxScore["C"] < Hundred /\ MaxScore["B"] < Hundred /\ MaxScore["A"] < Hundred
    /\ \A l \in Level :
        /\ Unit * MinScore[l] \in Nat /\ Unit * MaxScore[l] \in Nat
        /\ Unit * MinScore[l] < Unit * MaxScore[l]
  <1>1. Level = {"S", "A", "B", "C"}
    BY DEF Level
  <1>2. \A l \in Level : MinScore[l] \in Nat /\ MaxScore[l] \in Nat /\ MinScore[l] < MaxScore[l]
    BY ScaleAssumption
  <1>3. /\ MinScore["C"] = 0 /\ MaxScore["C"] = MinScore["B"]
        /\ MaxScore["B"] = MinScore["A"] /\ MaxScore["A"] = MinScore["S"]
        /\ MaxScore["S"] = Hundred /\ Unit \in Nat \ {0}
    BY ScaleAssumption
  <1>4. MaxScore["C"] < Hundred /\ MaxScore["B"] < Hundred /\ MaxScore["A"] < Hundred
    BY <1>1, <1>2, <1>3
  <1>5. ASSUME NEW l \in Level
        PROVE  /\ Unit * MinScore[l] \in Nat /\ Unit * MaxScore[l] \in Nat
               /\ Unit * MinScore[l] < Unit * MaxScore[l]
    <2>1. Unit * MinScore[l] \in Nat /\ Unit * MaxScore[l] \in Nat /\ Unit \in Nat
      BY <1>2, <1>3, ProductNat
    <2>2. Unit * (MinScore[l] + 1) <= Unit * MaxScore[l]
      BY <1>2, <1>3, ProductMonotone
    <2>3. Unit * (MinScore[l] + 1) = Unit * MinScore[l] + Unit
      BY <1>2, <1>3
    <2> QED BY <1>3, <2>1, <2>2, <2>3
  <1> QED BY <1>3, <1>4, <1>5

\* Every score has a level: the one whose interval it is in.
LEMMA LevelOfScore ==
    ASSUME NEW s \in Nat, s <= Unit * Hundred
    PROVE  /\ LevelForScore(s) \in Level
           /\ Unit * MinScore[LevelForScore(s)] <= s
           /\ \/ s < Unit * MaxScore[LevelForScore(s)]
              \/ MaxScore[LevelForScore(s)] = Hundred
  <1> DEFINE In(l) == /\ s >= Unit * MinScore[l]
                      /\ \/ s < Unit * MaxScore[l]
                         \/ MaxScore[l] = Hundred /\ s <= Unit * MaxScore[l]
  <1>1. \E l \in Level : In(l)
    <2>1. "S" \in Level /\ "A" \in Level /\ "B" \in Level /\ "C" \in Level
      BY DEF Level
    <2>2. \/ s < Unit * MaxScore["C"]
          \/ Unit * MinScore["B"] <= s /\ s < Unit * MaxScore["B"]
          \/ Unit * MinScore["A"] <= s /\ s < Unit * MaxScore["A"]
          \/ Unit * MinScore["S"] <= s
      BY <2>1, ScaleChain
    <2>3. s < Unit * MaxScore["C"] => In("C")
      BY <2>1, ScaleChain
    <2>4. Unit * MinScore["S"] <= s => In("S")
      <3>1. MaxScore["S"] = Hundred
        BY ScaleAssumption
      <3> QED BY <2>1, <3>1, ScaleChain
    <2> QED BY <2>1, <2>2, <2>3, <2>4, ScaleChain
  <1>2. LevelForScore(s) = CHOOSE l \in Level : In(l)
    BY DEF LevelForScore
  <1> HIDE DEF In
  <1>3. LevelForScore(s) \in Level /\ In(LevelForScore(s))
    BY <1>1, <1>2
  <1> QED BY <1>3 DEF In

\* Higher scores do not have lower levels.
LEMMA LevelMonotone ==
    ASSUME NEW s \in Nat, NEW t \in Nat, s <= t, t <= Unit * Hundred
    PROVE  /\ LevelForScore(s) \in Level /\ LevelForScore(t) \in Level
           /\ rank[LevelForScore(s)] <= rank[LevelForScore(t)]
  <1> DEFINE k == LevelForScore(s)
             l == LevelForScore(t)
  <1>1. k \in Level /\ Unit * MinScore[k] <= s
    <2>1. Unit * Hundred \in Nat
      BY ScaleChain DEF Hundred
    <2>2. s <= Unit * Hundred
      BY <2>1
    <2> QED BY <2>2, LevelOfScore
  <1>2. l \in Level /\ (t < Unit * MaxScore[l] \/ MaxScore[l] = Hundred)
    BY LevelOfScore
  <1> HIDE DEF k, l
  <1>3. \/ Unit * MinScore[k] < Unit * MaxScore[l]
        \/ MaxScore[l] = Hundred
    BY <1>1, <1>2, ScaleChain
  <1>4. Level = {"S", "A", "B", "C"}
    BY DEF Level
  <1>5. rank[k] <= rank[l]
    <2>1. CASE l = "S"
      BY <1>1, <2>1, LevelRanks
    <2>2. CASE l = "A"
      <3>1. k # "S"
        BY <1>3, <1>4, <2>2, ScaleChain
      <3> QED BY <1>1, <2>2, <3>1, LevelRanks
    <2>3. CASE l = "B"
      <3>1. k # "S" /\ k # "A"
        BY <1>3, <1>4, <2>3, ScaleChain
      <3> QED BY <1>1, <2>3, <3>1, LevelRanks
    <2>4. CASE l = "C"
      <3>1. k = "C"
        BY <1>1, <1>3, <1>4, <2>4, ScaleChain
      <3> QED BY <2>4, <3>1, LevelRanks
    <2> QED BY <1>2, <1>4, <2>1, <2>2, <2>3, <2>4
  <1> QED BY <1>1, <1>2, <1>5 DEF k, l

\* Better levels are not constrained to a worse one.
LEMMA ConstrainedMonotone ==
    ASSUME NEW i \in Level, NEW j \in Level, rank[i] <= rank[j],
           NEW c \in Level, NEW d \in Level, rank[c] <= rank[d],
           NEW L \in SUBSET Level, NEW M \in SUBSET Level, c \in L, d \in M,
           "C" \in M => "C" \in L
    PROVE  /\ Constrained(i, c, L) \in Level /\ Constrained(j, d, M) \in Level
           /\ rank[Constrained(i, c, L)] <= rank[Constrained(j, d, M)]
  <1>1. Constrained(i, c, L) = IF c = "C" \/ i = "C" THEN "C"
                               ELSE IF c = "B" \/ "C" \in L THEN "B" ELSE i
    BY ConstrainedLevel
  <1>2. Constrained(j, d, M) = IF d = "C" \/ j = "C" THEN "C"
                               ELSE IF d = "B" \/ "C" \in M THEN "B" ELSE j
    BY ConstrainedLevel
  <1>3. "B" \in Level /\ "C" \in Level
    BY DEF Level
  <1> QED BY <1>1, <1>2, <1>3, LevelRanks

LEMMA SumEqual ==
    ASSUME NEW S, IsFiniteSet(S), NEW f, NEW g, \A x \in S : f[x] \in Nat /\ g[x] = f[x]
    PROVE  SumOf(f, S) = SumOf(g, S)
  <1>1. SumOf(f, S) <= SumOf(g, S) /\ SumOf(g, S) <= SumOf(f, S)
    BY SumMonotone
  <1>2. SumOf(f, S) \in Nat /\ SumOf(g, S) \in Nat
    BY SumNat
  <1> QED BY <1>1, <1>2

LEMMA LeastValue ==
    ASSUME NEW S, S # {}, NEW f, \A x \in S : f[x] \in Nat
    PROVE  \E y \in S : \A x \in S : f[y] <= f[x]
  <1> DEFINE T == {f[x] : x \in S}
  <1>1. T \subseteq Nat /\ T # {}
    OBVIOUS
  <1>2. PICK m \in T : \A n \in T : <<n, m>> \notin OpToRel(<, Nat)
    <2> HIDE DEF T
    <2> QED BY <1>1, NatLessThanWellFounded, WFMin, Zenon
  <1>3. \A n \in T : ~(n < m)
    BY <1>1, <1>2 DEF OpToRel
  <1>4. PICK y \in S : m = f[y]
    BY <1>2
  <1>5. ASSUME NEW x \in S
        PROVE  f[y] <= f[x]
    <2>1. f[x] \in T /\ f[x] \in Nat /\ f[y] \in Nat
      OBVIOUS
    <2>2. ~(f[x] < f[y])
      BY <1>3, <1>4, <2>1
    <2> QED BY <2>1, <2>2
  <1> QED BY <1>5

-----------------------------------------------------------------------------
(* Averages, rounded.                                                        *)

Average(f, w, S) == HalfUp(SumOf([x \in S |-> f[x] * w[x]], S), SumOf(w, S))

\* An average is between the bounds of what it is an average of.
LEMMA AverageBounds ==
    ASSUME NEW S, IsFiniteSet(S), S # {}, NEW f, NEW w,
           \A x \in S : f[x] \in Nat /\ w[x] \in Nat \ {0}, NEW m \in Nat
    PROVE  /\ Average(f, w, S) \in Nat
           /\ (\A x \in S : f[x] <= m) => Average(f, w, S) <= m
           /\ (\A x \in S : m <= f[x]) => m <= Average(f, w, S)
  <1> DEFINE a == [x \in S |-> f[x] * w[x]]
             c == [x \in S |-> m * w[x]]
  <1>1. \A x \in S : a[x] \in Nat /\ c[x] \in Nat /\ a[x] = f[x] * w[x] /\ c[x] = m * w[x]
    BY ProductNat
  <1>2. SumOf(w, S) \in Nat \ {0}
    BY SumPositive
  <1>3. SumOf(c, S) = m * SumOf(w, S)
    BY SumScaled
  <1> HIDE DEF a, c
  <1>4. SumOf(a, S) \in Nat
    BY <1>1, SumNat
  <1>5. ASSUME \A x \in S : f[x] <= m
        PROVE  SumOf(a, S) <= m * SumOf(w, S)
    <2>1. ASSUME NEW x \in S
          PROVE  a[x] <= c[x]
      <3>1. f[x] \in Nat /\ w[x] \in Nat /\ f[x] <= m
        BY <1>5
      <3>2. f[x] * w[x] <= m * w[x]
        BY <3>1, ProductMonotone
      <3> QED BY <1>1, <3>2
    <2> QED BY <1>1, <1>3, <2>1, SumMonotone
  <1>6. ASSUME \A x \in S : m <= f[x]
        PROVE  m * SumOf(w, S) <= SumOf(a, S)
    <2>1. ASSUME NEW x \in S
          PROVE  c[x] <= a[x]
      <3>1. f[x] \in Nat /\ w[x] \in Nat /\ m <= f[x]
        BY <1>6
      <3>2. m * w[x] <= f[x] * w[x]
        BY <3>1, ProductMonotone
      <3> QED BY <1>1, <3>2
    <2> QED BY <1>1, <1>3, <2>1, SumMonotone
  <1>7. Average(f, w, S) = HalfUp(SumOf(a, S), SumOf(w, S))
    BY DEF Average, a
  <1> QED BY <1>2, <1>4, <1>5, <1>6, <1>7, HalfUpNat, HalfUpBounds

LEMMA AverageMonotone ==
    ASSUME NEW S, IsFiniteSet(S), NEW U \in SUBSET S, U # {},
           NEW f, NEW g, NEW w, NEW m \in Nat,
           \A x \in S : f[x] \in Nat /\ w[x] \in Nat \ {0},
           \A x \in U : g[x] \in Nat /\ f[x] <= g[x] /\ m <= g[x],
           \A x \in S \ U : f[x] <= m
    PROVE  Average(f, w, S) <= Average(g, w, U)
  <1> DEFINE a == [x \in S |-> f[x] * w[x]]
             b == [x \in U |-> g[x] * w[x]]
  <1>1. IsFiniteSet(U) /\ S # {}
    BY FS_Subset
  <1>2. SumOf(w, S) \in Nat \ {0} /\ SumOf(w, U) \in Nat \ {0}
    BY <1>1, SumPositive
  <1>3. SumOf(a, S) * SumOf(w, U) <= SumOf(b, U) * SumOf(w, S)
    BY AverageNotLower
  <1>4. SumOf(a, S) \in Nat /\ SumOf(b, U) \in Nat
    <2>1. \A x \in S : a[x] \in Nat
      BY ProductNat
    <2>2. \A x \in U : b[x] \in Nat
      BY ProductNat
    <2> HIDE DEF a, b
    <2> QED BY <1>1, <2>1, <2>2, SumNat
  <1> HIDE DEF a, b
  <1>5. HalfUp(SumOf(a, S), SumOf(w, S)) <= HalfUp(SumOf(b, U), SumOf(w, U))
    BY <1>2, <1>3, <1>4, HalfUpMonotone
  <1> QED BY <1>5 DEF Average, a, b

-----------------------------------------------------------------------------
(* The scores of a participant.                                              *)

AnswerTypes == [Reviewer -> Answers \cup {NoAnswer}]

\* What each reviewer gives a dimension, and the relations there are.
Points(answers, d) == [r \in Reviewer |-> CalculationScore(d, answers[r])]
One == [r \in Reviewer |-> 1]
Members(answers, rel) == {r \in Answered(answers) : RelationOf[r] = rel}
Relations(answers) == {RelationOf[r] : r \in Answered(answers)}
RelationScores(answers, d) ==
    [rel \in Relations(answers) |-> RelationScore(answers, d, rel)]

LEMMA PointsBounded ==
    ASSUME NEW answers \in AnswerTypes, NEW r \in Answered(answers), NEW d \in Dimension
    PROVE  /\ Points(answers, d)[r] \in Nat
           /\ Points(answers, d)[r] = CalculationScore(d, answers[r])
           /\ Points(answers, d)[r] <= Unit * Hundred
           /\ r \in Reviewer
  <1>1. r \in Reviewer /\ answers[r] \in Answers
    BY DEF Answered, AnswerTypes
  <1>2. Points(answers, d)[r] = CalculationScore(d, answers[r])
    BY <1>1 DEF Points
  <1>3. \A v \in 0 .. Hundred : Unit * v \in Nat /\ Unit * v <= Unit * Hundred
    BY ScaleAssumption, ProductNat, ProductMonotone DEF Hundred
  <1>4. CASE d \in Rated
    <2>1. answers[r].levels[d] \in Level
      BY <1>1, <1>4 DEF Answers
    <2>2. MappingScore[answers[r].levels[d]] \in 0 .. Hundred
      <3>1. MaxScore["S"] = Hundred /\ Hundred \in Nat
        BY ScaleAssumption DEF Hundred
      <3>2. \A l \in Level : MaxScore[l] \in Nat /\ MappingScore[l] \in Nat
        BY ScaleAssumption
      <3>3. \A l \in Level : MaxScore[l] <= Hundred
        BY <3>1, <3>2, ScaleChain DEF Level
      <3>4. \A l \in Level : MappingScore[l] < MaxScore[l] \/ MappingScore[l] = Hundred
        BY ScaleAssumption
      <3> QED BY <2>1, <3>1, <3>2, <3>3, <3>4
    <2> QED BY <1>1, <1>2, <1>3, <1>4, <2>2 DEF CalculationScore
  <1>5. CASE d \notin Rated
    <2>1. answers[r].scores[d] \in 0 .. Hundred
      BY <1>1, <1>5, ScaleAssumption DEF Answers
    <2> QED BY <1>1, <1>2, <1>3, <1>5, <2>1 DEF CalculationScore
  <1> QED BY <1>4, <1>5

LEMMA AnsweredFinite ==
    ASSUME NEW answers
    PROVE  /\ IsFiniteSet(Answered(answers)) /\ Answered(answers) \subseteq Reviewer
           /\ IsFiniteSet(Relations(answers))
           /\ \A rel : IsFiniteSet(Members(answers, rel))
           /\ \A rel \in Relations(answers) :
                /\ Members(answers, rel) # {}
                /\ BaseWeight[rel] \in Nat \ {0}
  <1>1. IsFiniteSet(Answered(answers)) /\ Answered(answers) \subseteq Reviewer
    BY WeightAssumption, FS_Subset DEF Answered
  <1>2. IsFiniteSet(Relations(answers))
    <2> DEFINE f == [r \in Answered(answers) |-> RelationOf[r]]
    <2>1. f \in Surjection(Answered(answers), Relations(answers))
      BY DEF Surjection, Relations
    <2> QED BY <1>1, <2>1, FS_Surjection
  <1>3. ASSUME NEW rel
        PROVE  IsFiniteSet(Members(answers, rel))
    BY <1>1, FS_Subset DEF Members
  <1>4. ASSUME NEW rel \in Relations(answers)
        PROVE  Members(answers, rel) # {} /\ BaseWeight[rel] \in Nat \ {0}
    BY <1>1, WeightAssumption DEF Members, Relations
  <1> QED BY <1>1, <1>2, <1>3, <1>4

\* The score of a relation is an average, with equal weights ..
LEMMA RelationAverage ==
    ASSUME NEW answers \in AnswerTypes, NEW d \in Dimension, NEW rel
    PROVE  RelationScore(answers, d, rel)
               = Average(Points(answers, d), One, Members(answers, rel))
  <1> DEFINE M == Members(answers, rel)
             f == Points(answers, d)
  <1>1. IsFiniteSet(M) /\ M \subseteq Answered(answers)
    BY AnsweredFinite DEF Members
  <1>2. MapThenSumSet(LAMBDA r : CalculationScore(d, answers[r]), M) = SumOf(f, M)
    <2>1. M \subseteq Reviewer
      BY <1>1, AnsweredFinite
    <2> HIDE DEF M
    <2> QED BY <2>1 DEF SumOf, MapThenSumSet, MapThenFoldSet, Points
  <1>3. RelationScore(answers, d, rel) = HalfUp(SumOf(f, M), Cardinality(M))
    BY <1>2 DEF RelationScore, Members
  <1>4. \A r \in M : f[r] \in Nat /\ One[r] = 1 /\ f[r] * One[r] = f[r]
    BY <1>1, PointsBounded DEF One
  <1>5. Cardinality(M) = SumOf(One, M)
    BY <1>1, <1>4, SumOfOnes
  <1>6. SumOf([r \in M |-> f[r] * One[r]], M) = SumOf(f, M)
    BY <1>1, <1>4, SumEqual
  <1> QED BY <1>3, <1>5, <1>6 DEF Average

\* .. and that of a dimension one of the relations, with the weights they have.
LEMMA DimensionAverage ==
    ASSUME NEW answers, NEW d
    PROVE  DimensionScore(answers, d)
               = Average(RelationScores(answers, d), BaseWeight, Relations(answers))
  <1> DEFINE R == Relations(answers)
             f == RelationScores(answers, d)
  <1>1. MapThenSumSet(LAMBDA rel : RelationScore(answers, d, rel) * BaseWeight[rel], R)
            = SumOf([rel \in R |-> f[rel] * BaseWeight[rel]], R)
    BY DEF SumOf, MapThenSumSet, MapThenFoldSet, RelationScores
  <1>2. ActiveWeight(R) = SumOf(BaseWeight, R)
    BY DEF ActiveWeight, SumOf
  <1> QED BY <1>1, <1>2 DEF DimensionScore, Average, Relations

LEMMA RelationScoreBounds ==
    ASSUME NEW answers \in AnswerTypes, NEW d \in Dimension,
           NEW rel \in Relations(answers), NEW m \in Nat
    PROVE  /\ RelationScore(answers, d, rel) \in Nat
           /\ (\A r \in Members(answers, rel) : Points(answers, d)[r] <= m)
                => RelationScore(answers, d, rel) <= m
           /\ (\A r \in Members(answers, rel) : m <= Points(answers, d)[r])
                => m <= RelationScore(answers, d, rel)
  <1> DEFINE M == Members(answers, rel)
             f == Points(answers, d)
  <1>1. IsFiniteSet(M) /\ M # {} /\ M \subseteq Answered(answers)
    BY AnsweredFinite DEF Members
  <1>2. \A r \in M : f[r] \in Nat /\ One[r] \in Nat \ {0}
    BY <1>1, PointsBounded DEF One
  <1>3. RelationScore(answers, d, rel) = Average(f, One, M)
    BY RelationAverage
  <1> HIDE DEF M, f
  <1>4. /\ Average(f, One, M) \in Nat
        /\ (\A r \in M : f[r] <= m) => Average(f, One, M) <= m
        /\ (\A r \in M : m <= f[r]) => m <= Average(f, One, M)
    BY <1>1, <1>2, AverageBounds
  <1> QED BY <1>3, <1>4 DEF M, f

\* A dimension that somebody answered has a score, of 0 to 100 points.
LEMMA DimensionScoreBounded ==
    ASSUME NEW answers \in AnswerTypes, NEW d \in Dimension, Answered(answers) # {}
    PROVE  DimensionScore(answers, d) \in Nat /\ DimensionScore(answers, d) <= Unit * Hundred
  <1> DEFINE R == Relations(answers)
             f == RelationScores(answers, d)
             m == Unit * Hundred
  <1>1. m \in Nat
    BY ScaleAssumption DEF Hundred
  <1>2. IsFiniteSet(R) /\ R # {} /\ \A rel \in R : BaseWeight[rel] \in Nat \ {0}
    BY AnsweredFinite DEF Relations
  <1>3. ASSUME NEW rel \in R
        PROVE  f[rel] \in Nat /\ f[rel] <= m
    <2>1. \A r \in Members(answers, rel) : Points(answers, d)[r] <= m
      BY PointsBounded DEF Members
    <2>2. f[rel] = RelationScore(answers, d, rel)
      BY DEF RelationScores
    <2> HIDE DEF m
    <2> QED BY <1>1, <2>1, <2>2, RelationScoreBounds
  <1>4. DimensionScore(answers, d) = Average(f, BaseWeight, R)
    BY DimensionAverage
  <1> HIDE DEF R, f, m
  <1>5. Average(f, BaseWeight, R) \in Nat /\ Average(f, BaseWeight, R) <= m
    BY <1>1, <1>2, <1>3, AverageBounds
  <1> QED BY <1>4, <1>5 DEF m

\* Everybody who still answers says nothing worse than before, and nobody who no
\* longer does said anything better than they do.
Improves(before, after) ==
    /\ Answered(after) # {} /\ Answered(after) \subseteq Answered(before)
    /\ \A s \in Answered(after), d \in Dimension :
        /\ CalculationScore(d, before[s]) <= CalculationScore(d, after[s])
        /\ \A r \in Answered(before) \ Answered(after) :
             CalculationScore(d, before[r]) <= CalculationScore(d, after[s])

LEMMA DimensionImproves ==
    ASSUME NEW before \in AnswerTypes, NEW after \in AnswerTypes, Improves(before, after),
           NEW d \in Dimension
    PROVE  DimensionScore(before, d) <= DimensionScore(after, d)
  <1> DEFINE a == Points(before, d)
             b == Points(after, d)
             R == Relations(before)
             U == Relations(after)
             f == RelationScores(before, d)
             g == RelationScores(after, d)
  <1>1. Answered(after) # {} /\ Answered(after) \subseteq Answered(before)
    BY DEF Improves
  <1>2. \A r \in Answered(before) : a[r] \in Nat /\ a[r] = CalculationScore(d, before[r])
    BY PointsBounded
  <1>3. \A s \in Answered(after) : b[s] \in Nat /\ b[s] = CalculationScore(d, after[s])
    BY PointsBounded
  <1>4. PICK y \in Answered(after) : \A s \in Answered(after) : b[y] <= b[s]
    <2> HIDE DEF b
    <2> QED BY <1>1, <1>3, LeastValue
  <1> DEFINE m == b[y]
  <1>5. m \in Nat /\ \A s \in Answered(after) : m <= b[s]
    BY <1>3, <1>4
  <1>6. \A s \in Answered(after) : a[s] <= b[s]
    BY <1>1, <1>2, <1>3 DEF Improves
  <1>7. \A r \in Answered(before) \ Answered(after) : a[r] <= m
    BY <1>1, <1>2, <1>3 DEF Improves
  <1> HIDE DEF m
  <1>8. ASSUME NEW rel \in R
        PROVE  f[rel] \in Nat /\ f[rel] = RelationScore(before, d, rel)
    BY RelationScoreBounds DEF RelationScores
  <1>9. ASSUME NEW rel \in U
        PROVE  g[rel] \in Nat /\ g[rel] = RelationScore(after, d, rel) /\ m <= g[rel]
    <2>1. \A s \in Members(after, rel) : m <= Points(after, d)[s]
      BY <1>5 DEF Members
    <2> QED BY <1>5, <2>1, RelationScoreBounds DEF RelationScores
  <1>10. U \subseteq R
    BY <1>1 DEF Relations
  <1>11. ASSUME NEW rel \in U
         PROVE  f[rel] <= g[rel]
    <2> DEFINE M == Members(before, rel)
               N == Members(after, rel)
    <2>1. IsFiniteSet(M) /\ N \in SUBSET M /\ N # {}
      BY <1>1, AnsweredFinite DEF Members
    <2>2. \A r \in M : a[r] \in Nat /\ One[r] \in Nat \ {0}
      <3>1. M \subseteq Answered(before) /\ M \subseteq Reviewer
        BY AnsweredFinite DEF Members
      <3> QED BY <1>2, <3>1 DEF One
    <2>3. \A r \in N : b[r] \in Nat /\ a[r] <= b[r] /\ m <= b[r]
      BY <1>3, <1>5, <1>6 DEF Members
    <2>4. \A r \in M \ N : a[r] <= m
      BY <1>7 DEF Members
    <2>5. RelationScore(before, d, rel) = Average(a, One, M)
      BY RelationAverage
    <2>6. RelationScore(after, d, rel) = Average(b, One, N)
      BY RelationAverage
    <2> HIDE DEF a, b, M, N
    <2>7. Average(a, One, M) <= Average(b, One, N)
      BY <1>5, <2>1, <2>2, <2>3, <2>4, AverageMonotone
    <2> QED BY <1>8, <1>9, <1>10, <2>5, <2>6, <2>7
  <1>12. ASSUME NEW rel \in R \ U
         PROVE  f[rel] <= m
    <2>1. \A r \in Members(before, rel) : r \in Answered(before) \ Answered(after)
      BY DEF Members, Relations
    <2>2. \A r \in Members(before, rel) : Points(before, d)[r] <= m
      BY <1>7, <2>1
    <2> QED BY <1>5, <1>8, <2>2, RelationScoreBounds
  <1>13. IsFiniteSet(R) /\ \A rel \in R : BaseWeight[rel] \in Nat \ {0}
    BY AnsweredFinite
  <1>14. U # {}
    BY <1>1 DEF Relations
  <1>15. DimensionScore(before, d) = Average(f, BaseWeight, R)
    BY DimensionAverage
  <1>16. DimensionScore(after, d) = Average(g, BaseWeight, U)
    BY DimensionAverage
  <1> HIDE DEF f, g, R, U
  <1>17. Average(f, BaseWeight, R) <= Average(g, BaseWeight, U)
    BY <1>5, <1>8, <1>9, <1>10, <1>11, <1>12, <1>13, <1>14, AverageMonotone
  <1> QED BY <1>15, <1>16, <1>17

-----------------------------------------------------------------------------
(* The composite and the level.                                              *)

LEMMA Weights ==
    /\ Hundred \in Nat \ {0} /\ Unit \in Nat \ {0} /\ IsFiniteSet(Dimension)
    /\ \A d \in Dimension : WeightOf[d] \in Nat
    /\ SumOf(WeightOf, Dimension) = Hundred
  <1>1. WeightOf \in [Dimension -> 1 .. Hundred] /\ IsFiniteSet(Dimension)
    BY WeightAssumption, Zenon
  <1>2. Hundred \in Nat \ {0}
    BY DEF Hundred
  <1>3. SumOf(WeightOf, Dimension) = Hundred
    BY WeightAssumption DEF SumOf
  <1> QED BY <1>1, <1>2, <1>3, ScaleAssumption

\* A score for each dimension, of 0 to 100 points.
ScoreTypes == {scores \in [Dimension -> Nat] : \A d \in Dimension : scores[d] <= Unit * Hundred}

Weighted(scores) == [d \in Dimension |-> HalfUp(scores[d] * WeightOf[d], Hundred)]

LEMMA WeightedSum ==
    ASSUME NEW scores \in ScoreTypes
    PROVE  /\ \A d \in Dimension : Weighted(scores)[d] \in Nat
           /\ CompositeScore(scores) = HalfUp(SumOf(Weighted(scores), Dimension), Unit) * Unit
           /\ SumOf(Weighted(scores), Dimension) \in Nat
           /\ SumOf(Weighted(scores), Dimension) <= Unit * Hundred
  <1> DEFINE f == Weighted(scores)
             c == [d \in Dimension |-> Unit * WeightOf[d]]
  <1>1. Hundred \in Nat \ {0} /\ Unit \in Nat /\ IsFiniteSet(Dimension)
    BY Weights
  <1>2. ASSUME NEW d \in Dimension
        PROVE  /\ f[d] \in Nat /\ c[d] \in Nat /\ f[d] <= c[d]
               /\ WeightOf[d] \in Nat
    <2>1. WeightOf[d] \in Nat /\ scores[d] \in Nat /\ scores[d] <= Unit * Hundred
      BY Weights DEF ScoreTypes
    <2>2. scores[d] * WeightOf[d] \in Nat /\ Unit * Hundred \in Nat /\ Unit * WeightOf[d] \in Nat
      BY <1>1, <2>1, ProductNat
    <2>3. scores[d] * WeightOf[d] <= (Unit * Hundred) * WeightOf[d]
      BY <2>1, <2>2, ProductMonotone
    <2>4. (Unit * Hundred) * WeightOf[d] = (Unit * WeightOf[d]) * Hundred
      BY <1>1, <2>1
    <2>5. HalfUp(scores[d] * WeightOf[d], Hundred) <= Unit * WeightOf[d]
      BY <1>1, <2>2, <2>3, <2>4, HalfUpBounds
    <2>6. HalfUp(scores[d] * WeightOf[d], Hundred) \in Nat
      BY <1>1, <2>2, HalfUpNat
    <2> QED BY <2>1, <2>2, <2>5, <2>6 DEF Weighted
  <1>3. MapThenSumSet(LAMBDA d : HalfUp(scores[d] * WeightOf[d], Hundred), Dimension)
            = SumOf(f, Dimension)
    BY DEF SumOf, MapThenSumSet, MapThenFoldSet, Weighted
  <1>4. CompositeScore(scores) = HalfUp(SumOf(f, Dimension), Unit) * Unit
    BY <1>3 DEF CompositeScore
  <1>5. SumOf(c, Dimension) = Unit * Hundred
    BY <1>1, <1>2, Weights, SumScaled
  <1> HIDE DEF f, c
  <1>6. SumOf(f, Dimension) \in Nat /\ SumOf(f, Dimension) <= SumOf(c, Dimension)
    BY <1>1, <1>2, SumNat, SumMonotone
  <1> QED BY <1>2, <1>4, <1>5, <1>6 DEF f

LEMMA CompositeMonotone ==
    ASSUME NEW scores \in ScoreTypes, NEW better \in ScoreTypes,
           \A d \in Dimension : scores[d] <= better[d]
    PROVE  /\ CompositeScore(scores) \in Nat
           /\ CompositeScore(better) \in Nat
           /\ CompositeScore(scores) <= CompositeScore(better)
           /\ CompositeScore(better) <= Unit * Hundred
  <1> DEFINE s == SumOf(Weighted(scores), Dimension)
             t == SumOf(Weighted(better), Dimension)
  <1>1. Hundred \in Nat \ {0} /\ Unit \in Nat \ {0} /\ IsFiniteSet(Dimension)
    BY Weights
  <1>2. s \in Nat /\ t \in Nat /\ t <= Unit * Hundred
    BY WeightedSum
  <1>3. CompositeScore(scores) = HalfUp(s, Unit) * Unit
    BY WeightedSum
  <1>4. CompositeScore(better) = HalfUp(t, Unit) * Unit
    BY WeightedSum
  <1>5. s <= t
    <2>1. ASSUME NEW d \in Dimension
          PROVE  Weighted(scores)[d] <= Weighted(better)[d]
      <3>1. WeightOf[d] \in Nat /\ scores[d] \in Nat /\ better[d] \in Nat
        BY Weights DEF ScoreTypes
      <3>2. /\ scores[d] * WeightOf[d] \in Nat /\ better[d] * WeightOf[d] \in Nat
            /\ scores[d] * WeightOf[d] <= better[d] * WeightOf[d]
        BY <3>1, ProductNat, ProductMonotone
      <3>3. (scores[d] * WeightOf[d]) * Hundred <= (better[d] * WeightOf[d]) * Hundred
        BY <1>1, <3>2, ProductMonotone
      <3>4. HalfUp(scores[d] * WeightOf[d], Hundred) <= HalfUp(better[d] * WeightOf[d], Hundred)
        BY <1>1, <3>2, <3>3, HalfUpMonotone
      <3> QED BY <3>4 DEF Weighted
    <2>2. \A d \in Dimension : Weighted(scores)[d] \in Nat /\ Weighted(better)[d] \in Nat
      BY WeightedSum
    <2> QED BY <1>1, <2>1, <2>2, SumMonotone
  <1> HIDE DEF s, t
  <1>6. HalfUp(s, Unit) \in Nat /\ HalfUp(t, Unit) \in Nat /\ HalfUp(s, Unit) <= HalfUp(t, Unit)
    <2>1. s * Unit <= t * Unit
      BY <1>1, <1>2, <1>5, ProductMonotone
    <2> QED BY <1>1, <1>2, <2>1, HalfUpNat, HalfUpMonotone
  <1>7. HalfUp(t, Unit) <= Hundred
    <2>1. t <= Hundred * Unit
      BY <1>1, <1>2
    <2> QED BY <1>1, <1>2, <2>1, HalfUpBounds
  <1>8. HalfUp(s, Unit) * Unit <= HalfUp(t, Unit) * Unit
    BY <1>1, <1>6, ProductMonotone
  <1>9. HalfUp(t, Unit) * Unit <= Hundred * Unit
    BY <1>1, <1>6, <1>7, ProductMonotone
  <1>10. HalfUp(s, Unit) * Unit \in Nat /\ HalfUp(t, Unit) * Unit \in Nat
    BY <1>1, <1>6, ProductNat
  <1>11. Hundred * Unit = Unit * Hundred
    BY <1>1
  <1> QED BY <1>3, <1>4, <1>8, <1>9, <1>10, <1>11

\* The calculator: what is nowhere worse is not rated worse.
LEMMA ComputedMonotone ==
    ASSUME NEW before \in AnswerTypes, NEW after \in AnswerTypes, Improves(before, after),
           NEW red \in BOOLEAN
    PROVE  /\ rank[Computed(before, red).final] <= rank[Computed(after, red).final]
           /\ Computed(before, red).composite <= Computed(after, red).composite
  <1> DEFINE s == [d \in Dimension |-> DimensionScore(before, d)]
             t == [d \in Dimension |-> DimensionScore(after, d)]
             K == [d \in Dimension |-> LevelForScore(s[d])]
             L == [d \in Dimension |-> LevelForScore(t[d])]
             i == LevelForScore(CompositeScore(s))
             j == LevelForScore(CompositeScore(t))
             k == Constrained(i, K[Core], {K[d] : d \in Dimension})
             l == Constrained(j, L[Core], {L[d] : d \in Dimension})
  <1>1. Answered(after) # {} /\ Answered(before) # {}
    BY DEF Improves
  <1>2. Computed(before, red) =
            [status |-> "READY", dimensions |-> K, composite |-> CompositeScore(s),
             initial |-> i, final |-> IF red THEN "C" ELSE k]
    BY <1>1 DEF Computed
  <1>3. Computed(after, red) =
            [status |-> "READY", dimensions |-> L, composite |-> CompositeScore(t),
             initial |-> j, final |-> IF red THEN "C" ELSE l]
    BY <1>1 DEF Computed
  <1>4. s \in ScoreTypes /\ t \in ScoreTypes
    BY <1>1, DimensionScoreBounded DEF ScoreTypes
  <1>5. \A d \in Dimension : s[d] <= t[d]
    BY DimensionImproves
  <1> HIDE DEF s, t
  <1>6. /\ CompositeScore(s) \in Nat /\ CompositeScore(t) \in Nat
        /\ CompositeScore(s) <= CompositeScore(t)
        /\ CompositeScore(t) <= Unit * Hundred
    BY <1>4, <1>5, CompositeMonotone
  <1>7. i \in Level /\ j \in Level /\ rank[i] <= rank[j]
    BY <1>6, LevelMonotone
  <1>8. ASSUME NEW d \in Dimension
        PROVE  K[d] \in Level /\ L[d] \in Level /\ rank[K[d]] <= rank[L[d]]
    <2>1. s[d] \in Nat /\ t[d] \in Nat /\ s[d] <= t[d] /\ t[d] <= Unit * Hundred
      BY <1>4, <1>5 DEF ScoreTypes
    <2> QED BY <2>1, LevelMonotone
  <1> HIDE DEF K, L, i, j
  <1>9. Core \in Dimension
    BY WeightAssumption
  <1>10. "C" \in {L[d] : d \in Dimension} => "C" \in {K[d] : d \in Dimension}
    <2> SUFFICES ASSUME NEW d \in Dimension, L[d] = "C"
                 PROVE  K[d] = "C"
      OBVIOUS
    <2> QED BY <1>8, LevelRanks
  <1>11. rank[k] <= rank[l]
    BY <1>7, <1>8, <1>9, <1>10, ConstrainedMonotone
  <1> HIDE DEF k, l
  <1>12. rank[IF red THEN "C" ELSE k] <= rank[IF red THEN "C" ELSE l]
    BY <1>11, LevelRanks
  <1> QED BY <1>2, <1>3, <1>6, <1>12

\* The stored result is that of the answers there are: every change recalculates.
ScoreInv ==
    /\ answer \in AnswerTypes
    /\ redLine \in BOOLEAN
    /\ computed = Computed(answer, redLine)

LEMMA ScoreInvStep == ScoreInv /\ [ScoreNext]_scoreVars => ScoreInv'
  <1> SUFFICES ASSUME ScoreInv, [ScoreNext]_scoreVars
               PROVE  ScoreInv'
    OBVIOUS
  <1>1. ASSUME NEW r \in Reviewer, SubmitAnswers(r)
        PROVE  ScoreInv'
    <2>1. answer' \in AnswerTypes
      BY <1>1 DEF SubmitAnswers, ScoreInv, AnswerTypes
    <2> QED BY <1>1, <2>1 DEF SubmitAnswers, ScoreInv
  <1>2. ASSUME NEW r \in Reviewer, DropAnswers(r)
        PROVE  ScoreInv'
    <2>1. answer' \in AnswerTypes
      BY <1>2 DEF DropAnswers, ScoreInv, AnswerTypes
    <2> QED BY <1>2, <2>1 DEF DropAnswers, ScoreInv
  <1>3. ASSUME RedLineChanges
        PROVE  ScoreInv'
    BY <1>3 DEF RedLineChanges, ScoreInv
  <1>4. CASE UNCHANGED scoreVars
    BY <1>4 DEF scoreVars, ScoreInv
  <1> QED BY <1>1, <1>2, <1>3, <1>4 DEF ScoreNext

LEMMA ScoreInitInv == ScoreInit => ScoreInv
  <1> SUFFICES ASSUME ScoreInit
               PROVE  ScoreInv
    OBVIOUS
  <1>1. answer \in AnswerTypes /\ Answered(answer) = {}
    BY DEF ScoreInit, AnswerTypes, Answered
  <1> QED BY <1>1 DEF ScoreInit, ScoreInv, Computed

\* With both results stored, one step relates two calculations.
LEMMA PraiseStep ==
    ScoreInv /\ ScoreInv' =>
        (NowhereWorse(answer, answer') \/ HarshestDropped(answer, answer')
            => redLine' # redLine
               \/ /\ rank[computed.final] <= rank[computed'.final]
                  /\ computed.composite <= computed'.composite)
  <1> SUFFICES ASSUME ScoreInv, ScoreInv', redLine' = redLine,
                      NowhereWorse(answer, answer') \/ HarshestDropped(answer, answer')
               PROVE  /\ rank[computed.final] <= rank[computed'.final]
                      /\ computed.composite <= computed'.composite
    OBVIOUS
  <1>1. answer \in AnswerTypes /\ answer' \in AnswerTypes /\ redLine \in BOOLEAN
    BY DEF ScoreInv
  <1>2. computed = Computed(answer, redLine) /\ computed' = Computed(answer', redLine)
    BY DEF ScoreInv
  <1>3. CASE NowhereWorse(answer, answer')
    <2>1. Improves(answer, answer')
      BY <1>3 DEF NowhereWorse, Improves
    <2> QED BY <1>1, <1>2, <2>1, ComputedMonotone
  <1>4. CASE HarshestDropped(answer, answer')
    <2>1. ASSUME NEW s \in Answered(answer'), NEW d \in Dimension
          PROVE  CalculationScore(d, answer[s]) = CalculationScore(d, answer'[s])
                 /\ CalculationScore(d, answer[s]) \in Nat
      <3>1. answer[s] = answer'[s] /\ s \in Answered(answer)
        BY <1>4 DEF HarshestDropped
      <3> QED BY <1>1, <3>1, PointsBounded
    <2>2. Improves(answer, answer')
      BY <1>4, <2>1 DEF HarshestDropped, Improves
    <2> QED BY <1>1, <1>2, <2>2, ComputedMonotone
  <1> QED BY <1>3, <1>4

\* No answer that is nowhere worse, and no loss of the harshest reviewer, lowers the
\* level or the composite: the averages, the weights spread over the relations that
\* answered, the rounding at every quotient, the ends of the level intervals and the
\* constraints go together for every configuration, not only for the one of the run.
THEOREM BetterIsNotLower == ScoreSpec => PraiseNeverLowers
  <1>1. ScoreSpec => []ScoreInv
    BY ScoreInitInv, ScoreInvStep, PTL DEF ScoreSpec
  <1>2. ScoreInv /\ ScoreInv' /\ [ScoreNext]_scoreVars =>
          [NowhereWorse(answer, answer') \/ HarshestDropped(answer, answer')
             => redLine' # redLine
                \/ /\ rank[computed.final] <= rank[computed'.final]
                   /\ computed.composite <= computed'.composite]_scoreVars
    BY PraiseStep
  <1> QED BY <1>1, <1>2, PTL DEF ScoreSpec, PraiseNeverLowers

LEMMA GreatestValue ==
    ASSUME NEW S, S # {}, NEW f, NEW b \in Nat, \A x \in S : f[x] \in Nat /\ f[x] <= b
    PROVE  \E y \in S : \A x \in S : f[x] <= f[y]
  <1> DEFINE T == {f[x] : x \in S}
  <1>1. T # {} /\ T \subseteq 0 .. b
    OBVIOUS
  <1>2. Max(T) \in T /\ \A n \in T : Max(T) >= n
    <2> HIDE DEF T
    <2> QED BY <1>1, MaxOfBounded
  <1> DEFINE m == Max(T)
  <1> HIDE DEF m
  <1>3. PICK y \in S : m = f[y]
    BY <1>2 DEF m
  <1>4. ASSUME NEW x \in S
        PROVE  f[x] <= f[y]
    <2>1. f[x] \in T /\ f[x] \in Nat /\ f[y] \in Nat
      OBVIOUS
    <2>2. m >= f[x]
      BY <1>2, <2>1 DEF m
    <2> QED BY <1>3, <2>1, <2>2
  <1> QED BY <1>4

\* The score of a dimension is between those of any bounds of its answers.
LEMMA DimensionScoreBetween ==
    ASSUME NEW answers \in AnswerTypes, NEW d \in Dimension, Answered(answers) # {},
           NEW low \in Nat, NEW high \in Nat,
           \A r \in Answered(answers) :
               low <= Points(answers, d)[r] /\ Points(answers, d)[r] <= high
    PROVE  low <= DimensionScore(answers, d) /\ DimensionScore(answers, d) <= high
  <1> DEFINE R == Relations(answers)
             f == RelationScores(answers, d)
  <1>1. IsFiniteSet(R) /\ R # {} /\ \A rel \in R : BaseWeight[rel] \in Nat \ {0}
    BY AnsweredFinite DEF Relations
  <1>2. ASSUME NEW rel \in R
        PROVE  f[rel] \in Nat /\ low <= f[rel] /\ f[rel] <= high
    <2>1. \A r \in Members(answers, rel) :
              low <= Points(answers, d)[r] /\ Points(answers, d)[r] <= high
      BY DEF Members
    <2>2. f[rel] = RelationScore(answers, d, rel)
      BY DEF RelationScores
    <2>3. RelationScore(answers, d, rel) \in Nat /\ low <= RelationScore(answers, d, rel)
      BY <2>1, RelationScoreBounds
    <2>4. RelationScore(answers, d, rel) <= high
      BY <2>1, RelationScoreBounds
    <2> QED BY <2>2, <2>3, <2>4
  <1>3. DimensionScore(answers, d) = Average(f, BaseWeight, R)
    BY DimensionAverage
  <1> HIDE DEF R, f
  <1>4. low <= Average(f, BaseWeight, R)
    BY <1>1, <1>2, AverageBounds
  <1>5. Average(f, BaseWeight, R) <= high
    BY <1>1, <1>2, AverageBounds
  <1> QED BY <1>3, <1>4, <1>5

\* A dimension that everybody puts in one level has this level.
LEMMA UnanimousLevel ==
    ASSUME NEW answers \in AnswerTypes, NEW d \in Dimension, Answered(answers) # {},
           NEW l \in Level,
           \A r \in Answered(answers) : LevelForScore(CalculationScore(d, answers[r])) = l
    PROVE  LevelForScore(DimensionScore(answers, d)) = l
  <1> DEFINE f == Points(answers, d)
             s == DimensionScore(answers, d)
             b == Unit * Hundred
  <1>1. \A r \in Answered(answers) : f[r] \in Nat /\ f[r] <= b /\ LevelForScore(f[r]) = l
    BY PointsBounded
  <1>2. b \in Nat
    BY ScaleAssumption DEF Hundred
  <1>3. s \in Nat /\ s <= b
    BY DimensionScoreBounded
  <1> HIDE DEF f, s, b
  <1>4. PICK y \in Answered(answers) : \A r \in Answered(answers) : f[y] <= f[r]
    BY <1>1, LeastValue
  <1>5. PICK z \in Answered(answers) : \A r \in Answered(answers) : f[r] <= f[z]
    BY <1>1, <1>2, GreatestValue
  <1>6. f[y] <= s /\ s <= f[z]
    BY <1>1, <1>4, <1>5, DimensionScoreBetween DEF f, s
  <1>7. LevelForScore(s) \in Level /\ rank[l] <= rank[LevelForScore(s)]
    BY <1>1, <1>3, <1>6, LevelMonotone DEF b
  <1>8. rank[LevelForScore(s)] <= rank[l]
    BY <1>1, <1>3, <1>6, LevelMonotone DEF b
  <1>9. rank[LevelForScore(s)] = rank[l]
    BY <1>7, <1>8, LevelRanks
  <1>10. LevelForScore(s) = l
    BY <1>7, <1>9, LevelRanks
  <1> QED BY <1>10 DEF s

\* What the final level may not exceed, as a set that knows no order.
CeilingsOf(initial, core, levels, red) ==
    {l \in Level : \/ l = initial
                   \/ l = "C" /\ (red \/ core = "C")
                   \/ l = "B" /\ (core = "B" \/ "C" \in levels)}

LEMMA FinalIsWorst ==
    ASSUME NEW initial \in Level, NEW levels \in SUBSET Level, NEW core \in levels,
           NEW red \in BOOLEAN,
           NEW final, final = IF red THEN "C" ELSE Constrained(initial, core, levels)
    PROVE  /\ final \in CeilingsOf(initial, core, levels, red)
           /\ \A l \in CeilingsOf(initial, core, levels, red) : rank[final] <= rank[l]
  <1> DEFINE S == CeilingsOf(initial, core, levels, red)
  <1>1. "C" \in Level /\ "B" \in Level
    BY DEF Level
  <1>2. /\ initial \in S
        /\ "C" \in S <=> (initial = "C" \/ red \/ core = "C")
        /\ "B" \in S <=> (initial = "B" \/ core = "B" \/ "C" \in levels)
        /\ \A l \in S : l \in Level /\ l \in {initial, "B", "C"}
    BY <1>1 DEF CeilingsOf
  <1> HIDE DEF S
  <1>3. CASE red
    <2>1. final = "C" /\ "C" \in S
      BY <1>2, <1>3
    <2>2. \A l \in S : rank["C"] <= rank[l]
      BY <1>2, LevelRanks
    <2> QED BY <2>1, <2>2 DEF S
  <1>4. CASE ~red
    <2>1. final = IF core = "C" \/ initial = "C" THEN "C"
                  ELSE IF core = "B" \/ "C" \in levels THEN "B" ELSE initial
      BY <1>4, ConstrainedLevel
    <2>2. CASE core = "C" \/ initial = "C"
      <3>1. final = "C" /\ "C" \in S
        BY <1>2, <2>1, <2>2
      <3>2. \A l \in S : rank["C"] <= rank[l]
        BY <1>2, LevelRanks
      <3> QED BY <3>1, <3>2 DEF S
    <2>3. CASE core # "C" /\ initial # "C" /\ (core = "B" \/ "C" \in levels)
      <3>1. final = "B" /\ "B" \in S /\ "C" \notin S
        BY <1>2, <1>4, <2>1, <2>3
      <3>2. \A l \in Level : l # "C" => rank["B"] <= rank[l]
        BY LevelRanks
      <3>3. \A l \in S : rank["B"] <= rank[l]
        BY <1>2, <3>1, <3>2
      <3> QED BY <3>1, <3>3 DEF S
    <2>4. CASE core # "C" /\ initial # "C" /\ core # "B" /\ "C" \notin levels
      <3>1. final = initial /\ initial \in S /\ "C" \notin S /\ ("B" \in S => initial = "B")
        BY <1>2, <1>4, <2>1, <2>4
      <3>2. \A l \in S : l = initial
        BY <1>2, <3>1
      <3>3. rank[initial] <= rank[initial]
        BY LevelRanks
      <3> QED BY <3>1, <3>2, <3>3 DEF S
    <2> QED BY <2>2, <2>3, <2>4
  <1> QED BY <1>3, <1>4

\* LevelsAreEarned: for every number of reviewers, relations, dimensions, weights and every
\* scale, what all say of a dimension survives averages and rounding, and the final level
\* is the worst of composite, dimensions and red line, whatever the order in which the
\* constraints and the red line are applied.
THEOREM LevelsEarned == ScoreSpec => []LevelsAreEarned
  <1>1. ScoreInv => LevelsAreEarned
    <2> SUFFICES ASSUME ScoreInv, Answered(answer) # {}
                 PROVE  /\ \A d \in Dimension, l \in Level :
                            (\A r \in Answered(answer) :
                                LevelForScore(CalculationScore(d, answer[r])) = l)
                            => computed.dimensions[d] = l
                        /\ computed.final \in Ceilings
                        /\ \A l \in Ceilings : rank[computed.final] <= rank[l]
      BY DEF LevelsAreEarned
    <2> DEFINE s == [d \in Dimension |-> DimensionScore(answer, d)]
               K == [d \in Dimension |-> LevelForScore(s[d])]
               i == LevelForScore(CompositeScore(s))
               f == IF redLine THEN "C"
                    ELSE Constrained(i, K[Core], {K[d] : d \in Dimension})
    <2>1. answer \in AnswerTypes /\ redLine \in BOOLEAN
      BY DEF ScoreInv
    <2>2. computed = [status |-> "READY", dimensions |-> K, composite |-> CompositeScore(s),
                      initial |-> i, final |-> f]
      BY DEF ScoreInv, Computed
    <2>3. s \in ScoreTypes
      BY <2>1, DimensionScoreBounded DEF ScoreTypes
    <2>4. ASSUME NEW d \in Dimension, NEW l \in Level,
                 \A r \in Answered(answer) :
                     LevelForScore(CalculationScore(d, answer[r])) = l
          PROVE  K[d] = l
      BY <2>1, <2>4, UnanimousLevel
    <2> HIDE DEF s
    <2>5. K \in [Dimension -> Level]
      <3>1. ASSUME NEW d \in Dimension
            PROVE  LevelForScore(s[d]) \in Level
        BY <2>3, LevelOfScore DEF ScoreTypes
      <3> QED BY <3>1
    <2>6. i \in Level
      <3>1. /\ CompositeScore(s) \in Nat /\ CompositeScore(s) <= Unit * Hundred
        <4>1. \A d \in Dimension : s[d] <= s[d]
          BY <2>3 DEF ScoreTypes
        <4> QED BY <2>3, <4>1, CompositeMonotone
      <3> QED BY <3>1, LevelOfScore
    <2>7. computed.dimensions = K /\ computed.initial = i /\ computed.final = f
      BY <2>2
    <2> DEFINE L == {K[d] : d \in Dimension}
    <2>8. L \in SUBSET Level /\ K[Core] \in L /\ ("C" \in L <=> \E d \in Dimension : K[d] = "C")
      <3>1. Core \in Dimension
        BY WeightAssumption
      <3> HIDE DEF K
      <3> QED BY <2>5, <3>1
    <2>9. f = IF redLine THEN "C" ELSE Constrained(i, K[Core], L)
      OBVIOUS
    <2> HIDE DEF K, L, i, f
    <2>10. Ceilings = CeilingsOf(i, K[Core], L, redLine)
      BY <2>7, <2>8 DEF Ceilings, CeilingsOf
    <2>11. f \in Ceilings /\ \A l \in Ceilings : rank[f] <= rank[l]
      BY <2>1, <2>6, <2>8, <2>9, <2>10, FinalIsWorst
    <2> QED BY <2>4, <2>7, <2>11
  <1>2. ScoreSpec => []ScoreInv
    BY ScoreInitInv, ScoreInvStep, PTL DEF ScoreSpec
  <1> QED BY <1>1, <1>2, PTL

=============================================================================
