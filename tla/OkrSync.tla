-------------------------------- MODULE OkrSync --------------------------------
(***************************************************************************)
(* The copy of one employee's OKR rows from Lark.                          *)
(*                                                                         *)
(* A full run over all employees and a run started from a page work on the *)
(* same rows under different Redis locks.  A lock has a time to live and   *)
(* no owner: whoever finishes deletes it.  A run asks Lark for one OKR     *)
(* cycle after another (here each holds one objective), stores what it     *)
(* gets, and at the end removes the rows nobody has written since it       *)
(* began.  Lark's data may change at any time.  The status keys are only   *)
(* shown to people and left out.                                           *)
(***************************************************************************)
EXTENDS Naturals, FiniteSets

CONSTANTS
    Run,         \* runs under way at the same time
    Objective,   \* the employee's objectives
    Kind         \* of a run: full, or from a page; a lock for each

VARIABLES
    upstream,    \* external: the objectives Lark has
    stored,      \* the objectives with rows
    lock,        \* per kind: the Redis key exists
    run,         \* what each run is doing
    expired,     \* a lock expired under a run of its kind
    refused,     \* objectives answered with HTTP 400 to a run of the present overlap
    alone,       \* the run that has had no other beside it, if there is one
    once         \* what Lark has had at some time since that run began

okrVars == <<upstream, stored, lock, run, expired, refused, alone, once>>

\* What a run has before it: objectives to ask for, one to store.  written: rows
\* stored since it began, by whomever (synced_at >= syncStartedAt).  always: what
\* Lark has had all the time since it began.
NoRun == [kind |-> "none"]
RunUnderWay ==
    [kind : Kind, ask : SUBSET Objective, store : SUBSET Objective,
     written : SUBSET Objective, always : SUBSET Objective]
Running == {r \in Run : run[r] # NoRun}

OkrTypeOK ==
    /\ upstream \cup stored \cup refused \cup once \subseteq Objective
    /\ lock \in [Kind -> BOOLEAN]
    /\ run \in [Run -> RunUnderWay \cup {NoRun}]
    /\ expired \subseteq Kind
    /\ alone \subseteq Running

OkrInit ==
    /\ upstream = {} /\ stored = {} /\ refused = {}
    /\ lock = [k \in Kind |-> FALSE]
    /\ run = [r \in Run |-> NoRun]
    /\ expired = {} /\ alone = {} /\ once = {}

-----------------------------------------------------------------------------

\* SET ... NX.
LockFree(k) == ~lock[k]

\* triggerSync, triggerUserSync.
TriggerRun(r, k) ==
    /\ run[r] = NoRun
    /\ LockFree(k)
    /\ lock' = [lock EXCEPT ![k] = TRUE]
    /\ run' = [run EXCEPT ![r] =
                  [kind |-> k, ask |-> Objective, store |-> {}, written |-> {},
                   always |-> upstream]]
    /\ alone' = IF Running = {} THEN {r} ELSE {}
    /\ once' = IF Running = {} THEN upstream ELSE {}
    /\ refused' = IF Running = {} THEN {} ELSE refused
    /\ UNCHANGED <<upstream, stored, expired>>

\* syncUser, syncCycleObjectives: one answer of Lark, with or without the objective,
\* or refused with 400, which continueOnBadRequest counts as an answer without it.
AskForObjective(r, o) ==
    /\ run[r] # NoRun
    /\ run[r].store = {} /\ o \in run[r].ask
    /\ \/ /\ run' = [run EXCEPT ![r].ask = @ \ {o}, ![r].store = upstream \cap {o}]
          /\ UNCHANGED refused
       \/ /\ run' = [run EXCEPT ![r].ask = @ \ {o}]
          /\ refused' = refused \cup {o}
    /\ UNCHANGED <<upstream, stored, lock, expired, alone, once>>

\* Mutant: synced_at is the start of the run that writes.
WrittenForItself(r, o) == [run EXCEPT ![r].written = @ \cup {o}]

\* synced_at is the time of the write, so the row counts for every run under way.
WrittenForAll(r, o) ==
    [q \in Run |-> IF run[q] = NoRun THEN NoRun
                    ELSE [run[q] EXCEPT !.written = @ \cup {o}]]

\* upsertObjective and what is below it.
StoreObjective(r) ==
    /\ run[r] # NoRun
    /\ \E o \in run[r].store :
        /\ stored' = stored \cup {o}
        /\ run' = [WrittenForAll(r, o) EXCEPT ![r].store = {}]
    /\ UNCHANGED <<upstream, lock, expired, refused, alone, once>>

\* redis.del, whoever holds the lock by now.
FreedLock(k) == [lock EXCEPT ![k] = FALSE]

\* The end of a run.
EndRun(r) ==
    /\ run' = [run EXCEPT ![r] = NoRun]
    /\ alone' = alone \ {r} /\ once' = {}
    /\ lock' = FreedLock(run[r].kind)
    /\ UNCHANGED <<upstream, expired, refused>>

\* Mutant: cleans up although the listing was cut short.
ReadyAnyway(r) == run[r].store = {}

\* The loop over pages and cycles has ended without an error.
AllAsked(r) == run[r].ask = {} /\ run[r].store = {}

\* cleanupStaleUserData.
WithoutStale(r) == stored \cap run[r].written

CleanUp(r) ==
    /\ run[r] # NoRun /\ AllAsked(r)
    /\ stored' = WithoutStale(r)
    /\ EndRun(r)

\* Any other error ends the employee's part without a cleanup.
FailRun(r) ==
    /\ run[r] # NoRun
    /\ UNCHANGED stored
    /\ EndRun(r)

\* The time to live of a lock passes.
ExpireLock(k) ==
    /\ lock[k]
    /\ lock' = [lock EXCEPT ![k] = FALSE]
    /\ expired' = expired \cup {k : r \in {q \in Running : run[q].kind = k}}
    /\ UNCHANGED <<upstream, stored, run, refused, alone, once>>

\* The process ends: locks and status keys stay.
CrashRuns ==
    /\ Running # {}
    /\ run' = [r \in Run |-> NoRun]
    /\ alone' = {} /\ once' = {}
    /\ UNCHANGED <<upstream, stored, lock, expired, refused>>

\* external: somebody writes or deletes an objective in Lark.
LarkChanges(o) ==
    /\ upstream' = IF o \in upstream THEN upstream \ {o} ELSE upstream \cup {o}
    /\ run' = [r \in Run |-> IF run[r] = NoRun THEN NoRun
                ELSE [run[r] EXCEPT !.always = @ \cap upstream']]
    /\ once' = IF alone = {} THEN {} ELSE once \cup upstream'
    /\ UNCHANGED <<stored, lock, expired, refused, alone>>

OkrNext ==
    \/ \E r \in Run :
        \/ \E k \in Kind : TriggerRun(r, k)
        \/ \E o \in Objective : AskForObjective(r, o)
        \/ StoreObjective(r) \/ CleanUp(r) \/ FailRun(r)
    \/ \E k \in Kind : ExpireLock(k)
    \/ CrashRuns
    \/ \E o \in Objective : LarkChanges(o)

OkrSpec == OkrInit /\ [][OkrNext]_okrVars

-----------------------------------------------------------------------------
(* Properties.                                                              *)

\* The run that ends in this step, everything asked and cleaned up.
Finishes(r) ==
    r \in Running /\ AllAsked(r) /\ run'[r] = NoRun /\ stored' = stored \cap run[r].written

\* Two runs of one kind work at the same time only after a lock of this kind has
\* expired under a run: the unconditional delete in `finally` frees the lock of a
\* later run, but never without such an expiry.
LocksSerialise ==
    \A q, r \in Running : q # r /\ run[q].kind = run[r].kind => run[r].kind \in expired

\* A row is removed only if Lark had no such objective at some time of the run that
\* removes it, or answered 400 for it, to this run or to one beside it: the time of
\* the write protects what an overlapping run has just stored.
RemovedWasGone ==
    [][\A o \in stored \ stored' :
          o \in refused \/ \E r \in Running : AllAsked(r) /\ o \notin run[r].always]_okrVars

\* After a successful run every objective that was there all the time is stored, the
\* refused ones excepted, whatever ran beside it; and after one that ran alone
\* nothing is stored that Lark has not had during the run.
SuccessIsExact ==
    [][\A r \in Run : Finishes(r) =>
          /\ run[r].always \subseteq stored' \cup refused
          /\ r \in alone => stored' \subseteq once]_okrVars

\* What the comment in runFullSync says of the cleanup: a row is removed only if Lark
\* has been without the objective, never because access to it failed.
AccessErrorsKeepRows ==
    [][\A o \in stored \ stored' :
          \E r \in Running : AllAsked(r) /\ o \notin run[r].always]_okrVars
=============================================================================
