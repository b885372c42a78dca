------------------------ MODULE ResultChainSnapshots ------------------------
(***************************************************************************)
(* The result chain with archive and rollback, as the database runs them.  *)
(*                                                                         *)
(* Both run at isolation level Serializable, and their first statement is   *)
(* SELECT .. FOR UPDATE on the cycle row.  PostgreSQL takes the snapshot    *)
(* of such a transaction before that statement waits for the row lock: what *)
(* the handlers ahead of it in the lock queue commit is not in it.  The     *)
(* transaction fails only when a row it locks or updates was updated since  *)
(* the snapshot; the handlers of a participant lock the cycle row without   *)
(* updating it, and run at READ COMMITTED, outside the serialisable         *)
(* conflict check.  A change of the cycle itself updates its row.           *)
(***************************************************************************)
EXTENDS ResultChain

VARIABLES
    archiveTx,    \* an archive waits with a snapshot that shows no blocker
    rollbackTx,   \* the waiting rollback, if any: target, decisions in its snapshot
    reopened,     \* history: whose status changed while the archive waited
    survived      \* history: who kept a decision the last rollback had not seen

vars == <<rowVars, archiveTx, rollbackTx, reopened, survived>>

\* Whether buildPreview of the archive reports a blocker for the participant.
Blocked(p) ==
    \/ status[p] \notin {"NO_RESULT", "WITHDRAWN"} /\ submitted[p] # Stage
    \/ OpenAppeals(p) # {}
    \/ status[p] \in ResultStatus /\ ValidDecisions(p) = {}
    \/ status[p] \in ResultStatus /\ CurrentVersion(p) = {}
    \/ status[p] = "CONFIRMED" /\ \A v \in CurrentVersion(p) : ~versions[p][v].confirmed
    \/ status[p] \notin {"CONFIRMED", "NO_RESULT", "WITHDRAWN"}

-----------------------------------------------------------------------------
(* Plausible mistakes.                                                      *)

\* Archive stops at the first participant who is done.
BeginWhenOneIsDone ==
    /\ cycle = "ACTIVE"
    /\ ~archiveTx
    /\ \E p \in Participant : ~Blocked(p)
    /\ archiveTx' = TRUE
    /\ reopened' = {}
    /\ UNCHANGED <<rowVars, rollbackTx, survived>>

\* The rollback forgets the result rows.
InvalidateDecisionsOnly(tx) ==
    /\ decisions' = [p \in Participant |->
          [d \in DOMAIN decisions[p] |-> [decisions[p][d] EXCEPT !.valid = FALSE]]]
    /\ UNCHANGED <<versions, appeals>>

\* The rollback forgets the evaluation locks.
ResetStatusOnly ==
    /\ UNCHANGED locked
    /\ status' = [p \in Participant |->
          IF status[p] \in ResultStatus THEN "ACTIVE" ELSE status[p]]

\* Only employees who have not answered are told that their result is void.
EventsForUnanswered ==
    UNION {{<<"RESULT_INVALIDATED", p, v>> : v \in CurrentVersion(p)} :
              p \in {q \in Participant : status[q] = "RESULT_PUBLISHED"}}

-----------------------------------------------------------------------------
(* Archive.                                                                 *)

\* The snapshot is taken; its blockers are what archive will recompute from it.  The
\* previewed revision can always be that of the snapshot: previewing only reads.
BeginArchive ==
    /\ cycle = "ACTIVE"
    /\ ~archiveTx
    /\ \A p \in Participant : ~Blocked(p)
    /\ archiveTx' = TRUE
    /\ reopened' = {}
    /\ UNCHANGED <<rowVars, rollbackTx, survived>>

\* The lock is granted and the cycle row was not updated meanwhile.
CommitArchive ==
    /\ archiveTx
    /\ cycle' = "ARCHIVED"
    /\ archiveTx' = FALSE
    /\ rollbackTx' = {}
    /\ UNCHANGED <<inputVars, chainVars, page, batch, reopened, survived>>

-----------------------------------------------------------------------------
(* Rollback.                                                                *)

BeginRollback(target) ==
    /\ cycle = "ACTIVE"
    /\ rollbackTx = {}
    /\ rollbackTx' = {[target |-> target,
                       seen   |-> [p \in Participant |-> Len(decisions[p])]]}
    /\ UNCHANGED <<rowVars, archiveTx, reopened, survived>>

InvalidateResults ==
    /\ versions' = [p \in Participant |->
          [v \in DOMAIN versions[p] |-> [versions[p][v] EXCEPT !.valid = FALSE]]]
    /\ appeals' = [p \in Participant |->
          [a \in DOMAIN appeals[p] |-> [appeals[p][a] EXCEPT !.valid = FALSE]]]

\* updateMany sees the rows of the snapshot only.
InvalidateSnapshot(tx) ==
    /\ decisions' = [p \in Participant |->
          [d \in DOMAIN decisions[p] |->
              [decisions[p][d] EXCEPT !.valid = @ /\ d > tx.seen[p]]]]
    /\ InvalidateResults

ReleaseParticipants ==
    /\ locked' = [p \in Participant |-> FALSE]
    /\ status' = [p \in Participant |->
          IF status[p] \in ResultStatus THEN "ACTIVE" ELSE status[p]]

InvalidationEvents ==
    UNION {{<<"RESULT_INVALIDATED", p, v>> : v \in CurrentVersion(p)} : p \in Participant}

\* The chain of the snapshot is invalidated, locks are released, the participants of
\* the chain go back to ACTIVE, those with a current version are told.
CommitRollback ==
    /\ \E tx \in rollbackTx :
          /\ cycle' = tx.target
          /\ InvalidateSnapshot(tx)
          /\ survived' = {p \in Participant : \E d \in ValidDecisions(p) : d > tx.seen[p]}
    /\ ReleaseParticipants
    /\ outbox' = outbox \cup InvalidationEvents
    /\ archiveTx' = FALSE
    /\ rollbackTx' = {}
    /\ reopened' = {}
    /\ UNCHANGED <<inputVars, page, batch>>

-----------------------------------------------------------------------------
(* What the others do to a waiting archive or rollback.                     *)

\* A serialisation failure, a timeout or a lost connection.
AbortTx ==
    /\ archiveTx \/ rollbackTx # {}
    /\ archiveTx' = FALSE
    /\ rollbackTx' = {}
    /\ reopened' = {}
    /\ UNCHANGED <<rowVars, survived>>

\* The rollback also locks the participant rows, and fails when one was updated.
\* A further decision on a locked participant, a red line and a SELF submission do
\* not update the row; every other handler of the participant does.
ParticipantRowUpdated(p) ==
    \/ status[p] # status'[p]
    \/ locked[p] # locked'[p]
    \/ versions[p] # versions'[p]
    \/ appeals[p] # appeals'[p]
    \/ \E l \in Level : SubmitManager(p, l)

HandlerStep(p) ==
    /\ ParticipantStep(p)
    /\ rollbackTx' = IF ParticipantRowUpdated(p) THEN {} ELSE rollbackTx
    /\ reopened' = IF archiveTx /\ status'[p] # status[p] THEN reopened \cup {p} ELSE reopened
    /\ UNCHANGED <<archiveTx, survived>>

\* publishCycle reads its candidates without a lock.
BatchStep ==
    /\ StartPublish \/ PublishAborted
    /\ UNCHANGED <<archiveTx, rollbackTx, reopened, survived>>

\* Every other change of the cycle updates its row: what waits for the lock fails.
CycleRowStep ==
    /\ CycleStep
    /\ archiveTx' = FALSE
    /\ rollbackTx' = {}
    /\ reopened' = {}
    /\ UNCHANGED survived

-----------------------------------------------------------------------------

Init ==
    /\ RowsInit
    /\ archiveTx = FALSE
    /\ rollbackTx = {}
    /\ reopened = {}
    /\ survived = {}

Next ==
    \/ \E p \in Participant : HandlerStep(p)
    \/ BatchStep
    \/ CycleRowStep
    \/ BeginArchive
    \/ CommitArchive
    \/ \E target \in {"DRAFT", "SCHEDULED"} : BeginRollback(target)
    \/ CommitRollback
    \/ AbortTx

Spec == Init /\ [][Next]_vars

-----------------------------------------------------------------------------
(* What the snapshots leave of the rules of the chain.                      *)

\* The evaluation lock, the participant status and the valid decisions tell the same
\* story.  Only somebody whose decision a rollback had not seen may have one in force and
\* be unlocked: he was released, and his decision was not.
LockFollowsChain ==
    \A p \in Participant :
        /\ locked[p] => status[p] \in ResultStatus
        /\ status[p] \in ResultStatus => ValidDecisions(p) # {}
        /\ p \notin survived => (ValidDecisions(p) # {} => locked[p])

\* What the status promises about the current version: one while published, appealed, to
\* be reconfirmed or CONFIRMED, none outside the chain; confirmed when CONFIRMED.  The
\* other way round, a CALIBRATED participant has none and a confirmed one is CONFIRMED,
\* but for somebody with a decision a rollback had not seen: published by a batch that
\* was read before the rollback, he is unlocked and the next decision starts afresh.
StatusFollowsVersion ==
    \A p \in Participant :
        /\ status[p] \in ResultStatus \ {"CALIBRATED"} => CurrentVersion(p) # {}
        /\ CurrentVersion(p) # {} => status[p] \in ResultStatus
        /\ \A v \in CurrentVersion(p) :
              /\ status[p] = "CONFIRMED" => versions[p][v].confirmed
              /\ p \notin survived =>
                    /\ status[p] # "CALIBRATED"
                    /\ versions[p][v].confirmed => status[p] = "CONFIRMED"

\* Everything is settled for a participant: confirmed, or without a result, and no appeal.
Settled(p) ==
    /\ status[p] \in {"CONFIRMED", "NO_RESULT", "WITHDRAWN"}
    /\ status[p] = "CONFIRMED" => \E v \in CurrentVersion(p) : versions[p][v].confirmed
    /\ OpenAppeals(p) = {}

\* ADR 0055, as far as it goes: in an archived cycle everybody is settled whose status did
\* not change between the snapshot of the archive and its commit.
ClosedUnlessReopened ==
    cycle = "ARCHIVED" => \A p \in Participant \ reopened : Settled(p)

\* ADR 0053: a cycle that is (back) in preparation has no locked participant, no result
\* and no appeal in force, for any of its participants, and no decision but one the
\* rollback had not seen.
ChainOnlyWhileRunning ==
    cycle \in {"DRAFT", "SCHEDULED"} =>
        \A p \in Participant :
            /\ ~locked[p]
            /\ status[p] \notin ResultStatus
            /\ CurrentVersion(p) = {}
            /\ ValidAppeals(p) = {}
            /\ ValidDecisions(p) # {} => p \in survived

-----------------------------------------------------------------------------
(* What an employee is promised.                                            *)

Promise == INSTANCE EmployeeResult WITH
    closed <- cycle = "ARCHIVED",
    shown  <- [p \in Participant |->
                  {[number    |-> versions[p][v].number,
                    level     |-> versions[p][v].level,
                    confirmed |-> versions[p][v].confirmed] : v \in CurrentVersion(p)}],
    count  <- [p \in Participant |-> Len(versions[p])]

\* Across decisions, red lines, repeated publications, appeals, archive and rollback the
\* result shown to an employee, the current version, changes only as EmployeeResult
\* allows.  The one thing lost is that the cycle may be closed while a result published or
\* appealed behind the snapshot still awaits its confirmation.
PromiseButForClosing ==
    /\ Promise!Init
    /\ [][\/ Promise!Next
          \/ /\ cycle = "ACTIVE" /\ cycle' = "ARCHIVED" /\ UNCHANGED chainVars
             /\ \A p \in Participant \ reopened :
                    \A v \in CurrentVersion(p) : versions[p][v].confirmed]_(Promise!vars)

-----------------------------------------------------------------------------
(* What the documents say and the code does not do: a run refutes it.         *)

\* ADR 0055, and the comment that the blockers are recomputed under the row lock: in an
\* archived cycle everybody is settled.
ArchivedIsClosed == cycle = "ARCHIVED" => \A p \in Participant : Settled(p)

=============================================================================
