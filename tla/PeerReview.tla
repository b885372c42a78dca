------------------------------ MODULE PeerReview ------------------------------
(***************************************************************************)
(* The 360 degree review of one participant: who is assigned, who has      *)
(* submitted, the PEER task, and the stored PEER stage result.             *)
(*                                                                         *)
(* A saved list, a replacement, a transfer of the assessment leader, a     *)
(* view of the result and a change of the configuration or the forms each  *)
(* read before they write; Begin and Commit take them apart, and any       *)
(* number of them overlap.  What a commit checks again under the row locks *)
(* of the cycle and the participant, in conditional updates, by the        *)
(* partial unique index and by the trigger on assignments is in the        *)
(* commit.  Submissions and batchAdd check everything there and are one    *)
(* action.                                                                 *)
(*                                                                         *)
(* A change is Serializable, with a snapshot that is older than the lock   *)
(* it waits for: it fails when a row it writes or locks was written since, *)
(* and does not see a row that is new or that it only reads.  It makes a   *)
(* new version of the configuration; results are kept by version.          *)
(*                                                                         *)
(* A result is the set of submissions it was computed from; how a level    *)
(* comes out of them is in module StageScore.                              *)
(***************************************************************************)
EXTENDS Naturals, FiniteSets, Sequences

CONSTANTS
    Person,         \* colleagues who may review or lead the participant
    Request,        \* requests that overlap
    MaxAssignments  \* bound: rows of assignments

ASSUME PersonAssumption == IsFiniteSet(Person)
ASSUME MaxAssignmentsAssumption == MaxAssignments \in Nat \ {0}

VARIABLES
    cycle,       \* ACTIVE, or DRAFT for the preparation (DRAFT and SCHEDULED)
    leader,      \* leaderOpenIdSnapshot
    promoted,    \* the master data made somebody leader who had still to answer
    status,      \* ACTIVE, LOCKED for a calibration and what follows it, or WITHDRAWN
    assignment,  \* the rows, in order of their ids
    submission,       \* per reviewer the assignment its one effective submission belongs to
    done,        \* completedAt of the PEER task is set
    result,      \* what the result of the current version was computed from
    lag,         \* why that may not be what counts today: "none", an "old read", "reapplied"
    request      \* what each request has read

leaderVars == <<leader, promoted>>
resultVars == <<result, lag>>
peerVars == <<cycle, leaderVars, status, assignment, submission, done, resultVars>>
vars == <<peerVars, request>>

Id == 1 .. MaxAssignments
NoId == 0
NoResult == {NoId}
Ids == 1 .. Len(assignment)

AssignmentRow == [reviewer : Person, status : {"PENDING", "SUBMITTED", "REPLACED"}]

Idle == [kind |-> "idle"]
UpsertRequest == [kind : {"upsert"}, remove : SUBSET Id, add : SUBSET Person]
ReplaceRequest == [kind : {"replace"}, id : Id, add : Person, submitted : BOOLEAN]
TransferRequest == [kind : {"transfer"}, from : Person, to : Person]
ViewRequest == [kind : {"view"}, counted : SUBSET Id]
\* `form` says that the PEER form changes, `sent` who has a submission.
ChangeRequest == [kind : {"change"}, form : BOOLEAN, sent : SUBSET Person, counted : SUBSET Id]
RequestState == {Idle} \cup UpsertRequest \cup ReplaceRequest \cup TransferRequest
                       \cup ViewRequest \cup ChangeRequest

TypeOK ==
    /\ cycle \in {"ACTIVE", "DRAFT"}
    /\ leader \in Person /\ promoted \in BOOLEAN
    /\ status \in {"ACTIVE", "LOCKED", "WITHDRAWN"}
    /\ assignment \in Seq(AssignmentRow) /\ Len(assignment) <= MaxAssignments
    /\ submission \in [Person -> Id \cup {NoId}]
    /\ done \in BOOLEAN
    /\ result = NoResult \/ result \subseteq Ids
    /\ lag \in {"none", "old read", "reapplied"}
    /\ request \in [Request -> RequestState]

Init ==
    /\ cycle = "ACTIVE"
    /\ leader \in Person /\ promoted = FALSE
    /\ status = "ACTIVE"
    /\ assignment = <<>>
    /\ submission = [p \in Person |-> NoId]
    /\ done = FALSE
    /\ result = NoResult /\ lag = "none"
    /\ request = [q \in Request |-> Idle]

-----------------------------------------------------------------------------
(* Queries.                                                                 *)

Active(rows) == {i \in 1 .. Len(rows) : rows[i].status # "REPLACED"}
Pending(rows) == {i \in 1 .. Len(rows) : rows[i].status = "PENDING"}
ReviewersOf(rows) == {rows[i].reviewer : i \in Active(rows)}

\* recalculate: submissions whose own assignment is SUBMITTED.
Effective(rows, subs) ==
    {subs[p] : p \in {x \in Person : subs[x] # NoId /\ rows[subs[x]].status = "SUBMITTED"}}

\* lockHumanWrite.
WriteAllowed == cycle = "ACTIVE" /\ status = "ACTIVE"

\* Mutant: the trigger is gone, and with it the only look at the leader of today.
InsertableByIndex(rows, people) == people \cap ReviewersOf(rows) = {}

\* What the unique index and the trigger let in.
Insertable(rows, people) == people \cap ReviewersOf(rows) = {} /\ leader \notin people

\* The rows of `people`, in any order, after `rows`.
Appended(rows, people) ==
    {rows \o s : s \in {t \in [1 .. Cardinality(people) -> AssignmentRow] :
        /\ {t[i].reviewer : i \in DOMAIN t} = people
        /\ \A i \in DOMAIN t : t[i].status = "PENDING"}}

Replaced(rows, ids) ==
    [i \in 1 .. Len(rows) |-> IF i \in ids THEN [rows[i] EXCEPT !.status = "REPLACED"] ELSE rows[i]]

\* Bounds the runs: how many people one request adds.
Few == {people \in SUBSET Person : Cardinality(people) <= 2}

Fits(people) == Len(assignment) + Cardinality(people) <= MaxAssignments

Begin(q, what) == request[q] = Idle /\ request' = [request EXCEPT ![q] = what]
End(ended) == request' = [q \in Request |-> IF q \in ended THEN Idle ELSE request[q]]

\* Who writes the row of the cycle or the participant fails every change that waits.
Changes == {q \in Request : request[q].kind = "change"}

\* With a new version, what an open view writes is the result of the old one.
OfThisVersion == {q \in Request : request[q].kind \in {"view", "change"}}

-----------------------------------------------------------------------------
(* Saving the list.                                                         *)

\* upsertReviewers reads the participant and the current rows; a wish to remove a
\* submitted assignment is refused at once, and rows the page has not seen stay.
BeginUpsert(q, remove, add) ==
    /\ status # "WITHDRAWN"
    /\ remove \cup add # {} /\ Fits(add)
    /\ remove \subseteq Pending(assignment)
    /\ Insertable(assignment, add)
    /\ Begin(q, [kind |-> "upsert", remove |-> remove, add |-> add])
    /\ UNCHANGED peerVars

\* Mutant: rows are removed by id, as they were read.
RemovableAsRead(remove) == remove \subseteq Ids

\* The conditional updates: each row must still be PENDING, or the transaction fails.
StillRemovable(remove) == remove \subseteq Pending(assignment)

CommitUpsert(q) ==
    /\ request[q].kind = "upsert"
    /\ LET remove == request[q].remove
           add == request[q].add
           kept == Replaced(assignment, remove)
       IN  IF WriteAllowed /\ Fits(add) /\ StillRemovable(remove) /\ Insertable(kept, add)
           THEN /\ assignment' \in Appended(kept, add)
                /\ done' = (done /\ add = {})
           ELSE UNCHANGED <<assignment, done>>
    /\ End({q})
    /\ UNCHANGED <<cycle, leaderVars, status, submission, resultVars>>

\* Rows that exist are skipped; the task is not touched.
BatchAdd(add) ==
    LET fresh == add \ ReviewersOf(assignment)
    IN  /\ WriteAllowed
        /\ leader \notin add
        /\ fresh # {} /\ Fits(fresh)
        /\ assignment' \in Appended(assignment, fresh)
        /\ UNCHANGED <<cycle, leaderVars, status, submission, done, resultVars, request>>

-----------------------------------------------------------------------------
(* Replacing a reviewer, changing the leader.                               *)

BeginReplace(q, id, p) ==
    /\ status # "WITHDRAWN"
    /\ id \in Active(assignment)
    /\ Insertable(assignment, {p})
    /\ Begin(q, [kind |-> "replace", id |-> id, add |-> p,
                 submitted |-> assignment[id].status = "SUBMITTED"])
    /\ UNCHANGED peerVars

\* Mutant: the task is left complete.
ReopenedByReplacement == done

\* The new reviewer has still to answer.
TaskAfterReplacement == FALSE

\* The result is computed again if the row was SUBMITTED when it was read.
CommitReplace(q) ==
    /\ request[q].kind = "replace"
    /\ LET id == request[q].id
           kept == Replaced(assignment, {id})
       IN  IF WriteAllowed /\ Fits({request[q].add}) /\ id \in Active(assignment)
              /\ Insertable(kept, {request[q].add})
           THEN /\ assignment' \in Appended(kept, {request[q].add})
                /\ done' = TaskAfterReplacement
                /\ IF request[q].submitted
                   THEN result' = Effective(kept, submission) /\ lag' = "none"
                   ELSE /\ lag' = IF assignment[id].status = "SUBMITTED" THEN "old read" ELSE lag
                        /\ UNCHANGED result
           ELSE UNCHANGED <<assignment, done, resultVars>>
    /\ End({q})
    /\ UNCHANGED <<cycle, leaderVars, status, submission>>

BeginTransfer(q, p) ==
    /\ status # "WITHDRAWN"
    /\ p # leader
    /\ Begin(q, [kind |-> "transfer", from |-> leader, to |-> p])
    /\ UNCHANGED peerVars

\* The new leader's assignment goes unless it is submitted.
PendingOf(p) == {i \in Pending(assignment) : assignment[i].reviewer = p}

\* The status is not looked at again, the expected leader is.
CommitTransfer(q) ==
    /\ request[q].kind = "transfer"
    /\ IF leader = request[q].from
       THEN /\ leader' = request[q].to /\ promoted' = FALSE
            /\ assignment' = Replaced(assignment, PendingOf(request[q].to))
            /\ End({q} \cup Changes)
       ELSE End({q}) /\ UNCHANGED <<leaderVars, assignment>>
    /\ UNCHANGED <<cycle, status, submission, done, resultVars>>

-----------------------------------------------------------------------------
(* Answers and results.                                                     *)

\* Mutant: the submission of an earlier assignment is updated where it is.
KeepsAssignment(id) ==
    LET old == submission[assignment[id].reviewer] IN IF old = NoId THEN id ELSE old

\* The one effective submission of a reviewer moves to the assignment of today.
SubmissionOf(id) == id

\* The claim sets the status; the trigger refuses a reviewer who leads by now.  A change
\* that has seen the submission fails when it is written again, and misses a first one.
SubmitPeer(id) ==
    LET p == assignment[id].reviewer
    IN  /\ WriteAllowed
        /\ id \in Active(assignment)
        /\ p # leader
        /\ assignment' = [assignment EXCEPT ![id].status = "SUBMITTED"]
        /\ submission' = [submission EXCEPT ![p] = SubmissionOf(id)]
        /\ result' = Effective(assignment', submission') /\ lag' = "none"
        /\ done' = (done \/ Pending(assignment') = {})
        /\ End({q \in Changes : p \in request[q].sent})
        /\ UNCHANGED <<cycle, leaderVars, status>>

\* getForManager recalculates outside of any transaction.
BeginView(q) ==
    /\ Begin(q, [kind |-> "view", counted |-> Effective(assignment, submission)])
    /\ UNCHANGED peerVars

\* What was read counts no longer.
LagOf(counted) == IF counted = Effective(assignment, submission) THEN "none" ELSE "old read"

CommitView(q) ==
    /\ request[q].kind = "view"
    /\ result' = request[q].counted
    /\ lag' = LagOf(request[q].counted)
    /\ End({q})
    /\ UNCHANGED <<cycle, leaderVars, status, assignment, submission, done>>

\* A request that fails or is given up leaves nothing.
Abandon(q) ==
    /\ request[q] # Idle
    /\ End({q})
    /\ UNCHANGED peerVars

-----------------------------------------------------------------------------
(* New versions of the configuration.                                       *)

Senders == {p \in Person : submission[p] # NoId}

\* A change of the calculation, of the PEER form or of another form.  The PEER form may
\* change in preparation, or as long as the change sees no submission.
BeginChange(q, form) ==
    /\ form => cycle = "DRAFT" \/ Senders = {}
    /\ Begin(q, [kind |-> "change", form |-> form, sent |-> Senders,
                 counted |-> Effective(assignment, submission)])
    /\ UNCHANGED peerVars

\* migrateSubmissions: an assignment whose submission became a draft is PENDING again.
AssignmentsReopened(people) ==
    [i \in 1 .. Len(assignment) |->
        IF /\ assignment[i].status = "SUBMITTED" /\ assignment[i].reviewer \in people
           /\ submission[assignment[i].reviewer] = i
        THEN [assignment[i] EXCEPT !.status = "PENDING"] ELSE assignment[i]]

\* Mutant: results are not kept by version.
ResultsOfOldVersion(change) == {result}

\* Recalculated from what the change has read, unless the form is a new one or nothing
\* was there.
ResultsOfNewVersion(change) ==
    IF change.form THEN {NoResult}
    ELSE {change.counted} \cup (IF change.sent = {} THEN {NoResult} ELSE {})

\* With a new form the submissions it has read become drafts; the trigger lets nobody who
\* leads become PENDING.
CommitChange(q) ==
    LET change == request[q]
        redone == IF change.form THEN change.sent ELSE {}
    IN  /\ change.kind = "change"
        /\ assignment' = AssignmentsReopened(redone)
        /\ \A i \in Ids : assignment'[i] # assignment[i] => assignment[i].reviewer # leader
        /\ submission' = [p \in Person |-> IF p \in redone THEN NoId ELSE submission[p]]
        /\ done' = (done /\ redone = {})
        /\ result' \in ResultsOfNewVersion(change)
        /\ lag' = LagOf(change.counted)
        /\ End(OfThisVersion)
        /\ UNCHANGED <<cycle, leaderVars, status>>

\* The leader of the master data, whatever is assigned to him.
Refresh(p) ==
    /\ leader' = p
    /\ promoted' = \E i \in Pending(assignment) : assignment[i].reviewer = p

\* reapplyPublishedConfig: submissions stay, and no result is calculated.
Reapply(p) ==
    /\ cycle = "DRAFT"
    /\ Refresh(p)
    /\ result' = NoResult /\ lag' = "reapplied"
    /\ End(OfThisVersion)
    /\ UNCHANGED <<cycle, status, assignment, submission, done>>

-----------------------------------------------------------------------------
(* The cycle and the participant.                                           *)

Start(p) ==
    /\ cycle = "DRAFT"
    /\ cycle' = "ACTIVE"
    /\ Refresh(p)
    /\ End(Changes)
    /\ UNCHANGED <<status, assignment, submission, done, resultVars>>

\* Takes a calibration back, but not a NO_RESULT.
RollBack ==
    /\ cycle = "ACTIVE"
    /\ cycle' = "DRAFT"
    /\ status' = status \/ (status = "LOCKED" /\ status' = "ACTIVE")
    /\ End(Changes)
    /\ UNCHANGED <<leaderVars, assignment, submission, done, resultVars>>

\* Calibrated or marked NO_RESULT.
Lock ==
    /\ WriteAllowed
    /\ status' = "LOCKED"
    /\ End(Changes)
    /\ UNCHANGED <<cycle, leaderVars, assignment, submission, done, resultVars>>

\* NO_RESULT is revoked.
Unlock ==
    /\ cycle = "ACTIVE" /\ status = "LOCKED"
    /\ status' = "ACTIVE"
    /\ End(Changes)
    /\ UNCHANGED <<cycle, leaderVars, assignment, submission, done, resultVars>>

Withdraw ==
    /\ cycle = "ACTIVE" /\ status # "WITHDRAWN"
    /\ status' = "WITHDRAWN"
    /\ done' = TRUE
    /\ End(Changes)
    /\ UNCHANGED <<cycle, leaderVars, assignment, submission, resultVars>>

Next ==
    \/ \E q \in Request :
          \/ \E remove \in SUBSET Ids, add \in Few : BeginUpsert(q, remove, add)
          \/ \E id \in Ids, p \in Person : BeginReplace(q, id, p)
          \/ \E p \in Person : BeginTransfer(q, p)
          \/ BeginView(q)
          \/ \E form \in BOOLEAN : BeginChange(q, form)
          \/ CommitUpsert(q) \/ CommitReplace(q) \/ CommitTransfer(q) \/ CommitView(q)
          \/ CommitChange(q)
          \/ Abandon(q)
    \/ \E add \in Few : BatchAdd(add)
    \/ \E id \in Ids : SubmitPeer(id)
    \/ \E p \in Person : Reapply(p) \/ Start(p)
    \/ RollBack \/ Lock \/ Unlock \/ Withdraw

Spec == Init /\ [][Next]_vars

-----------------------------------------------------------------------------
(* Properties.                                                              *)

\* An assignment that is in force counts as submitted exactly while the one effective
\* submission of its reviewer belongs to it: reassigning somebody, replacing and
\* changing the form keep the two tables together.
SubmittedIsBacked ==
    \A i \in Active(assignment) :
        assignment[i].status = "SUBMITTED" <=> submission[assignment[i].reviewer] = i

\* Nobody holds two assignments in force, and whoever leads has none to answer, although
\* lists are saved on an old view of both and forms change: unless a reapplied
\* configuration or a second start took a leader from the master data who had one.
OneRolePerPerson ==
    /\ \A i, j \in Active(assignment) :
          assignment[i].reviewer = assignment[j].reviewer => i = j
    /\ promoted \/ \A i \in Pending(assignment) : assignment[i].reviewer # leader

\* A submission stops counting only by an explicit replacement of its reviewer or by a
\* change of the form, never by a list that was saved, a leader who was changed, another
\* configuration or a second start.
EffectiveIsKept ==
    [][\A i \in Ids :
          (assignment[i].status = "SUBMITTED" /\ assignment'[i].status # "SUBMITTED")
              => \E q \in Request :
                    /\ request'[q] = Idle
                    /\ \/ request[q].kind = "replace" /\ request[q].id = i
                       \/ request[q].kind = "change" /\ request[q].form]_vars

\* The stored result of the current version is that of the submissions that count, with
\* these exceptions: a view or a change of the configuration wrote, or left out, what it
\* had read before; a replacement took its reviewer for one who had not submitted; the
\* published configuration was applied again, and there is no result until the next
\* submission, view, replacement or change.
ResultIsCurrent ==
    \/ lag = "old read"
    \/ lag = "reapplied" /\ result = NoResult
    \/ result = Effective(assignment, submission)
    \/ result = NoResult /\ Effective(assignment, submission) = {}

\* No pending assignment appears under a task that is and stays complete, except by
\* batchAdd: every other way of assigning somebody opens the task again.
DoneHasNothingPending ==
    [][done' /\ status' = "ACTIVE"
          => \/ Pending(assignment') \subseteq (IF done THEN Pending(assignment) ELSE {})
             \/ \E add \in Few : BatchAdd(add)]_vars

=============================================================================
