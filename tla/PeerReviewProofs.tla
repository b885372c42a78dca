--------------------------- MODULE PeerReviewProofs ---------------------------
(***************************************************************************)
(* What is proved of the assignments and submissions of a peer review, for *)
(* any number of colleagues, overlapping requests and rows.                *)
(*                                                                         *)
(* Every commit of a list is of the same kind: some rows in force become   *)
(* REPLACED (RowsKept), and rows are appended for people who hold none     *)
(* (AppendedRows).  Neither moves a submission.  A change with a new form  *)
(* takes back the submissions it has read, and the rows they belong to;    *)
(* that these are all it counted is the invariant of open requests.        *)
(***************************************************************************)
EXTENDS PeerReview, FiniteSetTheorems, SequenceTheorems, TLAPS

\* A submission belongs to a row of its own reviewer.
SubmissionsOwned ==
    \A p \in Person : submission[p] # NoId =>
        submission[p] \in Ids /\ assignment[submission[p]].reviewer = p

\* What a view or a change has read are rows, which stay; a change knows who sent them.
ReadsOfRows ==
    \A q \in Request :
        /\ request[q].kind \in {"view", "change"} => request[q].counted \subseteq Ids
        /\ request[q].kind = "change" =>
              \A i \in request[q].counted : assignment[i].reviewer \in request[q].sent

RowsInv == SubmissionsOwned /\ SubmittedIsBacked /\ OneRolePerPerson

PeerInv == TypeOK /\ ReadsOfRows /\ RowsInv /\ ResultIsCurrent

-----------------------------------------------------------------------------
(* Sequences of rows.                                                       *)

LEMMA RowsOfSequence ==
    ASSUME NEW rows \in Seq(AssignmentRow)
    PROVE  /\ Len(rows) \in Nat /\ DOMAIN rows = 1 .. Len(rows)
           /\ \A i \in 1 .. Len(rows) : rows[i] \in AssignmentRow
  BY LenProperties, ElementOfSeq

\* As many pending rows as people, one for each, after rows that stay what they are.
LEMMA AppendedRows ==
    ASSUME NEW rows \in Seq(AssignmentRow), NEW people \in SUBSET Person,
           NEW new \in Appended(rows, people)
    PROVE  /\ new \in Seq(AssignmentRow)
           /\ Cardinality(people) \in Nat /\ Len(new) = Len(rows) + Cardinality(people)
           /\ \A i \in 1 .. Len(rows) : new[i] = rows[i]
           /\ \A i \in (1 .. Len(new)) \ (1 .. Len(rows)) :
                 new[i].status = "PENDING" /\ new[i].reviewer \in people
           /\ \A i, j \in (1 .. Len(new)) \ (1 .. Len(rows)) :
                 new[i].reviewer = new[j].reviewer => i = j
  <1> DEFINE n == Cardinality(people)
  <1>1. IsFiniteSet(people) /\ n \in Nat
    BY PersonAssumption, FS_Subset, FS_CardinalityType
  <1>2. PICK t \in [1 .. n -> AssignmentRow] :
            /\ new = rows \o t
            /\ {t[i].reviewer : i \in DOMAIN t} = people
            /\ \A i \in DOMAIN t : t[i].status = "PENDING"
    BY DEF Appended
  <1>3. t \in Seq(AssignmentRow) /\ Len(t) = n /\ DOMAIN t = 1 .. n
    BY <1>1
  <1>4. /\ new \in Seq(AssignmentRow) /\ Len(new) = Len(rows) + n
        /\ \A i \in 1 .. Len(rows) + n :
              new[i] = IF i <= Len(rows) THEN rows[i] ELSE t[i - Len(rows)]
    <2>1. /\ rows \o t \in Seq(AssignmentRow) /\ Len(rows \o t) = Len(rows) + Len(t)
          /\ \A i \in 1 .. Len(rows) + Len(t) :
                (rows \o t)[i] = IF i <= Len(rows) THEN rows[i] ELSE t[i - Len(rows)]
      BY <1>3, ConcatProperties
    <2> QED BY <1>2, <1>3, <2>1
  <1>5. Len(rows) \in Nat
    BY LenProperties
  <1>6. \A i \in (1 .. Len(new)) \ (1 .. Len(rows)) :
            i - Len(rows) \in 1 .. n /\ new[i] = t[i - Len(rows)]
    BY <1>1, <1>4, <1>5
  <1>7. \A i, j \in 1 .. n : t[i].reviewer = t[j].reviewer => i = j
    <2> DEFINE f == [i \in 1 .. n |-> t[i].reviewer]
    <2>1. f \in Surjection(1 .. n, people)
      BY <1>2, <1>3 DEF Surjection
    <2>2. IsFiniteSet(1 .. n) /\ Cardinality(1 .. n) = Cardinality(people)
      BY <1>1, FS_Interval
    <2>3. f \in Injection(1 .. n, people)
      BY <2>1, <2>2, FS_SurjSameCardinalityImpliesInj
    <2> QED BY <2>3 DEF Injection, IsInjective
  <1>8. \A i \in 1 .. Len(rows) : new[i] = rows[i]
    BY <1>1, <1>4, <1>5
  <1>9. \A i \in (1 .. Len(new)) \ (1 .. Len(rows)) :
            new[i].status = "PENDING" /\ new[i].reviewer \in people
    BY <1>2, <1>3, <1>6
  <1>10. \A i, j \in (1 .. Len(new)) \ (1 .. Len(rows)) :
            new[i].reviewer = new[j].reviewer => i = j
    <2> SUFFICES ASSUME NEW i \in (1 .. Len(new)) \ (1 .. Len(rows)),
                        NEW j \in (1 .. Len(new)) \ (1 .. Len(rows)),
                        new[i].reviewer = new[j].reviewer
                 PROVE  i = j
      OBVIOUS
    <2>1. i - Len(rows) = j - Len(rows)
      BY <1>6, <1>7
    <2> QED BY <1>4, <1>1, <1>5, <2>1
  <1> QED BY <1>1, <1>4, <1>8, <1>9, <1>10

\* Rows that replace those of the review: the same people, some rows no longer in force.
RowsKept(kept) ==
    /\ kept \in Seq(AssignmentRow) /\ Len(kept) = Len(assignment)
    /\ \A i \in Ids :
          \/ kept[i] = assignment[i]
          \/ kept[i].reviewer = assignment[i].reviewer /\ kept[i].status = "REPLACED"

LEMMA ReplacedRows ==
    ASSUME assignment \in Seq(AssignmentRow), NEW ids
    PROVE  /\ RowsKept(Replaced(assignment, ids))
           /\ \A i \in Ids :
                 /\ i \notin ids => Replaced(assignment, ids)[i] = assignment[i]
                 /\ i \in ids => Replaced(assignment, ids)[i].status = "REPLACED"
  <1>1. Len(assignment) \in Nat /\ \A i \in Ids : assignment[i] \in AssignmentRow
    BY RowsOfSequence DEF Ids
  <1> DEFINE kept == Replaced(assignment, ids)
  <1>2. kept \in [1 .. Len(assignment) -> AssignmentRow]
    BY <1>1 DEF Replaced, AssignmentRow, Ids
  <1>3. kept \in Seq(AssignmentRow) /\ Len(kept) = Len(assignment)
    BY <1>1, <1>2
  <1>4. \A i \in Ids :
            /\ i \notin ids => kept[i] = assignment[i]
            /\ i \in ids => /\ kept[i].status = "REPLACED"
                            /\ kept[i].reviewer = assignment[i].reviewer
    BY <1>1 DEF Replaced, AssignmentRow, Ids
  <1> HIDE DEF kept
  <1>5. RowsKept(kept)
    BY <1>3, <1>4 DEF RowsKept
  <1> QED BY <1>4, <1>5 DEF kept

\* Rows are never taken away, and stay those of their reviewers.
RowsStay == Ids \subseteq Ids' /\ \A i \in Ids : assignment'[i].reviewer = assignment[i].reviewer

-----------------------------------------------------------------------------
(* What assigning people does to the rows.                                  *)

LEMMA AssignmentChanges ==
    ASSUME PeerInv, NEW kept, RowsKept(kept), NEW people \in SUBSET Person,
           Len(assignment) + Cardinality(people) <= MaxAssignments,
           Insertable(kept, people),
           assignment' \in Appended(kept, people),
           UNCHANGED <<leaderVars, submission>>
    PROVE  /\ assignment' \in Seq(AssignmentRow) /\ Len(assignment') <= MaxAssignments
           /\ RowsStay /\ \A i \in Ids : assignment'[i] = kept[i]
           /\ people = {} => Ids' = Ids
           /\ RowsInv'
           /\ Effective(assignment', submission') = Effective(kept, submission)
  <1>1. /\ assignment \in Seq(AssignmentRow) /\ kept \in Seq(AssignmentRow)
        /\ Len(kept) = Len(assignment) /\ Len(assignment) \in Nat
        /\ submission \in [Person -> Id \cup {NoId}]
    BY RowsOfSequence DEF PeerInv, TypeOK, RowsKept
  <1>2. /\ assignment' \in Seq(AssignmentRow)
        /\ Cardinality(people) \in Nat /\ Len(assignment') = Len(assignment) + Cardinality(people)
        /\ \A i \in 1 .. Len(kept) : assignment'[i] = kept[i]
        /\ \A i \in (1 .. Len(assignment')) \ (1 .. Len(kept)) :
              assignment'[i].status = "PENDING" /\ assignment'[i].reviewer \in people
        /\ \A i, j \in (1 .. Len(assignment')) \ (1 .. Len(kept)) :
              assignment'[i].reviewer = assignment'[j].reviewer => i = j
    BY <1>1, AppendedRows
  <1>3. /\ Ids \subseteq Ids'
        /\ \A i \in Ids : assignment'[i] = kept[i]
        /\ \A i \in Ids' \ Ids :
              assignment'[i].status = "PENDING" /\ assignment'[i].reviewer \in people
        /\ \A i, j \in Ids' \ Ids : assignment'[i].reviewer = assignment'[j].reviewer => i = j
    BY <1>1, <1>2 DEF Ids
  <1>4. people = {} => Ids' = Ids
    BY <1>1, <1>2, FS_EmptySet DEF Ids
  <1>5. SubmissionsOwned'
    BY <1>3 DEF PeerInv, RowsInv, SubmissionsOwned, RowsKept
  <1>6. SubmittedIsBacked'
    <2> SUFFICES ASSUME NEW i \in Ids', assignment'[i].status # "REPLACED"
                 PROVE  assignment'[i].status = "SUBMITTED"
                            <=> submission[assignment'[i].reviewer] = i
      BY DEF SubmittedIsBacked, Active, Ids
    <2>1. CASE i \in Ids
      <3>1. assignment'[i] = assignment[i]
        BY <1>3, <2>1 DEF RowsKept
      <3> QED BY <2>1, <3>1 DEF PeerInv, RowsInv, SubmittedIsBacked, Active, Ids
    <2>2. CASE i \notin Ids
      <3>1. i # NoId /\ assignment'[i].reviewer \in Person /\ assignment'[i].status = "PENDING"
        BY <1>3, <2>2 DEF Ids, NoId
      <3>2. submission[assignment'[i].reviewer] # i
        BY <2>2, <3>1 DEF PeerInv, RowsInv, SubmissionsOwned
      <3> QED BY <3>1, <3>2
    <2> QED BY <2>1, <2>2
  <1>7. OneRolePerPerson'
    <2>1. \A i \in Ids : kept[i].status # "REPLACED" =>
              /\ kept[i] = assignment[i] /\ i \in Active(assignment)
              /\ kept[i].reviewer \notin people
      BY <1>1 DEF RowsKept, Active, Ids, Insertable, ReviewersOf
    <2>2. \A i, j \in Active(assignment)' :
              assignment'[i].reviewer = assignment'[j].reviewer => i = j
      <3> SUFFICES ASSUME NEW i \in Ids', NEW j \in Ids',
                          assignment'[i].status # "REPLACED", assignment'[j].status # "REPLACED",
                          assignment'[i].reviewer = assignment'[j].reviewer
                   PROVE  i = j
        BY DEF Active, Ids
      <3>1. CASE i \in Ids /\ j \in Ids
        BY <1>3, <2>1, <3>1 DEF PeerInv, RowsInv, OneRolePerPerson
      <3>2. CASE i \notin Ids /\ j \notin Ids
        BY <1>3, <3>2
      <3>3. CASE (i \in Ids /\ j \notin Ids) \/ (i \notin Ids /\ j \in Ids)
        BY <1>3, <2>1, <3>3
      <3> QED BY <3>1, <3>2, <3>3
    <2>3. promoted' \/ \A i \in Pending(assignment)' : assignment'[i].reviewer # leader'
      <3> SUFFICES ASSUME ~promoted, NEW i \in Ids', assignment'[i].status = "PENDING"
                   PROVE  assignment'[i].reviewer # leader
        BY DEF Pending, Ids, leaderVars
      <3>1. CASE i \in Ids
        BY <1>3, <2>1, <3>1 DEF PeerInv, RowsInv, OneRolePerPerson, Pending, Ids
      <3>2. CASE i \notin Ids
        BY <1>3, <3>2 DEF Insertable
      <3> QED BY <3>1, <3>2
    <2> QED BY <2>2, <2>3 DEF OneRolePerPerson
  <1>8. Effective(assignment', submission') = Effective(kept, submission)
    <2>1. \A p \in Person : submission[p] # NoId => assignment'[submission[p]] = kept[submission[p]]
      BY <1>3 DEF PeerInv, RowsInv, SubmissionsOwned
    <2> QED BY <2>1 DEF Effective
  <1>9. RowsStay
    BY <1>3 DEF RowsStay, RowsKept
  <1> QED BY <1>2, <1>3, <1>4, <1>5, <1>6, <1>7, <1>8, <1>9 DEF RowsInv

\* Rows that count stay as they count when only pending ones are replaced.
LEMMA PendingReplaced ==
    ASSUME PeerInv, NEW ids, \A i \in ids \cap Ids : assignment[i].status # "SUBMITTED"
    PROVE  Effective(Replaced(assignment, ids), submission) = Effective(assignment, submission)
  <1>1. \A p \in Person : submission[p] # NoId =>
            (Replaced(assignment, ids)[submission[p]].status = "SUBMITTED"
                <=> assignment[submission[p]].status = "SUBMITTED")
    BY ReplacedRows DEF PeerInv, TypeOK, RowsInv, SubmissionsOwned
  <1> QED BY <1>1 DEF Effective

-----------------------------------------------------------------------------
(* Requests.                                                                *)

LEMMA RequestFacts ==
    ASSUME PeerInv, NEW q \in Request
    PROVE  /\ request[q] \in RequestState /\ Idle \in RequestState
           /\ request[q].kind = "upsert" => request[q] \in UpsertRequest
           /\ request[q].kind = "replace" => request[q] \in ReplaceRequest
           /\ request[q].kind = "transfer" => request[q] \in TransferRequest
           /\ request[q].kind = "view" => request[q] \in ViewRequest
           /\ request[q].kind = "change" => request[q] \in ChangeRequest
           /\ Idle.kind = "idle"
  <1>1. request[q] \in RequestState /\ Idle \in RequestState /\ Idle.kind = "idle"
    BY DEF PeerInv, TypeOK, RequestState, Idle
  <1>2. /\ \A r \in UpsertRequest : r.kind = "upsert"
        /\ \A r \in ReplaceRequest : r.kind = "replace"
        /\ \A r \in TransferRequest : r.kind = "transfer"
        /\ \A r \in ViewRequest : r.kind = "view"
        /\ \A r \in ChangeRequest : r.kind = "change"
    BY DEF UpsertRequest, ReplaceRequest, TransferRequest, ViewRequest, ChangeRequest
  <1> QED BY <1>1, <1>2 DEF RequestState

\* What a request has read are rows, sent by those it knows of.
ReadsRows(what) ==
    /\ what.kind \in {"view", "change"} => what.counted \subseteq Ids
    /\ what.kind = "change" => \A i \in what.counted : assignment[i].reviewer \in what.sent

LEMMA RequestStep ==
    ASSUME PeerInv, NEW q \in Request, NEW what \in RequestState,
           request' = [request EXCEPT ![q] = what], ReadsRows(what), RowsStay
    PROVE  request' \in [Request -> RequestState] /\ ReadsOfRows'
  <1>1. request \in [Request -> RequestState]
    BY DEF PeerInv, TypeOK
  <1>2. /\ request' \in [Request -> RequestState]
        /\ \A r \in Request : request'[r] = IF r = q THEN what ELSE request[r]
    BY <1>1
  <1>3. ReadsOfRows'
    BY <1>2 DEF PeerInv, ReadsOfRows, ReadsRows, RowsStay
  <1> QED BY <1>2, <1>3

LEMMA EndStep ==
    ASSUME PeerInv, NEW ended, End(ended), RowsStay
    PROVE  request' \in [Request -> RequestState] /\ ReadsOfRows'
  <1>1. /\ request' \in [Request -> RequestState]
        /\ \A r \in Request : request'[r] = Idle \/ request'[r] = request[r]
    BY RequestFacts DEF End, PeerInv, TypeOK
  <1>2. ReadsOfRows'
    BY <1>1 DEF PeerInv, ReadsOfRows, RowsStay, Idle
  <1> QED BY <1>1, <1>2

LEMMA SameRequests ==
    ASSUME PeerInv, UNCHANGED request, RowsStay
    PROVE  request' \in [Request -> RequestState] /\ ReadsOfRows'
  BY DEF PeerInv, TypeOK, ReadsOfRows, RowsStay

LEMMA SameRows ==
    ASSUME UNCHANGED assignment
    PROVE  RowsStay /\ Ids' = Ids
  BY DEF RowsStay, Ids

\* A step that leaves the review alone.
LEMMA SameReview ==
    ASSUME PeerInv, UNCHANGED peerVars,
           request' \in [Request -> RequestState], ReadsOfRows'
    PROVE  PeerInv'
  BY DEF PeerInv, TypeOK, RowsInv, SubmissionsOwned, SubmittedIsBacked, OneRolePerPerson,
     ResultIsCurrent, peerVars, leaderVars, resultVars, Ids, Active, Pending

BeginStep(q) ==
    \/ \E remove \in SUBSET Ids, add \in Few : BeginUpsert(q, remove, add)
    \/ \E id \in Ids, p \in Person : BeginReplace(q, id, p)
    \/ \E p \in Person : BeginTransfer(q, p)
    \/ BeginView(q)
    \/ \E form \in BOOLEAN : BeginChange(q, form)
    \/ Abandon(q)

LEMMA BeginStepInv ==
    ASSUME PeerInv, NEW q \in Request, BeginStep(q)
    PROVE  PeerInv'
  <1>1. UNCHANGED peerVars /\ RowsStay /\ Ids' = Ids
    BY SameRows DEF BeginStep, BeginUpsert, BeginReplace, BeginTransfer, BeginView, BeginChange,
       Abandon, peerVars
  <1>2. Ids \subseteq Id
    <2>1. Len(assignment) \in Nat /\ Len(assignment) <= MaxAssignments
      BY RowsOfSequence DEF PeerInv, TypeOK
    <2> QED BY <2>1, MaxAssignmentsAssumption DEF Ids, Id
  <1>3. request' \in [Request -> RequestState] /\ ReadsOfRows'
    <2>1. ASSUME NEW remove \in SUBSET Ids, NEW add \in Few, BeginUpsert(q, remove, add)
          PROVE  request' \in [Request -> RequestState] /\ ReadsOfRows'
      <3>1. [kind |-> "upsert", remove |-> remove, add |-> add] \in RequestState
        BY <1>2 DEF RequestState, UpsertRequest, Few
      <3> QED BY <1>1, <2>1, <3>1, RequestStep DEF BeginUpsert, Begin, ReadsRows
    <2>2. ASSUME NEW id \in Ids, NEW p \in Person, BeginReplace(q, id, p)
          PROVE  request' \in [Request -> RequestState] /\ ReadsOfRows'
      <3> DEFINE before == (assignment[id].status = "SUBMITTED")
                 what == [kind |-> "replace", id |-> id, add |-> p, submitted |-> before]
      <3>1. before \in BOOLEAN
        OBVIOUS
      <3>2. request' = [request EXCEPT ![q] = what]
        BY <2>2 DEF BeginReplace, Begin
      <3> HIDE DEF before
      <3>3. what \in RequestState /\ what.kind = "replace"
        BY <1>2, <3>1 DEF RequestState, ReplaceRequest
      <3> HIDE DEF what
      <3>4. ReadsRows(what)
        BY <3>3 DEF ReadsRows
      <3> QED BY <1>1, <3>2, <3>3, <3>4, RequestStep
    <2>3. ASSUME NEW p \in Person, BeginTransfer(q, p)
          PROVE  request' \in [Request -> RequestState] /\ ReadsOfRows'
      <3>1. [kind |-> "transfer", from |-> leader, to |-> p] \in RequestState
        BY DEF RequestState, TransferRequest, PeerInv, TypeOK
      <3> QED BY <1>1, <2>3, <3>1, RequestStep DEF BeginTransfer, Begin, ReadsRows
    <2> DEFINE read == Effective(assignment, submission)
    <2>4. /\ read \subseteq Ids
          /\ \A i \in read : assignment[i].reviewer \in Senders
      BY DEF PeerInv, RowsInv, SubmissionsOwned, Effective, Senders
    <2>5. Senders \subseteq Person
      BY DEF Senders
    <2>6. CASE BeginView(q)
      <3>1. request' = [request EXCEPT ![q] = [kind |-> "view", counted |-> read]]
        BY <2>6 DEF BeginView, Begin
      <3> HIDE DEF read
      <3>2. /\ [kind |-> "view", counted |-> read] \in RequestState
            /\ ReadsRows([kind |-> "view", counted |-> read])
        BY <1>2, <2>4 DEF RequestState, ViewRequest, ReadsRows
      <3> QED BY <1>1, <3>1, <3>2, RequestStep
    <2>7. ASSUME NEW form \in BOOLEAN, BeginChange(q, form)
          PROVE  request' \in [Request -> RequestState] /\ ReadsOfRows'
      <3> DEFINE what == [kind |-> "change", form |-> form, sent |-> Senders, counted |-> read]
      <3>1. request' = [request EXCEPT ![q] = what]
        BY <2>7 DEF BeginChange, Begin
      <3> HIDE DEF read
      <3>2. what \in RequestState /\ ReadsRows(what)
        BY <1>2, <2>4, <2>5 DEF RequestState, ChangeRequest, ReadsRows
      <3> HIDE DEF what
      <3> QED BY <1>1, <3>1, <3>2, RequestStep
    <2>8. CASE Abandon(q)
      BY <1>1, <2>8, EndStep DEF Abandon
    <2> QED BY <2>1, <2>2, <2>3, <2>6, <2>7, <2>8 DEF BeginStep
  <1> QED BY <1>1, <1>3, SameReview

-----------------------------------------------------------------------------
(* Commits.                                                                 *)

\* What remains to be shown of a step that assigns people.
LEMMA AssignmentInv ==
    ASSUME PeerInv,
           assignment' \in Seq(AssignmentRow), Len(assignment') <= MaxAssignments, RowsInv',
           UNCHANGED <<cycle, status, submission>>, leader' \in Person, promoted' \in BOOLEAN,
           done' \in BOOLEAN, lag' \in {"none", "old read", "reapplied"},
           result' = NoResult \/ result' \subseteq Ids',
           request' \in [Request -> RequestState], ReadsOfRows', ResultIsCurrent'
    PROVE  PeerInv'
  BY DEF PeerInv, TypeOK

LEMMA CommitUpsertStep ==
    ASSUME PeerInv, NEW q \in Request, CommitUpsert(q)
    PROVE  PeerInv'
  <1> DEFINE remove == request[q].remove
             add == request[q].add
             kept == Replaced(assignment, remove)
  <1>1. remove \subseteq Id /\ add \in SUBSET Person
    BY RequestFacts DEF CommitUpsert, UpsertRequest
  <1>2. /\ UNCHANGED <<cycle, leaderVars, status, submission, resultVars>> /\ End({q})
        /\ \/ /\ remove \subseteq Pending(assignment) /\ Fits(add) /\ Insertable(kept, add)
              /\ assignment' \in Appended(kept, add)
              /\ done' = (done /\ add = {})
           \/ UNCHANGED <<assignment, done>>
    BY DEF CommitUpsert, StillRemovable
  <1> HIDE DEF remove, add
  <1>3. CASE UNCHANGED <<assignment, done>>
    <2>1. UNCHANGED peerVars /\ RowsStay
      BY <1>2, <1>3, SameRows DEF peerVars, leaderVars, resultVars
    <2> QED BY <1>2, <2>1, EndStep, SameReview
  <1>4. CASE /\ remove \subseteq Pending(assignment) /\ Fits(add) /\ Insertable(kept, add)
             /\ assignment' \in Appended(kept, add)
             /\ done' = (done /\ add = {})
    <2>1. RowsKept(kept)
      BY ReplacedRows DEF PeerInv, TypeOK
    <2>2. Effective(kept, submission) = Effective(assignment, submission)
      BY <1>4, PendingReplaced DEF Pending, Ids
    <2> HIDE DEF kept
    <2>3. /\ assignment' \in Seq(AssignmentRow) /\ Len(assignment') <= MaxAssignments
          /\ RowsStay /\ RowsInv'
          /\ Effective(assignment', submission') = Effective(kept, submission)
      BY <1>1, <1>2, <1>4, <2>1, AssignmentChanges DEF Fits
    <2>4. request' \in [Request -> RequestState] /\ ReadsOfRows'
      BY <1>2, <2>3, EndStep
    <2>5. ResultIsCurrent'
      BY <1>2, <2>2, <2>3 DEF PeerInv, ResultIsCurrent, resultVars
    <2>6. /\ leader' \in Person /\ promoted' \in BOOLEAN /\ done' \in BOOLEAN
          /\ lag' \in {"none", "old read", "reapplied"}
          /\ result' = NoResult \/ result' \subseteq Ids'
      <3>1. done' \in BOOLEAN
        BY <1>4
      <3> QED BY <1>2, <2>3, <3>1 DEF PeerInv, TypeOK, leaderVars, resultVars, RowsStay
    <2> QED BY <1>2, <2>3, <2>4, <2>5, <2>6, AssignmentInv
  <1> QED BY <1>2, <1>3, <1>4

LEMMA BatchAddStep ==
    ASSUME PeerInv, NEW add \in Few, BatchAdd(add)
    PROVE  PeerInv'
  <1> DEFINE fresh == add \ ReviewersOf(assignment)
  <1>1. /\ fresh \in SUBSET Person /\ Fits(fresh) /\ Insertable(assignment, fresh)
        /\ assignment' \in Appended(assignment, fresh)
        /\ UNCHANGED <<cycle, leaderVars, status, submission, done, resultVars, request>>
    BY DEF BatchAdd, Insertable, Few
  <1> HIDE DEF fresh
  <1>2. RowsKept(assignment)
    BY DEF RowsKept, PeerInv, TypeOK
  <1>3. /\ assignment' \in Seq(AssignmentRow) /\ Len(assignment') <= MaxAssignments
        /\ RowsStay /\ RowsInv'
        /\ Effective(assignment', submission') = Effective(assignment, submission)
    BY <1>1, <1>2, AssignmentChanges DEF Fits
  <1>4. request' \in [Request -> RequestState] /\ ReadsOfRows'
    BY <1>1, <1>3, SameRequests
  <1>5. ResultIsCurrent'
    BY <1>1, <1>3 DEF PeerInv, ResultIsCurrent, resultVars
  <1>6. /\ leader' \in Person /\ promoted' \in BOOLEAN /\ done' \in BOOLEAN
        /\ lag' \in {"none", "old read", "reapplied"}
        /\ result' = NoResult \/ result' \subseteq Ids'
    BY <1>1, <1>3 DEF PeerInv, TypeOK, leaderVars, resultVars, RowsStay
  <1> QED BY <1>1, <1>3, <1>4, <1>5, <1>6, AssignmentInv

LEMMA CommitReplaceStep ==
    ASSUME PeerInv, NEW q \in Request, CommitReplace(q)
    PROVE  PeerInv'
  <1> DEFINE id == request[q].id
             add == {request[q].add}
             kept == Replaced(assignment, {id})
  <1>1. add \in SUBSET Person
    BY RequestFacts DEF CommitReplace, ReplaceRequest
  <1>2. /\ UNCHANGED <<cycle, leaderVars, status, submission>> /\ End({q})
        /\ \/ /\ id \in Active(assignment) /\ Fits(add) /\ Insertable(kept, add)
              /\ assignment' \in Appended(kept, add)
              /\ done' = FALSE
              /\ \/ result' = Effective(kept, submission) /\ lag' = "none"
                 \/ /\ lag' = IF assignment[id].status = "SUBMITTED" THEN "old read" ELSE lag
                    /\ UNCHANGED result
           \/ UNCHANGED <<assignment, done, resultVars>>
    BY DEF CommitReplace, TaskAfterReplacement
  <1> HIDE DEF id, add
  <1>3. CASE UNCHANGED <<assignment, done, resultVars>>
    <2>1. UNCHANGED peerVars /\ RowsStay
      BY <1>2, <1>3, SameRows DEF peerVars, leaderVars, resultVars
    <2> QED BY <1>2, <2>1, EndStep, SameReview
  <1>4. CASE /\ id \in Active(assignment) /\ Fits(add) /\ Insertable(kept, add)
             /\ assignment' \in Appended(kept, add)
             /\ done' = FALSE
             /\ \/ result' = Effective(kept, submission) /\ lag' = "none"
                \/ /\ lag' = IF assignment[id].status = "SUBMITTED" THEN "old read" ELSE lag
                   /\ UNCHANGED result
    <2>1. RowsKept(kept)
      BY ReplacedRows DEF PeerInv, TypeOK
    <2>2. assignment[id].status # "SUBMITTED" =>
              Effective(kept, submission) = Effective(assignment, submission)
      BY PendingReplaced
    <2>3. Effective(kept, submission) \subseteq Ids
      BY DEF PeerInv, RowsInv, SubmissionsOwned, Effective
    <2> HIDE DEF kept
    <2>4. /\ assignment' \in Seq(AssignmentRow) /\ Len(assignment') <= MaxAssignments
          /\ RowsStay /\ RowsInv'
          /\ Effective(assignment', submission') = Effective(kept, submission)
      BY <1>1, <1>2, <1>4, <2>1, AssignmentChanges DEF Fits
    <2>5. request' \in [Request -> RequestState] /\ ReadsOfRows'
      BY <1>2, <2>4, EndStep
    <2>6. lag' \in {"none", "old read", "reapplied"} /\ ResultIsCurrent'
      <3>1. CASE result' = Effective(kept, submission) /\ lag' = "none"
        BY <2>4, <3>1 DEF ResultIsCurrent
      <3>2. CASE /\ lag' = IF assignment[id].status = "SUBMITTED" THEN "old read" ELSE lag
                 /\ UNCHANGED result
        <4>1. CASE assignment[id].status = "SUBMITTED"
          BY <3>2, <4>1 DEF ResultIsCurrent
        <4>2. CASE assignment[id].status # "SUBMITTED"
          BY <2>2, <2>4, <3>2, <4>2 DEF PeerInv, TypeOK, ResultIsCurrent
        <4> QED BY <4>1, <4>2
      <3> QED BY <1>4, <3>1, <3>2
    <2>7. /\ leader' \in Person /\ promoted' \in BOOLEAN /\ done' \in BOOLEAN
          /\ result' = NoResult \/ result' \subseteq Ids'
      BY <1>2, <1>4, <2>3, <2>4 DEF PeerInv, TypeOK, leaderVars, RowsStay
    <2> QED BY <1>2, <2>4, <2>5, <2>6, <2>7, AssignmentInv
  <1> QED BY <1>2, <1>3, <1>4

\* The old leader may be assigned from now on, the new one no longer has to answer.
LEMMA CommitTransferStep ==
    ASSUME PeerInv, NEW q \in Request, CommitTransfer(q)
    PROVE  PeerInv'
  <1> DEFINE to == request[q].to
             kept == Replaced(assignment, PendingOf(to))
  <1>1. to \in Person
    BY RequestFacts DEF CommitTransfer, TransferRequest
  <1>2. /\ UNCHANGED <<cycle, status, submission, done, resultVars>>
        /\ \/ leader' = to /\ promoted' = FALSE /\ assignment' = kept /\ End({q} \cup Changes)
           \/ UNCHANGED <<leaderVars, assignment>> /\ End({q})
    BY DEF CommitTransfer
  <1> HIDE DEF to
  <1>3. CASE UNCHANGED <<leaderVars, assignment>> /\ End({q})
    <2>1. UNCHANGED peerVars /\ RowsStay
      BY <1>2, <1>3, SameRows DEF peerVars, leaderVars, resultVars
    <2> QED BY <1>3, <2>1, EndStep, SameReview
  <1>4. CASE leader' = to /\ promoted' = FALSE /\ assignment' = kept /\ End({q} \cup Changes)
    <2>1. /\ RowsKept(kept)
          /\ \A i \in Ids : /\ i \notin PendingOf(to) => kept[i] = assignment[i]
                            /\ i \in PendingOf(to) => kept[i].status = "REPLACED"
      BY ReplacedRows DEF PeerInv, TypeOK
    <2>2. Effective(kept, submission) = Effective(assignment, submission)
      BY PendingReplaced DEF PendingOf, Pending
    <2> HIDE DEF kept
    <2>3. /\ RowsStay /\ Ids' = Ids /\ assignment' \in Seq(AssignmentRow)
          /\ Len(assignment') <= MaxAssignments
      BY <1>4, <2>1 DEF RowsStay, RowsKept, Ids, PeerInv, TypeOK
    <2>4. \A i \in Ids : assignment'[i].status # "REPLACED" =>
              assignment'[i] = assignment[i] /\ i \notin PendingOf(to)
      BY <1>4, <2>1 DEF RowsKept
    <2>5. SubmissionsOwned'
      BY <1>2, <1>4, <2>1, <2>3 DEF PeerInv, RowsInv, SubmissionsOwned, RowsKept
    <2>6. SubmittedIsBacked'
      BY <1>2, <2>3, <2>4 DEF PeerInv, RowsInv, SubmittedIsBacked, Active, Ids
    <2>7. OneRolePerPerson'
      BY <1>4, <2>3, <2>4 DEF PeerInv, RowsInv, OneRolePerPerson, Active, Pending, Ids, PendingOf
    <2>8. RowsInv'
      BY <2>5, <2>6, <2>7 DEF RowsInv
    <2>9. ResultIsCurrent'
      BY <1>2, <1>4, <2>2 DEF PeerInv, ResultIsCurrent, resultVars
    <2>10. request' \in [Request -> RequestState] /\ ReadsOfRows'
      BY <1>4, <2>3, EndStep
    <2>11. /\ leader' \in Person /\ promoted' \in BOOLEAN /\ done' \in BOOLEAN
           /\ lag' \in {"none", "old read", "reapplied"}
           /\ result' = NoResult \/ result' \subseteq Ids'
      BY <1>1, <1>2, <1>4, <2>3 DEF PeerInv, TypeOK, resultVars
    <2> QED BY <1>2, <2>3, <2>8, <2>9, <2>10, <2>11, AssignmentInv
  <1> QED BY <1>2, <1>3, <1>4

LEMMA CommitViewStep ==
    ASSUME PeerInv, NEW q \in Request, CommitView(q)
    PROVE  PeerInv'
  <1>1. /\ result' = request[q].counted /\ lag' = LagOf(request[q].counted) /\ End({q})
        /\ UNCHANGED <<cycle, leaderVars, status, assignment, submission, done>>
        /\ request[q].kind = "view"
    BY DEF CommitView
  <1>2. RowsStay /\ Ids' = Ids /\ result' \subseteq Ids'
    BY <1>1, SameRows DEF PeerInv, ReadsOfRows
  <1>3. lag' \in {"none", "old read", "reapplied"} /\ ResultIsCurrent'
    BY <1>1 DEF ResultIsCurrent, LagOf
  <1>4. RowsInv'
    BY <1>1 DEF PeerInv, RowsInv, SubmissionsOwned, SubmittedIsBacked, OneRolePerPerson, Ids,
       Active, Pending, leaderVars
  <1>5. request' \in [Request -> RequestState] /\ ReadsOfRows'
    BY <1>1, <1>2, EndStep
  <1> QED BY <1>1, <1>2, <1>3, <1>4, <1>5, AssignmentInv DEF PeerInv, TypeOK, leaderVars

\* The row of the reviewer's only assignment in force takes the submission over.
LEMMA SubmitPeerStep ==
    ASSUME PeerInv, NEW id \in Ids, SubmitPeer(id)
    PROVE  PeerInv'
  <1> DEFINE over == (done \/ Pending(assignment') = {})
             who == assignment[id].reviewer
  <1>1. /\ id \in Active(assignment)
        /\ assignment' = [assignment EXCEPT ![id].status = "SUBMITTED"]
        /\ submission' = [submission EXCEPT ![who] = id]
        /\ result' = Effective(assignment', submission') /\ lag' = "none"
        /\ done' = over /\ UNCHANGED <<cycle, leaderVars, status>>
        /\ End({r \in Changes : who \in request[r].sent})
    BY DEF SubmitPeer, SubmissionOf
  <1>2. over \in BOOLEAN
    BY DEF PeerInv, TypeOK
  <1>3. /\ assignment \in Seq(AssignmentRow) /\ Len(assignment) \in Nat
        /\ Len(assignment) <= MaxAssignments /\ assignment \in [Ids -> AssignmentRow]
        /\ submission \in [Person -> Id \cup {NoId}] /\ who \in Person
        /\ \A i \in Ids : assignment[i].reviewer \in Person
    BY RowsOfSequence, LenProperties DEF PeerInv, TypeOK, Ids, AssignmentRow
  <1> HIDE DEF over
  <1>4. id \in Id
    BY <1>3, MaxAssignmentsAssumption DEF Ids, Id
  <1>5. assignment' \in [Ids -> AssignmentRow]
    BY <1>1, <1>3 DEF AssignmentRow
  <1>6. assignment' \in Seq(AssignmentRow) /\ Len(assignment') = Len(assignment) /\ Ids' = Ids
    <2>1. assignment' \in Seq(AssignmentRow) /\ Len(assignment') = Len(assignment)
      BY <1>3, <1>5 DEF Ids
    <2> QED BY <2>1 DEF Ids
  <1>7. /\ \A i \in Ids \ {id} : assignment'[i] = assignment[i]
        /\ assignment'[id].reviewer = who /\ assignment'[id].status = "SUBMITTED"
    BY <1>1, <1>3 DEF AssignmentRow
  <1>8. /\ submission' \in [Person -> Id \cup {NoId}] /\ submission'[who] = id
        /\ \A p \in Person \ {who} : submission'[p] = submission[p]
    BY <1>1, <1>3, <1>4
  <1> HIDE DEF who
  <1>9. SubmissionsOwned'
    <2> SUFFICES ASSUME NEW p \in Person, submission'[p] # NoId
                 PROVE  submission'[p] \in Ids /\ assignment'[submission'[p]].reviewer = p
      BY <1>6 DEF SubmissionsOwned
    <2>1. CASE p = who
      BY <1>7, <1>8, <2>1
    <2>2. CASE p # who
      <3>1. submission'[p] = submission[p]
        BY <1>8, <2>2
      <3>2. submission[p] \in Ids /\ assignment[submission[p]].reviewer = p
        BY <3>1 DEF PeerInv, RowsInv, SubmissionsOwned
      <3>3. submission[p] # id
        BY <2>2, <3>2 DEF who
      <3> QED BY <1>7, <3>1, <3>2, <3>3
    <2> QED BY <2>1, <2>2
  <1>10. \A i \in Ids \ {id} : i \in Active(assignment) => assignment[i].reviewer # who
    BY <1>1 DEF PeerInv, RowsInv, OneRolePerPerson, who
  <1>11. SubmittedIsBacked'
    <2> SUFFICES ASSUME NEW i \in Ids, assignment'[i].status # "REPLACED"
                 PROVE  assignment'[i].status = "SUBMITTED"
                            <=> submission'[assignment'[i].reviewer] = i
      BY <1>6 DEF SubmittedIsBacked, Active, Ids
    <2>1. CASE i = id
      BY <1>7, <1>8, <2>1
    <2>2. CASE i # id
      <3>1. assignment'[i] = assignment[i] /\ i \in Active(assignment)
        BY <1>7, <2>2 DEF Active, Ids
      <3>2. submission'[assignment[i].reviewer] = submission[assignment[i].reviewer]
        BY <1>3, <1>8, <1>10, <2>2, <3>1
      <3> QED BY <3>1, <3>2 DEF PeerInv, RowsInv, SubmittedIsBacked
    <2> QED BY <2>1, <2>2
  <1>12. OneRolePerPerson'
    <2>1. /\ Active(assignment') = Active(assignment)
          /\ Pending(assignment') \subseteq Pending(assignment)
      BY <1>1, <1>3, <1>6, <1>7 DEF Active, Pending, Ids
    <2>2. \A i \in Ids : assignment'[i].reviewer = assignment[i].reviewer
      BY <1>7 DEF who
    <2>3. Active(assignment) \subseteq Ids /\ Pending(assignment) \subseteq Ids
      BY DEF Active, Pending, Ids
    <2>4. leader' = leader /\ promoted' = promoted
      BY <1>1 DEF leaderVars
    <2>5. OneRolePerPerson
      BY DEF PeerInv, RowsInv
    <2>6. \A i, j \in Active(assignment') :
              assignment'[i].reviewer = assignment'[j].reviewer => i = j
      BY <2>1, <2>2, <2>3, <2>5 DEF OneRolePerPerson
    <2>7. promoted' \/ \A i \in Pending(assignment') : assignment'[i].reviewer # leader'
      BY <2>1, <2>2, <2>3, <2>4, <2>5 DEF OneRolePerPerson
    <2> HIDE DEF Active, Pending
    <2> QED BY <2>6, <2>7 DEF OneRolePerPerson
  <1>13. RowsInv'
    BY <1>9, <1>11, <1>12 DEF RowsInv
  <1>14. result' \subseteq Ids'
    BY <1>1, <1>9 DEF SubmissionsOwned, Effective
  <1>15. ResultIsCurrent'
    BY <1>1 DEF ResultIsCurrent
  <1>16. request' \in [Request -> RequestState] /\ ReadsOfRows'
    <2>1. RowsStay
      BY <1>6, <1>7 DEF RowsStay, who
    <2> QED BY <1>1, <2>1, EndStep
  <1>17. TypeOK'
    BY <1>1, <1>2, <1>3, <1>6, <1>8, <1>14, <1>16 DEF PeerInv, TypeOK, leaderVars
  <1> QED BY <1>13, <1>15, <1>16, <1>17 DEF PeerInv

\* Whose submissions a change takes back.
Redone(q) == IF request[q].form THEN request[q].sent ELSE {}

\* With a new form the rows whose submissions were read are to be answered again, by nobody
\* who leads; what came in since stays.
LEMMA ReopenedRows ==
    ASSUME PeerInv, NEW q \in Request, CommitChange(q)
    PROVE  /\ assignment' \in Seq(AssignmentRow) /\ Len(assignment') <= MaxAssignments
           /\ Ids' = Ids /\ RowsStay
           /\ submission' = [p \in Person |-> IF p \in Redone(q) THEN NoId ELSE submission[p]]
           /\ \A i \in Ids :
                 \/ /\ assignment'[i] = assignment[i]
                    /\ assignment[i].status = "SUBMITTED"
                          => assignment[i].reviewer \notin Redone(q)
                 \/ /\ assignment'[i].status = "PENDING" /\ assignment[i].status = "SUBMITTED"
                    /\ assignment[i].reviewer \in Redone(q) /\ assignment[i].reviewer # leader
  <1>1. /\ assignment' = AssignmentsReopened(Redone(q))
        /\ \A i \in Ids : assignment'[i] # assignment[i] => assignment[i].reviewer # leader
        /\ submission' = [p \in Person |-> IF p \in Redone(q) THEN NoId ELSE submission[p]]
    BY DEF CommitChange, Redone
  <1>2. /\ assignment \in Seq(AssignmentRow) /\ Len(assignment) \in Nat
        /\ Len(assignment) <= MaxAssignments
        /\ \A i \in Ids : assignment[i] \in AssignmentRow
    BY RowsOfSequence DEF PeerInv, TypeOK, Ids
  <1>3. assignment' \in [1 .. Len(assignment) -> AssignmentRow]
    BY <1>1, <1>2 DEF AssignmentsReopened, AssignmentRow, Ids
  <1>4. assignment' \in Seq(AssignmentRow) /\ Len(assignment') = Len(assignment)
    BY <1>2, <1>3
  <1>5. Ids' = Ids
    BY <1>4 DEF Ids
  <1>6. ASSUME NEW i \in Ids
        PROVE  /\ assignment'[i].reviewer = assignment[i].reviewer
               /\ \/ /\ assignment'[i] = assignment[i]
                     /\ assignment[i].status = "SUBMITTED"
                           => assignment[i].reviewer \notin Redone(q)
                  \/ /\ assignment'[i].status = "PENDING" /\ assignment[i].status = "SUBMITTED"
                     /\ assignment[i].reviewer \in Redone(q)
    <2>1. assignment'[i] =
              IF /\ assignment[i].status = "SUBMITTED" /\ assignment[i].reviewer \in Redone(q)
                 /\ submission[assignment[i].reviewer] = i
              THEN [assignment[i] EXCEPT !.status = "PENDING"] ELSE assignment[i]
      BY <1>1 DEF AssignmentsReopened, Ids
    <2>2. assignment[i].status = "SUBMITTED" => submission[assignment[i].reviewer] = i
      BY DEF PeerInv, RowsInv, SubmittedIsBacked, Active, Ids
    <2> QED BY <1>2, <2>1, <2>2 DEF AssignmentRow
  <1>7. RowsStay
    BY <1>5, <1>6 DEF RowsStay
  <1>8. \A i \in Ids : assignment'[i].status # assignment[i].status
            => assignment[i].reviewer # leader
    BY <1>1
  <1> QED BY <1>1, <1>2, <1>4, <1>5, <1>6, <1>7, <1>8

\* What a change with a new form does not take back, it has not counted.
LEMMA CommitChangeStep ==
    ASSUME PeerInv, NEW q \in Request, CommitChange(q)
    PROVE  PeerInv'
  <1> DEFINE change == request[q]
             redone == Redone(q)
             counting == Effective(assignment, submission)
  <1>1. /\ assignment' \in Seq(AssignmentRow) /\ Len(assignment') <= MaxAssignments
        /\ Ids' = Ids /\ RowsStay
        /\ submission' = [p \in Person |-> IF p \in redone THEN NoId ELSE submission[p]]
        /\ \A i \in Ids :
              \/ /\ assignment'[i] = assignment[i]
                 /\ assignment[i].status = "SUBMITTED" => assignment[i].reviewer \notin redone
              \/ /\ assignment'[i].status = "PENDING" /\ assignment[i].status = "SUBMITTED"
                 /\ assignment[i].reviewer \in redone /\ assignment[i].reviewer # leader
    BY ReopenedRows
  <1>2. /\ change.kind = "change" /\ change \in ChangeRequest
        /\ change.counted \subseteq Ids
        /\ \A i \in change.counted : assignment[i].reviewer \in change.sent
    <2>1. change.kind = "change"
      BY DEF CommitChange
    <2> QED BY <2>1, RequestFacts DEF PeerInv, ReadsOfRows
  <1>3. /\ done' = (done /\ redone = {})
        /\ result' \in ResultsOfNewVersion(change)
        /\ lag' = LagOf(change.counted)
        /\ End(OfThisVersion)
        /\ UNCHANGED <<cycle, leaderVars, status>>
    BY DEF CommitChange, Redone
  <1>4. /\ submission \in [Person -> Id \cup {NoId}] /\ SubmissionsOwned /\ SubmittedIsBacked
        /\ OneRolePerPerson
        /\ \A i \in Ids : assignment[i] \in AssignmentRow
    BY RowsOfSequence DEF PeerInv, TypeOK, RowsInv, Ids
  <1> HIDE DEF redone
  <1>5. submission' \in [Person -> Id \cup {NoId}]
        /\ \A p \in Person : submission'[p] = IF p \in redone THEN NoId ELSE submission[p]
    BY <1>1, <1>4
  <1>6. SubmissionsOwned'
    BY <1>1, <1>4, <1>5 DEF SubmissionsOwned, RowsStay
  <1>7. SubmittedIsBacked'
    <2> SUFFICES ASSUME NEW i \in Ids, assignment'[i].status # "REPLACED"
                 PROVE  assignment'[i].status = "SUBMITTED"
                            <=> submission'[assignment'[i].reviewer] = i
      BY <1>1 DEF SubmittedIsBacked, Active, Ids
    <2>1. /\ assignment'[i].reviewer = assignment[i].reviewer
          /\ assignment[i].reviewer \in Person /\ i # NoId
      BY <1>1, <1>4 DEF RowsStay, AssignmentRow, Ids, NoId
    <2>2. assignment[i].status # "REPLACED"
      BY <1>1
    <2>3. assignment[i].status = "SUBMITTED" <=> submission[assignment[i].reviewer] = i
      BY <1>4, <2>2 DEF SubmittedIsBacked, Active, Ids
    <2> QED BY <1>1, <1>5, <2>1, <2>3
  <1>8. OneRolePerPerson'
    <2>1. Active(assignment)' = Active(assignment)
      BY <1>1 DEF Active, Ids
    <2>2. \A i, j \in Active(assignment)' :
              assignment'[i].reviewer = assignment'[j].reviewer => i = j
      BY <1>1, <1>4, <2>1 DEF OneRolePerPerson, Active, Ids, RowsStay
    <2>3. promoted' \/ \A i \in Pending(assignment)' : assignment'[i].reviewer # leader'
      <3> SUFFICES ASSUME ~promoted, NEW i \in Ids, assignment'[i].status = "PENDING"
                   PROVE  assignment[i].reviewer # leader
        BY <1>1, <1>3 DEF Pending, Ids, leaderVars, RowsStay
      <3> QED BY <1>1, <1>4 DEF OneRolePerPerson, Pending, Ids
    <2> QED BY <2>2, <2>3 DEF OneRolePerPerson
  <1>9. RowsInv'
    BY <1>6, <1>7, <1>8 DEF RowsInv
  <1>10. result' = NoResult \/ (~change.form /\ result' = change.counted)
    BY <1>3 DEF ResultsOfNewVersion
  <1>11. result' = NoResult \/ result' \subseteq Ids'
    BY <1>1, <1>2, <1>10
  <1>12. Effective(assignment', submission')
             = {i \in counting : assignment[i].reviewer \notin redone}
    <2>1. ASSUME NEW p \in Person, submission'[p] # NoId,
                 assignment'[submission'[p]].status = "SUBMITTED"
          PROVE  /\ submission'[p] = submission[p] /\ submission[p] # NoId
                 /\ assignment[submission[p]].status = "SUBMITTED"
                 /\ assignment[submission[p]].reviewer \notin redone
      BY <1>1, <1>4, <1>5, <2>1 DEF SubmissionsOwned
    <2>2. ASSUME NEW p \in Person, submission[p] # NoId,
                 assignment[submission[p]].status = "SUBMITTED",
                 assignment[submission[p]].reviewer \notin redone
          PROVE  submission'[p] = submission[p] /\ assignment'[submission'[p]].status = "SUBMITTED"
      BY <1>1, <1>4, <1>5, <2>2 DEF SubmissionsOwned
    <2> QED BY <2>1, <2>2 DEF Effective
  <1>13. lag' \in {"none", "old read", "reapplied"} /\ ResultIsCurrent'
    <2>1. CASE change.counted # counting
      BY <1>3, <2>1 DEF LagOf, ResultIsCurrent
    <2>2. CASE change.counted = counting
      <3>1. lag' = "none"
        BY <1>3, <2>2 DEF LagOf
      <3>2. CASE change.form
        <4>1. Effective(assignment', submission') = {}
          BY <1>2, <1>12, <2>2, <3>2 DEF redone, Redone
        <4> QED BY <1>10, <3>1, <3>2, <4>1 DEF ResultIsCurrent
      <3>3. CASE ~change.form
        <4>1. redone = {} /\ Effective(assignment', submission') = counting
          BY <1>12, <3>3 DEF redone, Redone
        <4>2. CASE result' = change.counted
          BY <2>2, <3>1, <4>1, <4>2 DEF ResultIsCurrent
        <4>3. CASE result' # change.counted
          <5>1. result' = NoResult /\ change.sent = {}
            BY <1>3, <3>3, <4>3 DEF ResultsOfNewVersion
          <5>2. counting = {}
            BY <1>2, <2>2, <5>1
          <5> QED BY <3>1, <4>1, <5>1, <5>2 DEF ResultIsCurrent
        <4> QED BY <4>2, <4>3
      <3> QED BY <3>2, <3>3
    <2> QED BY <2>1, <2>2
  <1>14. request' \in [Request -> RequestState] /\ ReadsOfRows'
    BY <1>1, <1>3, EndStep
  <1>15. done' \in BOOLEAN
    BY <1>3
  <1>16. TypeOK'
    BY <1>1, <1>3, <1>5, <1>11, <1>13, <1>14, <1>15 DEF PeerInv, TypeOK, leaderVars
  <1> QED BY <1>9, <1>13, <1>14, <1>16 DEF PeerInv

\* What happens to the cycle and the participant leaves rows and submissions alone.
CycleStep ==
    \/ \E p \in Person : Reapply(p) \/ Start(p)
    \/ RollBack \/ Lock \/ Unlock \/ Withdraw

LEMMA CycleStepInv == PeerInv /\ CycleStep => PeerInv'
  <1> SUFFICES ASSUME PeerInv, CycleStep
               PROVE  PeerInv'
    OBVIOUS
  <1>1. /\ UNCHANGED <<assignment, submission>>
        /\ \/ UNCHANGED leaderVars
           \/ \E p \in Person : Refresh(p)
        /\ \/ UNCHANGED resultVars
           \/ result' = NoResult /\ lag' = "reapplied"
        /\ \E ended \in {Changes, OfThisVersion} : End(ended)
        /\ cycle' \in {"ACTIVE", "DRAFT"} /\ status' \in {"ACTIVE", "LOCKED", "WITHDRAWN"}
        /\ done' \in BOOLEAN
    BY DEF CycleStep, Reapply, Start, RollBack, Lock, Unlock, Withdraw, PeerInv, TypeOK
  <1>2. RowsStay /\ Ids' = Ids
    BY <1>1, SameRows
  <1>3. /\ leader' \in Person /\ promoted' \in BOOLEAN
        /\ promoted' \/ \A i \in Pending(assignment) : assignment[i].reviewer # leader'
    <2>1. CASE UNCHANGED leaderVars
      BY <2>1 DEF PeerInv, TypeOK, RowsInv, OneRolePerPerson, leaderVars
    <2>2. CASE \E p \in Person : Refresh(p)
      BY <2>2 DEF Refresh
    <2> QED BY <1>1, <2>1, <2>2
  <1>4. RowsInv'
    BY <1>1, <1>2, <1>3 DEF PeerInv, RowsInv, SubmissionsOwned, SubmittedIsBacked,
       OneRolePerPerson, Active, Pending
  <1>5. ResultIsCurrent' /\ lag' \in {"none", "old read", "reapplied"}
        /\ (result' = NoResult \/ result' \subseteq Ids')
    BY <1>1, <1>2 DEF PeerInv, TypeOK, ResultIsCurrent, resultVars
  <1>6. request' \in [Request -> RequestState] /\ ReadsOfRows'
    BY <1>1, <1>2, EndStep
  <1>7. TypeOK'
    BY <1>1, <1>3, <1>5, <1>6 DEF PeerInv, TypeOK
  <1> QED BY <1>4, <1>5, <1>6, <1>7 DEF PeerInv

-----------------------------------------------------------------------------
(* The invariant.                                                           *)

LEMMA InitPeerInv == Init => PeerInv
  <1> SUFFICES ASSUME Init
               PROVE  PeerInv
    OBVIOUS
  <1>1. /\ assignment = <<>> /\ Len(assignment) = 0 /\ assignment \in Seq(AssignmentRow)
        /\ Ids = {}
    BY DEF Init, Ids
  <1>2. TypeOK
    <2>1. request \in [Request -> RequestState] /\ submission \in [Person -> Id \cup {NoId}]
      BY DEF Init, RequestState
    <2>2. Len(assignment) <= MaxAssignments
      BY <1>1, MaxAssignmentsAssumption
    <2> QED BY <1>1, <2>1, <2>2 DEF Init, TypeOK
  <1>3. ReadsOfRows
    BY DEF Init, ReadsOfRows, Idle
  <1>4. RowsInv
    BY <1>1 DEF Init, RowsInv, SubmissionsOwned, SubmittedIsBacked, OneRolePerPerson, Active,
       Pending, Ids
  <1>5. ResultIsCurrent
    BY DEF Init, ResultIsCurrent, Effective
  <1> QED BY <1>2, <1>3, <1>4, <1>5 DEF PeerInv

LEMMA PeerInvStep == PeerInv /\ [Next]_vars => PeerInv'
  <1> SUFFICES ASSUME PeerInv, [Next]_vars
               PROVE  PeerInv'
    OBVIOUS
  <1>1. CASE UNCHANGED vars
    <2>1. UNCHANGED peerVars /\ UNCHANGED request /\ RowsStay
      BY <1>1, SameRows DEF vars, peerVars
    <2> QED BY <2>1, SameRequests, SameReview
  <1>2. ASSUME NEW q \in Request, BeginStep(q) PROVE PeerInv'
    BY <1>2, BeginStepInv
  <1>3. ASSUME NEW q \in Request, CommitUpsert(q) PROVE PeerInv'
    BY <1>3, CommitUpsertStep
  <1>4. ASSUME NEW q \in Request, CommitReplace(q) PROVE PeerInv'
    BY <1>4, CommitReplaceStep
  <1>5. ASSUME NEW q \in Request, CommitTransfer(q) PROVE PeerInv'
    BY <1>5, CommitTransferStep
  <1>6. ASSUME NEW q \in Request, CommitView(q) PROVE PeerInv'
    BY <1>6, CommitViewStep
  <1>7. ASSUME NEW add \in Few, BatchAdd(add) PROVE PeerInv'
    BY <1>7, BatchAddStep
  <1>8. ASSUME NEW id \in Ids, SubmitPeer(id) PROVE PeerInv'
    BY <1>8, SubmitPeerStep
  <1>9. ASSUME NEW q \in Request, CommitChange(q) PROVE PeerInv'
    BY <1>9, CommitChangeStep
  <1>10. CASE CycleStep
    BY <1>10, CycleStepInv
  <1> QED BY <1>1, <1>2, <1>3, <1>4, <1>5, <1>6, <1>7, <1>8, <1>9, <1>10
     DEF Next, BeginStep, CycleStep

\* However requests overlap, the tables of a peer review agree and its result is that of
\* the submissions that count, but for the exceptions named.
THEOREM PeerInvariant == Spec => []PeerInv
  <1>1. Init => PeerInv
    BY InitPeerInv
  <1>2. PeerInv /\ [Next]_vars => PeerInv'
    BY PeerInvStep
  <1> QED BY <1>1, <1>2, PTL DEF Spec

\* Rows, submissions, results and what requests have read keep their types.
THEOREM PeerTypes == Spec => []TypeOK
  <1>1. PeerInv => TypeOK
    BY DEF PeerInv
  <1> QED BY <1>1, PeerInvariant, PTL

\* An assignment in force is SUBMITTED exactly while its reviewer's submission is its own.
THEOREM SubmittedBacked == Spec => []SubmittedIsBacked
  <1>1. PeerInv => SubmittedIsBacked
    BY DEF PeerInv, RowsInv
  <1> QED BY <1>1, PeerInvariant, PTL

\* No two assignments of one person, and none to answer for whoever leads, unless the
\* master data has made a reviewer leader.
THEOREM OneRole == Spec => []OneRolePerPerson
  <1>1. PeerInv => OneRolePerPerson
    BY DEF PeerInv, RowsInv
  <1> QED BY <1>1, PeerInvariant, PTL

\* The stored result is behind the submissions only after a view, a replacement or a change
\* of the configuration that was overtaken, or after the configuration was applied again.
THEOREM ResultCurrent == Spec => []ResultIsCurrent
  <1>1. PeerInv => ResultIsCurrent
    BY DEF PeerInv
  <1> QED BY <1>1, PeerInvariant, PTL

-----------------------------------------------------------------------------
(* What a step may not do.                                                  *)

\* The body of EffectiveIsKept.
CountingKept ==
    \A i \in Ids :
        (assignment[i].status = "SUBMITTED" /\ assignment'[i].status # "SUBMITTED")
            => \E q \in Request :
                  /\ request'[q] = Idle
                  /\ \/ request[q].kind = "replace" /\ request[q].id = i
                     \/ request[q].kind = "change" /\ request[q].form

\* The body of DoneHasNothingPending.
DoneIsHonest ==
    done' /\ status' = "ACTIVE"
        => \/ Pending(assignment') \subseteq (IF done THEN Pending(assignment) ELSE {})
           \/ \E add \in Few : BatchAdd(add)

\* Rows and task stay, or the participant leaves.
LEMMA SameAssignments ==
    ASSUME UNCHANGED assignment, UNCHANGED done \/ status' = "WITHDRAWN"
    PROVE  CountingKept /\ DoneIsHonest
  BY DEF CountingKept, DoneIsHonest

\* Only pending rows are replaced, and the task of new ones is open.
LEMMA UpsertKeeps ==
    ASSUME PeerInv, NEW q \in Request, CommitUpsert(q)
    PROVE  CountingKept /\ DoneIsHonest
  <1> DEFINE remove == request[q].remove
             add == request[q].add
             kept == Replaced(assignment, remove)
  <1>1. add \in SUBSET Person
    BY RequestFacts DEF CommitUpsert, UpsertRequest
  <1>2. /\ UNCHANGED <<leaderVars, submission>>
        /\ \/ /\ remove \subseteq Pending(assignment) /\ Fits(add) /\ Insertable(kept, add)
              /\ assignment' \in Appended(kept, add)
              /\ done' = (done /\ add = {})
           \/ UNCHANGED <<assignment, done>>
    BY DEF CommitUpsert, StillRemovable
  <1> HIDE DEF remove, add
  <1>3. CASE UNCHANGED <<assignment, done>>
    BY <1>3, SameAssignments
  <1>4. CASE /\ remove \subseteq Pending(assignment) /\ Fits(add) /\ Insertable(kept, add)
             /\ assignment' \in Appended(kept, add)
             /\ done' = (done /\ add = {})
    <2>1. RowsKept(kept) /\ \A i \in Ids : i \notin remove => kept[i] = assignment[i]
      BY ReplacedRows DEF PeerInv, TypeOK
    <2> HIDE DEF kept
    <2>2. /\ \A i \in Ids : assignment'[i] = kept[i]
          /\ add = {} => Ids' = Ids
      BY <1>1, <1>2, <1>4, <2>1, AssignmentChanges DEF Fits
    <2>3. CountingKept
      BY <1>4, <2>1, <2>2 DEF CountingKept, Pending
    <2>4. DoneIsHonest
      <3> SUFFICES ASSUME done', NEW i \in Pending(assignment')
                   PROVE  done /\ i \in Pending(assignment)
        BY DEF DoneIsHonest
      <3>1. done /\ add = {}
        BY <1>4
      <3>2. i \in Ids /\ kept[i].status = "PENDING"
        BY <2>2, <3>1 DEF Pending, Ids
      <3> QED BY <2>1, <3>1, <3>2 DEF RowsKept, Pending, Ids
    <2> QED BY <2>3, <2>4
  <1> QED BY <1>2, <1>3, <1>4

LEMMA ReplaceKeeps ==
    ASSUME PeerInv, NEW q \in Request, CommitReplace(q)
    PROVE  CountingKept /\ DoneIsHonest
  <1> DEFINE id == request[q].id
             add == {request[q].add}
             kept == Replaced(assignment, {id})
  <1>1. add \in SUBSET Person
    BY RequestFacts DEF CommitReplace, ReplaceRequest
  <1>2. /\ UNCHANGED <<leaderVars, submission>> /\ request[q].kind = "replace" /\ request'[q] = Idle
        /\ \/ /\ Fits(add) /\ Insertable(kept, add) /\ assignment' \in Appended(kept, add)
              /\ done' = FALSE
           \/ UNCHANGED <<assignment, done>>
    BY DEF CommitReplace, TaskAfterReplacement, End, PeerInv, TypeOK
  <1> HIDE DEF add
  <1>3. CASE UNCHANGED <<assignment, done>>
    BY <1>3, SameAssignments
  <1>4. CASE /\ Fits(add) /\ Insertable(kept, add) /\ assignment' \in Appended(kept, add)
             /\ done' = FALSE
    <2>1. RowsKept(kept) /\ \A i \in Ids : i # id => kept[i] = assignment[i]
      BY ReplacedRows DEF PeerInv, TypeOK
    <2> HIDE DEF kept
    <2>2. \A i \in Ids : assignment'[i] = kept[i]
      BY <1>1, <1>2, <1>4, <2>1, AssignmentChanges DEF Fits
    <2>3. CountingKept
      BY <1>2, <2>1, <2>2 DEF CountingKept
    <2>4. DoneIsHonest
      BY <1>4 DEF DoneIsHonest
    <2> QED BY <2>3, <2>4
  <1> QED BY <1>2, <1>3, <1>4

LEMMA TransferKeeps ==
    ASSUME PeerInv, NEW q \in Request, CommitTransfer(q)
    PROVE  CountingKept /\ DoneIsHonest
  <1> DEFINE ids == PendingOf(request[q].to)
  <1>1. UNCHANGED done /\ (assignment' = Replaced(assignment, ids) \/ UNCHANGED assignment)
    BY DEF CommitTransfer
  <1>2. ids \subseteq Pending(assignment)
    BY DEF PendingOf
  <1> HIDE DEF ids
  <1>3. CASE assignment' = Replaced(assignment, ids)
    <2>1. /\ Len(assignment') = Len(assignment)
          /\ \A i \in Ids : /\ i \notin ids => assignment'[i] = assignment[i]
                            /\ i \in ids => assignment'[i].status = "REPLACED"
      BY <1>3, ReplacedRows DEF PeerInv, TypeOK, RowsKept
    <2>2. CountingKept
      BY <1>2, <2>1 DEF CountingKept, Pending
    <2>3. Pending(assignment') \subseteq Pending(assignment)
      BY <2>1 DEF Pending, Ids
    <2>4. DoneIsHonest
      BY <1>1, <2>3 DEF DoneIsHonest
    <2> QED BY <2>2, <2>4
  <1> QED BY <1>1, <1>3, SameAssignments

LEMMA SubmitKeeps ==
    ASSUME PeerInv, NEW id \in Ids, SubmitPeer(id)
    PROVE  CountingKept /\ DoneIsHonest
  <1>1. /\ assignment' = [assignment EXCEPT ![id].status = "SUBMITTED"]
        /\ done' = (done \/ Pending(assignment') = {})
    BY DEF SubmitPeer
  <1>2. assignment \in Seq(AssignmentRow) /\ assignment \in [Ids -> AssignmentRow]
    BY LenProperties DEF PeerInv, TypeOK, Ids
  <1>3. /\ Len(assignment') = Len(assignment) /\ assignment'[id].status = "SUBMITTED"
        /\ \A i \in Ids \ {id} : assignment'[i] = assignment[i]
    BY <1>1, <1>2 DEF AssignmentRow
  <1>4. CountingKept
    BY <1>3 DEF CountingKept
  <1>5. Pending(assignment') \subseteq Pending(assignment)
    BY <1>3 DEF Pending, Ids
  <1>6. DoneIsHonest
    BY <1>1, <1>5 DEF DoneIsHonest
  <1> QED BY <1>4, <1>6

\* Only a new form takes submissions back, and their rows open the task again.
LEMMA ChangeKeeps ==
    ASSUME PeerInv, NEW q \in Request, CommitChange(q)
    PROVE  CountingKept /\ DoneIsHonest
  <1> DEFINE redone == Redone(q)
  <1>1. /\ Ids' = Ids
        /\ \A i \in Ids : \/ assignment'[i] = assignment[i]
                           \/ assignment[i].reviewer \in redone
    BY ReopenedRows
  <1>2. /\ done' = (done /\ redone = {}) /\ request[q].kind = "change" /\ request'[q] = Idle
    BY DEF CommitChange, End, OfThisVersion, Redone
  <1>3. redone # {} => request[q].form
    BY DEF Redone
  <1> HIDE DEF redone
  <1>4. CountingKept
    BY <1>1, <1>2, <1>3 DEF CountingKept
  <1>5. DoneIsHonest
    <2> SUFFICES ASSUME done', NEW i \in Pending(assignment')
                 PROVE  done /\ i \in Pending(assignment)
      BY DEF DoneIsHonest
    <2> QED BY <1>1, <1>2 DEF Pending, Ids
  <1> QED BY <1>4, <1>5

LEMMA StepKeeps == PeerInv /\ Next => CountingKept /\ DoneIsHonest
  <1> SUFFICES ASSUME PeerInv, Next
               PROVE  CountingKept /\ DoneIsHonest
    OBVIOUS
  <1>1. ASSUME NEW q \in Request, BeginStep(q) \/ CommitView(q)
        PROVE  CountingKept /\ DoneIsHonest
    <2>1. UNCHANGED <<assignment, done>>
      BY <1>1 DEF BeginStep, BeginUpsert, BeginReplace, BeginTransfer, BeginView, BeginChange,
         Abandon, CommitView, peerVars
    <2> QED BY <2>1, SameAssignments
  <1>2. ASSUME NEW q \in Request, CommitUpsert(q)
        PROVE  CountingKept /\ DoneIsHonest
    BY <1>2, UpsertKeeps
  <1>3. ASSUME NEW q \in Request, CommitReplace(q)
        PROVE  CountingKept /\ DoneIsHonest
    BY <1>3, ReplaceKeeps
  <1>4. ASSUME NEW q \in Request, CommitTransfer(q)
        PROVE  CountingKept /\ DoneIsHonest
    BY <1>4, TransferKeeps
  <1>5. ASSUME NEW add \in Few, BatchAdd(add)
        PROVE  CountingKept /\ DoneIsHonest
    <2> DEFINE fresh == add \ ReviewersOf(assignment)
    <2>1. /\ fresh \in SUBSET Person /\ Fits(fresh) /\ Insertable(assignment, fresh)
          /\ assignment' \in Appended(assignment, fresh)
          /\ UNCHANGED <<leaderVars, submission>>
      BY <1>5 DEF BatchAdd, Insertable, Few
    <2> HIDE DEF fresh
    <2>2. RowsKept(assignment)
      BY DEF RowsKept, PeerInv, TypeOK
    <2>3. \A i \in Ids : assignment'[i] = assignment[i]
      BY <2>1, <2>2, AssignmentChanges DEF Fits
    <2>4. CountingKept
      BY <2>3 DEF CountingKept
    <2>5. DoneIsHonest
      BY <1>5 DEF DoneIsHonest
    <2> QED BY <2>4, <2>5
  <1>6. ASSUME NEW id \in Ids, SubmitPeer(id)
        PROVE  CountingKept /\ DoneIsHonest
    BY <1>6, SubmitKeeps
  <1>7. ASSUME NEW q \in Request, CommitChange(q)
        PROVE  CountingKept /\ DoneIsHonest
    BY <1>7, ChangeKeeps
  <1>8. CASE CycleStep
    <2>1. UNCHANGED assignment /\ (UNCHANGED done \/ status' = "WITHDRAWN")
      BY <1>8 DEF CycleStep, Reapply, Start, RollBack, Lock, Unlock, Withdraw
    <2> QED BY <2>1, SameAssignments
  <1> QED BY <1>1, <1>2, <1>3, <1>4, <1>5, <1>6, <1>7, <1>8 DEF Next, BeginStep, CycleStep

\* No list, transfer, view, other configuration or second start takes the count away from a
\* submission.
THEOREM EffectiveKept == Spec => EffectiveIsKept
  <1>1. PeerInv /\ [Next]_vars =>
            [\A i \in Ids :
                (assignment[i].status = "SUBMITTED" /\ assignment'[i].status # "SUBMITTED")
                    => \E q \in Request :
                          /\ request'[q] = Idle
                          /\ \/ request[q].kind = "replace" /\ request[q].id = i
                             \/ request[q].kind = "change" /\ request[q].form]_vars
    BY StepKeeps DEF CountingKept
  <1> QED BY <1>1, PeerInvariant, PTL DEF Spec, EffectiveIsKept

\* But for batchAdd, whoever assigns somebody opens the task again.
THEOREM DoneHonest == Spec => DoneHasNothingPending
  <1>1. PeerInv /\ [Next]_vars =>
            [done' /\ status' = "ACTIVE"
                => \/ Pending(assignment') \subseteq (IF done THEN Pending(assignment) ELSE {})
                   \/ \E add \in Few : BatchAdd(add)]_vars
    BY StepKeeps DEF DoneIsHonest
  <1> QED BY <1>1, PeerInvariant, PTL DEF Spec, DoneHasNothingPending

=============================================================================
