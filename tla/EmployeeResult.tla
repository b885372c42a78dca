--------------------------- MODULE EmployeeResult ---------------------------
(***************************************************************************)
(* What the result chain promises an employee.  At most one result is       *)
(* shown; a new one is shown only when its level differs from the one       *)
(* shown before (ADR 0031), with the next number, and awaits confirmation;  *)
(* a confirmation is given once; results disappear only for everybody at    *)
(* once (a rollback); when the cycle is closed every result shown is        *)
(* confirmed, and nothing changes any more (ADR 0055).                      *)
(***************************************************************************)
EXTENDS Naturals

CONSTANTS Participant, Level

VARIABLES
    closed,   \* the cycle is archived
    shown,    \* the result shown to each participant: at most one
    count     \* the results ever shown to each participant

vars == <<closed, shown, count>>

Result == [number : Nat, level : Level, confirmed : BOOLEAN]

Init ==
    /\ closed = FALSE
    /\ shown = [p \in Participant |-> {}]
    /\ count = [p \in Participant |-> 0]

Show(p, l) ==
    /\ ~closed
    /\ \A r \in shown[p] : r.level # l
    /\ count' = [count EXCEPT ![p] = @ + 1]
    /\ shown' = [shown EXCEPT ![p] =
          {[number |-> count[p] + 1, level |-> l, confirmed |-> FALSE]}]
    /\ UNCHANGED closed

Confirm(p) ==
    /\ ~closed
    /\ \E r \in shown[p] :
          /\ ~r.confirmed
          /\ shown' = [shown EXCEPT ![p] = {[r EXCEPT !.confirmed = TRUE]}]
    /\ UNCHANGED <<closed, count>>

RetractAll ==
    /\ ~closed
    /\ shown' = [p \in Participant |-> {}]
    /\ UNCHANGED <<closed, count>>

Close ==
    /\ ~closed
    /\ \A p \in Participant : \A r \in shown[p] : r.confirmed
    /\ closed' = TRUE
    /\ UNCHANGED <<shown, count>>

Next ==
    \/ \E p \in Participant : Confirm(p) \/ \E l \in Level : Show(p, l)
    \/ RetractAll
    \/ Close

Spec == Init /\ [][Next]_vars

=============================================================================
