------------------------------ MODULE MCServices ------------------------------
(***************************************************************************)
(* Four services that share no row with one another, for TLC: a behaviour  *)
(* is one of Interview, StageScore, OkrSync or Templates, and the other    *)
(* three stand still.                                                      *)
(***************************************************************************)
EXTENDS Interview, StageScore, OkrSync, Templates, TLC

CONSTANTS
    Parts,              \* the services a run explores
    anna, ben, cara     \* reviewers

VARIABLE part

\* Two reviewers of one relation, one of another; weights of the default
\* configuration; a scale whose mapping scores touch the ends of the intervals.
DefaultRelations == anna :> "PEER" @@ ben :> "PEER" @@ cara :> "ORG_OWNER" @@ Leader :> "LEADER"
DefaultWeights == [PEER |-> 2000, ORG_OWNER |-> 3500, LEADER |-> 10000]
DimensionWeights == [craft |-> 6000, values |-> 4000]
Lower == [S |-> 9000, A |-> 8000, B |-> 6000, C |-> 0]
Upper == [S |-> 10000, A |-> 9000, B |-> 8000, C |-> 6000]
Mapping == [S |-> 9500, A |-> 8000, B |-> 7999, C |-> 5000]

\* Requests and editors are the same model values, and so are slots and the kinds of
\* runs: nothing compares them.
Symmetry == Permutations(Call) \cup Permutations(Slot)

Init ==
    /\ part \in Parts
    /\ InterviewInit /\ ScoreInit /\ OkrInit /\ TemplatesInit
    /\ part # "score" => stage = "PEER"

Next ==
    \/ /\ part = "interview" /\ InterviewNext
       /\ UNCHANGED <<scoreVars, okrVars, templateVars, part>>
    \/ /\ part = "score" /\ ScoreNext
       /\ UNCHANGED <<interviewVars, okrVars, templateVars, part>>
    \/ /\ part = "okr" /\ OkrNext
       /\ UNCHANGED <<interviewVars, scoreVars, templateVars, part>>
    \/ /\ part = "templates" /\ TemplatesNext
       /\ UNCHANGED <<interviewVars, scoreVars, okrVars, part>>

\* Bounds the templates: five versions of forms and configurations in all, the fifth with
\* one open request next to it.
FewVersions ==
    /\ Len(form) + Len(config) <= 5
    /\ Len(form) + Len(config) = 5 => \E e \in Editor : edit[e] = NoEdit

vars == <<interviewVars, scoreVars, okrVars, templateVars, part>>

Spec == Init /\ [][Next]_vars
=============================================================================
