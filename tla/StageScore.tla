------------------------------ MODULE StageScore ------------------------------
(***************************************************************************)
(* How the answers of a PEER or MANAGER stage become a level: the unified  *)
(* calculator, recomputed and stored after every change of its inputs.     *)
(*                                                                         *)
(* Configured scores, answers and weights have two decimals and are counted *)
(* in hundredths; calculated scores are whole multiples of 1/Unit of a      *)
(* hundredth.  A quotient is rounded half up to that precision, where the   *)
(* code keeps 40 digits; every intermediate rounding is in the model, at    *)
(* the place the code has it.                                               *)
(***************************************************************************)
EXTENDS Integers, FiniteSets, FiniteSetsExt

CONSTANTS
    Reviewer, Leader,   \* who answers; Leader alone in the MANAGER stage
    RelationOf,         \* [Reviewer -> relations]
    BaseWeight,         \* [relations -> 1 .. 10000]
    Dimension, Core,    \* the scoring dimensions of the form, and the core one
    WeightOf,           \* [Dimension -> 1 .. 10000]
    Rated,              \* the dimensions answered with a level
    RawScore,           \* what the others may be answered with
    MinScore, MaxScore, MappingScore,   \* [Level -> scores]: the rating scale
    Unit                \* bound: parts of a hundredth that are kept

Level == {"S", "A", "B", "C"}
rank == [S |-> 4, A |-> 3, B |-> 2, C |-> 1]

\* 100 points or per cent.
Hundred == 10000

\* validateDimensionWeights and validatedWeight.
ASSUME WeightAssumption ==
    /\ IsFiniteSet(Reviewer) /\ IsFiniteSet(Dimension)
    /\ Leader \in Reviewer /\ Core \in Dimension /\ Rated \subseteq Dimension
    /\ WeightOf \in [Dimension -> 1 .. Hundred]
    /\ MapThenSumSet(LAMBDA d : WeightOf[d], Dimension) = Hundred
    /\ \A r \in Reviewer : BaseWeight[RelationOf[r]] \in 1 .. Hundred

\* validateRatingScale, scoreOf.
ASSUME ScaleAssumption ==
    /\ Unit \in Nat \ {0}
    /\ RawScore \subseteq 0 .. Hundred
    /\ MinScore \in [Level -> Nat] /\ MaxScore \in [Level -> Nat]
    /\ MappingScore \in [Level -> Nat]
    /\ MinScore["C"] = 0 /\ MaxScore["S"] = Hundred
    /\ MaxScore["C"] = MinScore["B"] /\ MaxScore["B"] = MinScore["A"]
    /\ MaxScore["A"] = MinScore["S"]
    /\ \A l \in Level :
        /\ MinScore[l] < MaxScore[l]
        /\ MinScore[l] <= MappingScore[l]
        /\ MappingScore[l] < MaxScore[l] \/ MappingScore[l] = Hundred

VARIABLES
    stage,     \* PEER or MANAGER
    answer,    \* the effective submission of each reviewer: a value per dimension
    redLine,   \* a red line is confirmed and not revoked
    computed   \* the stored stage result

scoreVars == <<stage, answer, redLine, computed>>

\* The dimension answers of a submission: a raw level or a raw score for each.
Answers == [levels : [Rated -> Level], scores : [Dimension \ Rated -> RawScore]]
NoAnswer == [levels |-> <<>>, scores |-> <<>>]
NoData == [status |-> "NO_DATA"]
Answered(answers) == {r \in Reviewer : answers[r] # NoAnswer}

-----------------------------------------------------------------------------
(* The calculator.                                                          *)

\* ROUND_HALF_UP of n / d, for n >= 0.
HalfUp(n, d) == (2 * n + d) \div (2 * d)

\* ratingScoreOf, scoreOf.
CalculationScore(d, a) ==
    Unit * (IF d \in Rated THEN MappingScore[a.levels[d]] ELSE a.scores[d])

\* Mutant: divides by everyone of the relation, answered or not.
AverageOfAssigned(answers, d, rel) ==
    HalfUp(MapThenSumSet(LAMBDA r : CalculationScore(d, answers[r]),
                         {r \in Answered(answers) : RelationOf[r] = rel}),
           Cardinality({r \in Reviewer : RelationOf[r] = rel}))

\* The score of a relation: the average of its items.
RelationScore(answers, d, rel) ==
    LET members == {r \in Answered(answers) : RelationOf[r] = rel}
    IN  HalfUp(MapThenSumSet(LAMBDA r : CalculationScore(d, answers[r]), members),
               Cardinality(members))

\* activeBaseWeightTotal.
ActiveWeight(relations) == MapThenSumSet(LAMBDA rel : BaseWeight[rel], relations)

DimensionScore(answers, d) ==
    LET relations == {RelationOf[r] : r \in Answered(answers)}
    IN  HalfUp(MapThenSumSet(LAMBDA rel : RelationScore(answers, d, rel) * BaseWeight[rel],
                             relations),
               ActiveWeight(relations))

\* levelForScore: the lower end belongs to the interval, the upper one only at 100.
LevelForScore(score) ==
    CHOOSE l \in Level :
        /\ score >= Unit * MinScore[l]
        /\ score < Unit * MaxScore[l] \/ (MaxScore[l] = Hundred /\ score <= Unit * MaxScore[l])

\* unroundedCompositeScore, then toDecimalPlaces(2, ROUND_HALF_UP).
CompositeScore(scores) ==
    LET unrounded ==
          MapThenSumSet(LAMBDA d : HalfUp(scores[d] * WeightOf[d], Hundred), Dimension)
    IN  HalfUp(unrounded, Unit) * Unit

\* lowerLevel.
LowerLevel(current, target) == IF rank[current] <= rank[target] THEN current ELSE target

\* Mutant: ANY_C_CAP sets the level where it should lower it.
CappedAnyway(initial, core, levels) ==
    IF "C" \in levels THEN "B"
    ELSE IF core = "B" THEN LowerLevel(initial, "B") ELSE initial

\* applyUnifiedConstraints: CORE_C_FORCE, CORE_B_CAP and ANY_C_CAP, in this order.
Constrained(initial, core, levels) ==
    LET forced == IF core = "C" THEN LowerLevel(initial, "C") ELSE initial
        capped == IF core = "B" THEN LowerLevel(forced, "B") ELSE forced
    IN  IF "C" \in levels THEN LowerLevel(capped, "B") ELSE capped

\* calculateUnifiedStageResult, with applyConfirmedRedLine last; NO_DATA without an
\* effective submission.
Computed(answers, red) ==
    IF Answered(answers) = {} THEN NoData
    ELSE LET scores == [d \in Dimension |-> DimensionScore(answers, d)]
             levels == [d \in Dimension |-> LevelForScore(scores[d])]
             composite == CompositeScore(scores)
             initial == LevelForScore(composite)
             constrained == Constrained(initial, levels[Core], {levels[d] : d \in Dimension})
         IN  [status |-> "READY", dimensions |-> levels, composite |-> composite,
              initial |-> initial, final |-> IF red THEN "C" ELSE constrained]

-----------------------------------------------------------------------------
(* What changes the inputs; every change recalculates.                      *)

ScoreInit ==
    /\ stage \in {"PEER", "MANAGER"}
    /\ answer = [r \in Reviewer |-> NoAnswer]
    /\ redLine = FALSE
    /\ computed = NoData

\* A submission, first or again.
SubmitAnswers(r) ==
    /\ (stage = "MANAGER") <=> (r = Leader)
    /\ \E a \in Answers : answer' = [answer EXCEPT ![r] = a]
    /\ computed' = Computed(answer', redLine)
    /\ UNCHANGED <<stage, redLine>>

\* The assignment is replaced, or the form change takes the submission back.
DropAnswers(r) ==
    /\ answer[r] # NoAnswer
    /\ answer' = [answer EXCEPT ![r] = NoAnswer]
    /\ computed' = Computed(answer', redLine)
    /\ UNCHANGED <<stage, redLine>>

\* A red line is confirmed or revoked; the PEER stage passes none on.
RedLineChanges ==
    /\ stage = "MANAGER"
    /\ redLine' = ~redLine
    /\ computed' = Computed(answer, redLine')
    /\ UNCHANGED <<stage, answer>>

ScoreNext ==
    \/ \E r \in Reviewer : SubmitAnswers(r) \/ DropAnswers(r)
    \/ RedLineChanges

ScoreSpec == ScoreInit /\ [][ScoreNext]_scoreVars

-----------------------------------------------------------------------------
(* Properties.                                                              *)

\* The levels the stored result may not exceed: that of the composite, C with a red line
\* or a core dimension in C, B with a core dimension in B or any dimension in C.
Ceilings ==
    {l \in Level :
        \/ l = computed.initial
        \/ l = "C" /\ (redLine \/ computed.dimensions[Core] = "C")
        \/ l = "B" /\ (computed.dimensions[Core] = "B"
                       \/ \E d \in Dimension : computed.dimensions[d] = "C")}

\* What everybody who answered says of a dimension stands, whatever their relations weigh
\* and wherever in the interval of the level they are; and the final level is the worst
\* that applies of what composite, dimensions and red line say, in whatever order the code
\* goes through them.
LevelsAreEarned ==
    Answered(answer) # {} =>
        /\ \A d \in Dimension, l \in Level :
            (\A r \in Answered(answer) : LevelForScore(CalculationScore(d, answer[r])) = l)
                => computed.dimensions[d] = l
        /\ computed.final \in Ceilings
        /\ \A l \in Ceilings : rank[computed.final] <= rank[l]

\* Both results exist and no answer of `before` is better than that of `after`.
NowhereWorse(before, after) ==
    /\ Answered(before) = Answered(after) /\ Answered(before) # {}
    /\ \A r \in Answered(before), d \in Dimension :
        CalculationScore(d, before[r]) <= CalculationScore(d, after[r])

\* Nobody who loses an answer was above anybody else in any dimension.
HarshestDropped(before, after) ==
    /\ Answered(after) # {} /\ Answered(after) \subseteq Answered(before)
    /\ \A r \in Answered(before) \ Answered(after), s \in Answered(after), d \in Dimension :
        CalculationScore(d, before[r]) <= CalculationScore(d, before[s])
    /\ \A s \in Answered(after) : after[s] = before[s]

\* A better answer never lowers the level, and neither does the loss of the harshest
\* reviewer: averages, normalised weights, the roundings at every quotient, the level
\* intervals and the constraints are monotonous together, at the boundaries too.
PraiseNeverLowers ==
    [][NowhereWorse(answer, answer') \/ HarshestDropped(answer, answer')
         => redLine' # redLine
            \/ /\ rank[computed.final] <= rank[computed'.final]
               /\ computed.composite <= computed'.composite]_scoreVars
=============================================================================
