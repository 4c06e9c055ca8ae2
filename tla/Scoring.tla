------------------------------ MODULE Scoring ------------------------------
(***************************************************************************)
(* How a prediction is marked against a result (grading/metrics.py), what  *)
(* it earns (grading/scoring.py), and how the two ways to obtain a result, *)
(* from the provider and from the database, feed the same marking          *)
(* (services/grading_service.py).  Pure: no state.                         *)
(*                                                                         *)
(* Likelihoods and confidences are percentages, their squared errors are   *)
(* in 1/10000.  A quotient is a pair <<numerator, denominator>>.  Names    *)
(* are already normalised.                                                 *)
(***************************************************************************)
EXTENDS Integers, FiniteSets, SequencesExt

Side  == {"home", "away"}
Stages == {"group", "r32", "r16", "qf", "sf", "third_place", "final"}
Knockout == {"r32", "r16", "qf", "sf", "final", "third_place"}

-----------------------------------------------------------------------------
(* Score level: the 90 minutes *)

Outcome(home, away) ==
  IF home > away THEN "home" ELSE IF home < away THEN "away" ELSE "draw"

OutcomeOf(s) == Outcome(s.home, s.away)

ExactHit(pred, result) == pred.home = result.home /\ pred.away = result.away

OutcomeCorrect(pred, result) == OutcomeOf(pred) = OutcomeOf(result)

Gap(m, n) == IF m > n THEN m - n ELSE n - m

GoalsAbsError(pred, result) == Gap(pred.home + pred.away, result.home + result.away)

(* Scorers: own goals do not count, a name counts once *)

PredictedNames(pred) == {pred.scorers[k].name : k \in DOMAIN pred.scorers}

ActualNames(result) == {s.name : s \in {g \in result.scorers : g.type # "og"}}

Hits(pred, result) == Cardinality(PredictedNames(pred) \cap ActualNames(result))

Precision(pred, result) ==
  IF PredictedNames(pred) # {} THEN <<Hits(pred, result), Cardinality(PredictedNames(pred))>>
  ELSE IF ActualNames(result) = {} THEN <<1, 1>> ELSE <<0, 1>>

Recall(pred, result) ==
  IF ActualNames(result) # {} THEN <<Hits(pred, result), Cardinality(ActualNames(result))>>
  ELSE <<1, 1>>

SquaredError(percent, happened) ==
  LET e == percent - (IF happened THEN 100 ELSE 0) IN e * e

\* a repeated name is counted as often as it is predicted
ScorerBrier(pred, result) ==
  IF pred.scorers = <<>> THEN <<0, 1>>
  ELSE <<MapThenSumSet(LAMBDA k : SquaredError(pred.scorers[k].likelihood,
                                               pred.scorers[k].name \in ActualNames(result)),
                       DOMAIN pred.scorers),
         Len(pred.scorers)>>

ConfidenceBrier(pred, result) == SquaredError(pred.confidence, OutcomeCorrect(pred, result))

\* "none" when either side names nobody
AdvancingCorrect(pred, result) ==
  IF pred.advancing = "none" \/ result.advanced = "none" THEN "none"
  ELSE IF pred.advancing = result.advanced THEN "yes" ELSE "no"

-----------------------------------------------------------------------------
(* League points: exact before outcome before nothing *)

OutcomePoints ==
  [s \in Stages |-> CASE s = "group" -> 1 [] s \in {"r32", "r16"} -> 2 [] s = "qf" -> 4
                      [] s \in {"sf", "third_place"} -> 5 [] s = "final" -> 8]

ExactPoints ==
  [s \in Stages |-> CASE s = "group" -> 3 [] s \in {"r32", "r16"} -> 5 [] s = "qf" -> 8
                      [] s \in {"sf", "third_place"} -> 10 [] s = "final" -> 15]

\* a stage nobody listed earns what the group stage earns
Listed(stage) == IF stage \in Stages THEN stage ELSE "group"

MatchPoints(stage, exact, correct) ==
  IF exact THEN ExactPoints[Listed(stage)]
  ELSE IF correct THEN OutcomePoints[Listed(stage)] ELSE 0

MaxPoints(stage) == ExactPoints[Listed(stage)]

-----------------------------------------------------------------------------
(* GradingService *)

\* Grade, as _grade writes it
Mark(stage, pred, result) ==
  [exact |-> ExactHit(pred, result), correct |-> OutcomeCorrect(pred, result),
   goals_error |-> GoalsAbsError(pred, result),
   precision |-> Precision(pred, result), recall |-> Recall(pred, result),
   scorer_brier |-> ScorerBrier(pred, result), brier |-> ConfidenceBrier(pred, result),
   advancing |-> AdvancingCorrect(pred, result),
   points |-> MatchPoints(stage, ExactHit(pred, result), OutcomeCorrect(pred, result))]

\* the side of a match a team is on
SideOf(team, home, away) ==
  IF team = home THEN "home" ELSE IF team = away THEN "away" ELSE "none"

\* _to_metric_pred: the advancing team is stored by id, and marked by side
ToMetricPred(row, home, away) ==
  [home |-> row.home, away |-> row.away, scorers |-> row.scorers,
   confidence |-> row.confidence, advancing |-> SideOf(row.advancing, home, away)]

\* result_dto_to_values: what is stored of a provider's answer
ToValues(dto, home, away, nobody) ==
  [status |-> "final", home |-> dto.home, away |-> dto.away, scorers |-> dto.scorers,
   advanced |-> IF dto.advanced = "home" THEN home
                ELSE IF dto.advanced = "away" THEN away ELSE nobody]

\* _to_metric_result and _stored_to_metric_result
ToMetricResult(dto) ==
  [home |-> dto.home, away |-> dto.away, scorers |-> dto.scorers, advanced |-> dto.advanced]

StoredToMetricResult(stored, home, away) ==
  [home |-> stored.home, away |-> stored.away, scorers |-> stored.scorers,
   advanced |-> SideOf(stored.advanced, home, away)]
=============================================================================
