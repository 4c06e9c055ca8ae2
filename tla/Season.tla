------------------------------- MODULE Season -------------------------------
(***************************************************************************)
(* A tournament from its first kickoff on: what every estimator forecasts, *)
(* what each forecast is marked, and what the accuracy pages add up - the  *)
(* estimator services, workers/runner.py run_baselines and _run_market,    *)
(* cli.py poisson, grading_service.py, batch_backfill_service.py,          *)
(* dashboard_service.py, scripts/seed_demo.py.                             *)
(*                                                                         *)
(* Module Pipeline interleaves the jobs on one fixture and forgets what    *)
(* the scorelines are; here one transaction runs at a time, and the        *)
(* scorelines of several fixtures depend on one another through time: a    *)
(* forecast may only use what was played before its match.                 *)
(*                                                                         *)
(* Of a fixture and an estimator one row is kept: calibration versions     *)
(* and web-search backfills are the business of Pipeline and Dashboard.    *)
(***************************************************************************)
EXTENDS Estimators

CONSTANTS
  Fixture,
  Home, Away,  \* [Fixture -> Team]
  Kickoff,     \* [Fixture -> slot in which it starts]
  Stage,       \* [Fixture -> stage]
  LastSlot,    \* bound: slots of the tournament
  Nobody,      \* no team
  Truths,      \* bound: what the provider may answer about a match
  Answers,     \* bound: what the language model may answer
  Feeds,       \* bound: what the odds feed may list
  Caps,        \* bound: per-run fixture caps
  Counts,      \* bound: fixtures the CLI is asked for
  Asked,       \* bound: fixtures the language model is asked about
  Movable,     \* bound: fixtures that may be postponed
  Demo,        \* the forecast the seed script makes up
  Sure,        \* [baseline -> confidence]: the mass of an outcome, left abstract
  Nothing      \* no row, no grade, no result, not played

Baselines == {"poisson", "elo", "dc", "naive"}
Statistical == Baselines \cup {"market"}                            \* BASELINE_MODEL_IDS
Llm == {"llm", "batch", "seed"}
Model == Statistical \cup Llm

Disjoint(f, g) == {Home[f], Away[f]} \cap {Home[g], Away[g]} = {}

ASSUME SeasonAssumption ==
  /\ IsFiniteSet(Fixture) /\ IsFiniteSet(Team)
  /\ Home \in [Fixture -> Team] /\ Away \in [Fixture -> Team]
  /\ Kickoff \in [Fixture -> Nat] /\ LastSlot \in Nat
  /\ \A f \in Fixture : Home[f] # Away[f]
  /\ \A f, g \in Fixture : f # g /\ Kickoff[f] = Kickoff[g] => Disjoint(f, g)
  /\ Nobody \notin Team
  /\ \A t \in Truths : t.home \in Nat /\ t.away \in Nat /\ t.advanced \in {"home", "away", "none"}
  /\ Nothing \notin Truths
  /\ \A t \in Truths, f \in Fixture : ToValues(t, Home[f], Away[f], Nobody) # Nothing

\* schemas.py bounds what the model answers, odds.py skips events without books
ASSUME InputsAreValid ==
  /\ \A a \in Answers \cup {Demo} : a.home \in 0..20 /\ a.away \in 0..20 /\ a.confidence \in 0..100
  /\ \A feed \in Feeds : \A k \in DOMAIN feed :
       /\ feed[k].books \in Seq([home : Nat \ {0}, draw : Nat \ {0}, away : Nat \ {0}])
       /\ feed[k].books # <<>>

VARIABLES
  now,      \* the current slot
  status,   \* [Fixture -> status]
  truth,    \* [Fixture -> what was played: an element of Truths, or Nothing]
  stored,   \* [Fixture -> Result row]
  row,      \* [Fixture -> [Model -> Prediction row]]
  grade,    \* [Fixture -> [Model -> Grade row]]
  made      \* [Fixture -> pairs of language models, the first's row created before the second's]

svars == <<now, status, truth, stored, row, grade, made>>

RowsOfLlm(f) == {m \in Llm : row[f][m] # Nothing}

\* created_at of the language models' rows of a fixture
Chronological(f) ==
  /\ made[f] \subseteq RowsOfLlm(f) \X RowsOfLlm(f)
  /\ \A m, n \in RowsOfLlm(f) : m # n => (<<m, n>> \in made[f] <=> <<n, m>> \notin made[f])
  /\ \A m \in RowsOfLlm(f) : <<m, m>> \notin made[f]
  /\ \A l, m, n \in RowsOfLlm(f) : <<l, m>> \in made[f] /\ <<m, n>> \in made[f] => <<l, n>> \in made[f]

RowOK(f, m) ==
  /\ row[f][m].home \in 0..20 /\ row[f][m].away \in 0..20
  /\ row[f][m].advancing \in Team \cup {Nobody}
  /\ m \in Llm => row[f][m].confidence \in 0..100

GradeOK(f, m) ==
  /\ row[f][m] # Nothing
  /\ grade[f][m].exact => grade[f][m].correct
  /\ grade[f][m].points \in 0..MaxPoints(Stage[f])

STypeOK ==
  /\ now \in 0..LastSlot
  /\ status \in [Fixture -> {"scheduled", "postponed", "finished"}]
  /\ truth \in [Fixture -> Truths \cup {Nothing}]
  /\ made \in [Fixture -> SUBSET (Llm \X Llm)]
  /\ \A f \in Fixture : stored[f] # Nothing => stored[f].status \in {"final", "void"}

RowsAreSound   == \A f \in Fixture, m \in Model : row[f][m] # Nothing => RowOK(f, m)
GradesAreSound == \A f \in Fixture, m \in Model : grade[f][m] # Nothing => GradeOK(f, m)
RowsAreDated   == \A f \in Fixture : Chronological(f)

-----------------------------------------------------------------------------
(* What was played before a match *)

Final(f) == stored[f] # Nothing /\ stored[f].status = "final"

\* a voided match is stored as 0-0
PriorWithVoid(f) == {g \in Fixture : Kickoff[g] < Kickoff[f] /\ stored[g] # Nothing}  \* mutant

\* _prior_results: kicked off strictly earlier, and final
Prior(f) == {g \in Fixture : Kickoff[g] < Kickoff[f] /\ Final(g)}

Played(g, score) ==
  [id |-> g, home |-> Home[g], away |-> Away[g], hg |-> score.home, ag |-> score.away]

AnyOrder(S) == SetToSeqs(S)                                         \* mutant

\* ORDER BY kickoff_utc: simultaneous matches in any order
KickoffOrders(S) ==
  {s \in SetToSeqs(S) : \A j, k \in DOMAIN s : j < k => Kickoff[s[j]] <= Kickoff[s[k]]}

Results(K, score) == {Played(g, score[g]) : g \in K}

\* what EloService may compute; EloIsWellDefined says that it is one thing
RatingsFrom(K, score) ==
  {Ratings([k \in DOMAIN s |-> Played(s[k], score[s[k]])]) : s \in KickoffOrders(K)}

One(S) == CHOOSE x \in S : TRUE

Scoreline(m, f, K, score) ==
  IF m = "poisson" THEN PredictPoisson(Results(K, score), Home[f], Away[f])
  ELSE IF m = "dc" THEN PredictDc(Results(K, score), Home[f], Away[f])
  ELSE IF m = "elo" THEN PredictElo(Home[f], Away[f], One(RatingsFrom(K, score)))
  ELSE PredictNaive

\* naive_service and the others, without their explanations
Forecast(m, f, s) ==
  [home |-> s.home, away |-> s.away, scorers |-> <<>>, confidence |-> Sure[m],
   advancing |-> Advancing(Stage[f], s, Home[f], Away[f], Nobody), ok |-> TRUE, backfill |-> FALSE]

ForecastFrom(m, f, K, score) == Forecast(m, f, Scoreline(m, f, K, score))

BaselineRow(m, f) == ForecastFrom(m, f, Prior(f), stored)

-----------------------------------------------------------------------------
(* Selections: the first cap fixtures in kickoff order, ties in any order *)

FirstOf(S, cap) ==
  {T \in SUBSET S : /\ Cardinality(T) = Smallest(cap, Cardinality(S))
                    /\ \A f \in T, g \in S \ T : Kickoff[f] <= Kickoff[g]}

Upcoming == {f \in Fixture : status[f] = "scheduled" /\ now <= Kickoff[f]}
OkRows(f) == {m \in Model : row[f][m] # Nothing /\ row[f][m].ok}
Ungraded(f) == {m \in OkRows(f) : grade[f][m] = Nothing}

\* a new row is the newest, a rewritten one keeps its created_at
NotedAgain(f, m) == made[f] \cup {<<n, m>> : n \in RowsOfLlm(f)}      \* mutant
Noted(f, m) ==
  IF row[f][m] = Nothing THEN made[f] \cup {<<n, m>> : n \in RowsOfLlm(f)} ELSE made[f]

SInit ==
  /\ now = 0
  /\ status = [f \in Fixture |-> "scheduled"]
  /\ truth = [f \in Fixture |-> Nothing]
  /\ stored = [f \in Fixture |-> Nothing]
  /\ row = [f \in Fixture |-> [m \in Model |-> Nothing]]
  /\ grade = [f \in Fixture |-> [m \in Model |-> Nothing]]
  /\ made = [f \in Fixture |-> {}]

-----------------------------------------------------------------------------
(* The world, known to the database at once; Pipeline and Sync have the lag *)

Tick ==
  /\ now < LastSlot /\ now' = now + 1
  /\ UNCHANGED <<status, truth, stored, row, grade, made>>

\* put off, or broken off and to be played again; and back
Postpone(f) ==
  /\ f \in Movable /\ status[f] # "finished"
  /\ status' = [status EXCEPT ![f] = IF @ = "scheduled" THEN "postponed" ELSE "scheduled"]
  /\ UNCHANGED <<now, truth, stored, row, grade, made>>

\* the winner a provider reports: also of a group match, none only of its draw
Winner(f, t) ==
  IF OutcomeOf(t) # "draw" THEN t.advanced = OutcomeOf(t)
  ELSE t.advanced = "none" <=> Stage[f] \notin Knockout

Finish(f) ==
  /\ status[f] # "finished" /\ Kickoff[f] < now
  /\ \E t \in Truths : Winner(f, t) /\ truth' = [truth EXCEPT ![f] = t]
  /\ status' = [status EXCEPT ![f] = "finished"]
  /\ UNCHANGED <<now, stored, row, grade, made>>

-----------------------------------------------------------------------------
(* The estimators *)

KeepGrades(S) == grade                                              \* mutant
Ungrade(S) == [f \in Fixture |-> [m \in Model |-> IF m \in S THEN Nothing ELSE grade[f][m]]]

\* first transaction of run_baselines: the grades of every baseline go, also of
\* the fixtures beyond the cap and of the market
Refresh ==
  /\ \E cap \in Caps, S \in SUBSET Fixture :
       /\ S \in FirstOf(Fixture, cap)
       /\ row' = [f \in Fixture |-> [m \in Model |-> IF f \in S /\ m \in Baselines
                                                     THEN BaselineRow(m, f) ELSE row[f][m]]]
  /\ grade' = Ungrade(Statistical)
  /\ UNCHANGED <<now, status, truth, stored, made>>

\* the CLI's poisson: demo seeds and their grades are deleted
CliPoisson ==
  /\ \E count \in Counts, S \in SUBSET Fixture :
       /\ S \in FirstOf(Fixture, count)
       /\ row' = [f \in Fixture |->
            [m \in Model |-> CASE f \in S /\ m = "seed"    -> Nothing
                               [] f \in S /\ m = "poisson" -> BaselineRow(m, f)
                               [] OTHER -> row[f][m]]]
       /\ grade' = [f \in Fixture |->
            [m \in Model |-> IF m = "poisson" \/ (f \in S /\ m = "seed") THEN Nothing ELSE grade[f][m]]]
       /\ made' = [f \in Fixture |-> {p \in made[f] : f \in S => "seed" \notin {p[1], p[2]}}]
  /\ UNCHANGED <<now, status, truth, stored>>

\* index of MarketService.run: by the two teams, the last event of a feed wins
EventFor(feed, f) ==
  {k \in DOMAIN feed : /\ {feed[k].home, feed[k].away} = {Home[f], Away[f]}
                       /\ \A l \in DOMAIN feed : {feed[l].home, feed[l].away} = {Home[f], Away[f]} => l <= k}

MarketRow(feed, k, f) ==
  Forecast("market", f, PredictMarket(Orient(Devig(feed[k].books), Home[f], feed[k].home)))

\* _run_market: only matches to come
Market ==
  /\ \E feed \in Feeds, cap \in Caps, S \in SUBSET Fixture :
       /\ S \in FirstOf({f \in Upcoming : now < Kickoff[f]}, cap)
       /\ row' = [f \in Fixture |-> [m \in Model |->
            IF m = "market" /\ f \in S /\ EventFor(feed, f) # {}
            THEN MarketRow(feed, One(EventFor(feed, f)), f) ELSE row[f][m]]]
  /\ UNCHANGED <<now, status, truth, stored, grade, made>>

-----------------------------------------------------------------------------
(* The language model, the batch and the demo *)

\* a validated answer, its side turned into a team; Nothing is a failed one
AnswerRow(f, out, backfill) ==
  IF out = Nothing
  THEN [home |-> 0, away |-> 0, scorers |-> <<>>, confidence |-> 0, advancing |-> Nobody,
        ok |-> FALSE, backfill |-> backfill]
  ELSE [home |-> out.home, away |-> out.away, scorers |-> out.scorers, confidence |-> out.confidence,
        advancing |-> IF out.advancing = "home" THEN Home[f]
                      ELSE IF out.advancing = "away" THEN Away[f] ELSE Nobody,
        ok |-> TRUE, backfill |-> backfill]

\* knockouts name a winner, group matches none
AnswersTo(f) == {a \in Answers : Stage[f] \in Knockout <=> a.advancing # "none"} \cup {Nothing}

ASSUME AnswersAreRows ==
  \A f \in Fixture, out \in Answers \cup {Demo, Nothing}, backfill \in BOOLEAN :
    AnswerRow(f, out, backfill) # Nothing

Put(f, m, r) ==
  /\ row' = [g \in Fixture |-> [n \in Model |-> IF g = f /\ n = m THEN r ELSE row[g][n]]]
  /\ made' = [made EXCEPT ![f] = Noted(f, m)]

\* a predict run, on one of its fixtures
Ask(f) ==
  /\ f \in Asked \cap Upcoming
  /\ "llm" \notin OkRows(f)
  /\ \E out \in AnswersTo(f) : Put(f, "llm", AnswerRow(f, out, FALSE))
  /\ UNCHANGED <<now, status, truth, stored, grade>>

\* BatchBackfillService.run, its one fixture's share: the Grade stays
Batch(f) ==
  /\ f \in Asked
  /\ status[f] = "finished" \/ f \in Upcoming
  /\ \E out \in AnswersTo(f) : Put(f, "batch", AnswerRow(f, out, status[f] = "finished"))
  /\ UNCHANGED <<now, status, truth, stored, grade>>

\* scripts/seed_demo.py, over the finished and the next fixtures: skips one with
\* an OK row, and trips over two
SeedDemo ==
  /\ \E count \in Counts, next \in SUBSET Fixture :
       /\ next \in FirstOf({f \in Fixture : status[f] # "finished"}, count)
       /\ LET seen == next \cup {f \in Fixture : status[f] = "finished"}
              S == {f \in seen : OkRows(f) = {}}
          IN /\ \A f \in seen : Cardinality(OkRows(f)) < 2
             /\ S # {}
             /\ row' = [f \in Fixture |-> [m \in Model |-> IF m = "seed" /\ f \in S
                                                           THEN AnswerRow(f, Demo, FALSE) ELSE row[f][m]]]
             /\ made' = [f \in Fixture |-> IF f \in S THEN Noted(f, "seed") ELSE made[f]]
  /\ UNCHANGED <<now, status, truth, stored, grade>>

-----------------------------------------------------------------------------
(***************************************************************************)
(* GradingService.grade_fixture: marks every OK row that has no Grade,     *)
(* against the stored result or, the first time, the provider's answer.    *)
(***************************************************************************)
Voided(f) ==
  [status |-> "void", home |-> 0, away |-> 0,
   scorers |-> IF stored[f] = Nothing THEN {} ELSE stored[f].scorers,
   advanced |-> IF stored[f] = Nothing THEN Nobody ELSE stored[f].advanced]

MarkOf(f, m, result) == Mark(Stage[f], ToMetricPred(row[f][m], Home[f], Away[f]), result)

Graded(f, result) ==
  [g \in Fixture |-> [m \in Model |-> IF g = f /\ m \in Ungraded(f) THEN MarkOf(f, m, result)
                                      ELSE grade[g][m]]]

Grade(f) ==
  /\ \/ /\ status[f] = "postponed"
        /\ stored' = [stored EXCEPT ![f] = Voided(f)]
        /\ UNCHANGED grade
     \/ /\ status[f] # "postponed" /\ Ungraded(f) # {} /\ Final(f)
        /\ grade' = Graded(f, StoredToMetricResult(stored[f], Home[f], Away[f]))
        /\ UNCHANGED stored
     \/ /\ status[f] # "postponed" /\ Ungraded(f) # {} /\ ~ Final(f) /\ truth[f] # Nothing
        /\ stored' = [stored EXCEPT ![f] = ToValues(truth[f], Home[f], Away[f], Nobody)]
        /\ grade' = Graded(f, ToMetricResult(truth[f]))
  /\ UNCHANGED <<now, status, truth, row, made>>

-----------------------------------------------------------------------------
(* The accuracy pages: DashboardService *)

Hindsight(f, m) == row[f][m].backfill /\ m # "batch"

Marked(f, m) == grade[f][m] # Nothing /\ Final(f)
GradedBy(S) == {x \in Fixture \X S : Marked(x[1], x[2]) /\ ~ Hindsight(x[1], x[2])}

\* _dedup_per_fixture: the newest graded row of each fixture, in kickoff order
Counted == {f \in Fixture : \E m \in Llm : <<f, m>> \in GradedBy(Llm)}
Headliner(f) ==
  LET G == {m \in Llm : <<f, m>> \in GradedBy(Llm)}
  IN CHOOSE m \in G : \A n \in G : n = m \/ <<n, m>> \in made[f]
HeadlineRows == {[k \in DOMAIN s |-> [fixture |-> s[k], row |-> row[s[k]][Headliner(s[k])],
                                      grade |-> grade[s[k]][Headliner(s[k])]]] : s \in KickoffOrders(Counted)}

\* sums over the rows with the given numbers
PointsOf(rows, K) == SumFunction([k \in K |-> rows[k].grade.points])
MostOf(rows, K) == SumFunction([k \in K |-> MaxPoints(Stage[rows[k].fixture])])
TotalPoints(rows) == PointsOf(rows, DOMAIN rows)

\* _points_by_stage
InStage(rows, s) == {k \in DOMAIN rows : Stage[rows[k].fixture] = s}
PointsByStage(rows) ==
  [s \in {Stage[rows[k].fixture] : k \in DOMAIN rows} |->
     [points |-> PointsOf(rows, InStage(rows, s)), max |-> MostOf(rows, InStage(rows, s)),
      n |-> Cardinality(InStage(rows, s))]]

\* _trend: groupby groups neighbours, so a point per run of equal dates
Ends(rows) == {k \in DOMAIN rows : k = Len(rows) \/ Kickoff[rows[k].fixture] # Kickoff[rows[k + 1].fixture]}
Trend(rows) ==
  {[date |-> Kickoff[rows[k].fixture], n |-> k,
    outcomes |-> Cardinality({l \in 1..k : rows[l].grade.correct}),
    exact |-> Cardinality({l \in 1..k : rows[l].grade.exact}),
    points |-> PointsOf(rows, 1..k)] : k \in Ends(rows)}

\* _BUCKETS, in percent; the last one is open to 1.01 and takes in certainty
BucketsOpen == {<<0, 20>>, <<20, 40>>, <<40, 60>>, <<60, 80>>, <<80, 100>>}  \* mutant
Buckets     == {<<0, 20>>, <<20, 40>>, <<40, 60>>, <<60, 80>>, <<80, 101>>}
Members(rows, b) == {k \in DOMAIN rows : b[1] <= rows[k].row.confidence /\ rows[k].row.confidence < b[2]}

\* load_graded: what a calibration profile is computed from
Evidence == {x \in Fixture \X Llm : Marked(x[1], x[2]) /\ ~ row[x[1]][x[2]].backfill}

-----------------------------------------------------------------------------
SNext ==
  \/ Tick \/ Refresh \/ CliPoisson \/ Market \/ SeedDemo
  \/ \E f \in Fixture : Postpone(f) \/ Finish(f) \/ Ask(f) \/ Batch(f) \/ Grade(f)

SSpec == SInit /\ [][SNext]_svars

-----------------------------------------------------------------------------
(* Properties *)

(***************************************************************************)
(* Every estimator's page claims as-of forecasts: what a baseline shows    *)
(* for a match can be computed from true scores of some matches that       *)
(* kicked off before it - whenever it was computed, whatever was postponed *)
(* and voided meanwhile, and whatever order the refreshes and gradings     *)
(* came in.                                                                *)
(***************************************************************************)
ForecastsAreAsOf ==
  \A f \in Fixture, m \in Baselines : row[f][m] # Nothing =>
    \E K \in SUBSET {g \in Fixture : Kickoff[g] < Kickoff[f] /\ truth[g] # Nothing} :
      row[f][m] = ForecastFrom(m, f, K, truth)

(***************************************************************************)
(* elo.py: "results in CHRONOLOGICAL order (caller must sort)".  ORDER BY  *)
(* leaves the order of simultaneous matches to the database; the ratings   *)
(* do not depend on it, and they move points between teams without making  *)
(* any.                                                                    *)
(***************************************************************************)
EloIsWellDefined ==
  \A f \in Fixture : LET R == RatingsFrom(Prior(f), stored) IN
    /\ Cardinality(R) = 1
    /\ \A r \in R : SumFunction(r) = SumFunction(Seed)

(***************************************************************************)
(* A Grade of a final match is what its prediction deserves, whether it    *)
(* was marked against the provider's answer or the stored row, and however *)
(* often baselines and demo rows were rewritten - except for a batch that  *)
(* was run again after the match, and such a row never teaches the         *)
(* calibration anything.                                                   *)
(***************************************************************************)
GradeIsRight(f, m) ==
  /\ row[f][m] # Nothing /\ row[f][m].ok
  /\ grade[f][m] = MarkOf(f, m, StoredToMetricResult(stored[f], Home[f], Away[f]))

GradesAreRight ==
  \A f \in Fixture, m \in Model : grade[f][m] # Nothing /\ Final(f) =>
    \/ GradeIsRight(f, m)
    \/ m = "batch" /\ row[f][m].backfill /\ <<f, m>> \notin Evidence

(***************************************************************************)
(* The dashboard adds up: the stages make the total, the trend has one     *)
(* point a day and ends at the total, nobody beats the maximum, an exact   *)
(* hit is a correct outcome, and the reliability buckets hold every row    *)
(* once, certain ones included.                                            *)
(***************************************************************************)
BooksBalance ==
  \A rows \in HeadlineRows :
    LET stages == PointsByStage(rows)
        trend  == Trend(rows)
    IN /\ TotalPoints(rows) = SumFunction([s \in DOMAIN stages |-> stages[s].points])
       /\ TotalPoints(rows) <= MostOf(rows, DOMAIN rows)
       /\ \A p, q \in trend : p.date < q.date => p.n < q.n /\ p.points <= q.points /\ p.exact <= q.outcomes
       /\ Cardinality({p.date : p \in trend}) = Cardinality(Ends(rows))
       /\ rows # <<>> => \E p \in trend : p.n = Cardinality(Counted) /\ p.points = TotalPoints(rows)
       /\ SumFunction([b \in Buckets |-> Cardinality(Members(rows, b))]) = Len(rows)

(***************************************************************************)
(* The market's forecast has a favourite of the bookmakers win, whichever  *)
(* side the feed lists it on and however the odds are rounded to goals.    *)
(* Of two equal favourites it is the one we call the home side.            *)
(***************************************************************************)
TeamOf(e, o) == IF o = "home" THEN e.home ELSE IF o = "away" THEN e.away ELSE Nobody

Favourites(e) ==
  LET p == Devig(e.books)
  IN {TeamOf(e, o) : o \in {q \in DOMAIN p : \A r \in DOMAIN p : p[r] <= p[q]}}

WinnerOf(f, s) == IF OutcomeOf(s) = "home" THEN Home[f] ELSE IF OutcomeOf(s) = "away" THEN Away[f] ELSE Nobody

MarketBacksFavourites ==
  \A f \in Fixture : row[f]["market"] # Nothing =>
    \E feed \in Feeds : \E k \in EventFor(feed, f) : WinnerOf(f, row[f]["market"]) \in Favourites(feed[k])

-----------------------------------------------------------------------------
(***************************************************************************)
(* The inductive invariant behind the theorems of SeasonProofs: a match    *)
(* has a score only when it is finished, the stored final result is that   *)
(* score, and only matches with a final result are graded.                 *)
(***************************************************************************)
ScoresAreFinal ==
  \A f \in Fixture :
    /\ truth[f] # Nothing => truth[f] \in Truths /\ status[f] = "finished"
    /\ Final(f) => /\ truth[f] # Nothing
                   /\ stored[f] = ToValues(truth[f], Home[f], Away[f], Nobody)

OnlyFinalsGraded == \A f \in Fixture, m \in Model : grade[f][m] # Nothing => Final(f)

ScoresSound ==
  /\ DOMAIN status = Fixture /\ DOMAIN truth = Fixture /\ DOMAIN stored = Fixture
  /\ ScoresAreFinal /\ OnlyFinalsGraded

SInv == STypeOK /\ RowsAreSound /\ GradesAreSound /\ RowsAreDated /\ ScoresSound
=============================================================================
