----------------------------- MODULE Estimators -----------------------------
(***************************************************************************)
(* The free estimators (the estimators package, providers/odds.py): pure   *)
(* functions from earlier results, seeds or odds to a scoreline.           *)
(*                                                                         *)
(* The code computes in floating point.  Here expected goals are exact     *)
(* quotients, ratings are in thousandths of an Elo point, probabilities    *)
(* and odds in thousandths.  The logistic curve and the exponential of a   *)
(* seed are parameters: nothing below depends on their shape.  The         *)
(* probability grids of Poisson and Dixon-Coles only yield a confidence    *)
(* and are left out; their scorelines are rounded expected goals.          *)
(*                                                                         *)
(* A match is a record [home, away, hg, ag] of two teams and two counts.   *)
(***************************************************************************)
EXTENDS Scoring

CONSTANTS
  Team,
  Expected(_),  \* win expectancy, in thousandths, of a rating gap in thousandths
  Seed,         \* [Team -> pre-tournament rating in thousandths]
  Factors         \* [Team -> [attack, defence]], in tenths: exp of the seed

MaxGoals == 8

ASSUME EstimatorsAssumption ==
  /\ Seed \in [Team -> Int]
  /\ Factors \in [Team -> [attack : Nat \ {0}, defence : Nat \ {0}]]

Biggest(m, n)  == IF m >= n THEN m ELSE n
Smallest(m, n) == IF m <= n THEN m ELSE n

\* int(max(0, num/den) + 0.5)
Round(num, den) == IF num < 0 THEN 0 ELSE (2 * num + den) \div (2 * den)

-----------------------------------------------------------------------------
(***************************************************************************)
(* _consistent_scoreline: rounds two quotients of a common denominator and *)
(* bends them until the winner is the outcome asked for.                   *)
(***************************************************************************)
Capped(num, den) == Smallest(MaxGoals, Round(num, den))

ConsistentScoreline(outcome, num_home, num_away, den) ==
  LET h == Capped(num_home, den)
      a == Capped(num_away, den)
      g == Capped(num_home + num_away, 2 * den)
  IN IF outcome = "home" THEN [home |-> Biggest(h, 1), away |-> Smallest(a, Biggest(h, 1) - 1)]
     ELSE IF outcome = "away" THEN [home |-> Smallest(h, Biggest(a, 1) - 1), away |-> Biggest(a, 1)]
     ELSE [home |-> g, away |-> g]

\* max(probs, key=probs.get): the first of home, draw, away that is largest
MostLikely(home, draw, away) ==
  IF home >= draw /\ home >= away THEN "home" ELSE IF draw >= away THEN "draw" ELSE "away"

-----------------------------------------------------------------------------
(* Elo *)

HomeField == 35000

\* K * _goal_multiplier(goal difference), K = 40
Weight(m) ==
  LET gd == Gap(m.hg, m.ag) IN IF gd <= 1 THEN 40 ELSE IF gd = 2 THEN 60 ELSE 5 * (11 + gd)

Achieved(m) == CASE OutcomeOf([home |-> m.hg, away |-> m.ag]) = "home" -> 1000
                 [] OutcomeOf([home |-> m.hg, away |-> m.ag]) = "away" -> 0
                 [] OTHER -> 500

Delta(r, m) == Weight(m) * (Achieved(m) - Expected(r[m.home] + HomeField - r[m.away]))

\* one step of estimate_ratings
Update(r, m) ==
  [t \in Team |-> IF t = m.home THEN r[t] + Delta(r, m)
                  ELSE IF t = m.away THEN r[t] - Delta(r, m) ELSE r[t]]

\* estimate_ratings, over a sequence of matches
Ratings(matches) == FoldLeft(Update, Seed, matches)

\* predict_elo: the draw band is widest for even teams; 28 percent at most
EloOutcome(we) ==
  LET draw == 28 * (1000 - Gap(2 * we, 1000))          \* all three in 1/100000
  IN MostLikely(Biggest(0, 100 * we - draw \div 2), draw,
                Biggest(0, 100 * (1000 - we) - draw \div 2))

PredictElo(home, away, r) ==
  LET dr  == r[home] + HomeField - r[away]
      sup == Biggest(-2000000, Smallest(2000000, dr))  \* 250 points to the goal, eight at most
  IN ConsistentScoreline(EloOutcome(Expected(dr)), 650000 + sup, 650000 - sup, 500000)

-----------------------------------------------------------------------------
(* Poisson and Dixon-Coles *)

\* a set of matches, each with an id of its own: [id, home, away, hg, ag]
GoalsFor(M, t) == SumFunction([m \in M |-> IF m.home = t THEN m.hg ELSE IF m.away = t THEN m.ag ELSE 0])
GoalsAgainst(M, t) == SumFunction([m \in M |-> IF m.home = t THEN m.ag ELSE IF m.away = t THEN m.hg ELSE 0])
Games(M, t) == Cardinality({m \in M : t \in {m.home, m.away}})

\* league_avg: goals per team and match as <<num, den>>, at least 0.3, 1.35 without history
LeagueAvg(M) ==
  LET goals == SumFunction([m \in M |-> m.hg + m.ag])
      teams == 2 * Cardinality(M)
  IN IF M = {} THEN <<27, 20>> ELSE IF 10 * goals < 3 * teams THEN <<3, 10>> ELSE <<goals, teams>>

\* (goals + 2 * average * prior) / (games + 2): two pseudo-matches of the prior, in tenths
Shrunk(goals, avg, prior) == 10 * goals * avg[2] + 2 * avg[1] * prior

\* min(int(lambda + 0.5), MAX_GOALS), with strength = Shrunk / average; the
\* home side's advantage is 1.08, as num / den
ExpectedGoals(M, avg, scorer, keeper, attack, defence, num, den) ==
  Capped(Shrunk(GoalsFor(M, scorer), avg, attack) * Shrunk(GoalsAgainst(M, keeper), avg, defence) * num,
         100 * avg[1] * avg[2] * (Games(M, scorer) + 2) * (Games(M, keeper) + 2) * den)

\* predict_score and predict_dc: rounded expected goals, not bent to the likeliest outcome
GoalsModel(M, home, away, prior) ==
  LET avg == LeagueAvg(M) IN
    [home |-> ExpectedGoals(M, avg, home, away, prior[home].attack, prior[away].defence, 27, 25),
     away |-> ExpectedGoals(M, avg, away, home, prior[away].attack, prior[home].defence, 25, 27)]

\* a team Poisson has never seen is average, which is what no goals in no games amounts to
PredictPoisson(M, home, away) == GoalsModel(M, home, away, [t \in Team |-> [attack |-> 10, defence |-> 10]])
PredictDc(M, home, away)      == GoalsModel(M, home, away, Factors)

PredictNaive == [home |-> 1, away |-> 0]

-----------------------------------------------------------------------------
(* Odds and the market *)

\* _devig_event: each bookmaker's decimal prices (in hundredths) without the
\* overround, averaged; books is a non-empty sequence of [home, draw, away]
Share(b, o) ==
  LET rest == IF o = "home" THEN b.draw * b.away
              ELSE IF o = "draw" THEN b.home * b.away ELSE b.home * b.draw
  IN (1000 * rest) \div (b.draw * b.away + b.home * b.away + b.home * b.draw)

Devig(books) ==
  [o \in {"home", "draw", "away"} |->
     SumFunction([k \in DOMAIN books |-> Share(books[k], o)]) \div Len(books)]

\* _orient: the feed may call our home side the away side
OrientAsListed(p, ourHome, listedHome) == p                         \* mutant
Orient(p, ourHome, listedHome) ==
  IF ourHome = listedHome THEN p
  ELSE [home |-> p["away"], draw |-> p["draw"], away |-> p["home"]]

\* predict_market: 2.4 goals of supremacy for the whole probability gap
PredictMarket(p) ==
  LET gap == p["home"] - p["away"]
  IN ConsistentScoreline(MostLikely(p["home"], p["draw"], p["away"]),
                         26000 + 24 * gap, 26000 - 24 * gap, 20000)

\* _advancing of the services: the winner of the scoreline in a knockout
Advancing(stage, s, home, away, nobody) ==
  IF stage \notin Knockout \/ OutcomeOf(s) = "draw" THEN nobody
  ELSE IF OutcomeOf(s) = "home" THEN home ELSE away
=============================================================================
