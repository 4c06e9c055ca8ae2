----------------------------- MODULE SeasonMC -----------------------------
(* An instance of Season for TLC: a group stage of two simultaneous        *)
(* matches, a knockout between their home teams and a later match whose     *)
(* forecast needs the ratings all three leave behind.                       *)
EXTENDS Season

CONSTANTS esp, ned, uru, gha, f1, f2, f3, f4

MCTeam == {esp, ned, uru, gha}
MCFixture == {f1, f2, f3, f4}
MCHome == f1 :> esp @@ f2 :> uru @@ f3 :> uru @@ f4 :> esp
MCAway == f1 :> ned @@ f2 :> gha @@ f3 :> esp @@ f4 :> gha
MCKickoff == f1 :> 0 @@ f2 :> 0 @@ f3 :> 1 @@ f4 :> 2
MCStage == f1 :> "group" @@ f2 :> "group" @@ f3 :> "sf" @@ f4 :> "final"

\* a line in place of the logistic curve
MCExpected(gap) == Smallest(950, Biggest(50, 500 + gap \div 700))
MCSeed == esp :> 1800000 @@ ned :> 1750000 @@ uru :> 1650000 @@ gha :> 1600000
MCFactors == esp :> [attack |-> 11, defence |-> 9] @@ ned :> [attack |-> 10, defence |-> 10]
        @@ uru :> [attack |-> 9, defence |-> 11] @@ gha :> [attack |-> 8, defence |-> 12]
MCSure == [m \in Statistical |-> IF m = "naive" THEN 45 ELSE 40]

Scorer(n, t) == [name |-> n, type |-> t]
MCTruths == {
  [home |-> 3, away |-> 0, advanced |-> "home", scorers |-> {Scorer("x", "goal")}],
  [home |-> 1, away |-> 1, advanced |-> "away", scorers |-> {Scorer("x", "pen"), Scorer("y", "og")}]}

Tip(n, l) == [name |-> n, likelihood |-> l]
MCAnswers == {
  [home |-> 3, away |-> 0, advancing |-> "none", confidence |-> 70, scorers |-> <<Tip("x", 60), Tip("y", 30)>>],
  [home |-> 1, away |-> 1, advancing |-> "away", confidence |-> 100, scorers |-> <<Tip("x", 50)>>]}
MCDemo == [home |-> 2, away |-> 0, advancing |-> "none", confidence |-> 55, scorers |-> <<Tip("z", 45)>>]

Prices(h, x, w) == [home |-> h, draw |-> x, away |-> w]
\* two listings of the semi-final, the later one counts, and one of the final,
\* with two favourites; all the other way round
MCFeeds == {<<[home |-> esp, away |-> uru, books |-> <<Prices(300, 330, 240)>>],
              [home |-> esp, away |-> uru, books |-> <<Prices(180, 350, 450), Prices(170, 360, 500)>>],
              [home |-> gha, away |-> esp, books |-> <<Prices(260, 300, 260)>>]>>}
=============================================================================
