------------------------------- MODULE RunsMC -------------------------------
(* Instances of Runs for TLC. *)
EXTENDS Runs, TLC

\* two runner invocations and two fixtures in kickoff order
CONSTANTS t1, t2
MCTask == {t1, t2}
MCFixture == 1..2
MCFixture1 == {1}

Symmetric == Permutations(MCTask)
=============================================================================
