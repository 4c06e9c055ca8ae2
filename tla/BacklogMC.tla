------------------------------ MODULE BacklogMC -----------------------------
(* Instances of Backlog for TLC: three matches in kickoff order, the first  *)
(* of which never gets a result, two to a run.                              *)
EXTENDS Backlog

MCFixture  == 1..3
MCKnockout == {3}
MCHopeless == {1}
=============================================================================
