----------------------------- MODULE PipelineMC -----------------------------
(* Instances of Pipeline for TLC. *)
EXTENDS Pipeline, TLC

CONSTANTS f1, j1, j2
MCFixture == {f1}
MCJob == {j1, j2}
MCRowId3 == 1..3
MCRowId5 == 1..5

\* 1-0 and 0-1: two answers that differ in both columns
MCAnswer == {[home |-> 1, away |-> 0], [home |-> 0, away |-> 1]}

\* sessions are interchangeable
Symmetric == Permutations(Job)
=============================================================================
