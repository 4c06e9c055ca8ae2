------------------------------ MODULE Backlog -------------------------------
(***************************************************************************)
(* How the work queues up and drains: the capped selections of             *)
(* repositories/runs.py, which order fixtures by kickoff, the runs that    *)
(* work through them (run_service.py, workers/runner.py), the paid         *)
(* conversations of module Claude and the batch that is polled for hours   *)
(* (claude_batch.py, batch_backfill_service.py).                           *)
(*                                                                         *)
(* Runs of one kind exclude one another (theorem Exclusion of RunsProofs), *)
(* so a run is one step here; what happens when jobs overlap is Pipeline's *)
(* subject.  A run that is cut short is one whose later fixtures raised.   *)
(* Fixtures are numbered in kickoff order; one is upcoming or finished.    *)
(***************************************************************************)
EXTENDS Claude, FiniteSets

CONSTANTS
  Fixture,   \* numbered in kickoff order
  Knockout,  \* fixtures of a knockout stage
  Hopeless,  \* fixtures football-data never has a result for
  Cap,       \* per-run fixture cap
  Window,    \* how many fixtures the prediction window reaches ahead
  NoBatch    \* no batch under way

Model == {"web", "batch"}
WebOk == {"plain", "side"}       \* without and with a team that advances
Batch == [over : SUBSET Fixture, status : {"in_progress", "ended"}]

ASSUME BacklogAssumption ==
  /\ Fixture \subseteq Nat /\ IsFiniteSet(Fixture)
  /\ Knockout \subseteq Fixture /\ Hopeless \subseteq Fixture
  /\ Cap \in Nat \ {0} /\ Window \in Nat
  /\ NoBatch \notin Batch

VARIABLES
  now,         \* the fixtures up to this one are finished
  web,         \* [Fixture -> its row by search and model]
  batch,       \* [Fixture -> its row by batch]
  backfilled,  \* fixtures whose web row is marked is_backfill
  graded,      \* rows that have a Grade
  open,        \* the batch this process is polling
  paid         \* [Fixture -> backfill conversations that went through]

vars == <<now, web, batch, backfilled, graded, open, paid>>

TypeOK ==
  /\ now \in {0} \cup Fixture
  /\ web \in [Fixture -> WebOk \cup {"none", "failed"}]
  /\ batch \in [Fixture -> {"none", "failed", "ok"}]
  /\ backfilled \subseteq Fixture
  /\ graded \subseteq Fixture \X Model
  /\ open \in Batch \cup {NoBatch}
  /\ paid \in [Fixture -> Nat]

-----------------------------------------------------------------------------
(* Selections *)

Finished == {f \in Fixture : f <= now}

Ok(f)       == {m \in Model : IF m = "web" THEN web[f] \in WebOk ELSE batch[f] = "ok"}
Ungraded(f) == {m \in Ok(f) : <<f, m>> \notin graded}

\* ORDER BY kickoff LIMIT cap
Oldest(S) == {f \in S : Cardinality({g \in S : g < f}) < Cap}

EligibleForPrediction == {f \in Fixture \ Finished : f <= now + Window /\ web[f] \notin WebOk}

\* no row marked is_backfill, whatever its status; batch rows are
EligibleForBackfillUntilOk ==                                       \* mutant
  {f \in Finished : (f \notin backfilled \/ web[f] = "failed") /\ batch[f] = "none"}
EligibleForBackfill == {f \in Finished : f \notin backfilled /\ batch[f] = "none"}

\* per estimator, not per fixture
EligibleForGradingPerFixture ==                                     \* mutant
  {f \in Finished : Ok(f) # {} /\ Ungraded(f) = Ok(f)}
EligibleForGrading == {f \in Finished : Ungraded(f) # {}}

-----------------------------------------------------------------------------
Init ==
  /\ now = 0
  /\ web = [f \in Fixture |-> "none"]
  /\ batch = [f \in Fixture |-> "none"]
  /\ backfilled = {} /\ graded = {}
  /\ open = NoBatch
  /\ paid = [f \in Fixture |-> 0]

(* The next match is played and the sync reports it finished. *)
Finish(f) ==
  /\ f > now /\ \A g \in Fixture : g > now => f <= g
  /\ now' = f
  /\ UNCHANGED <<web, batch, backfilled, graded, open, paid>>

\* what a web prediction leaves behind
Written(c) == IF ~ c.ok THEN "failed" ELSE IF c.side THEN "side" ELSE "plain"
IsKnockout(f) == f \in Knockout
Rows == [knockout \in BOOLEAN |-> {Written(c) : c \in Conversation(knockout)}]

\* the rows of the fixtures of S are written; the other fixtures of the run raised
Predict(S) ==
  \E w \in [S -> WebOk \cup {"failed"}] :
    /\ \A f \in S : w[f] \in Rows[IsKnockout(f)]
    /\ web' = [f \in Fixture |-> IF f \in S THEN w[f] ELSE web[f]]

\* run_predictions writes is_backfill too: what it stores is foresight
PredictRun ==
  /\ \E S \in SUBSET Oldest(EligibleForPrediction) :
       S # {} /\ Predict(S) /\ backfilled' = backfilled \ S
  /\ UNCHANGED <<now, batch, graded, open, paid>>

(***************************************************************************)
(* run_backfill: predict by force, drop the grades of the fixture, grade   *)
(* again, for which the result may be missing or an error.                 *)
(***************************************************************************)
Regraded(S, R) ==
  {x \in Fixture \X Model : \/ x \in graded /\ x[1] \notin S
                            \/ x[1] \in R /\ (x[2] = "web" => web'[x[1]] \in WebOk)
                                          /\ (x[2] = "batch" => batch[x[1]] = "ok")}

BackfillRun ==
  /\ \E S \in SUBSET Oldest(EligibleForBackfill) :
       /\ S # {} /\ Predict(S)
       /\ backfilled' = backfilled \cup S
       /\ paid' = [f \in Fixture |-> IF f \in S THEN paid[f] + 1 ELSE paid[f]]
       /\ \E R \in SUBSET (S \ Hopeless) : graded' = Regraded(S, R)
  /\ UNCHANGED <<now, batch, open>>

(* run_grade: some of the selected fixtures' results are obtained, that of f at least. *)
Gradable == Oldest(EligibleForGrading) \ Hopeless

GradeRun(f) ==
  /\ f \in Gradable
  /\ \E R \in SUBSET Gradable :
       /\ f \in R
       /\ graded' = graded \cup {x \in R \X Model : x[2] \in Ungraded(x[1])}
  /\ UNCHANGED <<now, web, batch, backfilled, open, paid>>

-----------------------------------------------------------------------------
(***************************************************************************)
(* _run_batch over finished fixtures: every one of them or the oldest Cap, *)
(* whether it was done before or not; bound: one batch at a time.          *)
(***************************************************************************)
BatchSubmit ==
  /\ open = NoBatch /\ Finished # {}
  /\ \E S \in {Finished, Oldest(Finished)} : open' = [over |-> S, status |-> "in_progress"]
  /\ UNCHANGED <<now, web, batch, backfilled, graded, paid>>

\* the service is through with it
BatchEnds ==
  /\ open # NoBatch /\ open.status = "in_progress"
  /\ open' = [open EXCEPT !.status = "ended"]
  /\ UNCHANGED <<now, web, batch, backfilled, graded, paid>>

\* _await_end
OverWhenSucceeded(b) == b.status = "succeeded"                      \* mutant
Over(b) == b.status = "ended"

BatchRow == {IF Parsed(e) THEN "ok" ELSE "failed" : e \in Entry}

\* rows for the entries that came back, in one commit; Grades stay
BatchCollect ==
  /\ open # NoBatch /\ Over(open)
  /\ \E S \in SUBSET open.over : \E b \in [S -> BatchRow] :
       batch' = [f \in Fixture |-> IF f \in S THEN b[f] ELSE batch[f]]
  /\ open' = NoBatch
  /\ UNCHANGED <<now, web, backfilled, graded, paid>>

\* a restart, or an exception while polling: the batch is paid for and lost
BatchLost ==
  /\ open # NoBatch
  /\ open' = NoBatch
  /\ UNCHANGED <<now, web, batch, backfilled, graded, paid>>

-----------------------------------------------------------------------------
Next ==
  \/ \E f \in Fixture : Finish(f) \/ GradeRun(f)
  \/ PredictRun \/ BackfillRun
  \/ BatchSubmit \/ BatchEnds \/ BatchCollect \/ BatchLost

Spec == Init /\ [][Next]_vars

(***************************************************************************)
(* Fairness.  The scheduled sync starts a grade run every few hours, and   *)
(* the results of a fixture that has one are obtained if it is selected    *)
(* again and again; a batch is polled until it ends, and the service ends  *)
(* every batch (it expires them after a day).  The paid runs are started   *)
(* by people, who owe nothing.                                             *)
(***************************************************************************)
Fairness ==
  /\ \A f \in Fixture : SF_vars(GradeRun(f))
  /\ WF_vars(BatchEnds) /\ WF_vars(BatchCollect)

FairSpec == Spec /\ Fairness

-----------------------------------------------------------------------------
(* Properties *)

(***************************************************************************)
(* eligible_for_backfill: "Finished fixtures not yet backfilled".  Nobody  *)
(* pays for the backfill of a fixture twice, not even after it failed:     *)
(* only a conversation that raised is repeated.                            *)
(***************************************************************************)
PaidOnce == \A f \in Fixture : paid[f] <= 1

(***************************************************************************)
(* A stored web prediction names the team that advances exactly if the     *)
(* match is a knockout, through repairs, refusals and overwritten rows.    *)
(***************************************************************************)
AdvancingMatchesStage ==
  \A f \in Fixture : web[f] \in WebOk => (web[f] = "side" <=> f \in Knockout)

(***************************************************************************)
(* Although every grade run takes the oldest fixtures first, a prediction  *)
(* of a match whose result can be obtained is eventually graded, or        *)
(* rejected in a later batch, as long as the fixtures that never get a     *)
(* result do not fill a run by themselves.                                 *)
(***************************************************************************)
EveryResultIsScored ==
  Cardinality(Hopeless) < Cap =>
    \A f \in Fixture \ Hopeless, m \in Model :
      (f \in Finished /\ m \in Ungraded(f)) ~> (m \notin Ungraded(f))

(***************************************************************************)
(* A batch run does not poll for ever.                                     *)
(***************************************************************************)
BatchConcludes == (open # NoBatch) ~> (open = NoBatch)

-----------------------------------------------------------------------------
(***************************************************************************)
(* The inductive invariant behind the theorems of BacklogProofs: a web     *)
(* backfill that was paid for left its mark, and the mark is never lost,   *)
(* because a marked fixture is finished and no run predicts it again.      *)
(***************************************************************************)
PaidIsMarked == \A f \in Fixture : IF f \in backfilled THEN paid[f] = 1 ELSE paid[f] = 0

IInv == TypeOK /\ PaidIsMarked /\ backfilled \subseteq Finished /\ AdvancingMatchesStage
=============================================================================
