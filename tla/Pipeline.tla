------------------------------ MODULE Pipeline ------------------------------
(***************************************************************************)
(* The data every run works on: predictions, grades, results and           *)
(* calibration profiles, and the jobs that read and write them -           *)
(* services/prediction_service.py, grading_service.py,                     *)
(* calibration_service.py, batch_backfill_service.py, the process()        *)
(* functions of run_service.py and the per-match routes of matches.py.     *)
(*                                                                         *)
(* A job is one database session at work on its fixtures.  It reads, waits *)
(* for minutes (web search, model, sports API, batch polling) and writes   *)
(* what it read long ago; any number of jobs overlap.  The runs of module  *)
(* Runs exclude one another by an advisory lock; the per-match routes, the *)
(* batches, the baselines and most CLI commands take none.                 *)
(*                                                                         *)
(* One action is one short transaction: the reads up to a slow call, or    *)
(* the writes up to a commit.  The prompt version does not change.         *)
(***************************************************************************)
EXTENDS Naturals, FiniteSets

CONSTANTS
  Job,         \* sessions that may be open at once
  NoJob,       \* a session that is not open
  Fixture,
  RowId,       \* bound: prediction rows, numbered in order of created_at
  NoRow,       \* a row that was never inserted
  Answer,      \* scorelines an estimator may answer
  Statuses,    \* bound: fixture statuses the sync reports
  MaxVersion,  \* bound: calibration profiles
  MinGraded,   \* MIN_GRADED
  History,     \* predictions graded for matches outside this instance
  Kinds,       \* the jobs this instance starts
  Faults       \* may a job be cut short?

Forced      == {"backfill", "cli_backfill"}
Forward     == {"predict", "button"}
Batches     == {"batch_backfill", "batch_predict"}
JobKind     == Forced \cup Forward \cup Batches \cup {"grade", "grade_one", "recompute"}
PredictLockSplit == {"predict"}                                     \* mutant
PredictLock == {"predict", "backfill"}
GradeLock   == {"grade"}

Goals  == {0, 1}                       \* bound: goals of one side
Score  == [home : Goals, away : Goals]
Output == [ok : BOOLEAN, home : Goals, away : Goals]
Model  == {"llm", "batch", "baseline"}

\* snap: what the model answered on the evidence the row cites; {} is NULL
Row == [fixture : Fixture, model : Model, version : 0..MaxVersion, backfill : BOOLEAN,
        ok : BOOLEAN, home : Goals, away : Goals, snap : SUBSET Output]

Session == [kind : JobKind,
            at : {"queued", "searching", "drop", "regrade", "grading", "polling", "versioning"},
            over : SUBSET Fixture,      \* its fixtures
            target : SUBSET RowId,      \* the row it will overwrite, if any
            view : [RowId -> Row \cup {NoRow}],  \* rows as it loaded them
            stored : BOOLEAN,           \* it saw a final result
            version : 0..MaxVersion]

ASSUME ConstantsAssumption ==
  /\ NoJob \notin Session /\ NoRow \notin Row
  /\ RowId \subseteq Nat
  /\ Answer \subseteq Score
  /\ Statuses \subseteq {"scheduled", "finished", "postponed"}
  /\ MaxVersion \in Nat /\ MinGraded \in Nat \ {0} /\ History \in Nat
  /\ Kinds \subseteq JobKind \cup {"baselines"}
  /\ Faults \in BOOLEAN

VARIABLES
  played,    \* matches that kicked off, whatever we know of them
  status,    \* [Fixture -> status as last synced]
  preds,     \* [RowId -> Prediction row]
  grade,     \* [RowId -> {} or {the scoreline its Grade scored}]
  result,    \* [Fixture -> Result row: none, final or void]
  profiles,  \* versions of the CalibrationProfile rows
  job        \* [Job -> open session]

vars == <<played, status, preds, grade, result, profiles, job>>

TypeOK ==
  /\ played \subseteq Fixture
  /\ status \in [Fixture -> {"scheduled", "finished", "postponed"}]
  /\ preds \in [RowId -> Row \cup {NoRow}]
  /\ grade \in [RowId -> SUBSET Score]
  /\ result \in [Fixture -> {"none", "final", "void"}]
  /\ profiles \subseteq 1..MaxVersion
  /\ job \in [Job -> Session \cup {NoJob}]

-----------------------------------------------------------------------------
(* Queries *)

Stored    == {i \in RowId : preds[i] # NoRow}
RowsOf(f) == {i \in Stored : preds[i].fixture = f}
Newest(S) == {i \in S : \A k \in S : k <= i}

\* prompt version and model: the calibration version plays no part
AlreadyOkNow(f) ==                                                  \* mutant
  {i \in RowsOf(f) : preds[i].ok /\ preds[i].model = "llm" /\ \A v \in profiles : v <= preds[i].version}
AlreadyOk(f) == {i \in RowsOf(f) : preds[i].ok /\ preds[i].model = "llm"}

\* the row under a unique key
Current(f, m, v) == {i \in RowsOf(f) : preds[i].model = m /\ preds[i].version = v}

Ungraded(f) == {i \in RowsOf(f) : preds[i].ok /\ grade[i] = {}}

\* load_graded
EvidenceWithBackfill ==                                             \* mutant
  {i \in Stored : /\ grade[i] # {} /\ result[preds[i].fixture] = "final"
                  /\ preds[i].model # "baseline"}
Evidence ==
  {i \in Stored : /\ grade[i] # {} /\ result[preds[i].fixture] = "final"
                  /\ ~ preds[i].backfill /\ preds[i].model # "baseline"}

Newer(v) == \A w \in profiles : w < v

\* next_version
NextVersionFromOne(v) == Newer(v) /\ v - 1 \in profiles \cup {1}    \* mutant
NextVersion(v) == Newer(v) /\ v - 1 \in profiles \cup {0}

LatestVersion(v) == v \in profiles \cup {0} /\ \A w \in profiles : w <= v

-----------------------------------------------------------------------------
(* Writes *)

Rejected == [ok |-> FALSE, home |-> 0, away |-> 0]
Accepted == {[ok |-> TRUE, home |-> s.home, away |-> s.away] : s \in Answer}
Outputs  == Accepted \cup {Rejected}

NewRowUnflagged(f, m, v, b, out, snap) ==                           \* mutant
  [fixture |-> f, model |-> m, version |-> v, backfill |-> FALSE,
   ok |-> out.ok, home |-> out.home, away |-> out.away, snap |-> snap]
NewRow(f, m, v, b, out, snap) ==
  [fixture |-> f, model |-> m, version |-> v, backfill |-> b,
   ok |-> out.ok, home |-> out.home, away |-> out.away, snap |-> snap]

NewRows(S, m, v, b, out) == [f \in S |-> NewRow(f, m, v, b, out[f], {})]

(***************************************************************************)
(* setattr on a loaded row, then flush: the UPDATE names only the columns  *)
(* whose value differs from the one this session loaded, so a column that  *)
(* somebody else changed meanwhile may survive.  The snapshot is new in    *)
(* every attempt.                                                          *)
(***************************************************************************)
Column(now, loaded, new) == IF new = loaded THEN now ELSE new

OverwriteWhole(row, loaded, new) == new                             \* mutant
Overwrite(row, loaded, new) ==
  [fixture  |-> row.fixture,
   model    |-> Column(row.model, loaded.model, new.model),
   version  |-> Column(row.version, loaded.version, new.version),
   backfill |-> Column(row.backfill, loaded.backfill, new.backfill),
   ok       |-> Column(row.ok, loaded.ok, new.ok),
   home     |-> Column(row.home, loaded.home, new.home),
   away     |-> Column(row.away, loaded.away, new.away),
   snap     |-> new.snap]

\* rows for a set of fixtures under one model and version: the current row,
\* or the next free ones
Slots(S, m, v) ==
  {slot \in [S -> RowId] :
     /\ \A f \in S : IF Current(f, m, v) # {} THEN slot[f] \in Current(f, m, v)
                     ELSE slot[f] \notin Stored
     /\ \A f, g \in S : slot[f] = slot[g] => f = g
     /\ \A f \in S, i \in RowId :
          i < slot[f] /\ slot[f] \notin Stored => i \in Stored \/ \E g \in S : slot[g] = i}

Upserted(slot, new) ==
  [i \in RowId |-> IF \E f \in DOMAIN slot : slot[f] = i
                   THEN new[CHOOSE f \in DOMAIN slot : slot[f] = i] ELSE preds[i]]

Blank == [i \in RowId |-> NoRow]
Only(S) == [i \in RowId |-> IF i \in S THEN preds[i] ELSE NoRow]

Begin(j, s) == job' = [job EXCEPT ![j] = s]
Done(j)     == job' = [job EXCEPT ![j] = NoJob]
At(j, l)    == job[j] # NoJob /\ job[j].at = l
Free(L)     == \A j \in Job : job[j] # NoJob => job[j].kind \notin L

Opened(k, l, S, v) ==
  [kind |-> k, at |-> l, over |-> S, target |-> {}, view |-> Blank,
   stored |-> FALSE, version |-> v]

\* session s after it loaded the rows of V
Loaded(s, l, T, V, b, v) ==
  [kind |-> s.kind, at |-> l, over |-> s.over, target |-> T, view |-> Only(V),
   stored |-> b, version |-> v]

-----------------------------------------------------------------------------
Init ==
  /\ played = {}
  /\ status = [f \in Fixture |-> "scheduled"]
  /\ preds = Blank
  /\ grade = [i \in RowId |-> {}]
  /\ result = [f \in Fixture |-> "none"]
  /\ profiles = {}
  /\ job = [j \in Job |-> NoJob]

(* The world, and what the sync learns of it. *)
KickOff(f) ==
  /\ f \notin played /\ played' = played \cup {f}
  /\ UNCHANGED <<status, preds, grade, result, profiles, job>>

Sync(f) ==
  /\ \E s \in Statuses : /\ f \in played => s = "finished"
                         /\ s = "finished" => f \in played
                         /\ s # status[f] /\ status' = [status EXCEPT ![f] = s]
  /\ UNCHANGED <<played, preds, grade, result, profiles, job>>

-----------------------------------------------------------------------------
(***************************************************************************)
(* Starting a job.  A managed run selects its fixtures under its lock and  *)
(* works through them later; routes and CLI commands take what they are    *)
(* given.                                                                  *)
(***************************************************************************)
Eligible(k, f) ==
  CASE k = "predict"  -> status[f] = "scheduled" /\ f \notin played /\ AlreadyOk(f) = {}
    [] k = "backfill" -> status[f] = "finished" /\ \A i \in RowsOf(f) : ~ preds[i].backfill
    [] k = "grade"    -> status[f] = "finished" /\ Ungraded(f) # {}
    [] k = "cli_backfill" -> status[f] = "finished"
    [] k \in {"button", "grade_one"} -> TRUE
    [] OTHER -> FALSE

StartOne(j) ==
  /\ job[j] = NoJob
  /\ \E k \in Kinds \ {"baselines"}, f \in Fixture :
       /\ Eligible(k, f)
       /\ k \in PredictLock => Free(PredictLock)
       /\ k \in GradeLock => Free(GradeLock)
       /\ Begin(j, Opened(k, IF k \in Forced \cup Forward THEN "queued" ELSE "regrade", {f}, 0))
  /\ UNCHANGED <<played, status, preds, grade, result, profiles>>

(***************************************************************************)
(* PredictionService.predict_fixture                                       *)
(***************************************************************************)
\* the row this attempt would overwrite
Target(f, forced, v) ==
  IF forced THEN Newest(IF AlreadyOk(f) # {} THEN AlreadyOk(f) ELSE RowsOf(f))
  ELSE Current(f, "llm", v)

PredictRead(j) ==
  /\ At(j, "queued")
  /\ \E f \in job[j].over, v \in 0..MaxVersion :
       /\ LatestVersion(v)
       /\ \/ /\ AlreadyOk(f) # {} /\ job[j].kind \notin Forced      \* skipped
             /\ Done(j)
          \/ /\ AlreadyOk(f) = {} \/ job[j].kind \in Forced
             /\ LET T == Target(f, job[j].kind \in Forced, v) IN
                  Begin(j, Loaded(job[j], "searching", T, T, FALSE, v))
  /\ UNCHANGED <<played, status, preds, grade, result, profiles>>

\* uq_prediction_version: nobody else has the key of row i
KeyFree(row, i) == Current(row.fixture, row.model, row.version) \subseteq {i}

\* a violated constraint rolls everything back and ends the job
Store(j, i, row) ==
  IF KeyFree(row, i)
  THEN /\ preds' = [preds EXCEPT ![i] = row]
       /\ IF job[j].kind \in Forced
          THEN Begin(j, Opened(job[j].kind, "drop", job[j].over, 0)) ELSE Done(j)
  ELSE Done(j) /\ UNCHANGED preds

PredictStore(j) ==
  /\ At(j, "searching")
  /\ \E f \in job[j].over, out \in Outputs :
       LET new == NewRow(f, "llm", job[j].version, job[j].kind \in Forced, out, {out}) IN
         \/ \E i \in job[j].target : Store(j, i, Overwrite(preds[i], job[j].view[i], new))
         \/ /\ job[j].target = {}
            /\ \E i \in RowId \ Stored : /\ \A k \in RowId : k < i => k \in Stored
                                         /\ Store(j, i, new)
  /\ UNCHANGED <<played, status, grade, result, profiles>>

\* run_backfill and the CLI: a session of its own deletes the fixture's grades
DropGrades(j) ==
  /\ At(j, "drop")
  /\ grade' = [i \in RowId |-> IF \E f \in job[j].over : i \in RowsOf(f) THEN {} ELSE grade[i]]
  /\ Begin(j, Opened(job[j].kind, "regrade", job[j].over, 0))
  /\ UNCHANGED <<played, status, preds, result, profiles>>

-----------------------------------------------------------------------------
(***************************************************************************)
(* GradingService.grade_fixture                                            *)
(***************************************************************************)
GradeRead(j) ==
  /\ At(j, "regrade")
  /\ \E f \in job[j].over :
       \/ /\ status[f] = "postponed"                                \* mark_void
          /\ result' = [result EXCEPT ![f] = "void"]
          /\ Done(j)
       \/ /\ status[f] # "postponed" /\ Ungraded(f) = {}            \* no_prediction, skipped
          /\ Done(j)
          /\ UNCHANGED result
       \/ /\ status[f] # "postponed" /\ Ungraded(f) # {}
          /\ Begin(j, Loaded(job[j], "grading", {}, Ungraded(f), result[f] = "final", 0))
          /\ UNCHANGED result
  /\ UNCHANGED <<played, status, preds, grade, profiles>>

Seen(j) == {i \in RowId : job[j].view[i] # NoRow}
Scoreline(row) == [home |-> row.home, away |-> row.away]

ResultKept(j, f) == result                                          \* mutant
ResultUpserted(j, f) == IF job[j].stored THEN result ELSE [result EXCEPT ![f] = "final"]

\* Grade.prediction_id is unique: one grade too many fails the commit
ConflictNever(j) == FALSE                                           \* mutant
Conflict(j)      == \E i \in Seen(j) : grade[i] # {}

\* the sports API answers only once the match is over
GradeStore(j) ==
  /\ At(j, "grading")
  /\ \E f \in job[j].over :
       /\ job[j].stored \/ f \in played
       /\ IF Conflict(j) THEN UNCHANGED <<grade, result>>
          ELSE /\ result' = ResultUpserted(j, f)
               /\ grade' = [i \in RowId |-> IF i \in Seen(j)
                                            THEN {Scoreline(job[j].view[i])} ELSE grade[i]]
  /\ Done(j)
  /\ UNCHANGED <<played, status, preds, profiles>>

-----------------------------------------------------------------------------
(***************************************************************************)
(* BatchBackfillService.run: rows of their own model, looked up and        *)
(* written after hours of polling, in one commit; grades stay.             *)
(***************************************************************************)
BatchRead(j) ==
  /\ job[j] = NoJob
  /\ \E k \in Kinds \cap Batches, v \in 0..MaxVersion :
       LET S == {f \in Fixture : IF k = "batch_backfill" THEN status[f] = "finished"
                                 ELSE status[f] = "scheduled" /\ f \notin played} IN
         /\ S # {} /\ LatestVersion(v)
         /\ Begin(j, Opened(k, "polling", S, v))
  /\ UNCHANGED <<played, status, preds, grade, result, profiles>>

BatchStore(j) ==
  /\ At(j, "polling")
  /\ LET S == job[j].over
         v == job[j].version
     IN \E slot \in Slots(S, "batch", v), out \in [S -> Outputs] :
          preds' = Upserted(slot, NewRows(S, "batch", v, job[j].kind = "batch_backfill", out))
  /\ Done(j)
  /\ UNCHANGED <<played, status, grade, result, profiles>>

(***************************************************************************)
(* The first transaction of run_baselines: upsert a row per fixture, drop  *)
(* the baseline grades.  One row stands for the four estimators.           *)
(***************************************************************************)
RefreshBaselines ==
  /\ "baselines" \in Kinds
  /\ \E slot \in Slots(Fixture, "baseline", 0), out \in [Fixture -> Accepted] :
       /\ preds' = Upserted(slot, NewRows(Fixture, "baseline", 0, FALSE, out))
       /\ grade' = [i \in RowId |-> IF preds'[i] # NoRow /\ preds'[i].model = "baseline"
                                    THEN {} ELSE grade[i]]
  /\ UNCHANGED <<played, status, result, profiles, job>>

(***************************************************************************)
(* CalibrationService.recompute, after the grade run gave its lock up.     *)
(***************************************************************************)
CountEvidence(j) ==
  /\ job[j] = NoJob
  /\ "recompute" \in Kinds
  /\ History + Cardinality(Evidence) >= MinGraded
  /\ \E v \in 1..MaxVersion : NextVersion(v) /\ Begin(j, Opened("recompute", "versioning", {}, v))
  /\ UNCHANGED <<played, status, preds, grade, result, profiles>>

AddProfile(j) ==
  /\ At(j, "versioning")
  /\ profiles' = profiles \cup {job[j].version}   \* a version already taken: rolled back
  /\ Done(j)
  /\ UNCHANGED <<played, status, preds, grade, result>>

(***************************************************************************)
(* A job ends early, its transaction rolled back: a provider or database   *)
(* error, awaiting_result, the death of the process.                       *)
(***************************************************************************)
GiveUp(j) ==
  /\ Faults
  /\ job[j] # NoJob
  /\ Done(j)
  /\ UNCHANGED <<played, status, preds, grade, result, profiles>>

-----------------------------------------------------------------------------
Step(j) ==
  \/ StartOne(j) \/ PredictRead(j) \/ PredictStore(j) \/ DropGrades(j)
  \/ GradeRead(j) \/ GradeStore(j) \/ BatchRead(j) \/ BatchStore(j)
  \/ CountEvidence(j) \/ AddProfile(j) \/ GiveUp(j)

Next ==
  \/ \E f \in Fixture : KickOff(f) \/ Sync(f)
  \/ RefreshBaselines
  \/ \E j \in Job : Step(j)

Spec == Init /\ [][Next]_vars

-----------------------------------------------------------------------------
(* Safety *)

(***************************************************************************)
(* Under the locks of the runs: at most one OK prediction of the model per *)
(* fixture, whatever calibration versions come and go - the model is not   *)
(* paid twice for a match.                                                 *)
(***************************************************************************)
OneOkPerFixture ==
  \A i, k \in Stored :
    /\ preds[i].fixture = preds[k].fixture
    /\ preds[i].ok /\ preds[i].model = "llm"
    /\ preds[k].ok /\ preds[k].model = "llm"
    => i = k

(***************************************************************************)
(* Calibration learns only from what the model said: a row it counts shows *)
(* the scoreline the model answered on the very evidence the row cites,    *)
(* and its Grade scored that scoreline, although baselines and backfills   *)
(* rewrite rows under running searches and gradings.                       *)
(***************************************************************************)
EvidenceIsTheModels ==
  \A i \in Evidence : preds[i].model = "llm" =>
    /\ preds[i].snap = {[ok |-> TRUE, home |-> preds[i].home, away |-> preds[i].away]}
    /\ grade[i] = {Scoreline(preds[i])}

(***************************************************************************)
(* Nothing is graded out of thin air: behind every Grade there is a stored *)
(* Result of a match that was played, unless the fixture was voided.       *)
(***************************************************************************)
GradesHaveResults ==
  \A i \in RowId : grade[i] # {} =>
    /\ i \in Stored
    /\ result[preds[i].fixture] # "none"
    /\ result[preds[i].fixture] = "final" => preds[i].fixture \in played

(***************************************************************************)
(* Grades are append-only, one per prediction: sessions that grade the     *)
(* same prediction at the same time never replace each other's Grade.      *)
(***************************************************************************)
GradesAppendOnly ==
  [][\A i \in RowId : grade[i] # {} => grade'[i] \in {grade[i], {}}]_vars

(***************************************************************************)
(* Calibration versions are 1, 2, 3, ... however many recomputations race, *)
(* and every prediction records one that existed.                          *)
(***************************************************************************)
VersionsResolve ==
  /\ \A v \in profiles : 1..v \subseteq profiles
  /\ \A i \in Stored : preds[i].version \in profiles \cup {0}

(***************************************************************************)
(* A retry that fails never takes an OK prediction away: only a forced     *)
(* backfill may turn one into a failure.                                   *)
(***************************************************************************)
OkSurvivesRetries ==
  [][\A i \in Stored : preds[i].ok /\ preds[i].model = "llm" /\ ~ preds'[i].ok
       => preds'[i].backfill]_vars

-----------------------------------------------------------------------------
(***************************************************************************)
(* The inductive invariant behind the theorems of PipelineProofs: what an  *)
(* open session still remembers is compatible with the rows as they are    *)
(* now, and, when every predicting job holds the lock, its view of the OK  *)
(* predictions of its fixture is still true.                               *)
(***************************************************************************)
SessionSound(j) ==
  /\ job[j].kind \in Kinds
  /\ job[j].at \notin {"polling", "versioning"} => \E f \in Fixture : job[j].over = {f}
  /\ job[j].at \in {"queued", "searching", "drop"} => job[j].kind \in Forced \cup Forward
  /\ \A i \in Seen(j) : /\ i \in Stored
                        /\ preds[i].fixture = job[j].view[i].fixture
                        /\ preds[i].fixture \in job[j].over
  /\ job[j].at = "searching" => job[j].target = Seen(j)
  /\ job[j].at = "searching" /\ job[j].kind \in Forced => \A i, k \in job[j].target : i = k
  /\ job[j].stored => \A f \in job[j].over : result[f] # "none"
  /\ job[j].at # "versioning" => job[j].version \in profiles \cup {0}
  /\ job[j].at = "versioning" => /\ job[j].version \in 1..MaxVersion
                                 /\ 1..(job[j].version - 1) \subseteq profiles

ResultsPlayed == \A f \in Fixture : result[f] = "final" => f \in played

ManagedOnly == Kinds \cap {"button", "cli_backfill"} = {}

LockSound ==
  /\ \A j, k \in Job : /\ job[j] # NoJob /\ job[j].kind \in PredictLock
                       /\ job[k] # NoJob /\ job[k].kind \in PredictLock
                       => j = k
  /\ \A j \in Job : At(j, "searching") =>
       \A f \in job[j].over : AlreadyOk(f) \subseteq (IF job[j].kind \in Forced
                                                      THEN job[j].target ELSE {})

IInv ==
  /\ TypeOK
  /\ \A j \in Job : job[j] # NoJob => SessionSound(j)
  /\ ResultsPlayed /\ GradesHaveResults /\ VersionsResolve
  /\ ManagedOnly => LockSound /\ OneOkPerFixture

(***************************************************************************)
(* The inductive invariants behind EvidenceIsTheModels, the honest         *)
(* headline of module Dashboard and OkSurvivesRetries.                     *)
(***************************************************************************)
Mutex == \A j, k \in Job : /\ job[j] # NoJob /\ job[j].kind \in PredictLock
                          /\ job[k] # NoJob /\ job[k].kind \in PredictLock
                          => j = k

\* predictions are made by runs, and batches are of one kind: a backfill that
\* loaded a row of one batch kind would not notice the other rewriting its flag
RunsOnly == ManagedOnly /\ ~ (Batches \subseteq Kinds)

\* the flag says who made a row and when
FlagsSound ==
  /\ \A f \in Fixture : status[f] = "finished" => f \in played
  /\ \A i \in Stored :
       /\ preds[i].model = "baseline" => ~ preds[i].backfill
       /\ preds[i].model = "batch" => /\ Kinds \cap Batches # {}
                                     /\ preds[i].backfill = ("batch_backfill" \in Kinds)
       /\ preds[i].model = "llm" /\ preds[i].backfill => preds[i].fixture \in played

\* a forward prediction shows its own answer; only OK ones are graded, as shown
AnswersSound ==
  \A i \in Stored : preds[i].model = "llm" /\ ~ preds[i].backfill =>
    /\ preds[i].snap = {[ok |-> preds[i].ok, home |-> preds[i].home, away |-> preds[i].away]}
    /\ grade[i] # {} => preds[i].ok /\ grade[i] = {Scoreline(preds[i])}

\* what a session loaded is still what it will overwrite or grade
ViewSound(j) ==
  /\ job[j].at = "polling" => job[j].kind \in Batches
  /\ job[j].kind = "backfill" => job[j].over \subseteq played
  /\ job[j].kind = "predict" /\ job[j].at \in {"queued", "searching"} =>
       \A f \in job[j].over : \A i \in RowsOf(f) : preds[i].model = "llm" => ~ preds[i].backfill
  /\ job[j].at = "searching" => \A i \in job[j].target :
       LET loaded == job[j].view[i] IN
         /\ preds[i].model = loaded.model /\ preds[i].backfill = loaded.backfill
         /\ job[j].kind = "predict" => loaded.model = "llm"
         /\ loaded.model = "llm" => preds[i] = loaded
  /\ job[j].at = "grading" => \A i \in Seen(j) :
       preds[i].model = "llm" /\ ~ preds[i].backfill => preds[i].ok /\ preds[i] = job[j].view[i]

EInv ==
  /\ IInv /\ Mutex
  /\ RunsOnly => /\ FlagsSound /\ AnswersSound
                 /\ \A j \in Job : job[j] # NoJob => ViewSound(j)

\* an attempt that may fail never loaded an OK row as its own; one that did is
\* a backfill and will flag it
RetrySound(j) ==
  /\ job[j].kind \in Forward /\ job[j].at = "searching" =>
       \A i \in job[j].target : job[j].view[i].model = "llm" /\ ~ job[j].view[i].ok
  /\ job[j].kind = "backfill" /\ job[j].at = "queued" =>
       \A f \in job[j].over : \A i \in RowsOf(f) : preds[i].model = "llm" => ~ preds[i].backfill
  /\ job[j].kind = "backfill" /\ job[j].at = "searching" => \A i \in job[j].target :
       IF job[j].view[i].model = "llm" THEN ~ job[j].view[i].backfill
                                       ELSE preds[i].model # "llm"

NoCliBackfill == "cli_backfill" \notin Kinds

RInv == IInv /\ Mutex /\ (NoCliBackfill => \A j \in Job : job[j] # NoJob => RetrySound(j))

-----------------------------------------------------------------------------
(* What the repository says and the code does not do *)

(***************************************************************************)
(* prediction_service.py: "Append-only and reproducible: every Prediction  *)
(* records its snapshot" - the row shows what was answered on it.          *)
(***************************************************************************)
Reproducible ==
  \A i \in Stored : preds[i].snap \subseteq
    {[ok |-> preds[i].ok, home |-> preds[i].home, away |-> preds[i].away]}

(***************************************************************************)
(* run_service.py: "re-grade against the new backfill prediction".  With   *)
(* nobody at work, every Grade scored the scoreline its prediction shows.  *)
(***************************************************************************)
GradesAreFresh ==
  (\A j \in Job : job[j] = NoJob) =>
    \A i \in RowId : grade[i] # {} => grade[i] = {Scoreline(preds[i])}
=============================================================================
