# Verification of ScoreSeer

ScoreSeer predicts football matches with Claude and with free statistical
estimators, grades the predictions against authoritative results, and feeds the
graded history back into later prompts. One uvicorn process serves the API and
runs every job as an asyncio task; a management CLI may run beside it on the same
Postgres database. This directory holds TLA+ models of the backend
(`src/backend/app`, abbreviated `B/` below), the TLC instances that check them and
the theorems TLAPS proves about them.

    tlc -config RunsManaged.cfg RunsMC        (and so on, see section 4)
    tlapm RunsProofs.tla                      (and RunBookProofs, PipelineProofs,
                                               EvidenceProofs, SyncProofs, SeasonProofs,
                                               TournamentProofs, BacklogProofs)

## 1. Inventory

| Part | Source | State | Operations | What makes it correct |
|---|---|---|---|---|
| Run lifecycle | `B/services/run_service.py`, `B/repositories/runs.py` | advisory locks, `Run` and `RunItem` rows, cancel registry | `_run`, `_execute`, `request_cancel`, `eligible_for_*` | runs of one lock never overlap; a verdict agrees with the items; locks, events and rows do not outlive the task |
| Runner and scheduler | `B/workers/` | one row per unmanaged run, the `_predicting` set | `run_*`, `_run_batch`, `predict_one`, `_sync_job` | rows conclude; finished matches get graded |
| Admin routes | `B/routes/admin.py` | none | `trigger_run`, `cancel_run` | a cancel reaches a live run or finalises a stale row |
| Application start | `B/main.py` | none | orphan sweep | orphans, and only they, are failed |
| Prediction service | `B/services/prediction_service.py`, `B/repositories/predictions.py` | `Prediction`, `DataSnapshot` rows | `predict_fixture`, `_store` | paid once per match; a row shows what was answered on the evidence it cites |
| Grading service | `B/services/grading_service.py`, `B/repositories/results.py` | `Result`, `Grade` rows | `grade_fixture`, `upsert`, `mark_void` | one Grade per prediction, never without a Result, of the scoreline shown |
| Calibration | `B/services/calibration_service.py`, `B/repositories/calibration.py` | `CalibrationProfile` rows | `recompute`, `load_graded`, `next_version` | versions 1, 2, 3, ...; only the model's own foresight is evidence |
| Batch backfill | `B/services/batch_backfill_service.py`, `B/providers/claude_batch.py` | rows of the `-batch` model | `run`, `predict_many` | one commit, hours after the selection |
| Baselines | `B/services/{poisson,elo,dixon_coles,naive,market}_service.py` | rows of the baseline models | `predict_fixture`, `MarketService.run` | as-of: only earlier matches count; refreshed in place, regraded |
| Match routes, CLI | `B/routes/matches.py`, `B/cli.py` | none | predict, grade, backfill, calibrate | the same services without a lock |
| Fixture sync | `B/services/fixture_sync_service.py`, `B/repositories/fixtures.py`, `B/providers/{sports_api,results,_http}.py` | `Team`, `Fixture` rows, HTTP cache | `sync`, `upsert`, `list_fixtures` | one row per real match, whatever provider reported it |
| Claude adapters | `B/providers/claude_*.py`, `B/prompts/` | none | search loop, two repairs, batch polling | a bounded conversation; a knockout names a winner |
| Metrics and estimators | `B/grading/`, `B/estimators/`, `B/providers/odds.py` | none (pure) | `grade`, `match_points`, `predict_score`, ... | a scoreline has the outcome it stands for; marks do not depend on where a result came from |
| Read side | `B/services/{fixture,dashboard}_service.py`, `B/repositories/dashboard.py` | none | featured prediction, headline, history, trend, reliability | the pages agree; no hindsight in the headline; the sums add up |
| Demo seed | `src/backend/scripts/seed_demo.py` | rows of the `seed-demo` model | `seed` | gone once the real baseline is there |
| Auth, configuration, frontend, migrations | `B/auth.py`, `B/config`, `src/frontend`, ... | none of their own | | not modelled, section 7 |

**How they interact.** The scheduler and the admin route create runner tasks; a
runner opens a `RunService` run (predict, grade, backfill: advisory lock, items,
cancel event) or writes its own `Run` row (sync, baselines, batches) and may then
call `run_grade`. The run calls the prediction and grading services once per
fixture, each in a database session of its own; grading ends with a calibration
recomputation, whose profile the next prediction reads. The match routes and most
CLI commands call the same services directly, with no lock. Everything meets in
Postgres, where unique constraints are the last line of defence.

**What is hard here.** A service reads, then waits for minutes (web search, model,
sports API) or hours (batch polling), then writes rows it loaded before the wait.
Two locks (predict/backfill, grade) exclude some of those jobs and not others. The
cancel registry lives in one process, the locks in Postgres, the rows in the
database: a crash loses one and keeps the others. Errors are isolated per fixture,
except where they are not. `hazards` in `PROJECT.json` lists each such place by line
with the properties that watch it.

## 2. Modules and plan

| Module | Models | State |
|---|---|---|
| `Runs` | run lifecycle, runners, triggers, cancels, boot, crashes | done |
| `RunBook` | what the run history promises, abstractly | done |
| `RunsMC`, `RunsProofs` | instances, theorems | done |
| `RunBookProofs` | theorems: what a row says of its items, and the refinement of `RunBook` | done |
| `Pipeline` | predictions, results, grades, calibration and the jobs that share them | done |
| `PipelineMC`, `PipelineProofs` | instances, theorems | done |
| `Sync` | fixture identity across providers, concurrent syncs, natural-key fallback, free-first composite, HTTP cache, the id a result is asked by | done |
| `SyncMC`, `SyncProofs` | instances, theorems | done |
| `Dashboard` | what the pages show of `Pipeline`'s rows: featured prediction, headline, hindsight | done |
| `DashboardMC` | the managed instance of `Pipeline` seen through it | done |
| `Indicator`, `IndicatorMC` | the "Predicting..." light over the open instance of `Pipeline` | done |
| `EvidenceProofs` | theorems over `PipelineProofs`: rows, flags, retries, the pages, the light | done |
| `Scoring` | metrics, points, conversions around a Grade (pure) | done |
| `Estimators` | scorelines of Elo, Poisson, Dixon-Coles, naive and market; de-vigging (pure) | done |
| `Season` | several fixtures through time: as-of forecasts, grades, the accuracy pages | done |
| `SeasonMC`, `SeasonProofs` | instance, theorems: sums, scorelines, the as-of rule, marks, the market | done |
| `TournamentProofs` | theorems over `SeasonProofs`: ratings, limits of every row and Grade, the books | done |
| `Claude` | search loop, repair loop, batch entries (pure) | done |
| `Backlog` | capped selections over many runs, paid conversations, batches lost or collected | done |
| `BacklogMC`, `BacklogProofs` | instance, theorems | done |

The order is by damage: first what protects the database (`Runs`), then the data
itself (`Pipeline`), then what enters it (`Sync`), then what is shown of it
(`Dashboard`, `Indicator`), what the numbers mean (`Season` over `Scoring` and
`Estimators`) and how the work drains (`Backlog` over `Claude`). `Runs` and `Pipeline` are two views of one system: `Runs` abstracts
`process()` to the status it reports, `Pipeline` abstracts a run to one open
session that may only start when its lock is free. `Pipeline` assumes of the locks exactly what
`Runs!NoOverlap` states and what theorem `Exclusion` proves. `Sync` refines what
`Pipeline` calls one step, `Pipeline!Sync`, a fixture whose status changes and which stays
the same fixture; theorem `RowIdentity` says when that is justified.

`Dashboard` and `Indicator` extend `Pipeline` by variables of their own and constrain none of
its steps: every behaviour of `Pipeline` is one of theirs with those variables hidden.
`Season` trades the interleavings of `Pipeline` for scorelines that depend on one another
through time; it runs one transaction at a time and keeps one row per fixture and estimator.
`Backlog` takes a run as one step, which `Exclusion` justifies, and asks what many of
them achieve.

Every safety property a passing run checks is stated by a theorem. Still worth proving: that
`Backlog` may take a run as one step (a refinement of `Runs` and `Backlog` together, which
now rests on the reader putting `Exclusion` beside it), and that `Pipeline!Sync` is what a commit
of `Sync` does.

## 3. From code to model

### Runs

A task `t` is one invocation of a runner; `pc[t]` is the await it is suspended at.
It owns up to two rows, `<<t, "own">>` and, for the grade run a sync or
baselines run starts, `<<t, "grade">>`.

| Code | Model |
|---|---|
| `trigger_run`, `_sync_job`, CLI `run-*` | `TriggerRun`, `SyncJob`, `CliRun` |
| `_run`: try the lock on a connection of its own, `finally` unlock | `TryLock`, `Leave` |
| `_execute`: create row, register event, select, loop, item per fixture, finalize, `finally` pop | `CreateRun`, `Register`, `Select`, `Loop`, `Process`, `Finalize`, `Leave` |
| an exception leaving `_execute` | `Raise`: both `finally` blocks still run, nobody touches the row |
| `run_sync`, `run_baselines`, `_run_batch` | `Open`, `Work`, `Settle`, `Close`, `BeginGrade` |
| `cancel_run` | `CancelSignal`, or `CancelRead` and later `CancelCommit` |
| `_fail_orphaned_runs`, lifespan | `Sweep`, `Serve` |
| death of the server or of a CLI process; Postgres dropping a dead session | `CrashApi`, `KillCli`, `ReapLock` (external) |

The selection query is any set of at most `Cap` fixtures; which one it is belongs to
`Pipeline`. `process()` returns any status its service can report.

### Pipeline

A job `j` is one open database session. `job[j].at` names the slow call it is in,
`job[j].view` the rows as it loaded them, which is what SQLAlchemy compares with
when it writes. One action is one short transaction.

| Code | Model |
|---|---|
| selection under the lock, routes, CLI | `StartOne` with `Eligible` |
| `predict_fixture` up to the search; `_store` and commit | `PredictRead`, `PredictStore` |
| setattr and flush: only changed columns are in the UPDATE | `Overwrite`, column by column |
| `uq_prediction_version`; a violated key rolls the job back | `KeyFree`, `Store` |
| `run_backfill`'s delete of the grades, then grading | `DropGrades`, `GradeRead`, `GradeStore` |
| `grade_fixture`: void, skip, stored result, provider answer, commit | `GradeRead`, `GradeStore`; `Conflict` is the unique key of Grade |
| batch: selection, polling, upsert, one commit | `BatchRead`, `BatchStore` |
| baselines: upsert and drop the baseline grades in one transaction | `RefreshBaselines` |
| `recompute`: count and number, then insert | `CountEvidence`, `AddProfile`; a taken version is a rolled-back insert |
| error, timeout, `awaiting_result`, death | `GiveUp` |
| kickoff; a sync that reports a status | `KickOff` (external), `Sync` |

Abstractions: a prediction is its estimator (`llm`, `batch`, `baseline` - one row for
the four baseline models, which are always refreshed together), calibration version,
flag, status and scoreline. `snap` stands for the `DataSnapshot` a row cites: it holds
what the model answered on that evidence, so a row that cites somebody else's
evidence is visible. A Grade is the scoreline it scored. The prompt version is
constant. Fixture kickoff times are the set `played`: a match has kicked off or not.
A row id is a number in order of `created_at`.

### Sync

A session `s` is one call of `FixtureSyncService.sync`. `sync[s].todo` is the list it
works through, `sync[s].loaded` the rows as it found them and `sync[s].mine` as it will
write them.

| Code | Model |
|---|---|
| the scheduled, manual or CLI sync begins | `StartSync` |
| `fetch_json`: cache hit; request; answer stored and returned | `Cached`; `Ask`; `Answer` |
| first list that is not empty wins; `ProviderUnavailable` tries the next | `Received`, `Refused`, `NextLink` |
| `_upsert_one`: teams, `_find` by id then by teams, update or insert | `Upsert` with `ById`, `ByTeams`, `Refreshed`, `Upserted` |
| `scalar_one_or_none` meets two rows: an exception | the last disjunct of `Upsert` |
| commit: changed columns only; a violated unique key rolls all back | `Commit` with `Merged`, `Violates` |
| any other exception, or the process dies | `Abort` |
| the cache file outlives `http_cache_ttl_seconds` | `Expire` |
| `get_result(fixture.external_id)`, then the stored score | `AskResult`; `StoreResult` or `NoResult` |
| a pairing is decided, a match is played | `Play` (external) |

A match is a model value; `Ext` and `Teams` say how each provider numbers it and which
codes it gives the teams. `result` holds the match a stored score is about. What a sync
wrote takes effect at its commit: the flushes in between only lock rows, which excludes
some interleavings the model has and adds none. Match details are cached too; an answer
that is not final yet, fresh or cached, is `NoResult`. `live`, `postponed` and `abandoned`
are left out: identity does not look at the status, and grading only at `finished`.

### Dashboard and Indicator

| Code | Model |
|---|---|
| `_prediction_map` of the list, `_primary` of the match page | `Featured`, `Primary` |
| `DashboardRepository.graded` | `Graded`: a final Result, a Grade, and `is_backfill` unless the model is the batch |
| `_dedup_per_fixture` | `DedupPerFixture`: the newest row of each fixture |
| `metrics`, `history`, `calibration` | `Headline` |
| `_predicting.add`, `discard` in the `finally` | `Begins`, `Ends`, `Light` |

`late` and `informed` are history variables: they record which jobs took on a match after its
kickoff and which rows such a job last answered - what the flag `is_backfill` is meant
to say. `HeadlineIsHonest` compares the two. It speaks of the kickoff at
the time of the selection: a prediction run that selects a match before kickoff
and searches after it is foresight to the code and to the model.

### Scoring and Estimators

Pure operators named after the functions. Likelihoods, confidences, odds and ratings are
integers (percent, hundredths, thousandths), a mean is a pair of sum and count, an
expected number of goals an exact quotient. `Expected` (the logistic curve) and
`Factors` (the exponential of a seed) are parameters. The grids of Poisson probabilities
only produce a confidence and are left out: the scoreline of these two models is the rounded
expectation.

### Season

| Code | Model |
|---|---|
| `_prior_results` of the four services | `Prior`: kicked off strictly earlier, and final; `KickoffOrders` for Elo's `ORDER BY` |
| the upserts, `_advancing` | `Forecast`, `BaselineRow`, `Advancing` |
| first transaction of `run_baselines`; CLI `poisson`; `_run_market` | `Refresh`; `CliPoisson`; `Market` |
| a predict run's answer; a batch's answer, over a graded row or not | `Ask`; `Batch` |
| `seed_demo.py` | `SeedDemo`; two OK rows make it raise |
| `grade_fixture` | `Grade`: postponed, stored final result, provider's answer |
| `graded`, `_dedup_per_fixture`, sums, `_points_by_stage`, `_trend`, `_reliability` | `GradedBy`, `Headliner`, `HeadlineRows`, `TotalPoints`, `PointsByStage`, `Trend`, `Members` |
| `load_graded` | `Evidence` |
| time passes; a match is played or put off | `Tick`, `Finish`, `Postpone` (external) |

`made` orders a fixture's rows by `created_at`: a new row is the newest and a rewritten one
keeps its place. `HeadlineRows` is a set because simultaneous matches come in any order. A batch is
one fixture's share of it (the commit of all is `Pipeline`'s); a stage and a kickoff are constant.
Two fixtures that start at the same time share no team (`SeasonAssumption`).

### Claude and Backlog

| Code | Model |
|---|---|
| `fetch_pre_match`: at most three responses while the model pauses; sources of the last | `LastTurn`, `Quality` |
| `run_with_repair`: refusal, valid, or the third reply; the knockout rule; the side stripped from a group match | `LastReply`, `Usable`, `Side` |
| search, then predict | `Conversation` |
| `parse_batch_entry` | `Parsed` |
| `eligible_for_*` | `EligibleForPrediction`, `EligibleForBackfill`, `EligibleForGrading`, `Oldest` |
| `run_predictions`, `run_backfill`, `run_grading` | `PredictRun`, `BackfillRun` (with `Regraded`), `GradeRun` |
| submit, poll, collect and store a batch; restart or exception while it is polled | `BatchSubmit`, `BatchEnds` (external), `BatchCollect`; `BatchLost` |

A run may do any part of what it selected: the rest raised, or the process died. Fixtures have
distinct kickoffs and are upcoming or finished; one batch is under way at a time and is over
finished matches; baselines are left to the other modules.

## 4. Runs and bounds

`P` passes, `V` is a violation: the property is a sentence of the repository and TLC
shows the code contradicting it.

| Run | Instance | Checks | Shows |
|---|---|---|---|
| `managed_runs` P | 2 tasks, 2 fixtures, 1 crash, 1 error | `IInv`, `NoOverlap`, `GoodNewsIsTrue`, `SweepSparesOwnRuns` | managed runs exclude one another across processes; a good verdict is true of the items; a boot spares its own runs |
| `follow_up_runs` P | sync and baselines with their grade runs | `TypeOK`, `CancellingMeansLive`, `BInv`, `HistoryIsStable`, `KeepsRunBook` | the history is stable and implements `RunBook` |
| `runs_progress` P | with `Fairness` | `RowsSettle`, `LocksFreed` | rows conclude, locks are given up |
| `cancel_of_live_run` V | | `OnlyStaleRowsCancelled` | a cancel strikes out the row of a live task |
| `pipeline_managed` P | 2 sessions, 1 fixture, 5 row ids, 2 answers, 2 calibration versions | `IInv`, `DInv`, `RInv`, `OneOkPerFixture`, `EvidenceIsTheModels`, `VersionsResolve`, `PagesAgree`, `HeadlineIsHonest`, `HeadlineIsShown` | what the locks buy; calibration and the pages stay clean |
| `pipeline_open` P | 2 sessions, 1 fixture, 5 row ids, button, grade route, batches | `GradesHaveResults`, `LightIsTrue`, `GradesAppendOnly`, `OkSurvivesRetries` | what holds without any lock |
| `torn_write` V | two button presses | `Reproducible` | scoreline of one attempt, evidence of the other |
| `grade_race` V | backfill beside a grade run | `GradesAreFresh` | a Grade of the old scoreline survives |
| `sync_identity` P | 2 syncs, 2 legs of one pairing, 2 providers, 4 rows, 1 refusal or crash, results asked for row 1 | `IInv`, `ResultIsOfTheMatch`, `RowKeepsItsMatch` | a row stays its match while its id changes hands, and gets its match's result |
| `sync_freshness` P | 2 syncs, 1 match, stale caches, with `Fairness` | `FinishIsLearnt` | a late commit of an old list is repaired |
| `season` P | 4 fixtures in 3 kickoffs (two at once), 8 estimators, 2 results, 2 answers, a postponement | `SInv`, `ForecastsAreAsOf`, `EloIsWellDefined`, `GradesAreRight`, `BooksBalance`, `MarketBacksFavourites` | forecasts are as-of, grades right, the pages add up |
| `backlog` P | 3 matches, 2 to a run, 1 hopeless, with fairness | `IInv`, `PaidOnce`, `AdvancingMatchesStage`, `EveryResultIsScored`, `BatchConcludes` | nothing is paid twice; what can be graded is |

*Why the bounds are enough to be interesting.* Every race in the code is between two
actors, and each instance has two; the Runs instances have the crash, the
restart and the error between any two steps. Five row ids hold every key one
fixture can have there (three calibration versions of the `llm` row and a baseline row;
two versions each of an `llm` and a batch row), so the bound never blocks an insert. Almost nothing in `Pipeline`
relates two fixtures (the batch commit and the baselines do, per fixture); one fixture
therefore suffices for TLC, and the theorems hold for any number. `Goals` is `{0, 1}`:
scorelines are only compared. `MinGraded` is 2 and `History` counts graded predictions
of other matches, so that the calibration threshold is crossed both ways.
`Statuses` omits `live` and `abandoned`: `live` is treated as neither scheduled nor
finished, as is `postponed` outside grading, and `abandoned` is graded like `postponed`.
Deadlock checking is off in the `Runs`, `Pipeline`, `Season` and `Backlog` instances: a system
in which nobody presses a button rests, and a tournament ends. `Sync` starts syncs for ever and is checked for deadlock.

`season` (362,138 states) has what the properties relate: two simultaneous group matches whose order
could matter, a semi-final that depends on both, a final that depends on all three, one
postponable match. One cap leaves the last fixture out of every refresh, so that grades outlive
or lose their rows there. The true results are a 3-0 and a 1-1 on penalties, whose scorers include an own
goal and a penalty; the answers are an exact 3-0 and a certain (100 percent) 1-1, on the edge of
the last bucket. The one odds feed lists the semi-final twice and the final once, with two equal
favourites, all three the other way round.
`Expected` is a line instead of the logistic curve. Only the semi-final is asked of
the language model, once by search, again and again by batch.

`backlog` (76,945 states) has the smallest backlog that can starve: one hopeless fixture, first in kickoff
order, takes one of the two places of every grade run. With as many hopeless fixtures as places
`EveryResultIsScored` has a false premise, and the code does starve.

`sync_identity` and the theorems about `Sync` are about providers that are `Coherent`: they
agree on team codes, no two matches have the same teams in the same order, and no id names
two matches, not even one of each provider. Nothing in the code enforces any of the three.
Without the first, falling back inserts a match twice (below). Without the second, a rematch in the same order
overwrites the row of the first meeting; without the third, grading would store
another match's score. The two legs of a pairing share their teams, so that the unique team
code does not reject the second of two syncs that both insert the second leg, and the
reverse order of the teams tells the legs apart. Four rows are what two syncs can
insert at once. `Graded` (the rows whose result is asked for) keeps that instance small.

### Findings

1. `cancel_run` finalises rows of live tasks (`B/routes/admin.py:89`): sync,
   baselines, batch and CLI runs have no event in this process, and a managed run has
   none before it registers.
2. The partial UPDATE of `_store` mixes two attempts (`B/services/prediction_service.py:133`).
3. Backfill and grading hold different locks; a stale Grade survives
   (`B/services/run_service.py:115`). Not in what calibration counts, while predictions are made by
   runs: a rewritten row carries the backfill's flag (`EvidenceIsTheModels`, theorem `EvidenceTheorem`).

### Facts met while modelling

One request or one call shows each of these, so they have no run; the modules contain them.

*Runs and providers.* The delete of the old grades in `run_backfill` is outside both `try` blocks
(`B/services/run_service.py:113`): a database error there ends the run, skips the remaining
fixtures and leaves the row running (`Runs!Raise`). A trigger that meets a held
lock is answered `started` and leaves no row, while the docstring says it appears in `/runs`
(`B/routes/admin.py:77`). The composite provider falls back on `ProviderUnavailable` but not on a
connection error (`B/providers/sports_api.py:194`). API-Football's team codes are made up from
names (`B/providers/sports_api.py:53`), so a sync that falls back inserts a second row for every match of a team
whose code is not the start of its name (Spain, the Netherlands); two syncs at once that
were answered by different providers do it even when the codes agree.

*Predictions.* The predict button stores a prediction of a match that has kicked off as
foresight (`B/routes/matches.py:42`), which is why `HeadlineIsHonest` is a property of the
managed instance. The proofs marked out three more such limits, each of which TLC confirms with a
short behaviour of an instance that starts the jobs named. With both kinds of batch
beside the backfill and the grade route, a row may say foresight of what a backfill answered: the
backfill loads a batch's row that already has its flag, the other kind of batch clears the
flag, and the backfill's UPDATE leaves the unchanged column out (`EvidenceIsTheModels`). With
the predict button, two CLI backfills of one match can turn an OK row into a failed one that says
foresight (`OkSurvivesRetries`). A batch that is run again may replace a graded OK row by a failed one and keep
its Grade, so the headline may count a row no page shows (`HeadlineIsShown`). A failed backfill row counts as backfilled (`B/repositories/runs.py:88`):
`PaidOnce` holds because it is never tried again. A batch that is run again rewrites its
rows and keeps their Grades (`B/services/batch_backfill_service.py:194`): the exception in
`GradesAreRight`. Its selection leaves out nothing that was done, so a capped batch buys the oldest matches
every time (line 73). Batch answers are not held to the rule that a knockout names a winner. The
form line of its prompt calls the last five results "recent" although they are read in no order
(line 136), and the calibration snippet in an as-of prompt may rest on later results. Only the last response
of a search contributes sources (`B/providers/claude_search.py:53`).

*Estimators and pages.* Elo never forecasts a draw: its draw band is at most 28 percent
(theorem `EloNeverDraws`). Of two favourites with equal odds the market's forecast has the one win that
is our home side (`B/estimators/market.py:51`), so `MarketBacksFavourites` promises one of the favourites. "As-of" is by kickoff, not by the end of a match: a match still being played
has no result yet, so nothing leaks. `compare` says "over the same graded fixtures"
(`B/services/dashboard_service.py:66`) but takes each estimator over its own. Demo seeds count as
the language model, in the headline and in the calibration, until the CLI's `poisson` clears
them; `seed_demo.py` raises on a fixture with two OK rows (line 46). The
"Predicting..." light is a set: the first of two presses to end turns it off. The insights feed fetches
three rows per note wanted and may show fewer notes than asked for
(`B/repositories/dashboard.py:75`). A group match gets an advancing team from the provider's winner
(`B/providers/results.py:71`), which only the marking of a prediction that names one would notice.

Each pass property has a mutant in `PROJECT.json`: a changed definition, as a plausible
bug would change it, under which TLC finds the property violated.

## 5. Fairness

Three runs assume fairness; the paid runs are started by people and are never owed.

`runs_progress` assumes only what the platform gives: the event
loop resumes a task whose await completed (`WF` of `TaskStep`; provider calls have
client timeouts and a batch is assumed to end), a dead server is restarted and boots,
Postgres notices a dead connection, a request in flight finishes. Nobody is obliged to
launch, cancel, crash or fail. `RowsSettle` leaves out CLI rows (nothing sweeps them
until a server boots) and runs an exception escaped from, which stay
`running` until the next boot: that is what the code does.

`sync_freshness` assumes that the scheduler is enabled and starts syncs for ever, that
a started sync goes on (requests have a timeout) and that cached answers expire. Refusals
and crashes are finitely many by `MaxFaults`: with a provider down for ever nothing can be
learnt from it.

`backlog` assumes strong fairness of `GradeRun(f)` for each fixture: the scheduled sync starts
a grade run every few hours, and a fixture that is selected again and again and has a result gets
it in one of those runs. A fixture of `Hopeless` never does. Weak fairness would not do,
because another run may grade `f` or a re-run may take its grade away meanwhile. A batch ends (`WF` of `BatchEnds`: the
service expires what it cannot finish within a day) and is polled until it does (`WF` of `BatchCollect`), unless the process dies
(`BatchLost`, under no fairness). Nothing obliges `Finish`, a prediction, a backfill or a batch to happen.

## 6. Proofs

The eight proof modules prove their results for all values of the constants, under the
named assumption of each module (`ConstantsAssumption`, `SeasonAssumption` with
`EstimatorsAssumption`, `InputsAreValid` and `AnswersAreRows`, `BacklogAssumption`), which TLC evaluates
on every instance. A theorem that needs more says so in its statement:

| Premise | Theorems | Why |
|---|---|---|
| `ManagedOnly` | `NeverPaidTwice`, `HeadlineShown` | the predict button and the CLI's backfill take no lock |
| `RunsOnly` | `EvidenceTheorem`, `HonestHeadline` | the same, and batches of one kind (section 4, Facts) |
| `NoCliBackfill` | `RetryTheorem` | two of them beside the button break it |
| `Kinds \cap Batches = {}` | `HeadlineShown` | a batch that is run again keeps the Grade of what it replaced |
| `IsFiniteSet(RowId)` | `SamePrediction`, `HeadlineShown` | the newest of a set of rows exists when the set is finite |
| `Job # {}` | `LightTheorem` | a match is dark when no session is pressed for it |
| `Coherent` | `RowIdentity`, `ResultIdentity` | providers that agree, section 4 |
| `Expects` | `EloTheorem`, `BooksAreSound`, `BooksTheorem` | the win expectancy of every gap is a whole number of thousandths: `Expected` is a parameter, and TLC could not evaluate an assumption over all gaps |

**`RunsProofs`.** `IInv` = types, `VerdictReady` (a task about to write a row has a
verdict), `LockHeld` (whoever is inside `RunService` holds its lock), `ServerUp` and
`CancellingMeansLive`. `NoOverlap` alone is not inductive: a state where two tasks wait
at `Leave` and one of them does not hold the lock would release the other's. `LockHeld`
implies it at once. From `Spec => []IInv` follow `TypeCorrect`, `Exclusion`,
`CancelReachesTheRun` and the action property `HistoryTheorem`.

**`RunBookProofs`.** `BInv` adds to `IInv` what a row and its task know of each other: `PhaseSound` (which
await goes with which of a task's two rows), `Untouched` (a row says nothing before its task opens it),
`TallySound` (the totals of a run are the numbers of items it committed so far, and what is left to do
has no item), `OpenRows` (an open row says `running`, unless a cancel or, for a CLI run, a boot struck it
out) and `ClosingOpened`. `GoodNewsIsTrue` needs all of them: a verdict is written from totals a task kept
in memory, so it is true of the committed items only if the totals were right at every step before. From it
follow `GoodNewsTheorem`, `SweepTheorem` (a boot strikes out no row of a task of the server that boots) and
`Refinement`: `Init` maps to `RunBook!Init` and every step to a step of `RunBook` or a stutter, with `writer` mapped to the
rows whose task may still add to them (`Writing`). One lemma per kind of step says which action of `RunBook` it
is: `OpenImplements`, `NoteImplements`, `FinalizeImplements`, `CloseImplements`, `LoseImplements`.

**`PipelineProofs`.** `IInv` adds to the types and the checked invariants what a
session still remembers: `SessionSound` (the rows it loaded still exist and still
belong to its fixture, a calibration version it read exists, every version below the
one it is about to insert exists, a result it saw is stored), `ResultsPlayed`, and,
when no unlocked job predicts (`ManagedOnly`), `LockSound`: one predicting session, whose
view of the fixture's OK predictions is still true. Without `SessionSound` a job could
write a Grade for a vanished row or skip a version; without `LockSound` a stale read
could add a second OK prediction. Most of the preservation proofs reduce to
a few lemmas about how an action changes rows: an upsert never changes the fixture of a row
(`Slots`, `Upserted`), an overwrite keeps the key's fixture, a delete only empties. From
it follow `TypeCorrect`, `GradesStandOnResults`, `VersionsAreComplete`, `NeverPaidTwice`
(under `ManagedOnly`) and the action property `NoGradeReplaced`.

**`EvidenceProofs`.** Three inductive invariants over that `IInv`, each for one question.
`EInv` (with `RunsOnly`): `FlagsSound` (a row's flag says who made it and when), `AnswersSound` (a foresight row shows the answer its
evidence holds, and a Grade of it scored that answer) and `ViewSound` (what a session loaded of the model's rows
is still what it will overwrite). `EvidenceIsTheModels` alone is not inductive: an UPDATE writes only the
columns that differ from the view, so a stale view would leave half of an older answer in the row. `RInv`
(with `NoCliBackfill`): an attempt that may fail never loaded an OK row as its own, and a backfill that loaded one
will flag it; it holds beside any number of button presses. `DInv`: the history variables of `Dashboard` mark only what carries its flag. From them follow
`EvidenceTheorem`, the action property `RetryTheorem`, `HonestHeadline` and `HeadlineShown`; `SamePrediction`
needs no invariant, as it compares two queries over any rows. `LightTheorem` is inductive as it stands. The proofs rest on how a session
moves (`SessionMoves`: it starts, loads, marks, proceeds, polls or ends) and how a row moves (`RowMoves`, `AttemptWrites`), each
shown once for all actions.

**`SyncProofs`.** `IInv` = types, `SyncsSound` (what a sync loaded, what is committed now and
what it will write have the same teams, and a row it will insert is nobody else's) and, with
`Coherent` providers, `IdentitySound`: every row, committed, loaded or about to be
written, carries an id and the teams of one match, every request an id of its row's match,
every result its row's match. `RowKeepsItsMatch` alone is not inductive: a commit merges three
versions of a row column by column, and only if all three are the same match is the
mixture of their `provider` and `external_id` an id of that match. That is lemma `MergedIs`: if
the sync changed the provider it changed the id with it. `FoundTeams` is the other half: by id or
by teams, the row found has the teams of the match listed. From `Spec => []IInv` follow
`RowIdentity` and `ResultIdentity`, both under `Coherent`.

**`SeasonProofs`.** `ScoresSound` is inductive: a match has a score only when it is over, a
stored final result is that score, and only finals are graded. On it rest `NoHindsight`
(`ForecastsAreAsOf`: every statistical forecast is a function of results of matches that kicked off strictly
earlier, and stays one when later matches finish) and `GradesStayRight` (`GradesAreRight`: a Grade is what
marking the row against the true score gives, whichever of the two ways the result came, except the rows a batch rewrote). Neither
is inductive alone: a second final score for one match would make an old Grade wrong and an old
forecast unexplained. Its theorems about the pure modules need no invariant: `PointsAreTiered`, `ExactIsCorrect`,
`StoredLikeFresh` (the two routes to a result mark alike), `ScorelineMeansOutcome` (the scoreline that stands for an
outcome has that outcome), `EloNeverDraws`, and `UpdatesCommute`: the Elo updates of two matches without a common team
commute, which is why an `ORDER BY kickoff` that leaves ties open still defines a rating. `MarketTheorem` follows a forecast back to
the feed: whichever side an event lists first, turning the de-vigged odds round and rounding them to goals leaves one of
the favourites ahead. The module also holds the lemmas about sums of functions over finite sets that the
books need (`SumOfPart`, `SumIsMonotone`, `SumOfBoxes`, `SumOfOnes`, ...).

**`TournamentProofs`.** `SInv` = types, `RowsAreSound` (every forecast, of whatever estimator, has goals in range and names a team that
advances or nobody; `ModelScores` and `MarketScores` bound the estimators for any inputs), `GradesAreSound` (an exact hit is a correct one, no mark beyond
the stage's maximum), `RowsAreDated` (the order in which a match's rows were created is total, so that there is
a newest) and `ScoresSound`. `BooksTheorem` derives the accuracy pages from it: the stages partition the
rows (`SumOfBoxes`), the trend has one end per date because rows come in kickoff order (`OneEndADay`), and
each confidence lies in exactly one bucket (`OneBucket`). `EloTheorem`: `OneRating` shows that any two kickoff orders of
the same matches yield the same ratings, by taking out of both a match that may be last (`MayBeLast`, which commutes with
everything after it), and `RatedKeepsTotal` that no match makes points.

*Recursion without RECURSIVE.* Ratings and sums are folds of the community modules. The library's induction theorems take
an operator as parameter and cannot be used, so that induction here is lemma `Climb`: a set that holds 0 and, with each
natural number, the next, holds them all. It is proved from a least counterexample; each use defines the set of numbers
for which its claim holds. That a fold exists and satisfies its equations comes from it (`FoldExists`, `SumExists`).

**`BacklogProofs`.** `ConversationIsBounded`: a prediction costs at most six calls of the model, whatever it
answers. `IInv` = types, `PaidIsMarked` (a backfill that was paid is marked as one), marks are of finished matches, and
`AdvancingMatchesStage`. `PaidOnce` alone is not inductive: a foresight prediction clears the mark,
and only because it takes unfinished matches, and marks are of finished ones, can it never clear one that was paid for.
From it follow `NeverBackfilledTwice` and `StageIsRespected`.

**Only model-checked.** Liveness (`RowsSettle`, `LocksFreed`, `FinishIsLearnt`, `EveryResultIsScored`, `BatchConcludes`): TLAPS
cannot treat it with fairness. `OnlyStaleRowsCancelled`, `Reproducible` and `GradesAreFresh`, which the code
violates.

## 7. Not modelled

*Whole parts.* Authentication (an equality test on a header), configuration, logging, the database engine, migrations
and the frontend keep no state of their own that a protocol depends on.

*Read side.* The insights feed, means over metrics and the half-season Brier scores: each is one
query and one division. The DTOs of `schemas.py` are plain shapes.

*Calibration.* The aggregates of a profile and the text of its snippet; what counts is which rows go into it and which
version is read. Prompts likewise.

*Estimators.* They compute in floating point. The probability grids of the goal models yield only a confidence and
are left out; the logistic curve and the exponential of a seed are parameters, of which the theorems assume
no more than a range. Float rounding at a tie is not represented.

*Providers.* The parsing of scores and scorers, the alias table and normalisation of names, the skipping of incomplete
odds events, and waits after a 429, which are part of a request.

*Scripts.* The audit scripts read and print. Of the demo seed only which rows it writes is modelled.

`PROJECT.json` lists every component with its status.
