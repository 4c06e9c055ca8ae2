--------------------------- MODULE EvidenceProofs ---------------------------
(***************************************************************************)
(* What the rows of the pipeline say is what the model said, and the pages *)
(* say what the rows say: theorems about the answers, the flags and the    *)
(* retries of predict_fixture, the headline, the match page and the        *)
(* "Predicting..." light, for any number of sessions, fixtures, rows and   *)
(* answers.                                                                *)
(***************************************************************************)
EXTENDS Dashboard, Indicator, PipelineProofs, FiniteSetTheorems

(***************************************************************************)
(* How a session moves: it starts, loads rows to search or to grade, goes  *)
(* on to the next stage, starts polling, ends - or stays as it is.         *)
(***************************************************************************)
Starts(k) ==
  /\ job[k] = NoJob
  /\ UNCHANGED <<played, status, preds, grade>>
  /\ \E c \in Kinds \ {"baselines"}, f \in Fixture :
       /\ Eligible(c, f)
       /\ c \in PredictLock => Free(PredictLock)
       /\ job'[k] = Opened(c, IF c \in Forced \cup Forward THEN "queued" ELSE "regrade", {f}, 0)

Searches(k) ==
  /\ At(k, "queued")
  /\ UNCHANGED <<played, status, preds, grade>>
  /\ \E f \in Fixture, v \in 0..MaxVersion, T \in SUBSET RowId :
       /\ job[k].over = {f}
       /\ T = Target(f, job[k].kind \in Forced, v)
       /\ AlreadyOk(f) = {} \/ job[k].kind \in Forced
       /\ job'[k] = Loaded(job[k], "searching", T, T, FALSE, v)

Marks(k) ==
  /\ At(k, "regrade")
  /\ UNCHANGED <<played, status, preds, grade>>
  /\ \E f \in Fixture, b \in BOOLEAN :
       job'[k] = Loaded(job[k], "grading", {}, Ungraded(f), b, 0)

Proceeds(k) ==
  /\ job[k] # NoJob
  /\ UNCHANGED played
  /\ \E l \in {"drop", "regrade"} : job'[k] = Opened(job[k].kind, l, job[k].over, 0)

Polls(k) ==
  /\ job[k] = NoJob
  /\ \E c \in JobKind, l \in {"polling", "versioning"} : \E S, v :
       /\ l = "polling" => c \in Batches
       /\ c \notin PredictLock \cup Forced \cup Forward
       /\ job'[k] = Opened(c, l, S, v)

\* a step moves one session
LEMMA StepFrame ==
  ASSUME IInv, NEW j \in Job, Step(j), NEW k \in Job, k # j
  PROVE  job'[k] = job[k]
<1>0. TypeOK /\ \A h \in Job : job[h] # NoJob => SessionSound(h)
  BY DEF IInv
<1>1. \A s : Begin(j, s) \/ Done(j) => job'[k] = job[k]
  BY <1>0, BeginFrame, DoneFrame
<1>2. CASE StartOne(j) \/ BatchRead(j) \/ CountEvidence(j) \/ DropGrades(j)
  BY <1>1, <1>2 DEF StartOne, BatchRead, CountEvidence, DropGrades
<1>3. CASE PredictRead(j)
  <2>1. PICK f, v : \/ Done(j)
                    \/ LET T == Target(f, job[j].kind \in Forced, v) IN
                         Begin(j, Loaded(job[j], "searching", T, T, FALSE, v))
    BY <1>3 DEF PredictRead
  <2> QED BY <1>1, <2>1
<1>4. CASE GradeRead(j)
  <2>1. PICK f : \/ Done(j)
                 \/ Begin(j, Loaded(job[j], "grading", {}, Ungraded(f), result[f] = "final", 0))
    BY <1>4 DEF GradeRead
  <2> QED BY <1>1, <2>1
<1>5. CASE PredictStore(j)
  <2>1. job[j] # NoJob /\ SessionSound(j)
    BY <1>0, <1>5 DEF PredictStore, At
  <2>2. Done(j) \/ Begin(j, Opened(job[j].kind, "drop", job[j].over, 0))
    BY <1>0, <1>5, <2>1, AttemptRows
  <2> QED BY <1>1, <2>2
<1>6. CASE GradeStore(j) \/ BatchStore(j) \/ AddProfile(j) \/ GiveUp(j)
  BY <1>1, <1>6 DEF GradeStore, BatchStore, AddProfile, GiveUp
<1> QED BY <1>2, <1>3, <1>4, <1>5, <1>6 DEF Step

LEMMA SessionMoves ==
  ASSUME IInv, [Next]_vars, NEW k \in Job
  PROVE  \/ job'[k] = job[k] \/ job'[k] = NoJob
         \/ Starts(k) \/ Searches(k) \/ Marks(k) \/ Proceeds(k) \/ Polls(k)
<1>0. TypeOK /\ \A h \in Job : job[h] # NoJob => SessionSound(h)
  BY DEF IInv
<1>1. CASE UNCHANGED vars \/ RefreshBaselines \/ \E f \in Fixture : KickOff(f) \/ Sync(f)
  BY <1>1 DEF vars, RefreshBaselines, KickOff, Sync
<1>2. ASSUME NEW j \in Job, Step(j), j # k PROVE job'[k] = job[k]
  BY <1>2, StepFrame
<1>3. ASSUME Step(k)
      PROVE  \/ job'[k] = NoJob
             \/ Starts(k) \/ Searches(k) \/ Marks(k) \/ Proceeds(k) \/ Polls(k)
  <2>0. \A s : Begin(k, s) => job'[k] = s
    BY <1>0, BeginFrame
  <2>a. Done(k) => job'[k] = NoJob
    BY <1>0, DoneFrame
  <2>1. CASE StartOne(k)
    <3>1. PICK c \in Kinds \ {"baselines"}, f \in Fixture :
            /\ Eligible(c, f)
            /\ c \in PredictLock => Free(PredictLock)
            /\ Begin(k, Opened(c, IF c \in Forced \cup Forward THEN "queued" ELSE "regrade", {f}, 0))
      BY <2>1 DEF StartOne
    <3>2. job[k] = NoJob /\ UNCHANGED <<played, status, preds, grade>>
      BY <2>1 DEF StartOne
    <3> QED BY <2>0, <3>1, <3>2 DEF Starts
  <2>2. CASE PredictRead(k)
    <3>1. At(k, "queued") /\ job[k] # NoJob /\ UNCHANGED <<played, status, preds, grade>>
      BY <2>2 DEF PredictRead, At
    <3>2. PICK f \in Fixture : job[k].over = {f}
      BY <1>0, <3>1 DEF SessionSound, At
    <3>3. PICK v \in 0..MaxVersion :
            \/ Done(k)
            \/ /\ AlreadyOk(f) = {} \/ job[k].kind \in Forced
               /\ LET T == Target(f, job[k].kind \in Forced, v) IN
                    Begin(k, Loaded(job[k], "searching", T, T, FALSE, v))
      BY <2>2, <3>2 DEF PredictRead
    <3>4. Target(f, job[k].kind \in Forced, v) \in SUBSET RowId
      BY TargetType
    <3>5. CASE /\ AlreadyOk(f) = {} \/ job[k].kind \in Forced
               /\ LET T == Target(f, job[k].kind \in Forced, v) IN
                    Begin(k, Loaded(job[k], "searching", T, T, FALSE, v))
      <4>1. PICK T \in SUBSET RowId : T = Target(f, job[k].kind \in Forced, v)
        BY <3>4
      <4>2. job'[k] = Loaded(job[k], "searching", T, T, FALSE, v)
        BY <2>0, <3>5, <4>1
      <4> QED BY <3>1, <3>2, <3>5, <4>1, <4>2 DEF Searches
    <3> QED BY <2>a, <3>3, <3>5
  <2>3. CASE PredictStore(k)
    <3>1. job[k] # NoJob /\ SessionSound(k) /\ UNCHANGED played
      BY <1>0, <2>3 DEF PredictStore, At
    <3>2. Done(k) \/ Begin(k, Opened(job[k].kind, "drop", job[k].over, 0))
      BY <1>0, <2>3, <3>1, AttemptRows
    <3> QED BY <2>0, <2>a, <3>1, <3>2 DEF Proceeds
  <2>4. CASE DropGrades(k)
    <3>1. job[k] # NoJob /\ UNCHANGED played
      BY <2>4 DEF DropGrades, At
    <3>2. Begin(k, Opened(job[k].kind, "regrade", job[k].over, 0))
      BY <2>4 DEF DropGrades
    <3> QED BY <2>0, <3>1, <3>2 DEF Proceeds
  <2>5. CASE GradeRead(k)
    <3>1. job[k] # NoJob /\ SessionSound(k) /\ At(k, "regrade") /\ UNCHANGED <<played, status, preds, grade>>
      BY <1>0, <2>5 DEF GradeRead, At
    <3>2. job[k].over \subseteq Fixture
      BY <3>1, <1>0 DEF TypeOK, Session
    <3>3. PICK f \in Fixture : \/ Done(k)
                   \/ Begin(k, Loaded(job[k], "grading", {}, Ungraded(f), result[f] = "final", 0))
      BY <2>5, <3>2 DEF GradeRead
    <3>4. (result[f] = "final") \in BOOLEAN
      OBVIOUS
    <3> QED BY <2>0, <2>a, <3>1, <3>3, <3>4 DEF Marks
  <2>6. CASE BatchRead(k)
    <3>1. PICK c \in Kinds \cap Batches, v \in 0..MaxVersion, S \in SUBSET Fixture :
            Begin(k, Opened(c, "polling", S, v))
      BY <2>6 DEF BatchRead
    <3>2. job[k] = NoJob /\ c \in JobKind /\ c \notin PredictLock \cup Forced \cup Forward
      BY <2>6 DEF BatchRead, Batches, JobKind, PredictLock, Forced, Forward
    <3> QED BY <2>0, <3>1, <3>2 DEF Polls
  <2>7. CASE CountEvidence(k)
    <3>1. PICK v : Begin(k, Opened("recompute", "versioning", {}, v))
      BY <2>7 DEF CountEvidence
    <3>2. job[k] = NoJob /\ "recompute" \in JobKind /\ "recompute" \notin PredictLock \cup Forced \cup Forward
      BY <2>7 DEF CountEvidence, JobKind, PredictLock, Forced, Forward
    <3>3. job'[k] = Opened("recompute", "versioning", {}, v)
      BY <2>0, <3>1
    <3> QED BY <3>2, <3>3 DEF Polls
  <2>8. CASE GradeStore(k) \/ BatchStore(k) \/ AddProfile(k) \/ GiveUp(k)
    BY <2>a, <2>8 DEF GradeStore, BatchStore, AddProfile, GiveUp
  <2> QED BY <1>3, <2>1, <2>2, <2>3, <2>4, <2>5, <2>6, <2>7, <2>8 DEF Step
<1> QED BY <1>1, <1>2, <1>3 DEF Next

-----------------------------------------------------------------------------
(* How a row moves *)

\* the baselines rewrite one of theirs, or add one
Baselined(i) ==
  /\ preds'[i] \in Row /\ preds'[i].model = "baseline" /\ ~ preds'[i].backfill
  /\ preds[i] # NoRow => preds'[i].fixture = preds[i].fixture /\ preds[i].model = "baseline"
  /\ UNCHANGED <<played, status, job>>
  /\ grade'[i] = {}

\* a batch rewrites one of its model, or adds one
Batched(j, i) ==
  /\ At(j, "polling")
  /\ preds'[i] \in Row /\ preds'[i].model = "batch"
  /\ preds'[i].backfill = (job[j].kind = "batch_backfill")
  /\ preds[i] # NoRow => preds'[i].fixture = preds[i].fixture /\ preds[i].model = "batch"
  /\ UNCHANGED <<played, status, grade>>
  /\ \A k \in Job : k # j => job'[k] = job[k]

\* predict_fixture overwrites the row it loaded, or adds one
Attempted(j, i) ==
  /\ At(j, "searching") /\ ~ At(j, "searching")'
  /\ UNCHANGED <<played, status, grade>>
  /\ \A k \in Job : k # j => job'[k] = job[k]
  /\ preds'[i] \in Row
  /\ \E f \in Fixture, out \in Outputs :
       LET new == NewRow(f, "llm", job[j].version, job[j].kind \in Forced, out, {out}) IN
         /\ job[j].over = {f}
         /\ \/ /\ i \in job[j].target /\ preds[i] # NoRow
               /\ preds'[i] = Overwrite(preds[i], job[j].view[i], new)
            \/ preds[i] = NoRow /\ preds'[i] = new

LEMMA AttemptMoves ==
  ASSUME IInv, NEW j \in Job, PredictStore(j), NEW i \in RowId
  PROVE  preds'[i] = preds[i] \/ Attempted(j, i)
<1>1. TypeOK /\ At(j, "searching") /\ job[j] # NoJob /\ job[j].at = "searching" /\ SessionSound(j)
  BY DEF IInv, PredictStore, At
<1>2. PICK f \in Fixture : job[j].over = {f}
  BY <1>1 DEF SessionSound
<1>3. UNCHANGED <<played, status, grade>>
  BY DEF PredictStore
<1>a. \A k \in Job : k # j => job'[k] = job[k]
  BY <1>1, StepFrame DEF Step
<1>b. preds'[i] = preds[i] \/ preds'[i] \in Row
  BY <1>1, AttemptRows
<1>4. ~ At(j, "searching")'
  <2>1. Done(j) \/ Begin(j, Opened(job[j].kind, "drop", job[j].over, 0))
    BY <1>1, AttemptRows
  <2>2. CASE Done(j)
    BY <1>1, <2>2, DoneFrame DEF At
  <2>3. CASE Begin(j, Opened(job[j].kind, "drop", job[j].over, 0))
    <3>1. job'[j] = Opened(job[j].kind, "drop", job[j].over, 0)
      BY <1>1, <2>3, BeginFrame
    <3>2. job'[j].at = "drop"
      BY <3>1 DEF Opened
    <3> QED BY <3>2 DEF At
  <2> QED BY <2>1, <2>2, <2>3
<1>5. PICK out \in Outputs :
        LET new == NewRow(f, "llm", job[j].version, job[j].kind \in Forced, out, {out}) IN
          \/ \E k \in job[j].target : Store(j, k, Overwrite(preds[k], job[j].view[k], new))
          \/ \E k \in RowId \ Stored : Store(j, k, new)
  BY <1>2 DEF PredictStore
<1> DEFINE new == NewRow(f, "llm", job[j].version, job[j].kind \in Forced, out, {out})
<1>6. \A k, row : Store(j, k, row) => preds' = preds \/ preds' = [preds EXCEPT ![k] = row]
  BY DEF Store
<1>7. preds \in [RowId -> Row \cup {NoRow}]
  BY <1>1 DEF TypeOK
<1> SUFFICES ASSUME preds'[i] # preds[i] PROVE Attempted(j, i)
  OBVIOUS
<1>8. CASE \E k \in job[j].target : Store(j, k, Overwrite(preds[k], job[j].view[k], new))
  <2> HIDE DEF new
  <2>1. PICK k \in job[j].target : Store(j, k, Overwrite(preds[k], job[j].view[k], new))
    BY <1>8
  <2>2. preds' = [preds EXCEPT ![k] = Overwrite(preds[k], job[j].view[k], new)]
    BY <1>6, <2>1
  <2>3. k = i /\ preds'[i] = Overwrite(preds[i], job[j].view[i], new)
    BY <1>7, <2>2
  <2>4. i \in job[j].target /\ preds[i] # NoRow
    BY <1>1, <2>1, <2>3 DEF SessionSound, Stored
  <2> QED BY <1>1, <1>2, <1>3, <1>4, <1>a, <1>b, <2>3, <2>4 DEF Attempted, new
<1>9. CASE \E k \in RowId \ Stored : Store(j, k, new)
  <2> HIDE DEF new
  <2>1. PICK k \in RowId \ Stored : Store(j, k, new)
    BY <1>9
  <2>2. preds' = [preds EXCEPT ![k] = new]
    BY <1>6, <2>1
  <2>3. k = i /\ preds'[i] = new
    BY <1>7, <2>2
  <2>4. preds[i] = NoRow
    BY <2>1, <2>3 DEF Stored
  <2> QED BY <1>1, <1>2, <1>3, <1>4, <1>a, <1>b, <2>3, <2>4 DEF Attempted, new
<1> QED BY <1>5, <1>8, <1>9

LEMMA RowMoves ==
  ASSUME IInv, [Next]_vars, NEW i \in RowId
  PROVE  \/ preds'[i] = preds[i] \/ Baselined(i)
         \/ \E j \in Job : Batched(j, i) \/ Attempted(j, i)
<1>1. TypeOK /\ \A j \in Job : job[j] # NoJob => SessionSound(j)
  BY DEF IInv
<1>2. CASE RefreshBaselines
  <2>1. UNCHANGED <<played, status, job>>
    BY <1>2 DEF RefreshBaselines
  <2>2. preds'[i] \in Row /\ preds'[i].model = "baseline" => grade'[i] = {}
    BY <1>2, ModelFacts DEF RefreshBaselines
  <2> QED BY <1>1, <1>2, <2>1, <2>2, BaselineRows DEF Baselined
<1>3. ASSUME NEW j \in Job, BatchStore(j) PROVE preds'[i] = preds[i] \/ Batched(j, i)
  <2>1. At(j, "polling") /\ UNCHANGED <<played, status, grade>>
    BY <1>3 DEF BatchStore
  <2>2. \A k \in Job : k # j => job'[k] = job[k]
    BY <1>3, StepFrame DEF Step
  <2> QED BY <1>1, <1>3, <2>1, <2>2, BatchRows DEF Batched
<1>4. CASE UNCHANGED vars \/ \E f \in Fixture : KickOff(f) \/ Sync(f)
  BY <1>4 DEF vars, KickOff, Sync
<1>5. ASSUME NEW j \in Job,
             \/ StartOne(j) \/ PredictRead(j) \/ DropGrades(j) \/ GradeRead(j) \/ GradeStore(j)
             \/ BatchRead(j) \/ CountEvidence(j) \/ AddProfile(j) \/ GiveUp(j)
      PROVE  UNCHANGED preds
  BY <1>5 DEF StartOne, PredictRead, DropGrades, GradeRead, GradeStore, BatchRead,
     CountEvidence, AddProfile, GiveUp
<1>6. ASSUME NEW j \in Job, PredictStore(j) PROVE preds'[i] = preds[i] \/ Attempted(j, i)
  BY <1>6, AttemptMoves
<1> QED BY <1>2, <1>3, <1>4, <1>5, <1>6 DEF Next, Step

\* a Grade stays, goes, or is given to a row its session loaded
LEMMA GradeMoves ==
  ASSUME IInv, [Next]_vars, NEW i \in RowId
  PROVE  \/ grade'[i] \in {grade[i], {}}
         \/ /\ preds' = preds
            /\ \E j \in Job : /\ At(j, "grading") /\ i \in Seen(j)
                             /\ grade'[i] = {Scoreline(job[j].view[i])}
<1>1. TypeOK
  BY DEF IInv
<1>2. CASE RefreshBaselines
  BY <1>2 DEF RefreshBaselines
<1>3. ASSUME NEW j \in Job, DropGrades(j) PROVE grade'[i] \in {grade[i], {}}
  BY <1>3 DEF DropGrades
<1>4. ASSUME NEW j \in Job, GradeStore(j)
      PROVE  \/ grade'[i] = grade[i]
             \/ /\ preds' = preds /\ At(j, "grading") /\ i \in Seen(j)
                /\ grade'[i] = {Scoreline(job[j].view[i])}
  BY <1>4 DEF GradeStore
<1>5. CASE UNCHANGED vars \/ \E f \in Fixture : KickOff(f) \/ Sync(f)
  BY <1>5 DEF vars, KickOff, Sync
<1>6. ASSUME NEW j \in Job,
             \/ StartOne(j) \/ PredictRead(j) \/ PredictStore(j) \/ GradeRead(j) \/ BatchRead(j)
             \/ BatchStore(j) \/ CountEvidence(j) \/ AddProfile(j) \/ GiveUp(j)
      PROVE  UNCHANGED grade
  BY <1>6 DEF StartOne, PredictRead, PredictStore, GradeRead, BatchRead,
     BatchStore, CountEvidence, AddProfile, GiveUp
<1> QED BY <1>2, <1>3, <1>4, <1>5, <1>6 DEF Next, Step

-----------------------------------------------------------------------------
(* The answers and the flags, while predictions are made by runs *)

LEMMA Predicting ==
  ASSUME EInv, RunsOnly, NEW j \in Job, NEW i, Attempted(j, i)
  PROVE  /\ job[j] # NoJob /\ job[j].at = "searching" /\ SessionSound(j) /\ ViewSound(j)
         /\ job[j].kind \in {"predict", "backfill"}
<1>1. job[j] # NoJob /\ job[j].at = "searching" /\ SessionSound(j) /\ ViewSound(j)
  BY DEF EInv, IInv, Attempted, At
<1> QED BY <1>1 DEF SessionSound, RunsOnly, ManagedOnly, Forced, Forward

\* an attempt of another session needs the lock this one holds
LEMMA AttemptAlone ==
  ASSUME EInv, RunsOnly, NEW j \in Job, NEW i, Attempted(j, i), NEW k \in Job,
         job'[k] = job[k], job[k] # NoJob, job[k].at = "searching" \/ job[k].kind = "predict"
  PROVE  FALSE
<1>1. job[j] # NoJob /\ job[j].kind \in PredictLock
  BY Predicting DEF PredictLock
<1>2. job[k].kind \in PredictLock
  BY DEF EInv, IInv, SessionSound, RunsOnly, ManagedOnly, Forced, Forward, PredictLock
<1>3. j = k
  BY <1>1, <1>2 DEF EInv, Mutex
<1> QED BY <1>3 DEF Attempted, At

\* what an attempt writes is a row of the model, flagged if it is a backfill's
LEMMA AttemptWrites ==
  ASSUME EInv, RunsOnly, NEW j \in Job, NEW i \in RowId, Attempted(j, i)
  PROVE  /\ preds'[i].model = "llm" /\ preds'[i].fixture \in job[j].over
         /\ preds'[i].backfill = (job[j].kind = "backfill")
<1>1. /\ job[j] # NoJob /\ job[j].at = "searching" /\ SessionSound(j) /\ ViewSound(j)
      /\ job[j].kind \in {"predict", "backfill"}
  BY Predicting
<1>2. PICK f \in Fixture, out \in Outputs :
        LET new == NewRow(f, "llm", job[j].version, job[j].kind \in Forced, out, {out}) IN
          /\ job[j].over = {f}
          /\ \/ /\ i \in job[j].target /\ preds[i] # NoRow
                /\ preds'[i] = Overwrite(preds[i], job[j].view[i], new)
             \/ preds[i] = NoRow /\ preds'[i] = new
  BY DEF Attempted
<1> DEFINE b == job[j].kind \in Forced
           new == NewRow(f, "llm", job[j].version, b, out, {out})
<1>3. new.model = "llm" /\ new.fixture = f /\ new.backfill = b
  BY DEF NewRow
<1>4. b = (job[j].kind = "backfill")
  BY <1>1 DEF Forced
<1> HIDE DEF new
<1>5. CASE i \in job[j].target /\ preds'[i] = Overwrite(preds[i], job[j].view[i], new)
  <2> DEFINE loaded == job[j].view[i]
  <2>1. preds[i].model = loaded.model /\ preds[i].backfill = loaded.backfill
    BY <1>1, <1>5 DEF ViewSound
  <2>2. preds[i].fixture \in job[j].over
    BY <1>1, <1>5 DEF SessionSound
  <2>3. /\ preds'[i].fixture = preds[i].fixture
        /\ preds'[i].model = IF new.model = loaded.model THEN preds[i].model ELSE new.model
        /\ preds'[i].backfill = IF new.backfill = loaded.backfill THEN preds[i].backfill ELSE new.backfill
    BY <1>5 DEF Overwrite, Column
  <2> QED BY <1>3, <1>4, <2>1, <2>2, <2>3
<1>6. CASE preds'[i] = new
  BY <1>2, <1>3, <1>4, <1>6
<1> QED BY <1>2, <1>5, <1>6 DEF new

\* a forward attempt writes its whole answer, on a row nobody graded
LEMMA ForwardWrites ==
  ASSUME EInv, RunsOnly, NEW j \in Job, NEW i \in RowId, Attempted(j, i), job[j].kind = "predict"
  PROVE  /\ preds'[i].snap = {[ok |-> preds'[i].ok, home |-> preds'[i].home, away |-> preds'[i].away]}
         /\ grade[i] = {}
         /\ preds[i] # NoRow => preds[i].model = "llm" /\ ~ preds[i].backfill /\ ~ preds[i].ok
<1>1. /\ job[j] # NoJob /\ job[j].at = "searching" /\ SessionSound(j) /\ ViewSound(j)
  BY Predicting
<1>2. PICK f \in Fixture, out \in Outputs :
        LET new == NewRow(f, "llm", job[j].version, job[j].kind \in Forced, out, {out}) IN
          /\ job[j].over = {f}
          /\ \/ /\ i \in job[j].target /\ preds[i] # NoRow
                /\ preds'[i] = Overwrite(preds[i], job[j].view[i], new)
             \/ preds[i] = NoRow /\ preds'[i] = new
  BY DEF Attempted
<1> DEFINE new == NewRow(f, "llm", job[j].version, job[j].kind \in Forced, out, {out})
<1>3. /\ new.ok = out.ok /\ new.home = out.home /\ new.away = out.away /\ new.snap = {out}
  BY DEF NewRow
<1>4. out = [ok |-> out.ok, home |-> out.home, away |-> out.away]
  <2>1. out \in Output
    BY OutputsType
  <2> QED BY <2>1 DEF Output
<1>5. preds[i] = NoRow => grade[i] = {}
  BY DEF EInv, IInv, GradesHaveResults, Stored
<1> HIDE DEF new
<1>6. CASE /\ i \in job[j].target /\ preds[i] # NoRow
           /\ preds'[i] = Overwrite(preds[i], job[j].view[i], new)
  <2>1. preds[i] = job[j].view[i] /\ preds[i].model = "llm"
    BY <1>1, <1>6 DEF ViewSound
  <2>2. /\ preds'[i].ok = new.ok /\ preds'[i].home = new.home /\ preds'[i].away = new.away
        /\ preds'[i].snap = new.snap
    BY <1>6, <2>1 DEF Overwrite, Column
  <2>3. i \in Stored /\ preds[i].fixture = f /\ i \in RowsOf(f)
    BY <1>1, <1>2, <1>6 DEF SessionSound, Stored, RowsOf
  <2>4. ~ preds[i].backfill
    BY <1>1, <1>2, <2>1, <2>3 DEF ViewSound
  <2>5. AlreadyOk(f) = {}
    BY <1>1, <1>2 DEF EInv, IInv, RunsOnly, LockSound, At, Forced
  <2>6. ~ preds[i].ok
    BY <2>1, <2>3, <2>5 DEF AlreadyOk
  <2>7. grade[i] = {}
    BY <2>1, <2>3, <2>4, <2>6 DEF EInv, AnswersSound
  <2> QED BY <1>3, <1>4, <2>1, <2>2, <2>4, <2>6, <2>7
<1>7. CASE preds[i] = NoRow /\ preds'[i] = new
  BY <1>3, <1>4, <1>5, <1>7
<1> QED BY <1>2, <1>6, <1>7 DEF new

LEMMA PlayedGrows == ASSUME [Next]_vars PROVE played \subseteq played'
BY DEF Next, vars, Step, KickOff, Sync, RefreshBaselines, StartOne, PredictRead, PredictStore,
   DropGrades, GradeRead, GradeStore, BatchRead, BatchStore, CountEvidence, AddProfile, GiveUp

LEMMA StatusStep ==
  ASSUME TypeOK, [Next]_vars, \A f \in Fixture : status[f] = "finished" => f \in played
  PROVE  \A f \in Fixture : status'[f] = "finished" => f \in played'
<1>1. CASE UNCHANGED status
  BY <1>1, PlayedGrows
<1>2. ASSUME NEW f \in Fixture, Sync(f)
      PROVE  \A g \in Fixture : status'[g] = "finished" => g \in played'
  BY <1>2 DEF Sync, TypeOK
<1> QED BY <1>1, <1>2 DEF Next, vars, Step, KickOff, RefreshBaselines, StartOne, PredictRead,
   PredictStore, DropGrades, GradeRead, GradeStore, BatchRead, BatchStore, CountEvidence,
   AddProfile, GiveUp

LEMMA FlagsStep == ASSUME EInv, RunsOnly, [Next]_vars PROVE FlagsSound'
<1>1. TypeOK /\ IInv /\ FlagsSound
  BY DEF EInv, IInv
<1>2. \A f \in Fixture : status'[f] = "finished" => f \in played'
  BY <1>1, StatusStep DEF FlagsSound
<1> SUFFICES ASSUME NEW i \in RowId, preds'[i] # NoRow
             PROVE  /\ preds'[i].model = "baseline" => ~ preds'[i].backfill
                    /\ preds'[i].model = "batch" =>
                         /\ Kinds \cap Batches # {}
                         /\ preds'[i].backfill = ("batch_backfill" \in Kinds)
                    /\ preds'[i].model = "llm" /\ preds'[i].backfill => preds'[i].fixture \in played'
  BY <1>2 DEF FlagsSound, Stored
<1>3. CASE preds'[i] = preds[i]
  BY <1>1, <1>3, PlayedGrows DEF FlagsSound, Stored
<1>4. CASE Baselined(i)
  BY <1>4 DEF Baselined
<1>5. ASSUME NEW j \in Job, Batched(j, i)
      PROVE  Kinds \cap Batches # {} /\ preds'[i].backfill = ("batch_backfill" \in Kinds)
             /\ preds'[i].model = "batch"
  <2>1. job[j].kind \in Kinds \cap Batches
    BY <1>5 DEF Batched, At, EInv, IInv, SessionSound, ViewSound
  <2> QED BY <1>5, <2>1 DEF Batched, Batches, RunsOnly
<1>6. ASSUME NEW j \in Job, Attempted(j, i)
      PROVE  preds'[i].model = "llm" /\ (preds'[i].backfill => preds'[i].fixture \in played')
  <2>1. job[j] # NoJob /\ ViewSound(j)
    BY <1>6, Predicting
  <2>2. played' = played
    BY <1>6 DEF Attempted
  <2> QED BY <1>6, <2>1, <2>2, AttemptWrites DEF ViewSound
<1> QED BY <1>1, <1>3, <1>4, <1>5, <1>6, RowMoves

LEMMA AnswersStep == ASSUME EInv, RunsOnly, [Next]_vars PROVE AnswersSound'
<1>1. IInv /\ AnswersSound
  BY DEF EInv
<1> SUFFICES ASSUME NEW i \in RowId, preds'[i] # NoRow,
                    preds'[i].model = "llm", ~ preds'[i].backfill
             PROVE  /\ preds'[i].snap =
                          {[ok |-> preds'[i].ok, home |-> preds'[i].home, away |-> preds'[i].away]}
                    /\ grade'[i] # {} => preds'[i].ok /\ grade'[i] = {Scoreline(preds'[i])}
  BY DEF AnswersSound, Stored, Scoreline
<1>2. CASE preds'[i] = preds[i]
  <2>1. ASSUME NEW j \in Job, At(j, "grading"), i \in Seen(j)
        PROVE  preds[i].ok /\ preds[i] = job[j].view[i]
    BY <1>2, <2>1 DEF EInv, ViewSound, At
  <2>2. preds[i].snap = {[ok |-> preds[i].ok, home |-> preds[i].home, away |-> preds[i].away]}
        /\ (grade[i] # {} => preds[i].ok /\ grade[i] = {Scoreline(preds[i])})
    BY <1>1, <1>2 DEF AnswersSound, Stored
  <2> QED BY <1>1, <1>2, <2>1, <2>2, GradeMoves
<1>3. CASE Baselined(i)
  BY <1>3 DEF Baselined
<1>4. ASSUME NEW j \in Job, Batched(j, i) PROVE FALSE
  BY <1>4 DEF Batched
<1>5. ASSUME NEW j \in Job, Attempted(j, i)
      PROVE  /\ preds'[i].snap =
                   {[ok |-> preds'[i].ok, home |-> preds'[i].home, away |-> preds'[i].away]}
             /\ grade'[i] = {}
  <2>1. job[j].kind = "predict"
    BY <1>5, Predicting, AttemptWrites
  <2>2. grade' = grade
    BY <1>5 DEF Attempted
  <2> QED BY <1>5, <2>1, <2>2, ForwardWrites
<1> QED BY <1>1, <1>2, <1>3, <1>4, <1>5, RowMoves

\* a row that stays, or one that no attempt wrote, is no worse for the session
LEMMA ViewKept ==
  ASSUME EInv, RunsOnly, [Next]_vars, NEW k \in Job, job[k] # NoJob, job'[k] = job[k]
  PROVE  ViewSound(k)'
<1>1. TypeOK /\ FlagsSound /\ SessionSound(k) /\ ViewSound(k) /\ IInv
  BY DEF EInv, IInv
<1>2. job[k] \in Session /\ job[k].over \subseteq Fixture /\ job[k].target \subseteq RowId
  BY <1>1 DEF TypeOK, Session
<1>3. Seen(k)' = Seen(k) /\ played \subseteq played'
  BY PlayedGrows DEF Seen
<1>4. ASSUME job[k].kind = "predict", job[k].at \in {"queued", "searching"},
             NEW f \in job[k].over, NEW i \in RowsOf(f)', preds'[i].model = "llm"
      PROVE  ~ preds'[i].backfill
  <2>1. i \in RowId /\ preds'[i] # NoRow /\ preds'[i].fixture = f
    BY DEF RowsOf, Stored
  <2>2. CASE preds'[i] = preds[i]
    <3>1. i \in RowsOf(f) /\ preds[i].model = "llm"
      BY <1>4, <2>1, <2>2 DEF RowsOf, Stored
    <3> QED BY <1>1, <1>4, <2>2, <3>1 DEF ViewSound
  <2>3. CASE Baselined(i) \/ \E j \in Job : Batched(j, i)
    BY <1>4, <2>3 DEF Baselined, Batched
  <2>4. ASSUME NEW j \in Job, Attempted(j, i) PROVE FALSE
    BY <1>4, <2>4, AttemptAlone
  <2> QED BY <1>1, <2>1, <2>2, <2>3, <2>4, RowMoves
<1>5. ASSUME job[k].at = "searching", NEW i \in job[k].target
      PROVE  LET loaded == job[k].view[i] IN
               /\ preds'[i].model = loaded.model /\ preds'[i].backfill = loaded.backfill
               /\ job[k].kind = "predict" => loaded.model = "llm"
               /\ loaded.model = "llm" => preds'[i] = loaded
  <2> DEFINE loaded == job[k].view[i]
  <2>1. i \in RowId /\ i \in Stored /\ preds[i] # NoRow
    BY <1>1, <1>2, <1>5 DEF SessionSound, Stored
  <2>2. /\ preds[i].model = loaded.model /\ preds[i].backfill = loaded.backfill
        /\ job[k].kind = "predict" => loaded.model = "llm"
        /\ loaded.model = "llm" => preds[i] = loaded
    BY <1>1, <1>5 DEF ViewSound
  <2> HIDE DEF loaded
  <2>3. CASE Baselined(i)
    <3>1. preds[i].model = "baseline" /\ ~ preds[i].backfill /\ preds[i].backfill \in BOOLEAN
      BY <1>1, <2>1, <2>3 DEF Baselined, FlagsSound, TypeOK, Row
    <3>2. preds'[i].model = "baseline" /\ ~ preds'[i].backfill /\ preds'[i].backfill \in BOOLEAN
      BY <2>3 DEF Baselined, Row
    <3>3. preds'[i].backfill = preds[i].backfill
      BY <3>1, <3>2
    <3> QED BY <2>2, <3>1, <3>2, <3>3 DEF loaded
  <2>4. ASSUME NEW j \in Job, Batched(j, i)
        PROVE  preds'[i].model = "batch" /\ preds[i].model = "batch"
               /\ preds'[i].backfill = preds[i].backfill
    <3>1. job[j].kind \in Kinds \cap Batches
      BY <2>4 DEF Batched, At, EInv, IInv, SessionSound, ViewSound
    <3>2. preds[i].model = "batch" /\ preds'[i].model = "batch"
      BY <2>1, <2>4 DEF Batched
    <3>3. preds[i].backfill = ("batch_backfill" \in Kinds)
      BY <1>1, <2>1, <3>2 DEF FlagsSound
    <3> QED BY <2>4, <3>1, <3>2, <3>3 DEF Batched, Batches, RunsOnly
  <2>5. ASSUME NEW j \in Job, Attempted(j, i) PROVE FALSE
    BY <1>5, <2>5, AttemptAlone
  <2> QED BY <1>1, <2>1, <2>2, <2>3, <2>4, <2>5, RowMoves DEF loaded
<1>6. ASSUME job[k].at = "grading", NEW i \in Seen(k), preds'[i].model = "llm", ~ preds'[i].backfill
      PROVE  preds'[i].ok /\ preds'[i] = job[k].view[i]
  <2>1. i \in RowId /\ i \in Stored /\ preds[i] # NoRow
    BY <1>1, <1>6 DEF SessionSound, Stored
  <2>2. CASE preds'[i] = preds[i]
    BY <1>1, <1>6, <2>2 DEF ViewSound
  <2>3. CASE Baselined(i) \/ \E j \in Job : Batched(j, i)
    BY <1>6, <2>3 DEF Baselined, Batched
  <2>4. ASSUME NEW j \in Job, Attempted(j, i) PROVE FALSE
    <3>1. job[j].kind = "predict"
      BY <1>6, <2>1, <2>4, Predicting, AttemptWrites
    <3>2. preds[i].model = "llm" /\ ~ preds[i].backfill /\ ~ preds[i].ok
      BY <2>1, <2>4, <3>1, ForwardWrites
    <3> QED BY <1>1, <1>6, <3>2 DEF ViewSound
  <2> QED BY <1>1, <2>1, <2>2, <2>3, <2>4, RowMoves
<1>7. job[k].kind = "backfill" => job[k].over \subseteq played'
  BY <1>1, <1>3 DEF ViewSound
<1>8. job[k].at = "polling" => job[k].kind \in Batches
  BY <1>1 DEF ViewSound
<1> QED BY <1>3, <1>4, <1>5, <1>6, <1>7, <1>8 DEF ViewSound

LEMMA OnlyRows ==
  ASSUME NEW S \in SUBSET RowId, NEW i \in RowId
  PROVE  Only(S)[i] = IF i \in S THEN preds[i] ELSE NoRow
BY DEF Only

LEMMA ViewsStep ==
  ASSUME EInv, RunsOnly, [Next]_vars, NEW k \in Job, job'[k] # NoJob PROVE ViewSound(k)'
<1>1. TypeOK /\ FlagsSound /\ IInv /\ (job[k] # NoJob => SessionSound(k) /\ ViewSound(k))
  BY DEF EInv, IInv
<1>2. played \subseteq played'
  BY PlayedGrows
<1>3. CASE job'[k] = job[k]
  BY <1>3, ViewKept
<1>4. CASE Starts(k)
  <2>1. PICK c \in Kinds \ {"baselines"}, f \in Fixture :
          /\ Eligible(c, f)
          /\ job'[k] = Opened(c, IF c \in Forced \cup Forward THEN "queued" ELSE "regrade", {f}, 0)
    BY <1>4 DEF Starts
  <2>2. job'[k].kind = c /\ job'[k].over = {f} /\ job'[k].at \in {"queued", "regrade"}
    BY <2>1 DEF Opened
  <2>3. preds' = preds
    BY <1>4 DEF Starts
  <2>4. c = "backfill" => {f} \subseteq played'
    BY <1>1, <1>2, <2>1 DEF Eligible, FlagsSound
  <2>5. c = "predict" => \A i \in RowsOf(f) : preds[i].model = "llm" => ~ preds[i].backfill
    <3>1. c = "predict" => f \notin played
      BY <2>1 DEF Eligible
    <3> QED BY <1>1, <3>1 DEF FlagsSound, RowsOf
  <2>6. RowsOf(f)' = RowsOf(f)
    BY <2>3 DEF RowsOf, Stored
  <2> QED BY <2>2, <2>3, <2>4, <2>5, <2>6 DEF ViewSound
<1>5. CASE Searches(k)
  <2>1. PICK f \in Fixture, v \in 0..MaxVersion, T \in SUBSET RowId :
          /\ job[k].over = {f} /\ T = Target(f, job[k].kind \in Forced, v)
          /\ job'[k] = Loaded(job[k], "searching", T, T, FALSE, v)
    BY <1>5 DEF Searches
  <2>2. /\ job'[k].kind = job[k].kind /\ job'[k].over = {f} /\ job'[k].at = "searching"
        /\ job'[k].target = T /\ job'[k].view = Only(T)
    BY <2>1 DEF Loaded
  <2>3. preds' = preds /\ job[k] # NoJob /\ job[k].at = "queued" /\ RowsOf(f)' = RowsOf(f)
    BY <1>5 DEF Searches, At, RowsOf, Stored
  <2>4. ASSUME NEW i \in T
        PROVE  Only(T)[i] = preds[i] /\ (job[k].kind = "predict" => preds[i].model = "llm")
    <3>1. i \in RowId /\ Only(T)[i] = preds[i]
      BY OnlyRows
    <3>2. job[k].kind = "predict" => T = Current(f, "llm", v)
      BY <2>1 DEF Target, Forced
    <3> QED BY <3>1, <3>2 DEF Current
  <2>5. job[k].kind = "predict" => \A i \in RowsOf(f)' : preds'[i].model = "llm" => ~ preds'[i].backfill
    <3>1. job[k].kind = "predict" => \A i \in RowsOf(f) : preds[i].model = "llm" => ~ preds[i].backfill
      BY <1>1, <2>1, <2>3 DEF ViewSound
    <3> QED BY <2>3, <3>1
  <2>6. \A i \in T : LET loaded == job'[k].view[i] IN
          /\ preds'[i].model = loaded.model /\ preds'[i].backfill = loaded.backfill
          /\ job'[k].kind = "predict" => loaded.model = "llm"
          /\ loaded.model = "llm" => preds'[i] = loaded
    BY <2>2, <2>3, <2>4
  <2>7. job'[k].kind = "backfill" => job'[k].over \subseteq played'
    BY <1>1, <1>2, <2>1, <2>2, <2>3 DEF ViewSound
  <2> QED BY <2>2, <2>5, <2>6, <2>7 DEF ViewSound
<1>6. CASE Marks(k)
  <2>1. PICK f \in Fixture, b \in BOOLEAN : job'[k] = Loaded(job[k], "grading", {}, Ungraded(f), b, 0)
    BY <1>6 DEF Marks
  <2>2. /\ job'[k].kind = job[k].kind /\ job'[k].over = job[k].over /\ job'[k].at = "grading"
        /\ job'[k].view = Only(Ungraded(f))
    BY <2>1 DEF Loaded
  <2>3. preds' = preds /\ job[k] # NoJob
    BY <1>6 DEF Marks, At
  <2>4. ASSUME NEW i \in Seen(k)' PROVE preds'[i].ok /\ preds'[i] = job'[k].view[i]
    <3>1. i \in RowId /\ Only(Ungraded(f))[i] # NoRow
      BY <2>2 DEF Seen
    <3>2. i \in Ungraded(f)
      BY <3>1 DEF Only
    <3>3. preds[i].ok
      BY <3>2 DEF Ungraded
    <3>4. Only(Ungraded(f))[i] = preds[i]
      BY <3>1, <3>2 DEF Only
    <3> QED BY <2>2, <2>3, <3>3, <3>4
  <2> QED BY <1>1, <1>2, <2>2, <2>3, <2>4 DEF ViewSound
<1>7. CASE Proceeds(k)
  <2>1. PICK l \in {"drop", "regrade"} : job'[k] = Opened(job[k].kind, l, job[k].over, 0)
    BY <1>7 DEF Proceeds
  <2>2. job'[k].kind = job[k].kind /\ job'[k].over = job[k].over /\ job'[k].at \in {"drop", "regrade"}
    BY <2>1 DEF Opened
  <2>3. job[k] # NoJob
    BY <1>7 DEF Proceeds
  <2> QED BY <1>1, <1>2, <2>2, <2>3 DEF ViewSound
<1>8. CASE Polls(k)
  <2>1. PICK c \in JobKind, l \in {"polling", "versioning"} : \E S, v :
          /\ l = "polling" => c \in Batches
          /\ c \notin PredictLock \cup Forced \cup Forward
          /\ job'[k] = Opened(c, l, S, v)
    BY <1>8 DEF Polls
  <2>2. job'[k].kind = c /\ job'[k].at = l /\ c \notin {"predict", "backfill"}
    BY <2>1 DEF Opened, PredictLock
  <2> QED BY <2>1, <2>2 DEF ViewSound
<1> QED BY <1>1, <1>3, <1>4, <1>5, <1>6, <1>7, <1>8, SessionMoves

LEMMA EInvInit == Init => EInv
<1> SUFFICES ASSUME Init PROVE EInv
  OBVIOUS
<1>1. IInv
  BY InvInit
<1>2. Stored = {} /\ (\A j \in Job : job[j] = NoJob) /\ \A f \in Fixture : status[f] = "scheduled"
  BY DEF Init, Stored, Blank
<1> QED BY <1>1, <1>2 DEF EInv, Mutex, FlagsSound, AnswersSound

LEMMA EInvStep == EInv /\ [Next]_vars => EInv'
<1> SUFFICES ASSUME EInv, [Next]_vars PROVE EInv'
  OBVIOUS
<1>1. IInv' /\ Mutex'
  BY InvStep, MutexStep DEF EInv
<1>2. ASSUME RunsOnly
      PROVE  FlagsSound' /\ AnswersSound' /\ \A j \in Job : job'[j] # NoJob => ViewSound(j)'
  BY <1>2, FlagsStep, AnswersStep, ViewsStep
<1> QED BY <1>1, <1>2 DEF EInv, RunsOnly, ManagedOnly

LEMMA EvidenceInvariance == Spec => []EInv
BY EInvInit, EInvStep, PTL DEF Spec

(***************************************************************************)
(* While predictions are made by runs, a row calibration_service.py counts *)
(* (load_graded) shows the scoreline the model answered on the evidence    *)
(* the row cites, and its Grade scored that scoreline: predict_fixture's   *)
(* UPDATE leaves no half of an older answer in it, what a backfill rewrote *)
(* carries its flag, and nothing else is rewritten under a grading.        *)
(***************************************************************************)
THEOREM EvidenceTheorem == RunsOnly => (Spec => []EvidenceIsTheModels)
<1>1. SUFFICES ASSUME RunsOnly PROVE Spec => []EvidenceIsTheModels
  OBVIOUS
<1>2. EInv => EvidenceIsTheModels
  <2> SUFFICES ASSUME EInv, NEW i \in Evidence, preds[i].model = "llm"
               PROVE  /\ preds[i].snap = {[ok |-> TRUE, home |-> preds[i].home, away |-> preds[i].away]}
                      /\ grade[i] = {Scoreline(preds[i])}
    BY DEF EvidenceIsTheModels
  <2>1. i \in RowId /\ i \in Stored /\ ~ preds[i].backfill /\ grade[i] # {}
    BY DEF Evidence, Stored
  <2>2. preds[i].ok /\ preds[i].ok \in BOOLEAN
    BY <1>1, <2>1 DEF EInv, IInv, TypeOK, AnswersSound, Stored, Row
  <2>3. preds[i].ok = TRUE
    BY <2>2
  <2> QED BY <1>1, <2>1, <2>3 DEF EInv, AnswersSound
<1> QED BY <1>2, EvidenceInvariance, PTL

-----------------------------------------------------------------------------
(* Retries, whoever presses the predict button meanwhile *)

LEMMA Retrying ==
  ASSUME RInv, NoCliBackfill, NEW j \in Job, NEW i, Attempted(j, i)
  PROVE  /\ job[j] # NoJob /\ job[j].at = "searching" /\ SessionSound(j) /\ RetrySound(j)
         /\ job[j].kind \in {"predict", "backfill", "button"}
<1>1. job[j] # NoJob /\ job[j].at = "searching" /\ SessionSound(j) /\ RetrySound(j)
  BY DEF RInv, IInv, Attempted, At
<1> QED BY <1>1 DEF SessionSound, NoCliBackfill, Forced, Forward

\* next to a backfill only the predict button writes, and it makes no row its own
LEMMA ButtonWrites ==
  ASSUME RInv, NoCliBackfill, NEW j \in Job, NEW i \in RowId, Attempted(j, i), preds[i] # NoRow,
         job[j].kind \in Forward
  PROVE  /\ preds'[i].model = preds[i].model /\ preds'[i].fixture = preds[i].fixture
         /\ preds[i].backfill \in BOOLEAN /\ (~ preds[i].backfill => ~ preds'[i].backfill)
         /\ preds[i].ok => preds'[i].ok
<1>1. /\ job[j] # NoJob /\ job[j].at = "searching" /\ SessionSound(j) /\ RetrySound(j)
  BY Retrying
<1>2. PICK f \in Fixture, out \in Outputs :
        /\ i \in job[j].target
        /\ preds'[i] = Overwrite(preds[i], job[j].view[i],
                         NewRow(f, "llm", job[j].version, job[j].kind \in Forced, out, {out}))
  BY DEF Attempted
<1> DEFINE new == NewRow(f, "llm", job[j].version, job[j].kind \in Forced, out, {out})
           loaded == job[j].view[i]
<1>3. new.model = "llm" /\ new.ok = out.ok /\ ~ new.backfill
  BY DEF NewRow, Forced, Forward
<1>4. loaded.model = "llm" /\ ~ loaded.ok
  BY <1>1, <1>2 DEF RetrySound
<1>5. preds[i] \in Row /\ out \in Output
  BY OutputsType DEF RInv, IInv, TypeOK
<1>6. i \in Seen(j) /\ job[j] \in Session
  BY <1>1, <1>2, OpenSession DEF SessionSound, RInv, IInv, Attempted
<1>7. loaded \in Row
  BY <1>6 DEF Seen, Session
<1> HIDE DEF new, loaded
<1>8. /\ preds'[i].fixture = preds[i].fixture
      /\ preds'[i].model = IF new.model = loaded.model THEN preds[i].model ELSE new.model
      /\ preds'[i].backfill = IF new.backfill = loaded.backfill THEN preds[i].backfill ELSE new.backfill
      /\ preds'[i].ok = IF new.ok = loaded.ok THEN preds[i].ok ELSE new.ok
  BY <1>2 DEF Overwrite, Column, new, loaded
<1>9. preds[i].ok \in BOOLEAN /\ preds[i].backfill \in BOOLEAN /\ out.ok \in BOOLEAN
      /\ loaded.ok \in BOOLEAN
  BY <1>5, <1>7 DEF Row, Output
<1> QED BY <1>3, <1>4, <1>8, <1>9

\* a second backfill, or a predict run, needs the lock the first one holds
LEMMA BackfillAlone ==
  ASSUME RInv, NoCliBackfill, NEW j \in Job, NEW i, Attempted(j, i), NEW k \in Job,
         job'[k] = job[k], job[k] # NoJob, job[k].kind = "backfill"
  PROVE  job[j].kind \in Forward
<1>1. job[j] # NoJob /\ job[j].kind \in {"predict", "backfill", "button"}
  BY Retrying
<1>2. job[j].kind \in PredictLock => j = k
  BY <1>1 DEF RInv, Mutex, PredictLock
<1>3. j # k
  BY DEF Attempted, At
<1> QED BY <1>1, <1>2, <1>3 DEF PredictLock, Forward

LEMMA RetryKept ==
  ASSUME RInv, NoCliBackfill, [Next]_vars, NEW k \in Job, job[k] # NoJob, job'[k] = job[k]
  PROVE  RetrySound(k)'
<1>1. TypeOK /\ SessionSound(k) /\ RetrySound(k) /\ IInv
  BY DEF RInv, IInv
<1>2. job[k] \in Session /\ job[k].over \subseteq Fixture /\ job[k].target \subseteq RowId
  BY <1>1 DEF TypeOK, Session
<1>3. ASSUME job[k].kind = "backfill", job[k].at = "queued",
             NEW f \in job[k].over, NEW i \in RowsOf(f)', preds'[i].model = "llm"
      PROVE  ~ preds'[i].backfill
  <2>1. i \in RowId /\ preds'[i] # NoRow /\ preds'[i].fixture = f
    BY DEF RowsOf, Stored
  <2>2. CASE preds'[i] = preds[i]
    <3>1. i \in RowsOf(f) /\ preds[i].model = "llm"
      BY <1>3, <2>1, <2>2 DEF RowsOf, Stored
    <3> QED BY <1>1, <1>3, <2>2, <3>1 DEF RetrySound
  <2>3. CASE Baselined(i) \/ \E j \in Job : Batched(j, i)
    BY <1>3, <2>3 DEF Baselined, Batched
  <2>4. ASSUME NEW j \in Job, Attempted(j, i) PROVE ~ preds'[i].backfill
    <3>1. job[j].kind \in Forward
      BY <1>3, <2>4, BackfillAlone
    <3>2. CASE preds[i] = NoRow
      <4>1. PICK g \in Fixture, out \in Outputs :
              preds'[i] = NewRow(g, "llm", job[j].version, job[j].kind \in Forced, out, {out})
        BY <2>4, <3>2 DEF Attempted
      <4>2. job[j].kind \notin Forced
        BY <3>1 DEF Forced, Forward
      <4>3. ~ NewRow(g, "llm", job[j].version, job[j].kind \in Forced, out, {out}).backfill
        BY <4>2 DEF NewRow
      <4> QED BY <4>1, <4>3
    <3>3. CASE preds[i] # NoRow
      <4>1. preds'[i].model = preds[i].model /\ preds'[i].fixture = preds[i].fixture
            /\ (~ preds[i].backfill => ~ preds'[i].backfill)
        BY <2>1, <2>4, <3>1, <3>3, ButtonWrites
      <4>2. i \in RowsOf(f) /\ preds[i].model = "llm"
        BY <1>3, <2>1, <3>3, <4>1 DEF RowsOf, Stored
      <4> QED BY <1>1, <1>3, <4>1, <4>2 DEF RetrySound
    <3> QED BY <3>2, <3>3
  <2> QED BY <1>1, <2>1, <2>2, <2>3, <2>4, RowMoves
<1>4. ASSUME job[k].kind = "backfill", job[k].at = "searching", NEW i \in job[k].target,
             job[k].view[i].model # "llm"
      PROVE  preds'[i].model # "llm"
  <2>1. i \in RowId /\ preds[i] # NoRow /\ preds[i].model # "llm"
    BY <1>1, <1>2, <1>4 DEF SessionSound, RetrySound, Stored
  <2>2. CASE Baselined(i) \/ \E j \in Job : Batched(j, i)
    BY <2>2 DEF Baselined, Batched
  <2>3. ASSUME NEW j \in Job, Attempted(j, i) PROVE preds'[i].model = preds[i].model
    <3>1. job[j].kind \in Forward
      BY <1>4, <2>3, BackfillAlone
    <3> QED BY <2>1, <2>3, <3>1, ButtonWrites
  <2> QED BY <1>1, <2>1, <2>2, <2>3, RowMoves
<1> QED BY <1>1, <1>3, <1>4 DEF RetrySound

LEMMA RetriesStep ==
  ASSUME RInv, NoCliBackfill, [Next]_vars, NEW k \in Job, job'[k] # NoJob PROVE RetrySound(k)'
<1>1. TypeOK /\ IInv /\ (job[k] # NoJob => SessionSound(k) /\ RetrySound(k))
  BY DEF RInv, IInv
<1>2. CASE job'[k] = job[k]
  BY <1>2, RetryKept
<1>3. CASE Starts(k)
  <2>1. PICK c \in Kinds \ {"baselines"}, f \in Fixture :
          /\ Eligible(c, f)
          /\ job'[k] = Opened(c, IF c \in Forced \cup Forward THEN "queued" ELSE "regrade", {f}, 0)
    BY <1>3 DEF Starts
  <2>2. job'[k].kind = c /\ job'[k].over = {f} /\ job'[k].at \in {"queued", "regrade"}
    BY <2>1 DEF Opened
  <2>3. RowsOf(f)' = RowsOf(f) /\ preds' = preds
    BY <1>3 DEF Starts, RowsOf, Stored
  <2>4. c = "backfill" => \A i \in RowsOf(f) : ~ preds[i].backfill
    BY <2>1 DEF Eligible
  <2> QED BY <2>2, <2>3, <2>4 DEF RetrySound
<1>4. CASE Searches(k)
  <2>1. PICK f \in Fixture, v \in 0..MaxVersion, T \in SUBSET RowId :
          /\ job[k].over = {f} /\ T = Target(f, job[k].kind \in Forced, v)
          /\ AlreadyOk(f) = {} \/ job[k].kind \in Forced
          /\ job'[k] = Loaded(job[k], "searching", T, T, FALSE, v)
    BY <1>4 DEF Searches
  <2>2. /\ job'[k].kind = job[k].kind /\ job'[k].at = "searching"
        /\ job'[k].target = T /\ job'[k].view = Only(T)
    BY <2>1 DEF Loaded
  <2>3. preds' = preds /\ job[k] # NoJob /\ job[k].at = "queued"
    BY <1>4 DEF Searches, At
  <2>4. ASSUME job[k].kind \in Forward, NEW i \in T
        PROVE  job'[k].view[i].model = "llm" /\ ~ job'[k].view[i].ok
    <3>1. i \in RowId /\ job'[k].view[i] = preds[i]
      BY <2>2, OnlyRows
    <3>2. T = Current(f, "llm", v) /\ AlreadyOk(f) = {}
      BY <2>1, <2>4 DEF Target, Forced, Forward
    <3> QED BY <3>1, <3>2 DEF Current, AlreadyOk
  <2>5. ASSUME job[k].kind = "backfill", NEW i \in T
        PROVE  IF job'[k].view[i].model = "llm" THEN ~ job'[k].view[i].backfill
                                                 ELSE preds'[i].model # "llm"
    <3>1. i \in RowId /\ job'[k].view[i] = preds[i]
      BY <2>2, OnlyRows
    <3>2. i \in RowsOf(f)
      BY <2>1, <2>5 DEF Target, Forced, Newest, AlreadyOk
    <3>3. preds[i].model = "llm" => ~ preds[i].backfill
      BY <1>1, <2>1, <2>3, <2>5, <3>2 DEF RetrySound
    <3> QED BY <2>3, <3>1, <3>3
  <2> QED BY <2>2, <2>4, <2>5 DEF RetrySound
<1>5. CASE Marks(k)
  <2>1. job'[k].at = "grading"
    BY <1>5 DEF Marks, Loaded
  <2> QED BY <2>1 DEF RetrySound
<1>6. CASE Proceeds(k)
  <2>1. job'[k].at \in {"drop", "regrade"}
    BY <1>6 DEF Proceeds, Opened
  <2> QED BY <2>1 DEF RetrySound
<1>7. CASE Polls(k)
  <2>1. job'[k].at \in {"polling", "versioning"}
    BY <1>7 DEF Polls, Opened
  <2> QED BY <2>1 DEF RetrySound
<1> QED BY <1>1, <1>2, <1>3, <1>4, <1>5, <1>6, <1>7, SessionMoves

(***************************************************************************)
(* prediction_service.py, the skip and the forced path: without the CLI's  *)
(* backfill, a retry has never loaded an OK row as its own, and a backfill *)
(* that has will flag it - the inductive invariant behind RetryTheorem.    *)
(***************************************************************************)
THEOREM RetryInvariance == Spec => []RInv
<1>1. Init => RInv
  <2>1. Init => EInv /\ \A j \in Job : job[j] = NoJob
    BY EInvInit DEF Init
  <2> QED BY <2>1 DEF EInv, RInv
<1>2. RInv /\ [Next]_vars => RInv'
  <2> SUFFICES ASSUME RInv, [Next]_vars PROVE RInv'
    OBVIOUS
  <2>1. IInv' /\ Mutex'
    BY InvStep, MutexStep DEF RInv
  <2> QED BY <2>1, RetriesStep DEF RInv, NoCliBackfill
<1> QED BY <1>1, <1>2, PTL DEF Spec

(***************************************************************************)
(* Without the CLI's backfill, which takes no lock, an attempt of          *)
(* predict_fixture that fails takes no OK prediction away, even if the     *)
(* predict button, which takes none either, has made it OK meanwhile: its  *)
(* UPDATE leaves the status out.  Only a backfill may, and it says so.     *)
(***************************************************************************)
THEOREM RetryTheorem == NoCliBackfill => (Spec => OkSurvivesRetries)
<1> DEFINE Survives == \A i \in Stored : preds[i].ok /\ preds[i].model = "llm" /\ ~ preds'[i].ok
                                         => preds'[i].backfill
<1>1. SUFFICES ASSUME NoCliBackfill PROVE Spec => OkSurvivesRetries
  OBVIOUS
<1>2. ASSUME RInv, [Next]_vars PROVE [Survives]_vars
  <2> SUFFICES ASSUME NEW i \in Stored, preds[i].ok, preds[i].model = "llm", ~ preds'[i].ok
               PROVE  preds'[i].backfill
    OBVIOUS
  <2>1. IInv /\ i \in RowId /\ preds[i] # NoRow
    BY <1>2 DEF RInv, Stored
  <2>2. ~ Baselined(i) /\ \A j \in Job : ~ Batched(j, i)
    BY <2>1 DEF Baselined, Batched
  <2>3. PICK j \in Job : Attempted(j, i)
    BY <1>2, <2>1, <2>2, RowMoves
  <2>4. /\ job[j].kind = "backfill" /\ job[j].at = "searching" /\ RetrySound(j)
        /\ SessionSound(j) /\ job[j] # NoJob
    BY <1>1, <1>2, <2>1, <2>3, Retrying, ButtonWrites DEF Forward
  <2>5. PICK f \in Fixture, out \in Outputs :
          /\ i \in job[j].target
          /\ preds'[i] = Overwrite(preds[i], job[j].view[i],
                           NewRow(f, "llm", job[j].version, job[j].kind \in Forced, out, {out}))
    BY <2>1, <2>3 DEF Attempted
  <2>6. job[j].view[i].model = "llm" /\ ~ job[j].view[i].backfill
    BY <2>1, <2>4, <2>5 DEF RetrySound
  <2> DEFINE new == NewRow(f, "llm", job[j].version, job[j].kind \in Forced, out, {out})
  <2>7. new.backfill
    BY <2>4 DEF NewRow, Forced
  <2>8. preds'[i].backfill = IF new.backfill = job[j].view[i].backfill THEN preds[i].backfill
                             ELSE new.backfill
    BY <2>5 DEF Overwrite, Column
  <2>9. job[j].view[i].backfill \in BOOLEAN
    <3>1. i \in Seen(j) /\ job[j] \in Session
      BY <1>2, <2>1, <2>4, <2>5 DEF SessionSound, IInv, TypeOK
    <3>2. job[j].view[i] \in Row
      BY <3>1 DEF Seen, Session
    <3> QED BY <3>2 DEF Row
  <2> HIDE DEF new
  <2> QED BY <2>6, <2>7, <2>8, <2>9
<1>3. Spec => [][Survives]_vars
  BY <1>2, RetryInvariance, PTL DEF Spec
<1> QED BY <1>3 DEF OkSurvivesRetries

-----------------------------------------------------------------------------
(* The pages *)

\* a session that stays open stays the job it is, on the fixtures it took on
LEMMA SessionStays ==
  ASSUME IInv, [Next]_vars, NEW k \in Job, job[k] # NoJob, job'[k] # NoJob
  PROVE  job'[k].kind = job[k].kind /\ job'[k].over = job[k].over
<1>1. CASE job'[k] = job[k]
  BY <1>1
<1>2. CASE Searches(k)
  <2>1. PICK T, v : job'[k] = Loaded(job[k], "searching", T, T, FALSE, v)
    BY <1>2 DEF Searches
  <2> QED BY <2>1 DEF Loaded
<1>3. CASE Marks(k)
  <2>1. PICK f, b : job'[k] = Loaded(job[k], "grading", {}, Ungraded(f), b, 0)
    BY <1>3 DEF Marks
  <2> QED BY <2>1 DEF Loaded
<1>4. CASE Proceeds(k)
  <2>1. PICK l : job'[k] = Opened(job[k].kind, l, job[k].over, 0)
    BY <1>4 DEF Proceeds
  <2> QED BY <2>1 DEF Opened
<1> QED BY <1>1, <1>2, <1>3, <1>4, SessionMoves DEF Starts, Polls

-----------------------------------------------------------------------------
(* The newest of finitely many rows *)

LEMMA NewestExists ==
  ASSUME NEW S \in SUBSET RowId, IsFiniteSet(S), S # {} PROVE Newest(S) # {}
<1> DEFINE Later(i) == {k \in S : k > i}
           T == {Later(i) : i \in S}
<1>1. \A i \in S : i \in Nat
  BY ModelFacts
<1>2. IsWellFoundedOn(StrictSubsetOrdering(S), FiniteSubsetsOf(S))
  BY FS_StrictSubsetOrderingWellFounded
<1>3. T \subseteq FiniteSubsetsOf(S) /\ T # {}
  <2>1. \A i \in S : Later(i) \in SUBSET S
    OBVIOUS
  <2>2. \A i \in S : IsFiniteSet(Later(i))
    <3> HIDE DEF Later
    <3> QED BY <2>1, FS_Subset
  <2> QED BY <2>1, <2>2 DEF FiniteSubsetsOf
<1>4. PICK L \in T : \A U \in T : ~ (<<U, L>> \in StrictSubsetOrdering(S))
  <2> HIDE DEF T
  <2> QED BY <1>2, <1>3, WFMin
<1>5. PICK i \in S : L = Later(i)
  BY <1>4
<1>6. ASSUME NEW k \in S, ~ (k <= i) PROVE FALSE
  <2>1. k > i
    BY <1>1, <1>6
  <2>2. Later(k) \subseteq Later(i) /\ k \in Later(i) /\ k \notin Later(k)
    BY <1>1, <2>1
  <2>3. Later(k) # L /\ Later(k) \subseteq L
    BY <1>5, <2>2
  <2>4. Later(k) \in SUBSET S /\ L \in SUBSET S
    BY <1>5
  <2>5. <<Later(k), L>> \in StrictSubsetOrdering(S)
    <3> HIDE DEF Later
    <3> QED BY <2>3, <2>4 DEF StrictSubsetOrdering
  <2> QED BY <1>4, <2>5
<1> QED BY <1>6 DEF Newest

-----------------------------------------------------------------------------
(* The history of the answers *)

LEMMA LateStep ==
  ASSUME EInv, RunsOnly, Next, Remember, InformedFlagged, NEW j \in late'
  PROVE  job'[j] # NoJob /\ job'[j].kind = "backfill"
<1>1. j \in Job /\ LateNow(j)
  BY DEF Remember
<1>2. job'[j] # NoJob /\ job'[j].kind \in Forced \cup Forward
  BY <1>1 DEF LateNow
<1>3. IInv /\ [Next]_vars
  BY DEF EInv
<1>4. CASE job[j] = NoJob
  <2>1. job'[j].over \subseteq played
    BY <1>1, <1>2, <1>4 DEF LateNow
  <2>2. Starts(j) \/ Polls(j)
    BY <1>1, <1>2, <1>3, <1>4, SessionMoves DEF Searches, Marks, Proceeds, At
  <2>3. ~ Polls(j)
    <3> SUFFICES ASSUME Polls(j) PROVE FALSE
      OBVIOUS
    <3>1. PICK c, l, S, v : c \notin PredictLock \cup Forced \cup Forward /\ job'[j] = Opened(c, l, S, v)
      BY DEF Polls
    <3> QED BY <1>2, <3>1 DEF Opened
  <2>4. PICK c \in Kinds \ {"baselines"}, f \in Fixture :
          /\ Eligible(c, f)
          /\ job'[j] = Opened(c, IF c \in Forced \cup Forward THEN "queued" ELSE "regrade", {f}, 0)
    BY <2>2, <2>3 DEF Starts
  <2>5. job'[j].kind = c /\ job'[j].over = {f}
    BY <2>4 DEF Opened
  <2>6. c # "predict"
    BY <2>1, <2>4, <2>5 DEF Eligible
  <2> QED BY <1>2, <2>5, <2>6 DEF RunsOnly, ManagedOnly, Forced, Forward
<1>5. CASE job[j] # NoJob
  <2>1. j \in late
    BY <1>1, <1>2, <1>5 DEF LateNow
  <2> QED BY <1>1, <1>2, <1>3, <1>5, <2>1, SessionStays DEF InformedFlagged
<1> QED BY <1>4, <1>5

LEMMA InformedStep ==
  ASSUME EInv, RunsOnly, Next, Remember, DTypeOK, InformedFlagged, NEW i \in informed'
  PROVE  i \in Stored' /\ preds'[i].model = "llm" /\ preds'[i].backfill
<1>1. IInv /\ [Next]_vars /\ TypeOK
  BY DEF EInv, IInv
<1>2. CASE \E j \in late : job'[j] # job[j] /\ i \in Answered(j)
  <2>1. PICK j \in late : job'[j] # job[j] /\ i \in Answered(j)
    BY <1>2
  <2>2. /\ j \in Job /\ job[j].kind = "backfill" /\ job[j].at = "searching" /\ job[j] # NoJob
        /\ i \in RowId /\ preds'[i] # preds[i]
    BY <2>1 DEF DTypeOK, InformedFlagged, Answered
  <2>3. PICK k \in Job : Batched(k, i) \/ Attempted(k, i)
    BY <1>1, <2>1, <2>2, RowMoves DEF Baselined
  <2>4. k = j
    BY <2>1, <2>2, <2>3 DEF Batched, Attempted
  <2>5. Attempted(j, i)
    BY <2>2, <2>3, <2>4 DEF Batched, At
  <2> QED BY <2>2, <2>5, AttemptWrites, ModelFacts DEF Attempted, Stored
<1>3. CASE i \in informed /\ \A j \in Job : job'[j] # job[j] => i \notin Answered(j)
  <2>1. i \in RowId /\ preds[i] # NoRow /\ preds[i].model = "llm" /\ preds[i].backfill
    BY <1>3 DEF InformedFlagged, Stored
  <2>2. ~ Baselined(i) /\ \A j \in Job : ~ Batched(j, i)
    BY <2>1 DEF Baselined, Batched
  <2>3. ASSUME NEW j \in Job, Attempted(j, i), preds'[i] # preds[i] PROVE FALSE
    <3>1. job'[j] # job[j] /\ i \in Answered(j)
      BY <2>1, <2>3 DEF Attempted, At, Answered
    <3> QED BY <1>3, <3>1
  <2>4. preds'[i] = preds[i]
    BY <1>1, <2>1, <2>2, <2>3, RowMoves
  <2> QED BY <2>1, <2>4 DEF Stored
<1> QED BY <1>2, <1>3 DEF Remember

(***************************************************************************)
(* Between the two runs that both predict, a row of the model that was     *)
(* answered with the match on the table says so on its flag - the          *)
(* inductive invariant behind the theorems on the pages.                   *)
(***************************************************************************)
THEOREM PagesInvariance == DSpec => []DInv
<1>1. DInit => DInv
  BY EInvInit DEF DInit, DInv, DTypeOK, InformedFlagged
<1>2. DInv /\ [DNext]_dvars => DInv'
  <2> SUFFICES ASSUME DInv, [DNext]_dvars PROVE DInv'
    OBVIOUS
  <2>1. [Next]_vars
    BY DEF DNext, dvars
  <2>2. EInv'
    BY <2>1, EInvStep DEF DInv
  <2>3. CASE UNCHANGED dvars
    BY <2>2, <2>3 DEF dvars, vars, hist, DInv, DTypeOK, InformedFlagged, Stored, RunsOnly, ManagedOnly
  <2>4. CASE DNext
    <3>1. Next /\ Remember
      BY <2>4 DEF DNext
    <3>2. DTypeOK'
      BY <3>1 DEF Remember, DInv, DTypeOK, Answered
    <3>3. RunsOnly => InformedFlagged'
      BY <3>1, LateStep, InformedStep DEF DInv, InformedFlagged
    <3> QED BY <2>2, <3>2, <3>3 DEF DInv, RunsOnly, ManagedOnly
  <2> QED BY <2>3, <2>4
<1> QED BY <1>1, <1>2, PTL DEF DSpec

(***************************************************************************)
(* The headline of dashboard_service.py is honest: while predictions are   *)
(* made by runs, it counts no prediction answered by a job that took on    *)
(* its match after kickoff.                                                *)
(***************************************************************************)
THEOREM HonestHeadline == RunsOnly => (DSpec => []HeadlineIsHonest)
<1>1. SUFFICES ASSUME RunsOnly PROVE DSpec => []HeadlineIsHonest
  OBVIOUS
<1>2. DInv => HeadlineIsHonest
  <2> SUFFICES ASSUME DInv, NEW i \in Headline, i \in informed PROVE FALSE
    BY DEF HeadlineIsHonest
  <2>1. preds[i].model = "llm" /\ preds[i].backfill
    BY <1>1 DEF DInv, InformedFlagged
  <2>2. i \in Graded(FALSE, Llm)
    BY DEF Headline, DedupPerFixture, Newest
  <2> QED BY <2>1, <2>2 DEF Graded, Hindsight
<1> QED BY <1>2, PagesInvariance, PTL

(***************************************************************************)
(* The match list and the match page (fixture_service.py) feature the same *)
(* prediction, and no baseline where there is an estimate of the model.    *)
(***************************************************************************)
THEOREM SamePrediction == IsFiniteSet(RowId) => (DSpec => []PagesAgree)
<1>1. SUFFICES ASSUME IsFiniteSet(RowId) PROVE DSpec => []PagesAgree
  OBVIOUS
<1>2. PagesAgree
  <2> SUFFICES ASSUME NEW f \in Fixture
               PROVE  /\ Featured(f) = Primary(f)
                      /\ \A i \in Featured(f) : IsLlm(i) \/ \A k \in AllOk(f) : ~ IsLlm(k)
    BY DEF PagesAgree
  <2> DEFINE L == {i \in AllOk(f) : IsLlm(i)}
             B == {i \in AllOk(f) : ~ IsLlm(i)}
  <2>1. AllOk(f) \subseteq RowId /\ \A i \in AllOk(f) : i \in Nat
    BY ModelFacts DEF AllOk, RowsOf, Stored
  <2>2. L = AllOk(f) \ {i \in AllOk(f) : preds[i].model = "baseline"}
    BY DEF IsLlm
  <2>3. \A S \in SUBSET AllOk(f) : Newest(S) = {i \in S : \A k \in S : i >= k}
    BY <2>1 DEF Newest
  <2>4. L \in SUBSET AllOk(f) /\ B \in SUBSET AllOk(f)
    OBVIOUS
  <2>5. Featured(f) = IF Newest(L) # {} THEN Newest(L) ELSE Newest(B)
    BY DEF Featured
  <2>6. Primary(f) = LET S == IF L = {} THEN AllOk(f) ELSE L IN {i \in S : \A k \in S : i >= k}
    BY <2>2 DEF Primary
  <2>7. CASE L = {}
    <3>1. Newest(L) = {} /\ B = AllOk(f)
      BY <2>7 DEF Newest
    <3>2. \A k \in AllOk(f) : ~ IsLlm(k)
      BY <2>7
    <3> HIDE DEF L, B
    <3> QED BY <2>3, <2>4, <2>5, <2>6, <2>7, <3>1, <3>2
  <2>8. CASE L # {}
    <3>1. IsFiniteSet(L) /\ L \in SUBSET RowId
      BY <1>1, <2>1, <2>4, FS_Subset
    <3>2. \A i \in Newest(L) : IsLlm(i)
      BY DEF Newest
    <3> HIDE DEF L, B
    <3>3. Newest(L) # {}
      BY <2>8, <3>1, NewestExists
    <3> QED BY <2>3, <2>4, <2>5, <2>6, <2>8, <3>2, <3>3
  <2> QED BY <2>7, <2>8
<1> QED BY <1>2, PTL

(***************************************************************************)
(* What the headline counts is what the match page shows, when no batch    *)
(* runs: a row counted is OK, and only a newer row that is hindsight or    *)
(* not graded yet is featured in its place.                                *)
(***************************************************************************)
THEOREM HeadlineShown ==
  ManagedOnly /\ Kinds \cap Batches = {} /\ IsFiniteSet(RowId) => (DSpec => []HeadlineIsShown)
<1>1. SUFFICES ASSUME ManagedOnly, Kinds \cap Batches = {}, IsFiniteSet(RowId)
               PROVE  DSpec => []HeadlineIsShown
  OBVIOUS
<1>2. RunsOnly
  BY <1>1 DEF RunsOnly, Batches
<1>3. DInv => HeadlineIsShown
  <2> SUFFICES ASSUME DInv, NEW i \in Headline
               PROVE  /\ preds[i].ok
                      /\ \A k \in Featured(preds[i].fixture) :
                           k = i \/ (k > i /\ (Hindsight(k) \/ grade[k] = {}))
    BY DEF HeadlineIsShown
  <2>1. TypeOK /\ FlagsSound /\ AnswersSound
    BY <1>2 DEF DInv, EInv, IInv
  <2>2. PICK f \in Fixture : i \in Newest({x \in Graded(FALSE, Llm) : preds[x].fixture = f})
    BY DEF Headline, DedupPerFixture
  <2>3. /\ i \in Graded(FALSE, Llm) /\ preds[i].fixture = f
        /\ \A x \in Graded(FALSE, Llm) : preds[x].fixture = f => x <= i
    BY <2>2 DEF Newest
  <2>4. \A x \in Stored : preds[x].model # "batch"
    BY <1>1, <2>1 DEF FlagsSound
  <2>5. i \in Stored /\ i \in RowId /\ preds[i].model = "llm" /\ ~ preds[i].backfill /\ grade[i] # {}
    BY <2>3, <2>4 DEF Graded, Llm, Hindsight, Stored
  <2>6. preds[i].ok
    BY <2>1, <2>5 DEF AnswersSound
  <2> DEFINE L == {x \in AllOk(f) : IsLlm(x)}
  <2>7. i \in L
    BY <2>3, <2>5, <2>6 DEF AllOk, RowsOf, IsLlm
  <2>8. L \in SUBSET RowId
    BY DEF AllOk, RowsOf, Stored
  <2>9. Newest(L) # {}
    <3> HIDE DEF L
    <3>1. IsFiniteSet(L)
      BY <1>1, <2>8, FS_Subset
    <3> QED BY <2>7, <2>8, <3>1, NewestExists
  <2>10. Featured(f) = Newest(L)
    BY <2>9 DEF Featured
  <2>11. ASSUME NEW k \in Featured(f), k # i PROVE k > i /\ (Hindsight(k) \/ grade[k] = {})
    <3>1. k \in L /\ i <= k
      BY <2>7, <2>10, <2>11 DEF Newest
    <3>2. k > i
      <4>1. k \in Nat /\ i \in Nat
        <5> HIDE DEF L
        <5> QED BY <2>8, <2>5, <3>1, ModelFacts
      <4> QED BY <2>11, <3>1, <4>1
    <3>3. k \in Stored /\ preds[k].fixture = f /\ preds[k] \in Row
      BY <2>1, <3>1 DEF AllOk, RowsOf, Stored, TypeOK
    <3>4. preds[k].model = "llm"
      BY <2>4, <3>1, <3>3 DEF IsLlm, Row, Model
    <3>5. k \notin Graded(FALSE, Llm)
      <4>1. k \in Nat /\ i \in Nat
        BY <2>5, <3>3, ModelFacts DEF Stored
      <4>2. ~ (k <= i)
        BY <3>2, <4>1
      <4> QED BY <2>3, <3>3, <4>2
    <3>6. result[preds[k].fixture] = "final"
      BY <2>3, <3>3 DEF Graded
    <3> QED BY <3>2, <3>3, <3>4, <3>5, <3>6 DEF Graded, Llm
  <2> QED BY <2>3, <2>6, <2>11
<1> QED BY <1>3, PagesInvariance, PTL

-----------------------------------------------------------------------------
(* The light *)

LEMMA LightStep ==
  ASSUME IInv, LightIsTrue, Next, Light PROVE LightIsTrue'
<1>1. [Next]_vars
  OBVIOUS
<1> SUFFICES ASSUME NEW f \in Fixture
             PROVE  /\ f \in predicting' => Pressed(f)' # {}
                    /\ f \notin predicting' => Pressed(f)' # Job
  BY DEF LightIsTrue
<1>2. ASSUME f \in predicting' PROVE Pressed(f)' # {}
  <2>1. CASE \E j \in Job : Begins(j) /\ f \in job'[j].over
    BY <2>1 DEF Begins, Pressed
  <2>2. CASE f \in predicting /\ \A j \in Job : Ends(j) => f \notin job[j].over
    <3>1. PICK j \in Pressed(f) : TRUE
      BY <2>2 DEF LightIsTrue
    <3>2. j \in Job /\ job[j] # NoJob /\ job[j].kind = "button" /\ f \in job[j].over
      BY DEF Pressed
    <3>3. job'[j] # NoJob
      BY <2>2, <3>2 DEF Ends
    <3>4. job'[j].kind = "button" /\ f \in job'[j].over
      BY <1>1, <3>2, <3>3, SessionStays
    <3> QED BY <3>2, <3>3, <3>4 DEF Pressed
  <2> QED BY <1>2, <2>1, <2>2 DEF Light
<1>3. ASSUME f \notin predicting', Pressed(f)' = Job PROVE FALSE
  <2>1. ASSUME NEW j \in Job PROVE j \in Pressed(f)
    <3>1. job'[j] # NoJob /\ job'[j].kind = "button" /\ f \in job'[j].over
      BY <1>3 DEF Pressed
    <3>2. job[j] # NoJob
      BY <1>3, <3>1 DEF Light, Begins
    <3> QED BY <1>1, <3>1, <3>2, SessionStays DEF Pressed
  <2>2. Pressed(f) = Job
    BY <2>1 DEF Pressed
  <2>3. f \in predicting
    BY <2>2 DEF LightIsTrue
  <2>4. PICK j \in Job : Ends(j)
    BY <1>3, <2>3 DEF Light
  <2> QED BY <1>3, <2>4 DEF Ends, Pressed
<1> QED BY <1>2, <1>3

(***************************************************************************)
(* The light of workers/runner.py never shines for nobody, and a dark      *)
(* match is not the one every session is pressed for, whatever presses of  *)
(* the button overlap, fail and end in whatever order.                     *)
(***************************************************************************)
THEOREM LightTheorem == Job # {} => (ISpec => []LightIsTrue)
<1>1. SUFFICES ASSUME Job # {} PROVE ISpec => []LightIsTrue
  OBVIOUS
<1>2. IInit => IInv /\ LightIsTrue
  BY <1>1, InvInit DEF IInit, Init, LightIsTrue, Pressed
<1>3. IInv /\ LightIsTrue /\ [INext]_ivars => IInv' /\ LightIsTrue'
  <2> SUFFICES ASSUME IInv, LightIsTrue, [INext]_ivars PROVE IInv' /\ LightIsTrue'
    OBVIOUS
  <2>1. IInv'
    BY InvStep DEF INext, ivars
  <2>2. CASE UNCHANGED ivars
    BY <2>1, <2>2 DEF ivars, vars, LightIsTrue, Pressed
  <2>3. CASE INext
    BY <2>1, <2>3, LightStep DEF INext
  <2> QED BY <2>2, <2>3
<1> QED BY <1>2, <1>3, PTL DEF ISpec
=============================================================================
