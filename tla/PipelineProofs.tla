--------------------------- MODULE PipelineProofs ---------------------------
(***************************************************************************)
(* Theorems about the prediction pipeline, for any number of sessions,     *)
(* fixtures, rows, answers and calibration profiles.                       *)
(***************************************************************************)
EXTENDS Pipeline, TLAPS

Table == [RowId -> Row \cup {NoRow}]

LEMMA ModelFacts ==
  /\ NoJob \notin Session /\ NoRow \notin Row
  /\ RowId \subseteq Nat /\ Answer \subseteq Score
  /\ MaxVersion \in Nat
  /\ Kinds \subseteq JobKind \cup {"baselines"}
BY ConstantsAssumption DEF ConstantsAssumption

-----------------------------------------------------------------------------
(* Types of what the actions build *)

LEMMA OutputsType == Outputs \subseteq Output
<1>1. ASSUME NEW s \in Answer PROVE [ok |-> TRUE, home |-> s.home, away |-> s.away] \in Output
  <2>1. s \in Score
    BY ModelFacts
  <2> QED BY <2>1 DEF Score, Output
<1>2. Rejected \in Output
  BY DEF Rejected, Output, Goals
<1> QED BY <1>1, <1>2 DEF Outputs, Accepted

LEMMA NewRowType ==
  ASSUME NEW f \in Fixture, NEW m \in Model, NEW v \in 0..MaxVersion,
         NEW b \in BOOLEAN, NEW out \in Output, NEW snap \in SUBSET Output
  PROVE  NewRow(f, m, v, b, out, snap) \in Row
BY DEF NewRow, Row, Output

LEMMA OverwriteType ==
  ASSUME NEW row \in Row, NEW loaded, NEW new \in Row
  PROVE  Overwrite(row, loaded, new) \in Row
BY DEF Overwrite, Column, Row

LEMMA BlankType == Blank \in Table
BY DEF Blank, Table

LEMMA OnlyType == ASSUME preds \in Table, NEW S PROVE Only(S) \in Table
BY DEF Only, Table

LEMMA OpenedType ==
  ASSUME NEW k \in JobKind,
         NEW l \in {"queued", "searching", "drop", "regrade", "grading", "polling", "versioning"},
         NEW S \in SUBSET Fixture, NEW v \in 0..MaxVersion
  PROVE  Opened(k, l, S, v) \in Session
BY BlankType DEF Opened, Session, Table

LEMMA UpsertedType ==
  ASSUME preds \in Table, NEW S \in SUBSET Fixture, NEW slot \in [S -> RowId],
         NEW new \in [S -> Row]
  PROVE  Upserted(slot, new) \in Table
<1> SUFFICES ASSUME NEW i \in RowId
             PROVE  (IF \E f \in DOMAIN slot : slot[f] = i
                     THEN new[CHOOSE f \in DOMAIN slot : slot[f] = i]
                     ELSE preds[i]) \in Row \cup {NoRow}
  BY DEF Upserted, Table
<1>1. CASE \E f \in S : slot[f] = i
  <2>1. (CHOOSE f \in S : slot[f] = i) \in S
    BY <1>1
  <2> QED BY <1>1, <2>1
<1>2. CASE ~ \E f \in S : slot[f] = i
  BY <1>2 DEF Table
<1> QED BY <1>1, <1>2

LEMMA SeenType == \A j \in Job : Seen(j) \subseteq RowId
BY DEF Seen

-----------------------------------------------------------------------------
(* Type correctness *)

LEMMA TypeInit == Init => TypeOK
<1> SUFFICES ASSUME Init PROVE TypeOK
  OBVIOUS
<1> QED BY BlankType DEF Init, TypeOK, Table

LEMMA LoadedType ==
  ASSUME preds \in Table, NEW s \in Session, NEW T \in SUBSET RowId, NEW V,
         NEW l \in {"searching", "grading"}, NEW b \in BOOLEAN, NEW v \in 0..MaxVersion
  PROVE  Loaded(s, l, T, V, b, v) \in Session
<1>1. Only(V) \in Table
  BY OnlyType
<1> QED BY <1>1 DEF Loaded, Session, Table

LEMMA BeginType ==
  ASSUME TypeOK, NEW j \in Job, NEW s \in Session, Begin(j, s)
  PROVE  job' \in [Job -> Session \cup {NoJob}]
BY DEF TypeOK, Begin

LEMMA DoneType ==
  ASSUME TypeOK, NEW j \in Job, Done(j) PROVE job' \in [Job -> Session \cup {NoJob}]
BY DEF TypeOK, Done

LEMMA StartOneType == ASSUME TypeOK, NEW j \in Job, StartOne(j) PROVE TypeOK'
<1>1. PICK k \in Kinds \ {"baselines"}, f \in Fixture :
        Begin(j, Opened(k, IF k \in Forced \cup Forward THEN "queued" ELSE "regrade", {f}, 0))
  BY DEF StartOne
<1>2. k \in JobKind /\ 0 \in 0..MaxVersion
  BY ModelFacts
<1>3. Opened(k, IF k \in Forced \cup Forward THEN "queued" ELSE "regrade", {f}, 0) \in Session
  BY <1>2, OpenedType
<1>4. job' \in [Job -> Session \cup {NoJob}]
  BY <1>1, <1>3, BeginType
<1> QED BY <1>4 DEF StartOne, TypeOK

LEMMA TargetType ==
  \A f, forced, v : Target(f, forced, v) \in SUBSET RowId
BY DEF Target, Newest, Current, AlreadyOk, RowsOf, Stored

LEMMA OpenSession == ASSUME TypeOK, NEW j \in Job, NEW l, At(j, l) PROVE job[j] \in Session
BY DEF TypeOK, At

LEMMA PredictReadType == ASSUME TypeOK, NEW j \in Job, PredictRead(j) PROVE TypeOK'
<1>1. job[j] \in Session
  BY OpenSession DEF PredictRead
<1>2. PICK f \in job[j].over, v \in 0..MaxVersion :
        \/ Done(j)
        \/ LET T == Target(f, job[j].kind \in Forced, v) IN
             Begin(j, Loaded(job[j], "searching", T, T, FALSE, v))
  BY DEF PredictRead
<1> DEFINE T == Target(f, job[j].kind \in Forced, v)
<1>3. Loaded(job[j], "searching", T, T, FALSE, v) \in Session
  BY <1>1, TargetType, LoadedType DEF TypeOK, Table
<1>4. job' \in [Job -> Session \cup {NoJob}]
  BY <1>2, <1>3, BeginType, DoneType
<1> QED BY <1>4 DEF PredictRead, TypeOK

LEMMA PredictStoreType ==
  ASSUME TypeOK, NEW j \in Job, SessionSound(j), PredictStore(j) PROVE TypeOK'
<1>1. job[j] \in Session
  BY OpenSession DEF PredictStore
<1>2. PICK f \in job[j].over, out \in Outputs :
        LET new == NewRow(f, "llm", job[j].version, job[j].kind \in Forced, out, {out}) IN
          \/ \E i \in job[j].target : Store(j, i, Overwrite(preds[i], job[j].view[i], new))
          \/ \E i \in RowId \ Stored : Store(j, i, new)
  BY DEF PredictStore
<1> DEFINE new == NewRow(f, "llm", job[j].version, job[j].kind \in Forced, out, {out})
<1>3. f \in Fixture /\ job[j].version \in 0..MaxVersion /\ job[j].over \in SUBSET Fixture
      /\ job[j].kind \in JobKind
  BY <1>1 DEF Session
<1>4. new \in Row
  <2>1. out \in Output
    BY OutputsType
  <2>2. {out} \in SUBSET Output /\ "llm" \in Model /\ (job[j].kind \in Forced) \in BOOLEAN
    BY <2>1 DEF Model
  <2> HIDE DEF new
  <2>3. NewRow(f, "llm", job[j].version, job[j].kind \in Forced, out, {out}) \in Row
    BY <1>3, <2>1, <2>2, NewRowType
  <2> QED BY <2>3 DEF new
<1>5. PICK i \in RowId, row \in Row : Store(j, i, row)
  <2>1. CASE \E i \in job[j].target : Store(j, i, Overwrite(preds[i], job[j].view[i], new))
    <3>1. PICK i \in job[j].target : Store(j, i, Overwrite(preds[i], job[j].view[i], new))
      BY <2>1
    <3>2. i \in Stored
      BY DEF SessionSound, PredictStore, At
    <3>3. i \in RowId /\ preds[i] \in Row
      BY <3>2 DEF Stored, TypeOK
    <3> QED BY <1>4, <3>1, <3>3, OverwriteType
  <2> QED BY <1>2, <1>4, <2>1
<1>6. preds' \in [RowId -> Row \cup {NoRow}]
  BY <1>5 DEF Store, TypeOK
<1>7. 0 \in 0..MaxVersion
  BY ModelFacts
<1>8. Opened(job[j].kind, "drop", job[j].over, 0) \in Session
  BY <1>3, <1>7, OpenedType
<1>9. job' \in [Job -> Session \cup {NoJob}]
  BY <1>5, <1>8, BeginType, DoneType DEF Store
<1> QED BY <1>6, <1>9 DEF PredictStore, TypeOK

LEMMA DropGradesType == ASSUME TypeOK, NEW j \in Job, DropGrades(j) PROVE TypeOK'
<1>1. job[j] \in Session
  BY OpenSession DEF DropGrades
<1>2. job[j].over \in SUBSET Fixture /\ job[j].kind \in JobKind /\ 0 \in 0..MaxVersion
  BY <1>1, ModelFacts DEF Session
<1>3. Opened(job[j].kind, "regrade", job[j].over, 0) \in Session
  BY <1>2, OpenedType
<1>4. job' \in [Job -> Session \cup {NoJob}]
  BY <1>3, BeginType DEF DropGrades
<1>5. grade' \in [RowId -> SUBSET Score]
  BY DEF DropGrades, TypeOK
<1> QED BY <1>4, <1>5 DEF DropGrades, TypeOK

LEMMA GradeReadType == ASSUME TypeOK, NEW j \in Job, GradeRead(j) PROVE TypeOK'
<1>1. job[j] \in Session
  BY OpenSession DEF GradeRead
<1>2. PICK f \in job[j].over :
        /\ result' = result \/ result' = [result EXCEPT ![f] = "void"]
        /\ \/ Done(j)
           \/ Begin(j, Loaded(job[j], "grading", {}, Ungraded(f), result[f] = "final", 0))
  BY DEF GradeRead
<1>3. 0 \in 0..MaxVersion
  BY ModelFacts
<1>4. Loaded(job[j], "grading", {}, Ungraded(f), result[f] = "final", 0) \in Session
  BY <1>1, <1>3, LoadedType DEF TypeOK, Table
<1>5. job' \in [Job -> Session \cup {NoJob}]
  BY <1>2, <1>4, BeginType, DoneType
<1>6. result' \in [Fixture -> {"none", "final", "void"}]
  BY <1>2 DEF TypeOK
<1> QED BY <1>5, <1>6 DEF GradeRead, TypeOK

LEMMA GradeStoreType == ASSUME TypeOK, NEW j \in Job, GradeStore(j) PROVE TypeOK'
<1>1. job[j] \in Session
  BY OpenSession DEF GradeStore
<1>2. job' \in [Job -> Session \cup {NoJob}]
  BY DoneType DEF GradeStore
<1>3. result' \in [Fixture -> {"none", "final", "void"}]
  BY DEF GradeStore, ResultUpserted, TypeOK
<1>4. ASSUME NEW i \in Seen(j) PROVE Scoreline(job[j].view[i]) \in Score
  <2>1. job[j].view[i] \in Row
    BY <1>1 DEF Seen, Session
  <2> QED BY <2>1 DEF Row, Scoreline, Score
<1>5. grade' \in [RowId -> SUBSET Score]
  BY <1>4 DEF GradeStore, TypeOK
<1> QED BY <1>2, <1>3, <1>5 DEF GradeStore, TypeOK

LEMMA SlotsType == ASSUME NEW S, NEW m, NEW v, NEW slot \in Slots(S, m, v)
                   PROVE  slot \in [S -> RowId]
BY DEF Slots

LEMMA BatchReadType == ASSUME TypeOK, NEW j \in Job, BatchRead(j) PROVE TypeOK'
<1>1. PICK k \in JobKind, v \in 0..MaxVersion, S \in SUBSET Fixture :
        Begin(j, Opened(k, "polling", S, v))
  <2>1. PICK k \in Kinds \cap Batches, v \in 0..MaxVersion :
          Begin(j, Opened(k, "polling", {f \in Fixture : IF k = "batch_backfill" THEN status[f] = "finished"
                                 ELSE status[f] = "scheduled" /\ f \notin played}, v))
    BY DEF BatchRead
  <2> QED BY <2>1 DEF JobKind
<1>2. Opened(k, "polling", S, v) \in Session
  BY OpenedType
<1>3. job' \in [Job -> Session \cup {NoJob}]
  BY <1>1, <1>2, BeginType
<1> QED BY <1>3 DEF BatchRead, TypeOK

LEMMA BatchStoreType == ASSUME TypeOK, NEW j \in Job, BatchStore(j) PROVE TypeOK'
<1>1. job[j] \in Session
  BY OpenSession DEF BatchStore
<1> DEFINE S == job[j].over  v == job[j].version
           new(out) == NewRows(S, "batch", v, job[j].kind = "batch_backfill", out)
<1>2. S \in SUBSET Fixture /\ v \in 0..MaxVersion
  BY <1>1 DEF Session
<1>3. PICK slot \in Slots(S, "batch", v), out \in [S -> Outputs] : preds' = Upserted(slot, new(out))
  BY DEF BatchStore
<1>4. ASSUME NEW f \in S
      PROVE  NewRow(f, "batch", v, job[j].kind = "batch_backfill", out[f], {}) \in Row
  <2>1. out[f] \in Output
    BY OutputsType
  <2> QED BY <1>2, <2>1, NewRowType DEF Model
<1>5. new(out) \in [S -> Row]
  BY <1>4 DEF NewRows
<1>6. slot \in [S -> RowId]
  BY SlotsType
<1>7. preds' \in [RowId -> Row \cup {NoRow}]
  BY <1>2, <1>3, <1>5, <1>6, UpsertedType DEF Table, TypeOK
<1>8. job' \in [Job -> Session \cup {NoJob}]
  BY DoneType DEF BatchStore
<1> QED BY <1>7, <1>8 DEF BatchStore, TypeOK

LEMMA RefreshBaselinesType == ASSUME TypeOK, RefreshBaselines PROVE TypeOK'
<1> DEFINE new(out) == NewRows(Fixture, "baseline", 0, FALSE, out)
<1>1. PICK slot \in Slots(Fixture, "baseline", 0), out \in [Fixture -> Accepted] :
        preds' = Upserted(slot, new(out))
  BY DEF RefreshBaselines
<1>2. ASSUME NEW f \in Fixture PROVE NewRow(f, "baseline", 0, FALSE, out[f], {}) \in Row
  <2>1. out[f] \in Output /\ 0 \in 0..MaxVersion
    BY OutputsType, ModelFacts DEF Outputs
  <2> QED BY <2>1, NewRowType DEF Model
<1>3. new(out) \in [Fixture -> Row]
  BY <1>2 DEF NewRows
<1>4. slot \in [Fixture -> RowId]
  BY SlotsType
<1>5. preds' \in [RowId -> Row \cup {NoRow}]
  BY <1>1, <1>3, <1>4, UpsertedType DEF Table, TypeOK
<1>6. grade' \in [RowId -> SUBSET Score]
  BY DEF RefreshBaselines, TypeOK
<1> QED BY <1>5, <1>6 DEF RefreshBaselines, TypeOK

LEMMA CountEvidenceType == ASSUME TypeOK, NEW j \in Job, CountEvidence(j) PROVE TypeOK'
<1>1. PICK v \in 1..MaxVersion : Begin(j, Opened("recompute", "versioning", {}, v))
  BY DEF CountEvidence
<1>2. v \in 0..MaxVersion
  BY ModelFacts
<1>3. Opened("recompute", "versioning", {}, v) \in Session
  BY <1>2, OpenedType DEF JobKind
<1>4. job' \in [Job -> Session \cup {NoJob}]
  BY <1>1, <1>3, BeginType
<1> QED BY <1>4 DEF CountEvidence, TypeOK

LEMMA AddProfileType ==
  ASSUME TypeOK, NEW j \in Job, SessionSound(j), AddProfile(j) PROVE TypeOK'
<1>1. profiles' \subseteq 1..MaxVersion
  BY DEF AddProfile, At, SessionSound, TypeOK
<1>2. job' \in [Job -> Session \cup {NoJob}]
  BY DoneType DEF AddProfile
<1> QED BY <1>1, <1>2 DEF AddProfile, TypeOK

LEMMA GiveUpType == ASSUME TypeOK, NEW j \in Job, GiveUp(j) PROVE TypeOK'
<1>1. job' \in [Job -> Session \cup {NoJob}]
  BY DoneType DEF GiveUp
<1> QED BY <1>1 DEF GiveUp, TypeOK

LEMMA WorldType == ASSUME TypeOK, NEW f \in Fixture, KickOff(f) \/ Sync(f) PROVE TypeOK'
<1>1. CASE KickOff(f)
  BY <1>1 DEF KickOff, TypeOK
<1>2. CASE Sync(f)
  <2>1. Statuses \subseteq {"scheduled", "finished", "postponed"}
    BY ConstantsAssumption DEF ConstantsAssumption
  <2> QED BY <1>2, <2>1 DEF Sync, TypeOK
<1> QED BY <1>1, <1>2

LEMMA TypeStep == ASSUME IInv, [Next]_vars PROVE TypeOK'
<1>1. TypeOK /\ \A j \in Job : job[j] # NoJob => SessionSound(j)
  BY DEF IInv
<1>2. CASE UNCHANGED vars
  BY <1>1, <1>2 DEF vars, TypeOK
<1>3. CASE \E f \in Fixture : KickOff(f) \/ Sync(f)
  BY <1>1, <1>3, WorldType
<1>4. CASE RefreshBaselines
  BY <1>1, <1>4, RefreshBaselinesType
<1>5. ASSUME NEW j \in Job, Step(j) PROVE TypeOK'
  <2>1. CASE PredictStore(j)
    BY <1>1, <2>1, PredictStoreType DEF PredictStore, At
  <2>2. CASE AddProfile(j)
    BY <1>1, <2>2, AddProfileType DEF AddProfile, At
  <2>3. CASE StartOne(j) \/ PredictRead(j) \/ DropGrades(j) \/ GradeRead(j) \/ GradeStore(j)
    BY <1>1, <2>3, StartOneType, PredictReadType, DropGradesType, GradeReadType, GradeStoreType
  <2>4. CASE BatchRead(j) \/ BatchStore(j) \/ CountEvidence(j) \/ GiveUp(j)
    BY <1>1, <2>4, BatchReadType, BatchStoreType, CountEvidenceType, GiveUpType
  <2> QED BY <1>5, <2>1, <2>2, <2>3, <2>4 DEF Step
<1> QED BY <1>2, <1>3, <1>4, <1>5 DEF Next

-----------------------------------------------------------------------------
(* What every step leaves standing *)

Grows ==
  /\ \A i \in Stored : i \in Stored' /\ preds'[i].fixture = preds[i].fixture
  /\ profiles \subseteq profiles'
  /\ \A f \in Fixture : result[f] # "none" => result'[f] # "none"

\* the rows a batch or the baselines leave: the old ones, and rows of model m
\* where there was none or one of the same fixture
LEMMA UpsertedRows ==
  ASSUME TypeOK, NEW S \in SUBSET Fixture, NEW m, NEW v, NEW b, NEW out,
         NEW slot \in Slots(S, m, v),
         preds' = Upserted(slot, NewRows(S, m, v, b, out)),
         \A f \in S : NewRow(f, m, v, b, out[f], {}) \in Row,
         NEW i \in RowId
  PROVE  \/ preds'[i] = preds[i]
         \/ /\ preds'[i] \in Row /\ preds'[i].model = m /\ preds'[i].version = v
            /\ preds'[i].backfill = b
            /\ preds[i] # NoRow => preds'[i].fixture = preds[i].fixture /\ preds[i].model = m
<1> DEFINE new == NewRows(S, m, v, b, out)
<1>1. slot \in [S -> RowId]
  BY SlotsType
<1>2. preds'[i] = IF \E f \in S : slot[f] = i THEN new[CHOOSE f \in S : slot[f] = i] ELSE preds[i]
  BY <1>1 DEF Upserted
<1>3. CASE \E f \in S : slot[f] = i
  <2> DEFINE g == CHOOSE f \in S : slot[f] = i
  <2>1. g \in S /\ slot[g] = i
    BY <1>3
  <2>2. preds'[i] = NewRow(g, m, v, b, out[g], {})
    BY <1>2, <1>3, <2>1 DEF NewRows
  <2>3. slot[g] \in Current(g, m, v) \/ slot[g] \notin Stored
    BY <2>1 DEF Slots
  <2>4. preds[i] # NoRow => preds[i].fixture = g /\ preds[i].model = m
    BY <2>1, <2>3 DEF Current, RowsOf, Stored
  <2>5. preds'[i] \in Row
    BY <2>1, <2>2
  <2>6. /\ preds'[i].model = m /\ preds'[i].version = v /\ preds'[i].fixture = g
        /\ preds'[i].backfill = b
    BY <2>2 DEF NewRow
  <2> QED BY <2>4, <2>5, <2>6
<1> QED BY <1>2, <1>3

\* likewise for one attempt of predict_fixture
LEMMA AttemptRows ==
  ASSUME TypeOK, NEW j \in Job, SessionSound(j), PredictStore(j)
  PROVE  \E f \in Fixture, i \in RowId :
           /\ job[j].over = {f}
           /\ \A k \in RowId : k # i => preds'[k] = preds[k]
           /\ \/ preds' = preds
              \/ /\ preds'[i] \in Row /\ preds'[i].fixture = f
                 /\ preds[i] # NoRow => preds[i].fixture = f
                 /\ preds'[i].version \in {job[j].version} \cup
                      (IF preds[i] = NoRow THEN {} ELSE {preds[i].version})
                 /\ i \in job[j].target \/ job[j].target = {}
           /\ \/ Done(j)
              \/ job[j].kind \in Forced /\ Begin(j, Opened(job[j].kind, "drop", job[j].over, 0))
<1>1. job[j] \in Session /\ job[j] # NoJob /\ job[j].at = "searching"
  BY OpenSession DEF PredictStore, At
<1>2. PICK f \in Fixture : job[j].over = {f}
  BY <1>1 DEF SessionSound
<1>3. PICK out \in Outputs :
        LET new == NewRow(f, "llm", job[j].version, job[j].kind \in Forced, out, {out}) IN
          \/ \E i \in job[j].target : Store(j, i, Overwrite(preds[i], job[j].view[i], new))
          \/ job[j].target = {} /\ \E i \in RowId \ Stored : Store(j, i, new)
  BY <1>2 DEF PredictStore
<1> DEFINE new == NewRow(f, "llm", job[j].version, job[j].kind \in Forced, out, {out})
<1>4. job[j].version \in 0..MaxVersion
  BY <1>1 DEF Session
<1>5. new \in Row /\ new.fixture = f /\ new.version = job[j].version
  <2>1. out \in Output
    BY OutputsType
  <2>2. {out} \in SUBSET Output /\ "llm" \in Model /\ (job[j].kind \in Forced) \in BOOLEAN
    BY <2>1 DEF Model
  <2> HIDE DEF new
  <2>3. NewRow(f, "llm", job[j].version, job[j].kind \in Forced, out, {out}) \in Row
    BY <1>4, <2>1, <2>2, NewRowType
  <2> QED BY <2>3 DEF new, NewRow
<1> HIDE DEF new
<1>6. PICK i \in RowId, row \in Row :
        /\ Store(j, i, row) /\ row.fixture = f
        /\ row.version \in {job[j].version} \cup
             (IF preds[i] = NoRow THEN {} ELSE {preds[i].version})
        /\ preds[i] # NoRow => preds[i].fixture = f
        /\ i \in job[j].target \/ job[j].target = {}
  <2>1. CASE \E i \in job[j].target : Store(j, i, Overwrite(preds[i], job[j].view[i], new))
    <3>1. PICK i \in job[j].target : Store(j, i, Overwrite(preds[i], job[j].view[i], new))
      BY <2>1
    <3>2. i \in Stored /\ preds[i].fixture = f
      BY <1>1, <1>2 DEF SessionSound
    <3>3. i \in RowId /\ preds[i] \in Row /\ preds[i] # NoRow
      BY <3>2 DEF Stored, TypeOK
    <3>4. Overwrite(preds[i], job[j].view[i], new) \in Row
      BY <1>5, <3>3, OverwriteType
    <3>5. /\ Overwrite(preds[i], job[j].view[i], new).fixture = preds[i].fixture
          /\ Overwrite(preds[i], job[j].view[i], new).version \in {new.version, preds[i].version}
      BY DEF Overwrite, Column
    <3> QED BY <1>5, <3>1, <3>2, <3>3, <3>4, <3>5
  <2>2. CASE job[j].target = {} /\ \E i \in RowId \ Stored : Store(j, i, new)
    BY <1>5, <2>2 DEF Stored
  <2> QED BY <1>3, <2>1, <2>2 DEF new
<1>7. CASE KeyFree(row, i)
  <2>1. preds' = [preds EXCEPT ![i] = row]
    BY <1>6, <1>7 DEF Store
  <2>2. preds'[i] = row /\ \A k \in RowId : k # i => preds'[k] = preds[k]
    BY <2>1 DEF TypeOK
  <2>3. \/ Done(j)
        \/ job[j].kind \in Forced /\ Begin(j, Opened(job[j].kind, "drop", job[j].over, 0))
    BY <1>6, <1>7 DEF Store
  <2> QED BY <1>2, <1>6, <2>2, <2>3
<1>8. CASE ~ KeyFree(row, i)
  BY <1>2, <1>6, <1>8 DEF Store
<1> QED BY <1>7, <1>8

LEMMA SameGrows ==
  ASSUME UNCHANGED <<preds, result, profiles>> PROVE Grows
BY DEF Grows, Stored

LEMMA RowsGrow ==
  ASSUME UNCHANGED <<result, profiles>>,
         \A i \in RowId : \/ preds'[i] = preds[i]
                         \/ /\ preds'[i] \in Row
                            /\ preds[i] # NoRow => preds'[i].fixture = preds[i].fixture
  PROVE  Grows
BY ModelFacts DEF Grows, Stored

LEMMA BaselineRow ==
  ASSUME NEW f \in Fixture, NEW out \in Output
  PROVE  NewRow(f, "baseline", 0, FALSE, out, {}) \in Row
<1>1. 0 \in 0..MaxVersion
  BY ModelFacts
<1> QED BY <1>1, NewRowType DEF Model

LEMMA BatchRow ==
  ASSUME NEW f \in Fixture, NEW out \in Output, NEW v \in 0..MaxVersion, NEW b \in BOOLEAN
  PROVE  NewRow(f, "batch", v, b, out, {}) \in Row
BY NewRowType DEF Model

LEMMA BaselineRows ==
  ASSUME TypeOK, RefreshBaselines, NEW i \in RowId
  PROVE  \/ preds'[i] = preds[i]
         \/ /\ preds'[i] \in Row /\ preds'[i].model = "baseline" /\ preds'[i].version = 0
            /\ ~ preds'[i].backfill
            /\ preds[i] # NoRow => preds'[i].fixture = preds[i].fixture /\ preds[i].model = "baseline"
<1>1. PICK b \in BOOLEAN : b = FALSE
  OBVIOUS
<1>2. PICK slot \in Slots(Fixture, "baseline", 0), out \in [Fixture -> Accepted] :
        preds' = Upserted(slot, NewRows(Fixture, "baseline", 0, b, out))
  BY <1>1 DEF RefreshBaselines
<1>3. \A f \in Fixture : out[f] \in Output
  BY OutputsType DEF Outputs
<1>4. \A f \in Fixture : NewRow(f, "baseline", 0, b, out[f], {}) \in Row
  BY <1>1, <1>3, BaselineRow
<1>5. Fixture \in SUBSET Fixture
  OBVIOUS
<1>6. \/ preds'[i] = preds[i]
      \/ /\ preds'[i] \in Row /\ preds'[i].model = "baseline" /\ preds'[i].version = 0
         /\ preds'[i].backfill = b
         /\ preds[i] # NoRow => preds'[i].fixture = preds[i].fixture /\ preds[i].model = "baseline"
  BY <1>2, <1>4, <1>5, UpsertedRows
<1> QED BY <1>1, <1>6

LEMMA BatchRows ==
  ASSUME TypeOK, NEW j \in Job, BatchStore(j), NEW i \in RowId
  PROVE  \/ preds'[i] = preds[i]
         \/ /\ preds'[i] \in Row /\ preds'[i].model = "batch" /\ preds'[i].version = job[j].version
            /\ preds'[i].backfill = (job[j].kind = "batch_backfill")
            /\ preds[i] # NoRow => preds'[i].fixture = preds[i].fixture /\ preds[i].model = "batch"
<1>1. job[j] \in Session
  BY OpenSession DEF BatchStore
<1>2. job[j].over \in SUBSET Fixture /\ job[j].version \in 0..MaxVersion
  BY <1>1 DEF Session
<1>3. PICK b \in BOOLEAN : b = (job[j].kind = "batch_backfill")
  OBVIOUS
<1>4. PICK slot \in Slots(job[j].over, "batch", job[j].version), out \in [job[j].over -> Outputs] :
        preds' = Upserted(slot, NewRows(job[j].over, "batch", job[j].version, b, out))
  BY <1>3 DEF BatchStore
<1>5. \A f \in job[j].over : out[f] \in Output
  BY OutputsType
<1>6. \A f \in job[j].over : NewRow(f, "batch", job[j].version, b, out[f], {}) \in Row
  BY <1>2, <1>5, BatchRow
<1>7. \/ preds'[i] = preds[i]
      \/ /\ preds'[i] \in Row /\ preds'[i].model = "batch" /\ preds'[i].version = job[j].version
         /\ preds'[i].backfill = b
         /\ preds[i] # NoRow => preds'[i].fixture = preds[i].fixture /\ preds[i].model = "batch"
  BY <1>2, <1>4, <1>6, UpsertedRows
<1> QED BY <1>3, <1>7

LEMMA StepGrows == ASSUME IInv, [Next]_vars PROVE Grows
<1>1. TypeOK /\ \A j \in Job : job[j] # NoJob => SessionSound(j)
  BY DEF IInv
<1>2. TypeOK'
  BY TypeStep
<1>3. CASE UNCHANGED vars
  BY <1>3, SameGrows DEF vars
<1>4. CASE \E f \in Fixture : KickOff(f) \/ Sync(f)
  BY <1>4, SameGrows DEF KickOff, Sync
<1>5. CASE RefreshBaselines
  BY <1>1, <1>5, BaselineRows, RowsGrow DEF RefreshBaselines
<1>6. ASSUME NEW j \in Job, Step(j) PROVE Grows
  <2>1. CASE PredictStore(j)
    <3>1. SessionSound(j)
      BY <1>1, <2>1 DEF PredictStore, At
    <3>2. PICK f \in Fixture, i \in RowId :
            /\ \A k \in RowId : k # i => preds'[k] = preds[k]
            /\ \/ preds' = preds
               \/ /\ preds'[i] \in Row /\ preds'[i].fixture = f
                  /\ preds[i] # NoRow => preds[i].fixture = f
      BY <1>1, <2>1, <3>1, AttemptRows
    <3>3. ASSUME NEW k \in Stored PROVE k \in Stored' /\ preds'[k].fixture = preds[k].fixture
      BY <3>2, ModelFacts DEF Stored
    <3>4. UNCHANGED <<result, profiles>>
      BY <2>1 DEF PredictStore
    <3> QED BY <3>3, <3>4 DEF Grows
  <2>2. CASE BatchStore(j)
    BY <1>1, <2>2, BatchRows, RowsGrow DEF BatchStore
  <2>3. CASE GradeRead(j)
    BY <1>1, <2>3 DEF GradeRead, Grows, Stored, TypeOK
  <2>4. CASE GradeStore(j)
    BY <1>1, <2>4 DEF GradeStore, ResultUpserted, Grows, Stored, TypeOK
  <2>5. CASE AddProfile(j)
    BY <2>5 DEF AddProfile, Grows, Stored
  <2>6. CASE StartOne(j) \/ PredictRead(j) \/ DropGrades(j) \/ BatchRead(j)
             \/ CountEvidence(j) \/ GiveUp(j)
    BY <2>6, SameGrows DEF StartOne, PredictRead, DropGrades, BatchRead, CountEvidence, GiveUp
  <2> QED BY <1>6, <2>1, <2>2, <2>3, <2>4, <2>5, <2>6 DEF Step
<1> QED BY <1>3, <1>4, <1>5, <1>6 DEF Next

-----------------------------------------------------------------------------
(* Sessions stay sound *)

LEMMA SessionKept ==
  ASSUME TypeOK, Grows, NEW k \in Job, job[k] # NoJob, job'[k] = job[k], SessionSound(k)
  PROVE  SessionSound(k)'
<1>1. job[k] \in Session
  BY DEF TypeOK
<1>2. Seen(k)' = Seen(k)
  BY DEF Seen
<1>3. job[k].over \subseteq Fixture
  BY <1>1 DEF Session
<1>4. (\A i \in Seen(k) : /\ i \in Stored
                         /\ preds[i].fixture = job[k].view[i].fixture
                         /\ preds[i].fixture \in job[k].over)'
  BY <1>2 DEF SessionSound, Grows
<1>5. (job[k].stored => \A f \in job[k].over : result[f] # "none")'
  BY <1>3 DEF SessionSound, Grows
<1>6. (/\ job[k].at # "versioning" => job[k].version \in profiles \cup {0}
       /\ job[k].at = "versioning" => /\ job[k].version \in 1..MaxVersion
                                      /\ 1..(job[k].version - 1) \subseteq profiles)'
  BY DEF SessionSound, Grows
<1> QED BY <1>2, <1>4, <1>5, <1>6 DEF SessionSound

\* what is left to show of a session that just started or moved on
LEMMA SessionsKept ==
  ASSUME IInv, Grows, NEW j \in Job,
         \A k \in Job : k # j => job'[k] = job[k],
         job'[j] # NoJob => SessionSound(j)'
  PROVE  \A k \in Job : job'[k] # NoJob => SessionSound(k)'
BY SessionKept DEF IInv

LEMMA BeginFrame ==
  ASSUME TypeOK, NEW j \in Job, NEW s, Begin(j, s)
  PROVE  job'[j] = s /\ \A k \in Job : k # j => job'[k] = job[k]
BY DEF Begin, TypeOK

LEMMA DoneFrame ==
  ASSUME TypeOK, NEW j \in Job, Done(j)
  PROVE  job'[j] = NoJob /\ \A k \in Job : k # j => job'[k] = job[k]
BY DEF Done, TypeOK

LEMMA OpenedSound ==
  ASSUME NEW j \in Job, NEW k \in Kinds, NEW l, NEW S, NEW v,
         job'[j] = Opened(k, l, S, v),
         l \in {"queued", "drop", "regrade", "polling", "versioning"},
         l \notin {"polling", "versioning"} => \E f \in Fixture : S = {f},
         l \in {"queued", "drop"} => k \in Forced \cup Forward,
         l # "versioning" => v \in profiles' \cup {0},
         l = "versioning" => v \in 1..MaxVersion /\ 1..(v - 1) \subseteq profiles'
  PROVE  SessionSound(j)'
<1>1. Seen(j)' = {}
  BY DEF Seen, Opened, Blank
<1>2. job'[j].kind = k /\ job'[j].at = l /\ job'[j].over = S /\ job'[j].version = v
      /\ job'[j].stored = FALSE /\ job'[j].target = {}
  BY DEF Opened
<1> QED BY <1>1, <1>2 DEF SessionSound

LEMMA PredictReadSound ==
  ASSUME IInv, TypeOK', Grows, NEW j \in Job, PredictRead(j)
  PROVE  \A k \in Job : job'[k] # NoJob => SessionSound(k)'
<1>1. job[j] \in Session /\ job[j] # NoJob /\ job[j].at = "queued" /\ SessionSound(j) /\ TypeOK
  BY OpenSession DEF PredictRead, At, IInv
<1>2. PICK f \in Fixture : job[j].over = {f}
  BY <1>1 DEF SessionSound
<1>3. PICK v \in 0..MaxVersion :
        /\ LatestVersion(v)
        /\ \/ Done(j)
           \/ LET T == Target(f, job[j].kind \in Forced, v) IN
                Begin(j, Loaded(job[j], "searching", T, T, FALSE, v))
  BY <1>2 DEF PredictRead
<1> DEFINE T == Target(f, job[j].kind \in Forced, v)
<1>4. CASE Done(j)
  BY <1>1, <1>4, DoneFrame, SessionsKept
<1>5. CASE Begin(j, Loaded(job[j], "searching", T, T, FALSE, v))
  <2> DEFINE s == Loaded(job[j], "searching", T, T, FALSE, v)
  <2>1. job'[j] = s /\ \A k \in Job : k # j => job'[k] = job[k]
    BY <1>1, <1>5, BeginFrame
  <2>2. /\ s.kind = job[j].kind /\ s.at = "searching" /\ s.over = {f} /\ s.target = T
        /\ s.view = Only(T) /\ s.stored = FALSE /\ s.version = v
    BY <1>2 DEF Loaded
  <2> HIDE DEF s
  <2>3. T \subseteq RowsOf(f)
    BY DEF Target, Newest, Current, AlreadyOk
  <2> HIDE DEF T
  <2>4. Seen(j)' = T
    BY <2>1, <2>2, <2>3 DEF Seen, Only, RowsOf, Stored
  <2>5. \A i \in T : /\ i \in RowId /\ preds[i] # NoRow /\ preds[i].fixture = f
                    /\ s.view[i] = preds[i]
    BY <2>2, <2>3 DEF RowsOf, Stored, Only
  <2>6. job[j].kind \in Forced => \A i, k \in T : i = k
    <3>1. ASSUME job[j].kind \in Forced, NEW i \in T, NEW k \in T PROVE i = k
      <4>1. i <= k /\ k <= i
        BY <3>1 DEF T, Target, Newest
      <4>2. i \in Nat /\ k \in Nat
        BY <2>5, ModelFacts
      <4> QED BY <4>1, <4>2
    <3> QED BY <3>1
  <2>7. v \in profiles' \cup {0}
    BY <1>3 DEF LatestVersion, Grows
  <2>8. job[j].kind \in Kinds /\ job[j].kind \in Forced \cup Forward
    BY <1>1 DEF SessionSound
  <2>9. \A i \in T : i \in Stored' /\ preds'[i].fixture = preds[i].fixture
    BY <2>5 DEF Grows, Stored
  <2>10. SessionSound(j)'
    BY <2>1, <2>2, <2>4, <2>5, <2>6, <2>7, <2>8, <2>9 DEF SessionSound
  <2> QED BY <2>1, <2>10, SessionsKept
<1> QED BY <1>3, <1>4, <1>5

LEMMA GradeReadSound ==
  ASSUME IInv, TypeOK', Grows, NEW j \in Job, GradeRead(j)
  PROVE  \A k \in Job : job'[k] # NoJob => SessionSound(k)'
<1>1. job[j] \in Session /\ job[j] # NoJob /\ job[j].at = "regrade" /\ SessionSound(j) /\ TypeOK
  BY OpenSession DEF GradeRead, At, IInv
<1>2. PICK f \in Fixture : job[j].over = {f}
  BY <1>1 DEF SessionSound
<1>3. \/ Done(j)
      \/ Begin(j, Loaded(job[j], "grading", {}, Ungraded(f), result[f] = "final", 0))
  BY <1>2 DEF GradeRead
<1>4. CASE Done(j)
  BY <1>1, <1>4, DoneFrame, SessionsKept
<1>5. CASE Begin(j, Loaded(job[j], "grading", {}, Ungraded(f), result[f] = "final", 0))
  <2> DEFINE s == Loaded(job[j], "grading", {}, Ungraded(f), result[f] = "final", 0)
             T == Ungraded(f)
  <2>1. job'[j] = s /\ \A k \in Job : k # j => job'[k] = job[k]
    BY <1>1, <1>5, BeginFrame
  <2>2. /\ s.kind = job[j].kind /\ s.at = "grading" /\ s.over = {f}
        /\ s.view = Only(T) /\ s.stored = (result[f] = "final") /\ s.version = 0
    BY <1>2 DEF Loaded
  <2> HIDE DEF s
  <2>3. T \subseteq RowsOf(f)
    BY DEF Ungraded
  <2> HIDE DEF T
  <2>4. Seen(j)' = T
    BY <2>1, <2>2, <2>3 DEF Seen, Only, RowsOf, Stored
  <2>5. \A i \in T : /\ i \in RowId /\ preds[i] # NoRow /\ preds[i].fixture = f
                    /\ s.view[i] = preds[i]
    BY <2>2, <2>3 DEF RowsOf, Stored, Only
  <2>6. \A i \in T : i \in Stored' /\ preds'[i].fixture = preds[i].fixture
    BY <2>5 DEF Grows, Stored
  <2>7. s.stored => \A g \in s.over : result'[g] # "none"
    BY <2>2 DEF Grows
  <2>8. job[j].kind \in Kinds
    BY <1>1 DEF SessionSound
  <2>9. SessionSound(j)'
    BY <2>1, <2>2, <2>4, <2>5, <2>6, <2>7, <2>8 DEF SessionSound
  <2> QED BY <2>1, <2>9, SessionsKept
<1> QED BY <1>3, <1>4, <1>5

LEMMA SessionsStep ==
  ASSUME IInv, [Next]_vars PROVE \A k \in Job : job'[k] # NoJob => SessionSound(k)'
<1>1. TypeOK /\ TypeOK' /\ Grows /\ \A k \in Job : job[k] # NoJob => SessionSound(k)
  BY TypeStep, StepGrows DEF IInv
<1>2. CASE UNCHANGED job
  BY <1>1, <1>2, SessionKept
<1>3. CASE \E f \in Fixture : KickOff(f) \/ Sync(f)
  BY <1>2, <1>3 DEF KickOff, Sync
<1>4. CASE RefreshBaselines
  BY <1>2, <1>4 DEF RefreshBaselines
<1>5. ASSUME NEW j \in Job, Step(j)
      PROVE  \A k \in Job : job'[k] # NoJob => SessionSound(k)'
  <2>1. CASE StartOne(j)
    <3>1. PICK k \in Kinds \ {"baselines"}, f \in Fixture :
            Begin(j, Opened(k, IF k \in Forced \cup Forward THEN "queued" ELSE "regrade", {f}, 0))
      BY <2>1 DEF StartOne
    <3>2. job'[j] = Opened(k, IF k \in Forced \cup Forward THEN "queued" ELSE "regrade", {f}, 0)
          /\ \A h \in Job : h # j => job'[h] = job[h]
      BY <1>1, <3>1, BeginFrame
    <3>3. SessionSound(j)'
      <4>1. CASE k \in Forced \cup Forward
        BY <3>2, <4>1, OpenedSound
      <4>2. CASE k \notin Forced \cup Forward
        BY <3>2, <4>2, OpenedSound
      <4> QED BY <4>1, <4>2
    <3> QED BY <1>1, <3>2, <3>3, SessionsKept
  <2>2. CASE PredictRead(j)
    BY <1>1, <2>2, PredictReadSound
  <2>3. CASE PredictStore(j)
    <3>1. job[j] # NoJob /\ job[j].at = "searching" /\ SessionSound(j)
      BY <1>1, <2>3 DEF PredictStore, At
    <3>2. PICK f \in Fixture :
            /\ job[j].over = {f}
            /\ \/ Done(j)
               \/ job[j].kind \in Forced /\ Begin(j, Opened(job[j].kind, "drop", job[j].over, 0))
      BY <1>1, <2>3, <3>1, AttemptRows
    <3>3. CASE Done(j)
      BY <1>1, <3>3, DoneFrame, SessionsKept
    <3>4. CASE job[j].kind \in Forced /\ Begin(j, Opened(job[j].kind, "drop", job[j].over, 0))
      <4>1. job'[j] = Opened(job[j].kind, "drop", job[j].over, 0)
            /\ \A h \in Job : h # j => job'[h] = job[h]
        BY <1>1, <3>4, BeginFrame
      <4>2. job[j].kind \in Kinds
        BY <3>1 DEF SessionSound
      <4>3. SessionSound(j)'
        BY <3>2, <3>4, <4>1, <4>2, OpenedSound
      <4> QED BY <1>1, <4>1, <4>3, SessionsKept
    <3> QED BY <3>2, <3>3, <3>4
  <2>4. CASE DropGrades(j)
    <3>1. job[j] # NoJob /\ job[j].at = "drop" /\ SessionSound(j)
      BY <1>1, <2>4 DEF DropGrades, At
    <3>2. job'[j] = Opened(job[j].kind, "regrade", job[j].over, 0)
          /\ \A h \in Job : h # j => job'[h] = job[h]
      BY <1>1, <2>4, BeginFrame DEF DropGrades
    <3>3. job[j].kind \in Kinds /\ \E f \in Fixture : job[j].over = {f}
      BY <3>1 DEF SessionSound
    <3>4. SessionSound(j)'
      BY <3>2, <3>3, OpenedSound
    <3> QED BY <1>1, <3>2, <3>4, SessionsKept
  <2>5. CASE GradeRead(j)
    BY <1>1, <2>5, GradeReadSound
  <2>6. CASE GradeStore(j) \/ BatchStore(j) \/ AddProfile(j) \/ GiveUp(j)
    <3>1. Done(j)
      BY <2>6 DEF GradeStore, BatchStore, AddProfile, GiveUp
    <3> QED BY <1>1, <3>1, DoneFrame, SessionsKept
  <2>7. CASE BatchRead(j)
    <3>1. PICK k \in Kinds \cap Batches, v \in 0..MaxVersion, S \in SUBSET Fixture :
            LatestVersion(v) /\ Begin(j, Opened(k, "polling", S, v))
      BY <2>7 DEF BatchRead
    <3>2. job'[j] = Opened(k, "polling", S, v) /\ \A h \in Job : h # j => job'[h] = job[h]
      BY <1>1, <3>1, BeginFrame
    <3>3. v \in profiles' \cup {0}
      BY <1>1, <3>1 DEF LatestVersion, Grows
    <3>4. SessionSound(j)'
      BY <3>2, <3>3, OpenedSound
    <3> QED BY <1>1, <3>2, <3>4, SessionsKept
  <2>8. CASE CountEvidence(j)
    <3>1. PICK v \in 1..MaxVersion :
            NextVersion(v) /\ Begin(j, Opened("recompute", "versioning", {}, v))
      BY <2>8 DEF CountEvidence
    <3>2. job'[j] = Opened("recompute", "versioning", {}, v)
          /\ \A h \in Job : h # j => job'[h] = job[h]
      BY <1>1, <3>1, BeginFrame
    <3>3. 1..(v - 1) \subseteq profiles'
      <4>1. CASE v - 1 \in profiles
        BY <1>1, <4>1 DEF IInv, VersionsResolve, Grows
      <4>2. CASE v - 1 = 0
        BY <4>2
      <4> QED BY <3>1, <4>1, <4>2 DEF NextVersion
    <3>4. "recompute" \in Kinds
      BY <2>8 DEF CountEvidence
    <3>5. SessionSound(j)'
      BY <3>2, <3>3, <3>4, OpenedSound
    <3> QED BY <1>1, <3>2, <3>5, SessionsKept
  <2> QED BY <1>5, <2>1, <2>2, <2>3, <2>4, <2>5, <2>6, <2>7, <2>8 DEF Step
<1>6. CASE UNCHANGED vars
  BY <1>2, <1>6 DEF vars
<1> QED BY <1>3, <1>4, <1>5, <1>6 DEF Next

-----------------------------------------------------------------------------
(* Results, grades and versions *)

LEMMA ResultsPlayedStep == ASSUME IInv, [Next]_vars PROVE ResultsPlayed'
<1>1. TypeOK /\ ResultsPlayed
  BY DEF IInv
<1>2. CASE UNCHANGED <<played, result>>
  BY <1>1, <1>2 DEF ResultsPlayed
<1>3. CASE \E f \in Fixture : KickOff(f)
  BY <1>1, <1>3 DEF KickOff, ResultsPlayed
<1>4. ASSUME NEW j \in Job, GradeRead(j) PROVE ResultsPlayed'
  BY <1>1, <1>4 DEF GradeRead, ResultsPlayed, TypeOK
<1>5. ASSUME NEW j \in Job, GradeStore(j) PROVE ResultsPlayed'
  BY <1>1, <1>5 DEF GradeStore, ResultUpserted, ResultsPlayed, TypeOK
<1>6. CASE UNCHANGED vars \/ RefreshBaselines \/ \E f \in Fixture : Sync(f)
  BY <1>2, <1>6 DEF vars, RefreshBaselines, Sync
<1>7. ASSUME NEW j \in Job,
             \/ StartOne(j) \/ PredictRead(j) \/ PredictStore(j) \/ DropGrades(j) \/ BatchRead(j)
             \/ BatchStore(j) \/ CountEvidence(j) \/ AddProfile(j) \/ GiveUp(j)
      PROVE  ResultsPlayed'
  BY <1>2, <1>7 DEF StartOne, PredictRead, PredictStore, DropGrades, BatchRead, BatchStore,
     CountEvidence, AddProfile, GiveUp
<1> QED BY <1>3, <1>4, <1>5, <1>6, <1>7 DEF Next, Step

\* grades that stay put keep their results
LEMMA GradesKept ==
  ASSUME TypeOK, Grows, GradesHaveResults, ResultsPlayed',
         \A i \in RowId : grade'[i] # {} => grade[i] # {}
  PROVE  GradesHaveResults'
<1> SUFFICES ASSUME NEW i \in RowId, grade'[i] # {}
             PROVE  /\ i \in Stored'
                    /\ result'[preds'[i].fixture] # "none"
                    /\ result'[preds'[i].fixture] = "final" => preds'[i].fixture \in played'
  BY DEF GradesHaveResults
<1>1. i \in Stored /\ result[preds[i].fixture] # "none"
  BY DEF GradesHaveResults
<1>2. preds[i].fixture \in Fixture
  BY <1>1 DEF Stored, TypeOK, Row
<1> QED BY <1>1, <1>2 DEF Grows, ResultsPlayed

LEMMA GradesHaveResultsStep == ASSUME IInv, [Next]_vars PROVE GradesHaveResults'
<1>1. TypeOK /\ Grows /\ GradesHaveResults /\ ResultsPlayed'
  BY StepGrows, ResultsPlayedStep DEF IInv
<1>2. CASE UNCHANGED grade
  BY <1>1, <1>2, GradesKept
<1>3. CASE RefreshBaselines
  BY <1>1, <1>3, GradesKept DEF RefreshBaselines
<1>4. ASSUME NEW j \in Job, DropGrades(j) PROVE GradesHaveResults'
  BY <1>1, <1>4, GradesKept DEF DropGrades
<1>5. ASSUME NEW j \in Job, GradeStore(j) PROVE GradesHaveResults'
  <2>1. SessionSound(j)
    BY <1>5 DEF IInv, GradeStore, At
  <2>2. PICK f \in Fixture : job[j].over = {f}
    BY <1>5, <2>1 DEF SessionSound, GradeStore, At
  <2>3. CASE UNCHANGED <<grade, result>>
    BY <1>2, <2>3
  <2>4. CASE /\ result' = ResultUpserted(j, f)
             /\ grade' = [i \in RowId |-> IF i \in Seen(j)
                                          THEN {Scoreline(job[j].view[i])} ELSE grade[i]]
    <3>1. result'[f] # "none"
      BY <1>1, <2>1, <2>2, <2>4 DEF SessionSound, ResultUpserted, TypeOK
    <3> SUFFICES ASSUME NEW i \in RowId, grade'[i] # {}
                 PROVE  /\ i \in Stored'
                        /\ result'[preds'[i].fixture] # "none"
                        /\ result'[preds'[i].fixture] = "final" => preds'[i].fixture \in played'
      BY DEF GradesHaveResults
    <3>2. i \in Stored /\ preds'[i].fixture = preds[i].fixture /\ i \in Stored'
      BY <1>1, <2>1, <2>4 DEF SessionSound, GradesHaveResults, Grows
    <3>3. preds[i].fixture \in Fixture
      BY <1>1, <3>2 DEF Stored, TypeOK, Row
    <3>4. result'[preds[i].fixture] # "none"
      <4>1. CASE i \in Seen(j)
        BY <2>1, <2>2, <3>1, <4>1 DEF SessionSound
      <4>2. CASE i \notin Seen(j)
        BY <1>1, <2>4, <3>3, <4>2 DEF GradesHaveResults, Grows
      <4> QED BY <4>1, <4>2
    <3> QED BY <1>1, <3>2, <3>3, <3>4 DEF ResultsPlayed
  <2> QED BY <1>5, <2>2, <2>3, <2>4 DEF GradeStore
<1>6. CASE UNCHANGED vars \/ \E f \in Fixture : KickOff(f) \/ Sync(f)
  BY <1>2, <1>6 DEF vars, KickOff, Sync
<1>7. ASSUME NEW j \in Job,
             \/ StartOne(j) \/ PredictRead(j) \/ PredictStore(j) \/ GradeRead(j) \/ BatchRead(j)
             \/ BatchStore(j) \/ CountEvidence(j) \/ AddProfile(j) \/ GiveUp(j)
      PROVE  GradesHaveResults'
  BY <1>2, <1>7 DEF StartOne, PredictRead, PredictStore, GradeRead, BatchRead, BatchStore,
     CountEvidence, AddProfile, GiveUp
<1> QED BY <1>3, <1>4, <1>5, <1>6, <1>7 DEF Next, Step

\* rows that stay put, or whose version is known, keep their profiles
LEMMA RowVersionsKept ==
  ASSUME TypeOK, Grows, VersionsResolve,
         \A i \in RowId : \/ preds'[i] = preds[i]
                         \/ preds'[i].version \in profiles \cup {0}
  PROVE  \A i \in Stored' : preds'[i].version \in profiles' \cup {0}
<1> SUFFICES ASSUME NEW i \in Stored' PROVE preds'[i].version \in profiles \cup {0}
  BY DEF Grows
<1>1. i \in RowId
  BY DEF Stored
<1>2. CASE preds'[i] = preds[i]
  <2>1. i \in Stored
    BY <1>1, <1>2 DEF Stored
  <2> QED BY <1>2, <2>1 DEF VersionsResolve
<1> QED BY <1>1, <1>2

LEMMA VersionsResolveStep == ASSUME IInv, [Next]_vars PROVE VersionsResolve'
<1>1. TypeOK /\ Grows /\ VersionsResolve /\ \A j \in Job : job[j] # NoJob => SessionSound(j)
  BY StepGrows DEF IInv
<1>2. CASE UNCHANGED <<preds, profiles>>
  BY <1>1, <1>2 DEF VersionsResolve, Stored
<1>3. CASE RefreshBaselines
  <2>4. ASSUME NEW i \in RowId PROVE preds'[i] = preds[i] \/ preds'[i].version = 0
    BY <1>1, <1>3, BaselineRows
  <2>5. profiles' = profiles
    BY <1>3 DEF RefreshBaselines
  <2> QED BY <1>1, <2>4, <2>5, RowVersionsKept DEF VersionsResolve
<1>4. ASSUME NEW j \in Job, PredictStore(j) PROVE VersionsResolve'
  <2>1. SessionSound(j) /\ job[j].at = "searching"
    BY <1>1, <1>4 DEF PredictStore, At
  <2>2. PICK i \in RowId :
          /\ \A k \in RowId : k # i => preds'[k] = preds[k]
          /\ \/ preds' = preds
             \/ preds'[i].version \in {job[j].version} \cup
                   (IF preds[i] = NoRow THEN {} ELSE {preds[i].version})
    BY <1>1, <1>4, <2>1, AttemptRows
  <2>3. job[j].version \in profiles \cup {0}
    BY <2>1 DEF SessionSound
  <2>4. preds[i] # NoRow => preds[i].version \in profiles \cup {0}
    BY <1>1 DEF VersionsResolve, Stored
  <2>5. \A k \in RowId : preds'[k] = preds[k] \/ preds'[k].version \in profiles \cup {0}
    BY <2>2, <2>3, <2>4
  <2>6. profiles' = profiles
    BY <1>4 DEF PredictStore
  <2> QED BY <1>1, <2>5, <2>6, RowVersionsKept DEF VersionsResolve
<1>5. ASSUME NEW j \in Job, BatchStore(j) PROVE VersionsResolve'
  <2>1. SessionSound(j) /\ job[j].at = "polling"
    BY <1>1, <1>5 DEF BatchStore, At
  <2>2. job[j].version \in profiles \cup {0}
    BY <2>1 DEF SessionSound
  <2>6. \A i \in RowId : preds'[i] = preds[i] \/ preds'[i].version = job[j].version
    BY <1>1, <1>5, BatchRows
  <2>7. profiles' = profiles
    BY <1>5 DEF BatchStore
  <2> QED BY <1>1, <2>2, <2>6, <2>7, RowVersionsKept DEF VersionsResolve
<1>6. ASSUME NEW j \in Job, AddProfile(j) PROVE VersionsResolve'
  <2> DEFINE v == job[j].version
  <2>1. v \in 1..MaxVersion /\ 1..(v - 1) \subseteq profiles
    BY <1>1, <1>6 DEF AddProfile, At, SessionSound
  <2>2. profiles' = profiles \cup {v} /\ preds' = preds
    BY <1>6 DEF AddProfile
  <2>3. 1..v \subseteq profiles'
    BY <2>1, <2>2, ModelFacts
  <2> HIDE DEF v
  <2>4. \A w \in profiles' : 1..w \subseteq profiles'
    BY <1>1, <2>2, <2>3 DEF VersionsResolve
  <2>5. \A i \in Stored' : preds'[i].version \in profiles' \cup {0}
    BY <1>1, <2>2, RowVersionsKept
  <2> QED BY <2>4, <2>5 DEF VersionsResolve
<1>7. CASE UNCHANGED vars \/ \E f \in Fixture : KickOff(f) \/ Sync(f)
  BY <1>2, <1>7 DEF vars, KickOff, Sync
<1>8. ASSUME NEW j \in Job,
             \/ StartOne(j) \/ PredictRead(j) \/ DropGrades(j) \/ GradeRead(j) \/ GradeStore(j)
             \/ BatchRead(j) \/ CountEvidence(j) \/ GiveUp(j)
      PROVE  VersionsResolve'
  BY <1>2, <1>8 DEF StartOne, PredictRead, DropGrades, GradeRead, GradeStore, BatchRead,
     CountEvidence, GiveUp
<1> QED BY <1>3, <1>4, <1>5, <1>6, <1>7, <1>8 DEF Next, Step

-----------------------------------------------------------------------------
(* One OK prediction per fixture, under the locks of the runs *)

\* the OK predictions of the model: only predict_fixture adds to them
OkRow(row) == row # NoRow /\ row.ok /\ row.model = "llm"

LEMMA OkRowsKept ==
  ASSUME TypeOK, LockSound, OneOkPerFixture, Grows,
         \A i \in RowId : OkRow(preds'[i]) => OkRow(preds[i]) /\ preds'[i].fixture = preds[i].fixture
  PROVE  /\ OneOkPerFixture'
         /\ \A f \in Fixture : AlreadyOk(f)' \subseteq AlreadyOk(f)
<1>1. ASSUME NEW i \in Stored', preds'[i].ok, preds'[i].model = "llm"
      PROVE  i \in Stored /\ preds[i].ok /\ preds[i].model = "llm" /\ preds'[i].fixture = preds[i].fixture
  BY <1>1 DEF OkRow, Stored
<1>2. OneOkPerFixture'
  BY <1>1 DEF OneOkPerFixture
<1>3. \A f \in Fixture : AlreadyOk(f)' \subseteq AlreadyOk(f)
  BY <1>1 DEF AlreadyOk, RowsOf
<1> QED BY <1>2, <1>3

LEMMA MutexStep == ASSUME IInv, [Next]_vars, Mutex PROVE Mutex'
<1>1. TypeOK /\ \A j \in Job : job[j] # NoJob => SessionSound(j)
  BY DEF IInv
<1>2. CASE UNCHANGED job
  BY <1>2 DEF Mutex
<1>3. CASE UNCHANGED vars \/ RefreshBaselines \/ \E f \in Fixture : KickOff(f) \/ Sync(f)
  BY <1>2, <1>3 DEF vars, RefreshBaselines, KickOff, Sync
<1>4. ASSUME NEW j \in Job, Step(j) PROVE Mutex'
  <2>1. ASSUME \A k \in Job : k # j => job'[k] = job[k],
               job'[j] # NoJob /\ job'[j].kind \in PredictLock =>
                 job[j] # NoJob /\ job[j].kind = job'[j].kind
        PROVE  Mutex'
    BY <2>1 DEF Mutex
  <2>2. CASE StartOne(j)
    <3>1. PICK k \in Kinds \ {"baselines"}, f \in Fixture :
            /\ k \in PredictLock => Free(PredictLock)
            /\ Begin(j, Opened(k, IF k \in Forced \cup Forward THEN "queued" ELSE "regrade", {f}, 0))
      BY <2>2 DEF StartOne
    <3>2. job'[j].kind = k /\ \A h \in Job : h # j => job'[h] = job[h]
      BY <1>1, <3>1, BeginFrame DEF Opened
    <3> QED BY <3>1, <3>2 DEF Mutex, Free
  <2>3. CASE PredictRead(j)
    <3>1. PICK f, v : \/ Done(j)
                      \/ LET T == Target(f, job[j].kind \in Forced, v) IN
                           Begin(j, Loaded(job[j], "searching", T, T, FALSE, v))
      BY <2>3 DEF PredictRead
    <3>2. job[j] # NoJob
      BY <2>3 DEF PredictRead, At
    <3> QED BY <1>1, <2>1, <3>1, <3>2, BeginFrame, DoneFrame DEF Loaded
  <2>4. CASE GradeRead(j)
    <3>1. PICK f : \/ Done(j)
                   \/ Begin(j, Loaded(job[j], "grading", {}, Ungraded(f), result[f] = "final", 0))
      BY <2>4 DEF GradeRead
    <3>2. job[j] # NoJob
      BY <2>4 DEF GradeRead, At
    <3> QED BY <1>1, <2>1, <3>1, <3>2, BeginFrame, DoneFrame DEF Loaded
  <2>5. CASE PredictStore(j)
    <3>1. job[j] # NoJob /\ SessionSound(j)
      BY <1>1, <2>5 DEF PredictStore, At
    <3>2. Done(j) \/ Begin(j, Opened(job[j].kind, "drop", job[j].over, 0))
      BY <1>1, <2>5, <3>1, AttemptRows
    <3> QED BY <1>1, <2>1, <3>1, <3>2, BeginFrame, DoneFrame DEF Opened
  <2>6. CASE DropGrades(j)
    <3>1. job[j] # NoJob
      BY <2>6 DEF DropGrades, At
    <3>2. Begin(j, Opened(job[j].kind, "regrade", job[j].over, 0))
      BY <2>6 DEF DropGrades
    <3> QED BY <1>1, <2>1, <3>1, <3>2, BeginFrame DEF Opened
  <2>7. CASE BatchRead(j)
    <3>1. PICK k \in Kinds \cap Batches, v \in 0..MaxVersion, S \in SUBSET Fixture :
            Begin(j, Opened(k, "polling", S, v))
      BY <2>7 DEF BatchRead
    <3>2. k \notin PredictLock
      BY DEF Batches, PredictLock
    <3> QED BY <1>1, <2>1, <3>1, <3>2, BeginFrame DEF Opened
  <2>8. CASE CountEvidence(j)
    <3>1. PICK v : Begin(j, Opened("recompute", "versioning", {}, v))
      BY <2>8 DEF CountEvidence
    <3> QED BY <1>1, <2>1, <3>1, BeginFrame DEF Opened, PredictLock
  <2>9. CASE GradeStore(j) \/ BatchStore(j) \/ AddProfile(j) \/ GiveUp(j)
    <3>1. Done(j)
      BY <2>9 DEF GradeStore, BatchStore, AddProfile, GiveUp
    <3> QED BY <1>1, <2>1, <3>1, DoneFrame
  <2> QED BY <1>4, <2>2, <2>3, <2>4, <2>5, <2>6, <2>7, <2>8, <2>9 DEF Step
<1> QED BY <1>3, <1>4 DEF Next

View(j) == At(j, "searching") =>
             \A f \in job[j].over : AlreadyOk(f) \subseteq (IF job[j].kind \in Forced
                                                           THEN job[j].target ELSE {})

\* every step but predict_fixture's own write leaves the OK predictions alone
LEMMA OkRowsStep ==
  ASSUME IInv, [Next]_vars, \A j \in Job : ~ PredictStore(j), NEW i \in RowId
  PROVE  OkRow(preds'[i]) => OkRow(preds[i]) /\ preds'[i].fixture = preds[i].fixture
<1>1. TypeOK /\ \A j \in Job : job[j] # NoJob => SessionSound(j)
  BY DEF IInv
<1>2. CASE UNCHANGED preds
  BY <1>2
<1>3. CASE RefreshBaselines
  BY <1>1, <1>3, BaselineRows DEF OkRow
<1>4. ASSUME NEW j \in Job, BatchStore(j)
      PROVE  OkRow(preds'[i]) => OkRow(preds[i]) /\ preds'[i].fixture = preds[i].fixture
  BY <1>1, <1>4, BatchRows DEF OkRow
<1>5. CASE UNCHANGED vars \/ \E f \in Fixture : KickOff(f) \/ Sync(f)
  BY <1>2, <1>5 DEF vars, KickOff, Sync
<1>6. ASSUME NEW j \in Job,
             \/ StartOne(j) \/ PredictRead(j) \/ DropGrades(j) \/ GradeRead(j) \/ GradeStore(j)
             \/ BatchRead(j) \/ CountEvidence(j) \/ AddProfile(j) \/ GiveUp(j)
      PROVE  UNCHANGED preds
  BY <1>6 DEF StartOne, PredictRead, DropGrades, GradeRead, GradeStore, BatchRead,
     CountEvidence, AddProfile, GiveUp
<1> QED BY <1>2, <1>3, <1>4, <1>5, <1>6 DEF Next, Step

\* a session starts searching only in PredictRead
LEMMA SearchingStep ==
  ASSUME IInv, [Next]_vars, NEW k \in Job, At(k, "searching")', ~ PredictRead(k)
  PROVE  job'[k] = job[k]
<1>1. TypeOK /\ \A j \in Job : job[j] # NoJob => SessionSound(j)
  BY DEF IInv
<1>2. CASE UNCHANGED vars \/ RefreshBaselines \/ \E f \in Fixture : KickOff(f) \/ Sync(f)
  BY <1>2 DEF vars, RefreshBaselines, KickOff, Sync
<1>3. ASSUME NEW j \in Job, Step(j) PROVE job'[k] = job[k]
  <2>1. \A s : (Begin(j, s) \/ Done(j)) /\ k # j => job'[k] = job[k]
    BY <1>1, BeginFrame, DoneFrame
  <2>2. ASSUME NEW s, s.at # "searching", Begin(j, s) PROVE k # j
    BY <1>1, <2>2, BeginFrame DEF At
  <2>3. ASSUME Done(j) PROVE k # j
    BY <1>1, <2>3, DoneFrame DEF At
  <2>4. CASE StartOne(j)
    <3>1. PICK c \in Kinds \ {"baselines"}, f \in Fixture :
            Begin(j, Opened(c, IF c \in Forced \cup Forward THEN "queued" ELSE "regrade", {f}, 0))
      BY <2>4 DEF StartOne
    <3> DEFINE s == Opened(c, IF c \in Forced \cup Forward THEN "queued" ELSE "regrade", {f}, 0)
    <3>2. s.at # "searching"
      BY DEF Opened
    <3> QED BY <2>1, <2>2, <3>1, <3>2
  <2>5. CASE PredictRead(j)
    <3>1. j # k
      BY <2>5
    <3>2. PICK f, v : \/ Done(j)
                      \/ LET T == Target(f, job[j].kind \in Forced, v) IN
                           Begin(j, Loaded(job[j], "searching", T, T, FALSE, v))
      BY <2>5 DEF PredictRead
    <3> QED BY <2>1, <3>1, <3>2
  <2>6. CASE PredictStore(j)
    <3>1. job[j] # NoJob /\ SessionSound(j)
      BY <1>1, <2>6 DEF PredictStore, At
    <3>2. Done(j) \/ Begin(j, Opened(job[j].kind, "drop", job[j].over, 0))
      BY <1>1, <2>6, <3>1, AttemptRows
    <3>3. Opened(job[j].kind, "drop", job[j].over, 0).at # "searching"
      BY DEF Opened
    <3> QED BY <2>1, <2>2, <2>3, <3>2, <3>3
  <2>7. CASE DropGrades(j)
    <3>1. Begin(j, Opened(job[j].kind, "regrade", job[j].over, 0))
      BY <2>7 DEF DropGrades
    <3>2. Opened(job[j].kind, "regrade", job[j].over, 0).at # "searching"
      BY DEF Opened
    <3> QED BY <2>1, <2>2, <3>1, <3>2
  <2>8. CASE GradeRead(j)
    <3>1. PICK f : \/ Done(j)
                   \/ Begin(j, Loaded(job[j], "grading", {}, Ungraded(f), result[f] = "final", 0))
      BY <2>8 DEF GradeRead
    <3>2. Loaded(job[j], "grading", {}, Ungraded(f), result[f] = "final", 0).at # "searching"
      BY DEF Loaded
    <3> QED BY <2>1, <2>2, <2>3, <3>1, <3>2
  <2>9. CASE BatchRead(j)
    <3>1. PICK c \in Kinds \cap Batches, v \in 0..MaxVersion, S \in SUBSET Fixture :
            Begin(j, Opened(c, "polling", S, v))
      BY <2>9 DEF BatchRead
    <3>2. Opened(c, "polling", S, v).at # "searching"
      BY DEF Opened
    <3> QED BY <2>1, <2>2, <3>1, <3>2
  <2>10. CASE CountEvidence(j)
    <3>1. PICK v : Begin(j, Opened("recompute", "versioning", {}, v))
      BY <2>10 DEF CountEvidence
    <3>2. Opened("recompute", "versioning", {}, v).at # "searching"
      BY DEF Opened
    <3> QED BY <2>1, <2>2, <3>1, <3>2
  <2>11. CASE GradeStore(j) \/ BatchStore(j) \/ AddProfile(j) \/ GiveUp(j)
    <3>1. Done(j)
      BY <2>11 DEF GradeStore, BatchStore, AddProfile, GiveUp
    <3> QED BY <2>1, <2>3, <3>1
  <2> QED BY <1>3, <2>4, <2>5, <2>6, <2>7, <2>8, <2>9, <2>10, <2>11 DEF Step
<1> QED BY <1>2, <1>3 DEF Next

LEMMA LockStep ==
  ASSUME IInv, [Next]_vars, ManagedOnly PROVE LockSound' /\ OneOkPerFixture'
<1>1. TypeOK /\ Grows /\ LockSound /\ OneOkPerFixture /\ \A j \in Job : job[j] # NoJob => SessionSound(j)
  BY StepGrows DEF IInv
<1>2. Mutex /\ Mutex' /\ \A k \in Job : View(k)
  BY <1>1, MutexStep DEF LockSound, Mutex, View
<1> SUFFICES OneOkPerFixture' /\ \A k \in Job : View(k)'
  BY <1>2 DEF LockSound, Mutex, View
<1>3. CASE \A j \in Job : ~ PredictStore(j)
  <2>1. OneOkPerFixture' /\ \A f \in Fixture : AlreadyOk(f)' \subseteq AlreadyOk(f)
    BY <1>1, <1>3, OkRowsStep, OkRowsKept
  <2>2. ASSUME NEW k \in Job, At(k, "searching")' PROVE View(k)'
    <3>1. CASE job'[k] = job[k]
      <4>1. job[k] \in Session /\ At(k, "searching")
        BY <1>1, <2>2, <3>1, OpenSession DEF At
      <4>2. job[k].over \subseteq Fixture
        BY <4>1 DEF Session
      <4> QED BY <1>2, <2>1, <3>1, <4>1, <4>2 DEF View
    <3>2. CASE PredictRead(k)
      <4>1. job[k] \in Session /\ job[k] # NoJob /\ SessionSound(k)
        BY <1>1, <3>2, OpenSession DEF PredictRead, At
      <4>2. PICK f \in Fixture : job[k].over = {f}
        BY <3>2, <4>1 DEF SessionSound, PredictRead, At
      <4>3. PICK v \in 0..MaxVersion :
              \/ Done(k)
              \/ /\ AlreadyOk(f) = {} \/ job[k].kind \in Forced
                 /\ LET T == Target(f, job[k].kind \in Forced, v) IN
                      Begin(k, Loaded(job[k], "searching", T, T, FALSE, v))
        BY <3>2, <4>2 DEF PredictRead
      <4> DEFINE T == Target(f, job[k].kind \in Forced, v)
      <4>4. ~ Done(k)
        BY <1>1, <2>2, DoneFrame DEF At
      <4>5. job'[k] = Loaded(job[k], "searching", T, T, FALSE, v)
        <5>1. Begin(k, Loaded(job[k], "searching", T, T, FALSE, v))
          BY <4>3, <4>4
        <5> HIDE DEF T
        <5> QED BY <1>1, <5>1, BeginFrame
      <4>6. job'[k].kind = job[k].kind /\ job'[k].over = {f} /\ job'[k].target = T
        BY <4>2, <4>5 DEF Loaded
      <4>7. AlreadyOk(f) \subseteq (IF job[k].kind \in Forced THEN T ELSE {})
        <5>1. CASE job[k].kind \notin Forced
          BY <4>3, <4>4, <5>1
        <5>2. CASE job[k].kind \in Forced
          <6> SUFFICES ASSUME NEW i \in AlreadyOk(f) PROVE i \in Newest(AlreadyOk(f))
            BY <5>2 DEF Target
          <6>1. \A h \in AlreadyOk(f) : h = i
            BY <1>1 DEF OneOkPerFixture, AlreadyOk, RowsOf
          <6>2. i \in Nat
            BY ModelFacts DEF AlreadyOk, RowsOf, Stored
          <6> QED BY <6>1, <6>2 DEF Newest
        <5> QED BY <5>1, <5>2
      <4> HIDE DEF T
      <4> QED BY <2>1, <4>6, <4>7 DEF View
    <3> QED BY <2>2, <3>1, <3>2, SearchingStep
  <2>3. \A k \in Job : View(k)'
    BY <2>2 DEF View
  <2> QED BY <2>1, <2>3
<1>4. ASSUME NEW j \in Job, PredictStore(j) PROVE OneOkPerFixture' /\ \A k \in Job : View(k)'
  <2>1. At(j, "searching") /\ SessionSound(j) /\ job[j] # NoJob /\ job[j].at = "searching"
    BY <1>1, <1>4 DEF PredictStore, At
  <2>2. PICK f \in Fixture, w \in RowId :
           /\ job[j].over = {f}
           /\ \A k \in RowId : k # w => preds'[k] = preds[k]
           /\ \/ preds' = preds
              \/ /\ preds'[w] \in Row /\ preds'[w].fixture = f
                 /\ preds[w] # NoRow => preds[w].fixture = f
                 /\ w \in job[j].target \/ job[j].target = {}
           /\ \/ Done(j)
              \/ job[j].kind \in Forced /\ Begin(j, Opened(job[j].kind, "drop", job[j].over, 0))
    BY <1>1, <1>4, <2>1, AttemptRows
  <2>3. AlreadyOk(f) \subseteq (IF job[j].kind \in Forced THEN job[j].target ELSE {})
    BY <1>2, <2>1, <2>2 DEF View
  <2>4. OneOkPerFixture'
    <3>1. CASE preds' = preds
      BY <1>1, <3>1 DEF OneOkPerFixture, Stored
    <3>2. CASE preds' # preds
      <4>1. ASSUME NEW k \in AlreadyOk(f) PROVE k = w
        <5>1. job[j].kind \in Forced /\ k \in job[j].target
          BY <2>3, <4>1
        <5>2. w \in job[j].target
          BY <2>2, <3>2, <5>1
        <5> QED BY <2>1, <5>1, <5>2 DEF SessionSound
      <4>2. ASSUME NEW i \in Stored', NEW k \in Stored', preds'[i].fixture = preds'[k].fixture,
                   preds'[i].ok, preds'[i].model = "llm", preds'[k].ok, preds'[k].model = "llm"
            PROVE  i = k
        <5>1. i \in RowId /\ k \in RowId /\ preds'[i] # NoRow /\ preds'[k] # NoRow
          BY DEF Stored
        <5>2. CASE i # w /\ k # w
          BY <1>1, <2>2, <4>2, <5>1, <5>2 DEF OneOkPerFixture, Stored
        <5>3. CASE i = w /\ k # w
          <6>1. preds[k] = preds'[k] /\ preds'[k].fixture = f
            BY <2>2, <3>2, <4>2, <5>1, <5>3
          <6>2. k \in AlreadyOk(f)
            BY <4>2, <5>1, <6>1 DEF AlreadyOk, RowsOf, Stored
          <6> QED BY <4>1, <5>3, <6>2
        <5>4. CASE i # w /\ k = w
          <6>1. preds[i] = preds'[i] /\ preds'[i].fixture = f
            BY <2>2, <3>2, <4>2, <5>1, <5>4
          <6>2. i \in AlreadyOk(f)
            BY <4>2, <5>1, <6>1 DEF AlreadyOk, RowsOf, Stored
          <6> QED BY <4>1, <5>4, <6>2
        <5> QED BY <5>2, <5>3, <5>4
      <4> QED BY <4>2 DEF OneOkPerFixture
    <3> QED BY <3>1, <3>2
  <2>5. ASSUME NEW k \in Job PROVE ~ At(k, "searching")'
    <3>1. CASE k = j
      <4>1. CASE Done(j)
        BY <1>1, <3>1, <4>1, DoneFrame DEF At
      <4>2. CASE Begin(j, Opened(job[j].kind, "drop", job[j].over, 0))
        <5>1. job'[j] = Opened(job[j].kind, "drop", job[j].over, 0)
          BY <1>1, <4>2, BeginFrame
        <5> QED BY <3>1, <5>1 DEF At, Opened
      <4> QED BY <2>2, <4>1, <4>2
    <3>2. CASE k # j
      <4> SUFFICES ASSUME At(k, "searching")' PROVE FALSE
        OBVIOUS
      <4>1. job'[k] = job[k]
        BY <1>1, <2>2, <3>2, BeginFrame, DoneFrame
      <4>2. At(k, "searching") /\ job[k] # NoJob /\ job[k].at = "searching" /\ SessionSound(k)
        BY <1>1, <4>1 DEF At
      <4>3. job[j].kind \in PredictLock /\ job[k].kind \in PredictLock
        BY <2>1, <4>2 DEF SessionSound, ManagedOnly, PredictLock, Forced, Forward
      <4> QED BY <1>2, <2>1, <3>2, <4>2, <4>3 DEF Mutex
    <3> QED BY <3>1, <3>2
  <2> QED BY <2>4, <2>5 DEF View
<1> QED BY <1>3, <1>4

-----------------------------------------------------------------------------
(* The theorems *)

LEMMA InvInit == Init => IInv
<1> SUFFICES ASSUME Init PROVE IInv
  OBVIOUS
<1>1. TypeOK
  BY TypeInit
<1>2. Stored = {} /\ (\A j \in Job : job[j] = NoJob)
  BY DEF Init, Stored, Blank
<1>3. ResultsPlayed /\ GradesHaveResults /\ VersionsResolve
  BY <1>2 DEF Init, ResultsPlayed, GradesHaveResults, VersionsResolve
<1>4. LockSound /\ OneOkPerFixture
  BY <1>2 DEF LockSound, OneOkPerFixture, At
<1> QED BY <1>1, <1>2, <1>3, <1>4 DEF IInv

LEMMA InvStep == IInv /\ [Next]_vars => IInv'
<1> SUFFICES ASSUME IInv, [Next]_vars PROVE IInv'
  OBVIOUS
<1>1. TypeOK' /\ \A j \in Job : job'[j] # NoJob => SessionSound(j)'
  BY TypeStep, SessionsStep
<1>2. ResultsPlayed' /\ GradesHaveResults' /\ VersionsResolve'
  BY ResultsPlayedStep, GradesHaveResultsStep, VersionsResolveStep
<1>3. ManagedOnly => LockSound' /\ OneOkPerFixture'
  BY LockStep
<1> QED BY <1>1, <1>2, <1>3 DEF IInv, ManagedOnly

(***************************************************************************)
(* The inductive invariant of the pipeline: what the open sessions of      *)
(* prediction_service.py, grading_service.py, batch_backfill_service.py    *)
(* and calibration_service.py remember stays compatible with the rows.     *)
(***************************************************************************)
THEOREM Invariance == Spec => []IInv
BY InvInit, InvStep, PTL DEF Spec

(***************************************************************************)
(* Every variable keeps its type: domain.py's columns, and the sessions.   *)
(***************************************************************************)
THEOREM TypeCorrect == Spec => []TypeOK
<1>1. IInv => TypeOK
  BY DEF IInv
<1> QED BY <1>1, Invariance, PTL

(***************************************************************************)
(* Behind every Grade of grading_service.py stands the Result of a match   *)
(* that was played, however the sessions that grade, void, drop grades and *)
(* rewrite predictions overlap.                                            *)
(***************************************************************************)
THEOREM GradesStandOnResults == Spec => []GradesHaveResults
<1>1. IInv => GradesHaveResults
  BY DEF IInv
<1> QED BY <1>1, Invariance, PTL

(***************************************************************************)
(* recompute (calibration_service.py) leaves no gap in the versions and no *)
(* prediction cites a profile that never existed.                          *)
(***************************************************************************)
THEOREM VersionsAreComplete == Spec => []VersionsResolve
<1>1. IInv => VersionsResolve
  BY DEF IInv
<1> QED BY <1>1, Invariance, PTL

(***************************************************************************)
(* When only runs under the prediction lock of run_service.py predict,     *)
(* predict_fixture never gives a fixture a second OK prediction, although  *)
(* it decides on rows it read before the search.                           *)
(***************************************************************************)
THEOREM NeverPaidTwice == ManagedOnly => (Spec => []OneOkPerFixture)
<1>1. SUFFICES ASSUME ManagedOnly PROVE Spec => []OneOkPerFixture
  OBVIOUS
<1>2. IInv => OneOkPerFixture
  BY <1>1 DEF IInv
<1> QED BY <1>2, Invariance, PTL

(***************************************************************************)
(* Grades are append-only: sessions that grade the same prediction at the  *)
(* same time never replace each other's Grade (Grade.prediction_id is      *)
(* unique in domain.py), they only lose their own.                         *)
(***************************************************************************)
THEOREM NoGradeReplaced == Spec => GradesAppendOnly
<1> DEFINE Kept == \A i \in RowId : grade[i] # {} => grade'[i] \in {grade[i], {}}
<1>1. ASSUME IInv, [Next]_vars PROVE [Kept]_vars
  <2>1. TypeOK
    BY <1>1 DEF IInv
  <2>2. CASE UNCHANGED grade
    BY <2>2
  <2>3. CASE RefreshBaselines
    BY <2>1, <2>3 DEF RefreshBaselines, TypeOK
  <2>4. ASSUME NEW j \in Job, DropGrades(j) PROVE Kept
    BY <2>1, <2>4 DEF DropGrades, TypeOK
  <2>5. ASSUME NEW j \in Job, GradeStore(j) PROVE Kept
    BY <2>1, <2>5 DEF GradeStore, Conflict, TypeOK
  <2>6. CASE UNCHANGED vars \/ \E f \in Fixture : KickOff(f) \/ Sync(f)
    BY <2>2, <2>6 DEF vars, KickOff, Sync
  <2>7. ASSUME NEW j \in Job,
             \/ StartOne(j) \/ PredictRead(j) \/ PredictStore(j) \/ GradeRead(j) \/ BatchRead(j)
             \/ BatchStore(j) \/ CountEvidence(j) \/ AddProfile(j) \/ GiveUp(j)
        PROVE  Kept
    BY <2>2, <2>7 DEF StartOne, PredictRead, PredictStore, GradeRead, BatchRead,
       BatchStore, CountEvidence, AddProfile, GiveUp
  <2> QED BY <1>1, <2>3, <2>4, <2>5, <2>6, <2>7 DEF Next, Step
<1>2. Spec => [][Kept]_vars
  BY <1>1, Invariance, PTL DEF Spec
<1> QED BY <1>2 DEF GradesAppendOnly
=============================================================================
