--------------------------- MODULE RunBookProofs ---------------------------
(***************************************************************************)
(* What the run history says is true: theorems about the rows and items of *)
(* the runs, for any number of tasks, fixtures, crashes, restarts, cancels *)
(* and escaping errors.                                                    *)
(***************************************************************************)
EXTENDS RunsProofs, FiniteSetTheorems

(***************************************************************************)
(* Steps, sorted by whose they are: a task's own, an outsider's (the boot, *)
(* a cancel request, Postgres), the death of the server.                   *)
(***************************************************************************)
Mine(t)   == Launch(t) \/ TaskStep(t) \/ Raise(t) \/ KillCli(t)
Outsiders == Sweep \/ Serve \/ (\E k \in LockKey : ReapLock(k)) \/ (\E r \in RunId : Cancel(r))

LEMMA StepsSorted ==
  [Next]_vars => (\E t \in Task : Mine(t)) \/ Outsiders \/ CrashApi \/ UNCHANGED vars
BY DEF Next, Mine, Outsiders

(* A task's step leaves every other task alone. *)
LEMMA OthersKeep ==
  ASSUME TypeOK, NEW t \in Task, Mine(t), NEW u \in Task, u # t
  PROVE  /\ pc'[u] = pc[u] /\ phase'[u] = phase[u] /\ kind'[u] = kind[u]
         /\ origin'[u] = origin[u] /\ todo'[u] = todo[u] /\ tally'[u] = tally[u]
         /\ verdict'[u] = verdict[u]
<1>1. CASE Launch(t)
  BY <1>1 DEF Launch, TriggerRun, SyncJob, CliRun, Start, Goto, TypeOK
<1>2. CASE TaskStep(t)
  <2>1. CASE TryLock(t) \/ CreateRun(t) \/ Register(t) \/ Select(t) \/ Loop(t)
    BY <2>1 DEF TryLock, CreateRun, Register, Select, Loop, Goto, TypeOK
  <2>2. CASE Process(t)
    <3>1. PICK o, f : /\ tally' = [tally EXCEPT ![t][o] = @ + 1]
                      /\ todo' = [todo EXCEPT ![t] = @ \ {f}]
      BY <2>2 DEF Process
    <3>2. tally'[u] = tally[u]
      BY <3>1 DEF TypeOK
    <3> QED BY <2>2, <3>1, <3>2 DEF Process, Goto, TypeOK
  <2>3. CASE Finalize(t) \/ Leave(t) \/ Open(t)
    BY <2>3 DEF Finalize, Leave, Open, Goto, TypeOK
  <2>4. CASE Work(t) \/ Settle(t) \/ Close(t)
    BY <2>4 DEF Work, Settle, Close, BeginGrade, Goto, TypeOK
  <2> QED BY <1>2, <2>1, <2>2, <2>3, <2>4 DEF TaskStep
<1>3. CASE Raise(t) \/ KillCli(t)
  BY <1>3 DEF Raise, KillCli, Goto, TypeOK
<1> QED BY <1>1, <1>2, <1>3 DEF Mine

(* A task's step touches no row of another task. *)
LEMMA OthersRowsKeep ==
  ASSUME TypeOK, NEW t \in Task, Mine(t), NEW r \in RunId, r[1] # t
  PROVE  row'[r] = row[r] /\ items'[r] = items[r]
<1>0. r # Rid(t) /\ r # <<t, "own">>
  BY DEF Rid
<1>1. CASE Launch(t) \/ Raise(t) \/ KillCli(t)
  BY <1>1 DEF Launch, TriggerRun, SyncJob, CliRun, Start, Raise, KillCli, rowVars
<1>2. CASE TaskStep(t)
  <2>1. CASE TryLock(t) \/ Register(t) \/ Select(t) \/ Loop(t) \/ Leave(t) \/ Work(t) \/ Settle(t)
    BY <2>1 DEF TryLock, Register, Select, Loop, Leave, Work, Settle, rowVars
  <2>2. CASE CreateRun(t) \/ Finalize(t) \/ Open(t) \/ Close(t)
    BY <1>0, <2>2 DEF CreateRun, Finalize, Open, Close, TypeOK
  <2>3. CASE Process(t)
    BY <1>0, <2>3 DEF Process, TypeOK
  <2> QED BY <1>2, <2>1, <2>2, <2>3 DEF TaskStep
<1> QED BY <1>1, <1>2 DEF Mine

(* An outsider touches no task and no item, and can only fail the running  *)
(* rows while the server is down, or strike out an opened row.             *)
LEMMA OutsidersKeep ==
  ASSUME TypeOK, ClosingOpened, Outsiders
  PROVE  /\ UNCHANGED <<origin, kind, pc, phase, todo, tally, verdict, items>>
         /\ \A r \in RunId :
              \/ row'[r] = row[r]
              \/ row[r].status # "none" /\ row'[r].status = "cancelled"
              \/ server = "down" /\ row[r].status = "running" /\ row'[r].status = "failed"
<1>1. CASE Sweep
  BY <1>1 DEF Sweep, Orphan, taskVars, TypeOK, RunRow
<1>2. CASE Serve \/ (\E k \in LockKey : ReapLock(k))
  BY <1>2 DEF Serve, ReapLock, taskVars, rowVars
<1>3. ASSUME NEW q \in RunId, CancelSignal(q) \/ CancelRead(q)
      PROVE  UNCHANGED <<taskVars, rowVars>>
  BY <1>3 DEF CancelSignal, CancelRead
<1>4. ASSUME NEW q \in RunId, CancelCommit(q)
      PROVE  /\ UNCHANGED <<taskVars, items>>
             /\ row[q].status # "none" /\ row'[q].status = "cancelled"
             /\ \A r \in RunId : r # q => row'[r] = row[r]
  BY <1>4 DEF CancelCommit, ClosingOpened, TypeOK, RunRow
<1> QED BY <1>1, <1>2, <1>3, <1>4 DEF Outsiders, Cancel, taskVars, rowVars

(* The server's death kills its tasks where they stand. *)
LEMMA CrashKeeps ==
  ASSUME TypeOK, CrashApi
  PROVE  /\ UNCHANGED <<origin, kind, phase, todo, tally, verdict, row, items>>
         /\ closing' = {}
         /\ \A t \in Task : pc'[t] = pc[t] \/ (Live(t) /\ pc'[t] = "dead")
BY DEF CrashApi, TypeOK, rowVars

LEMMA OwnRows ==
  ASSUME NEW r \in RunId
  PROVE  r[1] \in Task /\ r[2] \in {"own", "grade"} /\ r = <<r[1], r[2]>>
BY DEF RunId

(***************************************************************************)
(* A task works on the row its kind says, in the order its kind says.      *)
(***************************************************************************)
LEMMA NextPhaseSound == TypeOK /\ ClosingOpened /\ PhaseSound /\ [Next]_vars => PhaseSound'
<1> SUFFICES ASSUME TypeOK, ClosingOpened, PhaseSound, [Next]_vars, NEW u \in Task
             PROVE
    /\ phase'[u] = "own" =>
         /\ pc'[u] \in Locked \cup {"lock"} => kind'[u] \in Managed
         /\ pc'[u] \in {"open", "work", "close"} => kind'[u] \in Unmanaged
         /\ pc'[u] # "settle"
    /\ phase'[u] = "grade" =>
         /\ kind'[u] \in Unmanaged
         /\ pc'[u] \notin {"idle", "open", "work"}
         /\ pc'[u] \in {"settle", "close"} => kind'[u] = "baselines"
  BY DEF PhaseSound
<1>1. CASE phase'[u] = phase[u] /\ kind'[u] = kind[u] /\ (pc'[u] = pc[u] \/ pc'[u] = "dead")
  BY <1>1 DEF PhaseSound, Locked
<1>2. CASE Outsiders \/ CrashApi \/ UNCHANGED vars
  BY <1>1, <1>2, OutsidersKeep, CrashKeeps DEF vars, taskVars
<1>3. ASSUME NEW t \in Task, Mine(t), u # t PROVE phase'[u] = phase[u] /\ kind'[u] = kind[u] /\ pc'[u] = pc[u]
  BY <1>3, OthersKeep
<1>4. ASSUME Mine(u)
      PROVE
    /\ phase'[u] = "own" =>
         /\ pc'[u] \in Locked \cup {"lock"} => kind'[u] \in Managed
         /\ pc'[u] \in {"open", "work", "close"} => kind'[u] \in Unmanaged
         /\ pc'[u] # "settle"
    /\ phase'[u] = "grade" =>
         /\ kind'[u] \in Unmanaged
         /\ pc'[u] \notin {"idle", "open", "work"}
         /\ pc'[u] \in {"settle", "close"} => kind'[u] = "baselines"
  <2>a. phase[u] \in {"own", "grade"} /\ (phase[u] = "own" \/ kind[u] \in Unmanaged)
    BY DEF PhaseSound, TypeOK
  <2>1. CASE Launch(u)
    <3>1. PICK k \in RunType : /\ pc[u] = "idle"
                               /\ kind' = [kind EXCEPT ![u] = k]
                               /\ Goto(u, IF k \in Managed THEN "lock" ELSE "open")
                               /\ phase' = phase
      BY <2>1 DEF Launch, TriggerRun, SyncJob, CliRun, Start, RunType, Managed, Unmanaged
    <3>2. phase'[u] = "own" /\ kind'[u] = k /\ pc'[u] = IF k \in Managed THEN "lock" ELSE "open"
      BY <3>1, <2>a DEF PhaseSound, Goto, TypeOK
    <3> QED BY <3>2 DEF RunType, Locked
  <2>2. CASE TryLock(u) \/ CreateRun(u) \/ Register(u) \/ Select(u) \/ Loop(u) \/ Process(u)
             \/ Finalize(u) \/ Leave(u)
    <3>1. /\ phase' = phase /\ kind' = kind
          /\ pc[u] \in Locked \cup {"lock"}
          /\ pc'[u] \in Locked \cup {AfterRun(u)}
      BY <2>2 DEF TryLock, CreateRun, Register, Select, Loop, Process, Finalize, Leave,
                  Goto, TypeOK, Locked
    <3>2. AfterRun(u) = "done" \/ (AfterRun(u) = "settle" /\ phase[u] = "grade" /\ kind[u] = "baselines")
      BY DEF AfterRun
    <3> QED BY <3>1, <3>2, <2>a DEF PhaseSound, Locked
  <2>3. CASE Open(u) \/ Settle(u)
    BY <2>3, <2>a DEF Open, Settle, Goto, TypeOK, PhaseSound, Locked
  <2>4. CASE Work(u)
    BY <2>4, <2>a DEF Work, BeginGrade, Goto, TypeOK, PhaseSound, Locked
  <2>5. CASE Close(u)
    BY <2>5, <2>a DEF Close, BeginGrade, Goto, TypeOK, PhaseSound, Locked
  <2>6. CASE Raise(u)
    BY <2>6, <2>a DEF Raise, Goto, TypeOK, PhaseSound, Locked
  <2>7. CASE KillCli(u)
    BY <2>7, <1>1 DEF KillCli, Goto, TypeOK
  <2> QED BY <1>4, <2>1, <2>2, <2>3, <2>4, <2>5, <2>6, <2>7 DEF Mine, TaskStep
<1> QED BY <1>1, <1>2, <1>3, <1>4, StepsSorted

(***************************************************************************)
(* A cancel request only ever overwrites a row somebody opened.            *)
(***************************************************************************)
LEMMA OpenedStays ==
  ASSUME TypeOK, VerdictReady, ClosingOpened, [Next]_vars, NEW r \in RunId, row[r].status # "none"
  PROVE  row'[r].status # "none"
<1>1. CASE Outsiders
  BY <1>1, OutsidersKeep
<1>2. CASE CrashApi \/ UNCHANGED vars
  BY <1>2, CrashKeeps DEF vars, rowVars
<1>3. ASSUME NEW t \in Task, Mine(t) PROVE row'[r].status # "none"
  <2>0. Rid(t) \in RunId /\ <<t, "own">> \in RunId
    BY RidInRunId
  <2>1. CASE CreateRun(t) \/ Open(t)
    BY <2>0, <2>1 DEF CreateRun, Open, TypeOK, RunRow
  <2>2. CASE Finalize(t) \/ Close(t)
    <3>1. verdict[t] # "none"
      BY <2>2 DEF Finalize, Close, VerdictReady, Terminal
    <3>2. CASE Finalize(t)
      BY <2>0, <3>1, <3>2 DEF Finalize, TypeOK
    <3>3. CASE Close(t)
      BY <2>0, <3>1, <3>3 DEF Close, TypeOK, RunRow
    <3> QED BY <2>2, <3>2, <3>3
  <2>3. CASE Process(t)
    BY <2>3 DEF Process
  <2>4. CASE TryLock(t) \/ Register(t) \/ Select(t) \/ Loop(t) \/ Leave(t) \/ Work(t) \/ Settle(t)
    BY <2>4 DEF TryLock, Register, Select, Loop, Leave, Work, Settle, rowVars
  <2>5. CASE Launch(t) \/ Raise(t) \/ KillCli(t)
    BY <2>5 DEF Launch, TriggerRun, SyncJob, CliRun, Start, Raise, KillCli, rowVars
  <2> QED BY <1>3, <2>1, <2>2, <2>3, <2>4, <2>5 DEF Mine, TaskStep
<1> QED BY <1>1, <1>2, <1>3, StepsSorted

LEMMA NextClosingOpened ==
  TypeOK /\ VerdictReady /\ ClosingOpened /\ [Next]_vars => ClosingOpened'
<1> SUFFICES ASSUME TypeOK, VerdictReady, ClosingOpened, [Next]_vars,
                    NEW r, r \in closing'
             PROVE  row'[r].status # "none"
  BY DEF ClosingOpened
<1>1. \/ r \in closing
      \/ r \in RunId /\ row[r].status = "running"
  <2>1. CASE Outsiders
    BY <2>1 DEF Outsiders, Sweep, Serve, ReapLock, Cancel, CancelSignal, CancelRead, CancelCommit
  <2>2. CASE CrashApi \/ UNCHANGED vars
    BY <2>2 DEF CrashApi, vars
  <2>3. ASSUME NEW t \in Task, Mine(t) PROVE r \in closing
    <3>1. CASE TaskStep(t)
      BY <3>1 DEF TaskStep, TryLock, CreateRun, Register, Select, Loop, Process, Finalize,
                  Leave, Open, Work, Settle, Close
    <3>2. CASE Launch(t) \/ Raise(t) \/ KillCli(t)
      BY <3>2 DEF Launch, TriggerRun, SyncJob, CliRun, Start, Raise, KillCli
    <3> QED BY <2>3, <3>1, <3>2 DEF Mine
  <2> QED BY <2>1, <2>2, <2>3, StepsSorted
<1>2. r \in RunId /\ row[r].status # "none"
  BY <1>1 DEF ClosingOpened, TypeOK
<1> QED BY <1>2, OpenedStays

(***************************************************************************)
(* Who writes a row: its task, when it opens it and when it concludes.     *)
(***************************************************************************)
LEMMA OwnRowStep ==
  ASSUME TypeOK, NEW t \in Task, Mine(t), NEW r \in RunId
  PROVE  \/ row'[r] = row[r]
         \/ r = Rid(t) /\ pc[t] \in {"create", "open"} /\ row'[r].status = "running"
         \/ r = Rid(t) /\ Finalize(t) /\ row'[r] = [status |-> verdict[t], totals |-> tally[t]]
         \/ r = <<t, "own">> /\ Close(t)
<1>0. Rid(t) \in RunId /\ <<t, "own">> \in RunId
  BY RidInRunId
<1>1. CASE CreateRun(t) \/ Open(t)
  <2>1. r = Rid(t) => row'[r].status = "running"
    BY <1>0, <1>1 DEF CreateRun, Open, TypeOK, RunRow
  <2>2. r # Rid(t) => row'[r] = row[r]
    BY <1>0, <1>1 DEF CreateRun, Open, TypeOK
  <2> QED BY <1>1, <2>1, <2>2 DEF CreateRun, Open
<1>2. CASE Finalize(t)
  BY <1>0, <1>2 DEF Finalize, TypeOK
<1>3. CASE Close(t)
  BY <1>0, <1>3 DEF Close, TypeOK
<1>4. CASE TryLock(t) \/ Register(t) \/ Select(t) \/ Loop(t) \/ Process(t) \/ Leave(t) \/ Work(t)
           \/ Settle(t)
  BY <1>4 DEF TryLock, Register, Select, Loop, Process, Leave, Work, Settle, rowVars
<1>5. CASE Launch(t) \/ Raise(t) \/ KillCli(t)
  BY <1>5 DEF Launch, TriggerRun, SyncJob, CliRun, Start, Raise, KillCli, rowVars
<1> QED BY <1>1, <1>2, <1>3, <1>4, <1>5 DEF Mine, TaskStep

(* Items are added by process() alone. *)
LEMMA OwnItemsStep ==
  ASSUME TypeOK, NEW t \in Task, Mine(t), NEW r \in RunId
  PROVE  items'[r] = items[r] \/ (r = Rid(t) /\ Process(t))
<1>1. CASE Process(t)
  <2>1. Rid(t) \in RunId
    BY RidInRunId
  <2> QED BY <1>1, <2>1 DEF Process, TypeOK
<1>2. CASE TryLock(t) \/ CreateRun(t) \/ Register(t) \/ Select(t) \/ Loop(t) \/ Finalize(t)
           \/ Leave(t) \/ Open(t) \/ Work(t) \/ Settle(t) \/ Close(t)
  BY <1>2 DEF TryLock, CreateRun, Register, Select, Loop, Finalize, Leave, Open, Work,
              Settle, Close, rowVars
<1>3. CASE Launch(t) \/ Raise(t) \/ KillCli(t)
  BY <1>3 DEF Launch, TriggerRun, SyncJob, CliRun, Start, Raise, KillCli, rowVars
<1> QED BY <1>1, <1>2, <1>3 DEF Mine, TaskStep

(* How a task moves on. *)
LEMMA OwnMove ==
  ASSUME TypeOK, PhaseSound, NEW t \in Task, Mine(t)
  PROVE  /\ \/ phase'[t] = phase[t]
            \/ /\ phase[t] = "own" /\ phase'[t] = "grade"
               /\ pc[t] \in {"work", "close"} /\ pc'[t] = "lock"
         /\ \/ kind'[t] = kind[t] /\ origin'[t] = origin[t]
            \/ pc[t] = "idle" /\ phase[t] = "own"
         /\ pc'[t] \in {"idle", "open", "lock", "create"} =>
              \/ phase'[t] = "grade" /\ phase[t] = "own"
              \/ phase'[t] = phase[t] /\ pc[t] \in {"idle", "open", "lock", "create"}
<1>1. CASE Launch(t)
  BY <1>1 DEF Launch, TriggerRun, SyncJob, CliRun, Start, Goto, TypeOK, PhaseSound
<1>2. CASE TryLock(t) \/ CreateRun(t) \/ Register(t) \/ Select(t) \/ Loop(t) \/ Process(t)
           \/ Finalize(t) \/ Leave(t)
  <2>1. AfterRun(t) \in {"settle", "done"}
    BY DEF AfterRun
  <2> QED BY <1>2, <2>1
    DEF TryLock, CreateRun, Register, Select, Loop, Process, Finalize, Leave, Goto, TypeOK
<1>3. CASE Open(t) \/ Settle(t)
  BY <1>3 DEF Open, Settle, Goto, TypeOK
<1>4. CASE Work(t)
  <2>1. phase[t] = "own"
    BY <1>4 DEF Work, PhaseSound, TypeOK
  <2> QED BY <1>4, <2>1 DEF Work, BeginGrade, Goto, TypeOK
<1>5. CASE Close(t)
  <2>1. phase[t] = "own" \/ kind[t] = "baselines"
    BY <1>5 DEF Close, PhaseSound, TypeOK
  <2> QED BY <1>5, <2>1 DEF Close, BeginGrade, Goto, TypeOK
<1>6. CASE Raise(t) \/ KillCli(t)
  BY <1>6 DEF Raise, KillCli, Goto, TypeOK
<1> QED BY <1>1, <1>2, <1>3, <1>4, <1>5, <1>6 DEF Mine, TaskStep

(***************************************************************************)
(* A row is untouched until its task opens it, and a run without items     *)
(* never gets any.                                                         *)
(***************************************************************************)
LEMMA UnopenedBefore ==
  ASSUME TypeOK, PhaseSound, ClosingOpened, [Next]_vars, NEW r \in RunId, Unopened(r)'
  PROVE  Unopened(r)
<1> DEFINE u == r[1]
<1>0. u \in Task /\ r[2] \in {"own", "grade"} /\ r = <<u, r[2]>>
  BY OwnRows
<1>1. CASE phase'[u] = phase[u] /\ pc'[u] = pc[u]
  BY <1>1 DEF Unopened, Rid
<1>2. CASE Outsiders \/ UNCHANGED vars
  BY <1>1, <1>2, OutsidersKeep DEF vars, taskVars
<1>3. CASE CrashApi
  <2>1. phase'[u] = phase[u] /\ (pc'[u] = pc[u] \/ pc'[u] = "dead")
    BY <1>0, <1>3, CrashKeeps
  <2> QED BY <2>1 DEF Unopened, Rid
<1>4. ASSUME NEW t \in Task, Mine(t), t # u PROVE Unopened(r)
  BY <1>0, <1>1, <1>4, OthersKeep
<1>5. CASE Mine(u)
  <2>1. CASE phase'[u] = phase[u]
    BY <1>0, <1>5, <2>1, OwnMove DEF Unopened, Rid
  <2>2. CASE phase[u] = "own" /\ phase'[u] = "grade"
    BY <1>0, <2>2 DEF Unopened, Rid
  <2> QED BY <1>0, <1>5, <2>1, <2>2, OwnMove
<1> QED BY <1>0, <1>2, <1>3, <1>4, <1>5, StepsSorted

LEMMA NextUntouched ==
  TypeOK /\ PhaseSound /\ ClosingOpened /\ Untouched /\ [Next]_vars => Untouched'
<1> SUFFICES ASSUME TypeOK, PhaseSound, ClosingOpened, Untouched, [Next]_vars, NEW r \in RunId
             PROVE  /\ Unopened(r)' => row'[r].status = "none" /\ items'[r] = Blank
                    /\ (~ IsManaged(r))' => items'[r] = Blank
  BY DEF Untouched, Blank
<1> DEFINE u == r[1]
<1>0. u \in Task /\ r[2] \in {"own", "grade"} /\ r = <<u, r[2]>>
  BY OwnRows
<1>1. ASSUME Unopened(r)' PROVE row'[r].status = "none" /\ items'[r] = Blank
  <2>1. Unopened(r) /\ row[r].status = "none" /\ items[r] = Blank
    BY <1>1, UnopenedBefore DEF Untouched
  <2>2. CASE Outsiders
    BY <2>1, <2>2, OutsidersKeep
  <2>3. CASE CrashApi \/ UNCHANGED vars
    BY <2>1, <2>3, CrashKeeps DEF vars, rowVars
  <2>4. ASSUME NEW t \in Task, Mine(t), t # u PROVE row'[r].status = "none" /\ items'[r] = Blank
    BY <2>1, <2>4, <1>0, OthersRowsKeep
  <2>5. CASE Mine(u)
    <3>1. CASE r = Rid(u) /\ pc[u] \in {"create", "open"} /\ row'[r].status = "running"
      <4>1. CreateRun(u) \/ Open(u) \/ Raise(u) \/ KillCli(u)
        BY <2>5, <3>1
        DEF Mine, Launch, TriggerRun, SyncJob, CliRun, Start, TaskStep, TryLock, Register, Select, Loop,
            Process, Finalize, Leave, Work, Settle, Close
      <4>2. CreateRun(u) \/ Open(u)
        BY <2>1, <3>1, <4>1 DEF Raise, KillCli, rowVars
      <4>3. phase' = phase /\ pc'[u] \in {"register", "work"}
        BY <1>0, <4>2 DEF CreateRun, Open, Goto, TypeOK
      <4> QED BY <1>1, <3>1, <4>3 DEF Unopened, Rid
    <3>2. CASE r = Rid(u) /\ (Finalize(u) \/ Process(u))
      BY <2>1, <3>2 DEF Unopened, Finalize, Process, Rid
    <3>3. CASE r = <<u, "own">> /\ Close(u)
      BY <2>1, <3>3 DEF Unopened, Close, Rid
    <3> QED BY <1>0, <2>1, <2>5, <3>1, <3>2, <3>3, OwnRowStep, OwnItemsStep
  <2> QED BY <1>0, <2>2, <2>3, <2>4, <2>5, StepsSorted
<1>2. ASSUME (~ IsManaged(r))' PROVE items'[r] = Blank
  <2>1. CASE IsManaged(r)
    <3>1. kind'[u] # kind[u] /\ r = <<u, "own">>
      BY <1>0, <1>2, <2>1 DEF IsManaged
    <3>2. Mine(u)
      BY <1>0, <3>1, StepsSorted, OutsidersKeep, CrashKeeps, OthersKeep DEF vars, taskVars
    <3>3. pc[u] = "idle" /\ phase[u] = "own"
      BY <1>0, <3>1, <3>2, OwnMove
    <3>4. items[r] = Blank
      BY <1>0, <3>1, <3>3 DEF Untouched, Unopened, Rid
    <3> QED BY <1>0, <3>2, <3>3, <3>4, OwnItemsStep DEF Process
  <2>2. CASE ~ IsManaged(r)
    <3>1. items[r] = Blank
      BY <2>2 DEF Untouched
    <3>2. CASE Outsiders \/ CrashApi \/ UNCHANGED vars
      BY <3>1, <3>2, OutsidersKeep, CrashKeeps DEF vars, rowVars
    <3>3. ASSUME NEW t \in Task, Mine(t) PROVE items'[r] = items[r]
      <4>1. CASE r = Rid(t) /\ Process(t)
        <5>1. phase[t] = "own" => kind[t] \in Managed
          BY <4>1 DEF Process, PhaseSound, Locked
        <5> QED BY <1>0, <2>2, <4>1, <5>1 DEF IsManaged, Rid
      <4> QED BY <3>3, <4>1, OwnItemsStep
    <3> QED BY <3>1, <3>2, <3>3, StepsSorted
  <2> QED BY <2>1, <2>2
<1> QED BY <1>1, <1>2

(***************************************************************************)
(* The totals in memory count the items in the database.                   *)
(***************************************************************************)
LEMMA ItemsFinite == \A r, o : IsFiniteSet(ItemsWith(r, o)) /\ Cardinality(ItemsWith(r, o)) \in Nat
<1> TAKE r, o
<1>1. ItemsWith(r, o) \subseteq Fixture
  BY DEF ItemsWith
<1>2. IsFiniteSet(ItemsWith(r, o))
  BY <1>1, ConstantsAssumption, FS_Subset
<1> QED BY <1>2, FS_CardinalityType

LEMMA NoneCounted ==
  \A r, o : Cardinality(ItemsWith(r, o)) = 0 <=> ItemsWith(r, o) = {}
BY ItemsFinite, FS_EmptySet

LEMMA BlankCount ==
  ASSUME NEW r, items[r] = Blank, NEW o \in Outcome
  PROVE  Cardinality(ItemsWith(r, o)) = 0
<1>1. ItemsWith(r, o) = {}
  BY DEF ItemsWith, Blank, Outcome
<1> QED BY <1>1, NoneCounted

\* one more item with outcome o, one more in the count of o
LEMMA ItemCounted ==
  ASSUME TypeOK, NEW r \in RunId, NEW f \in Fixture, NEW o \in Outcome,
         items[r][f] = "none", items'[r] = [items[r] EXCEPT ![f] = o], NEW p \in Outcome
  PROVE  Cardinality(ItemsWith(r, p)') = Cardinality(ItemsWith(r, p)) + (IF p = o THEN 1 ELSE 0)
<1>1. CASE p = o
  <2>1. ItemsWith(r, p)' = ItemsWith(r, p) \cup {f} /\ f \notin ItemsWith(r, p)
    BY <1>1 DEF ItemsWith, TypeOK, Outcome
  <2> QED BY <1>1, <2>1, ItemsFinite, FS_AddElement
<1>2. CASE p # o
  <2>1. ItemsWith(r, p)' = ItemsWith(r, p)
    BY <1>2 DEF ItemsWith, TypeOK, Outcome
  <2> QED BY <1>2, <2>1, ItemsFinite
<1> QED BY <1>1, <1>2

\* what processing one fixture commits and counts
LEMMA ProcessStep ==
  ASSUME TypeOK, NEW t \in Task, Process(t)
  PROVE  \E f \in todo[t], o \in Outcome :
           /\ tally'[t] = [tally[t] EXCEPT ![o] = @ + 1]
           /\ items'[Rid(t)] = [items[Rid(t)] EXCEPT ![f] = o]
           /\ todo'[t] = todo[t] \ {f}
<1>1. PICK s \in Replies(Doing(t)), f \in todo[t] :
        /\ tally' = [tally EXCEPT ![t][ItemStatus(s)] = @ + 1]
        /\ items' = [items EXCEPT ![Rid(t)][f] = ItemStatus(s)]
        /\ todo' = [todo EXCEPT ![t] = @ \ {f}]
  BY DEF Process
<1>2. ItemStatus(s) \in Outcome /\ Rid(t) \in RunId
  BY ItemStatusType, RidInRunId
<1>3. /\ tally'[t] = [tally[t] EXCEPT ![ItemStatus(s)] = @ + 1]
      /\ items'[Rid(t)] = [items[Rid(t)] EXCEPT ![f] = ItemStatus(s)]
      /\ todo'[t] = todo[t] \ {f}
  BY <1>1, <1>2 DEF TypeOK
<1> QED BY <1>2, <1>3

Counts(t) ==
  /\ \A o \in Outcome : tally[t][o] = Cardinality(ItemsWith(Rid(t), o))
  /\ \A f \in todo[t] : items[Rid(t)][f] = "none"

LEMMA CountsStep ==
  ASSUME TypeOK, NEW t \in Task, Process(t), Counts(t)
  PROVE  Counts(t)'
<1>0. PICK r \in RunId : r = Rid(t) /\ r = Rid(t)'
  BY RidInRunId DEF Process, Rid
<1>1. PICK f \in todo[t], o \in Outcome :
        /\ tally'[t] = [tally[t] EXCEPT ![o] = @ + 1]
        /\ items'[r] = [items[r] EXCEPT ![f] = o]
        /\ todo'[t] = todo[t] \ {f}
  BY <1>0, ProcessStep
<1>2. f \in Fixture /\ items[r][f] = "none"
  BY <1>0 DEF Counts, TypeOK
<1>3. ASSUME NEW p \in Outcome PROVE tally'[t][p] = Cardinality(ItemsWith(r, p)')
  <2>1. Cardinality(ItemsWith(r, p)') = Cardinality(ItemsWith(r, p)) + (IF p = o THEN 1 ELSE 0)
    BY <1>1, <1>2, ItemCounted
  <2>2. tally'[t][p] = tally[t][p] + (IF p = o THEN 1 ELSE 0)
    BY <1>1 DEF TypeOK, Totals
  <2>3. tally[t][p] = Cardinality(ItemsWith(r, p))
    BY <1>0 DEF Counts
  <2> QED BY <2>1, <2>2, <2>3
<1>4. ASSUME NEW g \in todo'[t] PROVE items'[r][g] = "none"
  BY <1>0, <1>1, <1>2, <1>4 DEF Counts, TypeOK
<1> QED BY <1>0, <1>3, <1>4 DEF Counts, ItemsWith

LEMMA NextTallySound ==
  TypeOK /\ PhaseSound /\ ClosingOpened /\ Untouched /\ TallySound /\ [Next]_vars => TallySound'
<1> DEFINE Sound(u) ==
             /\ pc[u] \in {"register", "select"} => items[Rid(u)] = Blank
             /\ pc[u] \in Counting => Counts(u)
             /\ pc[u] = "finalize" => verdict[u] = Concluded(u)
<1>a. TallySound <=> \A u \in Task : Sound(u)
  BY DEF TallySound, Counts
<1>b. TallySound' <=> \A u \in Task : Sound(u)'
  BY DEF TallySound, Counts
<1> SUFFICES ASSUME TypeOK, PhaseSound, ClosingOpened, Untouched, \A u \in Task : Sound(u),
                    [Next]_vars, NEW u \in Task
             PROVE  Sound(u)'
  BY <1>a, <1>b
<1>0. Rid(u) \in RunId
  BY RidInRunId
<1>1. ASSUME phase'[u] = phase[u], todo'[u] = todo[u], tally'[u] = tally[u],
             verdict'[u] = verdict[u], items'[Rid(u)] = items[Rid(u)],
             pc'[u] = pc[u] \/ pc'[u] = "dead"
      PROVE  Sound(u)'
  <2>1. Rid(u)' = Rid(u)
    BY <1>1 DEF Rid
  <2>2. \A o \in Outcome : ItemsWith(Rid(u), o)' = ItemsWith(Rid(u), o)
    BY <1>1, <2>1 DEF ItemsWith
  <2>3. Counts(u) => Counts(u)'
    BY <1>1, <2>1, <2>2 DEF Counts
  <2>4. Concluded(u)' = Concluded(u) /\ Blank' = Blank
    BY <1>1 DEF Concluded, RunStatus, Blank
  <2> QED BY <1>1, <2>1, <2>3, <2>4 DEF Counting
<1>2. CASE Outsiders \/ CrashApi \/ UNCHANGED vars
  BY <1>1, <1>2, OutsidersKeep, CrashKeeps DEF vars, taskVars, rowVars
<1>3. ASSUME NEW t \in Task, Mine(t), t # u PROVE Sound(u)'
  <2>1. items'[Rid(u)] = items[Rid(u)]
    BY <1>0, <1>3, OthersRowsKeep DEF Rid
  <2> QED BY <1>1, <1>3, <2>1, OthersKeep
<1>4. ASSUME Mine(u) PROVE Sound(u)'
  <2>1. CASE CreateRun(u) \/ Register(u)
    <3>1. items[Rid(u)] = Blank
      BY <1>0, <2>1 DEF CreateRun, Register, Untouched, Unopened, Rid
    <3>2. items' = items /\ phase' = phase /\ pc'[u] \in {"register", "select"}
      BY <2>1 DEF CreateRun, Register, Goto, TypeOK, rowVars
    <3> QED BY <3>1, <3>2 DEF Rid, Blank, Counting
  <2>2. CASE Select(u)
    <3>1. items[Rid(u)] = Blank
      BY <2>2 DEF Select
    <3>2. /\ items' = items /\ phase' = phase /\ pc'[u] = "loop" /\ tally'[u] = Zero
          /\ todo'[u] \subseteq Fixture
      BY <2>2 DEF Select, Goto, TypeOK, rowVars
    <3>3. \A o \in Outcome : Cardinality(ItemsWith(Rid(u), o)) = 0
      BY <3>1, BlankCount
    <3>4. Rid(u)' = Rid(u) /\ \A o \in Outcome : ItemsWith(Rid(u), o)' = ItemsWith(Rid(u), o)
      BY <3>2 DEF Rid, ItemsWith
    <3>5. Counts(u)'
      BY <3>1, <3>2, <3>3, <3>4 DEF Counts, Zero, Blank
    <3> QED BY <3>2, <3>5 DEF Counting
  <2>3. CASE Loop(u)
    <3>1. /\ items' = items /\ phase' = phase /\ tally' = tally /\ todo' = todo
          /\ pc'[u] = "process" \/ (pc'[u] = "finalize" /\ verdict'[u] = Concluded(u))
      BY <2>3 DEF Loop, Goto, TypeOK, rowVars
    <3>2. Counts(u)
      BY <2>3 DEF Loop, Counting
    <3>3. Counts(u)' /\ Concluded(u)' = Concluded(u)
      BY <3>1, <3>2 DEF Counts, Rid, ItemsWith, Concluded, RunStatus
    <3> QED BY <3>1, <3>3 DEF Counting
  <2>4. CASE Process(u)
    <3>1. Counts(u)'
      BY <2>4, CountsStep DEF Process, Counting
    <3>2. pc'[u] = "loop"
      BY <2>4 DEF Process, Goto, TypeOK
    <3> QED BY <3>1, <3>2
  <2>5. CASE Raise(u) \/ KillCli(u)
    BY <2>5 DEF Raise, KillCli, Goto, TypeOK, Counting
  <2>6. CASE Launch(u)
    BY <2>6 DEF Launch, TriggerRun, SyncJob, CliRun, Start, Goto, TypeOK, Counting
  <2>7. CASE TryLock(u) \/ Finalize(u) \/ Leave(u)
    <3>1. AfterRun(u) \in {"settle", "done"}
      BY DEF AfterRun
    <3> QED BY <2>7, <3>1 DEF TryLock, Finalize, Leave, Goto, TypeOK, Counting
  <2>8. CASE Open(u) \/ Work(u) \/ Settle(u) \/ Close(u)
    BY <2>8 DEF Open, Work, Settle, Close, BeginGrade, Goto, TypeOK, Counting
  <2> QED BY <1>4, <2>1, <2>2, <2>3, <2>4, <2>5, <2>6, <2>7, <2>8 DEF Mine, TaskStep
<1> QED BY <1>2, <1>3, <1>4, StepsSorted

(***************************************************************************)
(* A row stays open, unless struck out, until its task concludes.          *)
(***************************************************************************)
LEMMA NextOpenRows ==
  TypeOK /\ ServerUp /\ PhaseSound /\ ClosingOpened /\ OpenRows /\ [Next]_vars => OpenRows'
<1> DEFINE InRun(u) == pc[u] \in {"register", "select"} \cup Counting
           InWork(u) == \/ pc[u] \in {"work", "settle", "close"}
                        \/ kind[u] = "baselines" /\ phase[u] = "grade" /\ Live(u)
<1> SUFFICES ASSUME TypeOK, ServerUp, PhaseSound, ClosingOpened, OpenRows, [Next]_vars, NEW u \in Task
             PROVE  /\ InRun(u)' => row'[Rid(u)'].status \in OpenStatus(u)'
                    /\ InWork(u)' => row'[<<u, "own">>].status \in OpenStatus(u)'
  BY DEF OpenRows
<1>0. Rid(u) \in RunId /\ <<u, "own">> \in RunId
  BY RidInRunId
<1>a. /\ InRun(u) => row[Rid(u)].status \in OpenStatus(u)
      /\ InWork(u) => row[<<u, "own">>].status \in OpenStatus(u)
  BY DEF OpenRows
<1>1. CASE UNCHANGED vars
  BY <1>1, <1>a DEF vars, taskVars, rowVars, Live, OpenStatus, OnApi, Rid
<1>2. CASE Outsiders
  <2>1. UNCHANGED <<origin, kind, pc, phase>>
    BY <1>2, OutsidersKeep
  <2>2. OpenStatus(u)' = OpenStatus(u) /\ Rid(u)' = Rid(u) /\ (InRun(u)' <=> InRun(u))
        /\ (InWork(u)' <=> InWork(u))
    BY <2>1 DEF OpenStatus, OnApi, Rid, Live
  <2>3. ASSUME NEW r \in RunId, row[r].status \in OpenStatus(u), Live(u)
        PROVE  row'[r].status \in OpenStatus(u)
    BY <1>2, <2>3, OutsidersKeep DEF OpenStatus, ServerUp
  <2>4. InRun(u) \/ InWork(u) => Live(u)
    BY DEF Live, Counting
  <2> QED BY <1>0, <1>a, <2>2, <2>3, <2>4
<1>3. CASE CrashApi
  <2>1. UNCHANGED <<origin, kind, phase, row>> /\ (pc'[u] = pc[u] \/ pc'[u] = "dead")
    BY <1>3, CrashKeeps
  <2> QED BY <1>a, <2>1 DEF OpenStatus, OnApi, Rid, Live, Counting
<1>4. ASSUME NEW t \in Task, Mine(t), t # u
      PROVE  /\ InRun(u)' => row'[Rid(u)'].status \in OpenStatus(u)'
             /\ InWork(u)' => row'[<<u, "own">>].status \in OpenStatus(u)'
  <2>1. /\ origin'[u] = origin[u] /\ kind'[u] = kind[u] /\ pc'[u] = pc[u] /\ phase'[u] = phase[u]
        /\ row'[Rid(u)] = row[Rid(u)] /\ row'[<<u, "own">>] = row[<<u, "own">>]
    BY <1>0, <1>4, OthersKeep, OthersRowsKeep DEF Rid
  <2> QED BY <1>a, <2>1 DEF OpenStatus, OnApi, Rid, Live
<1>5. ASSUME Mine(u)
      PROVE  /\ InRun(u)' => row'[Rid(u)'].status \in OpenStatus(u)'
             /\ InWork(u)' => row'[<<u, "own">>].status \in OpenStatus(u)'
  <2>a. origin' = origin => OpenStatus(u)' = OpenStatus(u)
    BY DEF OpenStatus, OnApi
  <2>1. CASE CreateRun(u)
    <3>1. /\ UNCHANGED <<origin, kind, phase>> /\ Rid(u)' = Rid(u)
          /\ pc[u] = "create" /\ pc'[u] = "register"
          /\ row'[Rid(u)].status = "running"
      BY <1>0, <2>1 DEF CreateRun, Goto, TypeOK, RunRow, Rid
    <3>2. InWork(u)' => InWork(u) /\ Rid(u) # <<u, "own">>
      BY <3>1 DEF Live, Rid
    <3>3. InWork(u)' => row'[<<u, "own">>] = row[<<u, "own">>]
      BY <1>0, <2>1, <3>2 DEF CreateRun, TypeOK
    <3> QED BY <1>a, <2>a, <3>1, <3>2, <3>3 DEF OpenStatus
  <2>2. CASE Open(u)
    <3>1. /\ UNCHANGED <<origin, kind, phase>> /\ pc'[u] = "work"
          /\ Rid(u) = <<u, "own">> /\ row'[Rid(u)].status = "running"
      BY <1>0, <2>2 DEF Open, Goto, TypeOK, RunRow, Rid, PhaseSound
    <3> QED BY <2>a, <3>1 DEF OpenStatus, Counting
  <2>3. CASE Register(u) \/ Select(u) \/ Loop(u) \/ Process(u)
    <3>1. /\ UNCHANGED <<origin, kind, phase, row>>
          /\ pc[u] \in {"register", "select"} \cup Counting
          /\ pc'[u] \in {"register", "select"} \cup Counting
      BY <2>3 DEF Register, Select, Loop, Process, Goto, TypeOK, rowVars, Counting
    <3>2. InWork(u)' => InWork(u)
      BY <3>1 DEF Live, Counting
    <3> QED BY <1>a, <2>a, <3>1, <3>2 DEF Rid
  <2>4. CASE Finalize(u)
    <3>1. /\ UNCHANGED <<origin, kind, phase>> /\ pc[u] = "finalize" /\ pc'[u] = "leave"
          /\ (Rid(u) # <<u, "own">> => row'[<<u, "own">>] = row[<<u, "own">>])
      BY <1>0, <2>4 DEF Finalize, Goto, TypeOK
    <3>2. InWork(u)' => InWork(u) /\ Rid(u) # <<u, "own">>
      BY <3>1 DEF Live, Rid
    <3> QED BY <1>a, <2>a, <3>1, <3>2 DEF Counting
  <2>5. CASE TryLock(u) \/ Leave(u)
    <3>1. /\ UNCHANGED <<origin, kind, phase, row>> /\ Live(u)
          /\ pc'[u] \in {"create", AfterRun(u)}
      BY <2>5 DEF TryLock, Leave, Goto, TypeOK, rowVars, Live
    <3>2. AfterRun(u) = "done" \/ (AfterRun(u) = "settle" /\ phase[u] = "grade" /\ kind[u] = "baselines")
      BY DEF AfterRun
    <3>3. InWork(u)' => InWork(u)
      BY <3>1, <3>2 DEF Live
    <3> QED BY <1>a, <2>a, <3>1, <3>2, <3>3 DEF Counting
  <2>6. CASE Work(u) \/ Settle(u)
    <3>1. /\ UNCHANGED <<origin, kind, row>> /\ pc[u] \in {"work", "settle"}
          /\ pc'[u] \in {"lock", "close"}
      BY <2>6 DEF Work, Settle, BeginGrade, Goto, TypeOK, rowVars
    <3> QED BY <1>a, <2>a, <3>1 DEF Counting
  <2>7. CASE Close(u)
    <3>1. pc'[u] = "done" \/ (pc'[u] = "lock" /\ kind'[u] # "baselines")
      BY <2>7 DEF Close, BeginGrade, Goto, TypeOK
    <3> QED BY <3>1 DEF Counting, Live
  <2>8. CASE Launch(u)
    <3>1. pc'[u] \in {"lock", "open"} /\ phase'[u] = "own"
      BY <2>8 DEF Launch, TriggerRun, SyncJob, CliRun, Start, Goto, TypeOK, PhaseSound
    <3> QED BY <3>1 DEF Counting
  <2>9. CASE Raise(u)
    <3>1. /\ UNCHANGED <<origin, kind, phase, row>> /\ pc'[u] = "leave" /\ Live(u)
      BY <2>9 DEF Raise, Goto, TypeOK, rowVars, Live
    <3> QED BY <1>a, <2>a, <3>1 DEF Counting
  <2>10. CASE KillCli(u)
    BY <2>10 DEF KillCli, Goto, TypeOK, Counting, Live
  <2> QED
    BY <1>5, <2>1, <2>2, <2>3, <2>4, <2>5, <2>6, <2>7, <2>8, <2>9, <2>10 DEF Mine, TaskStep
<1> QED BY <1>1, <1>2, <1>3, <1>4, <1>5, StepsSorted

(***************************************************************************)
(* Good news is true of the items.                                         *)
(***************************************************************************)
Good(s) == s \in {"succeeded", "partial"}

\* the verdict of a loop that counted right is true of its items
LEMMA VerdictTrue ==
  ASSUME TypeOK, NEW t \in Task, Counts(t), Good(Concluded(t))
  PROVE  /\ todo[t] = {}
         /\ Concluded(t) = "partial" <=> ItemsWith(Rid(t), "failed") # {}
<1>1. todo[t] = {} /\ Concluded(t) = RunStatus(tally[t])
  BY DEF Concluded, Good
<1>2. tally[t]["failed"] = 0 <=> ItemsWith(Rid(t), "failed") = {}
  BY NoneCounted DEF Counts, Outcome
<1> QED BY <1>1, <1>2 DEF RunStatus, Good

LEMMA NextGoodNews ==
  BInv /\ [Next]_vars => GoodNewsIsTrue'
<1> DEFINE Truth(r) == /\ \A o \in Outcome : row[r].totals[o] = Cardinality(ItemsWith(r, o))
                       /\ phase[r[1]] = r[2] => todo[r[1]] = {}
                       /\ row[r].status = "partial" <=> ItemsWith(r, "failed") # {}
<1> SUFFICES ASSUME BInv, [Next]_vars, NEW r \in RunId, IsManaged(r)', Good(row'[r].status)
             PROVE  Truth(r)'
  BY DEF GoodNewsIsTrue, Good
<1> USE DEF BInv, IInv
<1> DEFINE u == r[1]
<1>0. u \in Task /\ r[2] \in {"own", "grade"} /\ r = <<u, r[2]>>
  BY OwnRows
<1>1. ASSUME row'[r] = row[r], items'[r] = items[r], IsManaged(r),
             phase'[u] = r[2] => phase[u] = r[2] /\ todo'[u] = todo[u]
      PROVE  Truth(r)'
  <2>1. \A o : ItemsWith(r, o)' = ItemsWith(r, o)
    BY <1>1 DEF ItemsWith
  <2>2. Truth(r)
    BY <1>1 DEF GoodNewsIsTrue, Good
  <2> QED BY <1>1, <2>1, <2>2
<1>2. CASE Outsiders
  <2>1. row'[r] = row[r]
    BY <1>2, OutsidersKeep DEF Good
  <2> QED BY <1>1, <1>2, <2>1, OutsidersKeep DEF IsManaged
<1>3. CASE CrashApi \/ UNCHANGED vars
  BY <1>0, <1>1, <1>3, CrashKeeps DEF vars, taskVars, rowVars, IsManaged
<1>4. ASSUME NEW t \in Task, Mine(t), t # u PROVE Truth(r)'
  BY <1>0, <1>1, <1>4, OthersKeep, OthersRowsKeep DEF IsManaged
<1>5. ASSUME Mine(u) PROVE Truth(r)'
  <2>1. CASE r = Rid(u) /\ Finalize(u) /\ row'[r] = [status |-> verdict[u], totals |-> tally[u]]
    <3>1. Counts(u) /\ verdict[u] = Concluded(u)
      BY <1>0, <2>1 DEF Finalize, TallySound, Counts, Counting
    <3>2. row'[r].status = Concluded(u) /\ row'[r].totals = tally[u]
      BY <2>1, <3>1
    <3>3. todo[u] = {} /\ (Concluded(u) = "partial" <=> ItemsWith(r, "failed") # {})
      BY <1>0, <2>1, <3>1, <3>2, VerdictTrue
    <3>4. \A o : ItemsWith(r, o)' = ItemsWith(r, o)
      BY <2>1 DEF Finalize, ItemsWith
    <3>5. todo' = todo
      BY <2>1 DEF Finalize
    <3> QED BY <2>1, <3>1, <3>2, <3>3, <3>4, <3>5 DEF Counts
  <2>2. CASE r = <<u, "own">> /\ Close(u)
    <3>1. phase[u] = "own" => kind[u] \notin Managed
      BY <1>0, <2>2 DEF Close, PhaseSound, Managed, Unmanaged
    <3>2. kind[u] \notin Managed
      BY <3>1, <1>0 DEF PhaseSound, Managed, Unmanaged, TypeOK
    <3> QED BY <2>2, <3>2 DEF Close, IsManaged
  <2>3. CASE row'[r] = row[r]
    <3>1. ~ Unopened(r)
      BY <2>3 DEF Untouched, Good
    <3>2. IsManaged(r)
      <4>1. pc[u] = "idle" /\ phase[u] = "own" => Unopened(r)
        BY <1>0 DEF Unopened, Rid
      <4>2. kind'[u] = kind[u]
        BY <1>0, <1>5, <3>1, <4>1, OwnMove
      <4> QED BY <4>2 DEF IsManaged
    <3>3. r = Rid(u) => pc[u] \notin {"select", "process"}
      BY <1>0, <2>3 DEF OpenRows, OpenStatus, Good, Counting
    <3>4. items'[r] = items[r]
      BY <1>0, <1>5, <3>3, OwnItemsStep DEF Process
    <3>5. phase'[u] = r[2] => phase[u] = r[2]
      BY <1>0, <1>5, <3>1, OwnMove DEF Unopened
    <3>6. todo'[u] = todo[u] \/ pc[u] \in {"select", "process"}
      <4>1. CASE Select(u) \/ Process(u)
        BY <4>1 DEF Select, Process
      <4>2. CASE TryLock(u) \/ CreateRun(u) \/ Register(u) \/ Loop(u) \/ Finalize(u) \/ Leave(u)
                 \/ Open(u) \/ Work(u) \/ Settle(u) \/ Close(u)
        BY <4>2 DEF TryLock, CreateRun, Register, Loop, Finalize, Leave, Open, Work, Settle, Close
      <4>3. CASE Launch(u) \/ Raise(u) \/ KillCli(u)
        BY <4>3 DEF Launch, TriggerRun, SyncJob, CliRun, Start, Raise, KillCli
      <4> QED BY <1>5, <4>1, <4>2, <4>3 DEF Mine, TaskStep
    <3> QED BY <1>0, <1>1, <2>3, <3>2, <3>3, <3>4, <3>5, <3>6 DEF Rid
  <2> QED BY <1>0, <1>5, <2>1, <2>2, <2>3, OwnRowStep DEF Good
<1> QED BY <1>0, <1>2, <1>3, <1>4, <1>5, StepsSorted

LEMMA InitBInv == Init => BInv
<1> SUFFICES ASSUME Init PROVE BInv
  OBVIOUS
<1>1. PhaseSound /\ Untouched
  BY DEF Init, PhaseSound, Untouched, Locked
<1>2. TallySound /\ OpenRows /\ ClosingOpened
  BY DEF Init, TallySound, Counting, OpenRows, Live, ClosingOpened
<1>3. GoodNewsIsTrue
  BY DEF Init, GoodNewsIsTrue
<1> QED BY <1>1, <1>2, <1>3, InitIInv DEF BInv

LEMMA NextBInv == BInv /\ [Next]_vars => BInv'
<1> SUFFICES ASSUME BInv, [Next]_vars PROVE BInv'
  OBVIOUS
<1>1. IInv'
  BY NextIInv DEF BInv
<1>2. PhaseSound' /\ Untouched' /\ ClosingOpened'
  BY NextPhaseSound, NextUntouched, NextClosingOpened DEF BInv, IInv
<1>3. TallySound' /\ OpenRows'
  BY NextTallySound, NextOpenRows DEF BInv, IInv
<1> QED BY <1>1, <1>2, <1>3, NextGoodNews DEF BInv

(***************************************************************************)
(* The run history's invariant holds of every behaviour: a row is          *)
(* untouched until its task opens it, stays open until its task concludes  *)
(* or it is struck out, and its totals count its items.                    *)
(***************************************************************************)
THEOREM HistoryInvariance == Spec => []BInv
BY InitBInv, NextBInv, PTL DEF Spec

(***************************************************************************)
(* A managed row that says succeeded or partial tells the truth about the  *)
(* items its run committed, whatever crashed, raised or was cancelled.     *)
(***************************************************************************)
THEOREM GoodNewsTheorem == Spec => []GoodNewsIsTrue
<1>1. BInv => GoodNewsIsTrue
  BY DEF BInv
<1> QED BY <1>1, HistoryInvariance, PTL

(***************************************************************************)
(* No boot fails a row that a task of the serving process is working on.   *)
(***************************************************************************)
THEOREM SweepTheorem == Spec => []SweepSparesOwnRuns
<1>1. BInv => SweepSparesOwnRuns
  BY DEF BInv, OpenRows, OpenStatus, SweepSparesOwnRuns, Counting
<1> QED BY <1>1, HistoryInvariance, PTL

(***************************************************************************)
(* The refinement of module RunBook: what each step is to the run history. *)
(***************************************************************************)
Statuses == [r \in RunId |-> row[r].status]
Writers  == {r \in RunId : Writing(r)}

LEMMA InitBook == Init => Book!Init
<1> SUFFICES ASSUME Init PROVE Book!Init
  OBVIOUS
<1>1. \A r \in RunId : ~ Writing(r)
  BY OwnRows DEF Init, Writing, Live
<1>2. [r \in RunId |-> row[r].status] = [r \in RunId |-> "none"]
  BY DEF Init
<1>3. items = [r \in RunId |-> [f \in Fixture |-> "none"]]
  BY DEF Init, Blank
<1> QED BY <1>1, <1>2, <1>3 DEF Book!Init

LEMMA OthersWrite ==
  ASSUME TypeOK, NEW t \in Task, Mine(t), NEW r \in RunId, r[1] # t
  PROVE  Writing(r)' <=> Writing(r)
BY OwnRows, OthersKeep DEF Writing, Rid, Live

(* A task takes up no row without opening it. *)
LEMMA WritersShrink ==
  ASSUME TypeOK, PhaseSound, NEW t \in Task, Mine(t), ~ CreateRun(t), ~ Open(t)
  PROVE  Writers' \subseteq Writers
<1> SUFFICES ASSUME NEW r \in RunId, Writing(r)' PROVE Writing(r)
  BY DEF Writers
<1>1. CASE r[1] # t
  BY <1>1, OthersWrite
<1>2. CASE r[1] = t
  <2> DEFINE InRun  == {"register", "select", "loop", "process", "finalize"}
             Base   == kind[t] = "baselines" /\ phase[t] = "grade" /\ Live(t)
  <2>0. Writing(r) <=> \/ r = Rid(t) /\ pc[t] \in InRun
                       \/ r = <<t, "own">> /\ pc[t] \in {"work", "close"}
                       \/ r = <<t, "own">> /\ Base
    BY <1>2 DEF Writing
  <2>a. Writing(r)' <=> \/ r = Rid(t)' /\ pc'[t] \in InRun
                        \/ r = <<t, "own">> /\ pc'[t] \in {"work", "close"}
                        \/ r = <<t, "own">> /\ Base'
    BY <1>2 DEF Writing
  <2>1. CASE Register(t) \/ Select(t) \/ Loop(t) \/ Process(t)
    <3>1. kind' = kind /\ phase' = phase /\ pc[t] \in InRun /\ pc'[t] \in InRun
      BY <2>1 DEF Register, Select, Loop, Process, Goto, TypeOK
    <3> QED BY <2>0, <2>a, <3>1 DEF Rid, Live
  <2>2. CASE TryLock(t) \/ Finalize(t) \/ Leave(t)
    <3>1. AfterRun(t) \in {"settle", "done"}
      BY DEF AfterRun
    <3>2. kind' = kind /\ phase' = phase /\ Live(t) /\ pc'[t] \in {"create", "leave", "settle", "done"}
      BY <2>2, <3>1 DEF TryLock, Finalize, Leave, Goto, TypeOK, Live
    <3> QED BY <2>0, <2>a, <3>2 DEF Live
  <2>3. CASE Work(t)
    <3>1. kind' = kind /\ pc[t] = "work" /\ pc'[t] \in {"lock", "close"}
      BY <2>3 DEF Work, BeginGrade, Goto, TypeOK
    <3> QED BY <2>0, <2>a, <3>1
  <2>4. CASE Settle(t)
    <3>1. kind' = kind /\ phase' = phase /\ pc[t] = "settle" /\ pc'[t] = "close"
      BY <2>4 DEF Settle, Goto, TypeOK
    <3>2. Base
      BY <3>1 DEF PhaseSound, TypeOK, Live
    <3> QED BY <2>0, <2>a, <3>1, <3>2
  <2>5. CASE Close(t)
    <3>1. kind' = kind /\ (pc'[t] = "done" \/ (pc'[t] = "lock" /\ kind[t] # "baselines"))
      BY <2>5 DEF Close, BeginGrade, Goto, TypeOK
    <3> QED BY <2>a, <3>1 DEF Live
  <2>6. CASE Launch(t)
    <3>1. phase'[t] = "own" /\ pc'[t] \in {"lock", "open"}
      BY <2>6 DEF Launch, TriggerRun, SyncJob, CliRun, Start, Goto, TypeOK, PhaseSound
    <3> QED BY <2>a, <3>1
  <2>7. CASE Raise(t) \/ KillCli(t)
    <3>1. kind' = kind /\ phase' = phase /\ Live(t) /\ pc'[t] \in {"leave", "dead"}
      BY <2>7 DEF Raise, KillCli, Goto, TypeOK, Live
    <3> QED BY <2>0, <2>a, <3>1 DEF Live
  <2> QED BY <2>1, <2>2, <2>3, <2>4, <2>5, <2>6, <2>7 DEF Mine, TaskStep
<1> QED BY <1>1, <1>2

(* Losing writers, or nothing at all. *)
LEMMA LoseImplements ==
  ASSUME UNCHANGED rowVars, Writers' \subseteq Writers
  PROVE  Book!Next
<1>1. (Writers \ Writers') \in SUBSET RunId
  BY DEF Writers
<1>2. Book!Lose(Writers \ Writers')
  BY DEF Book!Lose, Writers, rowVars
<1> QED BY <1>1, <1>2 DEF Book!Next

(* Opening a row. *)
LEMMA OpenImplements ==
  ASSUME BInv, NEW t \in Task, CreateRun(t) \/ Open(t)
  PROVE  Book!Next
<1> USE DEF BInv, IInv
<1>0. PICK q \in RunId : q = Rid(t)
  BY RidInRunId
<1>1. row[q].status = "none"
  BY <1>0 DEF Untouched, Unopened, Rid, CreateRun, Open
<1>2. /\ row' = [row EXCEPT ![q].status = "running"]
      /\ items' = items /\ phase' = phase /\ kind' = kind
      /\ pc[t] \in {"create", "open"} /\ pc'[t] \in {"register", "work"}
  BY <1>0 DEF CreateRun, Open, Goto, TypeOK
<1>3. Mine(t)
  BY DEF Mine, TaskStep
<1>4. Writers' = Writers \cup {q}
  <2>1. ASSUME NEW r \in RunId PROVE Writing(r)' <=> Writing(r) \/ r = q
    <3>1. CASE r[1] # t
      BY <1>0, <1>3, <3>1, OthersWrite DEF Rid
    <3>2. CASE r[1] = t
      <4>1. pc[t] = "open" => phase[t] = "own"
        BY DEF PhaseSound, TypeOK
      <4>2. \/ pc[t] = "create" /\ pc'[t] = "register"
            \/ pc[t] = "open" /\ pc'[t] = "work"
        BY DEF CreateRun, Open, Goto, TypeOK
      <4>3. Rid(t)' = Rid(t)
        BY <1>2 DEF Rid
      <4> QED BY <1>0, <1>2, <3>2, <4>1, <4>2, <4>3 DEF Writing, Live, Rid
    <3> QED BY <3>1, <3>2
  <2> QED BY <2>1 DEF Writers
<1>5. Statuses' = [Statuses EXCEPT ![q] = "running"]
  BY <1>2 DEF Statuses, TypeOK, RunRow
<1>6. Book!Open(q)
  BY <1>1, <1>2, <1>4, <1>5 DEF Book!Open, Writers, Statuses
<1> QED BY <1>6 DEF Book!Next

(* Processing one fixture. *)
LEMMA NoteImplements ==
  ASSUME BInv, NEW t \in Task, Process(t)
  PROVE  Book!Next
<1> USE DEF BInv, IInv
<1>0. PICK q \in RunId : q = Rid(t)
  BY RidInRunId
<1>1. Counts(t) /\ Mine(t) /\ row' = row
  BY DEF TallySound, Counts, Process, Counting, Mine, TaskStep
<1>2. PICK f \in todo[t], o \in Outcome : items'[q] = [items[q] EXCEPT ![f] = o]
  BY <1>0, ProcessStep
<1>3. f \in Fixture /\ items[q][f] = "none"
  BY <1>0, <1>1 DEF Counts, TypeOK
<1>4. items' = [items EXCEPT ![q] = [items[q] EXCEPT ![f] = o]]
  <2>1. items' \in [RunId -> [Fixture -> Outcome \cup {"none"}]]
    BY NextTypeOK, <1>1 DEF Next, Mine, TypeOK
  <2>2. \A r \in RunId : r # q => items'[r] = items[r]
    BY <1>0, <1>1, OwnItemsStep
  <2> QED BY <1>2, <2>1, <2>2 DEF TypeOK
<1>5. Writers' = Writers
  <2>1. ASSUME NEW r \in RunId PROVE Writing(r)' <=> Writing(r)
    <3>1. CASE r[1] # t
      BY <1>1, <3>1, OthersWrite
    <3>2. CASE r[1] = t
      BY <3>2 DEF Process, Goto, TypeOK, Writing, Rid, Live
    <3> QED BY <3>1, <3>2
  <2> QED BY <2>1 DEF Writers
<1>6. q \in Writers
  BY <1>0, OwnRows DEF Writers, Writing, Process, Rid
<1>7. Book!Note(q, f, o)
  BY <1>1, <1>3, <1>4, <1>5, <1>6 DEF Book!Note, Writers
<1> QED BY <1>3, <1>7 DEF Book!Next

(* A loop's verdict, and the verdict of a run that records no items. *)
LEMMA VerdictTruthful ==
  ASSUME TypeOK, NEW t \in Task, Counts(t)
  PROVE  Book!Truthful(Rid(t), Concluded(t))
<1>1. CASE todo[t] # {}
  BY <1>1 DEF Concluded, Book!Truthful
<1>2. CASE todo[t] = {}
  <2> DEFINE N == Book!Noted(Rid(t))
  <2>0. N = {items[Rid(t)][f] : f \in Fixture} \ {"none"}
    BY DEF Book!Noted
  <2>1. \A o \in Outcome : tally[t][o] \in Nat /\ (tally[t][o] = 0 <=> o \notin N)
    <3> TAKE o \in Outcome
    <3>1. tally[t][o] \in Nat /\ (tally[t][o] = 0 <=> ItemsWith(Rid(t), o) = {})
      BY NoneCounted, ItemsFinite DEF Counts
    <3>2. ItemsWith(Rid(t), o) = {} <=> o \notin N
      BY <2>0 DEF ItemsWith, Outcome
    <3> QED BY <3>1, <3>2
  <2>2. N \subseteq Outcome
    <3>1. \A f \in Fixture : items[Rid(t)][f] \in Outcome \cup {"none"}
      BY RidInRunId DEF TypeOK
    <3> QED BY <2>0, <3>1
  <2>3. Concluded(t) = RunStatus(tally[t])
    BY <1>2 DEF Concluded
  <2>4. CASE tally[t]["failed"] = 0
    BY <2>1, <2>3, <2>4 DEF RunStatus, Book!Truthful, Outcome
  <2>5. CASE tally[t]["failed"] # 0 /\ tally[t]["succeeded"] + tally[t]["skipped"] > 0
    <3>1. "failed" \in N /\ ("succeeded" \in N \/ "skipped" \in N)
      BY <2>1, <2>5 DEF Outcome
    <3>2. Concluded(t) = "partial"
      BY <2>3, <2>5 DEF RunStatus
    <3> QED BY <3>1, <3>2 DEF Book!Truthful
  <2>6. CASE tally[t]["failed"] # 0 /\ ~ (tally[t]["succeeded"] + tally[t]["skipped"] > 0)
    <3>1. "succeeded" \notin N /\ "skipped" \notin N
      BY <2>1, <2>6 DEF Outcome
    <3>2. Concluded(t) = "failed" /\ N \subseteq {"failed"}
      BY <2>2, <2>3, <2>6, <3>1 DEF RunStatus, Outcome
    <3> QED BY <3>2 DEF Book!Truthful
  <2> QED BY <2>4, <2>5, <2>6
<1> QED BY <1>1, <1>2

LEMMA BlankTruthful ==
  ASSUME NEW r, items[r] = Blank, NEW s \in Terminal
  PROVE  Book!Truthful(r, s)
<1>1. Book!Noted(r) = {}
  BY DEF Book!Noted, Blank
<1> QED BY <1>1 DEF Book!Truthful, Terminal

(* Concluding. *)
LEMMA FinalizeImplements ==
  ASSUME BInv, NEW t \in Task, Finalize(t)
  PROVE  Book!Next
<1> USE DEF BInv, IInv
<1>0. PICK q \in RunId, s \in Terminal : q = Rid(t) /\ s = verdict[t]
  BY RidInRunId DEF Finalize, VerdictReady
<1>1. Mine(t) /\ Counts(t) /\ s = Concluded(t)
  BY <1>0 DEF Mine, TaskStep, Finalize, TallySound, Counts, Counting
<1>2. Book!Truthful(q, s)
  BY <1>0, <1>1, VerdictTruthful
<1>3. Statuses' = [Statuses EXCEPT ![q] = s]
  BY <1>0 DEF Finalize, Statuses, TypeOK
<1>4. q \in Writers
  BY <1>0, OwnRows DEF Writers, Writing, Finalize, Rid
<1>5. Writers' = Writers \ {q}
  <2>1. ASSUME NEW r \in RunId PROVE Writing(r)' <=> Writing(r) /\ r # q
    <3>1. CASE r[1] # t
      BY <1>0, <1>1, <3>1, OthersWrite DEF Rid
    <3>2. CASE r[1] = t
      <4>1. /\ pc[t] = "finalize" /\ pc'[t] = "leave"
            /\ phase' = phase /\ kind' = kind /\ Rid(t)' = Rid(t)
        BY DEF Finalize, Goto, TypeOK, Rid
      <4>2. phase[t] = "grade" => Rid(t) # <<t, "own">>
        BY DEF Rid
      <4> QED BY <1>0, <3>2, <4>1, <4>2 DEF Writing, Live
    <3> QED BY <3>1, <3>2
  <2> QED BY <2>1 DEF Writers
<1>6. items' = items
  BY DEF Finalize
<1>7. Book!Conclude(q, s)
  BY <1>2, <1>3, <1>4, <1>5, <1>6 DEF Book!Conclude, Writers, Statuses
<1> QED BY <1>7 DEF Book!Next, Terminal

LEMMA CloseImplements ==
  ASSUME BInv, NEW t \in Task, Close(t)
  PROVE  Book!Next
<1> USE DEF BInv, IInv
<1>0. PICK q \in RunId, s \in Terminal : q = <<t, "own">> /\ s = verdict[t]
  BY RidInRunId DEF Close, VerdictReady
<1>1. Mine(t)
  BY DEF Mine, TaskStep
<1>a. kind[t] \notin Managed /\ (phase[t] = "grade" => kind[t] = "baselines")
  BY DEF Close, PhaseSound, Managed, Unmanaged, TypeOK
<1>2. items[q] = Blank
  BY <1>0, <1>a DEF Untouched, IsManaged
<1>3. Book!Truthful(q, s)
  BY <1>2, BlankTruthful
<1>4. Statuses' = [Statuses EXCEPT ![q] = s]
  BY <1>0 DEF Close, Statuses, TypeOK, RunRow
<1>5. q \in Writers
  BY <1>0 DEF Writers, Writing, Close
<1>6. Writers' = Writers \ {q}
  <2>1. ASSUME NEW r \in RunId PROVE Writing(r)' <=> Writing(r) /\ r # q
    <3>1. CASE r[1] # t
      BY <1>0, <1>1, <3>1, OthersWrite
    <3>2. CASE r[1] = t
      <4>1. /\ pc[t] = "close" /\ kind' = kind
            /\ pc'[t] = "done" \/ (pc'[t] = "lock" /\ kind[t] # "baselines")
        BY DEF Close, BeginGrade, Goto, TypeOK
      <4>2. ~ Writing(r)'
        BY <3>2, <4>1 DEF Writing, Live
      <4>3. Writing(r) => r = q
        BY <1>0, <3>2, <4>1 DEF Writing
      <4> QED BY <4>2, <4>3
    <3> QED BY <3>1, <3>2
  <2> QED BY <1>5, <2>1 DEF Writers
<1>7. items' = items
  BY DEF Close
<1>8. Book!Conclude(q, s)
  BY <1>3, <1>4, <1>5, <1>6, <1>7 DEF Book!Conclude, Writers, Statuses
<1> QED BY <1>8 DEF Book!Next, Terminal

(* The boot, and a cancel request that lands. *)
LEMMA OutsidersImplement ==
  ASSUME BInv, Outsiders
  PROVE  Book!Next
<1> USE DEF BInv, IInv
<1>1. Writers' = Writers /\ items' = items
  BY OutsidersKeep DEF Writers, Writing, Rid, Live
<1>2. CASE Sweep
  <2>1. Statuses' = [r \in RunId |-> IF Statuses[r] = "running" THEN "failed" ELSE Statuses[r]]
    <3>1. \A r \in RunId : row'[r].status = IF row[r].status = "running" THEN "failed" ELSE row[r].status
      BY <1>2 DEF Sweep, Orphan, TypeOK, RunRow
    <3> QED BY <3>1 DEF Statuses
  <2>2. Book!FailOrphans
    BY <1>1, <2>1 DEF Book!FailOrphans, Writers, Statuses
  <2> QED BY <2>2 DEF Book!Next
<1>3. CASE UNCHANGED rowVars
  BY <1>1, <1>3, LoseImplements
<1>4. ASSUME NEW q \in RunId, CancelCommit(q) PROVE Book!Next
  <2>1. row[q].status # "none" /\ row' = [row EXCEPT ![q].status = "cancelled"]
    BY <1>4 DEF CancelCommit, ClosingOpened
  <2>2. Statuses' = [Statuses EXCEPT ![q] = "cancelled"]
    BY <2>1 DEF Statuses, TypeOK, RunRow
  <2>3. Book!Strike(q)
    BY <1>1, <2>1, <2>2 DEF Book!Strike, Writers, Statuses
  <2> QED BY <2>3 DEF Book!Next
<1> QED
  BY <1>2, <1>3, <1>4 DEF Outsiders, Serve, ReapLock, Cancel, CancelSignal, CancelRead

LEMMA StepBook == BInv /\ [Next]_vars => [Book!Next]_(Book!bookVars)
<1> SUFFICES ASSUME BInv, [Next]_vars PROVE [Book!Next]_(Book!bookVars)
  OBVIOUS
<1>1. CASE UNCHANGED vars
  BY <1>1 DEF Book!bookVars, vars, taskVars, rowVars, Writing, Rid, Live
<1>2. CASE Outsiders
  BY <1>2, OutsidersImplement
<1>3. CASE CrashApi
  <2>1. Writers' \subseteq Writers
    BY <1>3, OwnRows, CrashKeeps DEF BInv, IInv, Writers, Writing, Rid, Live
  <2> QED BY <1>3, <2>1, LoseImplements DEF CrashApi
<1>4. ASSUME NEW t \in Task, Mine(t) PROVE Book!Next
  <2>1. CASE CreateRun(t) \/ Open(t)
    BY <2>1, OpenImplements
  <2>2. CASE Process(t) \/ Finalize(t) \/ Close(t)
    BY <2>2, NoteImplements, FinalizeImplements, CloseImplements
  <2>3. ASSUME ~ CreateRun(t), ~ Open(t), ~ Process(t), ~ Finalize(t), ~ Close(t)
        PROVE  Book!Next
    <3>1. Writers' \subseteq Writers
      BY <1>4, <2>3, WritersShrink DEF BInv, IInv
    <3>2. UNCHANGED rowVars
      BY <1>4, <2>3
      DEF Mine, Launch, TriggerRun, SyncJob, CliRun, Start, TaskStep, TryLock, Register, Select,
          Loop, Leave, Work, Settle, Raise, KillCli, rowVars
    <3> QED BY <3>1, <3>2, LoseImplements
  <2> QED BY <2>1, <2>2, <2>3
<1> QED BY <1>1, <1>2, <1>3, <1>4, StepsSorted

(***************************************************************************)
(* The run lifecycle implements the run history: one writer per row, items *)
(* that only it adds and never twice, and a verdict that agrees with them; *)
(* outsiders only fail every running row at once, or strike one out.       *)
(***************************************************************************)
THEOREM Refinement == Spec => KeepsRunBook
<1>1. Init => Book!Init
  BY InitBook
<1>2. BInv /\ [Next]_vars => [Book!Next]_(Book!bookVars)
  BY StepBook
<1> QED BY <1>1, <1>2, HistoryInvariance, PTL DEF Spec, Book!Spec, KeepsRunBook
=============================================================================
