----------------------------- MODULE RunsProofs -----------------------------
(***************************************************************************)
(* Theorems about the run lifecycle, for any number of tasks, fixtures,    *)
(* crashes and errors.                                                     *)
(***************************************************************************)
EXTENDS Runs, TLAPS

LEMMA RidInRunId ==
  TypeOK => \A t \in Task : Rid(t) \in RunId /\ <<t, "own">> \in RunId
BY DEF TypeOK, Rid, RunId

LEMMA KeyOfInLockKey == \A k : KeyOf(k) \in LockKey
BY DEF KeyOf, LockKey

LEMMA RunStatusType == \A n : RunStatus(n) \in Terminal
BY DEF RunStatus, Terminal

LEMMA ConcludedType == \A t : Concluded(t) \in Terminal
<1> TAKE t
<1>1. CASE todo[t] # {}
  BY <1>1 DEF Concluded, Terminal
<1>2. CASE todo[t] = {}
  BY <1>2, RunStatusType DEF Concluded
<1> QED BY <1>1, <1>2

LEMMA ItemStatusType ==
  \A k, s : s \in Replies(k) => ItemStatus(s) \in Outcome
BY DEF ItemStatus, Replies, Outcome

LEMMA ZeroType == Zero \in Totals
BY DEF Zero, Totals

(* What an update of one field does to a table of rows. *)
LEMMA StatusUpdate ==
  ASSUME NEW rs \in [RunId -> RunRow], NEW r \in RunId,
         NEW s \in Terminal \cup {"none", "running"}
  PROVE  [rs EXCEPT ![r].status = s] \in [RunId -> RunRow]
<1>1. [rs[r] EXCEPT !.status = s] \in RunRow
  BY DEF RunRow
<1> QED BY <1>1

LEMMA RowUpdate ==
  ASSUME NEW rs \in [RunId -> RunRow], NEW r \in RunId,
         NEW s \in Terminal \cup {"none", "running"}, NEW n \in Totals
  PROVE  [rs EXCEPT ![r] = [status |-> s, totals |-> n]] \in [RunId -> RunRow]
BY DEF RunRow

LEMMA TallyUpdate ==
  ASSUME NEW ts \in [Task -> Totals], NEW t \in Task, NEW o \in Outcome
  PROVE  [ts EXCEPT ![t][o] = @ + 1] \in [Task -> Totals]
<1>1. [ts[t] EXCEPT ![o] = @ + 1] \in Totals
  BY DEF Totals
<1> QED BY <1>1

LEMMA ItemUpdate ==
  ASSUME NEW is \in [RunId -> [Fixture -> Outcome \cup {"none"}]],
         NEW r \in RunId, NEW f \in Fixture, NEW o \in Outcome
  PROVE  [is EXCEPT ![r][f] = o] \in [RunId -> [Fixture -> Outcome \cup {"none"}]]
<1>1. [is[r] EXCEPT ![f] = o] \in [Fixture -> Outcome \cup {"none"}]
  OBVIOUS
<1> QED BY <1>1

(***************************************************************************)
(* Type correctness.                                                       *)
(***************************************************************************)
LEMMA InitTypeOK == Init => TypeOK
BY ConstantsAssumption, ZeroType
   DEF Init, TypeOK, PC, Locked, Terminal, RunType, Managed, Unmanaged, Blank, RunRow

LEMMA NextTypeOK == TypeOK /\ VerdictReady /\ [Next]_vars => TypeOK'
<1> SUFFICES ASSUME TypeOK, VerdictReady, [Next]_vars PROVE TypeOK'
  OBVIOUS
<1> USE ConstantsAssumption
<1>1. CASE Sweep
  <2>1. row' \in [RunId -> RunRow]
    <3>1. ASSUME NEW r \in RunId PROVE [row[r] EXCEPT !.status = "failed"] \in RunRow
      BY DEF TypeOK, RunRow, Terminal
    <3> QED BY <1>1, <3>1 DEF Sweep, TypeOK
  <2> QED BY <1>1, <2>1 DEF Sweep, TypeOK, taskVars
<1>2. CASE Serve
  BY <1>2 DEF Serve, TypeOK, taskVars, rowVars
<1>3. CASE CrashApi
  BY <1>3 DEF CrashApi, TypeOK, rowVars, PC
<1>4. ASSUME NEW k \in LockKey, ReapLock(k) PROVE TypeOK'
  BY <1>4 DEF ReapLock, TypeOK, taskVars, rowVars
<1>5. ASSUME NEW t \in Task, Launch(t) PROVE TypeOK'
  <2>1. ASSUME NEW o \in {"schedule", "manual", "cli"}, NEW k \in RunType, Start(t, o, k)
        PROVE  TypeOK'
    BY <2>1 DEF Start, Goto, TypeOK, rowVars, PC
  <2>2. PICK o \in {"schedule", "manual", "cli"}, k \in RunType : Start(t, o, k)
    BY <1>5 DEF Launch, TriggerRun, SyncJob, CliRun, RunType, Managed, Unmanaged
  <2> QED BY <2>1, <2>2
<1>6. ASSUME NEW t \in Task, TaskStep(t) PROVE TypeOK'
  <2> DEFINE r == Rid(t)
  <2>0. r \in RunId /\ <<t, "own">> \in RunId
    BY RidInRunId
  <2>a. AfterRun(t) \in PC
    BY DEF AfterRun, PC
  <2>1. CASE TryLock(t)
    <3> DEFINE k == KeyOf(Doing(t))
    <3>1. k \in LockKey
      BY KeyOfInLockKey
    <3>2. CASE lock[k] = NoTask /\ lock' = [lock EXCEPT ![k] = t] /\ Goto(t, "create")
      BY <2>1, <3>1, <3>2 DEF TryLock, Goto, TypeOK, rowVars, PC, Locked
    <3>3. CASE lock' = lock /\ Goto(t, AfterRun(t))
      BY <2>1, <2>a, <3>3 DEF TryLock, Goto, TypeOK, rowVars
    <3> QED BY <2>1, <3>2, <3>3 DEF TryLock
  <2>2. CASE CreateRun(t)
    <3>1. row' \in [RunId -> RunRow]
      BY <2>2, <2>0, StatusUpdate DEF CreateRun, TypeOK
    <3> QED BY <2>2, <3>1 DEF CreateRun, Goto, TypeOK, PC, Locked
  <2>3. CASE Register(t)
    BY <2>3, <2>0 DEF Register, Goto, TypeOK, PC, Locked, rowVars
  <2>4. CASE Select(t)
    BY <2>4, ZeroType DEF Select, Goto, TypeOK, PC, Locked, rowVars
  <2>5. CASE Loop(t)
    BY <2>5, ConcludedType DEF Loop, Goto, TypeOK, PC, Locked, rowVars
  <2>6. CASE Process(t)
    <3>1. PICK s \in Replies(Doing(t)), f \in todo[t] :
            /\ tally' = [tally EXCEPT ![t][ItemStatus(s)] = @ + 1]
            /\ items' = [items EXCEPT ![Rid(t)][f] = ItemStatus(s)]
            /\ todo' = [todo EXCEPT ![t] = @ \ {f}]
      BY <2>6 DEF Process
    <3>2. ItemStatus(s) \in Outcome /\ f \in Fixture
      BY ItemStatusType, <3>1 DEF TypeOK
    <3>3. tally' \in [Task -> Totals]
      BY <3>1, <3>2, TallyUpdate DEF TypeOK
    <3>4. items' \in [RunId -> [Fixture -> Outcome \cup {"none"}]]
      BY <2>0, <3>1, <3>2, ItemUpdate DEF TypeOK
    <3> QED BY <2>6, <3>1, <3>3, <3>4 DEF Process, Goto, TypeOK, PC, Locked
  <2>7. CASE Finalize(t)
    <3>1. verdict[t] \in Terminal /\ tally[t] \in Totals
      BY <2>7 DEF Finalize, VerdictReady, TypeOK
    <3>2. row' \in [RunId -> RunRow]
      BY <2>7, <2>0, <3>1, RowUpdate DEF Finalize, TypeOK
    <3> QED BY <2>7, <3>2 DEF Finalize, Goto, TypeOK, PC, Locked
  <2>8. CASE Leave(t)
    BY <2>8, <2>0, <2>a, KeyOfInLockKey
    DEF Leave, Popped, Released, Goto, TypeOK, rowVars
  <2>9. CASE Open(t)
    <3>1. row' \in [RunId -> RunRow]
      BY <2>9, <2>0, StatusUpdate DEF Open, TypeOK
    <3> QED BY <2>9, <3>1 DEF Open, Goto, TypeOK, PC
  <2>10. CASE Work(t)
    <3>1. verdict' \in [Task -> Terminal \cup {"none", "raised"}]
      BY <2>10 DEF Work, TypeOK, Terminal
    <3>2. pc' \in [Task -> PC] /\ phase' \in [Task -> {"own", "grade"}]
      BY <2>10 DEF Work, BeginGrade, Goto, TypeOK, PC
    <3> QED BY <2>10, <3>1, <3>2 DEF Work, TypeOK, rowVars
  <2>11. CASE Settle(t)
    BY <2>11 DEF Settle, Goto, TypeOK, PC, rowVars, Terminal
  <2>12. CASE Close(t)
    <3>1. verdict[t] \in Terminal
      BY <2>12 DEF Close, VerdictReady, TypeOK
    <3>2. row' \in [RunId -> RunRow]
      BY <2>12, <2>0, <3>1, StatusUpdate DEF Close, TypeOK
    <3> QED BY <2>12, <3>2 DEF Close, BeginGrade, Goto, TypeOK, PC
  <2> QED
    BY <1>6, <2>1, <2>2, <2>3, <2>4, <2>5, <2>6, <2>7, <2>8, <2>9, <2>10, <2>11, <2>12
    DEF TaskStep
<1>7. ASSUME NEW t \in Task, Raise(t) PROVE TypeOK'
  <2>1. faults' \in 0..MaxFaults
    BY <1>7 DEF Raise, TypeOK
  <2>2. pc' \in [Task -> PC]
    BY <1>7 DEF Raise, Goto, TypeOK, PC, Locked
  <2> QED BY <1>7, <2>1, <2>2 DEF Raise, TypeOK, rowVars
<1>8. ASSUME NEW t \in Task, KillCli(t) PROVE TypeOK'
  <2>1. crashes' \in 0..MaxCrashes
    BY <1>8 DEF KillCli, TypeOK
  <2>2. event' \in [RunId -> {"none", "clear", "set"}]
    BY <1>8, RidInRunId DEF KillCli, TypeOK
  <2>3. pc' \in [Task -> PC]
    BY <1>8 DEF KillCli, Goto, TypeOK, PC
  <2> QED BY <1>8, <2>1, <2>2, <2>3 DEF KillCli, TypeOK, rowVars
<1>9. ASSUME NEW r \in RunId, Cancel(r) PROVE TypeOK'
  <2>1. CASE CancelSignal(r)
    BY <1>9, <2>1 DEF CancelSignal, TypeOK, taskVars, rowVars
  <2>2. CASE CancelRead(r)
    BY <1>9, <2>2 DEF CancelRead, TypeOK, taskVars, rowVars
  <2>3. CASE CancelCommit(r)
    <3>1. row' \in [RunId -> RunRow]
      BY <1>9, <2>3, StatusUpdate DEF CancelCommit, TypeOK, Terminal
    <3> QED BY <2>3, <3>1 DEF CancelCommit, TypeOK, taskVars
  <2> QED BY <1>9, <2>1, <2>2, <2>3 DEF Cancel
<1>10. CASE UNCHANGED vars
  BY <1>10 DEF vars, taskVars, rowVars, TypeOK
<1> QED
  BY <1>1, <1>2, <1>3, <1>4, <1>5, <1>6, <1>7, <1>8, <1>9, <1>10 DEF Next

(***************************************************************************)
(* A task about to write a row has a terminal status in hand.              *)
(***************************************************************************)
LEMMA NextVerdictReady == TypeOK /\ VerdictReady /\ [Next]_vars => VerdictReady'
<1> SUFFICES ASSUME TypeOK, VerdictReady, [Next]_vars,
                    NEW u \in Task, pc'[u] \in {"finalize", "close"}
             PROVE  verdict'[u] \in Terminal
  BY DEF VerdictReady
<1>1. CASE pc' = pc /\ verdict' = verdict
  BY <1>1 DEF VerdictReady
<1>2. CASE CrashApi
  BY <1>2 DEF CrashApi, VerdictReady
<1>3. ASSUME NEW t \in Task, Launch(t) PROVE verdict'[u] \in Terminal
  BY <1>3 DEF Launch, TriggerRun, SyncJob, CliRun, Start, Goto, VerdictReady, TypeOK
<1>4. ASSUME NEW t \in Task, TaskStep(t) PROVE verdict'[u] \in Terminal
  <2>1. CASE u # t
    BY <1>4, <2>1
    DEF TaskStep, TryLock, CreateRun, Register, Select, Loop, Process, Finalize, Leave,
        Open, Work, Settle, Close, BeginGrade, Goto, VerdictReady, TypeOK
  <2>2. CASE u = t
    <3>1. CASE Loop(t)
      BY <2>2, <3>1, ConcludedType DEF Loop, Goto, VerdictReady, TypeOK
    <3>2. CASE Work(t) \/ Settle(t)
      BY <2>2, <3>2 DEF Work, Settle, BeginGrade, Goto, VerdictReady, TypeOK, Terminal
    <3>3. CASE TryLock(t) \/ CreateRun(t) \/ Register(t) \/ Select(t) \/ Process(t)
      BY <2>2, <3>3
      DEF TryLock, AfterRun, CreateRun, Register, Select, Process, Goto, VerdictReady, TypeOK
    <3>4. CASE Finalize(t) \/ Leave(t) \/ Open(t) \/ Close(t)
      BY <2>2, <3>4
      DEF Finalize, Leave, AfterRun, Open, Close, BeginGrade, Goto, VerdictReady, TypeOK
    <3> QED BY <1>4, <3>1, <3>2, <3>3, <3>4 DEF TaskStep
  <2> QED BY <2>1, <2>2
<1>5. ASSUME NEW t \in Task, Raise(t) \/ KillCli(t) PROVE verdict'[u] \in Terminal
  BY <1>5 DEF Raise, KillCli, Goto, VerdictReady, TypeOK
<1> QED
  BY <1>1, <1>2, <1>3, <1>4, <1>5
  DEF Next, Sweep, Serve, ReapLock, Cancel, CancelSignal, CancelRead, CancelCommit, vars, taskVars

(***************************************************************************)
(* Whoever is inside RunService holds the lock of its run type.            *)
(***************************************************************************)
LEMMA NextLockHeld == TypeOK /\ LockHeld /\ [Next]_vars => LockHeld'
<1> SUFFICES ASSUME TypeOK, LockHeld, [Next]_vars, NEW u \in Task, pc'[u] \in Locked
             PROVE  lock'[KeyOf(Doing(u)')] = u
  BY DEF LockHeld, Doing, KeyOf
<1> DEFINE k == KeyOf(Doing(u))
<1>0. k \in LockKey
  BY KeyOfInLockKey
<1>1. ASSUME pc[u] \in Locked, lock'[k] = lock[k], kind'[u] = kind[u], phase'[u] = phase[u]
      PROVE  lock'[KeyOf(Doing(u)')] = u
  BY <1>1 DEF LockHeld, Doing
<1>2. CASE UNCHANGED <<kind, phase, pc, lock>>
  BY <1>1, <1>2
<1>3. CASE CrashApi
  BY <1>1, <1>3 DEF CrashApi, Locked
<1>4. ASSUME NEW j \in LockKey, ReapLock(j) PROVE lock'[KeyOf(Doing(u)')] = u
  <2>1. pc[u] \in Locked /\ lock[k] = u
    BY <1>4 DEF ReapLock, taskVars, LockHeld
  <2>2. j # k
    BY <1>4, <2>1 DEF ReapLock, Locked
  <2> QED BY <1>1, <1>4, <2>1, <2>2, <1>0 DEF ReapLock, taskVars, TypeOK
<1>5. ASSUME NEW t \in Task, Launch(t) PROVE lock'[KeyOf(Doing(u)')] = u
  BY <1>1, <1>5 DEF Launch, TriggerRun, SyncJob, CliRun, Start, Goto, TypeOK, Locked
<1>6. ASSUME NEW t \in Task, TaskStep(t) PROVE lock'[KeyOf(Doing(u)')] = u
  <2>1. CASE TryLock(t)
    <3>1. kind'[u] = kind[u] /\ phase'[u] = phase[u]
      BY <2>1 DEF TryLock
    <3>2. CASE u = t
      <4>1. lock' = [lock EXCEPT ![k] = t]
        BY <2>1, <3>2 DEF TryLock, Goto, AfterRun, Locked, TypeOK
      <4> QED BY <3>1, <3>2, <4>1, <1>0 DEF Doing, TypeOK
    <3>3. CASE u # t
      <4>1. pc[u] \in Locked /\ lock[k] = u
        BY <2>1, <3>3 DEF TryLock, Goto, LockHeld, TypeOK
      <4>2. lock'[k] = lock[k]
        BY <2>1, <4>1, <1>0, ConstantsAssumption DEF TryLock, TypeOK
      <4> QED BY <1>1, <3>1, <4>1, <4>2
    <3> QED BY <3>2, <3>3
  <2>2. CASE Leave(t)
    <3>1. u # t /\ pc[u] \in Locked
      BY <2>2 DEF Leave, Goto, AfterRun, Locked, TypeOK
    <3>2. KeyOf(Doing(t)) # k
      BY <2>2, <3>1 DEF Leave, LockHeld, Locked
    <3> QED BY <1>1, <2>2, <3>1, <3>2, <1>0, KeyOfInLockKey DEF Leave, Released, TypeOK
  <2>3. CASE CreateRun(t) \/ Register(t) \/ Select(t) \/ Loop(t) \/ Process(t) \/ Finalize(t)
    BY <1>1, <2>3
    DEF CreateRun, Register, Select, Loop, Process, Finalize, Goto, TypeOK, Locked
  <2>4. CASE Open(t) \/ Work(t) \/ Settle(t) \/ Close(t)
    BY <1>1, <2>4 DEF Open, Work, Settle, Close, BeginGrade, Goto, TypeOK, Locked
  <2> QED BY <1>6, <2>1, <2>2, <2>3, <2>4 DEF TaskStep
<1>7. ASSUME NEW t \in Task, Raise(t) PROVE lock'[KeyOf(Doing(u)')] = u
  BY <1>1, <1>7 DEF Raise, Goto, TypeOK, Locked
<1>8. ASSUME NEW t \in Task, KillCli(t) PROVE lock'[KeyOf(Doing(u)')] = u
  BY <1>1, <1>8 DEF KillCli, Goto, TypeOK, Locked
<1> QED
  BY <1>2, <1>3, <1>4, <1>5, <1>6, <1>7, <1>8
  DEF Next, Sweep, Serve, Cancel, CancelSignal, CancelRead, CancelCommit, vars, taskVars

(***************************************************************************)
(* A task of the server lives only while the server is up.                 *)
(***************************************************************************)
LEMMA NextServerUp == TypeOK /\ ServerUp /\ [Next]_vars => ServerUp'
<1> SUFFICES ASSUME TypeOK, ServerUp, [Next]_vars, NEW u \in Task, OnApi(u)', Live(u)'
             PROVE  server' = "up"
  BY DEF ServerUp
<1>1. CASE pc' = pc /\ origin' = origin /\ server' = server
  BY <1>1 DEF ServerUp, OnApi, Live
<1>2. CASE Sweep \/ Serve \/ CrashApi
  BY <1>2 DEF Sweep, Serve, CrashApi, ServerUp, OnApi, Live, taskVars
<1>3. ASSUME NEW t \in Task, Launch(t) PROVE server' = "up"
  BY <1>3 DEF Launch, TriggerRun, SyncJob, CliRun, Start, Goto, ServerUp, OnApi, Live, TypeOK
<1>4. ASSUME NEW t \in Task, TaskStep(t) PROVE server' = "up"
  <2>1. pc[t] \notin {"idle", "done", "dead"} /\ origin' = origin /\ server' = server
        /\ (u = t \/ pc'[u] = pc[u])
    BY <1>4
    DEF TaskStep, TryLock, CreateRun, Register, Select, Loop, Process, Finalize, Leave,
        Open, Work, Settle, Close, BeginGrade, Goto, TypeOK
  <2> QED BY <2>1 DEF ServerUp, OnApi, Live
<1>5. ASSUME NEW t \in Task, Raise(t) \/ KillCli(t) PROVE server' = "up"
  BY <1>5 DEF Raise, KillCli, Goto, ServerUp, OnApi, Live, TypeOK
<1> QED
  BY <1>1, <1>2, <1>3, <1>4, <1>5
  DEF Next, ReapLock, Cancel, CancelSignal, CancelRead, CancelCommit, vars, taskVars

(***************************************************************************)
(* An event exists only while the loop that listens to it does.            *)
(***************************************************************************)
LEMMA NextCancellingMeansLive ==
  TypeOK /\ ServerUp /\ CancellingMeansLive /\ [Next]_vars => CancellingMeansLive'
<1> DEFINE Listening == {"select", "loop", "process", "finalize", "leave"}
<1> SUFFICES ASSUME TypeOK, ServerUp, CancellingMeansLive, [Next]_vars,
                    NEW r \in RunId, event'[r] # "none"
             PROVE  /\ phase'[r[1]] = r[2]
                    /\ pc'[r[1]] \in Listening
                    /\ OnApi(r[1])' => server' = "up"
  BY DEF CancellingMeansLive
<1> DEFINE u == r[1]
<1>0. u \in Task /\ r = <<u, r[2]>>
  BY DEF RunId
<1>a. event[r] # "none" => phase[u] = r[2] /\ pc[u] \in Listening
                           /\ (OnApi(u) => server = "up")
  BY DEF CancellingMeansLive
<1>1. CASE UNCHANGED <<event, phase, pc, origin, server>>
  BY <1>1, <1>a DEF OnApi
<1>2. CASE Sweep \/ Serve
  BY <1>2, <1>a DEF Sweep, Serve, taskVars, OnApi
<1>3. CASE CrashApi
  BY <1>3, <1>a, <1>0 DEF CrashApi, OnApi, TypeOK
<1>4. ASSUME NEW t \in Task, Launch(t)
      PROVE  phase'[u] = r[2] /\ pc'[u] \in Listening /\ (OnApi(u)' => server' = "up")
  BY <1>4, <1>a, <1>0
  DEF Launch, TriggerRun, SyncJob, CliRun, Start, Goto, OnApi, TypeOK
<1>5. ASSUME NEW t \in Task, TaskStep(t)
      PROVE  phase'[u] = r[2] /\ pc'[u] \in Listening /\ (OnApi(u)' => server' = "up")
  <2>0. origin' = origin /\ server' = server
    BY <1>5
    DEF TaskStep, TryLock, CreateRun, Register, Select, Loop, Process, Finalize, Leave,
        Open, Work, Settle, Close
  <2>1. CASE Register(t)
    <3>1. CASE r = Rid(t)
      <4>1. u = t /\ r[2] = phase[t]
        BY <3>1 DEF Rid
      <4>2. OnApi(t) => server = "up"
        BY <2>1 DEF Register, ServerUp, Live
      <4> QED BY <2>0, <2>1, <4>1, <4>2 DEF Register, Goto, TypeOK, OnApi
    <3>2. CASE r # Rid(t)
      <4>1. event[r] # "none"
        BY <2>1, <3>2 DEF Register, TypeOK
      <4>2. u # t
        BY <2>1, <4>1, <1>a DEF Register
      <4> QED BY <2>0, <2>1, <1>a, <1>0, <4>1, <4>2 DEF Register, Goto, TypeOK, OnApi
    <3> QED BY <3>1, <3>2
  <2>2. CASE Leave(t)
    <3>1. r # Rid(t)
      BY <2>2, RidInRunId DEF Leave, Popped, TypeOK
    <3>2. event[r] # "none"
      BY <2>2, <3>1 DEF Leave, Popped, TypeOK
    <3>3. u # t
      BY <3>1, <3>2, <1>a, <1>0 DEF Rid
    <3> QED BY <2>0, <2>2, <1>a, <1>0, <3>2, <3>3 DEF Leave, Goto, TypeOK, OnApi
  <2>3. CASE Select(t) \/ Loop(t) \/ Process(t) \/ Finalize(t)
    BY <2>0, <2>3, <1>a, <1>0
    DEF Select, Loop, Process, Finalize, Goto, TypeOK, OnApi
  <2>4. CASE TryLock(t) \/ CreateRun(t) \/ Open(t) \/ Work(t) \/ Settle(t) \/ Close(t)
    <3>1. event' = event /\ pc[t] \notin Listening
      BY <2>4 DEF TryLock, CreateRun, Open, Work, Settle, Close
    <3>2. u # t
      BY <3>1, <1>a
    <3>3. phase'[u] = phase[u] /\ pc'[u] = pc[u]
      BY <2>4, <3>2, <1>0
      DEF TryLock, CreateRun, Open, Work, Settle, Close, BeginGrade, Goto, TypeOK
    <3> QED BY <2>0, <1>a, <3>1, <3>3 DEF OnApi
  <2> QED BY <1>5, <2>1, <2>2, <2>3, <2>4 DEF TaskStep
<1>6. ASSUME NEW t \in Task, Raise(t)
      PROVE  phase'[u] = r[2] /\ pc'[u] \in Listening /\ (OnApi(u)' => server' = "up")
  BY <1>6, <1>a, <1>0 DEF Raise, Goto, OnApi, TypeOK
<1>7. ASSUME NEW t \in Task, KillCli(t)
      PROVE  phase'[u] = r[2] /\ pc'[u] \in Listening /\ (OnApi(u)' => server' = "up")
  <2>1. r # Rid(t)
    BY <1>7, RidInRunId DEF KillCli, TypeOK
  <2>2. event[r] # "none"
    BY <1>7, <2>1 DEF KillCli, TypeOK
  <2>3. u # t
    BY <2>1, <2>2, <1>a, <1>0 DEF Rid
  <2> QED BY <1>7, <1>a, <1>0, <2>2, <2>3 DEF KillCli, Goto, TypeOK, OnApi
<1>8. ASSUME NEW q \in RunId, Cancel(q)
      PROVE  phase'[u] = r[2] /\ pc'[u] \in Listening /\ (OnApi(u)' => server' = "up")
  <2>1. event[r] # "none"
    BY <1>8 DEF Cancel, CancelSignal, CancelRead, CancelCommit, TypeOK
  <2> QED BY <1>8, <2>1, <1>a
    DEF Cancel, CancelSignal, CancelRead, CancelCommit, taskVars, OnApi
<1> QED
  BY <1>1, <1>2, <1>3, <1>4, <1>5, <1>6, <1>7, <1>8
  DEF Next, ReapLock, vars, taskVars

(***************************************************************************)
(* The inductive invariant.                                                *)
(***************************************************************************)
LEMMA InitIInv == Init => IInv
<1> SUFFICES ASSUME Init PROVE IInv
  OBVIOUS
<1>1. TypeOK
  BY InitTypeOK
<1>2. VerdictReady /\ LockHeld
  BY DEF Init, VerdictReady, LockHeld, Locked
<1>3. ServerUp /\ CancellingMeansLive
  BY DEF Init, ServerUp, Live, CancellingMeansLive
<1> QED BY <1>1, <1>2, <1>3 DEF IInv

LEMMA NextIInv == IInv /\ [Next]_vars => IInv'
BY NextTypeOK, NextVerdictReady, NextLockHeld, NextServerUp, NextCancellingMeansLive DEF IInv

(***************************************************************************)
(* The inductive invariant holds of every behaviour: an event that a       *)
(* cancel request can set is always one a live loop of a serving process   *)
(* will look at, and a task about to close a row knows its status.         *)
(***************************************************************************)
THEOREM Invariance == Spec => []IInv
BY InitIInv, NextIInv, PTL DEF Spec

(***************************************************************************)
(* Every variable keeps its type.                                          *)
(***************************************************************************)
THEOREM TypeCorrect == Spec => []TypeOK
<1>1. IInv => TypeOK
  BY DEF IInv
<1> QED BY <1>1, Invariance, PTL

(***************************************************************************)
(* "No overlap", for any number of processes and runs: the advisory lock   *)
(* excludes two runs of a type, and a predict run from a backfill run,     *)
(* through crashes, reaped connections and escaping errors.                *)
(***************************************************************************)
THEOREM Exclusion == Spec => []NoOverlap
<1>1. IInv => NoOverlap
  BY DEF IInv, LockHeld, NoOverlap
<1> QED BY <1>1, Invariance, PTL

(***************************************************************************)
(* request_cancel never answers "cancelling" for a run that is gone.       *)
(***************************************************************************)
THEOREM CancelReachesTheRun == Spec => []CancellingMeansLive
<1>1. IInv => CancellingMeansLive
  BY DEF IInv
<1> QED BY <1>1, Invariance, PTL

(***************************************************************************)
(* A settled row of the run history changes only for a cancel request that *)
(* had read it as running: no restart, no other run and no late writer     *)
(* touches it.                                                             *)
(***************************************************************************)
LEMMA StepKeepsHistory ==
  ASSUME TypeOK, Next, NEW r \in RunId,
         row[r].status \in Terminal, ~ Live(r[1]), r \notin closing
  PROVE  row'[r] = row[r] /\ items'[r] = items[r]
<1>1. ASSUME NEW t \in Task, Live(t) PROVE r # Rid(t) /\ r # <<t, "own">>
  BY <1>1 DEF Rid
<1>2. CASE UNCHANGED rowVars
  BY <1>2 DEF rowVars
<1>3. CASE Sweep
  BY <1>3 DEF Sweep, Orphan, Terminal
<1>4. ASSUME NEW t \in Task, TaskStep(t) PROVE row'[r] = row[r] /\ items'[r] = items[r]
  <2>1. CASE TryLock(t) \/ Register(t) \/ Select(t) \/ Loop(t) \/ Leave(t) \/ Work(t) \/ Settle(t)
    BY <2>1, <1>2 DEF TryLock, Register, Select, Loop, Leave, Work, Settle
  <2>2. CASE CreateRun(t) \/ Finalize(t) \/ Open(t) \/ Close(t)
    <3>1. Live(t)
      BY <2>2 DEF CreateRun, Finalize, Open, Close, Live
    <3>2. r # Rid(t) /\ r # <<t, "own">>
      BY <3>1, <1>1
    <3> QED BY <2>2, <3>2 DEF CreateRun, Finalize, Open, Close, TypeOK
  <2>3. CASE Process(t)
    <3>1. r # Rid(t)
      BY <2>3, <1>1 DEF Process, Live
    <3> QED BY <2>3, <3>1 DEF Process, TypeOK
  <2> QED BY <1>4, <2>1, <2>2, <2>3 DEF TaskStep
<1>5. ASSUME NEW t \in Task, Launch(t) \/ Raise(t) \/ KillCli(t) PROVE UNCHANGED rowVars
  BY <1>5 DEF Launch, TriggerRun, SyncJob, CliRun, Start, Raise, KillCli
<1>6. ASSUME NEW q \in RunId, Cancel(q) PROVE row'[r] = row[r] /\ items'[r] = items[r]
  <2>1. CASE CancelSignal(q) \/ CancelRead(q)
    BY <2>1, <1>2 DEF CancelSignal, CancelRead
  <2>2. CASE CancelCommit(q)
    BY <2>2 DEF CancelCommit, TypeOK
  <2> QED BY <1>6, <2>1, <2>2 DEF Cancel
<1>7. Serve \/ CrashApi \/ (\E k \in LockKey : ReapLock(k)) => UNCHANGED rowVars
  BY DEF Serve, CrashApi, ReapLock
<1> QED BY <1>2, <1>3, <1>4, <1>5, <1>6, <1>7 DEF Next

THEOREM HistoryTheorem == Spec => HistoryIsStable
<1> DEFINE Kept == \A r \in RunId :
                     row[r].status \in Terminal /\ ~ Live(r[1]) /\ r \notin closing
                     => row'[r] = row[r] /\ items'[r] = items[r]
<1>1. TypeOK /\ [Next]_vars => [Kept]_vars
  BY StepKeepsHistory
<1>2. Spec => [][Kept]_vars
  BY <1>1, TypeCorrect, PTL DEF Spec
<1> QED BY <1>2 DEF HistoryIsStable
=============================================================================
