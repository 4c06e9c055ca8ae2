-------------------------------- MODULE Runs --------------------------------
(***************************************************************************)
(* The run lifecycle: services/run_service.py, workers/runner.py, the      *)
(* trigger and cancel routes of routes/admin.py, the orphan sweep of       *)
(* main.py and the scheduler.                                              *)
(*                                                                         *)
(* A task is one invocation of a runner: an asyncio task of the API        *)
(* server, or a CLI process beside it.  A predict, grade or backfill run   *)
(* is "managed": RunService takes a Postgres advisory lock, records items  *)
(* and listens to a cancel event.  A sync, baselines or batch run only     *)
(* writes a Run row by hand, and some of them then start a grade run of    *)
(* their own.  A task therefore owns up to two rows, <<t, "own">> and      *)
(* <<t, "grade">>.                                                         *)
(*                                                                         *)
(* Rows and locks live in Postgres and survive a crash; everything else    *)
(* belongs to a process.  One action is what happens between two awaits,   *)
(* or up to the next step somebody else can notice.                        *)
(* What processing a fixture does to the data is module Pipeline's         *)
(* subject; here it is only the status it reports.                         *)
(***************************************************************************)
EXTENDS Naturals, FiniteSets

CONSTANTS
  Task,        \* runner invocations
  NoTask,      \* holder of a free lock
  Fixture,     \* fixtures, numbered in kickoff order
  Cap,         \* per-run fixture cap
  Kinds,       \* the run types this instance launches
  Origins,     \* who launches them
  FaultSites,  \* where a database error may escape RunService
  MaxCrashes,  \* bound: process deaths
  MaxFaults    \* bound: escaping database errors

Managed   == {"predict", "grade", "backfill"}
Unmanaged == {"sync", "baselines", "batch_backfill", "batch_predict"}
RunType   == Managed \cup Unmanaged

ASSUME ConstantsAssumption ==
  /\ NoTask \notin Task
  /\ Fixture \subseteq Nat
  /\ IsFiniteSet(Fixture)
  /\ Cap \in Nat
  /\ Kinds \subseteq RunType
  /\ Origins \subseteq {"schedule", "manual", "cli"}
  /\ FaultSites \subseteq {"process", "bookkeeping"}
  /\ MaxCrashes \in Nat /\ MaxFaults \in Nat

Outcome  == {"succeeded", "skipped", "failed"}
Terminal == {"succeeded", "partial", "failed", "cancelled"}
RunId    == Task \X {"own", "grade"}
LockKey  == {"predict_lock", "grade_lock"}
Totals   == [Outcome -> Nat]
RunRow   == [status : Terminal \cup {"none", "running"}, totals : Totals]

VARIABLES
  server,    \* API process: down, swept (orphans failed), up
  origin,    \* [Task -> who launched it]
  kind,      \* [Task -> its run type]
  pc,        \* [Task -> where it is suspended]
  phase,     \* [Task -> which of its rows it works on]
  todo,      \* [Task -> selected fixtures with no item yet]
  tally,     \* [Task -> in-memory totals]
  verdict,   \* [Task -> status it is about to write; "raised" after an error]
  event,     \* [RunId -> cancel event: none, clear, set]
  row,       \* [RunId -> Run row: status and totals]
  items,     \* [RunId -> [Fixture -> RunItem status or "none"]]
  lock,      \* [LockKey -> task whose connection holds it]
  closing,   \* rows a cancel request has read as running and will overwrite
  crashes, faults

taskVars == <<origin, kind, pc, phase, todo, tally, verdict>>
rowVars  == <<row, items>>
vars == <<server, taskVars, event, rowVars, lock, closing, crashes, faults>>

Zero  == [o \in Outcome |-> 0]
Blank == [f \in Fixture |-> "none"]

Locked == {"create", "register", "select", "loop", "process", "finalize", "leave"}
PC == {"idle", "open", "work", "close", "lock", "settle", "done", "dead"} \cup Locked

TypeOK ==
  /\ server \in {"down", "swept", "up"}
  /\ origin \in [Task -> {"none", "schedule", "manual", "cli"}]
  /\ kind \in [Task -> RunType \cup {"none"}]
  /\ pc \in [Task -> PC]
  /\ phase \in [Task -> {"own", "grade"}]
  /\ todo \in [Task -> SUBSET Fixture]
  /\ tally \in [Task -> Totals]
  /\ verdict \in [Task -> Terminal \cup {"none", "raised"}]
  /\ event \in [RunId -> {"none", "clear", "set"}]
  /\ row \in [RunId -> RunRow]
  /\ items \in [RunId -> [Fixture -> Outcome \cup {"none"}]]
  /\ lock \in [LockKey -> Task \cup {NoTask}]
  /\ closing \subseteq RunId
  /\ crashes \in 0..MaxCrashes /\ faults \in 0..MaxFaults

-----------------------------------------------------------------------------
(* Helpers *)

Rid(t)   == <<t, phase[t]>>
Doing(t) == IF phase[t] = "own" THEN kind[t] ELSE "grade"
OnApi(t) == origin[t] \in {"schedule", "manual"}
Live(t)  == pc[t] \notin {"idle", "done", "dead"}

\* _PREDICT_LOCK serves predict and backfill, _GRADE_LOCK serves grade
KeyOf(k) == IF k = "grade" THEN "grade_lock" ELSE "predict_lock"

\* what process() can report for a fixture, per run type
Replies(k) ==
  {"error", "skipped", "not_found"} \cup
  (IF k = "predict" THEN {"ok", "failed"}
                    ELSE {"graded", "void", "no_prediction", "awaiting_result"})

\* _ITEM_STATUS: everything it does not list is a failed item
ItemStatusUnmapped(s) == CASE s \in {"ok", "graded"} -> "succeeded" [] OTHER -> s  \* mutant
ItemStatus(s) == CASE s \in {"ok", "graded"} -> "succeeded"
                   [] s = "skipped"          -> "skipped"
                   [] OTHER                  -> "failed"

\* _run_status
RunStatusLenient(n) == IF n["succeeded"] > 0 THEN "succeeded" ELSE "failed"  \* mutant
RunStatus(n) ==
  IF n["failed"] = 0 THEN "succeeded"
  ELSE IF n["succeeded"] + n["skipped"] > 0 THEN "partial" ELSE "failed"

\* the row a boot takes for an orphan
OrphanOwnOnly(r) == row[r].status = "running" /\ r[2] = "own"       \* mutant
OrphanAnyRow(r)  == row[r].status # "none"                          \* mutant
Orphan(r)        == row[r].status = "running"

\* the events after _execute's finally
PoppedOnReturn(t) ==                                                \* mutant
  IF verdict[t] = "raised" THEN event ELSE [event EXCEPT ![Rid(t)] = "none"]
Popped(t) == [event EXCEPT ![Rid(t)] = "none"]

\* the advisory locks after _run's finally
ReleasedOnReturn(t) ==                                              \* mutant
  IF verdict[t] = "raised" THEN lock ELSE [lock EXCEPT ![KeyOf(Doing(t))] = NoTask]
Released(t) == [lock EXCEPT ![KeyOf(Doing(t))] = NoTask]

\* where a task stands after RunService returned or raised
AfterAnyRun(t) == IF phase[t] = "grade" THEN "settle" ELSE "done"   \* mutant
AfterRun(t) ==
  IF phase[t] = "grade" /\ kind[t] = "baselines" THEN "settle" ELSE "done"

Goto(t, l) == pc' = [pc EXCEPT ![t] = l]

-----------------------------------------------------------------------------
Init ==
  /\ server = "down"
  /\ origin = [t \in Task |-> "none"]
  /\ kind = [t \in Task |-> "none"]
  /\ pc = [t \in Task |-> "idle"]
  /\ phase = [t \in Task |-> "own"]
  /\ todo = [t \in Task |-> {}]
  /\ tally = [t \in Task |-> Zero]
  /\ verdict = [t \in Task |-> "none"]
  /\ event = [r \in RunId |-> "none"]
  /\ row = [r \in RunId |-> [status |-> "none", totals |-> Zero]]
  /\ items = [r \in RunId |-> Blank]
  /\ lock = [k \in LockKey |-> NoTask]
  /\ closing = {}
  /\ crashes = 0 /\ faults = 0

(***************************************************************************)
(* The API process: boot fails every row still "running", then serves.     *)
(***************************************************************************)
SweepAgain ==                                                       \* mutant
  /\ server \in {"down", "up"}
  /\ server' = IF server = "down" THEN "swept" ELSE server
  /\ row' = [r \in RunId |-> IF Orphan(r)
                             THEN [row[r] EXCEPT !.status = "failed"] ELSE row[r]]
  /\ UNCHANGED <<taskVars, event, items, lock, closing, crashes, faults>>

Sweep ==
  /\ server = "down"
  /\ server' = "swept"
  /\ row' = [r \in RunId |-> IF Orphan(r)
                             THEN [row[r] EXCEPT !.status = "failed"] ELSE row[r]]
  /\ UNCHANGED <<taskVars, event, items, lock, closing, crashes, faults>>

Serve ==
  /\ server = "swept"
  /\ server' = "up"
  /\ UNCHANGED <<taskVars, event, rowVars, lock, closing, crashes, faults>>

(* Death of the server: its tasks, events and requests vanish; rows and    *)
(* locks stay.                                                             *)
CrashApi ==
  /\ server # "down"
  /\ crashes < MaxCrashes
  /\ crashes' = crashes + 1
  /\ server' = "down"
  /\ pc' = [t \in Task |-> IF OnApi(t) /\ Live(t) THEN "dead" ELSE pc[t]]
  /\ event' = [r \in RunId |-> IF OnApi(r[1]) THEN "none" ELSE event[r]]
  /\ closing' = {}
  /\ UNCHANGED <<origin, kind, phase, todo, tally, verdict, rowVars, lock, faults>>

KillCli(t) ==
  /\ origin[t] = "cli" /\ Live(t)
  /\ crashes < MaxCrashes
  /\ crashes' = crashes + 1
  /\ Goto(t, "dead")
  /\ event' = [event EXCEPT ![Rid(t)] = "none"]
  /\ UNCHANGED <<server, origin, kind, phase, todo, tally, verdict, rowVars,
                 lock, closing, faults>>

(* Postgres notices a dead connection and drops its advisory locks. *)
ReapLock(k) ==
  /\ lock[k] # NoTask
  /\ pc[lock[k]] = "dead"
  /\ lock' = [lock EXCEPT ![k] = NoTask]
  /\ UNCHANGED <<server, taskVars, event, rowVars, closing, crashes, faults>>

-----------------------------------------------------------------------------
(***************************************************************************)
(* Launching.  The route answers "started" and only creates the task; the  *)
(* scheduler runs one sync at a time; the CLI offers run-predict and       *)
(* run-grade.                                                              *)
(***************************************************************************)
Start(t, o, k) ==
  /\ pc[t] = "idle"
  /\ o \in Origins /\ k \in Kinds
  /\ origin' = [origin EXCEPT ![t] = o]
  /\ kind' = [kind EXCEPT ![t] = k]
  /\ Goto(t, IF k \in Managed THEN "lock" ELSE "open")
  /\ UNCHANGED <<server, phase, todo, tally, verdict, event, rowVars, lock,
                 closing, crashes, faults>>

TriggerRun(t) == server = "up" /\ \E k \in RunType : Start(t, "manual", k)

SyncJob(t) ==
  /\ server = "up"
  /\ ~ \E u \in Task : origin[u] = "schedule" /\ Live(u)
  /\ Start(t, "schedule", "sync")

CliRun(t) == \E k \in {"predict", "grade"} : Start(t, "cli", k)

(***************************************************************************)
(* RunService._run and _execute                                            *)
(***************************************************************************)
TryLock(t) ==
  /\ pc[t] = "lock"
  /\ LET k == KeyOf(Doing(t)) IN
       \/ /\ lock[k] = NoTask
          /\ lock' = [lock EXCEPT ![k] = t]
          /\ Goto(t, "create")
       \/ /\ lock[k] # NoTask          \* {"status": "busy"}: no row is written
          /\ Goto(t, AfterRun(t))
          /\ UNCHANGED lock
  /\ UNCHANGED <<server, origin, kind, phase, todo, tally, verdict, event,
                 rowVars, closing, crashes, faults>>

CreateRunOnLockSession(t) ==       \* mutant: the commit hands the lock's connection back
  /\ pc[t] = "create"
  /\ row' = [row EXCEPT ![Rid(t)].status = "running"]
  /\ lock' = Released(t)
  /\ Goto(t, "register")
  /\ UNCHANGED <<server, origin, kind, phase, todo, tally, verdict, event, items,
                 closing, crashes, faults>>

CreateRun(t) ==
  /\ pc[t] = "create"
  /\ row' = [row EXCEPT ![Rid(t)].status = "running"]
  /\ Goto(t, "register")
  /\ UNCHANGED <<server, origin, kind, phase, todo, tally, verdict, event, items,
                 lock, closing, crashes, faults>>

Register(t) ==
  /\ pc[t] = "register"
  /\ event' = [event EXCEPT ![Rid(t)] = "clear"]
  /\ Goto(t, "select")
  /\ UNCHANGED <<server, origin, kind, phase, todo, tally, verdict, rowVars,
                 lock, closing, crashes, faults>>

\* the eligible_for_* query: any set of at most Cap fixtures
Select(t) ==
  /\ pc[t] = "select"
  /\ \E S \in SUBSET Fixture : Cardinality(S) <= Cap /\ todo' = [todo EXCEPT ![t] = S]
  /\ tally' = [tally EXCEPT ![t] = Zero]
  /\ Goto(t, "loop")
  /\ UNCHANGED <<server, origin, kind, phase, verdict, event, rowVars, lock,
                 closing, crashes, faults>>

\* run_status: cancelled only if the event cut the loop short
ConcludedUncut(t) == RunStatus(tally[t])                            \* mutant
Concluded(t) == IF todo[t] # {} THEN "cancelled" ELSE RunStatus(tally[t])

\* head of the loop: take the next fixture, stop on cancel, or fall through
Loop(t) ==
  /\ pc[t] = "loop"
  /\ \/ /\ todo[t] # {} /\ event[Rid(t)] # "set"
        /\ Goto(t, "process")
        /\ UNCHANGED verdict
     \/ /\ todo[t] = {} \/ event[Rid(t)] = "set"
        /\ Goto(t, "finalize")
        /\ verdict' = [verdict EXCEPT ![t] = Concluded(t)]
  /\ UNCHANGED <<server, origin, kind, phase, todo, tally, event, rowVars, lock,
                 closing, crashes, faults>>

\* process() returns after minutes of web search and model calls, or one
\* grading; its status is counted and its item committed
Process(t) ==
  /\ pc[t] = "process"
  /\ \E s \in Replies(Doing(t)), f \in todo[t] :
       LET o == ItemStatus(s) IN
         /\ \A g \in todo[t] : f <= g
         /\ tally' = [tally EXCEPT ![t][o] = @ + 1]
         /\ items' = [items EXCEPT ![Rid(t)][f] = o]
         /\ todo' = [todo EXCEPT ![t] = @ \ {f}]
  /\ Goto(t, "loop")
  /\ UNCHANGED <<server, origin, kind, phase, verdict, event, row, lock, closing,
                 crashes, faults>>

\* blind UPDATE of the row by primary key
Finalize(t) ==
  /\ pc[t] = "finalize"
  /\ row' = [row EXCEPT ![Rid(t)] = [status |-> verdict[t], totals |-> tally[t]]]
  /\ Goto(t, "leave")
  /\ UNCHANGED <<server, origin, kind, phase, todo, tally, verdict, event, items,
                 lock, closing, crashes, faults>>

\* the two finally blocks: forget the event, then give the lock up
Leave(t) ==
  /\ pc[t] = "leave"
  /\ event' = Popped(t)
  /\ lock' = Released(t)
  /\ Goto(t, AfterRun(t))
  /\ UNCHANGED <<server, origin, kind, phase, todo, tally, verdict, rowVars, closing,
                 crashes, faults>>

(***************************************************************************)
(* An exception that escapes _execute: its finally pops the event, _run    *)
(* unlocks, and nobody touches the row.  A query or commit of the          *)
(* bookkeeping session can raise; so can run_backfill's delete of the old  *)
(* grades, the one step of process() outside its try blocks.               *)
(***************************************************************************)
Raise(t) ==
  /\ faults < MaxFaults
  /\ faults' = faults + 1
  /\ \/ /\ "bookkeeping" \in FaultSites
        /\ pc[t] \in {"create", "select", "process", "finalize"}
     \/ /\ "process" \in FaultSites
        /\ pc[t] = "process" /\ Doing(t) = "backfill"
  /\ verdict' = [verdict EXCEPT ![t] = "raised"]
  /\ Goto(t, "leave")
  /\ UNCHANGED <<server, origin, kind, phase, todo, tally, event, rowVars, lock,
                 closing, crashes>>

-----------------------------------------------------------------------------
(***************************************************************************)
(* Unmanaged runs: run_sync, run_baselines, _run_batch.  No lock, no       *)
(* cancel event; the row is re-read at the end and overwritten whatever    *)
(* it says.                                                                *)
(***************************************************************************)
Open(t) ==
  /\ pc[t] = "open"
  /\ row' = [row EXCEPT ![Rid(t)].status = "running"]
  /\ Goto(t, "work")
  /\ UNCHANGED <<server, origin, kind, phase, todo, tally, verdict, event, items,
                 lock, closing, crashes, faults>>

BeginGrade(t) ==
  /\ phase' = [phase EXCEPT ![t] = "grade"]
  /\ Goto(t, "lock")

\* the paid, slow or networked part; baselines grade before they close
Work(t) ==
  /\ pc[t] = "work"
  /\ \E v \in {"succeeded", "failed"} \cup
              (IF kind[t] \in {"batch_backfill", "batch_predict"} THEN {"partial"} ELSE {}) :
       /\ verdict' = [verdict EXCEPT ![t] = v]
       /\ IF kind[t] = "baselines" /\ v # "failed"
          THEN BeginGrade(t)
          ELSE Goto(t, "close") /\ UNCHANGED phase
  /\ UNCHANGED <<server, origin, kind, todo, tally, event, rowVars, lock,
                 closing, crashes, faults>>

\* back in run_baselines: recompute calibration and the market, either may raise
Settle(t) ==
  /\ pc[t] = "settle"
  /\ \E v \in (IF verdict[t] = "raised" THEN {"failed"} ELSE {"succeeded", "failed"}) :
       verdict' = [verdict EXCEPT ![t] = v]
  /\ Goto(t, "close")
  /\ UNCHANGED <<server, origin, kind, phase, todo, tally, event, rowVars, lock,
                 closing, crashes, faults>>

Close(t) ==
  /\ pc[t] = "close"
  /\ row' = [row EXCEPT ![<<t, "own">>].status = verdict[t]]
  /\ IF kind[t] \in {"sync", "batch_backfill"} /\ verdict[t] # "failed"
     THEN BeginGrade(t)
     ELSE Goto(t, "done") /\ UNCHANGED phase
  /\ UNCHANGED <<server, origin, kind, todo, tally, verdict, event, items, lock,
                 closing, crashes, faults>>

-----------------------------------------------------------------------------
(***************************************************************************)
(* POST /runs/{id}/cancel: signal the event of a run of this process, or   *)
(* else read the row and, if it says running, overwrite it after an await. *)
(***************************************************************************)
CancelSignal(r) ==
  /\ server = "up"
  /\ OnApi(r[1]) /\ event[r] # "none"
  /\ event' = [event EXCEPT ![r] = "set"]
  /\ UNCHANGED <<server, taskVars, rowVars, lock, closing, crashes, faults>>

CancelRead(r) ==
  /\ server = "up"
  /\ ~ (OnApi(r[1]) /\ event[r] # "none")
  /\ row[r].status = "running"
  /\ closing' = closing \cup {r}
  /\ UNCHANGED <<server, taskVars, event, rowVars, lock, crashes, faults>>

CancelCommit(r) ==
  /\ r \in closing
  /\ row' = [row EXCEPT ![r].status = "cancelled"]
  /\ closing' = closing \ {r}
  /\ UNCHANGED <<server, taskVars, event, items, lock, crashes, faults>>

-----------------------------------------------------------------------------
Launch(t)  == TriggerRun(t) \/ SyncJob(t) \/ CliRun(t)

TaskStep(t) ==
  \/ TryLock(t) \/ CreateRun(t) \/ Register(t) \/ Select(t) \/ Loop(t) \/ Process(t)
  \/ Finalize(t) \/ Leave(t)
  \/ Open(t) \/ Work(t) \/ Settle(t) \/ Close(t)

Cancel(r) == CancelSignal(r) \/ CancelRead(r) \/ CancelCommit(r)

Next ==
  \/ Sweep \/ Serve \/ CrashApi
  \/ \E k \in LockKey : ReapLock(k)
  \/ \E t \in Task : Launch(t) \/ TaskStep(t) \/ Raise(t) \/ KillCli(t)
  \/ \E r \in RunId : Cancel(r)

Spec == Init /\ [][Next]_vars

(***************************************************************************)
(* Fairness: the event loop resumes every task whose await has completed,  *)
(* the platform restarts a dead server and it boots, Postgres notices dead *)
(* connections, and a request in flight is answered.  Nobody is obliged to *)
(* launch, cancel, crash or raise.                                         *)
(***************************************************************************)
Fairness ==
  /\ WF_vars(Sweep) /\ WF_vars(Serve)
  /\ \A k \in LockKey : WF_vars(ReapLock(k))
  /\ \A t \in Task : WF_vars(TaskStep(t))
  /\ \A r \in RunId : WF_vars(CancelCommit(r))

FairSpec == Spec /\ Fairness

-----------------------------------------------------------------------------
(* Safety *)

(***************************************************************************)
(* "No overlap": two tasks, in whatever processes, are never both inside   *)
(* RunService on one lock; a predict run excludes a backfill run too.      *)
(***************************************************************************)
NoOverlap ==
  \A t, u \in Task :
    /\ pc[t] \in Locked /\ pc[u] \in Locked
    /\ KeyOf(Doing(t)) = KeyOf(Doing(u))
    => t = u

ItemsWith(r, o) == {f \in Fixture : items[r][f] = o}
IsManaged(r)    == r[2] = "grade" \/ kind[r[1]] \in Managed

(***************************************************************************)
(* A managed row that says succeeded or partial is true of the items the   *)
(* run committed one by one: its totals count them, no selected fixture    *)
(* was left out, and failures show exactly when it says partial.           *)
(***************************************************************************)
GoodNewsIsTrue ==
  \A r \in RunId : IsManaged(r) /\ row[r].status \in {"succeeded", "partial"} =>
    /\ \A o \in Outcome : row[r].totals[o] = Cardinality(ItemsWith(r, o))
    /\ phase[r[1]] = r[2] => todo[r[1]] = {}
    /\ row[r].status = "partial" <=> ItemsWith(r, "failed") # {}

(***************************************************************************)
(* request_cancel answers "cancelling" only for a run whose loop is still  *)
(* there to see the event: a crash, an exception or the end of the run     *)
(* leaves no event behind.                                                 *)
(***************************************************************************)
CancellingMeansLive ==
  \A r \in RunId : event[r] # "none" =>
    /\ phase[r[1]] = r[2]
    /\ pc[r[1]] \in {"select", "loop", "process", "finalize", "leave"}
    /\ OnApi(r[1]) => server = "up"

(***************************************************************************)
(* The boot sweep never fails a row the serving process is working on.     *)
(***************************************************************************)
SweepSparesOwnRuns ==
  \A t \in Task : OnApi(t) =>
    /\ pc[t] \in {"select", "loop", "process", "finalize"}
         => row[Rid(t)].status \in {"running", "cancelled"}
    /\ pc[t] \in {"work", "settle", "close"}
         => row[<<t, "own">>].status \in {"running", "cancelled"}

(***************************************************************************)
(* History is stable: once a run's task is gone and its row is no longer   *)
(* running, the row changes only if a cancel request had already read it   *)
(* as running.                                                             *)
(***************************************************************************)
HistoryIsStable ==
  [][\A r \in RunId :
       row[r].status \in Terminal /\ ~ Live(r[1]) /\ r \notin closing
       => row'[r] = row[r] /\ items'[r] = items[r]]_vars

-----------------------------------------------------------------------------
(***************************************************************************)
(* The inductive invariant behind the theorems of RunsProofs: a task about *)
(* to write a row knows a status to write; whoever is inside RunService    *)
(* holds its lock; an event exists only inside the loop; a task of the     *)
(* server lives only while the server is up.                               *)
(***************************************************************************)
VerdictReady == \A t \in Task : pc[t] \in {"finalize", "close"} => verdict[t] \in Terminal

LockHeld == \A t \in Task : pc[t] \in Locked => lock[KeyOf(Doing(t))] = t

ServerUp == \A t \in Task : OnApi(t) /\ Live(t) => server = "up"

IInv == TypeOK /\ VerdictReady /\ LockHeld /\ ServerUp /\ CancellingMeansLive

(***************************************************************************)
(* What the run history rests on besides, the inductive invariant behind   *)
(* GoodNewsIsTrue, SweepSparesOwnRuns and KeepsRunBook: a task's row is    *)
(* untouched until the task opens it, its totals count the items committed *)
(* so far, and it stays open, unless struck out, until its own verdict.    *)
(***************************************************************************)
PhaseSound ==
  \A t \in Task :
    /\ phase[t] = "own" =>
         /\ pc[t] \in Locked \cup {"lock"} => kind[t] \in Managed
         /\ pc[t] \in {"open", "work", "close"} => kind[t] \in Unmanaged
         /\ pc[t] # "settle"
    /\ phase[t] = "grade" =>
         /\ kind[t] \in Unmanaged
         /\ pc[t] \notin {"idle", "open", "work"}
         /\ pc[t] \in {"settle", "close"} => kind[t] = "baselines"

Unopened(r) ==
  \/ r[2] = "grade" /\ phase[r[1]] = "own"
  \/ r = Rid(r[1]) /\ pc[r[1]] \in {"idle", "open", "lock", "create"}

Untouched ==
  /\ \A r \in RunId : Unopened(r) => row[r].status = "none" /\ items[r] = Blank
  /\ \A r \in RunId : ~ IsManaged(r) => items[r] = Blank

Counting == {"loop", "process", "finalize"}

TallySound ==
  \A t \in Task :
    /\ pc[t] \in {"register", "select"} => items[Rid(t)] = Blank
    /\ pc[t] \in Counting =>
         /\ \A o \in Outcome : tally[t][o] = Cardinality(ItemsWith(Rid(t), o))
         /\ \A f \in todo[t] : items[Rid(t)][f] = "none"
    /\ pc[t] = "finalize" => verdict[t] = Concluded(t)

\* what an open row may say: a boot fails the rows of CLI runs too
OpenStatus(t) == {"running", "cancelled"} \cup (IF OnApi(t) THEN {} ELSE {"failed"})

OpenRows ==
  \A t \in Task :
    /\ pc[t] \in {"register", "select"} \cup Counting => row[Rid(t)].status \in OpenStatus(t)
    /\ \/ pc[t] \in {"work", "settle", "close"}
       \/ kind[t] = "baselines" /\ phase[t] = "grade" /\ Live(t)
       => row[<<t, "own">>].status \in OpenStatus(t)

ClosingOpened == \A r \in closing : row[r].status # "none"

BInv ==
  /\ IInv /\ PhaseSound /\ Untouched /\ TallySound /\ OpenRows /\ ClosingOpened
  /\ GoodNewsIsTrue

-----------------------------------------------------------------------------
(* Refinement *)

\* the task at work on a row: it may still add items or write a verdict
Writing(r) ==
  LET t == r[1] IN
    \/ /\ r = Rid(t)
       /\ pc[t] \in {"register", "select", "loop", "process", "finalize"}
    \/ /\ r = <<t, "own">> /\ pc[t] \in {"work", "close"}
    \/ /\ r = <<t, "own">> /\ kind[t] = "baselines" /\ phase[t] = "grade"
       /\ Live(t)

Book == INSTANCE RunBook WITH
          status <- [r \in RunId |-> row[r].status],
          writer <- {r \in RunId : Writing(r)}

(***************************************************************************)
(* The whole machinery keeps the run history's promise (module RunBook).   *)
(***************************************************************************)
KeepsRunBook == Book!Spec

-----------------------------------------------------------------------------
(* Liveness, under FairSpec *)

(***************************************************************************)
(* No row of the server says running for ever, through crashes, restarts   *)
(* and cancels, unless an exception escaped RunService.                    *)
(***************************************************************************)
RowsSettle ==
  \A r \in RunId : (row[r].status = "running" /\ OnApi(r[1]))
                  ~> (row[r].status # "running" \/ faults > 0)

(***************************************************************************)
(* A lock is always given up: on return, on an exception, on a crash.      *)
(***************************************************************************)
LocksFreed == \A k \in LockKey, t \in Task : lock[k] = t ~> lock[k] # t

-----------------------------------------------------------------------------
(* What the repository says and the code does not do *)

(***************************************************************************)
(* admin.py, cancel_run: "If it's live, signal it; if it's a stale         *)
(* 'running' row left by a restart (no live task), finalize it directly".  *)
(***************************************************************************)
OnlyStaleRowsCancelled ==
  [][\A r \in RunId :
       row[r].status = "running" /\ row'[r].status = "cancelled" /\ verdict[r[1]] # "cancelled"
       => ~ Live(r[1])]_vars
=============================================================================
