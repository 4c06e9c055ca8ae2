-------------------------------- MODULE Sync --------------------------------
(***************************************************************************)
(* Fixture sync and fixture identity: services/fixture_sync_service.py,    *)
(* repositories/fixtures.py, the free-first composite and the HTTP cache   *)
(* of providers/sports_api.py and providers/_http.py, and the id with      *)
(* which grading_service.py asks providers/results.py for a result.        *)
(*                                                                         *)
(* The two sports APIs number the same matches differently and name teams  *)
(* by codes of their own.  A sync lists the matches with the first         *)
(* provider that answers, finds a row for each by (provider, external_id)  *)
(* or else by the pair of teams, and commits once at the end.  Nothing     *)
(* excludes two syncs - scheduled, manual, CLI - at the same time.         *)
(***************************************************************************)
EXTENDS Naturals, Sequences, FiniteSets

CONSTANTS
  Match,      \* the real matches
  NoMatch,    \* no result yet
  Code,       \* team codes
  Id,         \* external ids
  Teams,      \* [Provider -> [Match -> <<home code, away code>>]]
  Ext,        \* [Provider -> [Match -> external id]]
  RowId,      \* bound: fixture rows
  NoRow,
  Session,    \* syncs that may run at once
  NoSession,
  Phases,     \* bound: statuses a match goes through
  MaxFaults,  \* bound: refusals, network and database errors
  Graded      \* bound: rows whose result is asked for

\* sports_provider_order, free first; results come from the first one only
Chain    == <<"football_data", "api_football">>
Provider == {"football_data", "api_football"}
Primary  == "football_data"

\* hidden: a pairing not decided yet, which neither provider lists
Known  == {"scheduled", "finished"}
Status == Known \cup {"hidden"}
List   == SUBSET (Match \X Known)

Fixture == [provider : Provider, id : Id, home : Code, away : Code, status : Known]

SyncState == [at : {"fetch", "answer", "upsert"},
              link : 1..Len(Chain),             \* provider it is asking
              todo : List,                      \* listed, not upserted yet
              loaded : [RowId -> Fixture \cup {NoRow}],  \* rows as it found them
              mine : [RowId -> Fixture \cup {NoRow}],    \* rows as it leaves them
              teams : SUBSET Code]              \* teams it inserts

ASSUME ConstantsAssumption ==
  /\ NoMatch \notin Match /\ NoRow \notin Fixture
  /\ NoSession \notin SyncState
  /\ Phases \subseteq Known
  /\ RowId \subseteq Nat /\ MaxFaults \in Nat /\ Graded \subseteq RowId
  /\ Teams \in [Provider -> [Match -> Code \X Code]]
  /\ Ext \in [Provider -> [Match -> Id]]

VARIABLES
  real,     \* [Match -> its status in the world]
  cache,    \* [Provider -> {its fresh cached list} or {}]
  teams,    \* codes of the Team rows
  rows,     \* [RowId -> Fixture row]
  sync,     \* [Session -> open sync]
  asking,   \* result requests under way: <<row, external id>>
  result,   \* [RowId -> match whose score its Result row holds]
  faults

vars == <<real, cache, teams, rows, sync, asking, result, faults>>

TypeOK ==
  /\ real \in [Match -> Status]
  /\ cache \in [Provider -> SUBSET List]
  /\ teams \subseteq Code
  /\ rows \in [RowId -> Fixture \cup {NoRow}]
  /\ sync \in [Session -> SyncState \cup {NoSession}]
  /\ asking \subseteq RowId \X Id
  /\ result \in [RowId -> Match \cup {NoMatch}]
  /\ faults \in 0..MaxFaults

-----------------------------------------------------------------------------
Listed       == {x \in Match \X Known : real[x[1]] = x[2]}
At(s, l)     == sync[s] # NoSession /\ sync[s].at = l
Asked(s)     == Chain[sync[s].link]
End(s)       == sync' = [sync EXCEPT ![s] = NoSession]

Described(p, m, st) ==
  [provider |-> p, id |-> Ext[p][m], home |-> Teams[p][m][1], away |-> Teams[p][m][2],
   status |-> st]

\* _FIXTURE_MUTABLE: everything but the teams
RefreshedKeepsId(row, new) ==                                       \* mutant
  [row EXCEPT !.provider = new.provider, !.status = new.status]
RefreshedIdentity(row, new) ==                                      \* mutant
  [row EXCEPT !.provider = new.provider, !.id = new.id]
Refreshed(row, new) ==
  [row EXCEPT !.provider = new.provider, !.id = new.id, !.status = new.status]

\* the UPDATE names only the columns this session changed
Column(now, loaded, new) == IF new = loaded THEN now ELSE new
Merged(now, loaded, new) ==
  [now EXCEPT !.provider = Column(now.provider, loaded.provider, new.provider),
              !.id       = Column(now.id, loaded.id, new.id),
              !.status   = Column(now.status, loaded.status, new.status)]

\* row i as session s would leave it, given the committed rows
After(s, i) ==
  IF sync[s].mine[i] = NoRow THEN rows[i]
  ELSE IF sync[s].loaded[i] = NoRow THEN sync[s].mine[i]
  ELSE Merged(rows[i], sync[s].loaded[i], sync[s].mine[i])

ById(s, new) == {i \in RowId : /\ After(s, i) # NoRow
                               /\ After(s, i).provider = new.provider
                               /\ After(s, i).id = new.id}

ByTeamsEitherWay(s, new) ==                                         \* mutant
  {i \in RowId : /\ After(s, i) # NoRow
                 /\ {After(s, i).home, After(s, i).away} = {new.home, new.away}}
ByTeams(s, new) == {i \in RowId : /\ After(s, i) # NoRow
                                  /\ After(s, i).home = new.home /\ After(s, i).away = new.away}

Found(s, new) == IF ById(s, new) # {} THEN ById(s, new) ELSE ByTeams(s, new)

Untouched == [i \in RowId |-> NoRow]
Syncing(at, link, todo, loaded, mine, new) ==
  [at |-> at, link |-> link, todo |-> todo, loaded |-> loaded, mine |-> mine, teams |-> new]
Become(s, state) == sync' = [sync EXCEPT ![s] = state]

\* session s after it upserted x, which it found as old in row i and leaves as new
Upserted(s, x, i, old, new) ==
  Syncing("upsert", sync[s].link, sync[s].todo \ {x}, [sync[s].loaded EXCEPT ![i] = old],
          [sync[s].mine EXCEPT ![i] = new], sync[s].teams \cup ({new.home, new.away} \ teams))

\* an id no row has: a new UUID
Unused(i) == rows[i] = NoRow /\ \A s \in Session : sync[s] # NoSession => sync[s].mine[i] = NoRow

-----------------------------------------------------------------------------
Init ==
  /\ real = [m \in Match |-> "hidden"]
  /\ cache = [p \in Provider |-> {}]
  /\ teams = {}
  /\ rows = [i \in RowId |-> NoRow]
  /\ sync = [s \in Session |-> NoSession]
  /\ asking = {}
  /\ result = [i \in RowId |-> NoMatch]
  /\ faults = 0

(* The world, and the cache's time to live. *)
Play(m) ==
  /\ \E st \in Phases : /\ st # real[m] /\ real[m] # "finished"
                        /\ real' = [real EXCEPT ![m] = st]
  /\ UNCHANGED <<cache, teams, rows, sync, asking, result, faults>>

Expire(p) ==
  /\ cache[p] # {} /\ cache' = [cache EXCEPT ![p] = {}]
  /\ UNCHANGED <<real, teams, rows, sync, asking, result, faults>>

-----------------------------------------------------------------------------
(***************************************************************************)
(* CompositeFixturesProvider.list_fixtures over fetch_json                 *)
(***************************************************************************)
StartSync(s) ==
  /\ sync[s] = NoSession
  /\ Become(s, Syncing("fetch", 1, {}, Untouched, Untouched, {}))
  /\ UNCHANGED <<real, cache, teams, rows, asking, result, faults>>

\* on to the next provider; with none left the sync ends without a write
NextLink(s) ==
  IF sync[s].link < Len(Chain)
  THEN Become(s, Syncing("fetch", sync[s].link + 1, {}, Untouched, Untouched, {}))
  ELSE End(s)

\* the first list that is not empty
Received(s, list) ==
  IF list = {} THEN NextLink(s)
  ELSE Become(s, Syncing("upsert", sync[s].link, list, Untouched, Untouched, {}))

Cached(s) ==
  /\ At(s, "fetch")
  /\ \E list \in cache[Asked(s)] : Received(s, list)
  /\ UNCHANGED <<real, cache, teams, rows, asking, result, faults>>

\* nothing fresh: a request, whose answer arrives later and overwrites the cache
Ask(s) ==
  /\ At(s, "fetch") /\ cache[Asked(s)] = {}
  /\ Become(s, Syncing("answer", sync[s].link, Listed, Untouched, Untouched, {}))
  /\ UNCHANGED <<real, cache, teams, rows, asking, result, faults>>

Answer(s) ==
  /\ At(s, "answer")
  /\ cache' = [cache EXCEPT ![Asked(s)] = {sync[s].todo}]
  /\ Received(s, sync[s].todo)
  /\ UNCHANGED <<real, teams, rows, asking, result, faults>>

\* ProviderUnavailable: rate limited, an HTTP error, no key
Refused(s) ==
  /\ At(s, "answer")
  /\ faults < MaxFaults /\ faults' = faults + 1
  /\ NextLink(s)
  /\ UNCHANGED <<real, cache, teams, rows, asking, result>>

\* any other exception ends the sync, its transaction rolled back
Abort(s) ==
  /\ sync[s] # NoSession
  /\ faults < MaxFaults /\ faults' = faults + 1
  /\ End(s)
  /\ UNCHANGED <<real, cache, teams, rows, asking, result>>

-----------------------------------------------------------------------------
(***************************************************************************)
(* FixtureSyncService._upsert_one: get or create the teams, find the row,  *)
(* update it or insert one.  Two rows found is an exception.               *)
(***************************************************************************)
Upsert(s) ==
  /\ At(s, "upsert")
  /\ \E x \in sync[s].todo :
       LET new == Described(Asked(s), x[1], x[2])
       IN \/ /\ Found(s, new) = {}
             /\ \E i \in RowId : /\ Unused(i) /\ \A k \in RowId : k < i => ~ Unused(k)
                                 /\ Become(s, Upserted(s, x, i, NoRow, new))
          \/ \E i \in Found(s, new) :
               /\ Found(s, new) = {i}
               /\ IF sync[s].mine[i] = NoRow
                  THEN Become(s, Upserted(s, x, i, rows[i], Refreshed(rows[i], new)))
                  ELSE Become(s, Upserted(s, x, i, sync[s].loaded[i],
                                          Refreshed(sync[s].mine[i], new)))
          \/ /\ \E i, k \in Found(s, new) : i # k
             /\ End(s)
  /\ UNCHANGED <<real, cache, teams, rows, asking, result, faults>>

\* uq_fixture_provider_external and the unique fifa_code
Violates(s) ==
  \/ sync[s].teams \cap teams # {}
  \/ \E i, k \in RowId : /\ i # k /\ sync[s].mine[i] # NoRow /\ After(s, k) # NoRow
                         /\ After(s, i).provider = After(s, k).provider
                         /\ After(s, i).id = After(s, k).id

Commit(s) ==
  /\ At(s, "upsert") /\ sync[s].todo = {}
  /\ IF Violates(s) THEN UNCHANGED <<rows, teams>>
     ELSE /\ rows' = [i \in RowId |-> After(s, i)]
          /\ teams' = teams \cup sync[s].teams
  /\ End(s)
  /\ UNCHANGED <<real, cache, asking, result, faults>>

-----------------------------------------------------------------------------
(***************************************************************************)
(* GradingService.grade_fixture asks the result of a finished fixture by   *)
(* its external_id, whichever provider that id is from, of football-data.  *)
(***************************************************************************)
AskResult(i) ==
  /\ i \in Graded /\ rows[i] # NoRow /\ rows[i].status = "finished" /\ result[i] = NoMatch
  /\ asking' = asking \cup {<<i, rows[i].id>>}
  /\ UNCHANGED <<real, cache, teams, rows, sync, result, faults>>

StoreResult(i, id) ==
  /\ <<i, id>> \in asking
  /\ \E m \in Match : /\ Ext[Primary][m] = id /\ real[m] = "finished"
                      /\ result' = [result EXCEPT ![i] = m]
  /\ asking' = asking \ {<<i, id>>}
  /\ UNCHANGED <<real, cache, teams, rows, sync, faults>>

\* unknown id, not finished (perhaps in a cached answer), an error
NoResult(i, id) ==
  /\ <<i, id>> \in asking
  /\ asking' = asking \ {<<i, id>>}
  /\ UNCHANGED <<real, cache, teams, rows, sync, result, faults>>

-----------------------------------------------------------------------------
Work(s) == Cached(s) \/ Ask(s) \/ Answer(s) \/ Upsert(s) \/ Commit(s)

Next ==
  \/ \E m \in Match : Play(m)
  \/ \E p \in Provider : Expire(p)
  \/ \E s \in Session : StartSync(s) \/ Work(s) \/ Refused(s) \/ Abort(s)
  \/ \E i \in RowId : AskResult(i)
  \/ \E i \in RowId, id \in Id : StoreResult(i, id) \/ NoResult(i, id)

Spec == Init /\ [][Next]_vars

(***************************************************************************)
(* The scheduler starts syncs for ever, a started one goes on, and cached  *)
(* answers expire.  Faults are finitely many by their bound.               *)
(***************************************************************************)
Fairness ==
  /\ \A p \in Provider : WF_vars(Expire(p))
  /\ \A s \in Session : WF_vars(StartSync(s)) /\ WF_vars(Work(s))

FairSpec == Spec /\ Fairness

-----------------------------------------------------------------------------
Denoted(row) == {m \in Match : Ext[row.provider][m] = row.id}

(***************************************************************************)
(* What the providers must promise for a fixture row to be one match: they *)
(* agree on team codes, no two matches have the same teams in the same     *)
(* order, and no id names two matches, not even one of each provider.      *)
(***************************************************************************)
Coherent ==
  /\ \A p, q \in Provider, m \in Match : Teams[p][m] = Teams[q][m]
  /\ \A p \in Provider, m, n \in Match : Teams[p][m] = Teams[p][n] => m = n
  /\ \A p, q \in Provider, m, n \in Match : Ext[p][m] = Ext[q][n] => p = q /\ m = n

(***************************************************************************)
(* A row stays the same match for ever, however its provider and id change *)
(* hands and however syncs interleave: its predictions stay attached to    *)
(* the match they are about.                                               *)
(***************************************************************************)
RowKeepsItsMatch ==
  [][\A i \in RowId : rows[i] # NoRow =>
       rows'[i] # NoRow /\ Denoted(rows'[i]) = Denoted(rows[i])]_vars

(***************************************************************************)
(* The result stored for a row is the result of its match, although grading*)
(* asks with an id it read earlier, possibly another provider's.           *)
(***************************************************************************)
ResultIsOfTheMatch ==
  \A i \in RowId : result[i] # NoMatch => rows[i] # NoRow /\ Denoted(rows[i]) = {result[i]}

(***************************************************************************)
(* A finished match is eventually, and from then on, finished in some row, *)
(* in spite of stale caches and of syncs that commit an old list late.     *)
(***************************************************************************)
FinishIsLearnt ==
  \A m \in Match : real[m] = "finished" ~>
    [](\E i \in RowId : rows[i] # NoRow /\ m \in Denoted(rows[i]) /\ rows[i].status = "finished")

-----------------------------------------------------------------------------
(***************************************************************************)
(* The inductive invariant behind the theorems of SyncProofs: what a sync  *)
(* loaded, what is there now and what it will write have the same teams,   *)
(* and a row it will insert is nobody else's.  With coherent providers,    *)
(* every row, committed, loaded or about to be written, carries an id and  *)
(* the teams of one match, and so does every request and every result.     *)
(***************************************************************************)
Pending(s, i) == sync[s] # NoSession /\ sync[s].mine[i] # NoRow

SameTeams(row, other) == row.home = other.home /\ row.away = other.away

PendingSound(s, i) ==
  /\ sync[s].loaded[i] = NoRow => /\ rows[i] = NoRow
                                  /\ \A t \in Session : Pending(t, i) => t = s
  /\ sync[s].loaded[i] # NoRow =>
       /\ rows[i] # NoRow
       /\ SameTeams(sync[s].loaded[i], rows[i]) /\ SameTeams(sync[s].mine[i], rows[i])

SyncsSound == \A s \in Session, i \in RowId : Pending(s, i) => PendingSound(s, i)

Is(row, m) == row.id = Ext[row.provider][m] /\ <<row.home, row.away>> = Teams[row.provider][m]

RowSound(row) == \E m \in Match : Is(row, m)

PlansSound ==
  \A s \in Session, i \in RowId : Pending(s, i) =>
    /\ RowSound(sync[s].mine[i])
    /\ sync[s].loaded[i] # NoRow => RowSound(sync[s].loaded[i])
RowsSound == \A i \in RowId : rows[i] # NoRow => RowSound(rows[i])
RequestsSound ==
  \A i \in RowId, id \in Id : <<i, id>> \in asking =>
    /\ rows[i] # NoRow
    /\ \E m \in Match, p \in Provider : Is(rows[i], m) /\ id = Ext[p][m]
ResultsSound == \A i \in RowId : result[i] # NoMatch => rows[i] # NoRow /\ Is(rows[i], result[i])

IdentitySound == PlansSound /\ RowsSound /\ RequestsSound /\ ResultsSound

IInv == TypeOK /\ SyncsSound /\ (Coherent => IdentitySound)
=============================================================================
