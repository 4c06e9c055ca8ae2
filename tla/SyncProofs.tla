----------------------------- MODULE SyncProofs -----------------------------
(***************************************************************************)
(* Theorems about fixture identity, for any matches, codes, ids, rows and  *)
(* number of syncs at once.                                                *)
(***************************************************************************)
EXTENDS Sync, TLAPS

Table == [RowId -> Fixture \cup {NoRow}]

LEMMA ModelFacts ==
  /\ NoMatch \notin Match /\ NoRow \notin Fixture
  /\ NoSession \notin SyncState
  /\ Phases \subseteq Known /\ MaxFaults \in Nat
BY ConstantsAssumption DEF ConstantsAssumption

LEMMA ProviderFacts ==
  ASSUME NEW p \in Provider, NEW m \in Match
  PROVE  /\ Ext[p][m] \in Id
         /\ Teams[p][m] \in Code \X Code
         /\ Teams[p][m][1] \in Code /\ Teams[p][m][2] \in Code
         /\ Teams[p][m] = <<Teams[p][m][1], Teams[p][m][2]>>
<1>1. Ext[p][m] \in Id /\ Teams[p][m] \in Code \X Code
  BY ConstantsAssumption DEF ConstantsAssumption
<1> QED BY <1>1

LEMMA ChainFacts ==
  /\ Len(Chain) = 2
  /\ \A l \in 1..2 : Chain[l] \in Provider
  /\ Primary \in Provider
BY DEF Chain, Provider, Primary

-----------------------------------------------------------------------------
(* Types of what the actions build *)

LEMMA DescribedType ==
  ASSUME NEW p \in Provider, NEW m \in Match, NEW st \in Known
  PROVE  Described(p, m, st) \in Fixture
BY ProviderFacts DEF Described, Fixture

LEMMA RefreshedType ==
  ASSUME NEW row \in Fixture, NEW new \in Fixture
  PROVE  Refreshed(row, new) \in Fixture
BY DEF Refreshed, Fixture

LEMMA MergedType ==
  ASSUME NEW now \in Fixture, NEW loaded \in Fixture, NEW new \in Fixture
  PROVE  Merged(now, loaded, new) \in Fixture
BY DEF Merged, Column, Fixture

LEMMA SyncingType ==
  ASSUME NEW at \in {"fetch", "answer", "upsert"}, NEW link \in 1..Len(Chain),
         NEW todo \in List, NEW loaded \in Table, NEW mine \in Table,
         NEW new \in SUBSET Code
  PROVE  Syncing(at, link, todo, loaded, mine, new) \in SyncState
BY DEF Syncing, SyncState, Table

LEMMA UntouchedType == Untouched \in Table
BY DEF Untouched, Table

LEMMA SyncType ==
  ASSUME TypeOK, NEW s \in Session, sync[s] # NoSession
  PROVE  /\ sync[s] \in SyncState
         /\ sync[s].link \in 1..Len(Chain)
         /\ sync[s].todo \in List
         /\ sync[s].loaded \in Table /\ sync[s].mine \in Table
         /\ sync[s].teams \in SUBSET Code
         /\ Asked(s) \in Provider
<1>1. sync[s] \in SyncState
  BY DEF TypeOK
<1>2. sync[s].link \in 1..2
  BY <1>1, ChainFacts DEF SyncState
<1> QED BY <1>1, <1>2, ChainFacts DEF SyncState, Table, Asked

LEMMA RefreshedRow ==
  ASSUME TypeOK, NEW i \in RowId, rows[i] # NoRow, NEW new \in Fixture
  PROVE  Refreshed(rows[i], new) \in Fixture
BY RefreshedType DEF TypeOK

LEMMA BecomeType ==
  ASSUME TypeOK, NEW s \in Session, NEW state \in SyncState \cup {NoSession},
         sync' = [sync EXCEPT ![s] = state]
  PROVE  sync' \in [Session -> SyncState \cup {NoSession}]
BY DEF TypeOK

\* a session whose only change is one upserted row keeps its type
LEMMA UpsertedType ==
  ASSUME TypeOK, NEW s \in Session, sync[s] # NoSession, NEW x, NEW i \in RowId,
         NEW old \in Fixture \cup {NoRow}, NEW new \in Fixture
  PROVE  Upserted(s, x, i, old, new) \in SyncState
<1>1. new.home \in Code /\ new.away \in Code
  BY DEF Fixture
<1>2. [sync[s].loaded EXCEPT ![i] = old] \in Table /\ [sync[s].mine EXCEPT ![i] = new] \in Table
  BY SyncType DEF Table
<1>3. sync[s].teams \cup ({new.home, new.away} \ teams) \in SUBSET Code
  BY <1>1, SyncType
<1>4. sync[s].todo \ {x} \in List
  BY SyncType DEF List
<1> QED BY <1>2, <1>3, <1>4, SyncType, SyncingType DEF Upserted

LEMMA AfterType ==
  ASSUME TypeOK, SyncsSound, NEW s \in Session, sync[s] # NoSession, NEW i \in RowId
  PROVE  /\ After(s, i) \in Fixture \cup {NoRow}
         /\ rows[i] # NoRow => After(s, i) # NoRow /\ SameTeams(After(s, i), rows[i])
         /\ ~ Pending(s, i) => After(s, i) = rows[i]
<1>1. rows[i] \in Fixture \cup {NoRow}
  BY DEF TypeOK
<1>2. sync[s].mine[i] \in Fixture \cup {NoRow} /\ sync[s].loaded[i] \in Fixture \cup {NoRow}
  BY SyncType DEF Table
<1>3. CASE sync[s].mine[i] = NoRow
  BY <1>1, <1>3 DEF After, SameTeams, Pending
<1>4. CASE sync[s].mine[i] # NoRow /\ sync[s].loaded[i] = NoRow
  BY <1>2, <1>4 DEF After, Pending, SyncsSound, PendingSound
<1>5. CASE sync[s].mine[i] # NoRow /\ sync[s].loaded[i] # NoRow
  <2>1. After(s, i) = Merged(rows[i], sync[s].loaded[i], sync[s].mine[i]) /\ Pending(s, i)
    BY <1>5 DEF After, Pending
  <2>2. rows[i] \in Fixture
    BY <1>1, <1>5, <2>1 DEF SyncsSound, PendingSound
  <2>3. After(s, i) \in Fixture
    BY <1>2, <1>5, <2>1, <2>2, MergedType
  <2>4. SameTeams(Merged(rows[i], sync[s].loaded[i], sync[s].mine[i]), rows[i])
    BY <2>2 DEF Merged, SameTeams, Fixture
  <2> QED BY <2>1, <2>3, <2>4, ModelFacts
<1> QED BY <1>3, <1>4, <1>5

-----------------------------------------------------------------------------
(* Type correctness, step by step *)

LEMMA TypeInit == Init => TypeOK
<1> SUFFICES ASSUME Init PROVE TypeOK
  OBVIOUS
<1>1. real \in [Match -> Status]
  BY DEF Init, Status
<1>2. rows \in [RowId -> Fixture \cup {NoRow}] /\ result \in [RowId -> Match \cup {NoMatch}]
  BY DEF Init
<1> QED BY <1>1, <1>2, ModelFacts DEF Init, TypeOK

\* the part of the state a sync step may touch, for the steps that touch no other
LEMMA SyncOnly ==
  ASSUME TypeOK, UNCHANGED <<real, teams, rows, asking, result>>,
         cache' \in [Provider -> SUBSET List],
         sync' \in [Session -> SyncState \cup {NoSession}], faults' \in 0..MaxFaults
  PROVE  TypeOK'
BY DEF TypeOK

LEMMA EndType ==
  ASSUME TypeOK, NEW s \in Session, End(s)
  PROVE  sync' \in [Session -> SyncState \cup {NoSession}]
BY BecomeType DEF End

LEMMA FreshState ==
  ASSUME NEW at \in {"fetch", "answer", "upsert"}, NEW link \in 1..Len(Chain),
         NEW todo \in List
  PROVE  Syncing(at, link, todo, Untouched, Untouched, {}) \in SyncState
BY SyncingType, UntouchedType

LEMMA NothingListed == {} \in List
BY DEF List

LEMMA NextLinkType ==
  ASSUME TypeOK, NEW s \in Session, sync[s] # NoSession, NextLink(s)
  PROVE  sync' \in [Session -> SyncState \cup {NoSession}]
<1>1. CASE sync[s].link < Len(Chain)
  <2>1. sync[s].link + 1 \in 1..Len(Chain)
    BY <1>1, SyncType, ChainFacts
  <2> QED BY <1>1, <2>1, NothingListed, FreshState, BecomeType DEF NextLink, Become
<1>2. CASE ~ (sync[s].link < Len(Chain))
  BY <1>2, EndType DEF NextLink
<1> QED BY <1>1, <1>2

LEMMA StartSyncType ==
  ASSUME TypeOK, NEW s \in Session, StartSync(s) PROVE TypeOK'
<1>1. Syncing("fetch", 1, {}, Untouched, Untouched, {}) \in SyncState
  BY NothingListed, FreshState, ChainFacts
<1>2. sync' \in [Session -> SyncState \cup {NoSession}]
  BY <1>1, BecomeType DEF StartSync, Become
<1> QED BY <1>2, SyncOnly DEF StartSync, TypeOK

LEMMA ReceivedType ==
  ASSUME TypeOK, NEW s \in Session, sync[s] # NoSession, NEW list \in List, Received(s, list)
  PROVE  sync' \in [Session -> SyncState \cup {NoSession}]
<1>1. CASE list = {}
  BY <1>1, NextLinkType DEF Received
<1>2. CASE list # {}
  <2>1. Syncing("upsert", sync[s].link, list, Untouched, Untouched, {}) \in SyncState
    BY SyncType, FreshState
  <2> QED BY <1>2, <2>1, BecomeType DEF Received, Become
<1> QED BY <1>1, <1>2

LEMMA CachedType ==
  ASSUME TypeOK, NEW s \in Session, Cached(s) PROVE TypeOK'
<1>0. sync[s] # NoSession
  BY DEF Cached, At
<1>1. PICK list \in cache[Asked(s)] : Received(s, list)
  BY DEF Cached
<1>2. list \in List
  BY <1>0, SyncType DEF TypeOK
<1> QED BY <1>0, <1>1, <1>2, ReceivedType, SyncOnly DEF Cached, TypeOK

LEMMA AskType ==
  ASSUME TypeOK, NEW s \in Session, Ask(s) PROVE TypeOK'
<1>0. sync[s] # NoSession
  BY DEF Ask, At
<1>1. Syncing("answer", sync[s].link, Listed, Untouched, Untouched, {}) \in SyncState
  BY <1>0, SyncType, FreshState DEF Listed, List
<1>2. sync' \in [Session -> SyncState \cup {NoSession}]
  BY <1>1, BecomeType DEF Ask, Become
<1> QED BY <1>2, SyncOnly DEF Ask, TypeOK

LEMMA AnswerType ==
  ASSUME TypeOK, NEW s \in Session, Answer(s) PROVE TypeOK'
<1>0. sync[s] # NoSession
  BY DEF Answer, At
<1>1. cache' \in [Provider -> SUBSET List]
  BY <1>0, SyncType DEF Answer, TypeOK
<1>2. sync' \in [Session -> SyncState \cup {NoSession}]
  BY <1>0, SyncType, ReceivedType DEF Answer
<1> QED BY <1>1, <1>2, SyncOnly DEF Answer, TypeOK

LEMMA RefusedType ==
  ASSUME TypeOK, NEW s \in Session, Refused(s) PROVE TypeOK'
<1>1. sync[s] # NoSession /\ faults' \in 0..MaxFaults
  BY ModelFacts DEF Refused, At, TypeOK
<1> QED BY <1>1, NextLinkType, SyncOnly DEF Refused, TypeOK

LEMMA AbortType ==
  ASSUME TypeOK, NEW s \in Session, Abort(s) PROVE TypeOK'
<1>1. faults' \in 0..MaxFaults
  BY ModelFacts DEF Abort, TypeOK
<1> QED BY <1>1, EndType, SyncOnly DEF Abort, TypeOK

\* the fixture a sync upserts is one the provider described
LEMMA DescribedFixture ==
  ASSUME TypeOK, NEW s \in Session, sync[s] # NoSession, NEW x \in sync[s].todo
  PROVE  /\ x[1] \in Match /\ x[2] \in Known
         /\ Described(Asked(s), x[1], x[2]) \in Fixture
<1>1. x[1] \in Match /\ x[2] \in Known
  BY SyncType DEF List
<1> QED BY <1>1, SyncType, DescribedType

\* a found row is there, in the session's own writes or else in the database
LEMMA FoundRow ==
  ASSUME TypeOK, SyncsSound, NEW s \in Session, sync[s] # NoSession, NEW new,
         NEW i \in Found(s, new)
  PROVE  /\ i \in RowId /\ After(s, i) # NoRow
         /\ sync[s].mine[i] = NoRow => rows[i] \in Fixture
         /\ sync[s].mine[i] # NoRow => sync[s].mine[i] \in Fixture /\ Pending(s, i)
<1>1. i \in RowId /\ After(s, i) # NoRow
  BY DEF Found, ById, ByTeams
<1>2. rows[i] \in Fixture \cup {NoRow} /\ sync[s].mine[i] \in Fixture \cup {NoRow}
  BY <1>1, SyncType DEF TypeOK, Table
<1> QED BY <1>1, <1>2 DEF After, Pending

\* the four ways _upsert_one can go
LEMMA UpsertWays ==
  ASSUME TypeOK, SyncsSound, NEW s \in Session, Upsert(s),
         NEW P,
         ASSUME NEW x \in sync[s].todo, NEW i \in RowId, Unused(i),
                Become(s, Upserted(s, x, i, NoRow, Described(Asked(s), x[1], x[2])))
         PROVE  P,
         ASSUME NEW x \in sync[s].todo, NEW i \in Found(s, Described(Asked(s), x[1], x[2])),
                sync[s].mine[i] = NoRow,
                Become(s, Upserted(s, x, i, rows[i],
                                   Refreshed(rows[i], Described(Asked(s), x[1], x[2]))))
         PROVE  P,
         ASSUME NEW x \in sync[s].todo, NEW i \in Found(s, Described(Asked(s), x[1], x[2])),
                sync[s].mine[i] # NoRow,
                Become(s, Upserted(s, x, i, sync[s].loaded[i],
                                   Refreshed(sync[s].mine[i], Described(Asked(s), x[1], x[2]))))
         PROVE  P,
         ASSUME End(s) PROVE P
  PROVE  P
<1>1. PICK x \in sync[s].todo :
        LET new == Described(Asked(s), x[1], x[2])
        IN \/ /\ Found(s, new) = {}
              /\ \E i \in RowId : /\ Unused(i) /\ \A k \in RowId : k < i => ~ Unused(k)
                                  /\ Become(s, Upserted(s, x, i, NoRow, new))
           \/ \E i \in Found(s, new) :
                /\ Found(s, new) = {i}
                /\ IF sync[s].mine[i] = NoRow
                   THEN Become(s, Upserted(s, x, i, rows[i], Refreshed(rows[i], new)))
                   ELSE Become(s, Upserted(s, x, i, sync[s].loaded[i],
                                           Refreshed(sync[s].mine[i], new)))
           \/ /\ \E i, k \in Found(s, new) : i # k
              /\ End(s)
  BY DEF Upsert
<1> QED BY <1>1

LEMMA UpsertType ==
  ASSUME TypeOK, SyncsSound, NEW s \in Session, Upsert(s) PROVE TypeOK'
<1>0. sync[s] # NoSession
  BY DEF Upsert, At
<1>1. ASSUME NEW x \in sync[s].todo, NEW i \in RowId,
             Become(s, Upserted(s, x, i, NoRow, Described(Asked(s), x[1], x[2])))
      PROVE  sync' \in [Session -> SyncState \cup {NoSession}]
  BY <1>0, <1>1, DescribedFixture, UpsertedType, BecomeType DEF Become
<1>2. ASSUME NEW x \in sync[s].todo, NEW i \in Found(s, Described(Asked(s), x[1], x[2])),
             sync[s].mine[i] = NoRow,
             Become(s, Upserted(s, x, i, rows[i],
                                Refreshed(rows[i], Described(Asked(s), x[1], x[2]))))
      PROVE  sync' \in [Session -> SyncState \cup {NoSession}]
  <2>1. Refreshed(rows[i], Described(Asked(s), x[1], x[2])) \in Fixture /\ rows[i] \in Fixture
    BY <1>0, <1>2, DescribedFixture, FoundRow, RefreshedType
  <2>2. Upserted(s, x, i, rows[i], Refreshed(rows[i], Described(Asked(s), x[1], x[2]))) \in SyncState
    BY <1>0, <2>1, FoundRow, UpsertedType
  <2> QED BY <1>2, <2>2, BecomeType DEF Become
<1>3. ASSUME NEW x \in sync[s].todo, NEW i \in Found(s, Described(Asked(s), x[1], x[2])),
             sync[s].mine[i] # NoRow,
             Become(s, Upserted(s, x, i, sync[s].loaded[i],
                                Refreshed(sync[s].mine[i], Described(Asked(s), x[1], x[2]))))
      PROVE  sync' \in [Session -> SyncState \cup {NoSession}]
  <2>1. /\ Refreshed(sync[s].mine[i], Described(Asked(s), x[1], x[2])) \in Fixture
        /\ sync[s].loaded[i] \in Fixture \cup {NoRow} /\ i \in RowId
    BY <1>0, <1>3, DescribedFixture, FoundRow, RefreshedType, SyncType DEF Table
  <2>2. Upserted(s, x, i, sync[s].loaded[i],
                 Refreshed(sync[s].mine[i], Described(Asked(s), x[1], x[2]))) \in SyncState
    BY <1>0, <2>1, UpsertedType
  <2> QED BY <1>3, <2>2, BecomeType DEF Become
<1>4. sync' \in [Session -> SyncState \cup {NoSession}]
  BY <1>1, <1>2, <1>3, EndType, UpsertWays
<1> QED BY <1>4, SyncOnly DEF Upsert, TypeOK

LEMMA CommitType ==
  ASSUME TypeOK, SyncsSound, NEW s \in Session, Commit(s) PROVE TypeOK'
<1>0. sync[s] # NoSession
  BY DEF Commit, At
<1>1. sync' \in [Session -> SyncState \cup {NoSession}]
  BY EndType DEF Commit
<1>2. rows' \in Table
  BY <1>0, AfterType DEF Commit, Table, TypeOK
<1>3. teams' \subseteq Code
  BY <1>0, SyncType DEF Commit, TypeOK
<1> QED BY <1>1, <1>2, <1>3 DEF Commit, TypeOK, Table

LEMMA WorldType ==
  ASSUME TypeOK,
         \/ \E m \in Match : Play(m)
         \/ \E p \in Provider : Expire(p)
         \/ \E i \in RowId : AskResult(i)
         \/ \E i \in RowId, id \in Id : StoreResult(i, id) \/ NoResult(i, id)
  PROVE  TypeOK'
<1>1. ASSUME NEW m \in Match, Play(m) PROVE TypeOK'
  <2>1. PICK st \in Phases : real' = [real EXCEPT ![m] = st]
    BY <1>1 DEF Play
  <2>2. st \in Status
    BY ModelFacts DEF Status
  <2> QED BY <1>1, <2>1, <2>2 DEF Play, TypeOK
<1>2. ASSUME NEW p \in Provider, Expire(p) PROVE TypeOK'
  BY <1>2 DEF Expire, TypeOK
<1>3. ASSUME NEW i \in RowId, AskResult(i) PROVE TypeOK'
  <2>1. rows[i].id \in Id
    BY <1>3 DEF AskResult, TypeOK, Fixture
  <2> QED BY <1>3, <2>1 DEF AskResult, TypeOK
<1>4. ASSUME NEW i \in RowId, NEW id \in Id, StoreResult(i, id) PROVE TypeOK'
  BY <1>4 DEF StoreResult, TypeOK
<1>5. ASSUME NEW i \in RowId, NEW id \in Id, NoResult(i, id) PROVE TypeOK'
  BY <1>5 DEF NoResult, TypeOK
<1> QED BY <1>1, <1>2, <1>3, <1>4, <1>5

-----------------------------------------------------------------------------
(* What a sync holds stays consistent with the committed rows *)

\* a step that writes no row and leaves each session alone or empties it
Calm ==
  /\ rows' = rows
  /\ \A s \in Session, i \in RowId :
       sync'[s] # NoSession /\ sync'[s].mine[i] # NoRow => sync'[s] = sync[s]

LEMMA CalmKeeps ==
  ASSUME SyncsSound, Calm PROVE SyncsSound' /\ (PlansSound => PlansSound')
<1>1. \A s \in Session, i \in RowId :
        Pending(s, i)' => Pending(s, i) /\ sync'[s] = sync[s]
  BY DEF Calm, Pending
<1>2. SyncsSound'
  BY <1>1 DEF SyncsSound, PendingSound, SameTeams, Calm
<1>3. ASSUME PlansSound PROVE PlansSound'
  <2> SUFFICES ASSUME NEW s \in Session, NEW i \in RowId, Pending(s, i)'
               PROVE  /\ RowSound(sync'[s].mine[i])
                      /\ sync'[s].loaded[i] # NoRow => RowSound(sync'[s].loaded[i])
    BY DEF PlansSound, RowSound, Is
  <2> QED BY <1>1, <1>3 DEF PlansSound
<1> QED BY <1>2, <1>3

LEMMA EndCalm == ASSUME TypeOK, NEW s \in Session, End(s), rows' = rows PROVE Calm
BY DEF End, Calm, TypeOK

LEMMA FreshCalm ==
  ASSUME TypeOK, NEW s \in Session, NEW at, NEW link, NEW todo, rows' = rows,
         Become(s, Syncing(at, link, todo, Untouched, Untouched, {}))
  PROVE  Calm
<1>1. \A t \in Session :
        sync'[t] = IF t = s THEN Syncing(at, link, todo, Untouched, Untouched, {}) ELSE sync[t]
  BY DEF Become, TypeOK
<1>2. \A i \in RowId : Syncing(at, link, todo, Untouched, Untouched, {}).mine[i] = NoRow
  BY DEF Syncing, Untouched
<1> QED BY <1>1, <1>2 DEF Calm

LEMMA NextLinkCalm ==
  ASSUME TypeOK, NEW s \in Session, NextLink(s), rows' = rows PROVE Calm
BY EndCalm, FreshCalm DEF NextLink

\* every step but an upsert and a commit is calm
LEMMA CalmSteps ==
  ASSUME TypeOK,
         \/ \E m \in Match : Play(m)
         \/ \E p \in Provider : Expire(p)
         \/ \E s \in Session : StartSync(s) \/ Cached(s) \/ Ask(s) \/ Answer(s)
                              \/ Refused(s) \/ Abort(s)
         \/ \E i \in RowId : AskResult(i)
         \/ \E i \in RowId, id \in Id : StoreResult(i, id) \/ NoResult(i, id)
         \/ UNCHANGED vars
  PROVE  Calm
<1>1. CASE rows' = rows /\ sync' = sync
  BY <1>1 DEF Calm
<1>2. ASSUME NEW s \in Session, StartSync(s) PROVE Calm
  BY <1>2, FreshCalm DEF StartSync
<1>3. ASSUME NEW s \in Session, Cached(s) \/ Ask(s) \/ Answer(s) PROVE Calm
  BY <1>3, FreshCalm, NextLinkCalm DEF Cached, Ask, Answer, Received
<1>4. ASSUME NEW s \in Session, Refused(s) PROVE Calm
  BY <1>4, NextLinkCalm DEF Refused
<1>5. ASSUME NEW s \in Session, Abort(s) PROVE Calm
  BY <1>5, EndCalm DEF Abort
<1> QED
  BY <1>1, <1>2, <1>3, <1>4, <1>5 DEF Play, Expire, AskResult, StoreResult, NoResult, vars

\* how one upserted row shows in the next state
LEMMA UpsertedState ==
  ASSUME TypeOK, NEW s \in Session, sync[s] # NoSession, NEW x, NEW i \in RowId,
         NEW old \in Fixture \cup {NoRow}, NEW new \in Fixture,
         Become(s, Upserted(s, x, i, old, new))
  PROVE  /\ \A t \in Session \ {s} : sync'[t] = sync[t]
         /\ sync'[s] # NoSession
         /\ sync'[s].mine[i] = new /\ sync'[s].loaded[i] = old
         /\ \A k \in RowId \ {i} : /\ sync'[s].mine[k] = sync[s].mine[k]
                                   /\ sync'[s].loaded[k] = sync[s].loaded[k]
<1>1. sync'[s] = Upserted(s, x, i, old, new) /\ \A t \in Session \ {s} : sync'[t] = sync[t]
  BY DEF Become, TypeOK
<1>2. Upserted(s, x, i, old, new) # NoSession
  BY UpsertedType, ModelFacts
<1>3. /\ Upserted(s, x, i, old, new).mine = [sync[s].mine EXCEPT ![i] = new]
      /\ Upserted(s, x, i, old, new).loaded = [sync[s].loaded EXCEPT ![i] = old]
  BY DEF Upserted, Syncing
<1> QED BY <1>1, <1>2, <1>3, SyncType DEF Table

\* the obligation of an upsert: the row it touched is sound
LEMMA UpsertedSound ==
  ASSUME TypeOK, SyncsSound, NEW s \in Session, sync[s] # NoSession, NEW x, NEW i \in RowId,
         NEW old \in Fixture \cup {NoRow}, NEW new \in Fixture, rows' = rows,
         Become(s, Upserted(s, x, i, old, new)),
         old = NoRow => rows[i] = NoRow /\ \A t \in Session : Pending(t, i) => t = s,
         old # NoRow => rows[i] # NoRow /\ SameTeams(old, rows[i]) /\ SameTeams(new, rows[i])
  PROVE  SyncsSound'
<1>1. /\ \A t \in Session \ {s} : sync'[t] = sync[t]
      /\ sync'[s] # NoSession
      /\ sync'[s].mine[i] = new /\ sync'[s].loaded[i] = old
      /\ \A k \in RowId \ {i} : /\ sync'[s].mine[k] = sync[s].mine[k]
                                /\ sync'[s].loaded[k] = sync[s].loaded[k]
  BY UpsertedState, Zenon
<1> SUFFICES ASSUME NEW t \in Session, NEW k \in RowId, Pending(t, k)'
             PROVE  PendingSound(t, k)'
  BY DEF SyncsSound
<1>2. \A u \in Session, l \in RowId : Pending(u, l)' => Pending(u, l) \/ (u = s /\ l = i)
  BY <1>1 DEF Pending
<1>3. CASE t = s /\ k = i
  BY <1>1, <1>2, <1>3 DEF PendingSound, SameTeams
<1>4. CASE t = s /\ k # i
  <2>1. PendingSound(s, k)
    BY <1>2, <1>4 DEF SyncsSound
  <2> QED BY <1>1, <1>2, <1>4, <2>1 DEF PendingSound, SameTeams
<1>5. CASE t # s
  <2>1. PendingSound(t, k) /\ Pending(t, k)
    BY <1>2, <1>5 DEF SyncsSound
  <2>2. sync[t].loaded[k] = NoRow => k # i
    BY <1>5, <2>1 DEF PendingSound
  <2> QED BY <1>1, <1>2, <1>5, <2>1, <2>2 DEF PendingSound, SameTeams
<1> QED BY <1>3, <1>4, <1>5

LEMMA RefreshedTeams ==
  ASSUME NEW row \in Fixture, NEW new
  PROVE  SameTeams(Refreshed(row, new), row)
BY DEF Refreshed, SameTeams, Fixture

LEMMA UpsertSound ==
  ASSUME TypeOK, SyncsSound, NEW s \in Session, Upsert(s) PROVE SyncsSound'
<1>0. sync[s] # NoSession /\ rows' = rows
  BY DEF Upsert, At
<1>1. ASSUME NEW x \in sync[s].todo, NEW i \in RowId, Unused(i),
             Become(s, Upserted(s, x, i, NoRow, Described(Asked(s), x[1], x[2])))
      PROVE  SyncsSound'
  <2>1. rows[i] = NoRow /\ \A t \in Session : Pending(t, i) => t = s
    BY <1>1 DEF Unused, Pending
  <2> QED BY <1>0, <1>1, <2>1, DescribedFixture, UpsertedSound
<1>2. ASSUME NEW x \in sync[s].todo, NEW i \in Found(s, Described(Asked(s), x[1], x[2])),
             sync[s].mine[i] = NoRow,
             Become(s, Upserted(s, x, i, rows[i],
                                Refreshed(rows[i], Described(Asked(s), x[1], x[2]))))
      PROVE  SyncsSound'
  <2> DEFINE new == Refreshed(rows[i], Described(Asked(s), x[1], x[2]))
  <2>1. i \in RowId /\ rows[i] \in Fixture /\ rows[i] # NoRow
    BY <1>0, <1>2, FoundRow, ModelFacts
  <2>2. new \in Fixture /\ SameTeams(new, rows[i]) /\ SameTeams(rows[i], rows[i])
    BY <1>0, <2>1, DescribedFixture, RefreshedType, RefreshedTeams DEF SameTeams
  <2>3. Become(s, Upserted(s, x, i, rows[i], new))
    BY <1>2
  <2> HIDE DEF new
  <2> QED BY <1>0, <2>1, <2>2, <2>3, UpsertedSound
<1>3. ASSUME NEW x \in sync[s].todo, NEW i \in Found(s, Described(Asked(s), x[1], x[2])),
             sync[s].mine[i] # NoRow,
             Become(s, Upserted(s, x, i, sync[s].loaded[i],
                                Refreshed(sync[s].mine[i], Described(Asked(s), x[1], x[2]))))
      PROVE  SyncsSound'
  <2> DEFINE new == Refreshed(sync[s].mine[i], Described(Asked(s), x[1], x[2]))
             old == sync[s].loaded[i]
  <2>1. i \in RowId /\ sync[s].mine[i] \in Fixture /\ Pending(s, i)
    BY <1>0, <1>3, FoundRow
  <2>2. new \in Fixture /\ SameTeams(new, sync[s].mine[i]) /\ old \in Fixture \cup {NoRow}
    BY <1>0, <2>1, DescribedFixture, RefreshedType, RefreshedTeams, SyncType DEF Table
  <2>3. PendingSound(s, i)
    BY <2>1 DEF SyncsSound
  <2>4. /\ old = NoRow => rows[i] = NoRow /\ \A t \in Session : Pending(t, i) => t = s
        /\ old # NoRow => rows[i] # NoRow /\ SameTeams(old, rows[i]) /\ SameTeams(new, rows[i])
    <3> HIDE DEF new
    <3> QED BY <2>2, <2>3 DEF PendingSound, SameTeams
  <2>5. Become(s, Upserted(s, x, i, old, new))
    BY <1>3
  <2> HIDE DEF new, old
  <2> QED BY <1>0, <2>1, <2>2, <2>4, <2>5, UpsertedSound
<1>4. ASSUME End(s) PROVE SyncsSound'
  BY <1>0, <1>4, EndCalm, CalmKeeps
<1> QED BY <1>1, <1>2, <1>3, <1>4, UpsertWays

\* what a commit leaves in the rows and in the other sessions
LEMMA CommitState ==
  ASSUME TypeOK, NEW s \in Session, Commit(s)
  PROVE  /\ sync[s] # NoSession
         /\ \A t \in Session, i \in RowId :
              Pending(t, i)' => t # s /\ Pending(t, i) /\ sync'[t] = sync[t]
         /\ rows' = rows \/ \A i \in RowId : rows'[i] = After(s, i)
<1>1. sync[s] # NoSession /\ sync' = [sync EXCEPT ![s] = NoSession]
  BY DEF Commit, End, At
<1>2. rows' = rows \/ \A i \in RowId : rows'[i] = After(s, i)
  BY DEF Commit
<1> QED BY <1>1, <1>2 DEF Pending, TypeOK

LEMMA CommitSound ==
  ASSUME TypeOK, SyncsSound, NEW s \in Session, Commit(s) PROVE SyncsSound'
<1> SUFFICES ASSUME NEW t \in Session, NEW i \in RowId, Pending(t, i)'
             PROVE  PendingSound(t, i)'
  BY DEF SyncsSound
<1>1. t # s /\ Pending(t, i) /\ sync'[t] = sync[t]
  BY CommitState
<1>2. PendingSound(t, i)
  BY <1>1 DEF SyncsSound
<1>3. CASE sync[t].loaded[i] = NoRow
  <2>1. rows[i] = NoRow /\ \A u \in Session : Pending(u, i) => u = t
    BY <1>2, <1>3 DEF PendingSound
  <2>2. ~ Pending(s, i)
    BY <1>1, <2>1
  <2>3. rows'[i] = NoRow
    BY <2>1, <2>2, AfterType, CommitState
  <2>4. \A u \in Session : Pending(u, i)' => u = t
    BY <2>1, CommitState
  <2> QED BY <1>1, <1>3, <2>3, <2>4 DEF PendingSound
<1>4. CASE sync[t].loaded[i] # NoRow
  <2>1. rows[i] # NoRow /\ SameTeams(sync[t].loaded[i], rows[i]) /\ SameTeams(sync[t].mine[i], rows[i])
    BY <1>2, <1>4 DEF PendingSound
  <2>2. rows'[i] # NoRow /\ SameTeams(rows'[i], rows[i])
    BY <2>1, AfterType, CommitState DEF SameTeams
  <2> QED BY <1>1, <1>4, <2>1, <2>2 DEF PendingSound, SameTeams
<1> QED BY <1>3, <1>4

-----------------------------------------------------------------------------
(* One row, one match: what coherent providers make of the fields of a row *)

LEMMA SameMatch ==
  ASSUME Coherent, NEW a \in Fixture, NEW b \in Fixture, NEW m \in Match, NEW n \in Match,
         Is(a, m), Is(b, n), SameTeams(a, b)
  PROVE  m = n
<1>1. a.provider \in Provider /\ b.provider \in Provider
  BY DEF Fixture
<1>2. Teams[a.provider][m] = Teams[b.provider][n]
  BY DEF Is, SameTeams
<1>3. Teams[b.provider][n] = Teams[a.provider][n]
  BY <1>1 DEF Coherent
<1> QED BY <1>1, <1>2, <1>3 DEF Coherent

LEMMA SameIdSameMatch ==
  ASSUME Coherent, NEW a \in Fixture, NEW b \in Fixture, NEW m \in Match, NEW n \in Match,
         Is(a, m), Is(b, n), a.id = b.id
  PROVE  a.provider = b.provider /\ m = n
<1>1. a.provider \in Provider /\ b.provider \in Provider
  BY DEF Fixture
<1>2. Ext[a.provider][m] = Ext[b.provider][n]
  BY DEF Is
<1> QED BY <1>1, <1>2 DEF Coherent

LEMMA DenotedIs ==
  ASSUME Coherent, NEW row \in Fixture, NEW m \in Match, Is(row, m)
  PROVE  Denoted(row) = {m}
<1>1. row.provider \in Provider
  BY DEF Fixture
<1> QED BY <1>1 DEF Denoted, Is, Coherent

LEMMA DescribedIs ==
  ASSUME NEW p \in Provider, NEW m \in Match, NEW st \in Known
  PROVE  Is(Described(p, m, st), m)
BY ProviderFacts DEF Is, Described

\* refreshing a row of the same teams moves it to the same match's new id
LEMMA RefreshedIs ==
  ASSUME NEW row \in Fixture, NEW new \in Fixture, NEW m \in Match, Is(new, m),
         SameTeams(row, new)
  PROVE  Is(Refreshed(row, new), m)
<1>1. Refreshed(row, new).provider = new.provider /\ Refreshed(row, new).id = new.id
  BY DEF Refreshed, Fixture
<1>2. SameTeams(Refreshed(row, new), row)
  BY RefreshedTeams
<1> QED BY <1>1, <1>2 DEF Is, SameTeams

\* a lost update between two syncs still leaves the identity of the match
LEMMA MergedIs ==
  ASSUME Coherent, NEW now \in Fixture, NEW loaded \in Fixture, NEW new \in Fixture,
         RowSound(now), RowSound(loaded), RowSound(new),
         SameTeams(loaded, now), SameTeams(new, now)
  PROVE  RowSound(Merged(now, loaded, new))
<1>1. PICK m \in Match : Is(now, m)
  BY DEF RowSound
<1>2. Is(loaded, m) /\ Is(new, m)
  BY <1>1, SameMatch DEF RowSound
<1>3. /\ Merged(now, loaded, new).provider = Column(now.provider, loaded.provider, new.provider)
      /\ Merged(now, loaded, new).id = Column(now.id, loaded.id, new.id)
      /\ Merged(now, loaded, new).home = now.home /\ Merged(now, loaded, new).away = now.away
  BY DEF Merged, Fixture
<1>4. <<now.home, now.away>> = Teams[new.provider][m]
  BY <1>2 DEF Is, SameTeams
<1>5. CASE new.provider = loaded.provider
  BY <1>1, <1>2, <1>3, <1>5 DEF Is, Column, RowSound
<1>6. CASE new.provider # loaded.provider
  <2>1. new.id # loaded.id
    BY <1>2, <1>6 DEF Is, Coherent, Fixture
  <2> QED BY <1>2, <1>3, <1>4, <1>6, <2>1 DEF Is, Column, RowSound
<1> QED BY <1>5, <1>6

LEMMA AfterSound ==
  ASSUME TypeOK, SyncsSound, Coherent, PlansSound, RowsSound,
         NEW s \in Session, sync[s] # NoSession, NEW i \in RowId, After(s, i) # NoRow
  PROVE  RowSound(After(s, i))
<1>1. CASE ~ Pending(s, i)
  BY <1>1, AfterType DEF RowsSound
<1>2. CASE Pending(s, i) /\ sync[s].loaded[i] = NoRow
  BY <1>2 DEF Pending, After, PlansSound
<1>3. CASE Pending(s, i) /\ sync[s].loaded[i] # NoRow
  <2>1. /\ sync[s].mine[i] \in Fixture /\ sync[s].loaded[i] \in Fixture
        /\ rows[i] \in Fixture
    BY <1>3, SyncType DEF Table, TypeOK, Pending, SyncsSound, PendingSound
  <2>2. /\ SameTeams(sync[s].loaded[i], rows[i]) /\ SameTeams(sync[s].mine[i], rows[i])
        /\ rows[i] # NoRow
    BY <1>3 DEF SyncsSound, PendingSound
  <2>3. RowSound(sync[s].mine[i]) /\ RowSound(sync[s].loaded[i]) /\ RowSound(rows[i])
    BY <1>3, <2>2 DEF PlansSound, RowsSound
  <2>4. After(s, i) = Merged(rows[i], sync[s].loaded[i], sync[s].mine[i])
    BY <1>3 DEF After, Pending
  <2> QED BY <2>1, <2>2, <2>3, <2>4, MergedIs
<1> QED BY <1>1, <1>2, <1>3

\* what a commit writes over a row is still the row's match
LEMMA AfterKeeps ==
  ASSUME TypeOK, SyncsSound, Coherent, PlansSound, RowsSound,
         NEW s \in Session, sync[s] # NoSession, NEW i \in RowId, rows[i] # NoRow,
         NEW m \in Match, Is(rows[i], m)
  PROVE  After(s, i) \in Fixture /\ Is(After(s, i), m)
<1>1. After(s, i) \in Fixture /\ rows[i] \in Fixture /\ SameTeams(After(s, i), rows[i])
  BY AfterType DEF TypeOK
<1>2. PICK n \in Match : Is(After(s, i), n)
  BY <1>1, AfterSound, ModelFacts DEF RowSound
<1> QED BY <1>1, <1>2, SameMatch

\* by id or by teams, the row found has the teams of the match listed
LEMMA FoundTeams ==
  ASSUME TypeOK, SyncsSound, Coherent, PlansSound, RowsSound,
         NEW s \in Session, sync[s] # NoSession, NEW x \in sync[s].todo,
         NEW i \in Found(s, Described(Asked(s), x[1], x[2]))
  PROVE  SameTeams(After(s, i), Described(Asked(s), x[1], x[2]))
<1> DEFINE new == Described(Asked(s), x[1], x[2])
<1>1. new \in Fixture /\ x[1] \in Match /\ Is(new, x[1])
  BY DescribedFixture, DescribedIs, SyncType
<1>2. i \in RowId /\ After(s, i) # NoRow /\ After(s, i) \in Fixture
  BY FoundRow, AfterType
<1>3. i \in ById(s, new) \/ i \in ByTeams(s, new)
  BY DEF Found
<1> HIDE DEF new
<1>4. CASE i \in ById(s, new)
  <2>1. After(s, i).provider = new.provider /\ After(s, i).id = new.id
    BY <1>4 DEF ById
  <2>2. PICK m \in Match : Is(After(s, i), m)
    BY <1>2, AfterSound DEF RowSound
  <2>3. m = x[1]
    BY <1>1, <1>2, <2>1, <2>2, SameIdSameMatch
  <2>4. <<After(s, i).home, After(s, i).away>> = <<new.home, new.away>>
    BY <1>1, <2>1, <2>2, <2>3 DEF Is
  <2> QED BY <2>4 DEF SameTeams, new
<1>5. CASE i \in ByTeams(s, new)
  BY <1>5 DEF ByTeams, SameTeams, new
<1> QED BY <1>3, <1>4, <1>5

-----------------------------------------------------------------------------
(* With coherent providers, every step keeps the identity of every row *)

LEMMA UpsertedPlans ==
  ASSUME TypeOK, PlansSound, NEW s \in Session, sync[s] # NoSession, NEW x, NEW i \in RowId,
         NEW old \in Fixture \cup {NoRow}, NEW new \in Fixture,
         Become(s, Upserted(s, x, i, old, new)),
         RowSound(new), old # NoRow => RowSound(old)
  PROVE  PlansSound'
<1>1. /\ \A t \in Session \ {s} : sync'[t] = sync[t]
      /\ sync'[s] # NoSession
      /\ sync'[s].mine[i] = new /\ sync'[s].loaded[i] = old
      /\ \A k \in RowId \ {i} : /\ sync'[s].mine[k] = sync[s].mine[k]
                                /\ sync'[s].loaded[k] = sync[s].loaded[k]
  BY UpsertedState, Zenon
<1> SUFFICES ASSUME NEW t \in Session, NEW k \in RowId, Pending(t, k)'
             PROVE  /\ RowSound(sync'[t].mine[k])
                    /\ sync'[t].loaded[k] # NoRow => RowSound(sync'[t].loaded[k])
  BY DEF PlansSound, RowSound, Is
<1>2. CASE t = s /\ k = i
  BY <1>1, <1>2
<1>3. CASE ~ (t = s /\ k = i)
  <2>1. /\ Pending(t, k)
        /\ sync'[t].mine[k] = sync[t].mine[k] /\ sync'[t].loaded[k] = sync[t].loaded[k]
    BY <1>1, <1>3 DEF Pending
  <2> QED BY <2>1 DEF PlansSound
<1> QED BY <1>2, <1>3

LEMMA UpsertPlans ==
  ASSUME TypeOK, SyncsSound, Coherent, PlansSound, RowsSound, NEW s \in Session, Upsert(s)
  PROVE  PlansSound'
<1>0. sync[s] # NoSession /\ rows' = rows
  BY DEF Upsert, At
<1>1. ASSUME NEW x \in sync[s].todo, NEW i \in RowId, Unused(i),
             Become(s, Upserted(s, x, i, NoRow, Described(Asked(s), x[1], x[2])))
      PROVE  PlansSound'
  <2>1. RowSound(Described(Asked(s), x[1], x[2])) /\ Described(Asked(s), x[1], x[2]) \in Fixture
    BY <1>0, <1>1, DescribedFixture, DescribedIs, SyncType DEF RowSound
  <2> QED BY <1>0, <1>1, <2>1, UpsertedPlans
<1>2. ASSUME NEW x \in sync[s].todo, NEW i \in Found(s, Described(Asked(s), x[1], x[2])),
             sync[s].mine[i] = NoRow,
             Become(s, Upserted(s, x, i, rows[i],
                                Refreshed(rows[i], Described(Asked(s), x[1], x[2]))))
      PROVE  PlansSound'
  <2> DEFINE found == Described(Asked(s), x[1], x[2])
             new == Refreshed(rows[i], found)
  <2>1. i \in RowId /\ rows[i] \in Fixture /\ rows[i] # NoRow /\ After(s, i) = rows[i]
    BY <1>0, <1>2, FoundRow, ModelFacts DEF After
  <2>2. found \in Fixture /\ x[1] \in Match /\ Is(found, x[1]) /\ SameTeams(rows[i], found)
    BY <1>0, <1>2, <2>1, DescribedFixture, DescribedIs, FoundTeams, SyncType
  <2>3. new \in Fixture /\ RowSound(new)
    <3> HIDE DEF found
    <3> QED BY <2>1, <2>2, RefreshedType, RefreshedIs DEF RowSound
  <2>4. Become(s, Upserted(s, x, i, rows[i], new)) /\ RowSound(rows[i])
    BY <1>2, <2>1 DEF RowsSound
  <2> HIDE DEF new
  <2> QED BY <1>0, <2>1, <2>3, <2>4, UpsertedPlans
<1>3. ASSUME NEW x \in sync[s].todo, NEW i \in Found(s, Described(Asked(s), x[1], x[2])),
             sync[s].mine[i] # NoRow,
             Become(s, Upserted(s, x, i, sync[s].loaded[i],
                                Refreshed(sync[s].mine[i], Described(Asked(s), x[1], x[2]))))
      PROVE  PlansSound'
  <2> DEFINE found == Described(Asked(s), x[1], x[2])
             new == Refreshed(sync[s].mine[i], found)
             old == sync[s].loaded[i]
  <2>1. i \in RowId /\ sync[s].mine[i] \in Fixture /\ Pending(s, i)
    BY <1>0, <1>3, FoundRow
  <2>2. PendingSound(s, i) /\ old \in Fixture \cup {NoRow}
    BY <1>0, <2>1, SyncType DEF SyncsSound, Table
  <2>3. SameTeams(After(s, i), sync[s].mine[i])
    BY <1>0, <2>1, <2>2, AfterType DEF PendingSound, SameTeams, After, Pending
  <2>4. /\ found \in Fixture /\ x[1] \in Match /\ Is(found, x[1])
        /\ SameTeams(After(s, i), found)
    BY <1>0, <1>3, DescribedFixture, DescribedIs, FoundTeams, SyncType
  <2>5. SameTeams(sync[s].mine[i], found)
    BY <2>3, <2>4 DEF SameTeams
  <2>6. new \in Fixture /\ RowSound(new)
    <3> HIDE DEF found
    <3> QED BY <2>1, <2>4, <2>5, RefreshedType, RefreshedIs DEF RowSound
  <2>7. Become(s, Upserted(s, x, i, old, new)) /\ (old # NoRow => RowSound(old))
    BY <1>3, <2>1 DEF PlansSound
  <2> HIDE DEF new, old
  <2> QED BY <1>0, <2>1, <2>2, <2>6, <2>7, UpsertedPlans
<1>4. ASSUME End(s) PROVE PlansSound'
  BY <1>0, <1>4, EndCalm, CalmKeeps
<1> QED BY <1>1, <1>2, <1>3, <1>4, UpsertWays

\* no step takes a row away or makes another match of it
LEMMA RowsKeep ==
  ASSUME TypeOK, SyncsSound, Coherent, PlansSound, RowsSound, [Next]_vars,
         NEW i \in RowId, rows[i] # NoRow
  PROVE  rows'[i] \in Fixture /\ \A m \in Match : Is(rows[i], m) => Is(rows'[i], m)
<1>1. CASE rows' = rows
  BY <1>1 DEF TypeOK
<1>2. ASSUME NEW s \in Session, Commit(s)
      PROVE  rows'[i] \in Fixture /\ \A m \in Match : Is(rows[i], m) => Is(rows'[i], m)
  <2>1. PICK n \in Match : Is(rows[i], n)
    BY DEF RowsSound, RowSound
  <2> QED BY <1>1, <1>2, <2>1, AfterKeeps, CommitState
<1>3. ASSUME NEW s \in Session, Upsert(s) PROVE rows' = rows
  BY <1>3 DEF Upsert
<1>4. ASSUME ~ \E s \in Session : Upsert(s) \/ Commit(s) PROVE rows' = rows
  BY <1>4, CalmSteps DEF Next, Work, Calm
<1> QED BY <1>1, <1>2, <1>3, <1>4

LEMMA PlansKeep ==
  ASSUME TypeOK, SyncsSound, Coherent, PlansSound, RowsSound, [Next]_vars
  PROVE  PlansSound'
<1>1. ASSUME NEW s \in Session, Commit(s) PROVE PlansSound'
  <2> SUFFICES ASSUME NEW t \in Session, NEW k \in RowId, Pending(t, k)'
               PROVE  /\ RowSound(sync'[t].mine[k])
                      /\ sync'[t].loaded[k] # NoRow => RowSound(sync'[t].loaded[k])
    BY DEF PlansSound, RowSound, Is
  <2>1. Pending(t, k) /\ sync'[t] = sync[t]
    BY <1>1, CommitState
  <2> QED BY <2>1 DEF PlansSound
<1>2. ASSUME NEW s \in Session, Upsert(s) PROVE PlansSound'
  BY <1>2, UpsertPlans
<1>3. ASSUME ~ \E s \in Session : Upsert(s) \/ Commit(s) PROVE PlansSound'
  <2>1. Calm
    BY <1>3, CalmSteps DEF Next, Work
  <2> QED BY <2>1, CalmKeeps
<1> QED BY <1>1, <1>2, <1>3

LEMMA RowsSoundKeep ==
  ASSUME TypeOK, SyncsSound, Coherent, PlansSound, RowsSound, [Next]_vars
  PROVE  RowsSound'
<1> SUFFICES ASSUME NEW i \in RowId, rows'[i] # NoRow PROVE RowSound(rows'[i])
  BY DEF RowsSound, RowSound, Is
<1>1. CASE rows[i] # NoRow
  BY <1>1, RowsKeep DEF RowsSound, RowSound
<1>2. CASE rows[i] = NoRow
  <2>1. ASSUME NEW s \in Session, Commit(s) PROVE RowSound(rows'[i])
    BY <1>2, <2>1, CommitState, AfterSound
  <2>2. ASSUME NEW s \in Session, Upsert(s) PROVE FALSE
    BY <1>2, <2>2 DEF Upsert
  <2>3. ASSUME ~ \E s \in Session : Upsert(s) \/ Commit(s) PROVE FALSE
    BY <1>2, <2>3, CalmSteps DEF Next, Work, Calm
  <2> QED BY <2>1, <2>2, <2>3
<1> QED BY <1>1, <1>2

\* a step that neither asks nor answers
LEMMA SilentSteps ==
  ASSUME [Next]_vars, ~ \E i \in RowId : AskResult(i),
         ~ \E i \in RowId, id \in Id : StoreResult(i, id) \/ NoResult(i, id)
  PROVE  asking' = asking /\ result' = result
<1>1. ASSUME NEW s \in Session, StartSync(s) \/ Work(s) \/ Refused(s) \/ Abort(s)
      PROVE  asking' = asking /\ result' = result
  BY <1>1 DEF StartSync, Work, Cached, Ask, Answer, Upsert, Commit, Refused, Abort
<1>2. ASSUME \/ \E m \in Match : Play(m)
             \/ \E p \in Provider : Expire(p)
      PROVE  asking' = asking /\ result' = result
  BY <1>2 DEF Play, Expire
<1> QED BY <1>1, <1>2 DEF Next, vars

LEMMA RequestsKeep ==
  ASSUME TypeOK, SyncsSound, Coherent, IdentitySound, [Next]_vars
  PROVE  RequestsSound'
<1> SUFFICES ASSUME NEW i \in RowId, NEW id \in Id, <<i, id>> \in asking'
             PROVE  rows'[i] # NoRow /\ \E m \in Match, p \in Provider : Is(rows'[i], m) /\ id = Ext[p][m]
  BY DEF RequestsSound, Is
<1>1. rows[i] # NoRow /\ \E m \in Match, p \in Provider : Is(rows[i], m) /\ id = Ext[p][m]
  <2>1. CASE <<i, id>> \in asking
    BY <2>1 DEF IdentitySound, RequestsSound
  <2>2. CASE <<i, id>> \notin asking
    <3>1. asking' # asking
      BY <2>2
    <3>2. ASSUME NEW k \in RowId, NEW d \in Id, StoreResult(k, d) \/ NoResult(k, d) PROVE FALSE
      BY <2>2, <3>2 DEF StoreResult, NoResult
    <3>3. PICK k \in RowId : AskResult(k)
      BY <3>1, <3>2, SilentSteps
    <3>4. k = i /\ id = rows[i].id /\ rows[i] # NoRow /\ rows[i] \in Fixture
      BY <2>2, <3>3 DEF AskResult, TypeOK
    <3> QED BY <3>4 DEF IdentitySound, RowsSound, RowSound, Is, Fixture
  <2> QED BY <2>1, <2>2
<1> QED BY <1>1, RowsKeep, ModelFacts DEF IdentitySound

LEMMA ResultsKeep ==
  ASSUME TypeOK, SyncsSound, Coherent, IdentitySound, [Next]_vars
  PROVE  ResultsSound'
<1> SUFFICES ASSUME NEW i \in RowId, result'[i] # NoMatch
             PROVE  rows'[i] # NoRow /\ Is(rows'[i], result'[i])
  BY DEF ResultsSound, Is
<1>1. rows[i] # NoRow /\ result'[i] \in Match /\ Is(rows[i], result'[i])
  <2>1. CASE result'[i] = result[i]
    BY <2>1 DEF IdentitySound, ResultsSound, TypeOK
  <2>2. CASE result'[i] # result[i]
    <3>1. PICK k \in RowId, id \in Id : StoreResult(k, id)
      BY <2>2, SilentSteps DEF AskResult, NoResult
    <3>2. PICK n \in Match : Ext[Primary][n] = id /\ result' = [result EXCEPT ![k] = n]
      BY <3>1 DEF StoreResult
    <3>3. k = i /\ result'[i] = n /\ <<i, id>> \in asking
      BY <2>2, <3>1, <3>2 DEF StoreResult, TypeOK
    <3>4. PICK m \in Match, p \in Provider : rows[i] # NoRow /\ Is(rows[i], m) /\ id = Ext[p][m]
      BY <3>3 DEF IdentitySound, RequestsSound
    <3>5. m = n
      BY <3>2, <3>4, ChainFacts DEF Coherent
    <3> QED BY <3>3, <3>4, <3>5
  <2> QED BY <2>1, <2>2
<1> QED BY <1>1, RowsKeep, ModelFacts DEF IdentitySound

-----------------------------------------------------------------------------
(* The theorems *)

LEMMA InitIInv == Init => IInv
<1> SUFFICES ASSUME Init PROVE IInv
  OBVIOUS
<1>1. SyncsSound /\ PlansSound
  BY DEF Init, SyncsSound, PlansSound, Pending
<1>2. RowsSound /\ RequestsSound /\ ResultsSound
  BY DEF Init, RowsSound, RequestsSound, ResultsSound
<1> QED BY <1>1, <1>2, TypeInit DEF IInv, IdentitySound

LEMMA TypeKeeps ==
  ASSUME TypeOK, SyncsSound, [Next]_vars PROVE TypeOK' /\ SyncsSound'
<1>1. ASSUME NEW s \in Session, StartSync(s) \/ Work(s) \/ Refused(s) \/ Abort(s) PROVE TypeOK'
  BY <1>1, StartSyncType, CachedType, AskType, AnswerType, UpsertType, CommitType, RefusedType, AbortType DEF Work
<1>2. ASSUME UNCHANGED vars PROVE TypeOK'
  BY <1>2 DEF vars, TypeOK
<1>3. TypeOK'
  BY <1>1, <1>2, WorldType DEF Next
<1>4. ASSUME NEW s \in Session, Upsert(s) \/ Commit(s) PROVE SyncsSound'
  BY <1>4, UpsertSound, CommitSound
<1>5. ASSUME ~ \E s \in Session : Upsert(s) \/ Commit(s) PROVE SyncsSound'
  <2>1. Calm
    BY <1>5, CalmSteps DEF Next, Work
  <2> QED BY <2>1, CalmKeeps
<1> QED BY <1>3, <1>4, <1>5

LEMMA StepIInv == IInv /\ [Next]_vars => IInv'
<1> SUFFICES ASSUME IInv, [Next]_vars PROVE IInv'
  OBVIOUS
<1>1. TypeOK' /\ SyncsSound'
  BY TypeKeeps DEF IInv
<1>2. ASSUME Coherent PROVE IdentitySound'
  BY <1>2, PlansKeep, RowsSoundKeep, RequestsKeep, ResultsKeep DEF IInv, IdentitySound
<1>3. Coherent' => Coherent
  BY DEF Coherent
<1> QED BY <1>1, <1>2, <1>3 DEF IInv

(***************************************************************************)
(* What concurrent syncs hold is always consistent with the committed rows,*)
(* and with coherent providers every row, plan, request and result is      *)
(* about one match.                                                        *)
(***************************************************************************)
THEOREM Invariance == Spec => []IInv
<1> QED BY InitIInv, StepIInv, PTL DEF Spec

(***************************************************************************)
(* With coherent providers no sync, however interleaved with others, turns *)
(* a fixture row into another match or removes it.                         *)
(***************************************************************************)
THEOREM RowIdentity == ASSUME Coherent PROVE Spec => RowKeepsItsMatch
<1> DEFINE Keeps == \A i \in RowId : rows[i] # NoRow =>
                      rows'[i] # NoRow /\ Denoted(rows'[i]) = Denoted(rows[i])
<1>1. ASSUME IInv, [Next]_vars PROVE Keeps
  <2> SUFFICES ASSUME NEW i \in RowId, rows[i] # NoRow
               PROVE  rows'[i] # NoRow /\ Denoted(rows'[i]) = Denoted(rows[i])
    OBVIOUS
  <2>1. PICK m \in Match : Is(rows[i], m)
    BY <1>1 DEF IInv, IdentitySound, RowsSound, RowSound
  <2>2. rows[i] \in Fixture /\ rows'[i] \in Fixture /\ Is(rows'[i], m)
    BY <1>1, <2>1, RowsKeep DEF IInv, IdentitySound, TypeOK
  <2> QED BY <2>1, <2>2, DenotedIs, ModelFacts
<1> HIDE DEF Keeps
<1>2. IInv /\ [Next]_vars => [Keeps]_vars
  BY <1>1
<1>3. Spec => [][Keeps]_vars
  BY <1>2, Invariance, PTL DEF Spec
<1> QED BY <1>3 DEF Keeps, RowKeepsItsMatch

(***************************************************************************)
(* With coherent providers, whatever id grading asked with and however old *)
(* it was, the score it stores is that of the row's match.                 *)
(***************************************************************************)
THEOREM ResultIdentity == ASSUME Coherent PROVE Spec => []ResultIsOfTheMatch
<1>1. ASSUME IInv PROVE ResultIsOfTheMatch
  <2> SUFFICES ASSUME NEW i \in RowId, result[i] # NoMatch
               PROVE  rows[i] # NoRow /\ Denoted(rows[i]) = {result[i]}
    BY DEF ResultIsOfTheMatch
  <2>1. rows[i] # NoRow /\ Is(rows[i], result[i])
    BY <1>1 DEF IInv, IdentitySound, ResultsSound
  <2>2. rows[i] \in Fixture /\ result[i] \in Match
    BY <1>1, <2>1 DEF IInv, TypeOK
  <2> QED BY <2>1, <2>2, DenotedIs
<1> QED BY <1>1, Invariance, PTL
=============================================================================
