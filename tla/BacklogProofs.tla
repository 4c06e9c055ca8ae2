--------------------------- MODULE BacklogProofs ---------------------------
(***************************************************************************)
(* Theorems of module Backlog, for any fixtures, cap and window.           *)
(***************************************************************************)
EXTENDS Backlog, TLAPS

-----------------------------------------------------------------------------
(* Lemmas about a conversation *)

(***************************************************************************)
(* run_with_repair: what is stored as OK names a team that advances just   *)
(* when the match is a knockout, whichever replies were repaired.          *)
(***************************************************************************)
LEMMA RowsAgree ==
  ASSUME NEW knockout \in BOOLEAN, NEW r \in Rows[knockout]
  PROVE  /\ r \in WebOk \cup {"failed"}
         /\ r \in WebOk => (r = "side" <=> knockout)
<1>1. Rows[knockout] = {Written(c) : c \in Conversation(knockout)}
  BY DEF Rows
<1>2. PICK c \in Conversation(knockout) : r = Written(c)
  BY <1>1
<1>3. PICK t \in LastTurn, l \in LastReply(knockout) :
        c = [ok |-> Usable(l[2], knockout),
             side |-> Usable(l[2], knockout) /\ Side(l[2], knockout),
             quality |-> Quality(t[2]), calls |-> t[1] + l[1]]
  BY <1>2 DEF Conversation
<1>4. /\ c.ok = Usable(l[2], knockout)
      /\ c.side = (Usable(l[2], knockout) /\ Side(l[2], knockout))
  BY <1>3
<1>5. Usable(l[2], knockout) => (Side(l[2], knockout) <=> knockout)
  BY DEF Usable, Side
<1> QED
  BY <1>2, <1>4, <1>5 DEF Written, WebOk

(***************************************************************************)
(* A prediction costs six calls at most: the search gives up after three   *)
(* continuations and the repairs after two.                                *)
(***************************************************************************)
THEOREM ConversationIsBounded ==
  ASSUME NEW knockout \in BOOLEAN, NEW c \in Conversation(knockout)
  PROVE  c.calls \in 2..(MaxContinuations + MaxRetries + 1)
<1>1. PICK t \in LastTurn, l \in LastReply(knockout) :
        c = [ok |-> Usable(l[2], knockout),
             side |-> Usable(l[2], knockout) /\ Side(l[2], knockout),
             quality |-> Quality(t[2]), calls |-> t[1] + l[1]]
  BY DEF Conversation
<1>2. t[1] \in 1..3 /\ l[1] \in 1..3
  BY DEF LastTurn, LastReply, MaxContinuations, MaxRetries
<1> QED
  BY <1>1, <1>2 DEF MaxContinuations, MaxRetries

-----------------------------------------------------------------------------
(* The inductive invariant *)

LEMMA InitHolds == Init => IInv
BY BacklogAssumption
   DEF Init, IInv, TypeOK, PaidIsMarked, AdvancingMatchesStage, Finished, Model, WebOk

(* A run that predicts writes rows of the right type that agree with the stage. *)
LEMMA PredictAgrees ==
  ASSUME IInv, NEW S \in SUBSET Fixture, Predict(S)
  PROVE  /\ web' \in [Fixture -> WebOk \cup {"none", "failed"}]
         /\ AdvancingMatchesStage'
<1>1. PICK w \in [S -> WebOk \cup {"failed"}] :
        /\ \A f \in S : w[f] \in Rows[IsKnockout(f)]
        /\ web' = [f \in Fixture |-> IF f \in S THEN w[f] ELSE web[f]]
  BY DEF Predict
<1>2. web' \in [Fixture -> WebOk \cup {"none", "failed"}]
  BY <1>1 DEF IInv, TypeOK
<1>3. ASSUME NEW f \in Fixture, web'[f] \in WebOk
      PROVE  web'[f] = "side" <=> f \in Knockout
  <2>1. CASE f \in S
    <3>1. web'[f] = w[f] /\ w[f] \in Rows[IsKnockout(f)]
      BY <1>1, <2>1
    <3>2. IsKnockout(f) \in BOOLEAN /\ (IsKnockout(f) <=> f \in Knockout)
      BY DEF IsKnockout
    <3> QED
      BY <1>3, <3>1, <3>2, RowsAgree
  <2>2. CASE f \notin S
    BY <1>1, <1>3, <2>2 DEF IInv, AdvancingMatchesStage
  <2> QED
    BY <2>1, <2>2
<1> QED
  BY <1>2, <1>3 DEF AdvancingMatchesStage

LEMMA PredictRunKeeps == IInv /\ PredictRun => IInv'
<1> SUFFICES ASSUME IInv, PredictRun PROVE IInv'
  OBVIOUS
<1>1. PICK S \in SUBSET Fixture : /\ S \subseteq EligibleForPrediction
                                  /\ Predict(S) /\ backfilled' = backfilled \ S
  BY DEF PredictRun, Oldest, EligibleForPrediction
<1>2. S \cap backfilled = {}
  BY <1>1 DEF IInv, EligibleForPrediction
<1>3. backfilled' = backfilled /\ paid' = paid /\ now' = now
  BY <1>1, <1>2 DEF PredictRun
<1>4. /\ web' \in [Fixture -> WebOk \cup {"none", "failed"}]
      /\ AdvancingMatchesStage'
  BY <1>1, PredictAgrees
<1>5. TypeOK'
  BY <1>3, <1>4 DEF IInv, TypeOK, PredictRun
<1>6. PaidIsMarked' /\ (backfilled \subseteq Finished)'
  BY <1>3 DEF IInv, PaidIsMarked, Finished
<1> QED
  BY <1>4, <1>5, <1>6 DEF IInv

LEMMA BackfillRunKeeps == IInv /\ BackfillRun => IInv'
<1> SUFFICES ASSUME IInv, BackfillRun PROVE IInv'
  OBVIOUS
<1>1. PICK S \in SUBSET Fixture :
        /\ S \subseteq EligibleForBackfill /\ Predict(S)
        /\ backfilled' = backfilled \cup S
        /\ paid' = [f \in Fixture |-> IF f \in S THEN paid[f] + 1 ELSE paid[f]]
        /\ \E R \in SUBSET (S \ Hopeless) : graded' = Regraded(S, R)
  BY DEF BackfillRun, Oldest, EligibleForBackfill, Finished
<1>2. S \cap backfilled = {} /\ S \subseteq Finished
  BY <1>1 DEF EligibleForBackfill
<1>3. /\ web' \in [Fixture -> WebOk \cup {"none", "failed"}]
      /\ AdvancingMatchesStage'
  BY <1>1, PredictAgrees
<1>4. graded' \subseteq Fixture \X Model
  BY <1>1 DEF Regraded
<1>5. paid' \in [Fixture -> Nat]
  BY <1>1 DEF IInv, TypeOK
<1>6. TypeOK'
  BY <1>1, <1>3, <1>4, <1>5 DEF IInv, TypeOK, BackfillRun
<1>7. PaidIsMarked'
  BY <1>1, <1>2 DEF IInv, TypeOK, PaidIsMarked
<1>8. (backfilled \subseteq Finished)'
  BY <1>1, <1>2 DEF IInv, Finished, BackfillRun
<1> QED
  BY <1>3, <1>6, <1>7, <1>8 DEF IInv

LEMMA FinishKeeps == ASSUME NEW f \in Fixture PROVE IInv /\ Finish(f) => IInv'
BY BacklogAssumption
   DEF Finish, IInv, TypeOK, PaidIsMarked, AdvancingMatchesStage, Finished

LEMMA GradeRunKeeps == ASSUME NEW f \in Fixture PROVE IInv /\ GradeRun(f) => IInv'
<1> SUFFICES ASSUME IInv, GradeRun(f) PROVE IInv'
  OBVIOUS
<1>1. graded' \subseteq Fixture \X Model
  BY DEF GradeRun, Gradable, Oldest, EligibleForGrading, Finished, IInv, TypeOK
<1> QED
  BY <1>1 DEF GradeRun, IInv, TypeOK, PaidIsMarked, AdvancingMatchesStage, Finished

LEMMA BatchKeeps ==
  IInv /\ (BatchSubmit \/ BatchEnds \/ BatchCollect \/ BatchLost) => IInv'
<1> SUFFICES ASSUME IInv, BatchSubmit \/ BatchEnds \/ BatchCollect \/ BatchLost PROVE IInv'
  OBVIOUS
<1>1. UNCHANGED <<now, web, backfilled, graded, paid>>
  BY DEF BatchSubmit, BatchEnds, BatchCollect, BatchLost
<1>2. open' \in Batch \cup {NoBatch}
  <2>1. CASE BatchSubmit
    <3>1. Finished \subseteq Fixture /\ Oldest(Finished) \subseteq Fixture
      BY DEF Oldest, Finished
    <3>2. PICK S \in SUBSET Fixture : open' = [over |-> S, status |-> "in_progress"]
      BY <2>1, <3>1 DEF BatchSubmit
    <3> QED
      BY <3>2 DEF Batch
  <2>2. CASE BatchEnds
    BY <2>2 DEF BatchEnds, Batch, IInv, TypeOK
  <2>3. CASE BatchCollect \/ BatchLost
    BY <2>3 DEF BatchCollect, BatchLost
  <2> QED
    BY <2>1, <2>2, <2>3
<1>3. batch' \in [Fixture -> {"none", "failed", "ok"}]
  <2>1. CASE BatchCollect
    BY <2>1 DEF BatchCollect, BatchRow, IInv, TypeOK
  <2>2. CASE BatchSubmit \/ BatchEnds \/ BatchLost
    BY <2>2 DEF BatchSubmit, BatchEnds, BatchLost, IInv, TypeOK
  <2> QED
    BY <2>1, <2>2
<1> QED
  BY <1>1, <1>2, <1>3 DEF IInv, TypeOK, PaidIsMarked, AdvancingMatchesStage, Finished

LEMMA NextKeeps == IInv /\ [Next]_vars => IInv'
<1> SUFFICES ASSUME IInv, [Next]_vars PROVE IInv'
  OBVIOUS
<1>1. CASE \E f \in Fixture : Finish(f) \/ GradeRun(f)
  BY <1>1, FinishKeeps, GradeRunKeeps
<1>2. CASE PredictRun
  BY <1>2, PredictRunKeeps
<1>3. CASE BackfillRun
  BY <1>3, BackfillRunKeeps
<1>4. CASE BatchSubmit \/ BatchEnds \/ BatchCollect \/ BatchLost
  BY <1>4, BatchKeeps
<1>5. CASE UNCHANGED vars
  BY <1>5 DEF vars, IInv, TypeOK, PaidIsMarked, AdvancingMatchesStage, Finished
<1> QED
  BY <1>1, <1>2, <1>3, <1>4, <1>5 DEF Next

(* The inductive invariant holds in every reachable state. *)
THEOREM Invariance == Spec => []IInv
<1> QED
  BY InitHolds, NextKeeps, PTL DEF Spec

-----------------------------------------------------------------------------
(***************************************************************************)
(* run_backfill with eligible_for_backfill never pays for a fixture twice, *)
(* however runs, batches and failures alternate.                           *)
(***************************************************************************)
THEOREM NeverBackfilledTwice == Spec => []PaidOnce
<1>1. IInv => PaidOnce
  BY DEF IInv, TypeOK, PaidIsMarked, PaidOnce
<1> QED
  BY <1>1, Invariance, PTL

(***************************************************************************)
(* run_with_repair and its business rule: stored knockout predictions name *)
(* a team that advances, stored group predictions none.                    *)
(***************************************************************************)
THEOREM StageIsRespected == Spec => []AdvancingMatchesStage
<1>1. IInv => AdvancingMatchesStage
  BY DEF IInv
<1> QED
  BY <1>1, Invariance, PTL
=============================================================================
