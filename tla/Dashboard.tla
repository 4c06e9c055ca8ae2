----------------------------- MODULE Dashboard -----------------------------
(***************************************************************************)
(* What a reader of the site is shown of the rows of module Pipeline: the  *)
(* match list and the match page (services/fixture_service.py), the        *)
(* headline, the history and the comparison of the estimators              *)
(* (services/dashboard_service.py, repositories/dashboard.py).             *)
(*                                                                         *)
(* Every page is a query over rows that jobs are rewriting.  The queries   *)
(* select by different columns - status, is_backfill, the estimator, the   *)
(* existence of a Grade - and must tell one story.                         *)
(*                                                                         *)
(* The history variables record what no column does: which predictions     *)
(* were made by a job that took its fixture on when the match had begun.   *)
(***************************************************************************)
EXTENDS Pipeline

VARIABLES
  late,     \* open predicting jobs that took on a match after its kickoff
  informed  \* rows last answered by such a job

hist  == <<late, informed>>
dvars == <<vars, hist>>

DTypeOK == late \subseteq Job /\ informed \subseteq RowId

-----------------------------------------------------------------------------
(* The match list and the match page *)

IsLlm(i) == preds[i].model # "baseline"

\* _prediction_map: newest OK row that is no baseline, else newest OK baseline
AllOk(f)     == {i \in RowsOf(f) : preds[i].ok}
FeaturedNewest(f) == Newest(AllOk(f))                               \* mutant
Featured(f) ==
  LET llm      == Newest({i \in AllOk(f) : IsLlm(i)})
      fallback == Newest({i \in AllOk(f) : ~ IsLlm(i)})
  IN IF llm # {} THEN llm ELSE fallback

\* _primary: by created_at alone, among the LLM rows if there are any
Primary(f) ==
  LET llm == AllOk(f) \ {i \in AllOk(f) : preds[i].model = "baseline"}
      S   == IF llm = {} THEN AllOk(f) ELSE llm
  IN {i \in S : \A k \in S : i >= k}

-----------------------------------------------------------------------------
(* The accuracy pages *)

\* the badge of the history and of the match page: a backfill that searched
Hindsight(i) == preds[i].backfill /\ preds[i].model # "batch"

\* DashboardRepository.graded: asks for no particular status of the row
GradedUnfiltered(include_backfill, estimators) ==                   \* mutant
  {i \in Stored : /\ grade[i] # {} /\ result[preds[i].fixture] = "final"
                  /\ preds[i].model \in estimators}
Graded(include_backfill, estimators) ==
  {i \in Stored : /\ grade[i] # {} /\ result[preds[i].fixture] = "final"
                  /\ preds[i].model \in estimators
                  /\ include_backfill \/ ~ Hindsight(i)}

\* one row per fixture: the newest
DedupPerFixture(S) == UNION {Newest({i \in S : preds[i].fixture = f}) : f \in Fixture}

Llm == {"llm", "batch"}

\* metrics, history, the calibration page
Headline == DedupPerFixture(Graded(FALSE, Llm))

-----------------------------------------------------------------------------
(* History: who answered a row, and what it could have known *)

LateNow(j) ==
  IF job'[j] = NoJob \/ job'[j].kind \notin Forced \cup Forward THEN FALSE
  ELSE IF job[j] = NoJob THEN job'[j].over \subseteq played ELSE j \in late

\* a prediction job writes one row, and a whole new answer is in it
Answered(j) == {i \in RowId : job[j] # NoJob /\ job[j].at = "searching" /\ preds'[i] # preds[i]}

Remember ==
  /\ late' = {j \in Job : LateNow(j)}
  /\ informed' = (informed \ UNION {Answered(j) : j \in {k \in Job : job'[k] # job[k]}})
                   \cup UNION {Answered(j) : j \in {k \in late : job'[k] # job[k]}}

DInit == Init /\ late = {} /\ informed = {}
DNext == Next /\ Remember
DSpec == DInit /\ [][DNext]_dvars

-----------------------------------------------------------------------------
(***************************************************************************)
(* The inductive invariant behind HeadlineIsHonest: only backfills take on *)
(* a match that began, and what they answered carries their flag.          *)
(***************************************************************************)
InformedFlagged ==
  /\ \A j \in late : job[j] # NoJob /\ job[j].kind = "backfill"
  /\ \A i \in informed : i \in Stored /\ preds[i].model = "llm" /\ preds[i].backfill

DInv == DTypeOK /\ EInv /\ (RunsOnly => InformedFlagged)

-----------------------------------------------------------------------------
(* Properties *)

(***************************************************************************)
(* The match list and the match page feature the same prediction, and an   *)
(* estimate of the model hides every baseline, however often the baselines *)
(* are regenerated after it.                                               *)
(***************************************************************************)
PagesAgree ==
  \A f \in Fixture :
    /\ Featured(f) = Primary(f)
    /\ \A i \in Featured(f) : IsLlm(i) \/ \A k \in AllOk(f) : ~ IsLlm(k)

(***************************************************************************)
(* repositories/dashboard.py drops "the web-search backfill that saw the   *)
(* result": while predictions are made by runs, no prediction made by a    *)
(* job that took on its match after kickoff counts in the headline.  The   *)
(* flag, the columns an UPDATE leaves out, the selections and the locks    *)
(* have to work together for this; the predict button, which takes any     *)
(* fixture, breaks it.                                                     *)
(***************************************************************************)
HeadlineIsHonest == Headline \cap informed = {}

(***************************************************************************)
(* What the headline counts is what the match page shows: the counted row  *)
(* is an OK prediction, and the page features it unless it features a      *)
(* newer one that is hindsight or has not been graded yet.                 *)
(***************************************************************************)
HeadlineIsShown ==
  \A i \in Headline :
    /\ preds[i].ok
    /\ \A k \in Featured(preds[i].fixture) : k = i \/ (k > i /\ (Hindsight(k) \/ grade[k] = {}))
=============================================================================
