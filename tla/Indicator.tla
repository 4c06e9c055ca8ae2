----------------------------- MODULE Indicator ------------------------------
(***************************************************************************)
(* The "Predicting..." light of a match: workers/runner.py keeps the set   *)
(* of fixtures whose predict button is at work, predict_one adds on entry  *)
(* and discards in its finally, and the match page shows it                *)
(* (routes/matches.py).  The set is a variable of the process over the     *)
(* jobs of module Pipeline: presses of one button may overlap.             *)
(***************************************************************************)
EXTENDS Pipeline

VARIABLE predicting

ivars == <<vars, predicting>>

Pressed(f) == {j \in Job : job[j] # NoJob /\ job[j].kind = "button" /\ f \in job[j].over}

\* a press begins; a press ends: stored, skipped or with an error
Begins(j) == job[j] = NoJob /\ job'[j] # NoJob /\ job'[j].kind = "button"
EndsStored(j) == job[j] # NoJob /\ job'[j] = NoJob /\ preds' # preds  \* mutant
Ends(j) == job[j] # NoJob /\ job[j].kind = "button" /\ job'[j] = NoJob

Light ==
  predicting' = (predicting \ UNION {job[j].over : j \in {k \in Job : Ends(k)}})
                  \cup UNION {job'[j].over : j \in {k \in Job : Begins(k)}}

IInit == Init /\ predicting = {}
INext == Next /\ Light
ISpec == IInit /\ [][INext]_ivars

(***************************************************************************)
(* The light never shines for nobody: however presses overlap and end, a   *)
(* lit match has a press at work, so no match says "Predicting..." for     *)
(* ever.  The converse is weaker, because the light is a set and not a     *)
(* count: the first press to end hides the others, and all that is sure of *)
(* a dark match is that not every session is a press of it.                *)
(***************************************************************************)
LightIsTrue ==
  \A f \in Fixture : IF f \in predicting THEN Pressed(f) # {} ELSE Pressed(f) # Job
=============================================================================
