------------------------------ MODULE RunBook -------------------------------
(***************************************************************************)
(* What the run history promises to whoever reads it (the admin table of   *)
(* GET /runs and GET /runs/{id}), without tasks, locks or processes.       *)
(*                                                                         *)
(* A row has at most one writer, from the moment it appears until the      *)
(* writer concludes or is lost.  Only the writer adds items, never twice   *)
(* for a fixture, and its verdict must agree with them.  Outsiders can     *)
(* only fail all running rows at once (a boot) or strike a row out as      *)
(* cancelled.                                                              *)
(***************************************************************************)
CONSTANTS RunId, Fixture, Outcome

VARIABLES
  status,  \* [RunId -> none, running or a terminal status]
  items,   \* [RunId -> [Fixture -> Outcome or "none"]]
  writer   \* rows whose writer is still at work

bookVars == <<status, items, writer>>

Noted(r) == {items[r][f] : f \in Fixture} \ {"none"}

Truthful(r, s) ==
  \/ s = "succeeded" /\ "failed" \notin Noted(r)
  \/ s = "partial"   /\ (Noted(r) = {} \/ ("failed" \in Noted(r) /\ Noted(r) # {"failed"}))
  \/ s = "failed"    /\ Noted(r) \subseteq {"failed"}
  \/ s = "cancelled"

Init ==
  /\ status = [r \in RunId |-> "none"]
  /\ items = [r \in RunId |-> [f \in Fixture |-> "none"]]
  /\ writer = {}

Open(r) ==
  /\ status[r] = "none"
  /\ status' = [status EXCEPT ![r] = "running"]
  /\ writer' = writer \cup {r}
  /\ UNCHANGED items

Note(r, f, o) ==
  /\ r \in writer
  /\ items[r][f] = "none"
  /\ items' = [items EXCEPT ![r][f] = o]
  /\ UNCHANGED <<status, writer>>

Conclude(r, s) ==
  /\ r \in writer
  /\ Truthful(r, s)
  /\ status' = [status EXCEPT ![r] = s]
  /\ writer' = writer \ {r}
  /\ UNCHANGED items

Lose(R) ==
  /\ writer' = writer \ R
  /\ UNCHANGED <<status, items>>

FailOrphans ==
  /\ status' = [r \in RunId |-> IF status[r] = "running" THEN "failed" ELSE status[r]]
  /\ UNCHANGED <<items, writer>>

Strike(r) ==
  /\ status[r] # "none"
  /\ status' = [status EXCEPT ![r] = "cancelled"]
  /\ UNCHANGED <<items, writer>>

Next ==
  \/ \E r \in RunId : Open(r) \/ Strike(r)
  \/ \E r \in RunId, f \in Fixture, o \in Outcome : Note(r, f, o)
  \/ \E r \in RunId, s \in {"succeeded", "partial", "failed", "cancelled"} : Conclude(r, s)
  \/ \E R \in SUBSET RunId : Lose(R)
  \/ FailOrphans

Spec == Init /\ [][Next]_bookVars
=============================================================================
