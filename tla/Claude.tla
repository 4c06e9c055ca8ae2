------------------------------- MODULE Claude -------------------------------
(***************************************************************************)
(* The Claude adapters: what the calls of one prediction come to           *)
(* (providers/claude_search.py, claude_predict.py) and what one entry of a *)
(* batch comes to (claude_batch.py).                                       *)
(*                                                                         *)
(* Both loops go on for as long as the reply asks for it and stop at a     *)
(* bound.  The replies before the last one only kept the loop going, so    *)
(* what a loop returns is told by its number of calls and its last reply.  *)
(***************************************************************************)
EXTENDS Naturals

MaxContinuations == 3    \* _MAX_CONTINUATIONS
MaxRetries       == 2    \* _MAX_RETRIES

(* Web search: continue while the model pauses to keep searching. *)
Turn     == [paused : BOOLEAN, cited : BOOLEAN]
LastTurn == {x \in (1..MaxContinuations) \X Turn : x[2].paused => x[1] = MaxContinuations}

\* only the sources of the last response count
Quality(turn) == IF turn.cited THEN "ok" ELSE "low"

(***************************************************************************)
(* Structured prediction: no_side and side are texts that validate as a    *)
(* PredictionOutput, without and with advancing_team.                      *)
(***************************************************************************)
Reply == {"refusal", "malformed", "no_side", "side"}

UsableUnruled(reply, knockout) == reply \in {"no_side", "side"}     \* mutant
Usable(reply, knockout) == reply = "side" \/ (reply = "no_side" /\ ~ knockout)

LastReply(knockout) ==
  {x \in (1..MaxRetries + 1) \X Reply :
     x[2] = "refusal" \/ Usable(x[2], knockout) \/ x[1] = MaxRetries + 1}

\* does the stored prediction name a team that advances?
Side(reply, knockout) == reply = "side" /\ knockout

(***************************************************************************)
(* One prediction: search, then predict.  Any call may raise, and then     *)
(* nothing is stored.                                                      *)
(***************************************************************************)
Conversation(knockout) ==
  {[ok |-> Usable(r[2], knockout),
    side |-> Usable(r[2], knockout) /\ Side(r[2], knockout),
    quality |-> Quality(t[2]), calls |-> t[1] + r[1]] : t \in LastTurn, r \in LastReply(knockout)}

(***************************************************************************)
(* parse_batch_entry: the type of the entry, then its JSON; no repair, no  *)
(* rule about knockouts.                                                   *)
(***************************************************************************)
Entry == {"expired", "errored", "malformed", "no_side", "side"}
Parsed(entry) == entry \in {"no_side", "side"}
=============================================================================
