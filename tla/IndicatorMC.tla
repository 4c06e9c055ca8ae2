---------------------------- MODULE IndicatorMC -----------------------------
(* The open instance of Pipeline with the light of the predict button. *)
EXTENDS Indicator, PipelineMC
=============================================================================
