----------------------------- MODULE DashboardMC -----------------------------
(* The managed instance of Pipeline, seen through the pages of Dashboard. *)
EXTENDS Dashboard, PipelineMC
=============================================================================
