----------------------------- MODULE MCDashboard -----------------------------
(***************************************************************************)
(* A small instance of Dashboard for TLC: an organization with a project   *)
(* and one without.                                                        *)
(***************************************************************************)
EXTENDS Dashboard
=============================================================================
