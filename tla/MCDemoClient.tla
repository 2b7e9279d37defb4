---------------------------- MODULE MCDemoClient ----------------------------
(***************************************************************************)
(* A small instance of DemoClient for TLC: two flags and two plans.        *)
(***************************************************************************)
EXTENDS DemoClient
=============================================================================
