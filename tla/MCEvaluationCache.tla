-------------------------- MODULE MCEvaluationCache --------------------------
(***************************************************************************)
(* Small instances of EvaluationCache for TLC.                             *)
(***************************************************************************)
EXTENDS EvaluationCache

CONSTANTS acme, globex, production, staging, k1, k2, k3

(* One key: everything happens to one flag in one environment. *)
OneOrg == [k \in ApiKeys |-> acme]
OneEnv == [k \in ApiKeys |-> production]

(* Two organizations with a flag of the same key, one of them with two     *)
(* environments.                                                           *)
TwoOrgs == [k \in ApiKeys |-> IF k = k2 THEN globex ELSE acme]
TwoEnvs == [k \in ApiKeys |-> IF k = k3 THEN staging ELSE production]
=============================================================================
