-------------------------- MODULE MCFlagEvaluation --------------------------
(***************************************************************************)
(* A small instance of FlagEvaluation for TLC: customers on both sides of  *)
(* every boundary of the rollout, with and without the attribute.          *)
(***************************************************************************)
EXTENDS FlagEvaluation

CONSTANTS Plan, Pro, Free

RuleStrings == {Plan, Pro, Free}
SomePercentages == {0, 1, 20, 50, 99, 100}
SomePayloads == {p \in ValidPayloads :
  "rule_attribute" \in DOMAIN p => p.rule_attribute \in {Plan, NULL}}

(* Customers are <<bucket, plan>>. *)
SomeCustomers == {0, 1, 19, 20, 98, 99} \X {Pro, Free, NULL}
CustomerBucket == [u \in SomeCustomers |-> u[1]]
CustomerAttributes ==
  [u \in SomeCustomers |-> [s \in RuleStrings |-> IF s = Plan THEN u[2] ELSE NULL]]
=============================================================================
