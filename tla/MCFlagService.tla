---------------------------- MODULE MCFlagService ----------------------------
(***************************************************************************)
(* Small instances of FlagService for TLC.                                 *)
(***************************************************************************)
EXTENDS AuditHistory

CONSTANTS Plan, Pro, Free   \* the strings of the rules

RuleStrings == {Plan, Pro, Free}
SomePercentages == {0, 50, 101}

(* Every kind of body, the refused ones included. *)
EveryPayload ==
  {Toggle(TRUE), Toggle(FALSE), Rollout(0), Rollout(50), Rollout(101),
   SetRule(Plan, Pro), SetRule(Plan, Free), SetRule(Plan, Blank), ClearRule}

(* Two columns that do not depend on each other. *)
TogglePayloads == {Toggle(TRUE), Toggle(FALSE), Rollout(50)}

(* One rule set, changed and cleared. *)
RulePayloads == {SetRule(Plan, Pro), SetRule(Plan, Free), ClearRule}
=============================================================================
