--------------------------- MODULE FlagEvaluation ---------------------------
(***************************************************************************)
(* What a configuration row means for the users of the product: the        *)
(* conversion of a row to the engine's configuration, the pure evaluation  *)
(* engine, and the row it reads changing under PATCH requests that may     *)
(* overlap (see FlagService).                                              *)
(***************************************************************************)
EXTENDS ConfigRow

CONSTANTS
  Customers,    \* the users a flag is evaluated for
  Attributes,   \* the attributes each of them sends: NULL where it sends none
  Bucket,       \* bucket_for(flag_key, user.key): MD5 modulo 100
  Payloads      \* the bodies of the requests that change the row

ASSUME CustomersAssumption ==
  /\ Bucket \in [Customers -> 0..99]
  /\ Attributes \in [Customers -> [Strings -> Strings \cup {NULL}]]

ASSUME EvaluationPayloads == Payloads \subseteq ValidPayloads

VARIABLE row

-----------------------------------------------------------------------------
(* A result: the flag's on or off value, with the reason. *)
On(reason)  == [value |-> "on", reason |-> reason]
Off(reason) == [value |-> "off", reason |-> reason]

Rule(r) == [attribute |-> r.rule_attribute, operator |-> r.rule_operator,
            value |-> r.rule_value]

RuleMatches(rule, u) ==
  /\ Attributes[u][rule.attribute] # NULL
  /\ Attributes[u][rule.attribute] = rule.value

(* A comparison that lets one bucket too many in. *)
BadInRollout(u, percentage) == Bucket[u] <= percentage

(* A bucket that is salted with the percentage. *)
BadInRolloutUnstable(u, percentage) == (Bucket[u] + 5 * percentage) % 100 < percentage

InRollout(u, percentage) == Bucket[u] < percentage

(* EvaluationEngine.evaluate; `rules' is the set of the configuration's    *)
(* targeting rule, or empty when it has none.                              *)
Engine(config, u) ==
  IF ~config.enabled THEN Off("flag_disabled")
  ELSE IF \E rule \in config.rules : rule.operator # "equals" THEN Off("evaluation_error")
  ELSE IF \E rule \in config.rules : RuleMatches(rule, u) THEN On("rule_match")
  ELSE IF config.rollout_percentage = NULL THEN On("default_on")
  ELSE IF InRollout(u, config.rollout_percentage) THEN On("rollout")
  ELSE Off("rollout_excluded")

(* EvaluationService: _to_flag_config, whose error the caller turns into   *)
(* the off value, then the engine.                                         *)
Evaluate(r, u) ==
  IF \E c \in RuleColumns : r[c] # NULL
  THEN IF \A c \in RuleColumns : r[c] # NULL
       THEN Engine([enabled |-> r.enabled, rules |-> {Rule(r)},
                    rollout_percentage |-> r.rollout_percentage], u)
       ELSE Off("evaluation_error")
  ELSE Engine([enabled |-> r.enabled, rules |-> {},
               rollout_percentage |-> r.rollout_percentage], u)

(* The customers who get the new experience. *)
Reached(r) == {u \in Customers : Evaluate(r, u).value = "on"}

-----------------------------------------------------------------------------
Init == row = DefaultRow

Update(p) == row' = Updated(row, row, Assigned(row, p))

(* Two requests that read the same version and commit one after the other. *)
Overlap(p, q) ==
  row' = Updated(Updated(row, row, Assigned(row, p)), row, Assigned(row, q))

Next ==
  \/ \E p \in Payloads : Update(p)
  \/ \E p, q \in Payloads : Overlap(p, q)

Spec == Init /\ [][Next]_row

-----------------------------------------------------------------------------
TypeOK == row \in Row

(* The percentage of a row: no rollout reaches everyone, as the dashboard  *)
(* displays it.                                                            *)
Percentage(r) == IF r.rollout_percentage = NULL THEN 100 ELSE r.rollout_percentage

Targeted(r, u) ==
  /\ r.rule_attribute # NULL
  /\ Attributes[u][r.rule_attribute] = r.rule_value

(* Whom a row reaches, said without the engine: nobody when it is off or   *)
(* its rule is torn (the safe failure of the README), otherwise those the  *)
(* rule targets and those in the first `percentage' of the 100 buckets.    *)
Audience(r) ==
  IF r.enabled /\ RuleWellFormed(r)
  THEN {u \in Customers : Targeted(r, u) \/ Bucket[u] \in 0..(Percentage(r) - 1)}
  ELSE {}

(* The conversion and the engine reach exactly that audience, whatever the *)
(* requests, overlapping or not, have made of the row.                     *)
ReachesAudience == Reached(row) = Audience(row)

(* Rollouts are sticky: a step that raises the percentage and changes      *)
(* nothing else takes the flag from nobody who had it, one that lowers it  *)
(* gives it to nobody new.                                                 *)
OnlyRolloutChanged(r, s) ==
  \A c \in Columns \ {"rollout_percentage"} : r[c] = s[c]

StickyRollout ==
  [][OnlyRolloutChanged(row, row') =>
       /\ Percentage(row) <= Percentage(row') => Reached(row) \subseteq Reached(row')
       /\ Percentage(row') <= Percentage(row) => Reached(row') \subseteq Reached(row)]_row
=============================================================================
