------------------------ MODULE FlagEvaluation_proofs ------------------------
(***************************************************************************)
(* The evaluation of every row the table can hold, for every customer and  *)
(* every assignment of buckets.                                            *)
(***************************************************************************)
EXTENDS FlagEvaluation, TLAPS

(* What an UPDATE leaves, and a body makes, is a row again.                *)
LEMMA UpdatedIsRow ==
  ASSUME NEW old \in Row, NEW b \in Row, NEW a \in Row
  PROVE  Updated(old, b, a) \in Row
  BY DEF Updated, Changed, Row, Columns, RuleColumns

LEMMA AssignedIsRow ==
  ASSUME NEW base \in Row, NEW p \in ValidPayloads
  PROVE  Assigned(base, p) \in Row
  BY DEF Assigned, ValidPayloads, AllPayloads, InRange, NotBlank, Row, Columns,
         RuleColumns, Toggle, Rollout, SetRule, ClearRule

(* Any row the table can hold reaches exactly its audience: the engine and *)
(* the conversion agree with the definition that does without them.        *)
THEOREM EveryRowReachesItsAudience ==
  ASSUME NEW r \in Row
  PROVE  Reached(r) = Audience(r)
<1>1. SUFFICES ASSUME NEW u \in Customers
               PROVE  Evaluate(r, u).value = "on" <=> u \in Audience(r)
  BY DEF Reached, Audience
<1>2. /\ Bucket[u] \in 0..99
      /\ Percentage(r) \in 0..100
      /\ r.rollout_percentage # NULL => r.rollout_percentage \in 0..100
      /\ r.rule_operator # NULL => r.rule_operator = "equals"
      /\ NULL \notin Int
  BY CustomersAssumption, NullAssumption DEF Row, Percentage
<1>3. Bucket[u] \in 0..(Percentage(r) - 1) <=> Bucket[u] < Percentage(r)
  BY <1>2
<1>4. \A rule, reason : /\ On(reason).value = "on"
                        /\ Off(reason).value # "on"
  BY DEF On, Off
<1>5. CASE \A c \in RuleColumns : r[c] = NULL
  <2> DEFINE config == [enabled |-> r.enabled, rules |-> {},
                        rollout_percentage |-> r.rollout_percentage]
  <2>1. Evaluate(r, u) = Engine(config, u)
    BY <1>5 DEF Evaluate
  <2>2. RuleWellFormed(r) /\ ~Targeted(r, u)
    BY <1>5 DEF RuleWellFormed, Targeted, RuleColumns
  <2>3. Engine(config, u).value = "on" <=> r.enabled /\ Bucket[u] < Percentage(r)
    BY <1>2, <1>4 DEF Engine, InRollout, Percentage
  <2> QED
    BY <1>3, <2>1, <2>2, <2>3 DEF Audience
<1>6. CASE \A c \in RuleColumns : r[c] # NULL
  <2> DEFINE config == [enabled |-> r.enabled, rules |-> {Rule(r)},
                        rollout_percentage |-> r.rollout_percentage]
  <2>1. Evaluate(r, u) = Engine(config, u)
    BY <1>6 DEF Evaluate, RuleColumns
  <2>2. /\ RuleWellFormed(r)
        /\ r.rule_operator = "equals" /\ r.rule_attribute # NULL /\ r.rule_value # NULL
    BY <1>2, <1>6 DEF RuleWellFormed, RuleColumns
  <2>3. RuleMatches(Rule(r), u) <=> Targeted(r, u)
    BY <2>2 DEF RuleMatches, Rule, Targeted
  <2>4. Engine(config, u).value = "on" <=>
          r.enabled /\ (Targeted(r, u) \/ Bucket[u] < Percentage(r))
    BY <1>2, <1>4, <2>2, <2>3 DEF Engine, InRollout, Percentage, Rule
  <2> QED
    BY <1>3, <2>1, <2>2, <2>4 DEF Audience
<1>7. CASE ~RuleWellFormed(r)
  BY <1>4, <1>7 DEF RuleWellFormed, Evaluate, Audience
<1> QED
  BY <1>5, <1>6, <1>7 DEF RuleWellFormed

LEMMA PercentageInRange ==
  ASSUME NEW r \in Row
  PROVE  Percentage(r) \in 0..100
BY DEF Percentage, Row

(* Two rows that differ only in their percentage: the one with the higher  *)
(* percentage reaches everybody the other one does.                        *)
LEMMA HigherReachesMore ==
  ASSUME NEW r \in Row, NEW s \in Row, OnlyRolloutChanged(r, s),
         Percentage(r) <= Percentage(s)
  PROVE  Reached(r) \subseteq Reached(s)
<1>1. Percentage(r) \in 0..100 /\ Percentage(s) \in 0..100
  BY PercentageInRange
<1>2. /\ r.enabled = s.enabled
      /\ \A c \in RuleColumns : r[c] = s[c]
      /\ r.rule_attribute = s.rule_attribute /\ r.rule_value = s.rule_value
  BY DEF OnlyRolloutChanged, Columns, RuleColumns
<1>3. RuleWellFormed(r) = RuleWellFormed(s)
  BY <1>2 DEF RuleWellFormed
<1>4. \A u \in Customers : Targeted(r, u) <=> Targeted(s, u)
  BY <1>2 DEF Targeted
<1>5. \A u \in Customers :
        Bucket[u] \in 0..(Percentage(r) - 1) => Bucket[u] \in 0..(Percentage(s) - 1)
  BY <1>1
<1>6. Audience(r) \subseteq Audience(s)
  BY <1>2, <1>3, <1>4, <1>5 DEF Audience
<1> QED
  BY <1>6, EveryRowReachesItsAudience

LEMMA EvaluationTypes == Spec => []TypeOK
<1>1. Init => TypeOK
  BY DEF Init, TypeOK, DefaultRow, Row
<1>2. TypeOK /\ [Next]_row => TypeOK'
  <2> SUFFICES ASSUME TypeOK, [Next]_row PROVE TypeOK'
    OBVIOUS
  <2>1. \A p \in Payloads : p \in ValidPayloads
    BY EvaluationPayloads
  <2>2. \A p \in Payloads : Assigned(row, p) \in Row
    BY <2>1, AssignedIsRow DEF TypeOK
  <2>3. \A p \in Payloads : Updated(row, row, Assigned(row, p)) \in Row
    BY <2>2, UpdatedIsRow DEF TypeOK
  <2>4. \A p, q \in Payloads :
          Updated(Updated(row, row, Assigned(row, p)), row, Assigned(row, q)) \in Row
    BY <2>2, <2>3, UpdatedIsRow DEF TypeOK
  <2> QED
    BY <2>3, <2>4 DEF Next, Update, Overlap, TypeOK
<1> QED
  BY <1>1, <1>2, PTL DEF Spec

(* In every behaviour of the row, the engine reaches its audience.         *)
THEOREM AlwaysReachesAudience == Spec => []ReachesAudience
<1>1. TypeOK => ReachesAudience
  BY EveryRowReachesItsAudience DEF TypeOK, ReachesAudience
<1> QED
  BY <1>1, EvaluationTypes, PTL

(* Rollouts are sticky for every set of customers and every bucketing.     *)
THEOREM RolloutIsSticky == Spec => StickyRollout
<1> DEFINE Sticky ==
      OnlyRolloutChanged(row, row') =>
        /\ Percentage(row) <= Percentage(row') => Reached(row) \subseteq Reached(row')
        /\ Percentage(row') <= Percentage(row) => Reached(row') \subseteq Reached(row)
<1>1. TypeOK /\ TypeOK' => Sticky
  <2> SUFFICES ASSUME row \in Row, row' \in Row, OnlyRolloutChanged(row, row')
               PROVE  /\ Percentage(row) <= Percentage(row') =>
                           Reached(row) \subseteq Reached(row')
                      /\ Percentage(row') <= Percentage(row) =>
                           Reached(row') \subseteq Reached(row)
    BY DEF TypeOK
  <2>1. OnlyRolloutChanged(row', row)
    BY DEF OnlyRolloutChanged
  <2> QED
    BY <2>1, HigherReachesMore
<1> QED
  BY <1>1, EvaluationTypes, PTL DEF StickyRollout
=============================================================================
