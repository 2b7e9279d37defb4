------------------------------ MODULE ConfigRow ------------------------------
(***************************************************************************)
(* One row of the table flag_environment_config: the settings of one flag  *)
(* in one environment, what a PATCH body asks of it, and what the UPDATE   *)
(* statement that SQLAlchemy derives from a request does to it.            *)
(*                                                                         *)
(* A row is a record, a function from column names.  A request's body is    *)
(* the part of a row it assigns: a function from some of the columns.      *)
(***************************************************************************)
EXTENDS Integers, Sequences

CONSTANTS
  NULL,         \* the SQL NULL
  Blank,        \* a rule attribute or value that is empty once stripped
  Strings,      \* the other rule attributes and values
  Percentages   \* the integers a rollout request may carry

ASSUME NullAssumption ==
  /\ NULL \notin Strings \cup {Blank} \cup Int \cup BOOLEAN
  /\ Blank \notin Strings

ASSUME PercentagesAssumption == Percentages \subseteq Int

RuleColumns == {"rule_attribute", "rule_operator", "rule_value"}
Columns == {"enabled", "rollout_percentage"} \cup RuleColumns

(* The rows the table's types and constraints allow. *)
Row == [enabled            : BOOLEAN,
        rollout_percentage : (0..100) \cup {NULL},
        rule_attribute     : Strings \cup {NULL},
        rule_operator      : {"equals", NULL},
        rule_value         : Strings \cup {NULL}]

(* The row create_flag inserts for each environment. *)
DefaultRow == [enabled            |-> FALSE,
               rollout_percentage |-> NULL,
               rule_attribute     |-> NULL,
               rule_operator      |-> NULL,
               rule_value         |-> NULL]

-----------------------------------------------------------------------------
(* The bodies of the three PATCH handlers. *)

Toggle(b)        == [enabled |-> b]
Rollout(p)       == [rollout_percentage |-> p]
SetRule(attr, v) == [rule_attribute |-> attr, rule_operator |-> "equals", rule_value |-> v]
ClearRule        == [rule_attribute |-> NULL, rule_operator |-> NULL, rule_value |-> NULL]

AllPayloads ==
  {Toggle(b) : b \in BOOLEAN}
    \cup {Rollout(p) : p \in Percentages}
    \cup {SetRule(attr, v) : attr, v \in Strings \cup {Blank}}
    \cup {ClearRule}

(* update_rollout refuses a percentage outside 0..100 before any query. *)
InRange(p) ==
  "rollout_percentage" \in DOMAIN p => p.rollout_percentage \in 0..100

(* update_rule refuses a blank attribute or value after reading the row. *)
NotBlank(p) ==
  \A c \in DOMAIN p : p[c] # Blank

ValidPayloads == {p \in AllPayloads : InRange(p) /\ NotBlank(p)}

(* The row object in memory once a body has been assigned to it. *)
Assigned(base, p) ==
  [c \in Columns |-> IF c \in DOMAIN p THEN p[c] ELSE base[c]]

(* The columns the object's attribute history reports as changed: only     *)
(* these are in the SET clause, and with none of them no UPDATE is sent.   *)
Changed(before, after) == {c \in Columns : before[c] # after[c]}

(* What that UPDATE makes of the row it finds, which need not be `before'. *)
Updated(row, before, after) ==
  [c \in Columns |-> IF c \in Changed(before, after) THEN after[c] ELSE row[c]]

-----------------------------------------------------------------------------
(* Replaying the entries of `log' in order, each setting the columns it    *)
(* shows as changed, leads from the default row to `row'.                  *)
Explains(log, row) ==
  \A c \in Columns :
    \/ /\ \A i \in 1..Len(log) : log[i].before[c] = log[i].after[c]
       /\ row[c] = DefaultRow[c]
    \/ \E i \in 1..Len(log) :
         /\ log[i].before[c] # log[i].after[c]
         /\ row[c] = log[i].after[c]
         /\ \A j \in 1..Len(log) : j > i => log[j].before[c] = log[j].after[c]

(* A rule is all there or not there at all. *)
RuleWellFormed(row) ==
  \/ \A c \in RuleColumns : row[c] = NULL
  \/ \A c \in RuleColumns : row[c] # NULL
=============================================================================
