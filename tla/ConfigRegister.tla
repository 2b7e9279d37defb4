--------------------------- MODULE ConfigRegister ---------------------------
(***************************************************************************)
(* What the flag service promises of one configuration row and its audit   *)
(* log, without requests, transactions, locks or failures: a change and    *)
(* its audit entry appear together, each writer makes at most one, the     *)
(* `before' an entry records is a version the row really had, its `after'  *)
(* is that version with one valid body assigned to it, and the change      *)
(* touches exactly the columns the entry shows as changed.                 *)
(*                                                                         *)
(* FlagService implements this specification.                              *)
(***************************************************************************)
EXTENDS ConfigRow

CONSTANT Writers

VARIABLES
  history,   \* the committed versions of the row, oldest first
  audit      \* the audit entries in the order they were committed

vars == <<history, audit>>

Entry == [writer : Writers, before : Row, after : Row]

Current == history[Len(history)]

Init ==
  /\ history = <<DefaultRow>>
  /\ audit = << >>

Record(w) ==
  /\ \A i \in 1..Len(audit) : audit[i].writer # w
  /\ \E k \in 1..Len(history), p \in ValidPayloads :
       LET before == history[k]
           after  == Assigned(before, p)
       IN  /\ audit' = Append(audit, [writer |-> w, before |-> before, after |-> after])
           /\ history' = Append(history, Updated(Current, before, after))

Next == \E w \in Writers : Record(w)

Spec == Init /\ [][Next]_vars

-----------------------------------------------------------------------------
TypeOK ==
  /\ history \in Seq(Row)
  /\ history # << >>
  /\ audit \in Seq(Entry)
  /\ Len(history) = Len(audit) + 1

(* The audit log, in commit order, accounts for every column of the row as *)
(* it is now (README: the log holds the state before and after a change).  *)
LogExplainsRow == Explains(audit, Current)
=============================================================================
