----------------------------- MODULE FlagService -----------------------------
(***************************************************************************)
(* The three PATCH handlers of a flag's configuration (toggle, rollout,    *)
(* rule) running concurrently on the row of one flag in one environment.   *)
(*                                                                         *)
(* Each request is a worker thread with a database session of its own, and *)
(* every step below is what lies between two statements the database       *)
(* executes: PostgreSQL runs the transactions at READ COMMITTED, so a read *)
(* sees the latest committed version and an UPDATE waits for the row lock, *)
(* then applies its SET clause to the latest committed version.            *)
(*                                                                         *)
(*   idle -> begun -> loaded -> flushed -> committed -> reloaded           *)
(*        -> invalidated -> done                                           *)
(*                                                                         *)
(* and `refused' (a 4xx answer) or `failed' (a 5xx answer) on the way.     *)
(***************************************************************************)
EXTENDS ConfigRow

CONSTANTS
  Requests,   \* the requests that may be made
  Payloads,   \* the bodies they may carry
  Users,      \* the users who may make them
  Members,    \* the users who belong to the flag's organization
  Nobody      \* not a request: the row lock is free

ASSUME RequestsAssumption == Nobody \notin Requests
ASSUME PayloadsAssumption == Payloads \subseteq AllPayloads

VARIABLES
  row,        \* the committed version of the row
  audit,      \* the committed audit entries, in commit order
  lock,       \* the request whose transaction holds the row lock
  clock,      \* the number of transactions begun
  pc,         \* where each request is
  payload,    \* its body
  actor,      \* the user it acts for
  started,    \* now() of its transaction, the created_at of its entry
  before,     \* the row it loaded
  after,      \* the row object it flushed
  version,    \* the row version its UPDATE wrote, not yet committed
  seen,       \* the row it read again after its commit
  sent,       \* the events broadcast to the organization's dashboards
  history,    \* history variable: the committed versions, oldest first
  loadedAt    \* history variable: how many there were at each request's load

requestVars == <<payload, actor, started, before, after, version, seen, loadedAt>>
vars == <<row, audit, lock, clock, pc, requestVars, sent, history>>

Entry == [writer : Requests, before : Row, after : Row]
Event == [request : Requests, enabled : BOOLEAN,
          rollout_percentage : (0..100) \cup {NULL}]

Answered == {"refused", "failed", "done"}
Committed == {"committed", "reloaded", "invalidated", "done"}
InFlight == {"begun", "loaded", "flushed"}

Init ==
  /\ row = DefaultRow
  /\ audit = << >>
  /\ lock = Nobody
  /\ clock = 0
  /\ pc = [r \in Requests |-> "idle"]
  /\ payload = [r \in Requests |-> NULL]
  /\ actor = [r \in Requests |-> NULL]
  /\ started = [r \in Requests |-> 0]
  /\ before = [r \in Requests |-> DefaultRow]
  /\ after = [r \in Requests |-> DefaultRow]
  /\ version = [r \in Requests |-> DefaultRow]
  /\ seen = [r \in Requests |-> DefaultRow]
  /\ sent = {}
  /\ history = <<DefaultRow>>
  /\ loadedAt = [r \in Requests |-> 0]

-----------------------------------------------------------------------------
Move(r, from, to) ==
  /\ pc[r] = from
  /\ pc' = [pc EXCEPT ![r] = to]

(* The definitions named Bad... are never part of the specification.  Each  *)
(* is one handler step with a plausible bug, kept to check that the        *)
(* properties below can tell it from the real step that follows it.        *)

(* The request arrives and looks its user up: that query opens the         *)
(* transaction and fixes now().  update_rollout then checks its range.     *)
Begin(r, u, p) ==
  /\ Move(r, "idle", IF InRange(p) THEN "begun" ELSE "refused")
  /\ clock' = clock + 1
  /\ started' = [started EXCEPT ![r] = clock']
  /\ actor' = [actor EXCEPT ![r] = u]
  /\ payload' = [payload EXCEPT ![r] = p]
  /\ UNCHANGED <<row, audit, lock, before, after, version, seen, sent,
                 history, loadedAt>>

(* The flag and the membership are looked up, then the row is read and     *)
(* snapshot; update_rule checks its body only now.                         *)
Load(r) ==
  /\ actor[r] \in Members
  /\ Move(r, "begun", IF NotBlank(payload[r]) THEN "loaded" ELSE "refused")
  /\ before' = [before EXCEPT ![r] = row]
  /\ loadedAt' = [loadedAt EXCEPT ![r] = Len(history)]
  /\ UNCHANGED <<row, audit, lock, clock, payload, actor, started, after,
                 version, seen, sent, history>>

Refuse(r) ==
  /\ actor[r] \notin Members
  /\ Move(r, "begun", "refused")
  /\ UNCHANGED <<row, audit, lock, clock, requestVars, sent, history>>

(* An UPDATE that does not wait for the row lock. *)
BadFlushNoWait(r) ==
  LET obj == Assigned(before[r], payload[r])
  IN  /\ Move(r, "loaded", "flushed")
      /\ after' = [after EXCEPT ![r] = obj]
      /\ lock' = r
      /\ version' = [version EXCEPT ![r] = Updated(row, before[r], obj)]
      /\ UNCHANGED <<row, audit, clock, payload, actor, started, before, seen,
                     sent, history, loadedAt>>

(* An UPDATE whose SET clause names every column. *)
BadFlushAllColumns(r) ==
  LET obj  == Assigned(before[r], payload[r])
  IN  /\ Move(r, "loaded", "flushed")
      /\ after' = [after EXCEPT ![r] = obj]
      /\ lock = Nobody
      /\ lock' = r
      /\ version' = [version EXCEPT ![r] = obj]
      /\ UNCHANGED <<row, audit, clock, payload, actor, started, before, seen,
                     sent, history, loadedAt>>

(* A body whose nulls are skipped: clearing a rule leaves it as it was. *)
BadFlushSkipsNulls(r) ==
  LET obj  == [c \in Columns |->
                 IF c \in DOMAIN payload[r] /\ payload[r][c] # NULL
                 THEN payload[r][c] ELSE before[r][c]]
      noop == Changed(before[r], obj) = {}
  IN  /\ Move(r, "loaded", "flushed")
      /\ after' = [after EXCEPT ![r] = obj]
      /\ IF noop
         THEN UNCHANGED <<lock, version>>
         ELSE /\ lock = Nobody
              /\ lock' = r
              /\ version' = [version EXCEPT ![r] = Updated(row, before[r], obj)]
      /\ UNCHANGED <<row, audit, clock, payload, actor, started, before, seen,
                     sent, history, loadedAt>>

(* The body is assigned to the object in memory and the session flushed:   *)
(* an UPDATE of the changed columns, which waits for the row lock, and the *)
(* INSERT of the audit entry.  Without a change there is no UPDATE.        *)
Flush(r) ==
  LET obj  == Assigned(before[r], payload[r])
      noop == Changed(before[r], obj) = {}
  IN  /\ Move(r, "loaded", "flushed")
      /\ after' = [after EXCEPT ![r] = obj]
      /\ IF noop
         THEN UNCHANGED <<lock, version>>
         ELSE /\ lock = Nobody
              /\ lock' = r
              /\ version' = [version EXCEPT ![r] = Updated(row, before[r], obj)]
      /\ UNCHANGED <<row, audit, clock, payload, actor, started, before, seen,
                     sent, history, loadedAt>>

Release(r) == lock' = IF lock = r THEN Nobody ELSE lock

(* The `before' snapshot taken after the assignment. *)
BadCommit(r) ==
  /\ Move(r, "flushed", "committed")
  /\ row' = IF lock = r THEN version[r] ELSE row
  /\ audit' = Append(audit, [writer |-> r, before |-> after[r], after |-> after[r]])
  /\ history' = Append(history, row')
  /\ Release(r)
  /\ UNCHANGED <<clock, requestVars, sent>>

(* The commit makes the row version and the audit entry visible together   *)
(* and releases the lock.                                                  *)
Commit(r) ==
  /\ Move(r, "flushed", "committed")
  /\ row' = IF lock = r THEN version[r] ELSE row
  /\ audit' = Append(audit, [writer |-> r, before |-> before[r], after |-> after[r]])
  /\ history' = Append(history, row')
  /\ Release(r)
  /\ UNCHANGED <<clock, requestVars, sent>>

(* The object kept as it was flushed (expire_on_commit=False). *)
BadReload(r) ==
  /\ Move(r, "committed", "reloaded")
  /\ seen' = [seen EXCEPT ![r] = after[r]]
  /\ UNCHANGED <<row, audit, lock, clock, payload, actor, started, before,
                 after, version, sent, history, loadedAt>>

(* The commit expired the session's objects: the flag and the row are read *)
(* again, in a new transaction.                                            *)
Reload(r) ==
  /\ Move(r, "committed", "reloaded")
  /\ seen' = [seen EXCEPT ![r] = row]
  /\ UNCHANGED <<row, audit, lock, clock, payload, actor, started, before,
                 after, version, sent, history, loadedAt>>

(* The cache entries of the flag are dropped (their effect is in           *)
(* EvaluationCache; here it is the step's place in the order that counts). *)
Invalidate(r) ==
  /\ Move(r, "reloaded", "invalidated")
  /\ UNCHANGED <<row, audit, lock, clock, requestVars, sent, history>>

(* The event carries the settings as they were read again.                 *)
Broadcast(r) ==
  /\ Move(r, "invalidated", "done")
  /\ sent' = sent \cup {[request |-> r, enabled |-> seen[r].enabled,
                         rollout_percentage |-> seen[r].rollout_percentage]}
  /\ UNCHANGED <<row, audit, lock, clock, requestVars, history>>

(* A failed session that is neither rolled back nor closed. *)
BadFail(r) ==
  /\ pc[r] \in InFlight \cup {"committed", "invalidated"}
  /\ pc' = [pc EXCEPT ![r] = "failed"]
  /\ UNCHANGED <<row, audit, lock, clock, requestVars, sent, history>>

(* A statement fails or the connection is lost.  Before the commit, the    *)
(* session is rolled back, which frees the lock; after it the change       *)
(* stands, and what is left of the handler is skipped.                     *)
Fail(r) ==
  /\ pc[r] \in InFlight \cup {"committed", "invalidated"}
  /\ pc' = [pc EXCEPT ![r] = "failed"]
  /\ Release(r)
  /\ UNCHANGED <<row, audit, clock, requestVars, sent, history>>

Step(r) ==
  \/ Load(r) \/ Refuse(r) \/ Flush(r) \/ Commit(r)
  \/ Reload(r) \/ Invalidate(r) \/ Broadcast(r)

(* Nothing is left to do: not a deadlock. *)
Finished ==
  /\ \A r \in Requests : pc[r] \in Answered
  /\ UNCHANGED vars

Next ==
  \/ \E r \in Requests, u \in Users, p \in Payloads : Begin(r, u, p)
  \/ \E r \in Requests : Step(r) \/ Fail(r)
  \/ Finished

Spec == Init /\ [][Next]_vars

(* The thread pool runs every worker and the database answers: a request   *)
(* that can take its next step takes it.  Arrivals and failures are free.  *)
FairSpec == Spec /\ \A r \in Requests : WF_vars(Step(r))

-----------------------------------------------------------------------------
(* Types. *)

Statuses == {"idle"} \cup InFlight \cup Committed \cup Answered

TypeOK ==
  /\ row \in Row
  /\ audit \in Seq(Entry)
  /\ lock \in Requests \cup {Nobody}
  /\ clock \in Nat
  /\ pc \in [Requests -> Statuses]
  /\ payload \in [Requests -> Payloads \cup {NULL}]
  /\ actor \in [Requests -> Users \cup {NULL}]
  /\ started \in [Requests -> Nat]
  /\ before \in [Requests -> Row]
  /\ after \in [Requests -> Row]
  /\ version \in [Requests -> Row]
  /\ seen \in [Requests -> Row]
  /\ sent \in SUBSET Event
  /\ history \in Seq(Row)
  /\ loadedAt \in [Requests -> Nat]

-----------------------------------------------------------------------------
(* Safety. *)

Register == INSTANCE ConfigRegister WITH Writers <- Requests

(* The audit log in commit order accounts for every column of the row, no  *)
(* matter how the handlers' transactions overlap or fail.                  *)
LogExplainsRow == Explains(audit, row)

(* The handlers implement the configuration register: a change and its     *)
(* entry appear in one step, once per request, and `before' was a version  *)
(* of the row.                                                             *)
ImplementsRegister == Register!Spec

(* An entry's `before' is the version its request loaded, and when no      *)
(* other request committed between its load and its commit, its `after' is *)
(* the version its commit made.                                            *)
AuditTruthfulUnlessOverlapped ==
  \A i \in 1..Len(audit) :
    LET e  == audit[i]
        at == loadedAt[e.writer]
    IN  /\ at \in 1..i
        /\ e.before = history[at]
        /\ at = i => e.after = history[i + 1]

(* The request that is last to set a column, and loaded the row after      *)
(* every earlier request that set it had committed, gets its way: the      *)
(* column has the value it asked for, a null included.                     *)
LastWriterWins ==
  LET body(i) == payload[audit[i].writer]
  IN  \A i \in 1..Len(audit) : \A c \in DOMAIN body(i) :
        ( /\ \A j \in (i + 1)..Len(audit) : c \notin DOMAIN body(j)
          /\ \A j \in 1..(i - 1) :
               c \in DOMAIN body(j) => j < loadedAt[audit[i].writer] )
        => row[c] = body(i)[c]

(* What a dashboard is told was the committed state at some moment after   *)
(* the commit the event announces: never a mix no commit ever made.        *)
NoPhantomEvent ==
  \A e \in sent : \E i \in 1..Len(audit) :
    /\ audit[i].writer = e.request
    /\ \E k \in (i + 1)..Len(history) :
         /\ history[k].enabled = e.enabled
         /\ history[k].rollout_percentage = e.rollout_percentage

-----------------------------------------------------------------------------
(* Liveness. *)

(* A request that has begun is answered: nobody waits for a row lock for   *)
(* ever, although its holder may fail.                                     *)
RequestAnswered ==
  \A r \in Requests : pc[r] = "begun" ~> pc[r] \in Answered

-----------------------------------------------------------------------------
(* What the documentation says, and overlapping requests refute. *)

(* update_rule: "Set or clear the single targeting rule", one rule or none *)
(* at all.                                                                 *)
RuleSetOrClear == RuleWellFormed(row)
=============================================================================
