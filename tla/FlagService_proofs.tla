------------------------- MODULE FlagService_proofs -------------------------
(***************************************************************************)
(* What holds of the PATCH handlers for any number of requests, bodies and *)
(* users.  The inductive invariant adds to the properties of FlagService   *)
(* what they rest on: the version the lock holder wrote is its change to   *)
(* the row as it is committed now, a flush without the lock changed        *)
(* nothing, and only requests that committed have an entry in the log.     *)
(***************************************************************************)
EXTENDS FlagService, TLAPS

(***************************************************************************)
(* Rows and bodies.                                                        *)
(***************************************************************************)

(* What an UPDATE leaves, and a body makes, is a row again.                *)
LEMMA UpdatedIsRow ==
  ASSUME NEW old \in Row, NEW b \in Row, NEW a \in Row
  PROVE  Updated(old, b, a) \in Row
  BY DEF Updated, Changed, Row, Columns, RuleColumns

LEMMA AssignedIsRow ==
  ASSUME NEW base \in Row, NEW p \in ValidPayloads
  PROVE  Assigned(base, p) \in Row
  BY DEF Assigned, ValidPayloads, AllPayloads, InRange, NotBlank, Row, Columns,
         RuleColumns, Toggle, Rollout, SetRule, ClearRule

(* An UPDATE that finds the version its request loaded makes it the object *)
(* the request flushed.                                                    *)
LEMMA UpdatedOwnVersion ==
  ASSUME NEW b \in Row, NEW a \in Row
  PROVE  Updated(b, b, a) = a
  BY DEF Updated, Changed, Row, Columns, RuleColumns

(* An UPDATE of nothing changes nothing. *)
LEMMA UpdatedNothing ==
  ASSUME NEW old \in Row, NEW b \in Row, NEW a \in Row, Changed(b, a) = {}
  PROVE  Updated(old, b, a) = old
  BY DEF Updated, Changed, Row, Columns, RuleColumns

(* A log that explains a row, with one more entry, explains the row as an  *)
(* UPDATE of that entry's changed columns leaves it.                       *)
LEMMA ExplainsAppend ==
  ASSUME NEW E, NEW log \in Seq(E), NEW e \in E, NEW old, Explains(log, old)
  PROVE  Explains(Append(log, e), Updated(old, e.before, e.after))
<1> DEFINE new == Append(log, e)
           row2 == Updated(old, e.before, e.after)
<1>1. /\ new \in Seq(E) /\ Len(new) = Len(log) + 1 /\ new[Len(log) + 1] = e
      /\ \A i \in 1..Len(log) : new[i] = log[i]
      /\ Len(log) \in Nat
  OBVIOUS
<1>2. SUFFICES ASSUME NEW c \in Columns
               PROVE  \/ /\ \A i \in 1..Len(new) : new[i].before[c] = new[i].after[c]
                         /\ row2[c] = DefaultRow[c]
                      \/ \E i \in 1..Len(new) :
                           /\ new[i].before[c] # new[i].after[c]
                           /\ row2[c] = new[i].after[c]
                           /\ \A j \in 1..Len(new) :
                                j > i => new[j].before[c] = new[j].after[c]
  BY DEF Explains
<1>3. CASE e.before[c] # e.after[c]
  <2>1. row2[c] = e.after[c]
    BY <1>3 DEF Updated, Changed
  <2> QED
    BY <1>1, <1>3, <2>1
<1>4. CASE e.before[c] = e.after[c]
  <2>1. row2[c] = old[c]
    BY <1>4 DEF Updated, Changed
  <2>2. CASE /\ \A i \in 1..Len(log) : log[i].before[c] = log[i].after[c]
             /\ old[c] = DefaultRow[c]
    BY <1>1, <1>4, <2>1, <2>2
  <2>3. CASE \E i \in 1..Len(log) :
               /\ log[i].before[c] # log[i].after[c]
               /\ old[c] = log[i].after[c]
               /\ \A j \in 1..Len(log) : j > i => log[j].before[c] = log[j].after[c]
    <3>1. PICK i \in 1..Len(log) :
            /\ log[i].before[c] # log[i].after[c]
            /\ old[c] = log[i].after[c]
            /\ \A j \in 1..Len(log) : j > i => log[j].before[c] = log[j].after[c]
      BY <2>3
    <3>2. i \in 1..Len(new) /\ new[i] = log[i]
      BY <1>1
    <3>3. \A j \in 1..Len(new) : j > i => new[j].before[c] = new[j].after[c]
      <4>1. SUFFICES ASSUME NEW j \in 1..Len(new), j > i
                     PROVE  new[j].before[c] = new[j].after[c]
        OBVIOUS
      <4>2. CASE j = Len(log) + 1
        BY <1>1, <1>4, <4>2
      <4>3. CASE j \in 1..Len(log)
        BY <1>1, <3>1, <4>1, <4>3
      <4> QED
        BY <1>1, <4>2, <4>3
    <3> QED
      BY <2>1, <3>1, <3>2, <3>3
  <2> QED
    BY <2>2, <2>3 DEF Explains
<1> QED
  BY <1>3, <1>4

-----------------------------------------------------------------------------
(* The inductive invariant. *)

(* The row is the last committed version, and each commit made one entry. *)
HistoryInv ==
  /\ Len(history) = Len(audit) + 1
  /\ row = history[Len(history)]

(* A request on its way holds a valid body and a version it really loaded. *)
RequestInv ==
  \A r \in Requests :
    /\ pc[r] \in InFlight => payload[r] \in AllPayloads /\ InRange(payload[r])
    /\ pc[r] \in {"loaded", "flushed"} =>
         /\ NotBlank(payload[r])
         /\ loadedAt[r] \in 1..Len(history)
         /\ before[r] = history[loadedAt[r]]
    /\ pc[r] = "flushed" => after[r] = Assigned(before[r], payload[r])

(* The holder of the row lock has written the next version of the row; a   *)
(* request that flushed without it had nothing to change.                  *)
LockInv ==
  \A r \in Requests :
    /\ lock = r => /\ pc[r] = "flushed"
                   /\ version[r] = Updated(row, before[r], after[r])
    /\ pc[r] = "flushed" /\ lock # r => Changed(before[r], after[r]) = {}

(* Only requests that committed have entries. *)
WriterInv ==
  \A i \in 1..Len(audit) : pc[audit[i].writer] \in Committed \cup {"failed"}

(* A request that committed has an entry, and what it read again was       *)
(* committed no earlier than its own change.                               *)
SeenInv ==
  \A r \in Requests :
    /\ pc[r] = "committed" => \E i \in 1..Len(audit) : audit[i].writer = r
    /\ pc[r] \in {"reloaded", "invalidated"} =>
         \E i \in 1..Len(audit) :
           /\ audit[i].writer = r
           /\ \E k \in (i + 1)..Len(history) : seen[r] = history[k]

IInv ==
  /\ TypeOK
  /\ HistoryInv
  /\ RequestInv
  /\ LockInv
  /\ WriterInv
  /\ SeenInv
  /\ LogExplainsRow
  /\ AuditTruthfulUnlessOverlapped
  /\ NoPhantomEvent

-----------------------------------------------------------------------------
LEMMA ServiceInit == Init => IInv
<1> SUFFICES ASSUME Init PROVE IInv
  OBVIOUS
<1>1. DefaultRow \in Row
  BY DEF DefaultRow, Row
<1>2. TypeOK
  BY <1>1 DEF Init, TypeOK, Statuses
<1>3. HistoryInv /\ WriterInv /\ LogExplainsRow /\ AuditTruthfulUnlessOverlapped
  BY DEF Init, HistoryInv, WriterInv, LogExplainsRow, Explains,
         AuditTruthfulUnlessOverlapped
<1>4. RequestInv /\ LockInv /\ SeenInv /\ NoPhantomEvent
  BY RequestsAssumption
     DEF Init, RequestInv, LockInv, SeenInv, NoPhantomEvent, InFlight
<1> QED
  BY <1>2, <1>3, <1>4 DEF IInv

-----------------------------------------------------------------------------
(* Facts about the state the steps start from. *)

LEMMA StateFacts ==
  ASSUME IInv
  PROVE  /\ row \in Row
         /\ audit \in Seq(Entry) /\ history \in Seq(Row)
         /\ Len(audit) \in Nat /\ Len(history) = Len(audit) + 1
         /\ row = history[Len(history)]
         /\ \A r \in Requests :
              /\ before[r] \in Row /\ after[r] \in Row
              /\ version[r] \in Row /\ seen[r] \in Row
              /\ pc[r] \in {"loaded", "flushed"} => payload[r] \in ValidPayloads
         /\ \A i \in 1..Len(audit) : audit[i] \in Entry /\ audit[i].writer \in Requests
<1>1. /\ row \in Row
      /\ audit \in Seq(Entry) /\ history \in Seq(Row)
      /\ Len(audit) \in Nat /\ Len(history) = Len(audit) + 1
      /\ row = history[Len(history)]
  BY DEF IInv, TypeOK, HistoryInv
<1>2. ASSUME NEW r \in Requests
      PROVE  /\ before[r] \in Row /\ after[r] \in Row
             /\ version[r] \in Row /\ seen[r] \in Row
  BY DEF IInv, TypeOK
<1>3. ASSUME NEW r \in Requests, pc[r] \in {"loaded", "flushed"}
      PROVE  payload[r] \in ValidPayloads
  BY <1>3 DEF IInv, RequestInv, InFlight, ValidPayloads
<1>4. ASSUME NEW i \in 1..Len(audit)
      PROVE  audit[i] \in Entry /\ audit[i].writer \in Requests
  <2>1. audit[i] \in Entry
    BY <1>1
  <2> QED
    BY <2>1 DEF Entry
<1> QED
  BY <1>1, <1>2, <1>3, <1>4

(* What a commit makes of the row: the change its entry shows. *)
LEMMA CommitFacts ==
  ASSUME IInv, NEW r \in Requests, Commit(r)
  PROVE  LET e == [writer |-> r, before |-> before[r], after |-> after[r]]
         IN  /\ e \in Entry
             /\ row' = Updated(row, before[r], after[r])
             /\ row' \in Row
             /\ audit' = Append(audit, e) /\ audit' \in Seq(Entry)
             /\ history' = Append(history, row') /\ history' \in Seq(Row)
             /\ Len(audit') = Len(audit) + 1
             /\ Len(history') = Len(history) + 1
             /\ \A i \in 1..Len(audit) : audit'[i] = audit[i]
             /\ \A i \in 1..Len(history) : history'[i] = history[i]
             /\ audit'[Len(audit) + 1] = e
             /\ history'[Len(history) + 1] = row'
<1> DEFINE e == [writer |-> r, before |-> before[r], after |-> after[r]]
<1>1. e \in Entry
  BY StateFacts DEF Entry
<1>2. row' = Updated(row, before[r], after[r])
  <2>1. CASE lock = r
    BY <2>1 DEF Commit, IInv, LockInv
  <2>2. CASE lock # r
    <3>1. Changed(before[r], after[r]) = {}
      BY <2>2 DEF Commit, Move, IInv, LockInv
    <3> QED
      BY <2>2, <3>1, StateFacts, UpdatedNothing DEF Commit
  <2> QED
    BY <2>1, <2>2
<1>3. row' \in Row
  BY <1>2, StateFacts, UpdatedIsRow
<1>4. audit' = Append(audit, e) /\ history' = Append(history, row')
  BY DEF Commit
<1> QED
  BY <1>1, <1>2, <1>3, <1>4, StateFacts

-----------------------------------------------------------------------------
LEMMA TypeStep == IInv /\ [Next]_vars => TypeOK'
<1> SUFFICES ASSUME IInv, [Next]_vars PROVE TypeOK'
  OBVIOUS
<1> USE DEF TypeOK, Statuses, InFlight, Committed, Answered
<1>1. ASSUME NEW r \in Requests, NEW u \in Users, NEW p \in Payloads, Begin(r, u, p)
      PROVE  TypeOK'
  BY <1>1 DEF Begin, Move, IInv
<1>2. ASSUME NEW r \in Requests, Load(r) PROVE TypeOK'
  <2>1. Len(history) \in Nat
    BY StateFacts
  <2> QED
    BY <1>2, <2>1 DEF Load, Move, IInv
<1>3. ASSUME NEW r \in Requests, Refuse(r) PROVE TypeOK'
  BY <1>3 DEF Refuse, Move, IInv, requestVars
<1>4. ASSUME NEW r \in Requests, Flush(r) PROVE TypeOK'
  <2>1. Assigned(before[r], payload[r]) \in Row
    BY <1>4, StateFacts, AssignedIsRow DEF Flush, Move
  <2>2. Updated(row, before[r], Assigned(before[r], payload[r])) \in Row
    BY <2>1, StateFacts, UpdatedIsRow
  <2> QED
    BY <1>4, <2>1, <2>2 DEF Flush, Move, IInv
<1>5. ASSUME NEW r \in Requests, Commit(r) PROVE TypeOK'
  <2>1. row' \in Row /\ audit' \in Seq(Entry) /\ history' \in Seq(Row)
    BY <1>5, CommitFacts
  <2> QED
    BY <1>5, <2>1 DEF Commit, Move, Release, IInv, requestVars
<1>6. ASSUME NEW r \in Requests, Reload(r) PROVE TypeOK'
  BY <1>6 DEF Reload, Move, IInv
<1>7. ASSUME NEW r \in Requests, Invalidate(r) PROVE TypeOK'
  BY <1>7 DEF Invalidate, Move, IInv, requestVars
<1>8. ASSUME NEW r \in Requests, Broadcast(r) PROVE TypeOK'
  <2> DEFINE e == [request |-> r, enabled |-> seen[r].enabled,
                   rollout_percentage |-> seen[r].rollout_percentage]
  <2>1. seen[r].enabled \in BOOLEAN /\ seen[r].rollout_percentage \in (0..100) \cup {NULL}
    BY StateFacts DEF Row
  <2>2. e \in Event
    BY <2>1 DEF Event
  <2>3. sent' \in SUBSET Event
    <3>1. sent' = sent \cup {e} /\ sent \in SUBSET Event
      BY <1>8 DEF Broadcast, IInv
    <3> HIDE DEF e
    <3> QED
      BY <2>2, <3>1
  <2>4. pc' \in [Requests -> Statuses]
    BY <1>8 DEF Broadcast, Move, IInv
  <2> QED
    BY <1>8, <2>3, <2>4 DEF Broadcast, IInv, requestVars
<1>9. ASSUME NEW r \in Requests, Fail(r) PROVE TypeOK'
  BY <1>9 DEF Fail, Release, IInv, requestVars
<1>10. CASE UNCHANGED vars
  BY <1>10 DEF IInv, vars, requestVars
<1> QED
  BY <1>1, <1>2, <1>3, <1>4, <1>5, <1>6, <1>7, <1>8, <1>9, <1>10
     DEF Next, Step, Finished

-----------------------------------------------------------------------------
(* A step other than a commit leaves the row, its history and its log alone. *)
LEMMA OnlyCommitsChange ==
  ASSUME [Next]_vars
  PROVE  \/ \E r \in Requests : Commit(r)
         \/ UNCHANGED <<row, audit, history>>
BY DEF Next, Step, Finished, vars, requestVars, Begin, Load, Refuse, Flush,
       Reload, Invalidate, Broadcast, Fail

LEMMA HistoryStep == IInv /\ [Next]_vars => HistoryInv'
<1> SUFFICES ASSUME IInv, [Next]_vars PROVE HistoryInv'
  OBVIOUS
<1>1. ASSUME NEW r \in Requests, Commit(r) PROVE HistoryInv'
  BY <1>1, CommitFacts, StateFacts DEF HistoryInv
<1>2. CASE UNCHANGED <<row, audit, history>>
  BY <1>2 DEF IInv, HistoryInv
<1> QED
  BY <1>1, <1>2, OnlyCommitsChange

LEMMA LogStep == IInv /\ [Next]_vars => LogExplainsRow'
<1> SUFFICES ASSUME IInv, [Next]_vars PROVE LogExplainsRow'
  OBVIOUS
<1>1. ASSUME NEW r \in Requests, Commit(r) PROVE LogExplainsRow'
  <2> DEFINE e == [writer |-> r, before |-> before[r], after |-> after[r]]
  <2>1. e \in Entry /\ audit' = Append(audit, e)
        /\ row' = Updated(row, e.before, e.after)
    BY <1>1, CommitFacts
  <2>2. Explains(Append(audit, e), Updated(row, e.before, e.after))
    BY <2>1, StateFacts, ExplainsAppend DEF IInv, LogExplainsRow
  <2> QED
    BY <2>1, <2>2 DEF LogExplainsRow
<1>2. CASE UNCHANGED <<row, audit, history>>
  BY <1>2 DEF IInv, LogExplainsRow, Explains
<1> QED
  BY <1>1, <1>2, OnlyCommitsChange

-----------------------------------------------------------------------------
LEMMA RequestStep == IInv /\ [Next]_vars => RequestInv'
<1> SUFFICES ASSUME IInv, [Next]_vars PROVE RequestInv'
  OBVIOUS
<1> USE DEF RequestInv, InFlight
<1>1. ASSUME NEW r \in Requests, NEW u \in Users, NEW p \in Payloads, Begin(r, u, p)
      PROVE  RequestInv'
  BY <1>1, PayloadsAssumption DEF Begin, Move, IInv, TypeOK
<1>2. ASSUME NEW r \in Requests, Load(r) PROVE RequestInv'
  <2>1. Len(history) \in 1..Len(history) /\ row = history[Len(history)]
    BY StateFacts
  <2> QED
    BY <1>2, <2>1 DEF Load, Move, IInv, TypeOK
<1>3. ASSUME NEW r \in Requests, Refuse(r) PROVE RequestInv'
  BY <1>3 DEF Refuse, Move, IInv, TypeOK, requestVars
<1>4. ASSUME NEW r \in Requests, Flush(r) PROVE RequestInv'
  BY <1>4 DEF Flush, Move, IInv, TypeOK
<1>5. ASSUME NEW r \in Requests, Commit(r) PROVE RequestInv'
  <2>1. /\ Len(history') = Len(history) + 1
        /\ \A i \in 1..Len(history) : history'[i] = history[i]
    BY <1>5, CommitFacts
  <2>2. Len(history) \in Nat
    BY StateFacts
  <2> QED
    BY <1>5, <2>1, <2>2 DEF Commit, Move, IInv, TypeOK, requestVars
<1>6. ASSUME NEW r \in Requests, Reload(r) PROVE RequestInv'
  BY <1>6 DEF Reload, Move, IInv, TypeOK
<1>7. ASSUME NEW r \in Requests, Invalidate(r) \/ Broadcast(r) \/ Fail(r)
      PROVE  RequestInv'
  BY <1>7 DEF Invalidate, Broadcast, Fail, Move, IInv, TypeOK, requestVars
<1>8. CASE UNCHANGED vars
  BY <1>8 DEF IInv, vars, requestVars
<1> QED
  BY <1>1, <1>2, <1>3, <1>4, <1>5, <1>6, <1>7, <1>8 DEF Next, Step, Finished

-----------------------------------------------------------------------------
LEMMA LockStep == IInv /\ [Next]_vars => LockInv'
<1> SUFFICES ASSUME IInv, [Next]_vars PROVE LockInv'
  OBVIOUS
<1> USE DEF LockInv
<1>1. ASSUME NEW r \in Requests, NEW u \in Users, NEW p \in Payloads, Begin(r, u, p)
      PROVE  LockInv'
  BY <1>1 DEF Begin, Move, IInv, TypeOK
<1>2. ASSUME NEW r \in Requests, Load(r) PROVE LockInv'
  BY <1>2 DEF Load, Move, IInv, TypeOK
<1>3. ASSUME NEW r \in Requests, Refuse(r) PROVE LockInv'
  BY <1>3 DEF Refuse, Move, IInv, TypeOK, requestVars
<1>4. ASSUME NEW r \in Requests, Flush(r) PROVE LockInv'
  <2> DEFINE obj == Assigned(before[r], payload[r])
  <2>1. after' = [after EXCEPT ![r] = obj]
        /\ pc' = [pc EXCEPT ![r] = "flushed"] /\ pc[r] = "loaded"
        /\ UNCHANGED <<row, before>>
    BY <1>4 DEF Flush, Move
  <2>2. CASE Changed(before[r], obj) = {}
    <3>1. UNCHANGED <<lock, version>>
      BY <1>4, <2>2 DEF Flush
    <3> HIDE DEF obj
    <3> QED
      BY <2>1, <2>2, <3>1 DEF IInv, TypeOK
  <2>3. CASE Changed(before[r], obj) # {}
    <3>1. lock = Nobody /\ lock' = r
          /\ version' = [version EXCEPT ![r] = Updated(row, before[r], obj)]
      BY <1>4, <2>3 DEF Flush
    <3> HIDE DEF obj
    <3> QED
      BY <2>1, <3>1, RequestsAssumption DEF IInv, TypeOK
  <2> QED
    BY <2>2, <2>3
<1>5. ASSUME NEW r \in Requests, Commit(r) PROVE LockInv'
  <2>1. CASE lock = r
    BY <1>5, <2>1, RequestsAssumption
       DEF Commit, Move, Release, IInv, TypeOK, requestVars
  <2>2. CASE lock # r
    <3>1. row' = row
      BY <1>5, <2>2 DEF Commit
    <3> QED
      BY <1>5, <2>2, <3>1 DEF Commit, Move, Release, IInv, TypeOK, requestVars
  <2> QED
    BY <2>1, <2>2
<1>6. ASSUME NEW r \in Requests, Reload(r) PROVE LockInv'
  BY <1>6 DEF Reload, Move, IInv, TypeOK
<1>7. ASSUME NEW r \in Requests, Invalidate(r) \/ Broadcast(r) PROVE LockInv'
  BY <1>7 DEF Invalidate, Broadcast, Move, IInv, TypeOK, requestVars
<1>8. ASSUME NEW r \in Requests, Fail(r) PROVE LockInv'
  BY <1>8, RequestsAssumption DEF Fail, Release, IInv, TypeOK, requestVars
<1>9. CASE UNCHANGED vars
  BY <1>9 DEF IInv, vars, requestVars
<1> QED
  BY <1>1, <1>2, <1>3, <1>4, <1>5, <1>6, <1>7, <1>8, <1>9 DEF Next, Step, Finished

-----------------------------------------------------------------------------
LEMMA WriterStep == IInv /\ [Next]_vars => WriterInv'
<1> SUFFICES ASSUME IInv, [Next]_vars PROVE WriterInv'
  OBVIOUS
<1> USE DEF WriterInv, Committed, InFlight
<1>1. ASSUME NEW r \in Requests, Commit(r) PROVE WriterInv'
  <2> DEFINE e == [writer |-> r, before |-> before[r], after |-> after[r]]
  <2>1. /\ Len(audit') = Len(audit) + 1
        /\ \A i \in 1..Len(audit) : audit'[i] = audit[i]
        /\ audit'[Len(audit) + 1] = e
    BY <1>1, CommitFacts
  <2>2. pc' = [pc EXCEPT ![r] = "committed"]
    BY <1>1 DEF Commit, Move
  <2>3. SUFFICES ASSUME NEW i \in 1..Len(audit')
                 PROVE  pc'[audit'[i].writer] \in Committed \cup {"failed"}
    OBVIOUS
  <2>4. CASE i = Len(audit) + 1
    BY <2>1, <2>2, <2>4 DEF IInv, TypeOK
  <2>5. CASE i \in 1..Len(audit)
    BY <2>1, <2>2, <2>5, StateFacts DEF IInv, TypeOK
  <2> QED
    BY <2>1, <2>4, <2>5, StateFacts
<1>2. CASE UNCHANGED audit
  <2>1. SUFFICES ASSUME NEW i \in 1..Len(audit)
                 PROVE  pc'[audit[i].writer] \in Committed \cup {"failed"}
    BY <1>2
  <2>2. /\ audit[i].writer \in Requests
        /\ pc[audit[i].writer] \in Committed \cup {"failed"}
    BY StateFacts DEF IInv
  <2> HIDE DEF WriterInv
  <2>3. SUFFICES ASSUME NEW r \in Requests, pc[r] \in Committed \cup {"failed"}
                 PROVE  pc'[r] \in Committed \cup {"failed"}
    BY <2>2
  <2>4. pc \in [Requests -> Statuses]
    BY DEF IInv, TypeOK
  <2>5. ASSUME NEW q \in Requests, Reload(q) \/ Invalidate(q) \/ Broadcast(q) \/ Fail(q)
        PROVE  pc'[r] \in Committed \cup {"failed"}
    BY <2>3, <2>4, <2>5 DEF Reload, Invalidate, Broadcast, Fail, Move
  <2>6. ASSUME NEW q \in Requests, Load(q) \/ Refuse(q) \/ Flush(q) \/ Commit(q)
        PROVE  pc'[r] \in Committed \cup {"failed"}
    BY <2>3, <2>4, <2>6 DEF Load, Refuse, Flush, Commit, Move
  <2>7. ASSUME NEW q \in Requests, NEW u \in Users, NEW p \in Payloads, Begin(q, u, p)
        PROVE  pc'[r] \in Committed \cup {"failed"}
    BY <2>3, <2>4, <2>7 DEF Begin, Move
  <2>8. CASE UNCHANGED vars
    BY <2>3, <2>8 DEF vars
  <2> QED
    BY <2>5, <2>6, <2>7, <2>8 DEF Next, Step, Finished
<1> QED
  BY <1>1, <1>2, OnlyCommitsChange

-----------------------------------------------------------------------------
LEMMA SeenStep == IInv /\ [Next]_vars => SeenInv'
<1> SUFFICES ASSUME IInv, [Next]_vars PROVE SeenInv'
  OBVIOUS
<1> USE DEF SeenInv
<1>1. ASSUME NEW r \in Requests, Commit(r) PROVE SeenInv'
  <2> DEFINE e == [writer |-> r, before |-> before[r], after |-> after[r]]
  <2>1. /\ Len(audit') = Len(audit) + 1
        /\ \A i \in 1..Len(audit) : audit'[i] = audit[i]
        /\ audit'[Len(audit) + 1] = e
        /\ Len(history') = Len(history) + 1
        /\ \A i \in 1..Len(history) : history'[i] = history[i]
    BY <1>1, CommitFacts
  <2>2. pc' = [pc EXCEPT ![r] = "committed"] /\ seen' = seen
    BY <1>1 DEF Commit, Move, requestVars
  <2>3. Len(audit) \in Nat /\ Len(history) \in Nat
    BY StateFacts
  <2>4. \E i \in 1..Len(audit') : audit'[i].writer = r
    BY <2>1, <2>3
  <2>5. ASSUME NEW q \in Requests, pc[q] = "committed"
        PROVE  \E i \in 1..Len(audit') : audit'[i].writer = q
    BY <2>1, <2>3, <2>5 DEF IInv
  <2>6. ASSUME NEW q \in Requests, pc[q] \in {"reloaded", "invalidated"}
        PROVE  \E i \in 1..Len(audit') :
                 /\ audit'[i].writer = q
                 /\ \E k \in (i + 1)..Len(history') : seen[q] = history'[k]
    <3>1. PICK i \in 1..Len(audit) :
            /\ audit[i].writer = q
            /\ \E k \in (i + 1)..Len(history) : seen[q] = history[k]
      BY <2>6 DEF IInv
    <3>2. PICK k \in (i + 1)..Len(history) : seen[q] = history[k]
      BY <3>1
    <3>3. i \in 1..Len(audit') /\ k \in (i + 1)..Len(history') /\ k \in 1..Len(history)
      BY <2>1, <2>3
    <3> QED
      BY <2>1, <3>1, <3>2, <3>3
  <2> QED
    BY <2>2, <2>4, <2>5, <2>6 DEF IInv, TypeOK
<1>2. ASSUME NEW r \in Requests, Reload(r) PROVE SeenInv'
  <2>1. /\ pc' = [pc EXCEPT ![r] = "reloaded"] /\ pc[r] = "committed"
        /\ seen' = [seen EXCEPT ![r] = row]
        /\ UNCHANGED <<audit, history>>
    BY <1>2 DEF Reload, Move
  <2>2. PICK i \in 1..Len(audit) : audit[i].writer = r
    BY <2>1 DEF IInv
  <2>3. Len(history) \in (i + 1)..Len(history) /\ row = history[Len(history)]
    BY StateFacts
  <2> QED
    BY <2>1, <2>2, <2>3 DEF IInv, TypeOK
<1>3. ASSUME NEW r \in Requests, Invalidate(r) PROVE SeenInv'
  BY <1>3 DEF Invalidate, Move, IInv, TypeOK, requestVars
<1>4. ASSUME NEW r \in Requests,
             \/ Load(r) \/ Refuse(r) \/ Flush(r) \/ Broadcast(r) \/ Fail(r)
             \/ \E u \in Users, p \in Payloads : Begin(r, u, p)
      PROVE  SeenInv'
  <2>1. /\ UNCHANGED <<audit, history, seen>>
        /\ \A q \in Requests :
             /\ pc'[q] = "committed" => pc[q] = "committed"
             /\ pc'[q] \in {"reloaded", "invalidated"} => pc[q] = pc'[q]
    BY <1>4 DEF Load, Refuse, Flush, Broadcast, Fail, Begin, Move, requestVars,
                IInv, TypeOK
  <2> QED
    BY <2>1 DEF IInv
<1>5. CASE UNCHANGED vars
  BY <1>5 DEF IInv, vars, requestVars
<1> QED
  BY <1>1, <1>2, <1>3, <1>4, <1>5 DEF Next, Step, Finished

-----------------------------------------------------------------------------
LEMMA TruthStep == IInv /\ [Next]_vars => AuditTruthfulUnlessOverlapped'
<1> SUFFICES ASSUME IInv, [Next]_vars PROVE AuditTruthfulUnlessOverlapped'
  OBVIOUS
<1>1. ASSUME NEW r \in Requests, Commit(r) PROVE AuditTruthfulUnlessOverlapped'
  <2> DEFINE e == [writer |-> r, before |-> before[r], after |-> after[r]]
  <2>1. /\ Len(audit') = Len(audit) + 1
        /\ \A i \in 1..Len(audit) : audit'[i] = audit[i]
        /\ audit'[Len(audit) + 1] = e
        /\ \A i \in 1..Len(history) : history'[i] = history[i]
        /\ history'[Len(history) + 1] = row'
        /\ row' = Updated(row, before[r], after[r])
    BY <1>1, CommitFacts
  <2>2. loadedAt' = loadedAt /\ pc[r] = "flushed"
    BY <1>1 DEF Commit, Move, requestVars
  <2>3. Len(audit) \in Nat /\ Len(history) = Len(audit) + 1
        /\ row = history[Len(history)] /\ before[r] \in Row /\ after[r] \in Row
    BY StateFacts
  <2>4. SUFFICES ASSUME NEW i \in 1..Len(audit')
                 PROVE  /\ loadedAt[audit'[i].writer] \in 1..i
                        /\ audit'[i].before = history'[loadedAt[audit'[i].writer]]
                        /\ loadedAt[audit'[i].writer] = i =>
                             audit'[i].after = history'[i + 1]
    BY <2>2 DEF AuditTruthfulUnlessOverlapped
  <2>5. CASE i \in 1..Len(audit)
    <3>1. /\ loadedAt[audit[i].writer] \in 1..i
          /\ audit[i].before = history[loadedAt[audit[i].writer]]
          /\ loadedAt[audit[i].writer] = i => audit[i].after = history[i + 1]
      BY <2>5 DEF IInv, AuditTruthfulUnlessOverlapped
    <3> QED
      BY <2>1, <2>3, <2>5, <3>1
  <2>6. CASE i = Len(audit) + 1
    <3>1. loadedAt[r] \in 1..Len(history) /\ before[r] = history[loadedAt[r]]
      BY <2>2 DEF IInv, RequestInv
    <3>2. ASSUME loadedAt[r] = i PROVE row' = after[r]
      BY <2>1, <2>3, <2>6, <3>1, <3>2, UpdatedOwnVersion
    <3> QED
      BY <2>1, <2>3, <2>6, <3>1, <3>2
  <2> QED
    BY <2>1, <2>3, <2>5, <2>6
<1>2. CASE UNCHANGED <<row, audit, history>>
  <2>1. ASSUME NEW i \in 1..Len(audit)
        PROVE  loadedAt'[audit[i].writer] = loadedAt[audit[i].writer]
    <3>1. /\ audit[i].writer \in Requests
          /\ pc[audit[i].writer] \in Committed \cup {"failed"}
      BY StateFacts DEF IInv, WriterInv
    <3>2. \A r \in Requests : pc[r] # "begun" => loadedAt'[r] = loadedAt[r]
      BY DEF Next, Step, Finished, vars, requestVars, Begin, Load, Refuse, Flush,
             Commit, Reload, Invalidate, Broadcast, Fail, Move, IInv, TypeOK
    <3> QED
      BY <3>1, <3>2 DEF Committed
  <2> QED
    BY <1>2, <2>1 DEF IInv, AuditTruthfulUnlessOverlapped
<1> QED
  BY <1>1, <1>2, OnlyCommitsChange

-----------------------------------------------------------------------------
LEMMA EventStep == IInv /\ [Next]_vars => NoPhantomEvent'
<1> SUFFICES ASSUME IInv, [Next]_vars PROVE NoPhantomEvent'
  OBVIOUS
<1>1. ASSUME NEW r \in Requests, Commit(r) PROVE NoPhantomEvent'
  <2>1. /\ Len(audit') = Len(audit) + 1
        /\ \A i \in 1..Len(audit) : audit'[i] = audit[i]
        /\ Len(history') = Len(history) + 1
        /\ \A i \in 1..Len(history) : history'[i] = history[i]
    BY <1>1, CommitFacts
  <2>2. sent' = sent
    BY <1>1 DEF Commit
  <2>3. Len(audit) \in Nat /\ Len(history) \in Nat
    BY StateFacts
  <2>4. SUFFICES ASSUME NEW e \in sent
                 PROVE  \E i \in 1..Len(audit') :
                          /\ audit'[i].writer = e.request
                          /\ \E k \in (i + 1)..Len(history') :
                               /\ history'[k].enabled = e.enabled
                               /\ history'[k].rollout_percentage = e.rollout_percentage
    BY <2>2 DEF NoPhantomEvent
  <2>5. PICK i \in 1..Len(audit) :
          /\ audit[i].writer = e.request
          /\ \E k \in (i + 1)..Len(history) :
               /\ history[k].enabled = e.enabled
               /\ history[k].rollout_percentage = e.rollout_percentage
    BY DEF IInv, NoPhantomEvent
  <2>6. PICK k \in (i + 1)..Len(history) :
          /\ history[k].enabled = e.enabled
          /\ history[k].rollout_percentage = e.rollout_percentage
    BY <2>5
  <2>7. i \in 1..Len(audit') /\ k \in (i + 1)..Len(history') /\ k \in 1..Len(history)
    BY <2>1, <2>3
  <2> QED
    BY <2>1, <2>5, <2>6, <2>7
<1>2. ASSUME NEW r \in Requests, Broadcast(r) PROVE NoPhantomEvent'
  <2> DEFINE new == [request |-> r, enabled |-> seen[r].enabled,
                     rollout_percentage |-> seen[r].rollout_percentage]
  <2>1. pc[r] = "invalidated" /\ sent' = sent \cup {new}
        /\ UNCHANGED <<audit, history>>
    BY <1>2 DEF Broadcast, Move
  <2>2. PICK i \in 1..Len(audit) :
          /\ audit[i].writer = r
          /\ \E k \in (i + 1)..Len(history) : seen[r] = history[k]
    BY <2>1 DEF IInv, SeenInv
  <2> QED
    BY <2>1, <2>2 DEF IInv, NoPhantomEvent
<1>3. ASSUME NEW r \in Requests,
             \/ Load(r) \/ Refuse(r) \/ Flush(r) \/ Reload(r) \/ Invalidate(r) \/ Fail(r)
             \/ \E u \in Users, p \in Payloads : Begin(r, u, p)
      PROVE  NoPhantomEvent'
  <2>1. UNCHANGED <<audit, history, sent>>
    BY <1>3 DEF Load, Refuse, Flush, Reload, Invalidate, Fail, Begin
  <2> QED
    BY <2>1 DEF IInv, NoPhantomEvent
<1>4. CASE UNCHANGED vars
  BY <1>4 DEF IInv, NoPhantomEvent, vars
<1> QED
  BY <1>1, <1>2, <1>3, <1>4 DEF Next, Step, Finished

-----------------------------------------------------------------------------
(* The strengthened invariant holds of every behaviour of the handlers.    *)
THEOREM ServiceInvariant == Spec => []IInv
<1>1. Init => IInv
  BY ServiceInit
<1>2. IInv /\ [Next]_vars => IInv'
  BY TypeStep, HistoryStep, RequestStep, LockStep, WriterStep, SeenStep, LogStep,
     TruthStep, EventStep DEF IInv
<1> QED
  BY <1>1, <1>2, PTL DEF Spec

(* Type correctness of the handlers' state.                                *)
THEOREM ServiceTypes == Spec => []TypeOK
BY ServiceInvariant, PTL DEF IInv

(* For any number of overlapping and failing PATCH requests, the committed *)
(* audit entries account for every column of the row.                      *)
THEOREM ServiceLogExplainsRow == Spec => []LogExplainsRow
BY ServiceInvariant, PTL DEF IInv

(* Every entry's `before' is a version its request loaded, and an entry    *)
(* nobody overlapped records exactly the change that was made.             *)
THEOREM ServiceAuditTruthful == Spec => []AuditTruthfulUnlessOverlapped
BY ServiceInvariant, PTL DEF IInv

(* Every broadcast event shows a version committed at or after the commit  *)
(* it announces.                                                           *)
THEOREM ServiceNoPhantomEvent == Spec => []NoPhantomEvent
BY ServiceInvariant, PTL DEF IInv

-----------------------------------------------------------------------------
(* The last writer.  A commit counts the versions by the entries: what no  *)
(* entry since version l has set is still as it was in version l.          *)

SettersInv ==
  /\ \A i \in 1..Len(audit) : payload[audit[i].writer] \in AllPayloads
  /\ \A l \in 1..Len(history) : \A c \in Columns :
       (\A j \in l..Len(audit) : c \notin DOMAIN payload[audit[j].writer])
         => row[c] = history[l][c]

LastInv == IInv /\ SettersInv /\ LastWriterWins

LEMMA PayloadColumns ==
  ASSUME NEW p \in AllPayloads
  PROVE  DOMAIN p \subseteq Columns
BY DEF AllPayloads, Toggle, Rollout, SetRule, ClearRule, Columns, RuleColumns

(* A request with an entry neither begins nor loads again. *)
LEMMA EntriesFixed ==
  ASSUME IInv, [Next]_vars, NEW i \in 1..Len(audit)
  PROVE  /\ payload'[audit[i].writer] = payload[audit[i].writer]
         /\ loadedAt'[audit[i].writer] = loadedAt[audit[i].writer]
<1> DEFINE w == audit[i].writer
<1>1. w \in Requests /\ pc[w] \in Committed \cup {"failed"}
  BY StateFacts DEF IInv, WriterInv
<1>2. pc[w] # "idle" /\ pc[w] # "begun"
  BY <1>1 DEF Committed
<1> HIDE DEF w
<1>3. ASSUME NEW r \in Requests, NEW u \in Users, NEW p \in Payloads, Begin(r, u, p)
      PROVE  payload'[w] = payload[w] /\ loadedAt'[w] = loadedAt[w]
  BY <1>1, <1>2, <1>3 DEF Begin, Move, IInv, TypeOK
<1>4. ASSUME NEW r \in Requests, Load(r)
      PROVE  payload'[w] = payload[w] /\ loadedAt'[w] = loadedAt[w]
  BY <1>1, <1>2, <1>4 DEF Load, Move, IInv, TypeOK
<1>5. ASSUME NEW r \in Requests,
             Refuse(r) \/ Flush(r) \/ Commit(r) \/ Reload(r) \/ Invalidate(r)
               \/ Broadcast(r) \/ Fail(r)
      PROVE  payload' = payload /\ loadedAt' = loadedAt
  BY <1>5 DEF Refuse, Flush, Commit, Reload, Invalidate, Broadcast, Fail, requestVars
<1>6. CASE UNCHANGED vars
  BY <1>6 DEF vars, requestVars
<1>7. payload'[w] = payload[w] /\ loadedAt'[w] = loadedAt[w]
  <2>1. CASE \E r \in Requests, u \in Users, p \in Payloads : Begin(r, u, p)
    BY <1>3, <2>1
  <2>2. CASE \E r \in Requests : Step(r) \/ Fail(r)
    <3>1. PICK r \in Requests : Step(r) \/ Fail(r)
      BY <2>2
    <3>2. CASE Load(r)
      BY <1>4, <3>2
    <3>3. CASE ~Load(r)
      BY <1>5, <3>1, <3>3 DEF Step
    <3> QED
      BY <3>2, <3>3
  <2>3. CASE UNCHANGED vars
    BY <2>3 DEF vars, requestVars
  <2> QED
    BY <2>1, <2>2, <2>3 DEF Next, Finished
<1> QED
  BY <1>7 DEF w

LEMMA LastStep == LastInv /\ [Next]_vars => SettersInv' /\ LastWriterWins'
<1> SUFFICES ASSUME LastInv, [Next]_vars PROVE SettersInv' /\ LastWriterWins'
  OBVIOUS
<1> USE DEF LastInv
<1>1. Len(audit) \in Nat /\ Len(history) = Len(audit) + 1
  BY StateFacts
<1>2. CASE UNCHANGED <<row, audit, history>>
  <2>1. \A i \in 1..Len(audit) :
          /\ payload'[audit[i].writer] = payload[audit[i].writer]
          /\ loadedAt'[audit[i].writer] = loadedAt[audit[i].writer]
    BY EntriesFixed
  <2>2. SettersInv'
    BY <1>1, <1>2, <2>1 DEF SettersInv
  <2>3. LastWriterWins'
    BY <1>1, <1>2, <2>1 DEF LastWriterWins
  <2> QED
    BY <2>2, <2>3
<1>3. ASSUME NEW r \in Requests, Commit(r) PROVE SettersInv' /\ LastWriterWins'
  <2> DEFINE n == Len(audit) + 1
             body(i) == payload[audit'[i].writer]
  <2>1. /\ Len(audit') = n /\ Len(history') = n + 1
        /\ \A i \in 1..Len(audit) : audit'[i] = audit[i]
        /\ \A i \in 1..n : history'[i] = history[i]
        /\ audit'[n].writer = r
        /\ history'[n + 1] = row'
        /\ row' = Updated(row, before[r], after[r])
    <3> DEFINE e == [writer |-> r, before |-> before[r], after |-> after[r]]
    <3>1. /\ row' = Updated(row, before[r], after[r])
          /\ Len(audit') = Len(audit) + 1
          /\ Len(history') = Len(history) + 1
          /\ \A i \in 1..Len(audit) : audit'[i] = audit[i]
          /\ \A i \in 1..Len(history) : history'[i] = history[i]
          /\ audit'[Len(audit) + 1] = e
          /\ history'[Len(history) + 1] = row'
      BY <1>3, CommitFacts
    <3>2. e.writer = r
      OBVIOUS
    <3> HIDE DEF e
    <3> QED
      BY <1>1, <3>1, <3>2
  <2>2. payload' = payload /\ loadedAt' = loadedAt
    BY <1>3 DEF Commit, requestVars
  <2>3. /\ payload[r] \in AllPayloads /\ loadedAt[r] \in 1..n
        /\ before[r] = history[loadedAt[r]]
        /\ after[r] = Assigned(before[r], payload[r])
    BY <1>1, <1>3, StateFacts DEF Commit, Move, IInv, RequestInv, ValidPayloads, InFlight
  <2>4. ASSUME NEW c \in Columns, c \notin DOMAIN payload[r]
        PROVE  row'[c] = row[c]
    BY <2>1, <2>3, <2>4 DEF Updated, Assigned, Changed
  <2>5. ASSUME NEW c \in DOMAIN payload[r]
        PROVE  /\ c \in Columns
               /\ row'[c] = IF before[r][c] # payload[r][c] THEN payload[r][c] ELSE row[c]
    BY <2>1, <2>3, <2>5, PayloadColumns DEF Updated, Assigned, Changed
  <2>6. SettersInv'
    <3>1. \A i \in 1..n : body(i) \in AllPayloads
      BY <1>1, <2>1, <2>3 DEF SettersInv
    <3>2. ASSUME NEW l \in 1..(n + 1), NEW c \in Columns,
                 \A j \in l..n : c \notin DOMAIN body(j)
          PROVE  row'[c] = history'[l][c]
      <4>1. CASE l = n + 1
        BY <2>1, <4>1
      <4>2. CASE l # n + 1
        <5>1. l \in 1..n /\ n \in l..n /\ \A j \in l..Len(audit) : j \in l..n
          BY <1>1, <4>2
        <5>2. row'[c] = row[c]
          BY <2>1, <2>4, <3>2, <5>1
        <5>3. \A j \in l..Len(audit) : c \notin DOMAIN payload[audit[j].writer]
          BY <1>1, <2>1, <3>2, <5>1
        <5>4. row[c] = history[l][c]
          BY <1>1, <5>1, <5>3 DEF SettersInv
        <5> QED
          BY <2>1, <5>1, <5>2, <5>4
      <4> QED
        BY <4>1, <4>2
    <3> QED
      BY <2>1, <2>2, <3>1, <3>2 DEF SettersInv
  <2>7. LastWriterWins'
    <3> SUFFICES ASSUME NEW i \in 1..n, NEW c \in DOMAIN body(i),
                        \A j \in (i + 1)..n : c \notin DOMAIN body(j),
                        \A j \in 1..(i - 1) :
                          c \in DOMAIN body(j) => j < loadedAt[audit'[i].writer]
                 PROVE  row'[c] = body(i)[c]
      BY <2>1, <2>2 DEF LastWriterWins
    <3>1. CASE i = n
      <4>1. c \in DOMAIN payload[r] /\ body(i) = payload[r]
        BY <2>1, <3>1
      <4>2. \A j \in loadedAt[r]..Len(audit) : c \notin DOMAIN payload[audit[j].writer]
        BY <1>1, <2>1, <2>3, <3>1
      <4>3. row[c] = before[r][c]
        BY <1>1, <2>3, <2>5, <4>1, <4>2 DEF SettersInv
      <4> QED
        BY <2>5, <4>1, <4>3
    <3>2. CASE i # n
      <4>1. i \in 1..Len(audit) /\ n \in (i + 1)..n
        BY <1>1, <3>2
      <4>2. body(i) = payload[audit[i].writer] /\ audit'[i] = audit[i]
        BY <2>1, <4>1
      <4>3. c \in Columns /\ row'[c] = row[c]
        BY <2>1, <2>4, <4>1, <4>2, PayloadColumns DEF SettersInv
      <4>4. /\ \A j \in (i + 1)..Len(audit) : c \notin DOMAIN payload[audit[j].writer]
            /\ \A j \in 1..(i - 1) : c \in DOMAIN payload[audit[j].writer]
                                      => j < loadedAt[audit[i].writer]
        <5>1. \A j \in 1..Len(audit) : body(j) = payload[audit[j].writer]
          BY <2>1
        <5>2. /\ \A j \in (i + 1)..Len(audit) : j \in (i + 1)..n /\ j \in 1..Len(audit)
              /\ \A j \in 1..(i - 1) : j \in 1..Len(audit)
          BY <1>1, <4>1
        <5> HIDE DEF body
        <5> QED
          BY <4>2, <5>1, <5>2
      <4>5. row[c] = payload[audit[i].writer][c]
        BY <4>1, <4>2, <4>4 DEF LastWriterWins
      <4> QED
        BY <4>2, <4>3, <4>5
    <3> QED
      BY <3>1, <3>2
  <2> QED
    BY <2>6, <2>7
<1> QED
  BY <1>2, <1>3, OnlyCommitsChange

(* Of any number of PATCH requests, the one that sets a column last, after *)
(* it loaded what the others had made of it, gets its way.                 *)
THEOREM ServiceLastWriterWins == Spec => []LastWriterWins
<1>1. Init => LastInv
  <2>1. SUFFICES ASSUME Init PROVE LastInv
    OBVIOUS
  <2>2. SettersInv /\ LastWriterWins
    BY <2>1 DEF Init, SettersInv, LastWriterWins
  <2> QED
    BY <2>1, <2>2, ServiceInit DEF LastInv
<1>2. LastInv /\ [Next]_vars => LastInv'
  BY LastStep, TypeStep, HistoryStep, RequestStep, LockStep, WriterStep, SeenStep,
     LogStep, TruthStep, EventStep DEF LastInv, IInv
<1> QED
  BY <1>1, <1>2, PTL DEF Spec, LastInv

-----------------------------------------------------------------------------
(* Refinement. *)

(* The register speaks of the same rows and bodies. *)
LEMMA SameRows ==
  /\ Register!DefaultRow = DefaultRow /\ Register!Row = Row
  /\ Register!ValidPayloads = ValidPayloads
  /\ \A b, p : Register!Assigned(b, p) = Assigned(b, p)
  /\ \A r, b, a : Register!Updated(r, b, a) = Updated(r, b, a)
  /\ \A log, r : Register!Explains(log, r) <=> Explains(log, r)
<1>1. Register!DefaultRow = DefaultRow /\ Register!Row = Row
  BY DEF Register!DefaultRow, DefaultRow, Register!Row, Row
<1>2. Register!Columns = Columns /\ Register!AllPayloads = AllPayloads
  BY DEF Register!Columns, Columns, Register!RuleColumns, RuleColumns,
         Register!AllPayloads, AllPayloads, Register!Toggle, Toggle,
         Register!Rollout, Rollout, Register!SetRule, SetRule,
         Register!ClearRule, ClearRule
<1>3. Register!ValidPayloads = ValidPayloads
  BY <1>2 DEF Register!ValidPayloads, ValidPayloads, Register!InRange, InRange,
              Register!NotBlank, NotBlank
<1>4. \A b, p : Register!Assigned(b, p) = Assigned(b, p)
  BY <1>2 DEF Register!Assigned, Assigned
<1>5. \A r, b, a : Register!Updated(r, b, a) = Updated(r, b, a)
  BY <1>2 DEF Register!Updated, Updated, Register!Changed, Changed
<1>6. \A log, r : Register!Explains(log, r) <=> Explains(log, r)
  BY <1>1, <1>2 DEF Register!Explains, Explains
<1> QED
  BY <1>1, <1>3, <1>4, <1>5, <1>6

LEMMA RefinesInit == Init => Register!Init
BY SameRows DEF Init, Register!Init

LEMMA RefinesStep == IInv /\ [Next]_vars => [Register!Next]_(Register!vars)
<1> SUFFICES ASSUME IInv, [Next]_vars PROVE [Register!Next]_(Register!vars)
  OBVIOUS
<1>1. ASSUME NEW r \in Requests, Commit(r) PROVE Register!Record(r)
  <2>1. pc[r] = "flushed"
    BY <1>1 DEF Commit, Move
  <2>2. \A i \in 1..Len(audit) : audit[i].writer # r
    BY <2>1 DEF IInv, WriterInv, Committed
  <2>3. /\ loadedAt[r] \in 1..Len(history)
        /\ before[r] = history[loadedAt[r]]
        /\ after[r] = Assigned(before[r], payload[r])
        /\ payload[r] \in ValidPayloads
    BY <2>1, StateFacts DEF IInv, RequestInv
  <2>4. /\ audit' = Append(audit, [writer |-> r, before |-> before[r], after |-> after[r]])
        /\ history' = Append(history, row')
        /\ row' = Updated(row, before[r], after[r])
        /\ row = history[Len(history)]
    BY <1>1, CommitFacts, StateFacts
  <2>5. \E k \in 1..Len(history), p \in ValidPayloads :
          /\ audit' = Append(audit, [writer |-> r, before |-> history[k],
                                     after |-> Assigned(history[k], p)])
          /\ history' = Append(history, Updated(history[Len(history)], history[k],
                                                Assigned(history[k], p)))
    BY <2>3, <2>4
  <2> QED
    BY <2>2, <2>5, SameRows DEF Register!Record, Register!Current
<1>2. CASE UNCHANGED <<row, audit, history>>
  BY <1>2 DEF Register!vars
<1> QED
  BY <1>1, <1>2, OnlyCommitsChange DEF Register!Next

(* The handlers implement the configuration register: each step of theirs  *)
(* records one change with its entry, or is invisible to it.               *)
THEOREM ServiceImplementsRegister == Spec => ImplementsRegister
<1>1. Spec => []IInv
  BY ServiceInvariant
<1> QED
  BY <1>1, RefinesInit, RefinesStep, PTL DEF Spec, ImplementsRegister, Register!Spec
-----------------------------------------------------------------------------
(* The register by itself. *)

RegisterInv == Register!TypeOK /\ Register!LogExplainsRow

LEMMA RegisterInit == Register!Init => RegisterInv
<1> SUFFICES ASSUME Register!Init PROVE RegisterInv
  OBVIOUS
<1>1. history = <<DefaultRow>> /\ audit = << >>
  BY SameRows DEF Register!Init
<1>2. DefaultRow \in Row
  BY DEF DefaultRow, Row
<1>3. Register!TypeOK
  BY <1>1, <1>2, SameRows DEF Register!TypeOK
<1>4. Explains(audit, history[Len(history)])
  BY <1>1 DEF Explains
<1> QED
  BY <1>3, <1>4, SameRows DEF RegisterInv, Register!LogExplainsRow, Register!Current

LEMMA RegisterStep == RegisterInv /\ [Register!Next]_(Register!vars) => RegisterInv'
<1> SUFFICES ASSUME RegisterInv, [Register!Next]_(Register!vars) PROVE RegisterInv'
  OBVIOUS
<1> DEFINE Current == history[Len(history)]
           Entries == [writer : Requests, before : Row, after : Row]
<1>1. /\ history \in Seq(Row) /\ audit \in Seq(Entries)
      /\ Len(history) \in Nat /\ Len(history) = Len(audit) + 1
      /\ Len(history) \in 1..Len(history)
      /\ Explains(audit, Current)
  BY SameRows DEF RegisterInv, Register!TypeOK, Register!Entry, Register!LogExplainsRow,
                  Register!Current
<1>2. ASSUME NEW w \in Requests, Register!Record(w) PROVE RegisterInv'
  <2>1. PICK k \in 1..Len(history), p \in ValidPayloads :
          /\ audit' = Append(audit, [writer |-> w, before |-> history[k],
                                     after |-> Assigned(history[k], p)])
          /\ history' = Append(history,
                          Updated(Current, history[k], Assigned(history[k], p)))
    BY <1>2, SameRows DEF Register!Record, Register!Current
  <2> DEFINE b == history[k]
             a == Assigned(b, p)
             e == [writer |-> w, before |-> b, after |-> a]
             new == Updated(Current, b, a)
  <2>2. b \in Row /\ Current \in Row
    BY <1>1
  <2>3. a \in Row
    BY <2>2, AssignedIsRow
  <2>4. new \in Row
    BY <2>2, <2>3, UpdatedIsRow
  <2>5. e \in Entries
    BY <2>2, <2>3
  <2>6. Explains(Append(audit, e), Updated(Current, e.before, e.after))
    BY <1>1, <2>5, ExplainsAppend
  <2> HIDE DEF e, new
  <2>7. /\ history' = Append(history, new) /\ audit' = Append(audit, e)
        /\ Explains(Append(audit, e), new)
    BY <2>1, <2>6 DEF e, new
  <2>8. /\ history' \in Seq(Row) /\ audit' \in Seq(Entries)
        /\ Len(history') = Len(audit') + 1 /\ history' # << >>
        /\ history'[Len(history')] = new
    BY <1>1, <2>4, <2>5, <2>7
  <2>9. Register!TypeOK'
    BY <2>8, SameRows DEF Register!TypeOK, Register!Entry
  <2>10. Register!LogExplainsRow'
    BY <2>7, <2>8, SameRows DEF Register!LogExplainsRow, Register!Current
  <2> QED
    BY <2>9, <2>10 DEF RegisterInv
<1>3. CASE UNCHANGED Register!vars
  BY <1>3 DEF RegisterInv, Register!TypeOK, Register!LogExplainsRow, Register!Explains,
              Register!Current, Register!vars
<1> QED
  BY <1>2, <1>3 DEF Register!Next

(* In every behaviour the register allows, its log accounts for its row:   *)
(* the promise the audit log of the flag service makes.                    *)
THEOREM RegisterExplained ==
  Register!Spec => [](Register!TypeOK /\ Register!LogExplainsRow)
<1>1. Register!Spec => []RegisterInv
  BY RegisterInit, RegisterStep, PTL DEF Register!Spec
<1> QED
  BY <1>1, PTL DEF RegisterInv
=============================================================================
