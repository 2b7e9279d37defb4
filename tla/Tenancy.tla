------------------------------ MODULE Tenancy ------------------------------
(***************************************************************************)
(* The requests that create something (a user, an organization, a          *)
(* membership, a project, a flag, an API key) or revoke an API key,        *)
(* running concurrently.  Each looks for a row with its key, and inserts   *)
(* its own, or marks it revoked, later, in a transaction of its own: two   *)
(* requests may both find nothing, or both find an active key.             *)
(*                                                                         *)
(*   idle -> begun -> authorized -> writing -> committed -> created        *)
(*                               -> marking -> marked    -> revoked        *)
(*                                                                         *)
(* and on the way `refused' (401, 403, 404 or a blank name), `conflict'    *)
(* (409, the key is taken) or `failed' (500).  The lookups of one step are *)
(* of rows that are only ever added, so that nothing is lost by making     *)
(* them at once.                                                           *)
(***************************************************************************)
EXTENDS Schema

VARIABLES
  rows,        \* the committed rows
  revoked_at,  \* of each API key: the revocation whose time is stored, if any
  pending,     \* the rows each request's transaction has inserted
  todo,        \* the flushes it has left
  pc,          \* where each request is
  body,        \* what it asks for
  scope        \* the organization it is about

tables == <<rows, revoked_at>>
vars == <<tables, pending, todo, pc, body, scope>>

Begun == {"begun", "authorized", "writing", "committed", "marking", "marked"}
Answered == {"created", "revoked", "refused", "conflict", "failed"}

Init ==
  /\ rows = Seed
  /\ revoked_at = [i \in Ids |-> NONE]
  /\ pending = [r \in Requests |-> {}]
  /\ todo = [r \in Requests |-> << >>]
  /\ pc = [r \in Requests |-> "idle"]
  /\ body = [r \in Requests |-> NONE]
  /\ scope = [r \in Requests |-> NONE]

-----------------------------------------------------------------------------
Goto(r, step) == pc' = [pc EXCEPT ![r] = step]

(* The session is rolled back, or closed, without a commit. *)
Rollback(r, step) ==
  /\ Goto(r, step)
  /\ pending' = [pending EXCEPT ![r] = {}]
  /\ todo' = [todo EXCEPT ![r] = << >>]

(* The token was made for a user there is. *)
Begin(r, b) ==
  /\ pc[r] = "idle"
  /\ b.op = "signup" \/ b.actor \in Users(rows)
  /\ Goto(r, "begun")
  /\ body' = [body EXCEPT ![r] = b]
  /\ UNCHANGED <<tables, pending, todo, scope>>

(* The definitions named Bad... are never part of the specification.  Each  *)
(* is a step with a plausible bug, kept to check that the properties below *)
(* can tell it from the real step that follows it.                         *)

(* Any member may do what is for owners. *)
BadAuthorize(r) ==
  /\ pc[r] = "begun"
  /\ \E o \in Scopes(rows, body[r]) :
       /\ body[r].op \notin {"signup", "create_organization"} =>
            body[r].actor \in Members(rows, o)
       /\ scope' = [scope EXCEPT ![r] = o]
  /\ Goto(r, "authorized")
  /\ UNCHANGED <<tables, pending, todo, body>>

(* The user, the project and the membership are looked up. *)
Authorize(r) ==
  /\ pc[r] = "begun"
  /\ \E o \in Scopes(rows, body[r]) :
       /\ Allowed(rows, body[r], o)
       /\ scope' = [scope EXCEPT ![r] = o]
  /\ Goto(r, "authorized")
  /\ UNCHANGED <<tables, pending, todo, body>>

Deny(r) ==
  /\ pc[r] = "begun"
  /\ ~\E o \in Scopes(rows, body[r]) : Allowed(rows, body[r], o)
  /\ Goto(r, "refused")
  /\ UNCHANGED <<tables, pending, todo, body, scope>>

(* The key is normalised (the invited user looked up), and looked for.     *)
Check(r) ==
  /\ pc[r] = "authorized"
  /\ \E k \in KeysFor(rows, body[r], r) :
       LET x == MainRow(r, body[r], scope[r], k)
       IN  \/ /\ \E y \in rows : Clash(x, y)
              /\ Goto(r, "conflict")
              /\ UNCHANGED todo
           \/ /\ \A y \in rows : ~Clash(x, y)
              /\ Goto(r, "writing")
              /\ todo' = [todo EXCEPT ![r] = Flushes(x)]
  /\ UNCHANGED <<tables, pending, body, scope>>

Reject(r) ==
  /\ pc[r] = "authorized"
  /\ body[r].op # "revoke_api_key"
  /\ KeysFor(rows, body[r], r) = {}
  /\ Goto(r, "refused")
  /\ UNCHANGED <<tables, pending, todo, body, scope>>

(* A table without its unique constraint. *)
BadInsert(r) ==
  /\ pc[r] = "writing"
  /\ todo[r] # << >>
  /\ pending' = [pending EXCEPT ![r] = @ \cup Head(todo[r])]
  /\ todo' = [todo EXCEPT ![r] = Tail(@)]
  /\ UNCHANGED <<tables, pc, body, scope>>

(* An insert that does not wait: a row that is not committed is a conflict.*)
BadInsertNoWait(r) ==
  /\ pc[r] = "writing"
  /\ todo[r] # << >>
  /\ IF \E x \in Head(todo[r]) :
          \E y \in rows \cup UNION {pending[q] : q \in Requests \ {r}} : Clash(x, y)
     THEN Rollback(r, "conflict")
     ELSE /\ pending' = [pending EXCEPT ![r] = @ \cup Head(todo[r])]
          /\ todo' = [todo EXCEPT ![r] = Tail(@)]
          /\ UNCHANGED pc
  /\ UNCHANGED <<tables, body, scope>>

(* A flush.  A row whose key another transaction has inserted waits for    *)
(* that transaction to end; one whose key is committed is an               *)
(* IntegrityError, which the handler turns into a conflict.                *)
Insert(r) ==
  /\ pc[r] = "writing"
  /\ todo[r] # << >>
  /\ \A q \in Requests \ {r} : \A x \in Head(todo[r]), y \in pending[q] : ~Clash(x, y)
  /\ \/ /\ \E x \in Head(todo[r]), y \in rows : Clash(x, y)
        /\ Rollback(r, "conflict")
     \/ /\ \A x \in Head(todo[r]), y \in rows : ~Clash(x, y)
        /\ pending' = [pending EXCEPT ![r] = @ \cup Head(todo[r])]
        /\ todo' = [todo EXCEPT ![r] = Tail(@)]
        /\ UNCHANGED pc
  /\ UNCHANGED <<tables, body, scope>>

(* A commit as soon as the first row is there. *)
BadCommit(r) ==
  /\ pc[r] = "writing"
  /\ pending[r] # {}
  /\ rows' = rows \cup pending[r]
  /\ pending' = [pending EXCEPT ![r] = {}]
  /\ Goto(r, IF todo[r] = << >> THEN "committed" ELSE "writing")
  /\ UNCHANGED <<revoked_at, todo, body, scope>>

Commit(r) ==
  /\ pc[r] = "writing"
  /\ todo[r] = << >>
  /\ rows' = rows \cup pending[r]
  /\ pending' = [pending EXCEPT ![r] = {}]
  /\ Goto(r, "committed")
  /\ UNCHANGED <<revoked_at, todo, body, scope>>

(* What was created is read again, and answered with. *)
Answer(r) ==
  /\ pc[r] = "committed"
  /\ Goto(r, "created")
  /\ UNCHANGED <<tables, pending, todo, body, scope>>

(* Any organization's key. *)
BadFindKey(r) ==
  /\ pc[r] = "authorized" /\ body[r].op = "revoke_api_key"
  /\ Goto(r, IF body[r].info \notin {x.id : x \in {y \in rows : y.table = "api_key"}}
             THEN "refused"
             ELSE IF revoked_at[body[r].info] # NONE THEN "revoked" ELSE "marking")
  /\ UNCHANGED <<tables, pending, todo, body, scope>>

(* A revocation looks for the key in the organization.  One that is not    *)
(* there is a 404; one that is revoked is left as it is.                   *)
FindKey(r) ==
  /\ pc[r] = "authorized" /\ body[r].op = "revoke_api_key"
  /\ \/ /\ ApiKeys(rows, body[r]) = {}
        /\ Goto(r, "refused")
     \/ /\ ApiKeys(rows, body[r]) # {}
        /\ Goto(r, IF revoked_at[body[r].info] # NONE THEN "revoked" ELSE "marking")
  /\ UNCHANGED <<tables, pending, todo, body, scope>>

(* Its UPDATE is flushed with the commit; another revocation that found    *)
(* the key active may have committed meanwhile, and is overwritten.        *)
CommitRevocation(r) ==
  /\ pc[r] = "marking"
  /\ revoked_at' = [revoked_at EXCEPT ![body[r].info] =
                                   [id |-> r, by |-> body[r].actor]]
  /\ Goto(r, "marked")
  /\ UNCHANGED <<rows, pending, todo, body, scope>>

(* The key's entry is removed from the cache: EvaluationCache has what     *)
(* follows.                                                                *)
Invalidate(r) ==
  /\ pc[r] = "marked"
  /\ Goto(r, "revoked")
  /\ UNCHANGED <<tables, pending, todo, body, scope>>

(* A session that is neither rolled back nor closed. *)
BadFail(r) ==
  /\ pc[r] \in Begun
  /\ Goto(r, "failed")
  /\ UNCHANGED <<tables, pending, todo, body, scope>>

(* A query fails or the connection is lost: the session is closed, which   *)
(* rolls back what is not committed.                                       *)
Fail(r) ==
  /\ pc[r] \in Begun
  /\ Rollback(r, "failed")
  /\ UNCHANGED <<tables, body, scope>>

Step(r) ==
  \/ Authorize(r) \/ Deny(r) \/ Check(r) \/ Reject(r)
  \/ Insert(r) \/ Commit(r) \/ Answer(r)
  \/ FindKey(r) \/ CommitRevocation(r) \/ Invalidate(r)

(* Nothing is left to do: not a deadlock. *)
Finished ==
  /\ \A r \in Requests : pc[r] \in Answered
  /\ UNCHANGED vars

Next ==
  \/ \E r \in Requests, b \in Bodies : Begin(r, b)
  \/ \E r \in Requests : Step(r) \/ Fail(r)
  \/ Finished

Spec == Init /\ [][Next]_vars

(* The thread pool runs every worker and the database answers.  Arrivals   *)
(* and failures are free.                                                  *)
FairSpec == Spec /\ \A r \in Requests : WF_vars(Step(r))

-----------------------------------------------------------------------------
TypeOK ==
  /\ rows \subseteq Row
  /\ revoked_at \in [Ids -> Revocation \cup {NONE}]
  /\ pending \in [Requests -> SUBSET Row]
  /\ todo \in [Requests -> Seq(SUBSET Row)]
  /\ pc \in [Requests -> {"idle"} \cup Begun \cup Answered]
  /\ body \in [Requests -> Bodies \cup {NONE}]
  /\ scope \in [Requests -> Ids \cup {NONE}]

(* Two requests that both found a key free never both commit a row with it.*)
UniqueKeys == Unique(rows)

(* No other request ever sees an organization without its owner, or a flag *)
(* without its configurations and its audit entry, whatever failed.        *)
WholeOrNothing == Whole(rows)

(* Every row was written by a user who was, and still is, entitled to it,  *)
(* in the organization it belongs to; every API key that is revoked was so *)
(* by an owner of its organization.                                        *)
OwnersOnly ==
  /\ Proper(rows)
  /\ \A i \in Ids : revoked_at[i] # NONE =>
       \E x \in rows : /\ x.table = "api_key" /\ x.id = i
                       /\ revoked_at[i].by \in Owners(rows, x.of)

(* What a request is answered is so: what was created is committed; an API *)
(* key that was revoked, by this request or another, stays revoked; what   *)
(* is in conflict is so with a committed row that another request wrote;   *)
(* what was refused or in conflict left nothing behind.                    *)
AnswersTrue ==
  \A r \in Requests :
    /\ pc[r] = "created" =>
         \E x \in rows : x.id = r /\ x.table = Table[body[r].op]
    /\ pc[r] = "revoked" => revoked_at[body[r].info] # NONE
    /\ pc[r] \in {"refused", "conflict"} =>
         /\ \A x \in rows : x.id # r
         /\ \A i \in Ids : revoked_at[i] # NONE => revoked_at[i].id # r
    /\ pc[r] = "conflict" =>
         \E k \in KeysFor(rows, body[r], r), x \in rows :
           /\ x.id # r
           /\ Clash(x, MainRow(r, body[r], scope[r], k))

Register == INSTANCE Registry

(* The requests implement the registry: everything a request creates       *)
(* appears at once, under a key that is free, and once; only an owner      *)
(* revokes an API key, of the organization, and for good.                  *)
ImplementsRegistry == Register!Spec

(* A request that has begun is answered, though it may wait for another.   *)
RequestAnswered ==
  \A r \in Requests : pc[r] = "begun" ~> pc[r] \in Answered
=============================================================================
