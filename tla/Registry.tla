------------------------------ MODULE Registry ------------------------------
(***************************************************************************)
(* What creating users, organizations, memberships, projects, flags and    *)
(* API keys amounts to, without transactions, waiting or failures: a       *)
(* request adds, in one step and at most once, everything that belongs to  *)
(* what it creates, if its user may do so in that organization, and only   *)
(* under a key that is not taken.  And what revoking API keys amounts to:  *)
(* an owner marks a key of the organization, and nothing unmarks it.       *)
(*                                                                         *)
(* Tenancy implements this specification.                                  *)
(***************************************************************************)
EXTENDS Schema

VARIABLES
  rows,        \* the rows there are
  revoked_at   \* the revocation that marked each API key last

Init == rows = Seed /\ revoked_at = [i \in Ids |-> NONE]

Create(r, b) ==
  /\ \E o \in Scopes(rows, b) :
       /\ Allowed(rows, b, o)
       /\ \E k \in KeysFor(rows, b, r) :
            LET x == MainRow(r, b, o, k)
            IN  /\ \A y \in rows : y.id # r
                /\ \A y \in Bundle(x), z \in rows : ~Clash(y, z)
                /\ rows' = rows \cup Bundle(x)
  /\ UNCHANGED revoked_at

Revoke(r, b) ==
  /\ b.op = "revoke_api_key"
  /\ Allowed(rows, b, b.of)
  /\ ApiKeys(rows, b) # {}
  /\ revoked_at' = [revoked_at EXCEPT ![b.info] = [id |-> r, by |-> b.actor]]
  /\ UNCHANGED rows

Next == \E r \in Requests, b \in Bodies : Create(r, b) \/ Revoke(r, b)

Spec == Init /\ [][Next]_<<rows, revoked_at>>
=============================================================================
