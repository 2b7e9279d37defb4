------------------------------- MODULE Schema -------------------------------
(***************************************************************************)
(* The tables of the database, the rows a request that creates something   *)
(* writes into them, and the API key a revocation is of.                   *)
(*                                                                         *)
(* Every row has the same shape: its table, the id of the request that     *)
(* wrote it (which stands for the new UUID of what it creates), the row it *)
(* belongs to, its key there, one more column, and, as a history field,    *)
(* the user who wrote it.                                                  *)
(*                                                                         *)
(*   table         of              key                info                 *)
(*   user          NONE            email              NONE                 *)
(*   organization  NONE            slug               NONE                 *)
(*   membership    organization    user               role                 *)
(*   project       organization    key                NONE                 *)
(*   flag          organization    key                project              *)
(*   config        flag            environment        NONE                 *)
(*   api_key       organization    hash (the id)      environment          *)
(*   audit         flag            (the id)           NONE                 *)
(***************************************************************************)
EXTENDS FiniteSets, Sequences

CONSTANTS
  Requests,    \* the requests, and the ids of what they create
  Ids,         \* all ids, those of the rows there are at the start included
  Texts,       \* the emails, names and keys that bodies carry
  Keys,        \* what they are once normalised
  Normal,      \* the normal form of a text: stripped, lower-cased, a slug
  Blank,       \* the normal form of a text with nothing left in it
  Generated,   \* the normal form of a name without a letter or digit
  Slugs,       \* the slugs one of which such a name is given, at random
  NONE,        \* no value
  Seed,        \* the rows there are at the start
  Bodies       \* the requests that may be made

Tables == {"user", "organization", "membership", "project", "flag", "config",
           "api_key", "audit"}

Environments == {"development", "staging", "production"}

Ops == {"signup", "create_organization", "invite_member", "create_project",
        "create_flag", "create_api_key", "revoke_api_key"}

(* The table of the row an operation is for. *)
Table == [signup              |-> "user",
          create_organization |-> "organization",
          invite_member       |-> "membership",
          create_project      |-> "project",
          create_flag         |-> "flag",
          create_api_key      |-> "api_key",
          revoke_api_key      |-> "api_key"]

(* A request: the operation, the user whose token it has, the organization *)
(* or project in its path, the text of its body, and the role or           *)
(* environment there, or the API key in its path.                          *)
Body == [op : Ops, actor : Ids \cup {NONE}, of : Ids \cup {NONE},
         text : Texts \cup {NONE},
         info : {"owner", "member"} \cup Environments \cup Ids \cup {NONE}]

(* A user's email may be blank, as nothing refuses it; no other key is.    *)
Row == {x \in [table : Tables, id : Ids, of : Ids \cup {NONE},
               key : Keys \cup {Blank} \cup Ids \cup Environments,
               info : {"owner", "member"} \cup Environments \cup Ids \cup {NONE},
               by : Ids \cup {NONE}] : x.key = Blank => x.table = "user"}

(* A time in revoked_at: the request that took it, and its user.           *)
Revocation == [id : Requests, by : Ids]

ASSUME SchemaAssumption ==
  /\ Requests \subseteq Ids
  /\ Normal \in [{"user", "organization", "project", "flag"}
                   -> [Texts -> Keys \cup {Blank, Generated}]]
  /\ \A t \in Texts : \A table \in {"user", "project", "flag"} :
       Normal[table][t] # Generated
  /\ Slugs \subseteq Keys /\ Slugs # {}
  /\ Generated \notin Keys \cup {Blank}
  /\ (Keys \cup {Blank}) \cap (Ids \cup Environments) = {} /\ Blank \notin Keys
  /\ Seed \subseteq Row
  /\ \A x \in Seed : x.id \notin Requests
  /\ NONE \notin Revocation

ASSUME BodiesAssumption ==
  /\ Bodies \subseteq Body
  /\ \A b \in Bodies :
       /\ b.op \in {"create_api_key", "revoke_api_key"} \/ b.text \in Texts
       /\ b.op = "revoke_api_key" => b.info \in Ids
       /\ b.op = "signup" \/ b.actor \in Ids
       /\ b.op \in {"signup", "create_organization"} <=> b.of = NONE

(* The columns of the table's unique constraint. *)
UniqueKey(x) == <<x.table, x.of, x.key>>

Clash(x, y) == UniqueKey(x) = UniqueKey(y)

-----------------------------------------------------------------------------
(* Queries. *)

Users(rows) == {x.id : x \in {y \in rows : y.table = "user"}}

Members(rows, o) == {x.key : x \in {y \in rows : y.table = "membership" /\ y.of = o}}

Owners(rows, o) ==
  {x.key : x \in {y \in rows : y.table = "membership" /\ y.of = o /\ y.info = "owner"}}

(* The organization a request is about: its project's, for a flag. *)
Scopes(rows, b) ==
  IF b.op = "create_flag"
  THEN {x.of : x \in {y \in rows : y.table = "project" /\ y.id = b.of}}
  ELSE {b.of}

(* Who may do what: get_current_user, _require_member, _require_owner. *)
Allowed(rows, b, o) ==
  /\ b.op # "signup" => b.actor \in Users(rows)
  /\ b.op \in {"create_project", "create_flag"}   => b.actor \in Members(rows, o)
  /\ b.op \in {"invite_member", "create_api_key", "revoke_api_key"} =>
       b.actor \in Owners(rows, o)

(* The key of the row to be written: none when the name or key is blank,   *)
(* the email is nobody's, or nothing is to be written.  Whoever signs up   *)
(* may do so with a blank email.  A generated slug may be one there is.    *)
KeysFor(rows, b, r) ==
  CASE b.op = "signup" -> {Normal["user"][b.text]}
    [] b.op = "invite_member" ->
         {x.id : x \in {y \in rows : y.table = "user" /\ y.key = Normal["user"][b.text]}}
    [] b.op = "create_api_key" -> {r}
    [] b.op = "revoke_api_key" -> {}
    [] OTHER ->
         LET k == Normal[Table[b.op]][b.text]
         IN  IF k = Generated THEN Slugs ELSE {k} \ {Blank}

(* The API key of a revocation: one of the organization in the path.       *)
ApiKeys(rows, b) ==
  {x \in rows : x.table = "api_key" /\ x.id = b.info /\ x.of = b.of}

-----------------------------------------------------------------------------
(* What is written. *)

MainRow(r, b, o, k) ==
  [table |-> Table[b.op], id |-> r, of |-> o, key |-> k,
   info |-> IF b.op = "create_flag" THEN b.of ELSE b.info, by |-> b.actor]

Owner(x) ==
  [table |-> "membership", id |-> x.id, of |-> x.id, key |-> x.by,
   info |-> "owner", by |-> x.by]

Config(x, environment) ==
  [table |-> "config", id |-> x.id, of |-> x.id, key |-> environment,
   info |-> NONE, by |-> x.by]

Audit(x) ==
  [table |-> "audit", id |-> x.id, of |-> x.id, key |-> x.id,
   info |-> NONE, by |-> x.by]

(* The flushes that write the row `x' and the rows that come with it.      *)
Flushes(x) ==
  CASE x.table = "organization" -> << {x}, {Owner(x)} >>
    [] x.table = "flag" -> << {x}, {Config(x, e) : e \in Environments}, {Audit(x)} >>
    [] OTHER -> << {x} >>

(* All the rows of a sequence of flushes. *)
All(flushes) == UNION {flushes[i] : i \in DOMAIN flushes}

Bundle(x) == All(Flushes(x))

-----------------------------------------------------------------------------
(* What is always true of the tables. *)

(* The unique constraints of models.py. *)
Unique(rows) == \A x, y \in rows : Clash(x, y) => x = y

(* An organization has the owner who created it, a flag its configuration  *)
(* in every environment and the audit entry of its creation.               *)
Whole(rows) == \A x \in rows : Bundle(x) \subseteq rows

(* Whoever has a role in an organization, but for its creator, was given   *)
(* it by one of its owners; API keys are made by owners, projects and      *)
(* flags by members; a flag is in the organization of its project; what    *)
(* belongs to an organization or a flag belongs to one that exists.        *)
Proper(rows) ==
  \A x \in rows :
    /\ x.table = "membership" => x.id = x.of \/ x.by \in Owners(rows, x.of)
    /\ x.table = "api_key" => x.by \in Owners(rows, x.of)
    /\ x.table \in {"project", "flag"} => x.by \in Members(rows, x.of)
    /\ x.table = "flag" =>
         \E y \in rows : y.table = "project" /\ y.id = x.info /\ y.of = x.of
    /\ x.table \in {"membership", "api_key", "project", "flag"} =>
         \E y \in rows : y.table = "organization" /\ y.id = x.of
    /\ x.table \in {"config", "audit"} =>
         \E y \in rows : y.table = "flag" /\ y.id = x.of

ASSUME SeedAssumption == Unique(Seed) /\ Whole(Seed) /\ Proper(Seed)
=============================================================================
