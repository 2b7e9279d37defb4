------------------------- MODULE Migrations_proofs -------------------------
(***************************************************************************)
(* The migrations, for any organizations, projects, keys and number of     *)
(* flags.  What the database is follows from where it is: the revision it  *)
(* is at, the command that runs and how many operations of the migration   *)
(* have run say which tables there are, with which keys, and what the      *)
(* flags are like, but for the name of one key, which says whether 0004    *)
(* was downgraded before (Stage).  Each operation leads from its stage to  *)
(* the next, each stamp from the last stage of a migration to the first of *)
(* the following one, and a commit or a rollback to a stage at rest.       *)
(***************************************************************************)
EXTENDS Migrations, TLAPS

(* The operations that create the tables, in their order; a downgrade      *)
(* drops the tables in the reverse order.                                  *)
Creation(i) ==
  IF i <= 3 THEN upgrade_0001[i]
  ELSE IF i <= 7 THEN upgrade_0002[i - 3] ELSE upgrade_0003[i - 7]

Name(i) == Creation(i).table
Own(i) == Creation(i).constraints

(* The flags' table is the fifth; its keys change. *)
FirstTables(n) == {Name(i) : i \in 1..n}
OtherKeys(n) == UNION {Own(i) : i \in (1..n) \ {5}}

(* How many tables there are at revision `r', or `k' operations into the   *)
(* migration of the command `c' from there.                                *)
Created(r) == IF r = 0 THEN 0 ELSE IF r = 1 THEN 3 ELSE IF r = 2 THEN 7 ELSE 8
TableCount(r, c, k) ==
  IF c = "upgrade" /\ r < 3 THEN Created(r) + k
  ELSE IF c = "downgrade" /\ r < 4 THEN Created(r) - k
  ELSE Created(r)

(* At least `n' operations into 0004, or out of it. *)
Into(r, c, k, n) == r = 3 /\ c = "upgrade" /\ k >= n
OutOf(r, c, k, n) == r = Head4 /\ c = "downgrade" /\ k >= n

HasProjectKey(r, c, k) == (r < Head4 /\ ~Into(r, c, k, 5)) \/ OutOf(r, c, k, 3)
HasOrganization(r, c, k) == Into(r, c, k, 4) \/ (r = Head4 /\ ~OutOf(r, c, k, 2))
HasOrganizationKey(r, c, k) == Into(r, c, k, 6) \/ (r = Head4 /\ ~OutOf(r, c, k, 1))
Filled(r, c, k) == Into(r, c, k, 2) \/ (r = Head4 /\ ~OutOf(r, c, k, 4))
Column(r, c, k) ==
  IF Into(r, c, k, 3) \/ (r = Head4 /\ ~OutOf(r, c, k, 4)) THEN "required"
  ELSE IF Into(r, c, k, 1) THEN "nullable" ELSE "absent"

(* The name of the project's key is another one once 0004 was downgraded. *)
ProjectKey(again) ==
  Unique("flag", {"project_id", "key"},
         IF again THEN "uq_flag_project_key" ELSE "flag_project_id_key_key")

FlagKeys(r, c, k, again) ==
  {ForeignKey("flag", "created_by", "user"), ForeignKey("flag", "project_id", "project")}
    \cup {x \in {ProjectKey(again)} : HasProjectKey(r, c, k)}
    \cup {x \in {FlagOrganization} : HasOrganization(r, c, k)}
    \cup {x \in {OrganizationKey} : HasOrganizationKey(r, c, k)}

Schema(d, n, keys) ==
  /\ d.tables = FirstTables(n)
  /\ d.constraints = OtherKeys(n) \cup {x \in keys : n >= 5}

(* A flag has its key to itself in its project, and, with the new key, in  *)
(* its organization.                                                       *)
FlagsInv(d, n, filled, unique) ==
  /\ n < 5 => d.flags = {}
  /\ \A f \in d.flags :
       /\ f \in [project_id : Projects, key : Keys, organization_id : Orgs \cup {NONE}]
       /\ f.organization_id = IF filled THEN OrgOf[f.project_id] ELSE NONE
  /\ \A f, g \in d.flags :
       /\ f.project_id = g.project_id /\ f.key = g.key => f = g
       /\ unique /\ OrgOf[f.project_id] = OrgOf[g.project_id] /\ f.key = g.key => f = g

Fields(d) ==
  d = [revision |-> d.revision, tables |-> d.tables, constraints |-> d.constraints,
       organization_id |-> d.organization_id, flags |-> d.flags]

(* The database, `k' operations into the migration of the command `c' from *)
(* its revision; `again' says which name the project's key has.            *)
Stage(d, c, k, again) ==
  LET r == d.revision
      n == TableCount(r, c, k)
  IN  /\ Fields(d)
      /\ r \in Revisions /\ n \in 0..8
      /\ Schema(d, n, FlagKeys(r, c, k, again))
      /\ d.organization_id = Column(r, c, k)
      /\ FlagsInv(d, n, Filled(r, c, k), HasOrganizationKey(r, c, k))

-----------------------------------------------------------------------------
(* The inductive invariant. *)

PositionInv ==
  /\ renamed \in BOOLEAN /\ command \in {"upgrade", "downgrade", NONE}
  /\ renamed => db.revision \in 2..3
  /\ command = NONE => target = NONE /\ work = db /\ done = 0
  /\ command # NONE => target \in Revisions
  /\ command = "upgrade" =>
       db.revision < target /\ db.revision <= work.revision /\ work.revision <= target
  /\ command = "downgrade" =>
       target < db.revision /\ target <= work.revision /\ work.revision <= db.revision
  /\ done \in Nat
  /\ done <= IF Running THEN Len(Migration) ELSE 0

(* The name of the project's key in what the command has made. *)
Again == renamed \/ (command = "downgrade" /\ db.revision = Head4)

(* 0004 does not get past the constraint that has another name. *)
BlockedInv ==
  command = "upgrade" /\ ~HasProjectKey(work.revision, command, done) => ~renamed

(* A command adds no flag, and keeps those there are while they have a     *)
(* table.                                                                  *)
Same(f, g) == f.project_id = g.project_id /\ f.key = g.key
KeptInv ==
  /\ \A f \in work.flags : \E g \in db.flags : Same(f, g)
  /\ command = "upgrade" \/ "flag" \in work.tables =>
       \A g \in db.flags : \E f \in work.flags : Same(f, g)

MigrationInvariant ==
  /\ PositionInv
  /\ Stage(db, NONE, 0, renamed)
  /\ Stage(work, command, done, Again)
  /\ BlockedInv
  /\ KeptInv
-----------------------------------------------------------------------------
(* The tables and their keys. *)

LEMMA Names ==
  /\ Name(1) = "user" /\ Name(2) = "organization" /\ Name(3) = "membership"
  /\ Name(4) = "project" /\ Name(5) = "flag" /\ Name(6) = "flag_environment_config"
  /\ Name(7) = "api_key" /\ Name(8) = "audit_log_entry"
  /\ \A i \in 1..8 : Creation(i) = CreateTable(Name(i), Own(i))
<1>1. /\ Creation(1) = upgrade_0001[1] /\ Creation(2) = upgrade_0001[2]
      /\ Creation(3) = upgrade_0001[3] /\ Creation(4) = upgrade_0002[1]
      /\ Creation(5) = upgrade_0002[2] /\ Creation(6) = upgrade_0002[3]
      /\ Creation(7) = upgrade_0002[4] /\ Creation(8) = upgrade_0003[1]
  BY DEF Creation
<1>2. \A i \in 1..8 : i = 1 \/ i = 2 \/ i = 3 \/ i = 4 \/ i = 5 \/ i = 6 \/ i = 7 \/ i = 8
  OBVIOUS
<1>3. \A t, keys : CreateTable(t, keys).table = t /\ CreateTable(t, keys).constraints = keys
  BY DEF CreateTable
<1>4. /\ \E s : upgrade_0001[1] = CreateTable("user", s)
      /\ \E s : upgrade_0001[2] = CreateTable("organization", s)
      /\ \E s : upgrade_0001[3] = CreateTable("membership", s)
  BY DEF upgrade_0001
<1>5. /\ \E s : upgrade_0002[1] = CreateTable("project", s)
      /\ \E s : upgrade_0002[2] = CreateTable("flag", s)
      /\ \E s : upgrade_0002[3] = CreateTable("flag_environment_config", s)
      /\ \E s : upgrade_0002[4] = CreateTable("api_key", s)
  BY DEF upgrade_0002
<1>6. \E s : upgrade_0003[1] = CreateTable("audit_log_entry", s)
  BY DEF upgrade_0003
<1> QED
  BY <1>1, <1>2, <1>3, <1>4, <1>5, <1>6 DEF Name, Own

LEMMA DistinctNames ==
  /\ \A i, j \in 1..8 : Name(i) = Name(j) => i = j
  /\ \A i \in 1..8 : Name(i) \in Tables /\ Name(i) # NONE
<1>1. \A i \in 1..8 : i = 1 \/ i = 2 \/ i = 3 \/ i = 4 \/ i = 5 \/ i = 6 \/ i = 7 \/ i = 8
  OBVIOUS
<1>2. \A i \in 1..8 : Name(i) \in Tables
  BY <1>1, Names DEF Tables
<1>3. \A i, j \in 1..8 : Name(i) = Name(j) => i = j
  BY <1>1, Names
<1> QED
  BY <1>2, <1>3, ProjectsAssumption

(* The keys of a table refer to tables created before it. *)
LEMMA OwnKeys ==
  \A i \in 1..8 : \A x \in Own(i) :
    /\ x.table = Name(i)
    /\ x.refers = NONE \/ \E j \in 1..(i - 1) : x.refers = Name(j)
<1> DEFINE Good(i) ==
      \A x \in Own(i) : /\ x.table = Name(i)
                        /\ x.refers = NONE \/ \E j \in 1..(i - 1) : x.refers = Name(j)
<1>1. \A i \in 1..8 : i = 1 \/ i = 2 \/ i = 3 \/ i = 4 \/ i = 5 \/ i = 6 \/ i = 7 \/ i = 8
  OBVIOUS
<1>2. \A t, column, refers, columns :
        /\ ForeignKey(t, column, refers).table = t
        /\ ForeignKey(t, column, refers).refers = refers
        /\ UniqueConstraint(t, columns).table = t
        /\ UniqueConstraint(t, columns).refers = NONE
  BY DEF ForeignKey, UniqueConstraint, Foreign, Unique
<1>3. Good(1) /\ Good(2) /\ Good(3)
  <2>1. /\ Own(1) = {UniqueConstraint("user", {"email"})}
        /\ Own(2) = {UniqueConstraint("organization", {"slug"})}
        /\ Own(3) = {UniqueConstraint("membership", {"user_id", "organization_id"}),
                     ForeignKey("membership", "organization_id", "organization"),
                     ForeignKey("membership", "user_id", "user")}
    BY DEF Own, Creation, upgrade_0001, CreateTable
  <2>2. Good(1)
    BY <1>2, <2>1, Names
  <2>3. Good(2)
    BY <1>2, <2>1, Names
  <2>4. Good(3)
    BY <1>2, <2>1, Names
  <2> QED
    BY <2>2, <2>3, <2>4
<1>4. Good(4) /\ Good(5) /\ Good(6) /\ Good(7)
  <2>1. /\ Own(4) = {UniqueConstraint("project", {"organization_id", "key"}),
                     ForeignKey("project", "organization_id", "organization")}
        /\ Own(5) = {UniqueConstraint("flag", {"project_id", "key"}),
                     ForeignKey("flag", "created_by", "user"),
                     ForeignKey("flag", "project_id", "project")}
        /\ Own(6) = {UniqueConstraint("flag_environment_config", {"flag_id", "environment"}),
                     ForeignKey("flag_environment_config", "flag_id", "flag")}
        /\ Own(7) = {UniqueConstraint("api_key", {"hashed_key"}),
                     ForeignKey("api_key", "organization_id", "organization")}
    BY DEF Own, Creation, upgrade_0002, CreateTable
  <2>2. Good(4)
    BY <1>2, <2>1, Names
  <2>3. Good(5)
    BY <1>2, <2>1, Names
  <2>4. Good(6)
    BY <1>2, <2>1, Names
  <2>5. Good(7)
    BY <1>2, <2>1, Names
  <2> QED
    BY <2>2, <2>3, <2>4, <2>5
<1>5. Good(8)
  <2>1. Own(8) = {ForeignKey("audit_log_entry", "actor_user_id", "user"),
                  ForeignKey("audit_log_entry", "flag_id", "flag"),
                  ForeignKey("audit_log_entry", "organization_id", "organization")}
    BY DEF Own, Creation, upgrade_0003, CreateTable
  <2> QED
    BY <1>2, <2>1, Names
<1> QED
  BY <1>1, <1>3, <1>4, <1>5

(* One table more. *)
LEMMA OneMore ==
  ASSUME NEW n \in 0..7
  PROVE  /\ FirstTables(n + 1) = FirstTables(n) \cup {Name(n + 1)}
         /\ Name(n + 1) \notin FirstTables(n)
         /\ OtherKeys(n + 1) = OtherKeys(n) \cup {x \in Own(n + 1) : n + 1 # 5}
<1>1. 1..(n + 1) = 1..n \cup {n + 1} /\ n + 1 \in 1..8 /\ n + 1 \notin 1..n
  OBVIOUS
<1>2. FirstTables(n + 1) = FirstTables(n) \cup {Name(n + 1)}
  BY <1>1 DEF FirstTables
<1>3. Name(n + 1) \notin FirstTables(n)
  BY <1>1, DistinctNames DEF FirstTables
<1>4. ASSUME NEW x
      PROVE  x \in OtherKeys(n + 1)
               <=> x \in OtherKeys(n) \cup {y \in Own(n + 1) : n + 1 # 5}
  BY <1>1 DEF OtherKeys
<1> QED
  BY <1>2, <1>3, <1>4

(* The keys of the first tables belong to them and refer to them, and none *)
(* refers to the last.                                                     *)
LEMMA KeysOfTheFirst ==
  ASSUME NEW n \in 0..8, NEW x \in OtherKeys(n)
  PROVE  /\ x.table # "flag" /\ x.table \in FirstTables(n)
         /\ x.refers \in FirstTables(n) \cup {NONE}
         /\ n # 0 => x.refers # Name(n)
<1>1. PICK i \in (1..n) \ {5} : x \in Own(i)
  BY DEF OtherKeys
<1>2. i \in 1..8 /\ x.table = Name(i)
  BY <1>1, OwnKeys
<1>3. x.table # "flag" /\ x.table \in FirstTables(n)
  BY <1>1, <1>2, Names, DistinctNames DEF FirstTables
<1>4. CASE x.refers = NONE
  BY <1>3, <1>4, DistinctNames
<1>5. CASE \E j \in 1..(i - 1) : x.refers = Name(j)
  <2>1. PICK j \in 1..(i - 1) : x.refers = Name(j)
    BY <1>5
  <2>2. j \in 1..n /\ j \in 1..8 /\ n \in 1..8 /\ j # n
    BY <1>1, <1>2
  <2> QED
    BY <1>3, <2>1, <2>2, DistinctNames DEF FirstTables
<1> QED
  BY <1>1, <1>2, <1>4, <1>5, OwnKeys

(* One table less. *)
LEMMA OneLess ==
  ASSUME NEW n \in 1..8
  PROVE  /\ FirstTables(n - 1) = FirstTables(n) \ {Name(n)}
         /\ Name(n) \in FirstTables(n)
         /\ OtherKeys(n - 1) = {x \in OtherKeys(n) : x.table # Name(n)}
<1>1. n - 1 \in 0..7 /\ n - 1 \in 0..8 /\ (n - 1) + 1 = n
  OBVIOUS
<1>2. /\ FirstTables(n) = FirstTables(n - 1) \cup {Name(n)}
      /\ Name(n) \notin FirstTables(n - 1)
      /\ OtherKeys(n) = OtherKeys(n - 1) \cup {x \in Own(n) : n # 5}
  BY <1>1, OneMore
<1>3. \A x \in Own(n) : x.table = Name(n)
  BY OwnKeys
<1>4. \A x \in OtherKeys(n - 1) : x.table # Name(n)
  BY <1>1, <1>2, KeysOfTheFirst
<1> QED
  BY <1>2, <1>3, <1>4

(* The migrations below 0004 create the tables one by one, and drop them.  *)
LEMMA Lengths ==
  /\ Len(Upgrades[1]) = 3 /\ Len(Upgrades[2]) = 4 /\ Len(Upgrades[3]) = 1
  /\ Len(Upgrades[4]) = 6
  /\ Len(Downgrades[1]) = 3 /\ Len(Downgrades[2]) = 4 /\ Len(Downgrades[3]) = 1
  /\ Len(Downgrades[4]) = 4
  BY DEF Upgrades, Downgrades, upgrade_0001, upgrade_0002, upgrade_0003, upgrade_0004,
         downgrade_0001, downgrade_0002, downgrade_0003, downgrade_0004

LEMMA CreationsInOrder ==
  ASSUME NEW r \in 0..2, NEW k \in Nat, k < Len(Upgrades[r + 1])
  PROVE  /\ Upgrades[r + 1][k + 1] = Creation(Created(r) + k + 1)
         /\ Created(r) + k \in 0..7
<1>1. /\ Upgrades[1] = upgrade_0001 /\ Upgrades[2] = upgrade_0002
      /\ Upgrades[3] = upgrade_0003
  BY DEF Upgrades
<1>2. CASE r = 0
  <2>1. r + 1 = 1 /\ Len(Upgrades[r + 1]) = 3
    <3>1. r + 1 = 1
      BY <1>2
    <3> QED
      BY <3>1, Lengths
  <2>2. k = 0 \/ k = 1 \/ k = 2
    BY <2>1
  <2> QED
    BY <1>1, <1>2, <2>1, <2>2 DEF Created, Creation
<1>3. CASE r = 1
  <2>1. r + 1 = 2 /\ Len(Upgrades[r + 1]) = 4
    <3>1. r + 1 = 2
      BY <1>3
    <3> QED
      BY <3>1, Lengths
  <2>2. k = 0 \/ k = 1 \/ k = 2 \/ k = 3
    BY <2>1
  <2> QED
    BY <1>1, <1>3, <2>1, <2>2 DEF Created, Creation
<1>4. CASE r = 2
  <2>1. r + 1 = 3 /\ Len(Upgrades[r + 1]) = 1
    <3>1. r + 1 = 3
      BY <1>4
    <3> QED
      BY <3>1, Lengths
  <2>2. k = 0
    BY <2>1
  <2> QED
    BY <1>1, <1>4, <2>1, <2>2 DEF Created, Creation
<1> QED
  BY <1>2, <1>3, <1>4

LEMMA DropsInOrder ==
  ASSUME NEW r \in 1..3, NEW k \in Nat, k < Len(Downgrades[r])
  PROVE  /\ Downgrades[r][k + 1] = DropTable(Name(Created(r) - k))
         /\ Created(r) - k \in 1..8
<1>1. /\ Downgrades[1] = downgrade_0001 /\ Downgrades[2] = downgrade_0002
      /\ Downgrades[3] = downgrade_0003
  BY DEF Downgrades
<1>2. CASE r = 1
  <2>1. k = 0 \/ k = 1 \/ k = 2
    BY <1>2, Lengths
  <2> QED
    BY <1>1, <1>2, <2>1, Names DEF Created, downgrade_0001
<1>3. CASE r = 2
  <2>1. k = 0 \/ k = 1 \/ k = 2 \/ k = 3
    BY <1>3, Lengths
  <2> QED
    BY <1>1, <1>3, <2>1, Names DEF Created, downgrade_0002
<1>4. CASE r = 3
  <2>1. k = 0
    BY <1>4, Lengths
  <2> QED
    BY <1>1, <1>4, <2>1, Names DEF Created, downgrade_0003
<1> QED
  BY <1>2, <1>3, <1>4

(* The keys of the flags are the flags', and refer to the first tables.    *)
LEMMA KeysOfTheFlags ==
  ASSUME NEW r, NEW c, NEW k, NEW again, NEW x \in FlagKeys(r, c, k, again)
  PROVE  /\ x.table = "flag"
         /\ x.refers \in {NONE, "user", "project", "organization"}
<1>1. \/ x = ForeignKey("flag", "created_by", "user")
      \/ x = ForeignKey("flag", "project_id", "project")
      \/ x = ProjectKey(again) \/ x = FlagOrganization \/ x = OrganizationKey
  BY DEF FlagKeys
<1> QED
  BY <1>1 DEF ForeignKey, ProjectKey, FlagOrganization, OrganizationKey, Foreign, Unique

OfTheFlags(keys) ==
  \A x \in keys : x.table = "flag" /\ x.refers \in {NONE, "user", "project", "organization"}

LEMMA CreateTableStep ==
  ASSUME NEW d, NEW n \in 0..7, NEW keys, Fields(d), Schema(d, n, keys),
         n + 1 = 5 => keys = Own(5)
  PROVE  LET e == Apply(Creation(n + 1), d)
         IN  /\ Applicable(Creation(n + 1), d)
             /\ Fields(e) /\ Schema(e, n + 1, keys)
             /\ e.revision = d.revision /\ e.organization_id = d.organization_id
             /\ e.flags = d.flags
<1> DEFINE op == Creation(n + 1)
<1>1. /\ op = CreateTable(Name(n + 1), Own(n + 1)) /\ n + 1 \in 1..8
      /\ op.do = "create_table" /\ op.table = Name(n + 1) /\ op.constraints = Own(n + 1)
  BY Names DEF CreateTable
<1>2. Apply(op, d) = [d EXCEPT !.tables = @ \cup {Name(n + 1)},
                               !.constraints = @ \cup Own(n + 1)]
  BY <1>1 DEF Apply
<1>3. \A x \in Own(n + 1) : x.refers \in FirstTables(n) \cup {NONE}
  BY <1>1, OwnKeys DEF FirstTables
<1>4. Applicable(op, d)
  BY <1>1, <1>3, OneMore DEF Applicable, Schema
<1> HIDE DEF op
<1>5. /\ Apply(op, d).tables = d.tables \cup {Name(n + 1)}
      /\ Apply(op, d).constraints = d.constraints \cup Own(n + 1)
      /\ Apply(op, d).revision = d.revision /\ Apply(op, d).flags = d.flags
      /\ Apply(op, d).organization_id = d.organization_id
      /\ Fields(Apply(op, d))
  BY <1>2 DEF Fields
<1>6. d.constraints \cup Own(n + 1) = OtherKeys(n + 1) \cup {x \in keys : n + 1 >= 5}
  BY OneMore DEF Schema
<1> QED
  BY <1>4, <1>5, <1>6, OneMore DEF Schema, op

LEMMA DropTableStep ==
  ASSUME NEW d, NEW n \in 1..8, NEW keys, Fields(d), Schema(d, n, keys),
         OfTheFlags(keys)
  PROVE  LET e == Apply(DropTable(Name(n)), d)
         IN  /\ Applicable(DropTable(Name(n)), d)
             /\ Fields(e) /\ Schema(e, n - 1, keys)
             /\ e.revision = d.revision /\ e.organization_id = d.organization_id
             /\ e.flags = IF n = 5 THEN {} ELSE d.flags
<1> DEFINE op == DropTable(Name(n))
<1>1. op.do = "drop_table" /\ op.table = Name(n)
  BY DEF DropTable
<1>2. Name(n) = "flag" <=> n = 5
  BY Names, DistinctNames
<1>3. Apply(op, d) = [d EXCEPT !.tables = @ \ {Name(n)},
                               !.constraints = {x \in @ : x.table # Name(n)},
                               !.flags = IF n = 5 THEN {} ELSE @]
  BY <1>1, <1>2 DEF Apply
<1>4. ASSUME NEW x \in d.constraints, x.refers = Name(n) PROVE x.table = Name(n)
  <2>1. CASE x \in OtherKeys(n)
    BY <1>4, <2>1, KeysOfTheFirst
  <2>2. CASE x \in keys /\ n >= 5
    BY <1>4, <2>2, Names, DistinctNames DEF OfTheFlags
  <2> QED
    BY <2>1, <2>2 DEF Schema
<1>5. Applicable(op, d)
  BY <1>1, <1>4, OneLess DEF Applicable, Schema
<1> HIDE DEF op
<1>6. /\ Apply(op, d).tables = d.tables \ {Name(n)}
      /\ Apply(op, d).constraints = {x \in d.constraints : x.table # Name(n)}
      /\ Apply(op, d).revision = d.revision
      /\ Apply(op, d).flags = IF n = 5 THEN {} ELSE d.flags
      /\ Apply(op, d).organization_id = d.organization_id
      /\ Fields(Apply(op, d))
  BY <1>3 DEF Fields
<1>7. {x \in d.constraints : x.table # Name(n)} = OtherKeys(n - 1) \cup {x \in keys : n - 1 >= 5}
  BY <1>2, OneLess DEF Schema, OfTheFlags
<1> QED
  BY <1>5, <1>6, <1>7, OneLess DEF Schema, op

-----------------------------------------------------------------------------
(* What each operation makes of a stage. *)

BasicKeys == {ForeignKey("flag", "created_by", "user"),
              ForeignKey("flag", "project_id", "project")}

(* Outside 0004 the flags' keys are those their table was created with, or *)
(* the downgrade of 0004 left.                                             *)
LEMMA KeysOutside ==
  ASSUME NEW r \in Revisions, NEW c, NEW k \in Nat, NEW again \in BOOLEAN, r < Head4,
         ~Into(r, c, k, 1)
  PROVE  /\ FlagKeys(r, c, k, again) = BasicKeys \cup {ProjectKey(again)}
         /\ Column(r, c, k) = "absent"
         /\ ~Filled(r, c, k) /\ ~HasOrganizationKey(r, c, k)
<1>1. /\ HasProjectKey(r, c, k) /\ ~HasOrganization(r, c, k)
      /\ ~HasOrganizationKey(r, c, k) /\ ~Filled(r, c, k) /\ Column(r, c, k) = "absent"
  BY DEF HasProjectKey, HasOrganization, HasOrganizationKey, Filled, Column, Into, OutOf,
         Head4, Revisions
<1> QED
  BY <1>1 DEF FlagKeys, BasicKeys

LEMMA KeysCreated == Own(5) = BasicKeys \cup {ProjectKey(FALSE)}
<1>1. Own(5) = {UniqueConstraint("flag", {"project_id", "key"}),
                ForeignKey("flag", "created_by", "user"),
                ForeignKey("flag", "project_id", "project")}
  BY DEF Own, Creation, upgrade_0002, CreateTable
<1>2. UniqueConstraint("flag", {"project_id", "key"}) = ProjectKey(FALSE)
  BY DEF UniqueConstraint, Generated, ProjectKey
<1> QED
  BY <1>1, <1>2 DEF BasicKeys

(* Operations 1 to 8: 0001 to 0003 create the tables.                      *)
LEMMA StageCreate ==
  ASSUME NEW d, NEW k \in Nat, NEW again \in BOOLEAN, Stage(d, "upgrade", k, again),
         d.revision \in 0..2, k < Len(Upgrades[d.revision + 1]),
         d.revision < 2 => ~again
  PROVE  LET op == Upgrades[d.revision + 1][k + 1]
         IN  /\ Applicable(op, d)
             /\ Stage(Apply(op, d), "upgrade", k + 1, again)
             /\ Apply(op, d).revision = d.revision /\ Apply(op, d).flags = d.flags
<1> DEFINE r == d.revision
           n == TableCount(r, "upgrade", k)
           keys == FlagKeys(r, "upgrade", k, again)
           op == Upgrades[r + 1][k + 1]
           e == Apply(op, d)
<1>1. n \in 0..7 /\ op = Creation(n + 1) /\ n = Created(r) + k
  BY CreationsInOrder DEF TableCount
<1>2. /\ Fields(d) /\ Schema(d, n, keys) /\ d.organization_id = Column(r, "upgrade", k)
      /\ FlagsInv(d, n, Filled(r, "upgrade", k), HasOrganizationKey(r, "upgrade", k))
  BY DEF Stage
<1>3. /\ TableCount(r, "upgrade", k + 1) = n + 1
      /\ n + 1 = 5 => r = 1
  BY <1>1, Lengths DEF TableCount, Created
<1>4. /\ r \in Revisions /\ r < Head4 /\ k + 1 \in Nat
      /\ ~Into(r, "upgrade", k, 1) /\ ~Into(r, "upgrade", k + 1, 1)
  BY DEF Revisions, Head4, Into
<1>5. /\ keys = BasicKeys \cup {ProjectKey(again)}
      /\ FlagKeys(r, "upgrade", k + 1, again) = keys
      /\ Column(r, "upgrade", k) = "absent" /\ Column(r, "upgrade", k + 1) = "absent"
      /\ ~Filled(r, "upgrade", k) /\ ~Filled(r, "upgrade", k + 1)
      /\ ~HasOrganizationKey(r, "upgrade", k) /\ ~HasOrganizationKey(r, "upgrade", k + 1)
  BY <1>4, KeysOutside
<1> HIDE DEF r, n, keys, op, e
<1>6. n + 1 = 5 => keys = Own(5)
  <2>1. ~again => ProjectKey(again) = ProjectKey(FALSE)
    BY DEF ProjectKey
  <2> QED
    <3>1. n + 1 = 5 => ~again
      BY <1>3 DEF r
    <3> QED
      BY <1>5, <2>1, <3>1, KeysCreated
<1>7. /\ Applicable(op, d) /\ Fields(e) /\ Schema(e, n + 1, keys)
      /\ e.revision = d.revision /\ e.organization_id = d.organization_id
      /\ e.flags = d.flags
  <2>1. e = Apply(Creation(n + 1), d)
    BY <1>1 DEF e
  <2> QED
    BY <1>1, <1>2, <1>6, <2>1, CreateTableStep
<1>8. FlagsInv(e, n + 1, Filled(r, "upgrade", k + 1), HasOrganizationKey(r, "upgrade", k + 1))
  BY <1>1, <1>2, <1>5, <1>7 DEF FlagsInv
<1>9. Stage(e, "upgrade", k + 1, again)
  <2>1. e.revision = r
    BY <1>7 DEF r
  <2>2. Schema(e, TableCount(r, "upgrade", k + 1), FlagKeys(r, "upgrade", k + 1, again))
    BY <1>3, <1>5, <1>7
  <2>3. e.organization_id = Column(r, "upgrade", k + 1)
    BY <1>2, <1>5, <1>7
  <2>4. FlagsInv(e, TableCount(r, "upgrade", k + 1), Filled(r, "upgrade", k + 1),
                 HasOrganizationKey(r, "upgrade", k + 1))
    BY <1>3, <1>8
  <2>5. r \in Revisions /\ TableCount(r, "upgrade", k + 1) \in 0..8
    BY <1>1, <1>3, <1>4
  <2> QED
    BY <1>7, <2>1, <2>2, <2>3, <2>4, <2>5 DEF Stage
<1> QED
  BY <1>7, <1>9 DEF op, r, e

(* The downgrades of 0003 to 0001 drop them.                               *)
LEMMA StageDrop ==
  ASSUME NEW d, NEW k \in Nat, NEW again \in BOOLEAN, Stage(d, "downgrade", k, again),
         d.revision \in 1..3, k < Len(Downgrades[d.revision])
  PROVE  LET op == Downgrades[d.revision][k + 1]
         IN  /\ Applicable(op, d)
             /\ Stage(Apply(op, d), "downgrade", k + 1, again)
             /\ Apply(op, d).revision = d.revision
             /\ Apply(op, d).flags \subseteq d.flags
             /\ "flag" \in Apply(op, d).tables =>
                  "flag" \in d.tables /\ Apply(op, d).flags = d.flags
<1> DEFINE r == d.revision
           n == TableCount(r, "downgrade", k)
           keys == FlagKeys(r, "downgrade", k, again)
           op == Downgrades[r][k + 1]
           e == Apply(op, d)
<1>1. n \in 1..8 /\ op = DropTable(Name(n)) /\ n = Created(r) - k
  BY DropsInOrder DEF TableCount, Head4
<1>2. /\ Fields(d) /\ Schema(d, n, keys) /\ d.organization_id = Column(r, "downgrade", k)
      /\ FlagsInv(d, n, Filled(r, "downgrade", k), HasOrganizationKey(r, "downgrade", k))
  BY DEF Stage
<1>3. TableCount(r, "downgrade", k + 1) = n - 1
  BY <1>1 DEF TableCount, Created
<1>4. /\ r \in Revisions /\ r < Head4 /\ k + 1 \in Nat
      /\ ~Into(r, "downgrade", k, 1) /\ ~Into(r, "downgrade", k + 1, 1)
  BY DEF Revisions, Head4, Into
<1>5. /\ keys = BasicKeys \cup {ProjectKey(again)}
      /\ FlagKeys(r, "downgrade", k + 1, again) = keys
      /\ Column(r, "downgrade", k) = "absent" /\ Column(r, "downgrade", k + 1) = "absent"
      /\ ~Filled(r, "downgrade", k) /\ ~Filled(r, "downgrade", k + 1)
      /\ ~HasOrganizationKey(r, "downgrade", k)
      /\ ~HasOrganizationKey(r, "downgrade", k + 1)
  BY <1>4, KeysOutside
<1>6. OfTheFlags(keys)
  BY KeysOfTheFlags DEF OfTheFlags
<1> HIDE DEF r, n, keys, op, e
<1>7. /\ Applicable(op, d) /\ Fields(e) /\ Schema(e, n - 1, keys)
      /\ e.revision = d.revision /\ e.organization_id = d.organization_id
      /\ e.flags = IF n = 5 THEN {} ELSE d.flags
  <2>1. e = Apply(DropTable(Name(n)), d)
    BY <1>1 DEF e
  <2> QED
    <3>1. n \in 1..8 /\ Fields(d) /\ Schema(d, n, keys) /\ OfTheFlags(keys)
      BY <1>1, <1>2, <1>6
    <3>2. Applicable(DropTable(Name(n)), d)
      BY <3>1, DropTableStep
    <3>3. Fields(Apply(DropTable(Name(n)), d))
      BY <3>1, DropTableStep
    <3>4. Schema(Apply(DropTable(Name(n)), d), n - 1, keys)
      BY <3>1, DropTableStep
    <3>5. Apply(DropTable(Name(n)), d).flags = IF n = 5 THEN {} ELSE d.flags
      BY <3>1, DropTableStep
    <3> QED
      BY <1>1, <2>1, <3>1, <3>2, <3>3, <3>4, <3>5, DropTableStep
<1>8. /\ FlagsInv(e, n - 1, Filled(r, "downgrade", k + 1),
                  HasOrganizationKey(r, "downgrade", k + 1))
      /\ e.flags \subseteq d.flags
  BY <1>1, <1>2, <1>5, <1>7 DEF FlagsInv
<1>9. Stage(e, "downgrade", k + 1, again)
  <2>1. e.revision = r
    BY <1>7 DEF r
  <2>2. Schema(e, TableCount(r, "downgrade", k + 1), FlagKeys(r, "downgrade", k + 1, again))
    BY <1>3, <1>5, <1>7
  <2>3. e.organization_id = Column(r, "downgrade", k + 1)
    BY <1>2, <1>5, <1>7
  <2>4. FlagsInv(e, TableCount(r, "downgrade", k + 1), Filled(r, "downgrade", k + 1),
                 HasOrganizationKey(r, "downgrade", k + 1))
    BY <1>3, <1>8
  <2>5. r \in Revisions /\ TableCount(r, "downgrade", k + 1) \in 0..8
    BY <1>1, <1>3, <1>4
  <2> QED
    BY <1>7, <2>1, <2>2, <2>3, <2>4, <2>5 DEF Stage
<1>10. "flag" \in e.tables => "flag" \in d.tables /\ e.flags = d.flags
  <2>1. e.tables = d.tables \ {Name(n)}
    BY <1>1, <1>2, <1>7, OneLess DEF Schema
  <2> QED
    BY <1>7, <2>1, Names
<1> QED
  BY <1>7, <1>8, <1>9, <1>10 DEF op, r, e

(* Two positions with the same tables and keys: the end of a migration and *)
(* the start of the next, the start of an upgrade and of a downgrade.      *)
Alike(r1, c1, k1, r2, c2, k2) ==
  /\ TableCount(r1, c1, k1) = TableCount(r2, c2, k2)
  /\ HasProjectKey(r1, c1, k1) <=> HasProjectKey(r2, c2, k2)
  /\ HasOrganization(r1, c1, k1) <=> HasOrganization(r2, c2, k2)
  /\ HasOrganizationKey(r1, c1, k1) <=> HasOrganizationKey(r2, c2, k2)
  /\ Filled(r1, c1, k1) <=> Filled(r2, c2, k2)
  /\ Column(r1, c1, k1) = Column(r2, c2, k2)

LEMMA StageAlike ==
  ASSUME NEW d, NEW e, NEW c1, NEW k1, NEW again1 \in BOOLEAN,
         NEW c2, NEW k2, NEW again2 \in BOOLEAN,
         Stage(d, c1, k1, again1), Fields(e), e.revision \in Revisions,
         e.tables = d.tables, e.constraints = d.constraints,
         e.organization_id = d.organization_id, e.flags = d.flags,
         Alike(d.revision, c1, k1, e.revision, c2, k2),
         TableCount(d.revision, c1, k1) >= 5 /\ HasProjectKey(d.revision, c1, k1)
           => (again1 <=> again2)
  PROVE  Stage(e, c2, k2, again2)
<1> DEFINE r1 == d.revision
           r2 == e.revision
           n == TableCount(r1, c1, k1)
           keys1 == FlagKeys(r1, c1, k1, again1)
           keys2 == FlagKeys(r2, c2, k2, again2)
<1>1. /\ TableCount(r2, c2, k2) = n /\ n \in 0..8
      /\ Column(r2, c2, k2) = Column(r1, c1, k1)
      /\ Filled(r2, c2, k2) <=> Filled(r1, c1, k1)
      /\ HasOrganizationKey(r2, c2, k2) <=> HasOrganizationKey(r1, c1, k1)
  BY DEF Alike, Stage
<1>2. ProjectKey(again1) = ProjectKey(again2) \/ n < 5 \/ ~HasProjectKey(r1, c1, k1)
  BY <1>1 DEF ProjectKey
<1>3. n >= 5 => keys1 = keys2
  BY <1>1, <1>2 DEF Alike, FlagKeys
<1>4. Schema(e, n, keys2)
  BY <1>3 DEF Stage, Schema
<1>5. FlagsInv(e, n, Filled(r2, c2, k2), HasOrganizationKey(r2, c2, k2))
  BY <1>1 DEF Stage, FlagsInv
<1>6. e.organization_id = Column(r2, c2, k2)
  BY <1>1 DEF Stage
<1> QED
  BY <1>1, <1>4, <1>5, <1>6 DEF Stage

(* A migration ends where the next one starts.                             *)
LEMMA StageUp ==
  ASSUME NEW d, NEW again \in BOOLEAN, d.revision \in 0..3,
         Stage(d, "upgrade", Len(Upgrades[d.revision + 1]), again)
  PROVE  LET e == [d EXCEPT !.revision = d.revision + 1]
         IN  Stage(e, "upgrade", 0, again) /\ e.flags = d.flags /\ e.revision = d.revision + 1
<1> DEFINE e == [d EXCEPT !.revision = d.revision + 1]
           k == Len(Upgrades[d.revision + 1])
<1>1. /\ e.revision = d.revision + 1 /\ e.tables = d.tables
      /\ e.constraints = d.constraints /\ e.organization_id = d.organization_id
      /\ e.flags = d.flags /\ Fields(e)
  BY DEF Stage, Fields
<1>2. Alike(d.revision, "upgrade", k, d.revision + 1, "upgrade", 0)
  <2> DEFINE r == d.revision
  <2>1. r = 0 \/ r = 1 \/ r = 2 \/ r = 3
    OBVIOUS
  <2>2. /\ r = 0 => r + 1 = 1 /\ k = 3
        /\ r = 1 => r + 1 = 2 /\ k = 4
        /\ r = 2 => r + 1 = 3 /\ k = 1
        /\ r = 3 => r + 1 = 4 /\ k = 6
    <3>1. /\ r = 0 => r + 1 = 1
          /\ r = 1 => r + 1 = 2
          /\ r = 2 => r + 1 = 3
          /\ r = 3 => r + 1 = 4
      OBVIOUS
    <3> QED
      BY <3>1, Lengths
  <2> HIDE DEF k, r
  <2>3. TableCount(r, "upgrade", k) = TableCount(r + 1, "upgrade", 0)
    BY <2>1, <2>2 DEF TableCount, Created
  <2> QED
    BY <2>1, <2>2, <2>3 DEF Alike, HasProjectKey, HasOrganization, HasOrganizationKey,
       Filled, Column, Into, OutOf, Head4, r
<1>3. e.revision \in Revisions
  BY <1>1 DEF Revisions, Head4
<1> HIDE DEF e, k
<1>4. Stage(d, "upgrade", k, again)
  BY DEF k
<1>5. Alike(d.revision, "upgrade", k, e.revision, "upgrade", 0)
  BY <1>1, <1>2
<1>6. Stage(e, "upgrade", 0, again)
  BY <1>1, <1>3, <1>4, <1>5, StageAlike
<1> QED
  BY <1>1, <1>6 DEF e

LEMMA StageDown ==
  ASSUME NEW d, NEW again \in BOOLEAN, d.revision \in 1..Head4,
         Stage(d, "downgrade", Len(Downgrades[d.revision]), again)
  PROVE  LET e == [d EXCEPT !.revision = d.revision - 1]
         IN  Stage(e, "downgrade", 0, again) /\ e.flags = d.flags /\ e.revision = d.revision - 1
<1> DEFINE e == [d EXCEPT !.revision = d.revision - 1]
           k == Len(Downgrades[d.revision])
<1>1. /\ e.revision = d.revision - 1 /\ e.tables = d.tables
      /\ e.constraints = d.constraints /\ e.organization_id = d.organization_id
      /\ e.flags = d.flags /\ Fields(e)
  BY DEF Stage, Fields
<1>2. Alike(d.revision, "downgrade", k, d.revision - 1, "downgrade", 0)
  <2> DEFINE r == d.revision
  <2>1. r = 1 \/ r = 2 \/ r = 3 \/ r = 4
    BY DEF Head4
  <2>2. /\ r = 1 => r - 1 = 0 /\ k = 3
        /\ r = 2 => r - 1 = 1 /\ k = 4
        /\ r = 3 => r - 1 = 2 /\ k = 1
        /\ r = 4 => r - 1 = 3 /\ k = 4
    BY Lengths
  <2> HIDE DEF k, r
  <2>3. TableCount(r, "downgrade", k) = TableCount(r - 1, "downgrade", 0)
    BY <2>1, <2>2 DEF TableCount, Created
  <2> QED
    BY <2>1, <2>2, <2>3 DEF Alike, HasProjectKey, HasOrganization, HasOrganizationKey,
       Filled, Column, Into, OutOf, Head4, r
<1>3. e.revision \in Revisions
  BY <1>1 DEF Revisions, Head4
<1> HIDE DEF e, k
<1>4. Stage(d, "downgrade", k, again)
  BY DEF k
<1>5. Alike(d.revision, "downgrade", k, e.revision, "downgrade", 0)
  BY <1>1, <1>2
<1>6. Stage(e, "downgrade", 0, again)
  BY <1>1, <1>3, <1>4, <1>5, StageAlike
<1> QED
  BY <1>1, <1>6 DEF e

-----------------------------------------------------------------------------
(* 0004 changes the flags, their column and their keys.                    *)

CreatedBy == ForeignKey("flag", "created_by", "user")
ProjectOf == ForeignKey("flag", "project_id", "project")

LEMMA KeyNames ==
  /\ CreatedBy.table = "flag" /\ ProjectOf.table = "flag"
  /\ FlagOrganization.table = "flag" /\ OrganizationKey.table = "flag"
  /\ CreatedBy.name = "generated" /\ ProjectOf.name = "generated"
  /\ FlagOrganization.name = "fk_flag_organization_id_organization"
  /\ OrganizationKey.name = "uq_flag_organization_key"
  /\ FlagOrganization.refers = "organization" /\ OrganizationKey.refers = NONE
  /\ CreatedBy.columns = {"created_by"} /\ ProjectOf.columns = {"project_id"}
  /\ OrganizationKey.columns = {"organization_id", "key"}
  /\ \A again : /\ ProjectKey(again).table = "flag" /\ ProjectKey(again).refers = NONE
                /\ ProjectKey(again).columns = {"project_id", "key"}
                /\ ProjectKey(again).name = IF again THEN "uq_flag_project_key"
                                            ELSE "flag_project_id_key_key"
<1>1. {"created_by"} # {"project_id", "key"} /\ {"project_id"} # {"project_id", "key"}
  OBVIOUS
<1> QED
  BY <1>1 DEF CreatedBy, ProjectOf, FlagOrganization, OrganizationKey, ProjectKey,
     ForeignKey, Foreign, Unique, Generated

(* All the tables are there, and the constraints of the flags' are these.  *)
LEMMA FlagConstraints ==
  ASSUME NEW d, NEW keys, Schema(d, 8, keys), OfTheFlags(keys)
  PROVE  /\ d.constraints = OtherKeys(8) \cup keys
         /\ {"flag", "project", "organization"} \subseteq d.tables
         /\ \A name : Named(d, "flag", name) = {x \in keys : x.name = name}
         /\ \A x \in OtherKeys(8) : x.table # "flag"
<1>1. d.constraints = OtherKeys(8) \cup keys
  BY DEF Schema
<1>2. \A x \in OtherKeys(8) : x.table # "flag"
  BY KeysOfTheFirst
<1>3. {"flag", "project", "organization"} \subseteq FirstTables(8)
  BY Names DEF FirstTables
<1> QED
  BY <1>1, <1>2, <1>3 DEF Schema, Named, OfTheFlags

LEMMA KeysInto ==
  ASSUME NEW again \in BOOLEAN
  PROVE  /\ \A k \in 0..3 : FlagKeys(3, "upgrade", k, again)
                              = {CreatedBy, ProjectOf, ProjectKey(again)}
         /\ FlagKeys(3, "upgrade", 4, again)
              = {CreatedBy, ProjectOf, ProjectKey(again), FlagOrganization}
         /\ FlagKeys(3, "upgrade", 5, again) = {CreatedBy, ProjectOf, FlagOrganization}
         /\ FlagKeys(3, "upgrade", 6, again)
              = {CreatedBy, ProjectOf, FlagOrganization, OrganizationKey}
  BY DEF FlagKeys, HasProjectKey, HasOrganization, HasOrganizationKey, Into, OutOf, Head4,
         CreatedBy, ProjectOf

LEMMA KeysOutOf ==
  ASSUME NEW again \in BOOLEAN
  PROVE  /\ FlagKeys(4, "downgrade", 0, again)
              = {CreatedBy, ProjectOf, FlagOrganization, OrganizationKey}
         /\ FlagKeys(4, "downgrade", 1, again) = {CreatedBy, ProjectOf, FlagOrganization}
         /\ FlagKeys(4, "downgrade", 2, again) = {CreatedBy, ProjectOf}
         /\ \A k \in 3..4 : FlagKeys(4, "downgrade", k, again)
                              = {CreatedBy, ProjectOf, ProjectKey(again)}
  BY DEF FlagKeys, HasProjectKey, HasOrganization, HasOrganizationKey, Into, OutOf, Head4,
         CreatedBy, ProjectOf

(* What is left to say of a step of 0004 once its keys are known.          *)
LEMMA StageOf ==
  ASSUME NEW e, NEW r \in {3, 4}, NEW c, NEW k \in Nat, NEW again, e.revision = r,
         r = 3 => c = "upgrade",
         Fields(e), Schema(e, 8, FlagKeys(r, c, k, again)),
         e.organization_id = Column(r, c, k),
         FlagsInv(e, 8, Filled(r, c, k), HasOrganizationKey(r, c, k))
  PROVE  Stage(e, c, k, again)
<1>1. TableCount(r, c, k) = 8
  BY DEF TableCount, Created, Head4
<1> QED
  BY <1>1 DEF Stage, Revisions, Head4

LEMMA OfStage ==
  ASSUME NEW d, NEW r \in {3, 4}, NEW c, NEW k \in Nat, NEW again, d.revision = r,
         r = 3 => c = "upgrade", Stage(d, c, k, again)
  PROVE  /\ Fields(d) /\ Schema(d, 8, FlagKeys(r, c, k, again))
         /\ d.organization_id = Column(r, c, k)
         /\ FlagsInv(d, 8, Filled(r, c, k), HasOrganizationKey(r, c, k))
         /\ OfTheFlags(FlagKeys(r, c, k, again))
<1>1. TableCount(r, c, k) = 8
  BY DEF TableCount, Created, Head4
<1> QED
  BY <1>1, KeysOfTheFlags DEF Stage, OfTheFlags

AlikeFlags(F, G) ==
  /\ \A f \in F : \E g \in G : Same(f, g)
  /\ \A g \in G : \E f \in F : Same(f, g)

ClashIn(flags) ==
  \E f, g \in flags :
    f.project_id # g.project_id /\ OrgOf[f.project_id] = OrgOf[g.project_id] /\ f.key = g.key

(* Each operation of the upgrade to 0004 leads to the next stage; two of   *)
(* them may be refused, because of the constraint that has another name,   *)
(* and because of flags with the same key.                                 *)
LEMMA StageInto ==
  ASSUME NEW d, NEW k \in 0..5, NEW again \in BOOLEAN, Stage(d, "upgrade", k, again),
         d.revision = 3
  PROVE  LET op == upgrade_0004[k + 1]
             e == Apply(op, d)
         IN  /\ Applicable(op, d) \/ (k = 4 /\ again) \/ (k = 5 /\ ClashIn(d.flags))
             /\ Applicable(op, d) =>
                  /\ Stage(e, "upgrade", k + 1, again)
                  /\ e.revision = 3 /\ AlikeFlags(e.flags, d.flags)
                  /\ k = 4 => ~again
<1> DEFINE keys == FlagKeys(3, "upgrade", k, again)
           op == upgrade_0004[k + 1]
           e == Apply(op, d)
<1>6. 3 \in {3, 4} /\ k + 1 \in Nat /\ k \in Nat
  OBVIOUS
<1>1. /\ Fields(d) /\ Schema(d, 8, keys) /\ d.organization_id = Column(3, "upgrade", k)
      /\ FlagsInv(d, 8, Filled(3, "upgrade", k), HasOrganizationKey(3, "upgrade", k))
      /\ OfTheFlags(keys)
  BY <1>6, OfStage
<1>2. /\ d.constraints = OtherKeys(8) \cup keys /\ d.tables = FirstTables(8)
      /\ {"flag", "project", "organization"} \subseteq d.tables
      /\ \A name : Named(d, "flag", name) = {x \in keys : x.name = name}
      /\ \A x \in OtherKeys(8) : x.table # "flag"
  BY <1>1, FlagConstraints DEF Schema
<1>3. /\ Column(3, "upgrade", k) = IF k >= 3 THEN "required"
                                   ELSE IF k >= 1 THEN "nullable" ELSE "absent"
      /\ Column(3, "upgrade", k + 1) = IF k + 1 >= 3 THEN "required" ELSE "nullable"
      /\ Filled(3, "upgrade", k) <=> k >= 2
      /\ Filled(3, "upgrade", k + 1) <=> k >= 1
      /\ ~HasOrganizationKey(3, "upgrade", k)
      /\ HasOrganizationKey(3, "upgrade", k + 1) <=> k = 5
  BY DEF Column, Filled, HasOrganizationKey, Into, OutOf, Head4
<1>4. AlikeFlags(d.flags, d.flags)
  BY DEF AlikeFlags, Same
<1>5. \A f \in d.flags :
        /\ f.project_id \in Projects /\ f.key \in Keys
        /\ OrgOf[f.project_id] \in Orgs /\ OrgOf[f.project_id] # NONE
        /\ f.organization_id = IF k >= 2 THEN OrgOf[f.project_id] ELSE NONE
  BY <1>1, <1>3, ProjectsAssumption DEF FlagsInv
<1>7. k = 0 \/ k = 1 \/ k = 2 \/ k = 3 \/ k = 4 \/ k = 5
  OBVIOUS
<1>8. CASE k = 0
  <2>1. op = AddColumn
    BY <1>8 DEF upgrade_0004
  <2>2. Applicable(op, d)
    BY <1>1, <1>2, <1>3, <1>8, <2>1 DEF Applicable, AddColumn
  <2>3. e = [d EXCEPT !.organization_id = "nullable"]
    BY <2>1 DEF Apply, AddColumn
  <2> HIDE DEF e, op
  <2>4. /\ e.tables = d.tables /\ e.constraints = d.constraints /\ e.flags = d.flags
        /\ e.revision = 3 /\ e.organization_id = "nullable" /\ Fields(e)
    BY <1>1, <2>3 DEF Fields
  <2>5. FlagKeys(3, "upgrade", k + 1, again) = keys
    BY <1>8, KeysInto
  <2>6. FlagsInv(e, 8, Filled(3, "upgrade", k + 1), HasOrganizationKey(3, "upgrade", k + 1))
    BY <1>1, <1>3, <1>8, <2>4 DEF FlagsInv
  <2>7. Schema(e, 8, FlagKeys(3, "upgrade", k + 1, again))
    BY <1>1, <2>4, <2>5 DEF Schema
  <2> HIDE DEF keys
  <2>8. Stage(e, "upgrade", k + 1, again)
    BY <1>3, <1>6, <1>8, <2>4, <2>6, <2>7, StageOf
  <2> QED
    BY <1>4, <1>8, <2>2, <2>4, <2>8 DEF e, op
<1>9. CASE k = 1
  <2>1. op = Backfill
    BY <1>9 DEF upgrade_0004
  <2>2. Applicable(op, d)
    BY <1>2, <2>1 DEF Applicable, Backfill
  <2>3. e = [d EXCEPT !.flags = Backfilled(d.flags)]
    BY <2>1 DEF Apply, Backfill
  <2> HIDE DEF e, op
  <2>4. /\ e.tables = d.tables /\ e.constraints = d.constraints
        /\ e.flags = Backfilled(d.flags)
        /\ e.revision = 3 /\ e.organization_id = "nullable" /\ Fields(e)
    BY <1>1, <1>3, <1>9, <2>3 DEF Fields
  <2>5. FlagKeys(3, "upgrade", k + 1, again) = keys
    BY <1>9, KeysInto
  <2>6. ASSUME NEW f \in d.flags
        PROVE  LET g == [f EXCEPT !.organization_id = OrgOf[f.project_id]]
               IN  /\ g.project_id = f.project_id /\ g.key = f.key
                   /\ g.organization_id = OrgOf[f.project_id]
                   /\ g \in [project_id : Projects, key : Keys,
                             organization_id : Orgs \cup {NONE}]
    BY <1>1, <1>5 DEF FlagsInv
  <2>7. FlagsInv(e, 8, TRUE, FALSE)
    <3>1. ASSUME NEW f \in e.flags
          PROVE  /\ f \in [project_id : Projects, key : Keys, organization_id : Orgs \cup {NONE}]
                 /\ f.organization_id = OrgOf[f.project_id]
      BY <2>4, <2>6 DEF Backfilled
    <3>2. ASSUME NEW f \in e.flags, NEW g \in e.flags,
                 f.project_id = g.project_id, f.key = g.key
          PROVE  f = g
      <4>1. PICK x \in d.flags : f = [x EXCEPT !.organization_id = OrgOf[x.project_id]]
        BY <2>4 DEF Backfilled
      <4>2. PICK y \in d.flags : g = [y EXCEPT !.organization_id = OrgOf[y.project_id]]
        BY <2>4 DEF Backfilled
      <4>3. x.project_id = y.project_id /\ x.key = y.key
        BY <2>6, <3>2, <4>1, <4>2
      <4>4. x = y
        BY <1>1, <4>3 DEF FlagsInv
      <4> QED
        BY <4>1, <4>2, <4>4
    <3> QED
      BY <3>1, <3>2 DEF FlagsInv
  <2>8. FlagsInv(e, 8, Filled(3, "upgrade", k + 1), HasOrganizationKey(3, "upgrade", k + 1))
    BY <1>3, <1>9, <2>7 DEF FlagsInv
  <2>9. Schema(e, 8, FlagKeys(3, "upgrade", k + 1, again))
    BY <1>1, <2>4, <2>5 DEF Schema
  <2>10. AlikeFlags(e.flags, d.flags)
    BY <2>4, <2>6 DEF AlikeFlags, Same, Backfilled
  <2> HIDE DEF keys
  <2>11. Stage(e, "upgrade", k + 1, again)
    BY <1>3, <1>6, <1>9, <2>4, <2>8, <2>9, StageOf
  <2> QED
    BY <1>9, <2>2, <2>4, <2>10, <2>11 DEF e, op
<1>10. CASE k = 2
  <2>1. op = NotNull
    BY <1>10 DEF upgrade_0004
  <2>2. Applicable(op, d)
    BY <1>5, <1>10, <2>1 DEF Applicable, NotNull
  <2>3. e = [d EXCEPT !.organization_id = "required"]
    BY <2>1 DEF Apply, NotNull
  <2> HIDE DEF e, op
  <2>4. /\ e.tables = d.tables /\ e.constraints = d.constraints /\ e.flags = d.flags
        /\ e.revision = 3 /\ e.organization_id = "required" /\ Fields(e)
    BY <1>1, <2>3 DEF Fields
  <2>5. FlagKeys(3, "upgrade", k + 1, again) = keys
    BY <1>10, KeysInto
  <2>6. FlagsInv(e, 8, Filled(3, "upgrade", k + 1), HasOrganizationKey(3, "upgrade", k + 1))
    BY <1>1, <1>3, <1>10, <2>4 DEF FlagsInv
  <2>7. Schema(e, 8, FlagKeys(3, "upgrade", k + 1, again))
    BY <1>1, <2>4, <2>5 DEF Schema
  <2> HIDE DEF keys
  <2>8. Stage(e, "upgrade", k + 1, again)
    BY <1>3, <1>6, <1>10, <2>4, <2>6, <2>7, StageOf
  <2> QED
    BY <1>4, <1>10, <2>2, <2>4, <2>8 DEF e, op
<1>11. CASE k = 3
  <2>1. op = AddConstraint(FlagOrganization)
    BY <1>11 DEF upgrade_0004
  <2>2. keys = {CreatedBy, ProjectOf, ProjectKey(again)}
    BY <1>11, KeysInto
  <2>3. Named(d, "flag", "fk_flag_organization_id_organization") = {}
    BY <1>2, <2>2, KeyNames
  <2>4. Holds(FlagOrganization, d.flags)
    BY KeyNames, ProjectsAssumption DEF Holds, Tables
  <2>5. Applicable(op, d)
    BY <1>2, <2>1, <2>3, <2>4, KeyNames DEF Applicable, AddConstraint
  <2>6. e = [d EXCEPT !.constraints = @ \cup {FlagOrganization}]
    BY <2>1 DEF Apply, AddConstraint
  <2> HIDE DEF e, op
  <2>7. /\ e.tables = d.tables /\ e.constraints = d.constraints \cup {FlagOrganization}
        /\ e.flags = d.flags
        /\ e.revision = 3 /\ e.organization_id = "required" /\ Fields(e)
    BY <1>1, <1>3, <1>11, <2>6 DEF Fields
  <2>8. FlagKeys(3, "upgrade", k + 1, again) = keys \cup {FlagOrganization}
    BY <1>11, <2>2, KeysInto
  <2>9. FlagsInv(e, 8, Filled(3, "upgrade", k + 1), HasOrganizationKey(3, "upgrade", k + 1))
    BY <1>1, <1>3, <1>11, <2>7 DEF FlagsInv
  <2> HIDE DEF keys
  <2>10. Schema(e, 8, FlagKeys(3, "upgrade", k + 1, again))
    BY <1>2, <2>7, <2>8 DEF Schema
  <2>11. Stage(e, "upgrade", k + 1, again)
    BY <1>3, <1>6, <1>11, <2>7, <2>9, <2>10, StageOf
  <2> QED
    BY <1>4, <1>11, <2>5, <2>7, <2>11 DEF e, op
<1>12. CASE k = 4
  <2>1. op = DropConstraint("flag_project_id_key_key")
    BY <1>12 DEF upgrade_0004
  <2>2. keys = {CreatedBy, ProjectOf, ProjectKey(again), FlagOrganization}
    BY <1>12, KeysInto
  <2>3. Named(d, "flag", "flag_project_id_key_key")
          = {x \in {ProjectKey(again)} : ~again}
    BY <1>2, <2>2, KeyNames
  <2>4. Applicable(op, d) <=> ~again
    BY <2>1, <2>3 DEF Applicable, DropConstraint
  <2>5. e = [d EXCEPT !.constraints = @ \ Named(d, "flag", "flag_project_id_key_key")]
    BY <2>1 DEF Apply, DropConstraint
  <2> HIDE DEF e, op
  <2>6. ASSUME ~again
        PROVE  /\ Stage(e, "upgrade", k + 1, again)
               /\ e.revision = 3 /\ AlikeFlags(e.flags, d.flags)
    <3>1. /\ e.tables = d.tables /\ e.constraints = d.constraints \ {ProjectKey(again)}
          /\ e.flags = d.flags
          /\ e.revision = 3 /\ e.organization_id = "required" /\ Fields(e)
      BY <1>1, <1>3, <1>12, <2>3, <2>5, <2>6 DEF Fields
    <3>2. FlagKeys(3, "upgrade", k + 1, again) = keys \ {ProjectKey(again)}
      BY <1>12, <2>2, <2>6, KeysInto, KeyNames
    <3>3. FlagsInv(e, 8, Filled(3, "upgrade", k + 1), HasOrganizationKey(3, "upgrade", k + 1))
      BY <1>1, <1>3, <1>12, <3>1 DEF FlagsInv
    <3> HIDE DEF keys
    <3>4. Schema(e, 8, FlagKeys(3, "upgrade", k + 1, again))
      BY <1>2, <3>1, <3>2, KeyNames DEF Schema
    <3>5. Stage(e, "upgrade", k + 1, again)
      BY <1>3, <1>6, <1>12, <3>1, <3>3, <3>4, StageOf
    <3> QED
      BY <1>4, <3>1, <3>5
  <2> QED
    BY <1>12, <2>4, <2>6 DEF e, op
<1>13. CASE k = 5
  <2>1. op = AddConstraint(OrganizationKey)
    BY <1>13 DEF upgrade_0004
  <2>2. keys = {CreatedBy, ProjectOf, FlagOrganization}
    BY <1>13, KeysInto
  <2>3. Named(d, "flag", "uq_flag_organization_key") = {}
    BY <1>2, <2>2, KeyNames
  <2>4. Holds(OrganizationKey, d.flags) <=> ~ClashIn(d.flags)
    <3>1. \A f, g \in d.flags :
            (\A column \in {"organization_id", "key"} : f[column] = g[column] /\ f[column] # NONE)
              <=> OrgOf[f.project_id] = OrgOf[g.project_id] /\ f.key = g.key
      BY <1>5, <1>13, ProjectsAssumption
    <3>2. \A f, g \in d.flags :
            f.key = g.key /\ f # g => f.project_id # g.project_id
      BY <1>1 DEF FlagsInv
    <3>3. Holds(OrganizationKey, d.flags)
            <=> \A f, g \in d.flags :
                  OrgOf[f.project_id] = OrgOf[g.project_id] /\ f.key = g.key => f = g
      BY <3>1, KeyNames DEF Holds
    <3> QED
      BY <3>2, <3>3 DEF ClashIn
  <2>5. Applicable(op, d) <=> ~ClashIn(d.flags)
    BY <2>1, <2>3, <2>4, KeyNames DEF Applicable, AddConstraint
  <2>6. e = [d EXCEPT !.constraints = @ \cup {OrganizationKey}]
    BY <2>1 DEF Apply, AddConstraint
  <2> HIDE DEF e, op
  <2>7. ASSUME ~ClashIn(d.flags)
        PROVE  /\ Stage(e, "upgrade", k + 1, again)
               /\ e.revision = 3 /\ AlikeFlags(e.flags, d.flags)
    <3>1. /\ e.tables = d.tables /\ e.constraints = d.constraints \cup {OrganizationKey}
          /\ e.flags = d.flags
          /\ e.revision = 3 /\ e.organization_id = "required" /\ Fields(e)
      BY <1>1, <1>3, <1>13, <2>6 DEF Fields
    <3>2. FlagKeys(3, "upgrade", k + 1, again) = keys \cup {OrganizationKey}
      BY <1>13, <2>2, KeysInto
    <3>3. FlagsInv(e, 8, Filled(3, "upgrade", k + 1), HasOrganizationKey(3, "upgrade", k + 1))
      BY <1>1, <1>3, <1>13, <2>7, <3>1 DEF FlagsInv, ClashIn
    <3> HIDE DEF keys
    <3>4. Schema(e, 8, FlagKeys(3, "upgrade", k + 1, again))
      BY <1>2, <3>1, <3>2 DEF Schema
    <3>5. Stage(e, "upgrade", k + 1, again)
      BY <1>3, <1>6, <1>13, <3>1, <3>3, <3>4, StageOf
    <3> QED
      BY <1>4, <3>1, <3>5
  <2> QED
    BY <1>13, <2>5, <2>7 DEF e, op
<1> QED
  BY <1>7, <1>8, <1>9, <1>10, <1>11, <1>12, <1>13

(* Each operation of the downgrade of 0004 leads to the next stage.        *)
LEMMA StageOut ==
  ASSUME NEW d, NEW k \in 0..3, NEW again \in BOOLEAN, Stage(d, "downgrade", k, again),
         d.revision = 4, ProjectKey(again).name = "uq_flag_project_key"
  PROVE  LET op == downgrade_0004[k + 1]
             e == Apply(op, d)
         IN  /\ Applicable(op, d)
             /\ Stage(e, "downgrade", k + 1, again)
             /\ e.revision = 4 /\ AlikeFlags(e.flags, d.flags)
<1> DEFINE keys == FlagKeys(4, "downgrade", k, again)
           op == downgrade_0004[k + 1]
           e == Apply(op, d)
<1>1. 4 \in {3, 4} /\ k + 1 \in Nat /\ k \in Nat
  OBVIOUS
<1>2. /\ Fields(d) /\ Schema(d, 8, keys) /\ d.organization_id = Column(4, "downgrade", k)
      /\ FlagsInv(d, 8, Filled(4, "downgrade", k), HasOrganizationKey(4, "downgrade", k))
      /\ OfTheFlags(keys)
  BY <1>1, OfStage
<1>3. /\ d.constraints = OtherKeys(8) \cup keys /\ d.tables = FirstTables(8)
      /\ {"flag", "project", "organization"} \subseteq d.tables
      /\ \A name : Named(d, "flag", name) = {x \in keys : x.name = name}
      /\ \A x \in OtherKeys(8) : x.table # "flag"
  BY <1>2, FlagConstraints DEF Schema
<1>4. /\ Column(4, "downgrade", k) = "required"
      /\ Column(4, "downgrade", k + 1) = IF k = 3 THEN "absent" ELSE "required"
      /\ Filled(4, "downgrade", k)
      /\ Filled(4, "downgrade", k + 1) <=> k # 3
      /\ HasOrganizationKey(4, "downgrade", k) <=> k = 0
      /\ ~HasOrganizationKey(4, "downgrade", k + 1)
  BY DEF Column, Filled, HasOrganizationKey, Into, OutOf, Head4
<1>5. AlikeFlags(d.flags, d.flags)
  BY DEF AlikeFlags, Same
<1>6. \A f \in d.flags :
        /\ f.project_id \in Projects /\ f.key \in Keys
        /\ f.project_id # NONE /\ f.key # NONE
  BY <1>2, ProjectsAssumption DEF FlagsInv
<1>7. k = 0 \/ k = 1 \/ k = 2 \/ k = 3
  OBVIOUS
<1>8. CASE k = 0
  <2>1. op = DropConstraint("uq_flag_organization_key")
    BY <1>8 DEF downgrade_0004
  <2>2. keys = {CreatedBy, ProjectOf, FlagOrganization, OrganizationKey}
    BY <1>8, KeysOutOf
  <2>3. Named(d, "flag", "uq_flag_organization_key") = {OrganizationKey}
    BY <1>3, <2>2, KeyNames
  <2>5. Applicable(op, d)
    BY <2>1, <2>3 DEF Applicable, DropConstraint
  <2>6. e = [d EXCEPT !.constraints = @ \ Named(d, "flag", "uq_flag_organization_key")]
    BY <2>1 DEF Apply, DropConstraint
  <2> HIDE DEF e, op
  <2>7. /\ e.tables = d.tables /\ e.constraints = d.constraints \ {OrganizationKey}
        /\ e.flags = d.flags
        /\ e.revision = 4 /\ e.organization_id = "required" /\ Fields(e)
    BY <1>2, <1>4, <2>3, <2>6 DEF Fields
  <2>8. FlagKeys(4, "downgrade", k + 1, again) = keys \ {OrganizationKey}
    BY <1>8, <2>2, KeysOutOf, KeyNames
  <2>9. FlagsInv(e, 8, Filled(4, "downgrade", k + 1), HasOrganizationKey(4, "downgrade", k + 1))
    BY <1>2, <1>4, <1>8, <2>7 DEF FlagsInv
  <2> HIDE DEF keys
  <2>10. Schema(e, 8, FlagKeys(4, "downgrade", k + 1, again))
    BY <1>3, <2>7, <2>8, KeyNames DEF Schema
  <2>11. Stage(e, "downgrade", k + 1, again)
    BY <1>1, <1>4, <1>8, <2>7, <2>9, <2>10, StageOf
  <2> QED
    BY <1>5, <2>5, <2>7, <2>11 DEF e, op
<1>9. CASE k = 1
  <2>1. op = DropConstraint("fk_flag_organization_id_organization")
    BY <1>9 DEF downgrade_0004
  <2>2. keys = {CreatedBy, ProjectOf, FlagOrganization}
    BY <1>9, KeysOutOf
  <2>3. Named(d, "flag", "fk_flag_organization_id_organization") = {FlagOrganization}
    BY <1>3, <2>2, KeyNames
  <2>5. Applicable(op, d)
    BY <2>1, <2>3 DEF Applicable, DropConstraint
  <2>6. e = [d EXCEPT !.constraints = @ \ Named(d, "flag", "fk_flag_organization_id_organization")]
    BY <2>1 DEF Apply, DropConstraint
  <2> HIDE DEF e, op
  <2>7. /\ e.tables = d.tables /\ e.constraints = d.constraints \ {FlagOrganization}
        /\ e.flags = d.flags
        /\ e.revision = 4 /\ e.organization_id = "required" /\ Fields(e)
    BY <1>2, <1>4, <2>3, <2>6 DEF Fields
  <2>8. FlagKeys(4, "downgrade", k + 1, again) = keys \ {FlagOrganization}
    BY <1>9, <2>2, KeysOutOf, KeyNames
  <2>9. FlagsInv(e, 8, Filled(4, "downgrade", k + 1), HasOrganizationKey(4, "downgrade", k + 1))
    BY <1>2, <1>4, <1>9, <2>7 DEF FlagsInv
  <2> HIDE DEF keys
  <2>10. Schema(e, 8, FlagKeys(4, "downgrade", k + 1, again))
    BY <1>3, <2>7, <2>8, KeyNames DEF Schema
  <2>11. Stage(e, "downgrade", k + 1, again)
    BY <1>1, <1>4, <1>9, <2>7, <2>9, <2>10, StageOf
  <2> QED
    BY <1>5, <2>5, <2>7, <2>11 DEF e, op
<1>10. CASE k = 2
  <2>1. op = AddConstraint(ProjectKey(again))
    <3>1. ProjectKey(again) = Unique("flag", {"project_id", "key"}, "uq_flag_project_key")
      BY DEF ProjectKey, Unique
    <3> QED
      BY <1>10, <3>1 DEF downgrade_0004
  <2>2. keys = {CreatedBy, ProjectOf}
    BY <1>10, KeysOutOf
  <2>3. Named(d, "flag", "uq_flag_project_key") = {}
    BY <1>3, <2>2, KeyNames
  <2>4. Holds(ProjectKey(again), d.flags)
    <3>1. \A f, g \in d.flags :
            (\A column \in {"project_id", "key"} : f[column] = g[column] /\ f[column] # NONE)
              => f.project_id = g.project_id /\ f.key = g.key
      OBVIOUS
    <3> QED
      BY <1>2, <3>1, KeyNames DEF Holds, FlagsInv
  <2>5. Applicable(op, d)
    BY <1>3, <2>1, <2>3, <2>4, KeyNames DEF Applicable, AddConstraint
  <2>6. e = [d EXCEPT !.constraints = @ \cup {ProjectKey(again)}]
    BY <2>1 DEF Apply, AddConstraint
  <2> HIDE DEF e, op
  <2>7. /\ e.tables = d.tables /\ e.constraints = d.constraints \cup {ProjectKey(again)}
        /\ e.flags = d.flags
        /\ e.revision = 4 /\ e.organization_id = "required" /\ Fields(e)
    BY <1>2, <1>4, <2>3, <2>6 DEF Fields
  <2>8. FlagKeys(4, "downgrade", k + 1, again) = keys \cup {ProjectKey(again)}
    BY <1>10, <2>2, KeysOutOf, KeyNames
  <2>9. FlagsInv(e, 8, Filled(4, "downgrade", k + 1), HasOrganizationKey(4, "downgrade", k + 1))
    BY <1>2, <1>4, <1>10, <2>7 DEF FlagsInv
  <2> HIDE DEF keys
  <2>10. Schema(e, 8, FlagKeys(4, "downgrade", k + 1, again))
    BY <1>3, <2>7, <2>8, KeyNames DEF Schema
  <2>11. Stage(e, "downgrade", k + 1, again)
    BY <1>1, <1>4, <1>10, <2>7, <2>9, <2>10, StageOf
  <2> QED
    BY <1>5, <2>5, <2>7, <2>11 DEF e, op
<1>11. CASE k = 3
  <2>1. op = DropColumn
    BY <1>11 DEF downgrade_0004
  <2>2. keys = {CreatedBy, ProjectOf, ProjectKey(again)}
    BY <1>11, KeysOutOf
  <2>3. \A x \in d.constraints : x.table = "flag" => "organization_id" \notin x.columns
    BY <1>3, <2>2, KeyNames
  <2>4. Applicable(op, d)
    BY <1>2, <1>4, <2>1 DEF Applicable, DropColumn
  <2> DEFINE Emptied == {[f EXCEPT !.organization_id = NONE] : f \in d.flags}
  <2>5. e = [d EXCEPT !.organization_id = "absent",
                      !.constraints =
                        {x \in @ : x.table = "flag" => "organization_id" \notin x.columns},
                      !.flags = Emptied]
    BY <2>1 DEF Apply, DropColumn
  <2> HIDE DEF e, op
  <2>6. /\ e.tables = d.tables /\ e.constraints = d.constraints /\ e.flags = Emptied
        /\ e.revision = 4 /\ e.organization_id = "absent" /\ Fields(e)
    <3> HIDE DEF Emptied
    <3>1. {x \in d.constraints : x.table = "flag" => "organization_id" \notin x.columns}
            = d.constraints
      BY <2>3
    <3> QED
      BY <1>2, <2>5, <3>1 DEF Fields
  <2>7. ASSUME NEW f \in d.flags
        PROVE  LET g == [f EXCEPT !.organization_id = NONE]
               IN  /\ g.project_id = f.project_id /\ g.key = f.key
                   /\ g.organization_id = NONE
                   /\ g \in [project_id : Projects, key : Keys,
                             organization_id : Orgs \cup {NONE}]
    BY <1>2 DEF FlagsInv
  <2>8. ASSUME NEW f \in e.flags, NEW g \in e.flags,
               f.project_id = g.project_id, f.key = g.key
        PROVE  f = g
    <3>1. PICK x \in d.flags : f = [x EXCEPT !.organization_id = NONE]
      BY <2>6
    <3>2. PICK y \in d.flags : g = [y EXCEPT !.organization_id = NONE]
      BY <2>6
    <3>3. x.project_id = y.project_id /\ x.key = y.key
      BY <2>7, <2>8, <3>1, <3>2
    <3>4. x = y
      BY <1>2, <3>3 DEF FlagsInv
    <3> QED
      BY <3>1, <3>2, <3>4
  <2>9. FlagsInv(e, 8, Filled(4, "downgrade", k + 1), HasOrganizationKey(4, "downgrade", k + 1))
    BY <1>4, <1>11, <2>6, <2>7, <2>8 DEF FlagsInv
  <2>10. AlikeFlags(e.flags, d.flags)
    BY <2>6, <2>7 DEF AlikeFlags, Same
  <2>11. FlagKeys(4, "downgrade", k + 1, again) = keys
    BY <1>11, <2>2, KeysOutOf
  <2> HIDE DEF keys, Emptied
  <2>12. Schema(e, 8, FlagKeys(4, "downgrade", k + 1, again))
    BY <1>2, <2>6, <2>11 DEF Schema
  <2>13. Stage(e, "downgrade", k + 1, again)
    BY <1>1, <1>4, <1>11, <2>6, <2>9, <2>12, StageOf
  <2> QED
    BY <2>4, <2>6, <2>10, <2>13 DEF e, op
<1> QED
  BY <1>7, <1>8, <1>9, <1>10, <1>11

-----------------------------------------------------------------------------
(* The operations of a command, wherever it is.                            *)

LEMMA AtRest ==
  ASSUME NEW r \in Revisions, NEW c1, NEW c2
  PROVE  /\ Alike(r, c1, 0, r, c2, 0)
         /\ HasProjectKey(r, c1, 0) <=> r # Head4
         /\ TableCount(r, c1, 0) = Created(r)
         /\ Filled(r, c1, 0) <=> r = Head4
         /\ HasOrganizationKey(r, c1, 0) <=> r = Head4
         /\ Column(r, c1, 0) = IF r = Head4 THEN "required" ELSE "absent"
<1>1. /\ \A c : /\ HasProjectKey(r, c, 0) <=> r # Head4
                /\ HasOrganization(r, c, 0) <=> r = Head4
                /\ HasOrganizationKey(r, c, 0) <=> r = Head4
                /\ Filled(r, c, 0) <=> r = Head4
                /\ Column(r, c, 0) = IF r = Head4 THEN "required" ELSE "absent"
  BY DEF HasProjectKey, HasOrganization, HasOrganizationKey, Filled, Column, Into, OutOf,
         Revisions, Head4
<1>2. \A c : TableCount(r, c, 0) = Created(r)
  BY DEF TableCount, Created, Revisions
<1> QED
  BY <1>1, <1>2 DEF Alike

LEMMA AlsoAtRest ==
  ASSUME NEW d, NEW c1, NEW c2, NEW again \in BOOLEAN, Stage(d, c1, 0, again)
  PROVE  Stage(d, c2, 0, again)
<1>1. Fields(d) /\ d.revision \in Revisions
  BY DEF Stage
<1>2. Alike(d.revision, c1, 0, d.revision, c2, 0)
  BY <1>1, AtRest
<1> QED
  BY <1>1, <1>2, StageAlike

LEMMA UpgradeLength == \A r \in 0..3 : Len(Upgrades[r + 1]) \in 1..6
<1>1. SUFFICES ASSUME NEW s \in 1..4 PROVE Len(Upgrades[s]) \in 1..6
  OBVIOUS
<1>2. s = 1 \/ s = 2 \/ s = 3 \/ s = 4
  OBVIOUS
<1> QED
  BY <1>2, Lengths

LEMMA DowngradeLength == \A r \in 1..4 : Len(Downgrades[r]) \in 1..6
<1>1. SUFFICES ASSUME NEW s \in 1..4 PROVE Len(Downgrades[s]) \in 1..6
  OBVIOUS
<1>2. s = 1 \/ s = 2 \/ s = 3 \/ s = 4
  OBVIOUS
<1> QED
  BY <1>2, Lengths

(* Where a command is, and the migration it is at. *)
LEMMA Positions ==
  ASSUME MigrationInvariant, Running
  PROVE  /\ \/ /\ command = "upgrade" /\ work.revision \in 0..3
               /\ Migration = Upgrades[work.revision + 1]
            \/ /\ command = "downgrade" /\ work.revision \in 1..Head4
               /\ Migration = Downgrades[work.revision]
         /\ Len(Migration) \in 1..6
         /\ done \in 0..Len(Migration)
<1>1. /\ work.revision \in 0..4 /\ db.revision \in 0..4
  BY DEF MigrationInvariant, Stage, Revisions, Head4
<1>2. /\ command \in {"upgrade", "downgrade"} /\ target \in 0..4 /\ work.revision # target
      /\ done \in Nat /\ done <= Len(Migration)
  BY DEF MigrationInvariant, PositionInv, Running, Revisions, Head4
<1>3. \A r \in 0..3 : Len(Upgrades[r + 1]) \in 1..6
  BY UpgradeLength
<1>4. \A r \in 1..4 : Len(Downgrades[r]) \in 1..6
  BY DowngradeLength
<1>5. CASE command = "upgrade"
  <2>1. work.revision \in 0..3
    BY <1>1, <1>2, <1>5 DEF MigrationInvariant, PositionInv
  <2>2. Migration = Upgrades[work.revision + 1]
    BY <1>5 DEF Migration
  <2>3. Len(Migration) \in 1..6
    BY <1>3, <2>1, <2>2
  <2> QED
    BY <1>2, <1>5, <2>1, <2>2, <2>3
<1>6. CASE command = "downgrade"
  <2>1. work.revision \in 1..Head4
    BY <1>1, <1>2, <1>6 DEF MigrationInvariant, PositionInv, Head4
  <2>2. Migration = Downgrades[work.revision]
    BY <1>6 DEF Migration
  <2>3. Len(Migration) \in 1..6
    BY <1>4, <2>1, <2>2 DEF Head4
  <2> QED
    BY <1>2, <1>6, <2>1, <2>2, <2>3
<1> QED
  BY <1>2, <1>5, <1>6

LEMMA AgainInUpgrade ==
  ASSUME MigrationInvariant
  PROVE  /\ Again \in BOOLEAN
         /\ command = "upgrade" => (Again <=> renamed)
         /\ work.revision < 2 /\ command = "upgrade" => ~Again
         /\ work.revision = Head4 /\ command = "downgrade" => Again
<1>1. /\ renamed \in BOOLEAN /\ renamed => db.revision \in 2..3
      /\ command = "upgrade" => db.revision <= work.revision
      /\ command = "downgrade" => work.revision <= db.revision
      /\ work.revision \in 0..4 /\ db.revision \in 0..4
  BY DEF MigrationInvariant, PositionInv, Stage, Revisions, Head4
<1>2. Again \in BOOLEAN
  BY <1>1 DEF Again
<1>3. command = "upgrade" => (Again <=> renamed)
  BY DEF Again
<1>4. work.revision < 2 /\ command = "upgrade" => ~Again
  <2>1. work.revision < 2 /\ command = "upgrade" => ~renamed
    <3> SUFFICES ASSUME work.revision < 2, command = "upgrade", renamed PROVE FALSE
      OBVIOUS
    <3>1. db.revision \in 2..3 /\ db.revision <= work.revision
      BY <1>1
    <3> QED
      BY <1>1, <3>1
  <2> QED
    BY <1>3, <2>1
<1>5. work.revision = Head4 /\ command = "downgrade" => Again
  BY <1>1 DEF Again, Head4
<1> QED
  BY <1>2, <1>3, <1>4, <1>5

(* No operation is refused but two of 0004; what is not refused leads to   *)
(* the next stage, and keeps the flags.                                    *)
LEMMA Operations ==
  ASSUME MigrationInvariant, InMigration
  PROVE  LET e == Apply(Operation, work)
         IN  /\ \/ Applicable(Operation, work)
                \/ command = "upgrade" /\ (renamed \/ KeysClash)
             /\ Applicable(Operation, work) =>
                  /\ Stage(e, command, done + 1, Again)
                  /\ e.revision = work.revision
                  /\ \A f \in e.flags : \E g \in work.flags : Same(f, g)
                  /\ command = "upgrade" \/ "flag" \in e.tables =>
                       \A g \in work.flags : \E f \in e.flags : Same(f, g)
                  /\ command = "upgrade" \/ ("flag" \in e.tables => "flag" \in work.tables)
                  /\ command = "upgrade" /\ work.revision = 3 /\ done = 4 => ~renamed
<1>1. /\ \/ /\ command = "upgrade" /\ work.revision \in 0..3
            /\ Migration = Upgrades[work.revision + 1]
         \/ /\ command = "downgrade" /\ work.revision \in 1..Head4
            /\ Migration = Downgrades[work.revision]
      /\ Len(Migration) \in 1..6 /\ done \in Nat /\ done < Len(Migration)
  BY Positions DEF InMigration
<1>2. Stage(work, command, done, Again)
  BY DEF MigrationInvariant
<1>3. /\ Again \in BOOLEAN
      /\ command = "upgrade" => (Again <=> renamed)
      /\ work.revision < 2 /\ command = "upgrade" => ~Again
      /\ work.revision = Head4 /\ command = "downgrade" => Again
  BY AgainInUpgrade
<1>4. \A f \in work.flags : Same(f, f)
  BY DEF Same
<1> HIDE DEF MigrationInvariant, Again
<1>5. CASE command = "upgrade" /\ work.revision \in 0..2
  <2>1. /\ work.revision + 1 \in 1..3 /\ work.revision \in 0..2 /\ work.revision # 3
        /\ Migration = Upgrades[work.revision + 1] /\ done < Len(Upgrades[work.revision + 1])
        /\ Operation = Upgrades[work.revision + 1][done + 1]
        /\ command # "downgrade"
    BY <1>1, <1>5 DEF Operation
  <2>2. /\ Applicable(Operation, work)
        /\ Stage(Apply(Operation, work), "upgrade", done + 1, Again)
        /\ Apply(Operation, work).revision = work.revision
        /\ Apply(Operation, work).flags = work.flags
    BY <1>1, <1>2, <1>3, <1>5, <2>1, StageCreate
  <2> QED
    BY <1>4, <1>5, <2>1, <2>2
<1>6. CASE command = "upgrade" /\ work.revision = 3
  <2>1. 3 + 1 = 4 /\ Upgrades[4] = upgrade_0004 /\ command # "downgrade"
    BY <1>6 DEF Upgrades
  <2>2. Migration = upgrade_0004 /\ Operation = upgrade_0004[done + 1] /\ done \in 0..5
    BY <1>1, <1>6, <2>1, Lengths DEF Operation
  <2>3. /\ \/ Applicable(Operation, work)
           \/ (done = 4 /\ Again) \/ (done = 5 /\ ClashIn(work.flags))
        /\ Applicable(Operation, work) =>
             /\ Stage(Apply(Operation, work), "upgrade", done + 1, Again)
             /\ Apply(Operation, work).revision = 3
             /\ AlikeFlags(Apply(Operation, work).flags, work.flags)
             /\ done = 4 => ~Again
    <3>1. Stage(work, "upgrade", done, Again) /\ Again \in BOOLEAN /\ work.revision = 3
      BY <1>2, <1>3, <1>6
    <3> QED
      BY <2>2, <3>1, StageInto
  <2>4. ClashIn(work.flags) => KeysClash
    BY DEF ClashIn, KeysClash, MigrationInvariant, KeptInv, Same
  <2> QED
    BY <1>3, <1>6, <2>3, <2>4 DEF AlikeFlags
<1>7. CASE command = "downgrade" /\ work.revision \in 1..3
  <2>1. /\ Migration = Downgrades[work.revision] /\ done < Len(Downgrades[work.revision])
        /\ Operation = Downgrades[work.revision][done + 1]
        /\ command # "upgrade"
    BY <1>1, <1>7 DEF Operation
  <2>2. /\ Applicable(Operation, work)
        /\ Stage(Apply(Operation, work), "downgrade", done + 1, Again)
        /\ Apply(Operation, work).revision = work.revision
        /\ Apply(Operation, work).flags \subseteq work.flags
        /\ "flag" \in Apply(Operation, work).tables =>
             "flag" \in work.tables /\ Apply(Operation, work).flags = work.flags
    <3>1. Stage(work, "downgrade", done, Again) /\ Again \in BOOLEAN
      BY <1>2, <1>3, <1>7
    <3> QED
      BY <1>1, <1>7, <2>1, <3>1, StageDrop
  <2> QED
    BY <1>4, <1>7, <2>1, <2>2
<1>8. CASE command = "downgrade" /\ work.revision = Head4
  <2>1. Downgrades[4] = downgrade_0004 /\ command # "upgrade" /\ work.revision = 4
    BY <1>8 DEF Downgrades, Head4
  <2>2. Migration = downgrade_0004 /\ Operation = downgrade_0004[done + 1] /\ done \in 0..3
    <3>1. Migration = Downgrades[4] /\ Len(Downgrades[4]) = 4
      BY <1>1, <2>1, Lengths
    <3> QED
      BY <1>1, <2>1, <3>1 DEF Operation
  <2>3. ProjectKey(Again).name = "uq_flag_project_key"
    BY <1>3, <1>8, KeyNames
  <2>4. /\ Applicable(Operation, work)
        /\ Stage(Apply(Operation, work), "downgrade", done + 1, Again)
        /\ Apply(Operation, work).revision = 4
        /\ AlikeFlags(Apply(Operation, work).flags, work.flags)
    <3>1. Again \in BOOLEAN
      BY <1>3
    <3> QED
      BY <1>2, <1>8, <2>1, <2>2, <2>3, <3>1, StageOut
  <2>5. "flag" \in work.tables
    <3>1. 4 \in {3, 4} /\ done \in Nat /\ Stage(work, "downgrade", done, Again)
      BY <1>1, <1>2, <1>8
    <3> QED
      BY <2>1, <3>1, OfStage, FlagConstraints
  <2> QED
    BY <1>8, <2>1, <2>4, <2>5 DEF AlikeFlags
<1> QED
  BY <1>1, <1>5, <1>6, <1>7, <1>8 DEF Head4

-----------------------------------------------------------------------------
(* The invariant is inductive. *)

LEMMA MigrationInit == Init => MigrationInvariant
<1> SUFFICES ASSUME Init PROVE MigrationInvariant
  OBVIOUS
<1>1. /\ db = Empty /\ work = Empty /\ command = NONE /\ target = NONE /\ done = 0
      /\ renamed = FALSE
  BY DEF Init
<1>2. command # "upgrade" /\ command # "downgrade"
  BY <1>1, ProjectsAssumption
<1>3. 0 \in Revisions /\ 0 # Head4
  BY DEF Revisions, Head4
<1>4. \A again : Stage(Empty, NONE, 0, again)
  <2>1. /\ Empty.revision = 0 /\ Empty.tables = {} /\ Empty.constraints = {}
        /\ Empty.organization_id = "absent" /\ Empty.flags = {} /\ Fields(Empty)
    BY DEF Empty, Fields
  <2>2. TableCount(0, NONE, 0) = 0 /\ Column(0, NONE, 0) = "absent"
    BY <1>3, AtRest DEF Created
  <2>3. FirstTables(0) = {} /\ OtherKeys(0) = {}
    BY DEF FirstTables, OtherKeys
  <2>4. \A keys : Schema(Empty, 0, keys)
    BY <2>1, <2>3 DEF Schema
  <2>5. \A filled, unique : FlagsInv(Empty, 0, filled, unique)
    BY <2>1 DEF FlagsInv
  <2> QED
    BY <1>3, <2>1, <2>2, <2>4, <2>5 DEF Stage
<1>5. PositionInv
  <2>1. ~Running
    BY <1>1 DEF Running
  <2>2. renamed \in BOOLEAN /\ ~renamed
    BY <1>1
  <2>3. done \in Nat /\ done <= IF Running THEN Len(Migration) ELSE 0
    BY <1>1, <2>1
  <2> QED
    BY <1>1, <1>2, <2>2, <2>3 DEF PositionInv
<1>6. BlockedInv /\ KeptInv
  BY <1>1, <1>2 DEF BlockedInv, KeptInv, Empty
<1> QED
  BY <1>1, <1>4, <1>5, <1>6 DEF MigrationInvariant

(* A command begins with the database as it is. *)
LEMMA Begins ==
  ASSUME MigrationInvariant, NEW to \in Revisions, Upgrade(to) \/ Downgrade(to)
  PROVE  MigrationInvariant'
<1>1. /\ command = NONE /\ work' = db /\ done' = 0 /\ target' = to
      /\ UNCHANGED <<db, renamed>>
      /\ \/ command' = "upgrade" /\ db.revision < to
         \/ command' = "downgrade" /\ to < db.revision
  BY DEF Upgrade, Downgrade
<1>2. /\ Stage(db, NONE, 0, renamed) /\ renamed \in BOOLEAN
      /\ renamed => db.revision \in 2..3
      /\ db.revision \in 0..4
  BY DEF MigrationInvariant, PositionInv, Stage, Revisions, Head4
<1>3. \A c : Stage(db, c, 0, renamed)
  BY <1>2, AlsoAtRest
<1>4. Again' <=> renamed \/ (command' = "downgrade" /\ db.revision = Head4)
  BY <1>1 DEF Again
<1>5. Stage(work', command', done', Again')
  <2>1. CASE db.revision = Head4
    <3>1. Fields(db) /\ db.revision \in Revisions /\ Again' \in BOOLEAN
      BY <1>2, <1>4 DEF Stage
    <3>2. Alike(db.revision, NONE, 0, db.revision, command', 0)
      BY <3>1, AtRest
    <3>3. ~HasProjectKey(db.revision, NONE, 0)
      BY <2>1, <3>1, AtRest
    <3>4. Stage(db, command', 0, Again')
      BY <1>2, <3>1, <3>2, <3>3, StageAlike
    <3> QED
      BY <1>1, <3>4
  <2>2. CASE db.revision # Head4
    <3>1. Again' = renamed
      BY <1>2, <1>4, <2>2
    <3> QED
      BY <1>1, <1>3, <3>1
  <2> QED
    BY <2>1, <2>2
<1>6. PositionInv'
  <2>1. /\ command' \in {"upgrade", "downgrade", NONE} /\ target' \in Revisions
        /\ command' # NONE
    BY <1>1, ProjectsAssumption
  <2>2. /\ command' = "upgrade" => db'.revision < target' /\ db'.revision <= work'.revision
                                   /\ work'.revision <= target'
        /\ command' = "downgrade" => target' < db'.revision /\ target' <= work'.revision
                                     /\ work'.revision <= db'.revision
    BY <1>1, <1>2 DEF Revisions, Head4
  <2>3. Running' => Len(Migration') >= 0
    <3>1. CASE command' = "upgrade"
      <4>1. db.revision \in 0..3 /\ Migration' = Upgrades[db.revision + 1]
        BY <1>1, <1>2, <3>1 DEF Migration, Revisions, Head4
      <4> QED
        BY <4>1, UpgradeLength
    <3>2. CASE command' = "downgrade"
      <4>1. db.revision \in 1..4 /\ Migration' = Downgrades[db.revision]
        BY <1>1, <1>2, <3>2 DEF Migration, Revisions, Head4
      <4> QED
        BY <4>1, DowngradeLength
    <3> QED
      BY <1>1, <3>1, <3>2
  <2>4. done' \in Nat /\ done' <= IF Running' THEN Len(Migration') ELSE 0
    BY <1>1, <2>3
  <2> QED
    BY <1>1, <1>2, <2>1, <2>2, <2>4 DEF PositionInv
<1>7. BlockedInv'
  <2>1. CASE command' = "upgrade"
    <3>1. db.revision \in Revisions /\ db.revision # Head4
      BY <1>1, <1>2, <2>1 DEF Revisions, Head4
    <3>2. HasProjectKey(db.revision, command', 0)
      BY <3>1, AtRest
    <3> QED
      BY <1>1, <3>2 DEF BlockedInv
  <2> QED
    BY <2>1 DEF BlockedInv
<1>8. KeptInv'
  BY <1>1 DEF KeptInv, Same
<1>9. Stage(db, NONE, 0, renamed)'
  BY <1>1, <1>2 DEF Stage, Fields, Schema, FlagsInv
<1> QED
  BY <1>5, <1>6, <1>7, <1>8, <1>9 DEF MigrationInvariant

(* An operation leads to the next stage. *)
LEMMA Runs ==
  ASSUME MigrationInvariant, Run
  PROVE  MigrationInvariant'
<1>1. /\ InMigration /\ Applicable(Operation, work)
      /\ work' = Apply(Operation, work) /\ done' = done + 1
      /\ UNCHANGED <<db, command, target, renamed>>
  BY DEF Run
<1>2. /\ Stage(work', command, done', Again) /\ work'.revision = work.revision
      /\ \A f \in work'.flags : \E g \in work.flags : Same(f, g)
      /\ command = "upgrade" \/ "flag" \in work'.tables =>
           \A g \in work.flags : \E f \in work'.flags : Same(f, g)
      /\ command = "upgrade" \/ ("flag" \in work'.tables => "flag" \in work.tables)
      /\ command = "upgrade" /\ work.revision = 3 /\ done = 4 => ~renamed
  BY <1>1, Operations
<1>3. Stage(work', command', done', Again')
  <2>1. Again' = Again
    BY <1>1 DEF Again
  <2> QED
    BY <1>1, <1>2, <2>1
<1>4. Stage(db, NONE, 0, renamed)'
  BY <1>1 DEF MigrationInvariant, Stage, Fields, Schema, FlagsInv
<1>5. PositionInv'
  <2>1. /\ Running /\ done < Len(Migration) /\ done \in Nat /\ Len(Migration) \in 1..6
    BY <1>1, Positions DEF InMigration
  <2>2. Running' /\ Len(Migration') = Len(Migration)
    BY <1>1, <1>2, <2>1 DEF Running, Migration
  <2>3. done' \in Nat /\ done' <= IF Running' THEN Len(Migration') ELSE 0
    BY <1>1, <2>1, <2>2
  <2>4. command # NONE
    BY <2>1 DEF Running
  <2> QED
    BY <1>1, <1>2, <2>3, <2>4 DEF PositionInv, MigrationInvariant
<1>6. BlockedInv'
  <2>1. SUFFICES ASSUME command = "upgrade", ~HasProjectKey(work.revision, "upgrade", done + 1)
                 PROVE  ~renamed
    BY <1>1, <1>2 DEF BlockedInv
  <2>2. CASE ~HasProjectKey(work.revision, "upgrade", done)
    BY <2>1, <2>2 DEF MigrationInvariant, BlockedInv
  <2>3. CASE HasProjectKey(work.revision, "upgrade", done)
    <3>1. work.revision = 3 /\ done = 4
      BY <1>1, <2>1, <2>3, Positions DEF HasProjectKey, Into, OutOf, InMigration
    <3> QED
      BY <1>2, <2>1, <3>1
  <2> QED
    BY <2>2, <2>3
<1>7. KeptInv'
  <2>1. ASSUME NEW f \in work'.flags PROVE \E g \in db.flags : Same(f, g)
    <3>1. PICK h \in work.flags : Same(f, h)
      BY <1>2
    <3>2. PICK g \in db.flags : Same(h, g)
      BY DEF MigrationInvariant, KeptInv
    <3> QED
      BY <3>1, <3>2 DEF Same
  <2>2. ASSUME command = "upgrade" \/ "flag" \in work'.tables, NEW g \in db.flags
        PROVE  \E f \in work'.flags : Same(f, g)
    <3>1. PICK h \in work.flags : Same(h, g)
      BY <1>2, <2>2 DEF MigrationInvariant, KeptInv
    <3>2. PICK f \in work'.flags : Same(f, h)
      BY <1>2, <2>2
    <3> QED
      BY <3>1, <3>2 DEF Same
  <2> QED
    BY <1>1, <2>1, <2>2 DEF KeptInv, Same
<1> QED
  BY <1>3, <1>4, <1>5, <1>6, <1>7 DEF MigrationInvariant

(* Where a migration ends the next one starts. *)
LEMMA Stamps ==
  ASSUME MigrationInvariant, Stamp
  PROVE  MigrationInvariant'
<1>1. /\ Running /\ done = Len(Migration) /\ done' = 0
      /\ work' = [work EXCEPT !.revision = IF command = "upgrade" THEN @ + 1 ELSE @ - 1]
      /\ UNCHANGED <<db, command, target, renamed>>
  BY DEF Stamp
<1>2. Stage(work, command, done, Again) /\ Again \in BOOLEAN
  BY AgainInUpgrade DEF MigrationInvariant
<1>3. Again' = Again
  BY <1>1 DEF Again
<1>4. /\ work.revision # target /\ target \in 0..4 /\ command # NONE
      /\ command = "upgrade" => db.revision <= work.revision /\ work.revision <= target
      /\ command = "downgrade" => target <= work.revision /\ work.revision <= db.revision
      /\ work.revision \in 0..4 /\ db.revision \in 0..4
  BY <1>1 DEF MigrationInvariant, PositionInv, Running, Stage, Revisions, Head4
<1> HIDE DEF Again
<1>5. CASE command = "upgrade"
  <2>1. work.revision \in 0..3 /\ Migration = Upgrades[work.revision + 1]
    BY <1>1, <1>5, Positions
  <2>2. work' = [work EXCEPT !.revision = work.revision + 1]
    BY <1>1, <1>5
  <2>3. Stage(work, "upgrade", Len(Upgrades[work.revision + 1]), Again)
    BY <1>1, <1>2, <1>5, <2>1
  <2>4. /\ Stage(work', "upgrade", 0, Again) /\ work'.flags = work.flags
        /\ work'.revision = work.revision + 1
    BY <1>2, <2>1, <2>2, <2>3, StageUp
  <2>5. Stage(work', command', done', Again')
    BY <1>1, <1>3, <1>5, <2>4
  <2>6. /\ work'.revision \in 1..4 /\ work'.revision <= target
        /\ db.revision <= work'.revision
    BY <1>4, <1>5, <2>1, <2>4
  <2>7. Running' => Len(Migration') >= 0
    <3>1. Running' => work'.revision \in 0..3 /\ Migration' = Upgrades[work'.revision + 1]
      BY <1>1, <1>4, <1>5, <2>6 DEF Running, Migration
    <3> QED
      BY <3>1, UpgradeLength
  <2>8. done' \in Nat /\ done' <= IF Running' THEN Len(Migration') ELSE 0
    BY <1>1, <2>7
  <2>9. PositionInv'
    BY <1>1, <1>4, <1>5, <2>6, <2>8 DEF PositionInv, MigrationInvariant
  <2>10. BlockedInv'
    <3>1. SUFFICES ASSUME ~HasProjectKey(work.revision + 1, "upgrade", 0) PROVE ~renamed
      BY <1>1, <1>5, <2>4 DEF BlockedInv
    <3>2. work.revision = 3
      BY <2>1, <3>1 DEF HasProjectKey, Into, OutOf, Head4
    <3>3. 3 + 1 = 4 /\ done = 6
      BY <1>1, <2>1, <3>2, Lengths
    <3>4. ~HasProjectKey(work.revision, command, done)
      BY <1>5, <3>2, <3>3 DEF HasProjectKey, Into, OutOf, Head4
    <3> QED
      BY <1>5, <3>4 DEF MigrationInvariant, BlockedInv
  <2> QED
    BY <1>1, <2>4, <2>5, <2>9, <2>10
       DEF MigrationInvariant, KeptInv, Same, Stage, Fields, Schema, FlagsInv
<1>6. CASE command = "downgrade"
  <2>1. work.revision \in 1..Head4 /\ Migration = Downgrades[work.revision]
        /\ command # "upgrade"
    BY <1>1, <1>6, Positions
  <2>2. work' = [work EXCEPT !.revision = work.revision - 1]
    BY <1>1, <2>1
  <2>3. Stage(work, "downgrade", Len(Downgrades[work.revision]), Again)
    BY <1>1, <1>2, <1>6, <2>1
  <2>4. /\ Stage(work', "downgrade", 0, Again) /\ work'.flags = work.flags
        /\ work'.revision = work.revision - 1
    BY <1>2, <2>1, <2>2, <2>3, StageDown
  <2>5. Stage(work', command', done', Again')
    BY <1>1, <1>3, <1>6, <2>4
  <2>6. /\ work'.revision \in 0..3 /\ target <= work'.revision
        /\ work'.revision <= db.revision
    BY <1>4, <1>6, <2>1, <2>4 DEF Head4
  <2>7. Running' => Len(Migration') >= 0
    <3>1. Running' => work'.revision \in 1..4 /\ Migration' = Downgrades[work'.revision]
      BY <1>1, <1>4, <1>6, <2>1, <2>6 DEF Running, Migration
    <3> QED
      BY <3>1, DowngradeLength
  <2>8. done' \in Nat /\ done' <= IF Running' THEN Len(Migration') ELSE 0
    BY <1>1, <2>7
  <2>9. PositionInv'
    BY <1>1, <1>4, <1>6, <2>6, <2>8 DEF PositionInv, MigrationInvariant
  <2>10. BlockedInv'
    BY <1>1, <2>1 DEF BlockedInv
  <2> QED
    BY <1>1, <2>4, <2>5, <2>9, <2>10
       DEF MigrationInvariant, KeptInv, Same, Stage, Fields, Schema, FlagsInv
<1> QED
  BY <1>1, <1>5, <1>6, Positions

(* The transaction is committed, at the revision that was the target. *)
LEMMA Commits ==
  ASSUME MigrationInvariant, Commit
  PROVE  MigrationInvariant'
<1>1. /\ command # NONE /\ work.revision = target /\ db' = work /\ work' = work
      /\ command' = NONE /\ target' = NONE /\ done' = done
      /\ renamed' = ( /\ renamed \/ (db.revision = Head4 /\ work.revision < Head4)
                      /\ work.revision >= 2 )
  BY DEF Commit
<1>2. /\ done = 0 /\ ~Running' /\ command' # "upgrade" /\ command' # "downgrade"
  <2>1. ~Running
    BY <1>1 DEF Running
  <2>2. done \in Nat /\ done <= 0
    BY <2>1 DEF MigrationInvariant, PositionInv
  <2>3. NONE # "upgrade" /\ NONE # "downgrade"
    BY ProjectsAssumption
  <2> QED
    BY <1>1, <2>2, <2>3 DEF Running
<1>3. /\ Stage(work, command, 0, Again) /\ Again \in BOOLEAN
      /\ Fields(work) /\ work.revision \in Revisions
  BY <1>2, AgainInUpgrade DEF MigrationInvariant, Stage
<1>4. /\ command = "upgrade" \/ command = "downgrade"
      /\ work.revision \in 0..4 /\ db.revision \in 0..4 /\ renamed \in BOOLEAN
      /\ renamed => db.revision \in 2..3
      /\ command = "upgrade" => db.revision < work.revision
      /\ command = "downgrade" => work.revision < db.revision
  BY <1>1 DEF MigrationInvariant, PositionInv, Stage, Revisions, Head4
<1>5. command = "upgrade" /\ work.revision = Head4 => ~renamed
  BY <1>2, <1>3, AtRest DEF MigrationInvariant, BlockedInv
<1>6. renamed' \in BOOLEAN /\ (renamed' => work.revision \in 2..3)
  <2>1. ASSUME renamed' PROVE work.revision \in 2..3
    <3>1. work.revision >= 2 /\ (renamed \/ work.revision < Head4)
      BY <1>1, <2>1
    <3>2. CASE command = "upgrade"
      BY <1>4, <1>5, <3>1, <3>2 DEF Head4
    <3>3. CASE command = "downgrade"
      BY <1>4, <3>1, <3>3 DEF Head4
    <3> QED
      BY <1>4, <3>2, <3>3
  <2> QED
    BY <1>1, <2>1
<1>7. Created(work.revision) >= 5 /\ work.revision # Head4 => (Again <=> renamed')
  <2> SUFFICES ASSUME Created(work.revision) >= 5, work.revision # Head4
               PROVE  Again <=> renamed'
    OBVIOUS
  <2>1. work.revision \in 2..3
    BY <1>4 DEF Created, Head4
  <2>2. renamed' <=> renamed \/ db.revision = Head4
    BY <1>1, <2>1 DEF Head4
  <2>3. command = "upgrade" => db.revision # Head4
    BY <1>4 DEF Head4
  <2> QED
    BY <1>4, <2>2, <2>3 DEF Again
<1>8. \A c : Stage(work, c, 0, renamed')
  <2> SUFFICES ASSUME NEW c PROVE Stage(work, c, 0, renamed')
    OBVIOUS
  <2>1. Alike(work.revision, command, 0, work.revision, c, 0)
    BY <1>3, AtRest
  <2>2. TableCount(work.revision, command, 0) >= 5 /\ HasProjectKey(work.revision, command, 0)
          => (Again <=> renamed')
    BY <1>3, <1>7, AtRest
  <2> QED
    BY <1>3, <1>6, <2>1, <2>2, StageAlike
<1>9. Again' <=> renamed'
  BY <1>2 DEF Again
<1>10. Again' = renamed'
  BY <1>6, <1>9 DEF Again
<1>11. Stage(db', NONE, 0, renamed') /\ Stage(work', command', done', Again')
  BY <1>1, <1>2, <1>8, <1>10
<1>12. PositionInv'
  <2>1. done' \in Nat /\ done' <= IF Running' THEN Len(Migration') ELSE 0
    BY <1>1, <1>2
  <2> QED
    BY <1>1, <1>2, <1>6, <2>1 DEF PositionInv
<1>13. BlockedInv' /\ KeptInv'
  BY <1>1, <1>2 DEF BlockedInv, KeptInv, Same
<1> QED
  BY <1>11, <1>12, <1>13 DEF MigrationInvariant

(* It is rolled back. *)
LEMMA Aborts ==
  ASSUME MigrationInvariant, Abort
  PROVE  MigrationInvariant'
<1>1. /\ work' = db /\ command' = NONE /\ target' = NONE /\ done' = 0
      /\ UNCHANGED <<db, renamed>>
  BY DEF Abort
<1>2. command' # "upgrade" /\ command' # "downgrade" /\ ~Running'
  BY <1>1, ProjectsAssumption DEF Running
<1>3. Stage(db, NONE, 0, renamed) /\ renamed \in BOOLEAN /\ (renamed => db.revision \in 2..3)
  BY DEF MigrationInvariant, PositionInv
<1>4. Again' = renamed
  BY <1>1, <1>2, <1>3 DEF Again
<1>5. Stage(db', NONE, 0, renamed') /\ Stage(work', command', done', Again')
  BY <1>1, <1>3, <1>4
<1>6. PositionInv'
  <2>1. done' \in Nat /\ done' <= IF Running' THEN Len(Migration') ELSE 0
    BY <1>1, <1>2
  <2> QED
    BY <1>1, <1>2, <1>3, <2>1 DEF PositionInv
<1>7. BlockedInv' /\ KeptInv'
  BY <1>1, <1>2 DEF BlockedInv, KeptInv, Same
<1> QED
  BY <1>5, <1>6, <1>7 DEF MigrationInvariant

(* A flag is created, which the keys of its table allow. *)
LEMMA Creates ==
  ASSUME MigrationInvariant, NEW p \in Projects, NEW k \in Keys, CreateFlag(p, k)
  PROVE  MigrationInvariant'
<1> DEFINE new == [project_id |-> p, key |-> k,
                   organization_id |-> IF db.organization_id = "absent"
                                       THEN NONE ELSE OrgOf[p]]
           flags == db.flags \cup {new}
           r == db.revision
           n == TableCount(r, NONE, 0)
<1>1. /\ command = NONE /\ "flag" \in db.tables
      /\ \A c \in db.constraints : Holds(c, flags)
      /\ db' = [db EXCEPT !.flags = flags] /\ work' = db'
      /\ UNCHANGED <<command, target, done, renamed>>
  BY DEF CreateFlag
<1>2. /\ Fields(db) /\ r \in Revisions /\ n \in 0..8
      /\ Schema(db, n, FlagKeys(r, NONE, 0, renamed))
      /\ db.organization_id = Column(r, NONE, 0)
      /\ FlagsInv(db, n, Filled(r, NONE, 0), HasOrganizationKey(r, NONE, 0))
      /\ renamed \in BOOLEAN /\ (renamed => r \in 2..3) /\ done = 0
  BY <1>1 DEF MigrationInvariant, PositionInv, Stage
<1>3. command # "upgrade" /\ command # "downgrade" /\ ~Running'
  BY <1>1, ProjectsAssumption DEF Running
<1>4. /\ HasProjectKey(r, NONE, 0) <=> r # Head4
      /\ Filled(r, NONE, 0) <=> r = Head4
      /\ HasOrganizationKey(r, NONE, 0) <=> r = Head4
      /\ Column(r, NONE, 0) = IF r = Head4 THEN "required" ELSE "absent"
  BY <1>2, AtRest
<1>5. n >= 5
  <2>1. PICK i \in 1..n : Name(i) = "flag"
    BY <1>1, <1>2 DEF Schema, FirstTables
  <2>2. i = 5
    BY <1>2, <2>1, Names, DistinctNames
  <2> QED
    BY <1>2, <2>1, <2>2
<1>6. /\ new.project_id = p /\ new.key = k
      /\ new.organization_id = IF r = Head4 THEN OrgOf[p] ELSE NONE
      /\ new \in [project_id : Projects, key : Keys, organization_id : Orgs \cup {NONE}]
  <2>1. OrgOf[p] \in Orgs
    BY ProjectsAssumption
  <2> QED
    BY <1>2, <1>4, <2>1
<1> HIDE DEF new, n
<1>7. \A f \in flags :
        /\ f \in [project_id : Projects, key : Keys, organization_id : Orgs \cup {NONE}]
        /\ f.organization_id = IF r = Head4 THEN OrgOf[f.project_id] ELSE NONE
  BY <1>2, <1>4, <1>6 DEF FlagsInv
<1>8. \A f \in flags : /\ f.project_id \in Projects /\ f.key \in Keys
                       /\ f.project_id # NONE /\ f.key # NONE
                       /\ OrgOf[f.project_id] \in Orgs /\ OrgOf[f.project_id] # NONE
  BY <1>7, ProjectsAssumption
<1> HIDE DEF flags
<1>9. \A f, g \in flags :
        /\ f.project_id = g.project_id /\ f.key = g.key => f = g
        /\ r = Head4 /\ OrgOf[f.project_id] = OrgOf[g.project_id] /\ f.key = g.key => f = g
  <2>1. CASE r = Head4
    <3>1. OrganizationKey \in db.constraints
      BY <1>2, <1>4, <1>5, <2>1 DEF Schema, FlagKeys
    <3>2. ASSUME NEW f \in flags, NEW g \in flags,
                 OrgOf[f.project_id] = OrgOf[g.project_id], f.key = g.key
          PROVE  f = g
      <4>1. f.organization_id = g.organization_id /\ f.organization_id # NONE
        BY <1>7, <1>8, <2>1, <3>2
      <4>2. \A column \in {"organization_id", "key"} : f[column] = g[column] /\ f[column] # NONE
        BY <1>8, <3>2, <4>1
      <4> QED
        BY <1>1, <3>1, <4>2, KeyNames DEF Holds
    <3> QED
      BY <3>2
  <2>2. CASE r # Head4
    <3>1. ProjectKey(renamed) \in db.constraints
      BY <1>2, <1>4, <1>5, <2>2 DEF Schema, FlagKeys
    <3>2. ASSUME NEW f \in flags, NEW g \in flags,
                 f.project_id = g.project_id, f.key = g.key
          PROVE  f = g
      <4>1. \A column \in {"project_id", "key"} : f[column] = g[column] /\ f[column] # NONE
        BY <1>8, <3>2
      <4> QED
        BY <1>1, <3>1, <4>1, KeyNames DEF Holds
    <3> QED
      BY <2>2, <3>2
  <2> QED
    BY <2>1, <2>2
<1>10. /\ db'.revision = r /\ db'.tables = db.tables /\ db'.constraints = db.constraints
       /\ db'.organization_id = db.organization_id /\ db'.flags = flags /\ Fields(db')
  BY <1>1, <1>2 DEF Fields
<1>11. FlagsInv(db', n, Filled(r, NONE, 0), HasOrganizationKey(r, NONE, 0))
  BY <1>4, <1>5, <1>2, <1>7, <1>9, <1>10 DEF FlagsInv
<1>12. Schema(db', n, FlagKeys(r, NONE, 0, renamed))
  BY <1>2, <1>10 DEF Schema
<1>13. Stage(db', NONE, 0, renamed)
  BY <1>2, <1>10, <1>11, <1>12 DEF Stage, n
<1>14. Again' = renamed
  BY <1>1, <1>2, <1>3 DEF Again
<1>15. Stage(db', NONE, 0, renamed') /\ Stage(work', command', done', Again')
  BY <1>1, <1>2, <1>13, <1>14
<1>16. PositionInv'
  <2>1. done' \in Nat /\ done' <= IF Running' THEN Len(Migration') ELSE 0
    BY <1>1, <1>2, <1>3
  <2>2. target = NONE
    BY <1>1 DEF MigrationInvariant, PositionInv
  <2> QED
    BY <1>1, <1>2, <1>3, <1>10, <2>1, <2>2 DEF PositionInv
<1>17. BlockedInv' /\ KeptInv'
  BY <1>1, <1>3 DEF BlockedInv, KeptInv, Same
<1> QED
  BY <1>15, <1>16, <1>17 DEF MigrationInvariant

LEMMA MigrationStep == MigrationInvariant /\ [Next]_vars => MigrationInvariant'
<1> SUFFICES ASSUME MigrationInvariant, [Next]_vars PROVE MigrationInvariant'
  OBVIOUS
<1>1. CASE UNCHANGED vars
  BY <1>1 DEF vars, MigrationInvariant, PositionInv, Stage, Fields, Schema, FlagsInv,
              BlockedInv, KeptInv, Again, Running, Migration, Same
<1> QED
  BY <1>1, Begins, Runs, Stamps, Commits, Aborts, Creates DEF Next

LEMMA MigrationInvariance == Spec => []MigrationInvariant
  BY MigrationInit, MigrationStep, PTL DEF Spec

-----------------------------------------------------------------------------
(* What follows from the invariant. *)

(* A database between two migrations. *)
LEMMA StageAtRest ==
  ASSUME NEW d, NEW c, NEW again, Stage(d, c, 0, again)
  PROVE  LET n == Created(d.revision)
         IN  /\ d.revision \in Revisions /\ n \in 0..8
             /\ Schema(d, n, FlagKeys(d.revision, c, 0, again))
             /\ d.organization_id = IF d.revision = Head4 THEN "required" ELSE "absent"
             /\ FlagsInv(d, n, d.revision = Head4, d.revision = Head4)
<1>1. d.revision \in Revisions
  BY DEF Stage
<1>2. /\ TableCount(d.revision, c, 0) = Created(d.revision)
      /\ Filled(d.revision, c, 0) <=> d.revision = Head4
      /\ HasOrganizationKey(d.revision, c, 0) <=> d.revision = Head4
      /\ Column(d.revision, c, 0) = IF d.revision = Head4 THEN "required" ELSE "absent"
  BY <1>1, AtRest
<1>3. FlagsInv(d, Created(d.revision), Filled(d.revision, c, 0),
               HasOrganizationKey(d.revision, c, 0))
  BY <1>1, <1>2 DEF Stage
<1>4. FlagsInv(d, Created(d.revision), d.revision = Head4, d.revision = Head4)
  BY <1>2, <1>3 DEF FlagsInv
<1> QED
  BY <1>1, <1>2, <1>4 DEF Stage

LEMMA Resting ==
  ASSUME MigrationInvariant
  PROVE  LET n == Created(db.revision)
         IN  /\ db.revision \in Revisions /\ n \in 0..8
             /\ Schema(db, n, FlagKeys(db.revision, NONE, 0, renamed))
             /\ db.organization_id = IF db.revision = Head4 THEN "required" ELSE "absent"
             /\ FlagsInv(db, n, db.revision = Head4, db.revision = Head4)
<1>1. Stage(db, NONE, 0, renamed)
  BY DEF MigrationInvariant
<1> QED
  BY <1>1, StageAtRest

LEMMA RestingKeys ==
  ASSUME NEW again \in BOOLEAN
  PROVE  /\ FlagKeys(Head4, NONE, 0, again)
              = {CreatedBy, ProjectOf, FlagOrganization, OrganizationKey}
         /\ \A r \in 0..3 : FlagKeys(r, NONE, 0, again)
                              = {CreatedBy, ProjectOf, ProjectKey(again)}
<1>1. NONE # "upgrade" /\ NONE # "downgrade"
  BY ProjectsAssumption
<1>2. /\ ~HasProjectKey(Head4, NONE, 0) /\ HasOrganization(Head4, NONE, 0)
      /\ HasOrganizationKey(Head4, NONE, 0)
  BY <1>1 DEF HasProjectKey, HasOrganization, HasOrganizationKey, Into, OutOf, Head4
<1>3. \A r \in 0..3 : /\ HasProjectKey(r, NONE, 0) /\ ~HasOrganization(r, NONE, 0)
                      /\ ~HasOrganizationKey(r, NONE, 0)
  BY <1>1 DEF HasProjectKey, HasOrganization, HasOrganizationKey, Into, OutOf, Head4
<1> QED
  BY <1>2, <1>3 DEF FlagKeys, CreatedBy, ProjectOf

(* In what a stage is, every constraint is of a table and refers to one.   *)
LEMMA StageTypes ==
  ASSUME NEW d, NEW c, NEW k, NEW again, Stage(d, c, k, again)
  PROVE  /\ d.revision \in Revisions
         /\ d.tables \subseteq Tables
         /\ \A x \in d.constraints : x.table \in d.tables /\ x.refers \in d.tables \cup {NONE}
         /\ d.organization_id \in {"absent", "nullable", "required"}
         /\ d.flags \subseteq Flags
<1> DEFINE n == TableCount(d.revision, c, k)
           keys == FlagKeys(d.revision, c, k, again)
<1>1. /\ d.revision \in Revisions /\ n \in 0..8 /\ Schema(d, n, keys)
      /\ d.organization_id = Column(d.revision, c, k)
      /\ FlagsInv(d, n, Filled(d.revision, c, k), HasOrganizationKey(d.revision, c, k))
  BY DEF Stage
<1>2. d.organization_id \in {"absent", "nullable", "required"}
  BY <1>1 DEF Column
<1>3. d.flags \subseteq Flags
  BY <1>1 DEF FlagsInv, Flags
<1>4. \A x \in keys : x.table = "flag" /\ x.refers \in {NONE, "user", "project", "organization"}
  BY KeysOfTheFlags
<1> HIDE DEF n, keys
<1>5. d.tables \subseteq Tables
  BY <1>1, DistinctNames DEF Schema, FirstTables
<1>6. n >= 5 => {"user", "organization", "project", "flag"} \subseteq d.tables
  <2> SUFFICES ASSUME n >= 5
               PROVE  {"user", "organization", "project", "flag"} \subseteq d.tables
    OBVIOUS
  <2>1. 1 \in 1..n /\ 2 \in 1..n /\ 4 \in 1..n /\ 5 \in 1..n
    BY <1>1
  <2> QED
    BY <1>1, <2>1, Names DEF Schema, FirstTables
<1>7. ASSUME NEW x \in d.constraints
      PROVE  x.table \in d.tables /\ x.refers \in d.tables \cup {NONE}
  <2>1. CASE x \in OtherKeys(n)
    BY <1>1, <2>1, KeysOfTheFirst DEF Schema
  <2>2. CASE x \in keys /\ n >= 5
    BY <1>4, <1>6, <2>2
  <2> QED
    BY <1>1, <2>1, <2>2 DEF Schema
<1> QED
  BY <1>1, <1>2, <1>3, <1>5, <1>7

(* The database, and what the command has made of it, are schemas: every   *)
(* constraint is of a table that exists, and refers to one.  Code: the     *)
(* migrations of alembic/versions.                                         *)
THEOREM SchemaTypes == Spec => []TypeOK
<1>1. MigrationInvariant => TypeOK
  <2> SUFFICES ASSUME MigrationInvariant PROVE TypeOK
    OBVIOUS
  <2>1. Stage(db, NONE, 0, renamed) /\ Stage(work, command, done, Again) /\ PositionInv
    BY DEF MigrationInvariant
  <2>2. target \in Revisions \cup {NONE}
    BY <2>1 DEF PositionInv
  <2> QED
    BY <2>1, <2>2, StageTypes DEF TypeOK, PositionInv
<1> QED
  BY <1>1, MigrationInvariance, PTL

(* The keys as the program's tables have them. *)
Declared(x) == <<x.table, x.columns, x.refers>>
AllDeclared(keys) == {Declared(x) : x \in keys}
ModelsOf(table) == {m \in Models : m[1] = table}

LEMMA DeclaredKeys ==
  /\ \A t, columns : Declared(UniqueConstraint(t, columns)) = <<t, columns, NONE>>
  /\ \A t, column, refers : Declared(ForeignKey(t, column, refers)) = <<t, {column}, refers>>
  /\ Declared(FlagOrganization) = <<"flag", {"organization_id"}, "organization">>
  /\ Declared(OrganizationKey) = <<"flag", {"organization_id", "key"}, NONE>>
  /\ \A again : Declared(ProjectKey(again)) = <<"flag", {"project_id", "key"}, NONE>>
  BY DEF Declared, UniqueConstraint, ForeignKey, FlagOrganization, OrganizationKey,
         ProjectKey, Unique, Foreign

(* The tables created by 0001 to 0003 have the keys that are declared,     *)
(* but for the flags' own.                                                 *)
LEMMA CreatedAsDeclared ==
  \A i \in (1..8) \ {5} : AllDeclared(Own(i)) = ModelsOf(Name(i))
<1>1. \A i \in (1..8) \ {5} :
        i = 1 \/ i = 2 \/ i = 3 \/ i = 4 \/ i = 6 \/ i = 7 \/ i = 8
  OBVIOUS
<1>2. /\ Own(1) = {UniqueConstraint("user", {"email"})}
      /\ Own(2) = {UniqueConstraint("organization", {"slug"})}
      /\ Own(3) = {UniqueConstraint("membership", {"user_id", "organization_id"}),
                   ForeignKey("membership", "organization_id", "organization"),
                   ForeignKey("membership", "user_id", "user")}
  BY DEF Own, Creation, upgrade_0001, CreateTable
<1>3. /\ Own(4) = {UniqueConstraint("project", {"organization_id", "key"}),
                   ForeignKey("project", "organization_id", "organization")}
      /\ Own(6) = {UniqueConstraint("flag_environment_config", {"flag_id", "environment"}),
                   ForeignKey("flag_environment_config", "flag_id", "flag")}
      /\ Own(7) = {UniqueConstraint("api_key", {"hashed_key"}),
                   ForeignKey("api_key", "organization_id", "organization")}
  BY DEF Own, Creation, upgrade_0002, CreateTable
<1>4. Own(8) = {ForeignKey("audit_log_entry", "actor_user_id", "user"),
                ForeignKey("audit_log_entry", "flag_id", "flag"),
                ForeignKey("audit_log_entry", "organization_id", "organization")}
  BY DEF Own, Creation, upgrade_0003, CreateTable
<1>5. AllDeclared(Own(1)) = ModelsOf("user")
  <2>1. AllDeclared(Own(1)) = {<<"user", {"email"}, NONE>>}
    BY <1>2, DeclaredKeys DEF AllDeclared
  <2> QED
    BY <2>1 DEF ModelsOf, Models
<1>6. AllDeclared(Own(2)) = ModelsOf("organization")
  <2>1. AllDeclared(Own(2)) = {<<"organization", {"slug"}, NONE>>}
    BY <1>2, DeclaredKeys DEF AllDeclared
  <2> QED
    BY <2>1 DEF ModelsOf, Models
<1>7. AllDeclared(Own(3)) = ModelsOf("membership")
  <2>1. /\ Declared(UniqueConstraint("membership", {"user_id", "organization_id"}))
             = <<"membership", {"user_id", "organization_id"}, NONE>>
        /\ Declared(ForeignKey("membership", "organization_id", "organization"))
             = <<"membership", {"organization_id"}, "organization">>
        /\ Declared(ForeignKey("membership", "user_id", "user"))
             = <<"membership", {"user_id"}, "user">>
    BY DeclaredKeys
  <2>2. AllDeclared(Own(3)) = {<<"membership", {"user_id", "organization_id"}, NONE>>,
                               <<"membership", {"organization_id"}, "organization">>,
                               <<"membership", {"user_id"}, "user">>}
    BY <1>2, <2>1 DEF AllDeclared
  <2> QED
    BY <2>2 DEF ModelsOf, Models
<1>8. AllDeclared(Own(4)) = ModelsOf("project")
  <2>1. /\ Declared(UniqueConstraint("project", {"organization_id", "key"}))
             = <<"project", {"organization_id", "key"}, NONE>>
        /\ Declared(ForeignKey("project", "organization_id", "organization"))
             = <<"project", {"organization_id"}, "organization">>
    BY DeclaredKeys
  <2>2. AllDeclared(Own(4)) = {<<"project", {"organization_id", "key"}, NONE>>,
                               <<"project", {"organization_id"}, "organization">>}
    BY <1>3, <2>1 DEF AllDeclared
  <2> QED
    BY <2>2 DEF ModelsOf, Models
<1>9. AllDeclared(Own(6)) = ModelsOf("flag_environment_config")
  <2>1. /\ Declared(UniqueConstraint("flag_environment_config", {"flag_id", "environment"}))
             = <<"flag_environment_config", {"flag_id", "environment"}, NONE>>
        /\ Declared(ForeignKey("flag_environment_config", "flag_id", "flag"))
             = <<"flag_environment_config", {"flag_id"}, "flag">>
    BY DeclaredKeys
  <2>2. AllDeclared(Own(6)) = {<<"flag_environment_config", {"flag_id", "environment"}, NONE>>,
                               <<"flag_environment_config", {"flag_id"}, "flag">>}
    BY <1>3, <2>1 DEF AllDeclared
  <2> QED
    BY <2>2 DEF ModelsOf, Models
<1>10. AllDeclared(Own(7)) = ModelsOf("api_key")
  <2>1. /\ Declared(UniqueConstraint("api_key", {"hashed_key"}))
             = <<"api_key", {"hashed_key"}, NONE>>
        /\ Declared(ForeignKey("api_key", "organization_id", "organization"))
             = <<"api_key", {"organization_id"}, "organization">>
    BY DeclaredKeys
  <2>2. AllDeclared(Own(7)) = {<<"api_key", {"hashed_key"}, NONE>>,
                               <<"api_key", {"organization_id"}, "organization">>}
    BY <1>3, <2>1 DEF AllDeclared
  <2> QED
    BY <2>2 DEF ModelsOf, Models
<1>11. AllDeclared(Own(8)) = ModelsOf("audit_log_entry")
  <2>1. /\ Declared(ForeignKey("audit_log_entry", "actor_user_id", "user"))
             = <<"audit_log_entry", {"actor_user_id"}, "user">>
        /\ Declared(ForeignKey("audit_log_entry", "flag_id", "flag"))
             = <<"audit_log_entry", {"flag_id"}, "flag">>
        /\ Declared(ForeignKey("audit_log_entry", "organization_id", "organization"))
             = <<"audit_log_entry", {"organization_id"}, "organization">>
    BY DeclaredKeys
  <2>2. AllDeclared(Own(8)) = {<<"audit_log_entry", {"actor_user_id"}, "user">>,
                               <<"audit_log_entry", {"flag_id"}, "flag">>,
                               <<"audit_log_entry", {"organization_id"}, "organization">>}
    BY <1>4, <2>1 DEF AllDeclared
  <2> QED
    BY <2>2 DEF ModelsOf, Models
<1> QED
  BY <1>1, <1>5, <1>6, <1>7, <1>8, <1>9, <1>10, <1>11, Names

LEMMA FlagsDeclared ==
  /\ AllDeclared({CreatedBy, ProjectOf, FlagOrganization, OrganizationKey}) = ModelsOf("flag")
  /\ \A again : AllDeclared({CreatedBy, ProjectOf, ProjectKey(again)})
                  = {m \in ModelsOf("flag") : "organization_id" \notin m[2]}
                      \cup {<<"flag", {"project_id", "key"}, NONE>>}
<1>1. /\ Declared(CreatedBy) = <<"flag", {"created_by"}, "user">>
      /\ Declared(ProjectOf) = <<"flag", {"project_id"}, "project">>
  BY DeclaredKeys DEF CreatedBy, ProjectOf
<1>2. ModelsOf("flag") = {<<"flag", {"organization_id", "key"}, NONE>>,
                          <<"flag", {"organization_id"}, "organization">>,
                          <<"flag", {"project_id"}, "project">>,
                          <<"flag", {"created_by"}, "user">>}
  BY DEF ModelsOf, Models
<1>3. AllDeclared({CreatedBy, ProjectOf, FlagOrganization, OrganizationKey}) = ModelsOf("flag")
  BY <1>1, <1>2, DeclaredKeys DEF AllDeclared
<1>4. {m \in ModelsOf("flag") : "organization_id" \notin m[2]}
        = {<<"flag", {"project_id"}, "project">>, <<"flag", {"created_by"}, "user">>}
  BY <1>2
<1>5. \A again : AllDeclared({CreatedBy, ProjectOf, ProjectKey(again)})
                   = {<<"flag", {"created_by"}, "user">>, <<"flag", {"project_id"}, "project">>,
                      <<"flag", {"project_id", "key"}, NONE>>}
  BY <1>1, DeclaredKeys DEF AllDeclared
<1> QED
  BY <1>3, <1>4, <1>5

(* The keys of the first tables but the flags' are those declared. *)
LEMMA FirstAsDeclared ==
  ASSUME NEW n \in 0..8
  PROVE  AllDeclared(OtherKeys(n))
           = {m \in Models : m[1] \in FirstTables(n) /\ m[1] # "flag"}
<1>1. \A i \in 1..n : i \in 1..8 /\ (Name(i) = "flag" <=> i = 5)
  BY Names, DistinctNames
<1>2. ASSUME NEW i \in (1..n) \ {5}, NEW x \in Own(i)
      PROVE  Declared(x) \in ModelsOf(Name(i))
  <2>1. i \in (1..8) \ {5}
    OBVIOUS
  <2>2. Declared(x) \in AllDeclared(Own(i))
    BY DEF AllDeclared
  <2> QED
    BY <2>1, <2>2, CreatedAsDeclared
<1>3. ASSUME NEW i \in (1..n) \ {5}, NEW m \in Models, m[1] = Name(i)
      PROVE  \E x \in Own(i) : m = Declared(x)
  <2>1. i \in (1..8) \ {5} /\ m \in ModelsOf(Name(i))
    BY <1>3 DEF ModelsOf
  <2>2. m \in AllDeclared(Own(i))
    BY <2>1, CreatedAsDeclared
  <2> QED
    BY <2>2 DEF AllDeclared
<1>4. ASSUME NEW m \in AllDeclared(OtherKeys(n))
      PROVE  m \in Models /\ m[1] \in FirstTables(n) /\ m[1] # "flag"
  <2>1. PICK x \in OtherKeys(n) : m = Declared(x)
    BY DEF AllDeclared
  <2>2. PICK i \in (1..n) \ {5} : x \in Own(i)
    BY <2>1 DEF OtherKeys
  <2>3. m \in ModelsOf(Name(i))
    BY <1>2, <2>1, <2>2
  <2> QED
    BY <1>1, <2>2, <2>3 DEF ModelsOf, FirstTables
<1>5. ASSUME NEW m \in Models, m[1] \in FirstTables(n), m[1] # "flag"
      PROVE  m \in AllDeclared(OtherKeys(n))
  <2>1. PICK i \in 1..n : m[1] = Name(i)
    BY <1>5 DEF FirstTables
  <2>2. i \in (1..n) \ {5}
    BY <1>1, <1>5, <2>1
  <2>3. PICK x \in Own(i) : m = Declared(x)
    BY <1>3, <2>1, <2>2
  <2> QED
    BY <2>2, <2>3 DEF AllDeclared, OtherKeys
<1> QED
  BY <1>4, <1>5

LEMMA AllTablesDeclared ==
  /\ \A m \in Models : m[1] \in FirstTables(8)
  /\ \A n \in 0..8 : "flag" \in FirstTables(n) <=> n >= 5
<1>1. FirstTables(8) = Tables
  <2>1. \A i \in 1..8 : Name(i) \in Tables
    BY DistinctNames
  <2>2. \A t \in Tables : \E i \in 1..8 : t = Name(i)
    BY Names DEF Tables
  <2> QED
    BY <2>1, <2>2 DEF FirstTables
<1>2. \A m \in Models : m[1] \in Tables
  BY DEF Models, Tables
<1>3. ASSUME NEW n \in 0..8 PROVE "flag" \in FirstTables(n) <=> n >= 5
  <2>1. \A i \in 1..n : i \in 1..8 /\ (Name(i) = "flag" <=> i = 5)
    BY Names, DistinctNames
  <2>2. n >= 5 <=> 5 \in 1..n
    OBVIOUS
  <2> QED
    BY <2>1, <2>2 DEF FirstTables
<1> QED
  BY <1>1, <1>2, <1>3

LEMMA InvariantSchema == MigrationInvariant => SchemaIsTheModels
<1> SUFFICES ASSUME MigrationInvariant PROVE SchemaIsTheModels
  OBVIOUS
<1> DEFINE r == db.revision
           n == Created(r)
           flagKeys == FlagKeys(r, NONE, 0, renamed)
           ofFlags == {m \in Models : m[1] = "flag" /\ "organization_id" \in m[2]}
           below == {m \in Models \ ofFlags : m[1] \in db.tables}
           flagKey == {m \in {<<"flag", {"project_id", "key"}, NONE>>} : "flag" \in db.tables}
<1>1. /\ r \in 0..4 /\ n \in 0..8 /\ db.tables = FirstTables(n) /\ renamed \in BOOLEAN
      /\ db.constraints = OtherKeys(n) \cup {x \in flagKeys : n >= 5}
      /\ db.organization_id = IF r = Head4 THEN "required" ELSE "absent"
  <2>1. r \in 0..4 /\ renamed \in BOOLEAN
    BY Resting DEF Revisions, Head4, MigrationInvariant, PositionInv
  <2> QED
    BY <2>1, Resting DEF Schema
<1>2. /\ r = Head4 => n = 8
      /\ "flag" \in db.tables <=> n >= 5
  BY <1>1, AllTablesDeclared DEF Created, Head4
<1>3. AllDeclared(OtherKeys(n)) = {m \in Models : m[1] \in FirstTables(n) /\ m[1] # "flag"}
  BY <1>1, FirstAsDeclared
<1> HIDE DEF n
<1>4. CASE r = Head4
  <2>1. flagKeys = {CreatedBy, ProjectOf, FlagOrganization, OrganizationKey}
    BY <1>1, <1>4, RestingKeys
  <2> HIDE DEF r, flagKeys
  <2>2. AllDeclared(flagKeys) = ModelsOf("flag")
    BY <2>1, FlagsDeclared
  <2>3. db.constraints = OtherKeys(n) \cup flagKeys /\ n = 8
    BY <1>1, <1>2, <1>4
  <2>4. AllDeclared(db.constraints) = AllDeclared(OtherKeys(n)) \cup AllDeclared(flagKeys)
    BY <2>3 DEF AllDeclared
  <2>5. AllDeclared(db.constraints) = Models
    BY <1>3, <2>2, <2>3, <2>4, AllTablesDeclared DEF ModelsOf
  <2> QED
    BY <1>1, <1>4, <2>5 DEF SchemaIsTheModels, AllDeclared, Declared, r
<1>5. CASE r # Head4
  <2>1. flagKeys = {CreatedBy, ProjectOf, ProjectKey(renamed)}
    <3>1. r \in 0..3
      BY <1>1, <1>5 DEF Head4
    <3> QED
      BY <1>1, <3>1, RestingKeys
  <2> HIDE DEF r, flagKeys
  <2>2. AllDeclared(flagKeys) = {m \in ModelsOf("flag") : "organization_id" \notin m[2]}
                                  \cup {<<"flag", {"project_id", "key"}, NONE>>}
    BY <2>1, FlagsDeclared
  <2>3. AllDeclared(db.constraints)
          = AllDeclared(OtherKeys(n)) \cup {m \in AllDeclared(flagKeys) : n >= 5}
    BY <1>1 DEF AllDeclared
  <2>4. AllDeclared(db.constraints) = below \cup flagKey
    <3>1. CASE n >= 5
      <4>1. /\ flagKey = {<<"flag", {"project_id", "key"}, NONE>>}
            /\ "flag" \in FirstTables(n)
            /\ AllDeclared(db.constraints)
                 = AllDeclared(OtherKeys(n)) \cup AllDeclared(flagKeys)
        BY <1>1, <1>2, <2>3, <3>1
      <4>2. below = AllDeclared(OtherKeys(n))
                      \cup {m \in ModelsOf("flag") : "organization_id" \notin m[2]}
        BY <1>1, <1>3, <4>1 DEF ModelsOf
      <4> QED
        BY <2>2, <4>1, <4>2
    <3>2. CASE ~(n >= 5)
      <4>1. /\ flagKey = {} /\ "flag" \notin FirstTables(n)
            /\ AllDeclared(db.constraints) = AllDeclared(OtherKeys(n))
        BY <1>1, <1>2, <2>3, <3>2
      <4> QED
        BY <1>1, <1>3, <4>1
    <3> QED
      BY <3>1, <3>2
  <2> QED
    BY <1>1, <1>5, <2>4 DEF SchemaIsTheModels, AllDeclared, Declared, r
<1> QED
  BY <1>4, <1>5

(* At the head the database has the keys that the program declares, and    *)
(* below it those of its tables, after any commands, committed or refused, *)
(* and whatever flags were created between them.  Code: the migrations,    *)
(* and models.py, whose tables they are to make.                           *)
THEOREM SchemaIsDeclared == Spec => []SchemaIsTheModels
  BY InvariantSchema, MigrationInvariance, PTL

(* A flag is in its project's organization and has its key to itself       *)
(* there, whether 0004 filled the column or the program wrote it.  Code:   *)
(* 0004's UPDATE and its unique constraint, FlagService.create_flag.       *)
THEOREM FlagsAreMoved == Spec => []FlagsOfTheirOrganization
<1>1. MigrationInvariant => FlagsOfTheirOrganization
  <2> SUFFICES ASSUME MigrationInvariant, db.revision = Head4,
                      NEW f \in db.flags, NEW g \in db.flags
               PROVE  /\ f.organization_id = OrgOf[f.project_id]
                      /\ f.organization_id = g.organization_id /\ f.key = g.key => f = g
    BY DEF FlagsOfTheirOrganization
  <2>1. /\ f.organization_id = OrgOf[f.project_id] /\ g.organization_id = OrgOf[g.project_id]
        /\ OrgOf[f.project_id] = OrgOf[g.project_id] /\ f.key = g.key => f = g
    BY Resting DEF FlagsInv
  <2> QED
    BY <2>1
<1> QED
  BY <1>1, MigrationInvariance, PTL

(* No operation of a downgrade is refused, and one of an upgrade only for  *)
(* keys that clash or a constraint of another name.  Code: every operation *)
(* of the migrations, in the order of a command.                           *)
THEOREM OnlyTheBlockedAreRefused == Spec => []RefusedOnlyWhenBlocked
<1>1. MigrationInvariant => RefusedOnlyWhenBlocked
  BY Operations DEF RefusedOnlyWhenBlocked, Refused
<1> QED
  BY <1>1, MigrationInvariance, PTL

(* The commit of an upgrade to the head, which nothing blocks. *)
LEMMA CommitAtTheHead ==
  ASSUME MigrationInvariant, Commit, db.revision < Head4, db'.revision = Head4
  PROVE  ~renamed /\ ~KeysClash
<1>1. /\ command # NONE /\ work.revision = target /\ db' = work
  BY DEF Commit
<1>2. ~Running
  BY <1>1 DEF Running
<1>3. /\ command = "upgrade" /\ work.revision = Head4 /\ done = 0
      /\ renamed \in BOOLEAN /\ db.revision \in 0..4
  <2>1. db.revision \in 0..4 /\ work.revision = Head4
    BY <1>1 DEF MigrationInvariant, Stage, Revisions, Head4
  <2>2. done \in Nat /\ done <= 0
    BY <1>2 DEF MigrationInvariant, PositionInv
  <2>3. command # "downgrade"
    BY <2>1 DEF MigrationInvariant, PositionInv, Head4
  <2> QED
    BY <1>1, <2>1, <2>2, <2>3 DEF MigrationInvariant, PositionInv
<1>4. Head4 \in Revisions
  BY DEF Head4, Revisions
<1>5. ~HasProjectKey(work.revision, command, done)
  BY <1>3, <1>4, AtRest
<1>6. ~renamed
  BY <1>3, <1>5 DEF MigrationInvariant, BlockedInv
<1>7. \A f, g \in work.flags :
        OrgOf[f.project_id] = OrgOf[g.project_id] /\ f.key = g.key => f = g
  <2>1. HasOrganizationKey(work.revision, command, done)
    BY <1>3, <1>4, AtRest
  <2> QED
    BY <2>1 DEF MigrationInvariant, Stage, FlagsInv
<1>8. ASSUME NEW f \in db.flags, NEW g \in db.flags, f.project_id # g.project_id,
             OrgOf[f.project_id] = OrgOf[g.project_id], f.key = g.key
      PROVE  FALSE
  <2>1. PICK f1 \in work.flags : Same(f1, f)
    BY <1>3 DEF MigrationInvariant, KeptInv
  <2>2. PICK g1 \in work.flags : Same(g1, g)
    BY <1>3 DEF MigrationInvariant, KeptInv
  <2>3. f1 = g1
    BY <1>7, <1>8, <2>1, <2>2 DEF Same
  <2> QED
    BY <1>8, <2>1, <2>2, <2>3 DEF Same
<1> QED
  BY <1>6, <1>8 DEF KeysClash

(* While the constraint has the other name, or two flags of an             *)
(* organization share a key, no step takes the database to the head: the   *)
(* only way on is back below 0002.  Code: upgrade() of 0004, which drops   *)
(* flag_project_id_key_key, and downgrade(), which makes                   *)
(* uq_flag_project_key.                                                    *)
THEOREM BlockedStaysBelow == Spec => BlockedBelowHead
<1>1. MigrationInvariant /\ MigrationInvariant' /\ [Next]_vars =>
        [(renamed \/ KeysClash) /\ db.revision < Head4 => db'.revision < Head4]_vars
  <2> SUFFICES ASSUME MigrationInvariant, MigrationInvariant', Next,
                      renamed \/ KeysClash, db.revision < Head4
               PROVE  db'.revision < Head4
    OBVIOUS
  <2>1. db'.revision \in 0..4
    BY DEF MigrationInvariant, Stage, Revisions, Head4
  <2>2. CASE Commit
    BY <2>1, <2>2, CommitAtTheHead DEF Head4
  <2>3. CASE \E p \in Projects, k \in Keys : CreateFlag(p, k)
    <3>1. db'.revision = db.revision
      BY <2>3 DEF CreateFlag, MigrationInvariant, Stage, Fields
    <3> QED
      BY <3>1
  <2>4. CASE \E to \in Revisions : Upgrade(to) \/ Downgrade(to)
    BY <2>4 DEF Upgrade, Downgrade
  <2>5. CASE Run \/ Stamp \/ Abort
    BY <2>5 DEF Run, Stamp, Abort
  <2> QED
    BY <2>2, <2>3, <2>4, <2>5 DEF Next
<1> QED
  BY <1>1, MigrationInvariance, PTL DEF Spec, BlockedBelowHead

-----------------------------------------------------------------------------
(* The migrations implement Database. *)

(* Where there is a table for them there are flags, and from 0002 on. *)
LEMMA FlagTable ==
  ASSUME NEW d, NEW keys, d.revision \in Revisions, Schema(d, Created(d.revision), keys)
  PROVE  "flag" \in d.tables <=> d.revision >= 2
<1>1. d.revision \in 0..4 /\ Created(d.revision) \in 0..8
      /\ (Created(d.revision) >= 5 <=> d.revision >= 2)
  BY DEF Revisions, Head4, Created
<1> QED
  BY <1>1, AllTablesDeclared DEF Schema

LEMMA CommitMigrates ==
  ASSUME MigrationInvariant, Commit
  PROVE  target \in 0..Head4 /\ Promise!Migrate(target)
<1> DEFINE r == work.revision
           In(f) == IF r = Head4 THEN OrgOf[f.project_id] ELSE NONE
           Moved(f) == [f EXCEPT !.organization_id = In(f)]
<1>1. /\ command # NONE /\ r = target /\ db' = work
      /\ renamed' = ( /\ renamed \/ (db.revision = Head4 /\ r < Head4)
                      /\ r >= 2 )
  BY DEF Commit
<1>2. done = 0 /\ renamed \in BOOLEAN
  <2>1. ~Running
    BY <1>1 DEF Running
  <2>2. done \in Nat /\ done <= 0
    BY <2>1 DEF MigrationInvariant, PositionInv
  <2> QED
    BY <2>2 DEF MigrationInvariant, PositionInv
<1>3. Stage(work, command, 0, Again)
  BY <1>2 DEF MigrationInvariant
<1>4. /\ r \in Revisions /\ FlagsInv(work, Created(r), r = Head4, r = Head4)
      /\ Schema(work, Created(r), FlagKeys(r, command, 0, Again))
  BY <1>3, StageAtRest
<1>5. r \in 0..4 /\ db.revision \in 0..4 /\ r # db.revision
  <2>1. r \in 0..4 /\ db.revision \in 0..4
    BY <1>4, Resting DEF Revisions, Head4
  <2> QED
    BY <1>1, <2>1 DEF MigrationInvariant, PositionInv
<1>6. r = Head4 => Promise!Open
  <2> SUFFICES ASSUME r = Head4 PROVE Promise!Open
    OBVIOUS
  <2>1. db.revision < Head4 /\ db'.revision = Head4
    BY <1>1, <1>5 DEF Head4
  <2>2. ~renamed /\ ~KeysClash
    BY <2>1, CommitAtTheHead
  <2> QED
    BY <2>2 DEF Promise!Open, KeysClash
<1>7. \A f \in work.flags \cup db.flags :
        f = [project_id |-> f.project_id, key |-> f.key, organization_id |-> f.organization_id]
  BY <1>4, Resting DEF FlagsInv
<1>8. \A f \in work.flags : f.organization_id = In(f)
  BY <1>4 DEF FlagsInv
<1>9. ASSUME NEW f \in work.flags, NEW g \in db.flags, Same(f, g)
      PROVE  f = Moved(g)
  <2>1. f.organization_id = In(g)
    BY <1>8, <1>9 DEF Same
  <2> HIDE DEF In
  <2>2. Moved(g) = [project_id |-> g.project_id, key |-> g.key, organization_id |-> In(g)]
    BY <1>7
  <2> QED
    BY <1>7, <1>9, <2>1, <2>2 DEF Same
<1> HIDE DEF In, Moved
<1>10. work.flags = {Moved(f) : f \in {g \in db.flags : r >= 2}}
  <2>1. CASE r >= 2
    <3>1. "flag" \in work.tables
      BY <1>4, <2>1, FlagTable
    <3>2. \A f \in work.flags : \E g \in db.flags : Same(f, g)
      BY DEF MigrationInvariant, KeptInv
    <3>3. \A g \in db.flags : \E f \in work.flags : Same(f, g)
      BY <3>1 DEF MigrationInvariant, KeptInv
    <3> QED
      BY <1>9, <2>1, <3>2, <3>3
  <2>2. CASE ~(r >= 2)
    <3>1. Created(r) < 5
      BY <1>5, <2>2 DEF Created
    <3>2. work.flags = {}
      BY <1>4, <3>1 DEF FlagsInv
    <3> QED
      BY <2>2, <3>2
  <2> QED
    BY <2>1, <2>2
<1>11. db'.flags = Promise!FlagsAt(target)
  BY <1>1, <1>10 DEF Promise!FlagsAt, Promise!Head4, Head4, Moved, In
<1>12. renamed' = (r >= 2 /\ (renamed \/ db.revision = Head4))
  <2>1. db.revision = Head4 => r < Head4
    BY <1>5 DEF Head4
  <2> QED
    BY <1>1, <2>1
<1> QED
  BY <1>1, <1>5, <1>6, <1>11, <1>12 DEF Promise!Migrate, Promise!Head4, Head4

LEMMA CreateCreates ==
  ASSUME MigrationInvariant, NEW p \in Projects, NEW k \in Keys, CreateFlag(p, k)
  PROVE  Promise!CreateFlag(p, k)
<1> DEFINE r == db.revision
           new == [project_id |-> p, key |-> k,
                   organization_id |-> IF r = Head4 THEN OrgOf[p] ELSE NONE]
<1>1. MigrationInvariant'
  BY Creates
<1>2. /\ r \in Revisions /\ Schema(db, Created(r), FlagKeys(r, NONE, 0, renamed))
      /\ db.organization_id = IF r = Head4 THEN "required" ELSE "absent"
  BY Resting
<1>3. /\ "flag" \in db.tables /\ db' = [db EXCEPT !.flags = db.flags \cup {new}]
      /\ new \notin db.flags /\ renamed' = renamed
  BY <1>2 DEF CreateFlag
<1>4. r >= 2
  BY <1>2, <1>3, FlagTable
<1>5. new.project_id = p /\ new.key = k
  OBVIOUS
<1> HIDE DEF new
<1>6. db'.revision = r /\ db'.flags = db.flags \cup {new}
  BY <1>3 DEF MigrationInvariant, Stage, Fields
<1>7. FlagsInv(db', Created(db'.revision), db'.revision = Head4, db'.revision = Head4)
  <2>1. Stage(db', NONE, 0, renamed')
    BY <1>1 DEF MigrationInvariant
  <2> QED
    BY <2>1, StageAtRest
<1>8. \A f, g \in db.flags \cup {new} :
        /\ f.project_id = g.project_id /\ f.key = g.key => f = g
        /\ r = Head4 /\ OrgOf[f.project_id] = OrgOf[g.project_id] /\ f.key = g.key => f = g
  BY <1>6, <1>7 DEF FlagsInv, Head4
<1>9. ASSUME NEW f \in db.flags, f.key = k
      PROVE  ~Promise!Together(f.project_id, p)
  <2>1. f # new
    BY <1>3
  <2>2. f.project_id # p /\ (r = Head4 => OrgOf[f.project_id] # OrgOf[p])
    BY <1>5, <1>8, <1>9, <2>1
  <2> QED
    BY <2>2 DEF Promise!Together, Promise!Head4, Head4
<1> QED
  BY <1>3, <1>4, <1>6, <1>9 DEF Promise!CreateFlag, Promise!Head4, Head4, new

(* A command is one step of the abstract database: at its commit every     *)
(* flag is where and what it was, but for the column of 0004, and the head *)
(* is reached only when nothing blocks it.  Whatever else a command does,  *)
(* its operations, a refusal, a rollback, changes nothing.  Code: env.py's *)
(* transaction around the operations of alembic/versions.                  *)
THEOREM MigrationsImplementDatabase == Spec => ImplementsDatabase
<1>1. Init => Promise!Init
  BY DEF Init, Empty, Promise!Init
<1>2. MigrationInvariant /\ [Next]_vars
        => [Promise!Next]_<<db.revision, db.flags, renamed>>
  <2> SUFFICES ASSUME MigrationInvariant, [Next]_vars
               PROVE  Promise!Next \/ UNCHANGED <<db.revision, db.flags, renamed>>
    OBVIOUS
  <2>1. CASE Commit
    BY <2>1, CommitMigrates DEF Promise!Next, Promise!Head4, Head4
  <2>2. CASE \E p \in Projects, k \in Keys : CreateFlag(p, k)
    BY <2>2, CreateCreates DEF Promise!Next
  <2>3. CASE UNCHANGED <<db, renamed>>
    BY <2>3
  <2> QED
    BY <2>1, <2>2, <2>3 DEF Next, Upgrade, Downgrade, Run, Stamp, Abort, vars
<1> QED
  BY <1>1, <1>2, MigrationInvariance, PTL DEF Spec, ImplementsDatabase, Promise!Spec
=============================================================================
