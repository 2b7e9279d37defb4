----------------------------- MODULE Migrations -----------------------------
(***************************************************************************)
(* The migrations 0001 to 0004, and the commands that run them.            *)
(*                                                                         *)
(* A migration is a list of operations on the schema and its rows.  A      *)
(* command runs the lists between two revisions, stamping the database     *)
(* after each, in one transaction: all of it is committed, or, when an     *)
(* operation is refused or the process dies, nothing.  Between two         *)
(* commands flags are created, by the program of that revision; the locks  *)
(* of a command's statements keep them out of it.                          *)
(*                                                                         *)
(* Of the rows, the flags are followed, which 0004 changes; of the         *)
(* columns, the one it adds; of the constraints, unique and foreign keys.  *)
(***************************************************************************)
EXTENDS Naturals, FiniteSets, Sequences

CONSTANTS
  Orgs, Projects, Keys,
  OrgOf,      \* the organization of each project
  MaxFlags,   \* bound: the flags there are
  NONE        \* null, no command

Tables == {"user", "organization", "membership", "project", "flag",
           "flag_environment_config", "api_key", "audit_log_entry"}

ASSUME ProjectsAssumption ==
  /\ OrgOf \in [Projects -> Orgs] /\ MaxFlags \in Nat
  /\ NONE \notin Orgs \cup Projects \cup Keys \cup Tables \cup {"upgrade", "downgrade"}

VARIABLES
  db,        \* what is committed
  command,   \* the command that runs
  target,    \* the revision it is to reach
  work,      \* what its transaction has made of the database
  done,      \* how many operations of the migration it is at have run
  renamed    \* history variable: 0004 was downgraded, and 0002 not since

vars == <<db, command, target, work, done, renamed>>

Head4 == 4
Revisions == 0..Head4

-----------------------------------------------------------------------------
(* Constraints. *)

Unique(table, columns, name) ==
  [table |-> table, columns |-> columns, refers |-> NONE, name |-> name]
Foreign(table, column, refers, name) ==
  [table |-> table, columns |-> {column}, refers |-> refers, name |-> name]

(* The name PostgreSQL gives to a constraint without one.  Only one of     *)
(* these is ever used.                                                     *)
Generated(table, columns) ==
  IF table = "flag" /\ columns = {"project_id", "key"}
  THEN "flag_project_id_key_key" ELSE "generated"

UniqueConstraint(table, columns) == Unique(table, columns, Generated(table, columns))
ForeignKey(table, column, refers) ==
  Foreign(table, column, refers, Generated(table, {column}))

(* A unique constraint holds of the flags; null is different from null. *)
Holds(c, flags) ==
  c.table = "flag" /\ c.refers = NONE =>
    \A f, g \in flags :
      (\A column \in c.columns : f[column] = g[column] /\ f[column] # NONE) => f = g

Named(d, table, name) == {c \in d.constraints : c.table = table /\ c.name = name}

-----------------------------------------------------------------------------
(* Operations, and the migrations. *)

CreateTable(table, constraints) ==
  [do |-> "create_table", table |-> table, constraints |-> constraints]
DropTable(table) == [do |-> "drop_table", table |-> table]
AddColumn == [do |-> "add_column"]
Backfill == [do |-> "backfill"]
NotNull == [do |-> "not_null"]
DropColumn == [do |-> "drop_column"]
AddConstraint(c) == [do |-> "add_constraint", constraint |-> c]
DropConstraint(name) == [do |-> "drop_constraint", table |-> "flag", name |-> name]

upgrade_0001 ==
  << CreateTable("user", {UniqueConstraint("user", {"email"})}),
     CreateTable("organization", {UniqueConstraint("organization", {"slug"})}),
     CreateTable("membership",
       {UniqueConstraint("membership", {"user_id", "organization_id"}),
        ForeignKey("membership", "organization_id", "organization"),
        ForeignKey("membership", "user_id", "user")}) >>
downgrade_0001 ==
  << DropTable("membership"), DropTable("organization"), DropTable("user") >>

upgrade_0002 ==
  << CreateTable("project",
       {UniqueConstraint("project", {"organization_id", "key"}),
        ForeignKey("project", "organization_id", "organization")}),
     CreateTable("flag",
       {UniqueConstraint("flag", {"project_id", "key"}),
        ForeignKey("flag", "created_by", "user"),
        ForeignKey("flag", "project_id", "project")}),
     CreateTable("flag_environment_config",
       {UniqueConstraint("flag_environment_config", {"flag_id", "environment"}),
        ForeignKey("flag_environment_config", "flag_id", "flag")}),
     CreateTable("api_key",
       {UniqueConstraint("api_key", {"hashed_key"}),
        ForeignKey("api_key", "organization_id", "organization")}) >>

(* The projects before the flags. *)
Bad_downgrade_0002 ==
  << DropTable("api_key"), DropTable("flag_environment_config"),
     DropTable("project"), DropTable("flag") >>
downgrade_0002 ==
  << DropTable("api_key"), DropTable("flag_environment_config"),
     DropTable("flag"), DropTable("project") >>

upgrade_0003 ==
  << CreateTable("audit_log_entry",
       {ForeignKey("audit_log_entry", "actor_user_id", "user"),
        ForeignKey("audit_log_entry", "flag_id", "flag"),
        ForeignKey("audit_log_entry", "organization_id", "organization")}) >>
downgrade_0003 == << DropTable("audit_log_entry") >>

FlagOrganization ==
  Foreign("flag", "organization_id", "organization",
          "fk_flag_organization_id_organization")
OrganizationKey ==
  Unique("flag", {"organization_id", "key"}, "uq_flag_organization_key")

(* The constraint of the projects is not dropped. *)
Bad_upgrade_0004 ==
  << AddColumn, Backfill, NotNull, AddConstraint(FlagOrganization),
     AddConstraint(OrganizationKey) >>
upgrade_0004 ==
  << AddColumn, Backfill, NotNull, AddConstraint(FlagOrganization),
     DropConstraint("flag_project_id_key_key"), AddConstraint(OrganizationKey) >>
downgrade_0004 ==
  << DropConstraint("uq_flag_organization_key"),
     DropConstraint("fk_flag_organization_id_organization"),
     AddConstraint(Unique("flag", {"project_id", "key"}, "uq_flag_project_key")),
     DropColumn >>

Upgrades == <<upgrade_0001, upgrade_0002, upgrade_0003, upgrade_0004>>
Downgrades == <<downgrade_0001, downgrade_0002, downgrade_0003, downgrade_0004>>

-----------------------------------------------------------------------------
(* What an operation needs, and what it does. *)

Applicable(op, d) ==
  CASE op.do = "create_table" ->
         /\ op.table \notin d.tables
         /\ \A c \in op.constraints : c.refers \in d.tables \cup {NONE}
    [] op.do = "drop_table" ->
         /\ op.table \in d.tables
         /\ \A c \in d.constraints : c.refers = op.table => c.table = op.table
    [] op.do = "add_column" -> "flag" \in d.tables /\ d.organization_id = "absent"
    [] op.do = "backfill" -> {"flag", "project"} \subseteq d.tables
    [] op.do = "not_null" -> \A f \in d.flags : f.organization_id # NONE
    [] op.do = "drop_column" -> d.organization_id # "absent"
    [] op.do = "add_constraint" ->
         /\ Named(d, op.constraint.table, op.constraint.name) = {}
         /\ op.constraint.refers \in d.tables \cup {NONE}
         /\ Holds(op.constraint, d.flags)
    [] op.do = "drop_constraint" -> Named(d, op.table, op.name) # {}

(* UPDATE ... FROM project without its WHERE: any project will do. *)
BadBackfilled(flags) ==
  {[f EXCEPT !.organization_id = CHOOSE o \in Orgs : \E p \in Projects : OrgOf[p] = o] :
     f \in flags}
Backfilled(flags) == {[f EXCEPT !.organization_id = OrgOf[f.project_id]] : f \in flags}

Apply(op, d) ==
  CASE op.do = "create_table" ->
         [d EXCEPT !.tables = @ \cup {op.table}, !.constraints = @ \cup op.constraints]
    [] op.do = "drop_table" ->
         [d EXCEPT !.tables = @ \ {op.table},
                   !.constraints = {c \in @ : c.table # op.table},
                   !.flags = IF op.table = "flag" THEN {} ELSE @]
    [] op.do = "add_column" -> [d EXCEPT !.organization_id = "nullable"]
    [] op.do = "backfill" -> [d EXCEPT !.flags = Backfilled(@)]
    [] op.do = "not_null" -> [d EXCEPT !.organization_id = "required"]
    [] op.do = "drop_column" ->
         [d EXCEPT !.organization_id = "absent",
                   !.constraints =
                     {c \in @ : c.table = "flag" => "organization_id" \notin c.columns},
                   !.flags = {[f EXCEPT !.organization_id = NONE] : f \in @}]
    [] op.do = "add_constraint" -> [d EXCEPT !.constraints = @ \cup {op.constraint}]
    [] op.do = "drop_constraint" ->
         [d EXCEPT !.constraints = @ \ Named(d, op.table, op.name)]

-----------------------------------------------------------------------------
Empty == [revision |-> 0, tables |-> {}, constraints |-> {},
          organization_id |-> "absent", flags |-> {}]

Init ==
  /\ db = Empty
  /\ command = NONE /\ target = NONE
  /\ work = db
  /\ done = 0
  /\ renamed = FALSE

Upgrade(to) ==
  /\ command = NONE
  /\ db.revision < to
  /\ command' = "upgrade" /\ target' = to
  /\ work' = db
  /\ done' = 0
  /\ UNCHANGED <<db, renamed>>

Downgrade(to) ==
  /\ command = NONE
  /\ to < db.revision
  /\ command' = "downgrade" /\ target' = to
  /\ work' = db
  /\ done' = 0
  /\ UNCHANGED <<db, renamed>>

(* The migration the command is at, and the operation. *)
Migration ==
  IF command = "upgrade" THEN Upgrades[work.revision + 1] ELSE Downgrades[work.revision]
Running == command # NONE /\ work.revision # target
InMigration == Running /\ done < Len(Migration)
Operation == Migration[done + 1]

Refused == InMigration /\ ~Applicable(Operation, work)

Run ==
  /\ InMigration /\ Applicable(Operation, work)
  /\ work' = Apply(Operation, work)
  /\ done' = done + 1
  /\ UNCHANGED <<db, command, target, renamed>>

(* The migration has run: the database is at the next revision. *)
Stamp ==
  /\ Running /\ done = Len(Migration)
  /\ work' = [work EXCEPT !.revision = IF command = "upgrade" THEN @ + 1 ELSE @ - 1]
  /\ done' = 0
  /\ UNCHANGED <<db, command, target, renamed>>

Commit ==
  /\ command # NONE /\ work.revision = target
  /\ db' = work
  /\ renamed' = ( /\ renamed \/ (db.revision = Head4 /\ work.revision < Head4)
                  /\ work.revision >= 2 )
  /\ command' = NONE /\ target' = NONE
  /\ UNCHANGED <<work, done>>

(* What ran is there, whatever follows. *)
BadAbort ==
  /\ command # NONE
  /\ db' = work
  /\ command' = NONE /\ target' = NONE
  /\ done' = 0
  /\ UNCHANGED <<work, renamed>>

(* An operation was refused, or the process died: the transaction is       *)
(* rolled back.                                                            *)
Abort ==
  /\ command # NONE
  /\ command' = NONE /\ target' = NONE
  /\ work' = db
  /\ done' = 0
  /\ UNCHANGED <<db, renamed>>

(* The project's id in the organization's column. *)
BadCreateFlag(p, k) ==
  /\ command = NONE
  /\ "flag" \in db.tables
  /\ Cardinality(db.flags) < MaxFlags
  /\ db' = [db EXCEPT !.flags = @ \cup
              {[project_id |-> p, key |-> k,
                organization_id |-> IF db.organization_id = "absent" THEN NONE ELSE p]}]
  /\ work' = db'
  /\ UNCHANGED <<command, target, done, renamed>>

(* A flag is created, with its project's organization where the column is, *)
(* unless the constraints of the revision forbid it.                       *)
CreateFlag(p, k) ==
  LET new == [project_id |-> p, key |-> k,
              organization_id |-> IF db.organization_id = "absent"
                                  THEN NONE ELSE OrgOf[p]]
      flags == db.flags \cup {new}
  IN /\ command = NONE
     /\ "flag" \in db.tables
     /\ Cardinality(db.flags) < MaxFlags
     /\ new \notin db.flags
     /\ \A c \in db.constraints : Holds(c, flags)
     /\ db' = [db EXCEPT !.flags = flags]
     /\ work' = db'
     /\ UNCHANGED <<command, target, done, renamed>>

Next ==
  \/ \E to \in Revisions : Upgrade(to) \/ Downgrade(to)
  \/ Run \/ Stamp \/ Commit \/ Abort
  \/ \E p \in Projects, k \in Keys : CreateFlag(p, k)

Spec == Init /\ [][Next]_vars

-----------------------------------------------------------------------------
(* The tables as the program declares them: their unique and foreign keys. *)
Models ==
  { <<"user", {"email"}, NONE>>,
    <<"organization", {"slug"}, NONE>>,
    <<"membership", {"user_id", "organization_id"}, NONE>>,
    <<"membership", {"user_id"}, "user">>,
    <<"membership", {"organization_id"}, "organization">>,
    <<"project", {"organization_id", "key"}, NONE>>,
    <<"project", {"organization_id"}, "organization">>,
    <<"flag", {"organization_id", "key"}, NONE>>,
    <<"flag", {"organization_id"}, "organization">>,
    <<"flag", {"project_id"}, "project">>,
    <<"flag", {"created_by"}, "user">>,
    <<"flag_environment_config", {"flag_id", "environment"}, NONE>>,
    <<"flag_environment_config", {"flag_id"}, "flag">>,
    <<"api_key", {"hashed_key"}, NONE>>,
    <<"api_key", {"organization_id"}, "organization">>,
    <<"audit_log_entry", {"organization_id"}, "organization">>,
    <<"audit_log_entry", {"flag_id"}, "flag">>,
    <<"audit_log_entry", {"actor_user_id"}, "user">> }

Flags == [project_id : Projects, key : Keys, organization_id : Orgs \cup {NONE}]

TypeOK ==
  /\ \A d \in {db, work} :
       /\ d.revision \in Revisions
       /\ d.tables \subseteq Tables
       /\ \A c \in d.constraints : c.table \in d.tables /\ c.refers \in d.tables \cup {NONE}
       /\ d.organization_id \in {"absent", "nullable", "required"}
       /\ d.flags \subseteq Flags
  /\ command \in {"upgrade", "downgrade", NONE}
  /\ target \in Revisions \cup {NONE} /\ done \in Nat
  /\ renamed \in BOOLEAN

(* At the head the database has the keys that the program declares, no     *)
(* more and no fewer; below it, those of its tables, with a flag's key     *)
(* unique in its project.  However the database came to its revision.      *)
SchemaIsTheModels ==
  LET keys == {<<c.table, c.columns, c.refers>> : c \in db.constraints}
      ofFlags == {m \in Models : m[1] = "flag" /\ "organization_id" \in m[2]}
      below == {m \in Models \ ofFlags : m[1] \in db.tables}
      flagKey == {m \in {<<"flag", {"project_id", "key"}, NONE>>} : "flag" \in db.tables}
  IN /\ keys = IF db.revision = Head4 THEN Models ELSE below \cup flagKey
     /\ db.organization_id = IF db.revision = Head4 THEN "required" ELSE "absent"

(* A flag is in the organization of its project, and the only one there    *)
(* with its key, whether the migration or the program wrote the column.    *)
FlagsOfTheirOrganization ==
  db.revision = Head4 =>
    \A f, g \in db.flags :
      /\ f.organization_id = OrgOf[f.project_id]
      /\ f.organization_id = g.organization_id /\ f.key = g.key => f = g

(* Two projects of an organization have flags with the same key. *)
KeysClash ==
  \E f, g \in db.flags :
    f.project_id # g.project_id /\ OrgOf[f.project_id] = OrgOf[g.project_id] /\ f.key = g.key

(* An upgrade is refused only for such keys, or because 0004 has been      *)
(* downgraded: that leaves its constraint under another name than the one  *)
(* it drops.  No downgrade is refused.                                     *)
RefusedOnlyWhenBlocked ==
  Refused => command = "upgrade" /\ (renamed \/ KeysClash)

(* And then the head cannot be reached at all: not before 0002 has been    *)
(* downgraded, and the flags are gone.                                     *)
BlockedBelowHead ==
  [][(renamed \/ KeysClash) /\ db.revision < Head4 => db'.revision < Head4]_vars

Promise == INSTANCE Database WITH revision <- db.revision, flags <- db.flags

(* A command is one step from a revision to another, of all or nothing,    *)
(* that keeps every flag where there is a table for it.                    *)
ImplementsDatabase == Promise!Spec
=============================================================================
