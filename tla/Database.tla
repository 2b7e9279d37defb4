------------------------------ MODULE Database ------------------------------
(***************************************************************************)
(* What the migrations promise of the flags, without schemas, operations,  *)
(* transactions or refusals: a command takes the database to another       *)
(* revision in one step.  The flags come with it, as long as the revision  *)
(* has flags, none lost, none added and none merged, and each with its     *)
(* project's organization exactly at the head.                             *)
(*                                                                         *)
(* Migrations implements this specification.                               *)
(***************************************************************************)
EXTENDS Naturals

CONSTANTS Projects, Keys, OrgOf, NONE

VARIABLES
  revision,
  flags,
  renamed     \* 0004 was downgraded, and 0002 not since

Head4 == 4

(* The flags at revision `r'. *)
FlagsAt(r) ==
  {[f EXCEPT !.organization_id = IF r = Head4 THEN OrgOf[f.project_id] ELSE NONE] :
     f \in {g \in flags : r >= 2}}

(* At the head two flags of an organization may not have one key, and      *)
(* below it two of a project.                                              *)
Together(p, q) == IF revision = Head4 THEN OrgOf[p] = OrgOf[q] ELSE p = q

(* There is a way to the head. *)
Open ==
  /\ ~renamed
  /\ \A f, g \in flags :
       f.key = g.key /\ OrgOf[f.project_id] = OrgOf[g.project_id] => f.project_id = g.project_id

Init == revision = 0 /\ flags = {} /\ renamed = FALSE

Migrate(to) ==
  /\ to # revision
  /\ to = Head4 => Open
  /\ revision' = to
  /\ flags' = FlagsAt(to)
  /\ renamed' = (to >= 2 /\ (renamed \/ revision = Head4))

CreateFlag(p, k) ==
  /\ revision >= 2
  /\ \A f \in flags : f.key = k => ~Together(f.project_id, p)
  /\ flags' = flags \cup
       {[project_id |-> p, key |-> k,
         organization_id |-> IF revision = Head4 THEN OrgOf[p] ELSE NONE]}
  /\ UNCHANGED <<revision, renamed>>

Next ==
  \/ \E to \in 0..Head4 : Migrate(to)
  \/ \E p \in Projects, k \in Keys : CreateFlag(p, k)

Spec == Init /\ [][Next]_<<revision, flags, renamed>>
=============================================================================
