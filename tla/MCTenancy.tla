------------------------------ MODULE MCTenancy ------------------------------
(***************************************************************************)
(* Small instances of Tenancy for TLC: alice owns the organization acme,   *)
(* bob is a member of it, carol has an account only, and acme has one      *)
(* project, web, and one API key, old.                                     *)
(***************************************************************************)
EXTENDS Tenancy

CONSTANTS alice, bob, carol, acme, web, bobs, old,     \* ids
          New, Alike, Taken, Carol, Odd, Empty,        \* texts
          new, taken, alices, carols, odd              \* keys

SomeIds   == Requests \cup {alice, bob, carol, acme, web, bobs, old}
SomeTexts == {New, Alike, Taken, Carol, Odd, Empty}
SomeKeys  == {new, taken, alices, carols, odd}

(* A generated slug may be one that somebody else's name has.              *)
SomeSlugs == {new, odd}

(* Two texts with one normal form, one whose form is in use, the email of  *)
(* carol, a name without a letter, and one with nothing in it.             *)
NormalForm(table, text) ==
  CASE text \in {New, Alike} -> new
    [] text = Taken -> taken
    [] text = Carol -> carols
    [] text = Odd   -> IF table = "organization" THEN Generated ELSE new
    [] text = Empty -> Blank

NormalForms ==
  [table \in {"user", "organization", "project", "flag"} |->
     [text \in SomeTexts |-> NormalForm(table, text)]]

Stored(table, id, of, key, info, by) ==
  [table |-> table, id |-> id, of |-> of, key |-> key, info |-> info, by |-> by]

SomeRows ==
  { Stored("user", alice, NONE, alices, NONE, NONE),
    Stored("user", bob, NONE, taken, NONE, NONE),
    Stored("user", carol, NONE, carols, NONE, NONE),
    Stored("organization", acme, NONE, taken, NONE, alice),
    Stored("membership", acme, acme, alice, "owner", alice),
    Stored("membership", bobs, acme, bob, "member", alice),
    Stored("project", web, acme, taken, NONE, bob),
    Stored("api_key", old, acme, old, "production", alice) }

Asks(op, actor, of, text, info) ==
  [op |-> op, actor |-> actor, of |-> of, text |-> text, info |-> info]

(* Everything that can be asked of acme, and what can be asked of it once  *)
(* another request has added a user, an organization or a project.         *)
EveryBody ==
  {Asks("signup", NONE, NONE, text, NONE) : text \in {New, Alike, Taken, Empty}}
    \cup {Asks("create_organization", alice, NONE, text, NONE) :
            text \in {New, Alike, Taken, Odd, Empty}}
    \cup {Asks("invite_member", actor, acme, text, role) :
            actor \in {alice, bob}, text \in {New, Carol, Taken, Empty}, role \in {"owner", "member"}}
    \cup {Asks("create_project", actor, acme, text, NONE) :
            actor \in {bob, carol}, text \in {New, Alike, Taken, Empty}}
    \cup {Asks("create_flag", actor, web, text, NONE) :
            actor \in {bob, carol}, text \in {New, Alike}}
    \cup {Asks("create_api_key", actor, acme, NONE, "staging") : actor \in {alice, bob, carol}}
    \cup {Asks("revoke_api_key", actor, acme, NONE, old) : actor \in {alice, bob, carol}}
    \cup {Asks("create_organization", carol, NONE, Odd, NONE)}
    \cup {Asks("revoke_api_key", carol, r, NONE, old) : r \in Requests}
    \cup {Asks("revoke_api_key", alice, acme, NONE, r) : r \in Requests}
    \cup {Asks("create_organization", r, NONE, Alike, NONE) : r \in Requests}
    \cup {Asks("create_flag", bob, r, Alike, NONE) : r \in Requests}
    \cup {Asks("create_project", alice, r, New, NONE) : r \in Requests}
=============================================================================
