---------------------------- MODULE MCMigrations ----------------------------
(***************************************************************************)
(* A small instance of Migrations for TLC: two projects of an organization *)
(* and one of another.                                                     *)
(***************************************************************************)
EXTENDS Migrations

CONSTANTS acme, globex, p1, p2, p3

SomeOrgs == [p \in Projects |-> IF p = p3 THEN globex ELSE acme]
=============================================================================
