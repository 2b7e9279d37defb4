----------------------------- MODULE MCRealtime -----------------------------
(***************************************************************************)
(* A small instance of Realtime for TLC: two members' dashboards and one   *)
(* that is refused, a change of their organization, and a request about    *)
(* another one that may be a change or be refused.                         *)
(***************************************************************************)
EXTENDS Realtime

CONSTANTS acme, globex, r1, r2, s1, s2, s3

SomeOrgs == [x \in Sessions |-> IF x = r2 THEN globex ELSE acme]
SomeCallers ==
  [x \in Sessions |->
     CASE x = r2 -> Callers
       [] x = s1 -> {"member", "nobody"}
       [] x = s3 -> {"stranger"}
       [] OTHER  -> {"member"}]
=============================================================================
