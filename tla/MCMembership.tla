---------------------------- MODULE MCMembership ----------------------------
(* Small instances of Membership for TLC. *)
EXTENDS Membership

\* Node 1 founds the cluster.
Founders == <<1>>
Known == [n \in Nodes |-> IF n = 1 THEN "a1" ELSE ""]

\* Node 2 comes, moves, is promoted without an address (as stellmapctl does)
\* and goes.
Asked == {
  [type |-> "learner", node |-> 2, addr |-> "a2"],
  [type |-> "learner", node |-> 2, addr |-> "b2"],
  [type |-> "voter", node |-> 2, addr |-> ""],
  [type |-> "remove", node |-> 2, addr |-> ""]}
=============================================================================
