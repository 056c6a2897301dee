---------------------------- MODULE MCGoalClosure ----------------------------
(***************************************************************************)
(* Every graph over three selections, with a parallel edge between two of  *)
(* them, and two goals: the first with any set of members, the second with *)
(* none, one or two.                                                       *)
(***************************************************************************)
EXTENDS GoalClosure

CONSTANTS n1, n2, n3, run, build

MCNode == {n1, n2, n3}

RunEdges == [issuer : MCNode, required : MCNode, scope : {run}]

Parallel == [issuer |-> n1, required |-> n2, scope |-> build]

MCGraphs == SUBSET RunEdges \cup {G \cup {Parallel} : G \in SUBSET RunEdges}

MCRoots == {<<R, S>> : R \in SUBSET MCNode, S \in {{}, {n3}, {n1, n2}}}
=============================================================================
