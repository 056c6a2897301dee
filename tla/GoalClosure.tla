----------------------------- MODULE GoalClosure -----------------------------
(***************************************************************************)
(* make_goal of src/resolver.cpp: once every goal is resolved, each goal   *)
(* in turn walks the edges of the whole result from its own members and    *)
(* keeps the selections and edges it reaches.                              *)
(*                                                                         *)
(* The module knows of an edge only its issuer and what it requires.  The  *)
(* C++ queue is a vector read by index; here the selections waiting in it  *)
(* are a set and any of them may be visited next, since the closure is     *)
(* collected in ordered sets and depends on no visiting order.             *)
(***************************************************************************)
EXTENDS Naturals, Sequences

CONSTANTS
  Graphs,   \* the sets of edges to consider
  Roots     \* the member selections to consider, a sequence with one set per goal

VARIABLES
  edges,     \* edges_, complete before the first goal is closed
  roots,     \* per goal, the selections of its members
  walking,   \* a closure is under construction
  queue,     \* the selections waiting to be visited
  selected,  \* selected_ids
  reached,   \* edge_ids
  closures   \* the goals closed so far, in order

walk     == <<walking, queue, selected, reached, closures>>
all_vars == <<edges, roots, walking, queue, selected, reached, closures>>

\* run() has just resolved the last goal.
NothingClosed ==
  /\ walking = FALSE
  /\ queue = {}
  /\ selected = {}
  /\ reached = {}
  /\ closures = <<>>

Init == edges \in Graphs /\ roots \in Roots /\ NothingClosed

Issued(n) == {e \in edges : e.issuer = n}

OpenGoal ==
  /\ ~ walking
  /\ Len(closures) < Len(roots)
  /\ walking' = TRUE
  /\ queue' = roots[Len(closures) + 1]
  /\ selected' = roots[Len(closures) + 1]
  /\ reached' = {}
  /\ UNCHANGED <<edges, roots, closures>>

\* Variants for the mutation runs: an edge is kept only if it leads to a new
\* selection; what an edge leads to is visited but not kept; or is always visited;
\* or is not visited when an earlier goal holds it.
VisitKeepingNewEdges ==
  /\ walking
  /\ \E n \in queue :
       LET found == {e.required : e \in Issued(n)} \ selected
       IN /\ reached' = reached \cup {e \in Issued(n) : e.required \in found}
          /\ selected' = selected \cup found
          /\ queue' = (queue \ {n}) \cup found
  /\ UNCHANGED <<edges, roots, walking, closures>>

VisitWithoutSelecting ==
  /\ walking
  /\ \E n \in queue :
       LET found == {e.required : e \in Issued(n)} \ selected
       IN /\ reached' = reached \cup Issued(n)
          /\ queue' = (queue \ {n}) \cup found
  /\ UNCHANGED <<edges, roots, walking, selected, closures>>

VisitAgain ==
  /\ walking
  /\ \E n \in queue :
       LET found == {e.required : e \in Issued(n)}
       IN /\ reached' = reached \cup Issued(n)
          /\ selected' = selected \cup found
          /\ queue' = (queue \ {n}) \cup found
  /\ UNCHANGED <<edges, roots, walking, closures>>

VisitWhatNoGoalHolds ==
  /\ walking
  /\ \E n \in queue :
       LET held  == UNION {closures[i].selections : i \in 1..Len(closures)}
           found == {e.required : e \in Issued(n)} \ (selected \cup held)
       IN /\ reached' = reached \cup Issued(n)
          /\ selected' = selected \cup found
          /\ queue' = (queue \ {n}) \cup found
  /\ UNCHANGED <<edges, roots, walking, closures>>

VisitSelection ==
  /\ walking
  /\ \E n \in queue :
       LET found == {e.required : e \in Issued(n)} \ selected
       IN /\ reached' = reached \cup Issued(n)
          /\ selected' = selected \cup found
          /\ queue' = (queue \ {n}) \cup found
  /\ UNCHANGED <<edges, roots, walking, closures>>

CloseGoal ==
  /\ walking
  /\ queue = {}
  /\ closures' = Append(closures, [selections |-> selected, edges |-> reached])
  /\ walking' = FALSE
  /\ UNCHANGED <<edges, roots, queue, selected, reached>>

Next == OpenGoal \/ VisitSelection \/ CloseGoal

\* make_goal runs to completion on the caller's thread.
Spec == Init /\ [][Next]_all_vars /\ WF_all_vars(Next)

-----------------------------------------------------------------------------
(***************************************************************************)
(* A closed goal holds the selections reachable from its members and       *)
(* nothing else, with every edge they issue, parallel and cyclic edges     *)
(* included.                                                               *)
(***************************************************************************)
ClosedUnderEdges(C) == \A e \in edges : e.issuer \in C => e.required \in C

ClosuresExact ==
  \A i \in 1..Len(closures) :
    LET kept == closures[i].selections
    IN /\ roots[i] \subseteq kept
       /\ ClosedUnderEdges(kept)
       /\ \A C \in SUBSET kept : roots[i] \subseteq C /\ ClosedUnderEdges(C) => C = kept
       /\ closures[i].edges = {e \in edges : e.issuer \in kept}

\* Every goal is closed, whatever cycles the graph has.
AllClosed == <>(Len(closures) = Len(roots))
=============================================================================
