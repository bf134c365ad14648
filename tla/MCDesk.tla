------------------------------- MODULE MCDesk -------------------------------
(* A small instance of Desk for TLC. *)
EXTENDS Desk, Integers, FiniteSets, TLC

CONSTANT MaxMishaps

Symmetry == Permutations(Admin) \cup Permutations(Request)

Mishaps == lost \cup failed \cup {a \in Admin : row[a] = DeletedAdmin}

\* So many accounts are deleted, push messages lost and consults rolled back at most.
FewMishaps == Cardinality(Mishaps) <= MaxMishaps

\* Of a row that was overtaken or replaced and of a consult that was moved or never
\* inserted the properties say nothing more: what follows is left alone.
StillFollowed == overtaken \cup moved \cup resaved \cup {k \in failed : ~Placed(k)} = {}
=============================================================================
