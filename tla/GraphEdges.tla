------------------------------ MODULE GraphEdges ------------------------------
(***************************************************************************)
(* Links between collections. An edge is seen at the level of collections: *)
(* which fields it joins does not influence a traversal. A directed edge   *)
(* carries data from f1 to f2 only, a bidirectional one either way.        *)
(***************************************************************************)

\* A collection may not refer to itself.
EdgesOver(N) == {e \in [f1 : N, f2 : N, bi : BOOLEAN] : e.f1 # e.f2}

Directed(a, b) == [f1 |-> a, f2 |-> b, bi |-> FALSE]
Bidirectional(a, b) == [f1 |-> a, f2 |-> b, bi |-> TRUE]

\* The edge leads from a to b.
Spans(e, a, b) ==
    \/ e.f1 = a /\ e.f2 = b
    \/ e.bi /\ e.f1 = b /\ e.f2 = a

\* Where edge e leads from a: split_by_address, without the fields. A set, empty
\* when the edge does not leave a.
Targets(e, a) ==
    {b \in {e.f1, e.f2} : Spans(e, a, b)}

\* Mutants of EdgesInto: only edges used in the direction in which they were
\* declared; none, as if edges were never removed.
EdgesIntoForward(E, F, n) == {e \in E : e.f1 \in F /\ e.f2 = n}

EdgesIntoNone(E, F, n) == {}

\* The edges delete_edges removes for every one of the addresses in F.
EdgesInto(E, F, n) == {e \in E : \E f \in F : Spans(e, f, n)}

\* The collections the edges of E lead to from n.
ChildAddresses(E, n) == UNION {Targets(e, n) : e \in E}
===============================================================================
