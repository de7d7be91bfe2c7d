----------------------------- MODULE SampleGraphs -----------------------------
(***************************************************************************)
(* Families of dataset graphs for model checking: three collections in two *)
(* datasets. Collections are joined by any of several combinations of      *)
(* edges, any subset of them holds an identity of the request, and some    *)
(* orders are asked for with "after", contradictory ones included.         *)
(***************************************************************************)
EXTENDS GraphEdges

CONSTANTS a, b, c, root

SampleNodes == {a, b, c}
SampleDatasetOf == [n \in SampleNodes |-> IF n = c THEN "d2" ELSE "d1"]

Joined(x, y) ==
    { {}, {Bidirectional(x, y)}, {Directed(x, y)}, {Directed(y, x)} }

TwiceJoined(x, y) ==
    { {Directed(x, y), Directed(y, x)}, {Bidirectional(x, y), Directed(y, x)} }

Seeds == {{Directed(root, n) : n \in S} : S \in SUBSET SampleNodes}

NoAfter == [n \in SampleNodes |-> {}]
NoDatasetAfter == [d \in {"d1", "d2"} |-> {}]

Graph(edges, after, datasetAfter) ==
    [edges |-> edges, after |-> after, datasetAfter |-> datasetAfter]

Unordered(edges) == Graph(edges, NoAfter, NoDatasetAfter)

\* All shapes, none ordered.
Shapes ==
    {s \union ab \union bc \union ac :
        s \in Seeds, ab \in Joined(a, b) \union TwiceJoined(a, b),
        bc \in Joined(b, c), ac \in Joined(a, c)}

\* Orders of collections, of datasets and of both; the last three contradict
\* themselves.
Orders ==
    { <<[NoAfter EXCEPT ![a] = {b}], NoDatasetAfter>>,
      <<[NoAfter EXCEPT ![b] = {c}, ![a] = {b}], NoDatasetAfter>>,
      <<NoAfter, [NoDatasetAfter EXCEPT !["d1"] = {"d2"}]>>,
      <<[NoAfter EXCEPT ![a] = {b}, ![b] = {a}], NoDatasetAfter>>,
      <<NoAfter, [NoDatasetAfter EXCEPT !["d2"] = {"d2"}]>>,
      <<[NoAfter EXCEPT ![c] = {a}], [NoDatasetAfter EXCEPT !["d1"] = {"d2"}]>> }

OrderedShapes ==
    {s \union ab \union bc :
        s \in Seeds, ab \in Joined(a, b), bc \in Joined(b, c)}

SampleGraphFamily ==
    {Unordered(e) : e \in Shapes}
    \union {Graph(e, o[1], o[2]) : e \in OrderedShapes, o \in Orders}

\* a refers to b, b to c and c to a, all with direction "to", and a holds the
\* identity.
CircularGraphs ==
    { Unordered({Directed(root, a), Directed(a, b), Directed(b, c),
                 Directed(c, a)}) }

\* Graphs to execute: a chain, two collections that feed a third, a triangle
\* whose last side is used after both its ends have run, a cycle, a collection
\* out of reach, and an order that contradicts itself.
ExecutedGraphs ==
    { Unordered({Directed(root, a), Bidirectional(a, b), Directed(b, c)}),
      Unordered({Directed(root, a), Directed(root, b), Directed(a, c),
                 Directed(b, c)}),
      Unordered({Directed(root, a), Bidirectional(a, b), Bidirectional(b, c),
                 Bidirectional(a, c)}),
      Unordered({Directed(root, a), Directed(b, c)}),
      Graph({Directed(root, a), Directed(a, b), Directed(b, c)},
            [NoAfter EXCEPT ![b] = {c}], NoDatasetAfter) }
    \union CircularGraphs

\* Two collections hold the identity, and one is to be read after the other.
AfterGraphs ==
    { Graph({Directed(root, a), Directed(root, b), Directed(root, c)},
            [NoAfter EXCEPT ![a] = {b}], NoDatasetAfter) }
===============================================================================
