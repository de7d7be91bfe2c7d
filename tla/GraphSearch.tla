----------------------------- MODULE GraphSearch ------------------------------
(***************************************************************************)
(* What a traversal of the dataset graph does, without the order of its    *)
(* queue: starting from the root, whose edges lead to the collections that *)
(* hold the identities of the request, some waiting collection that may    *)
(* run is run, the edges into it from collections that have run become     *)
(* parent-child links, and the collections its other edges lead to wait.   *)
(***************************************************************************)
EXTENDS Naturals, FiniteSets, GraphEdges

CONSTANTS
    Nodes,      \* collections
    Root,       \* the artificial root, not a collection
    DatasetOf,  \* the dataset of each collection
    Graphs      \* the graphs considered, with the "after" of their collections
                \* and datasets

All == Nodes \union {Root}

\* Edges join known collections. None leads to the root, and those from the root
\* have a direction.
WellFormed(g) ==
    /\ g.edges \subseteq EdgesOver(All)
    /\ \A e \in g.edges : e.f2 # Root /\ (e.f1 = Root => ~e.bi)
    /\ g.after \in [Nodes -> SUBSET Nodes]

ASSUME GraphAssumption ==
    /\ Root \notin Nodes
    /\ \A g \in Graphs : WellFormed(g)

VARIABLES
    graph,      \* the graph searched
    waiting,    \* collections to run
    finished,   \* collections that have run
    remaining,  \* edges not used yet
    children,   \* pairs <<parent, child>>
    terminal,   \* collections without children of their own
    outcome     \* "running", "done", or the TraversalError raised

searchVars == <<graph, waiting, finished, remaining, children, terminal, outcome>>

Init ==
    /\ graph \in Graphs
    /\ waiting = {Root}
    /\ finished = {}
    /\ remaining = graph.edges
    /\ children = {}
    /\ terminal = {}
    /\ outcome = "running"

RemainingNodes == Nodes \ finished

\* Mutant of CanRun: the dataset's "after" is ignored.
CanRunIgnoringDataset(n) == n # Root => graph.after[n] \cap RemainingNodes = {}

\* The collection's own "after", and its dataset's, hold no collection that has
\* not run. The root waits for nothing.
CanRun(n) ==
    n # Root =>
        /\ graph.after[n] \cap RemainingNodes = {}
        /\ graph.datasetAfter[DatasetOf[n]]
               \cap {DatasetOf[k] : k \in RemainingNodes} = {}

\* Mutants of Visit: ends are collections that no edge leaves at all...
VisitStrictEnds(n) ==
    LET used == EdgesInto(remaining, finished, n)
        left == remaining \ used
    IN
    /\ remaining' = left
    /\ children' = children \union
           {<<f, n>> : f \in {m \in finished : \E e \in used : Spans(e, m, n)}}
    /\ terminal' = IF ChildAddresses(graph.edges, n) = {}
                   THEN terminal \union {n}
                   ELSE terminal
    /\ finished' = finished \union {n}

\* ... children are linked along declared directions only...
VisitLinksForward(n) ==
    LET used == EdgesInto(remaining, finished, n)
        left == remaining \ used
    IN
    /\ remaining' = left
    /\ children' = children \union
           {<<f, n>> : f \in {m \in finished : \E e \in used : e.f1 = m}}
    /\ terminal' = IF ChildAddresses(left, n) = {}
                   THEN terminal \union {n}
                   ELSE terminal
    /\ finished' = finished \union {n}

\* ... a link is made both ways.
VisitLinksBothWays(n) ==
    LET used == EdgesInto(remaining, finished, n)
        left == remaining \ used
        feeds == {m \in finished \ {Root} : \E e \in used : Spans(e, m, n)}
    IN
    /\ remaining' = left
    /\ children' = children \union {<<f, n>> : f \in feeds}
                            \union {<<n, f>> : f \in feeds}
    /\ terminal' = IF ChildAddresses(left, n) = {}
                   THEN terminal \union {n}
                   ELSE terminal
    /\ finished' = finished \union {n}

\* What running n does to everything but the waiting collections.
Visit(n) ==
    LET used == EdgesInto(remaining, finished, n)
        left == remaining \ used
    IN
    /\ remaining' = left
    /\ children' = children \union
           {<<f, n>> : f \in {m \in finished : \E e \in used : Spans(e, m, n)}}
    /\ terminal' = IF ChildAddresses(left, n) = {}
                   THEN terminal \union {n}
                   ELSE terminal
    /\ finished' = finished \union {n}

Run(n) ==
    /\ outcome = "running"
    /\ n \in waiting
    /\ CanRun(n)
    /\ Visit(n)
    /\ waiting' = (waiting \ {n}) \union ChildAddresses(remaining', n)
    /\ UNCHANGED <<graph, outcome>>

\* Collections wait, and each waits for another.
Stuck ==
    /\ outcome = "running"
    /\ waiting # {}
    /\ \A n \in waiting : ~CanRun(n)
    /\ outcome' = "bad_ordering"
    /\ UNCHANGED <<graph, waiting, finished, remaining, children, terminal>>

Finish ==
    /\ outcome = "running"
    /\ waiting = {}
    /\ outcome' = IF RemainingNodes # {} THEN "unreachable_nodes"
                  ELSE IF remaining # {} THEN "unreachable_edges"
                  ELSE "done"
    /\ UNCHANGED <<graph, waiting, finished, remaining, children, terminal>>

Next == Stuck \/ Finish \/ \E n \in All : Run(n)

Spec == Init /\ [][Next]_searchVars

-----------------------------------------------------------------------------
\* Properties

TypeOK ==
    /\ WellFormed(graph)
    /\ waiting \subseteq All
    /\ finished \subseteq All
    /\ remaining \subseteq graph.edges
    /\ children \subseteq All \X Nodes
    /\ terminal \subseteq finished
    /\ outcome \in {"running", "done", "bad_ordering", "unreachable_nodes",
                    "unreachable_edges"}

\* What "after" asks for, as a set of collections.
After(n) ==
    IF n = Root THEN {}
    ELSE graph.after[n] \union
         {k \in Nodes : DatasetOf[k] \in graph.datasetAfter[DatasetOf[n]]}

\* A set of collections that a search could not leave: it holds the root and
\* every collection that an edge leads to from it and whose "after" it covers.
Closed(S) ==
    /\ Root \in S
    /\ \A n \in Nodes :
          /\ \E m \in S, e \in graph.edges : Spans(e, m, n)
          /\ After(n) \subseteq S
          => n \in S

\* However the sets of edges and of children are iterated, a traversal runs the
\* same collections when it ends, even in an error: the least closed set. So
\* the verdict on a graph and seed does not depend on hash order.
RunsLeastClosedSet ==
    outcome # "running" =>
        /\ Closed(finished)
        /\ \A S \in SUBSET All : Closed(S) => finished \subseteq S

\* The last check of traverse, "Some edges were not reachable", never raises:
\* once every collection has run, every edge has been used.
EdgesAllUsed == outcome # "unreachable_edges"

\* Every run of a collection uses up an edge, those of collections that are
\* put in the queue again included: this is why the while loop ends.
RunsUseEdges ==
    [][\A n \in Nodes : Run(n) => remaining' # remaining]_searchVars

\* A set of collections that no children link leads out of.
Downward(S) == \A p \in S, c \in Nodes : <<p, c>> \in children => c \in S

\* The collections that one of R leads to by children links, R included: what
\* every such set around R has.
Descendants(R) ==
    {n \in All : \A S \in SUBSET All : R \subseteq S /\ Downward(S) => n \in S}

\* Every collection of an accepted traversal feeds an end node. Only what an
\* end node needs is executed, so a collection that feeds none would be skipped
\* without an error.
EndsNeedEverything ==
    outcome = "done" =>
        \A n \in Nodes : Descendants({n}) \cap terminal # {}

\* Every collection of an accepted traversal gets data that came from the root.
SeededFromRoot == outcome = "done" => Nodes \subseteq Descendants({Root})

\* No collection needs its own output.
Acyclic ==
    \A n \in Nodes :
        n \notin Descendants({c \in Nodes : <<n, c>> \in children})

\* If no reference between collections has a direction, an accepted traversal
\* can be executed.
UndirectedIsAcyclic ==
    (\A e \in graph.edges : e.bi \/ e.f1 = Root) => Acyclic
===============================================================================
