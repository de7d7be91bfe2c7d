---------------------------- MODULE TraversalProofs ---------------------------
(***************************************************************************)
(* Proofs about GraphSearch, for every finite set of collections and every *)
(* set of graphs over it, finite or not; and that the traversal with its   *)
(* queue implements the search without one.                                *)
(***************************************************************************)
EXTENDS Traversal, SequenceTheorems, FiniteSetTheorems, TLAPS

-----------------------------------------------------------------------------
\* The search

\* The collections that wait are exactly those that unused edges lead to from
\* collections that have run, and the root at the start.
Covered ==
    \A m \in finished, e \in remaining, n \in All :
        Spans(e, m, n) => n \in waiting

Sourced ==
    \A n \in waiting :
        n = Root \/ \E m \in finished, e \in remaining : Spans(e, m, n)

RootFirst == Root \in waiting \/ Root \in finished

\* An edge is used only when both its ends have run.
UsedBetweenFinished ==
    \A e \in graph.edges \ remaining : e.f1 \in finished /\ e.f2 \in finished

\* A bidirectional edge is used as soon as both its ends have run.
TwoWayOpen ==
    \A e \in remaining : e.bi => e.f1 \notin finished \/ e.f2 \notin finished

\* Nothing has run that a closed set could do without.
Needed == \A S \in SUBSET All : Closed(S) => finished \subseteq S

\* A set of collections that children links do not lead out of, some of which have
\* run, has an end node or an unused edge that leaves one of them.
EndsAhead ==
    \A S \in SUBSET All :
        Downward(S) /\ S \cap finished # {} =>
            \/ S \cap terminal # {}
            \/ \E m \in S \cap finished, e \in remaining, x \in All : Spans(e, m, x)

\* All that has run descends from the root.
Rooted == \A S \in SUBSET All : Root \in S /\ Downward(S) => finished \subseteq S

\* Links join collections that have run.
LinksFinished == \A p \in All, c \in Nodes : <<p, c>> \in children => p \in finished

\* Without directed references, the root has run first, no unused edge is between
\* collections that have run, and every collection has a set that holds what it
\* feeds and not itself.
Undirected == \A e \in graph.edges : e.bi \/ e.f1 = Root

Apart(n, S) ==
    n \notin S /\ Downward(S) /\ \A c \in Nodes : <<n, c>> \in children => c \in S

UndirectedInv ==
    Undirected =>
        /\ finished = {} \/ Root \in finished
        /\ \A e \in remaining : e.f1 \notin finished \/ e.f2 \notin finished
        /\ \A n \in Nodes : \E S \in SUBSET Nodes : Apart(n, S)

\* At the end no edge is left if the traversal is accepted.
DoneMeansAll == outcome = "done" => Nodes \subseteq finished /\ remaining = {}

\* A traversal ends only when nothing that waits may run.
EndedAtRest == outcome # "running" => \A n \in waiting : ~CanRun(n)

SearchInv ==
    /\ TypeOK /\ Covered /\ Sourced /\ RootFirst
    /\ UsedBetweenFinished /\ TwoWayOpen /\ Needed /\ EndedAtRest
    /\ EdgesAllUsed

\* The second invariant, about the links that a traversal makes.
ReachInv == EndsAhead /\ Rooted /\ LinksFinished /\ UndirectedInv /\ DoneMeansAll

\* can_run_given in terms of collections only.
LEMMA CanRunMeansAfterFinished ==
    ASSUME TypeOK, NEW n \in All
    PROVE  CanRun(n) <=> After(n) \subseteq finished
<1>1. CASE n = Root
  BY <1>1 DEF CanRun, After
<1>2. CASE n # Root
  <2>1. n \in Nodes /\ graph.after[n] \subseteq Nodes
    BY <1>2 DEF All, TypeOK, WellFormed
  <2> QED
    BY <1>2, <2>1 DEF CanRun, After, RemainingNodes
<1> QED
  BY <1>1, <1>2

\* What a run adds to the queue are collections of the graph.
LEMMA RunKeepsType ==
    ASSUME TypeOK, NEW n \in All, Run(n)
    PROVE  TypeOK'
<1> USE GraphAssumption DEF TypeOK, WellFormed, All, Run, Visit
<1>1. ChildAddresses(remaining', n) \subseteq All
  BY DEF ChildAddresses, Targets, EdgesOver, EdgesInto
<1>2. remaining' \subseteq graph'.edges /\ WellFormed(graph)'
  BY DEF EdgesInto
<1>3. n = Root => children' = children
  BY DEF EdgesInto, Spans, EdgesOver
<1>4. children' \subseteq All \X Nodes
  BY <1>3
<1> QED
  BY <1>1, <1>2, <1>4

\* Running a collection keeps the invariant, one step per conjunct.
LEMMA RunKeepsInv ==
    ASSUME SearchInv, NEW n \in All, Run(n)
    PROVE  SearchInv'
<1> DEFINE used == EdgesInto(remaining, finished, n)
           left == remaining \ used
<1>1. /\ outcome = "running" /\ n \in waiting /\ CanRun(n)
      /\ remaining' = left
      /\ finished' = finished \union {n}
      /\ waiting' = (waiting \ {n}) \union ChildAddresses(left, n)
      /\ UNCHANGED <<graph, outcome>>
  BY DEF Run, Visit
<1>2. TypeOK'
  BY RunKeepsType DEF SearchInv
<1>3. \A x \in All : x \in ChildAddresses(left, n) <=> \E e \in left : Spans(e, n, x)
  BY DEF ChildAddresses, Targets, Spans
<1>4. remaining \subseteq EdgesOver(All)
  BY DEF SearchInv, TypeOK, WellFormed
<1>5. Covered'
  <2> SUFFICES ASSUME NEW m \in finished', NEW e \in remaining', NEW x \in All,
                      Spans(e, m, x)
               PROVE  x \in waiting'
    BY DEF Covered
  <2>1. CASE m = n
    BY <1>1, <1>3, <2>1
  <2>2. CASE m # n
    <3>1. m \in finished /\ e \in remaining /\ e \notin used
      BY <1>1, <2>2
    <3>2. x # n
      BY <3>1 DEF EdgesInto
    <3>3. x \in waiting
      BY <3>1 DEF SearchInv, Covered
    <3> QED
      BY <1>1, <3>2, <3>3
  <2> QED
    BY <2>1, <2>2
<1>6. Sourced'
  <2> SUFFICES ASSUME NEW x \in waiting', x # Root
               PROVE  \E m \in finished', e \in remaining' : Spans(e, m, x)
    BY DEF Sourced
  <2>1. CASE x \in ChildAddresses(left, n)
    <3>1. PICK e \in left : Spans(e, n, x)
      BY <2>1 DEF ChildAddresses, Targets
    <3> QED
      BY <1>1, <3>1
  <2>2. CASE x \in waiting /\ x # n
    <3>1. PICK m \in finished, e \in remaining : Spans(e, m, x)
      BY <2>2 DEF SearchInv, Sourced
    <3>2. CASE e \in left
      BY <1>1, <3>1, <3>2
    <3>3. CASE e \notin left
      <4>1. PICK f \in finished : Spans(e, f, n)
        BY <3>1, <3>3 DEF EdgesInto
      <4>2. e.f1 # e.f2
        BY <1>4, <3>1 DEF EdgesOver
      <4>3. e.bi /\ e.f1 \in finished /\ e.f2 \in finished
        BY <2>2, <3>1, <4>1, <4>2 DEF Spans
      <4> QED
        BY <3>1, <4>3 DEF SearchInv, TwoWayOpen
    <3> QED
      BY <3>2, <3>3
  <2> QED
    BY <1>1, <2>1, <2>2
<1>7. RootFirst'
  BY <1>1 DEF SearchInv, RootFirst
<1>8. UsedBetweenFinished'
  <2> SUFFICES ASSUME NEW e \in graph.edges, e \notin left
               PROVE  e.f1 \in finished' /\ e.f2 \in finished'
    BY <1>1 DEF UsedBetweenFinished
  <2>1. CASE e \in remaining
    <3>1. PICK f \in finished : Spans(e, f, n)
      BY <2>1 DEF EdgesInto
    <3> QED
      BY <1>1, <3>1 DEF Spans
  <2>2. CASE e \notin remaining
    BY <1>1, <2>2 DEF SearchInv, UsedBetweenFinished
  <2> QED
    BY <2>1, <2>2
<1>9. Needed'
  <2> SUFFICES ASSUME NEW S \in SUBSET All, Closed(S)'
               PROVE  finished' \subseteq S
    BY DEF Needed
  <2>1. Closed(S)
    BY <1>1 DEF Closed, After
  <2>2. finished \subseteq S
    BY <2>1 DEF SearchInv, Needed
  <2>3. n \in S
    <3>1. CASE n = Root
      BY <2>1, <3>1 DEF Closed
    <3>2. CASE n # Root
      <4>1. PICK m \in finished, e \in remaining : Spans(e, m, n)
        BY <1>1, <3>2 DEF SearchInv, Sourced
      <4>2. e \in graph.edges
        BY <4>1 DEF SearchInv, TypeOK
      <4>3. After(n) \subseteq S
        BY <1>1, <2>2, CanRunMeansAfterFinished DEF SearchInv
      <4> QED
        BY <2>1, <2>2, <3>2, <4>1, <4>2, <4>3 DEF Closed, All
    <3> QED
      BY <3>1, <3>2
  <2> QED
    BY <1>1, <2>2, <2>3
<1>10. TwoWayOpen'
  BY <1>1, <1>4 DEF SearchInv, TwoWayOpen, EdgesInto, Spans, EdgesOver
<1>11. EndedAtRest' /\ EdgesAllUsed'
  BY <1>1 DEF EndedAtRest, EdgesAllUsed
<1> QED
  BY <1>2, <1>5, <1>6, <1>7, <1>8, <1>9, <1>10,
     <1>11
  DEF SearchInv

\* The invariant is inductive.
LEMMA StepKeepsInv ==
    ASSUME SearchInv, [Next]_searchVars
    PROVE  SearchInv'
<1> USE DEF SearchInv, TypeOK, Covered, Sourced, RootFirst, UsedBetweenFinished,
            TwoWayOpen, Needed, EndedAtRest, EdgesAllUsed, Closed, After, CanRun,
            RemainingNodes
<1>1. CASE Stuck
  BY <1>1 DEF Stuck
<1>2. CASE Finish
  <2>1. ASSUME RemainingNodes = {}, remaining # {} PROVE FALSE
    <3>1. PICK e \in remaining : TRUE
      BY <2>1
    <3>2. e.f1 \in All /\ e.f2 \in All /\ Spans(e, e.f1, e.f2)
      BY <3>1 DEF WellFormed, EdgesOver, Spans
    <3>3. waiting = {} /\ e.f1 \in finished
      BY <1>2, <2>1, <3>2 DEF Finish, All
    <3> QED
      BY <3>1, <3>2, <3>3
  <2> QED
    BY <1>2, <2>1 DEF Finish
<1>3. CASE UNCHANGED searchVars
  BY <1>3 DEF searchVars
<1> QED
  BY <1>1, <1>2, <1>3, RunKeepsInv DEF Next

\* It holds when the root is all that waits.
LEMMA InitHasSearchInv == Init => SearchInv
BY GraphAssumption
DEF Init, SearchInv, TypeOK, Covered, Sourced, RootFirst, UsedBetweenFinished,
    TwoWayOpen, Needed, EndedAtRest, EdgesAllUsed, All

\* It holds throughout.
LEMMA SearchInvAlways == Spec => []SearchInv
BY InitHasSearchInv, StepKeepsInv, PTL DEF Spec

\* Type correctness of a search.
THEOREM SearchTypeCorrect == Spec => []TypeOK
BY SearchInvAlways, PTL DEF SearchInv

\* The last check of traverse never raises.
THEOREM EdgesAlwaysUsed == Spec => []EdgesAllUsed
BY SearchInvAlways, PTL DEF SearchInv

\* The collections a traversal has run when it ends do not depend on the order
\* in which it took them.
THEOREM LeastClosedSet == Spec => []RunsLeastClosedSet
<1>1. ASSUME SearchInv, outcome # "running" PROVE Closed(finished)
  <2> USE <1>1 DEF SearchInv
  <2>1. \A n \in waiting : ~CanRun(n)
    BY <1>1 DEF EndedAtRest
  <2>2. Root \in finished
    BY <2>1 DEF RootFirst, CanRun
  <2>3. ASSUME NEW n \in Nodes, NEW m \in finished, NEW e \in graph.edges,
               Spans(e, m, n), After(n) \subseteq finished
        PROVE  n \in finished
    <3>1. CASE e \in remaining
      <4>1. n \in waiting
        BY <2>3, <3>1 DEF Covered, All
      <4> QED
        BY <2>1, <2>3, <4>1, CanRunMeansAfterFinished DEF All
    <3>2. CASE e \notin remaining
      BY <2>3, <3>2 DEF UsedBetweenFinished, Spans
    <3> QED
      BY <3>1, <3>2
  <2> QED
    BY <2>2, <2>3 DEF Closed
<1>2. SearchInv => RunsLeastClosedSet
  BY <1>1 DEF RunsLeastClosedSet, SearchInv, Needed
<1> QED
  BY <1>2, SearchInvAlways, PTL

\* Every run of a collection uses up an edge, so a traversal of a graph with k
\* edges runs collections at most k times.
THEOREM RunsAlwaysUseEdges == Spec => RunsUseEdges
<1>1. ASSUME SearchInv, NEW n \in Nodes, Run(n) PROVE remaining' # remaining
  <2>1. n # Root /\ n \in waiting
    BY <1>1, GraphAssumption DEF Run
  <2>2. PICK m \in finished, e \in remaining : Spans(e, m, n)
    BY <1>1, <2>1 DEF SearchInv, Sourced
  <2>3. e \in EdgesInto(remaining, finished, n)
    BY <2>2 DEF EdgesInto
  <2> QED
    BY <1>1, <2>2, <2>3 DEF Run, Visit
<1>2. SearchInv /\ [Next]_searchVars =>
         [\A n \in Nodes : Run(n) => remaining' # remaining]_searchVars
  BY <1>1
<1> QED
  BY <1>2, SearchInvAlways, PTL DEF Spec, RunsUseEdges
\* What running a collection does to the links: a collection other than the root
\* gets one from every collection that has run and that a used edge joins to it,
\* and there is such a collection.
LEMMA RunLinks ==
    ASSUME SearchInv, NEW n \in All, Run(n)
    PROVE  /\ children \subseteq children'
           /\ \A m \in finished, e \in remaining : Spans(e, m, n) => <<m, n>> \in children'
           /\ \A p \in All, c \in Nodes : <<p, c>> \in children' /\ <<p, c>> \notin children =>
                 c = n /\ p \in finished /\ n # Root
           /\ n # Root => \E m \in finished, e \in remaining : Spans(e, m, n)
           /\ \A S : Downward(S)' => Downward(S)
<1>1. children' = children \union
         {<<f, n>> : f \in {m \in finished : \E e \in EdgesInto(remaining, finished, n) : Spans(e, m, n)}}
  BY DEF Run, Visit
<1>2. n \in waiting
  BY DEF Run
<1>3. Root \notin Nodes
  BY GraphAssumption
<1>4. \A p \in All, c \in Nodes : <<p, c>> \in children' /\ <<p, c>> \notin children =>
         c = n /\ p \in finished /\ n # Root
  BY <1>1, <1>3
<1>5. \A m \in finished, e \in remaining : Spans(e, m, n) => <<m, n>> \in children'
  BY <1>1 DEF EdgesInto
<1>6. n # Root => \E m \in finished, e \in remaining : Spans(e, m, n)
  BY <1>2 DEF SearchInv, Sourced
<1>7. children \subseteq children'
  BY <1>1
<1>8. \A S : Downward(S)' => Downward(S)
  BY <1>7 DEF Downward
<1> QED
  BY <1>4, <1>5, <1>6, <1>7, <1>8

\* Running a collection keeps the second invariant.
LEMMA RunKeepsReach ==
    ASSUME SearchInv, ReachInv, NEW n \in All, Run(n)
    PROVE  ReachInv'
<1> DEFINE used == EdgesInto(remaining, finished, n)
           left == remaining \ used
<1>1. /\ outcome = "running" /\ n \in waiting
      /\ remaining' = left
      /\ finished' = finished \union {n}
      /\ terminal' = IF ChildAddresses(left, n) = {} THEN terminal \union {n} ELSE terminal
      /\ UNCHANGED <<graph, outcome>>
  BY DEF Run, Visit
<1>2. /\ children \subseteq children'
      /\ \A m \in finished, e \in remaining : Spans(e, m, n) => <<m, n>> \in children'
      /\ \A p \in All, c \in Nodes : <<p, c>> \in children' /\ <<p, c>> \notin children =>
            c = n /\ p \in finished /\ n # Root
      /\ n # Root => \E m \in finished, e \in remaining : Spans(e, m, n)
      /\ \A S : Downward(S)' => Downward(S)
  BY RunLinks
<1>3. /\ remaining \subseteq EdgesOver(All)
      /\ finished \subseteq All
      /\ \A e \in remaining : e.f2 # Root /\ (e.f1 = Root => ~e.bi)
      /\ Root \notin Nodes
  BY GraphAssumption DEF SearchInv, TypeOK, WellFormed
<1>4. EndsAhead'
  <2> SUFFICES ASSUME NEW S \in SUBSET All, Downward(S)', S \cap finished' # {}
               PROVE  \/ S \cap terminal' # {}
                      \/ \E m \in S \cap finished', e \in remaining', x \in All : Spans(e, m, x)
    BY DEF EndsAhead
  <2>1. CASE n \in S
    <3>1. CASE ChildAddresses(left, n) = {}
      BY <1>1, <2>1, <3>1
    <3>2. CASE ChildAddresses(left, n) # {}
      <4>1. PICK e \in left : \E x \in {e.f1, e.f2} : Spans(e, n, x)
        BY <3>2 DEF ChildAddresses, Targets
      <4>2. e.f1 \in All /\ e.f2 \in All
        BY <1>3, <4>1 DEF EdgesOver
      <4> QED
        BY <1>1, <2>1, <4>1, <4>2
    <3> QED
      BY <3>1, <3>2
  <2>2. CASE n \notin S
    <3>1. \/ S \cap terminal # {}
          \/ \E m \in S \cap finished, e \in remaining, x \in All : Spans(e, m, x)
      BY <1>1, <1>2, <2>2 DEF ReachInv, EndsAhead
    <3>2. CASE S \cap terminal # {}
      BY <1>1, <3>2
    <3>3. ASSUME NEW m \in S \cap finished, NEW e \in remaining, NEW x \in All, Spans(e, m, x)
          PROVE  e \in left
      <4> SUFFICES ASSUME e \in used PROVE FALSE
        OBVIOUS
      <4>1. PICK f \in finished : Spans(e, f, n)
        BY DEF EdgesInto
      <4>2. m # n /\ e.f1 # e.f2
        BY <1>3, <2>2 DEF EdgesOver
      <4>3. Spans(e, m, n)
        BY <3>3, <4>1, <4>2 DEF Spans
      <4>4. n # Root
        BY <1>3, <4>1 DEF Spans
      <4>5. <<m, n>> \in children' /\ n \in Nodes
        BY <1>2, <4>3, <4>4 DEF All
      <4> QED
        BY <2>2, <4>5 DEF Downward
    <3> QED
      BY <1>1, <3>1, <3>2, <3>3
  <2> QED
    BY <2>1, <2>2
<1>5. Rooted'
  <2> SUFFICES ASSUME NEW S \in SUBSET All, Root \in S, Downward(S)'
               PROVE  finished' \subseteq S
    BY DEF Rooted
  <2>1. finished \subseteq S
    BY <1>2 DEF ReachInv, Rooted
  <2>2. n \in S
    <3>1. CASE n # Root
      <4>1. PICK m \in finished, e \in remaining : Spans(e, m, n)
        BY <1>2, <3>1
      <4>2. <<m, n>> \in children' /\ n \in Nodes
        BY <1>2, <3>1, <4>1 DEF All
      <4> QED
        BY <2>1, <4>2 DEF Downward
    <3> QED
      BY <3>1
  <2> QED
    BY <1>1, <2>1, <2>2
<1>6. LinksFinished'
  BY <1>1, <1>2 DEF ReachInv, LinksFinished
<1>7. UndirectedInv'
  <2> SUFFICES ASSUME Undirected
               PROVE  /\ Root \in finished'
                      /\ \A e \in remaining' : e.f1 \notin finished' \/ e.f2 \notin finished'
                      /\ \A k \in Nodes : \E S \in SUBSET Nodes : Apart(k, S)'
    BY <1>1 DEF UndirectedInv, Undirected
  <2>1. /\ finished = {} \/ Root \in finished
        /\ \A e \in remaining : e.f1 \notin finished \/ e.f2 \notin finished
        /\ \A k \in Nodes : \E S \in SUBSET Nodes : Apart(k, S)
    BY DEF ReachInv, UndirectedInv
  <2>2. Root \in finished'
    BY <1>1, <1>2, <2>1
  <2>3. ASSUME NEW e \in left, e.f1 \in finished', e.f2 \in finished'
        PROVE  FALSE
    <3>1. /\ e.f1 # e.f2 /\ e.bi \in BOOLEAN
          /\ e \in graph.edges
      BY <1>3 DEF EdgesOver, SearchInv, TypeOK
    <3>2. \A f \in finished : ~Spans(e, f, n)
      BY DEF EdgesInto
    <3>3. CASE e.bi
      BY <1>1, <2>1, <2>3, <3>1, <3>2, <3>3 DEF Spans
    <3>4. CASE ~e.bi
      <4>1. e.f1 = Root
        BY <3>1, <3>4 DEF Undirected
      <4> QED
        BY <1>1, <2>1, <2>3, <3>1, <3>2, <4>1 DEF Spans
    <3> QED
      BY <3>3, <3>4
  <2>4. ASSUME NEW k \in Nodes
        PROVE  \E S \in SUBSET Nodes : Apart(k, S)'
    <3>1. PICK S \in SUBSET Nodes : Apart(k, S)
      BY <2>1
    <3>2. CASE n = Root
      <4>1. \A p \in All, c \in Nodes : <<p, c>> \in children' => <<p, c>> \in children
        BY <1>2, <3>2
      <4>2. Apart(k, S)'
        BY <3>1, <4>1 DEF Apart, Downward, All
      <4> QED
        BY <4>2
    <3>3. CASE n # Root
      <4>1. PICK m \in finished, e \in remaining : Spans(e, m, n)
        BY <1>2, <3>3
      <4>2. n \in Nodes /\ n \notin finished
        BY <2>1, <3>3, <4>1 DEF Spans, All
      <4>3. \A c \in Nodes : <<n, c>> \notin children'
        BY <1>2, <4>2 DEF ReachInv, LinksFinished
      <4>4. CASE k = n
        <5>1. Apart(k, {})'
          BY <4>3, <4>4 DEF Apart, Downward
        <5> QED
          BY <5>1
      <4>5. CASE k # n
        <5>1. \A p \in All, c \in Nodes : <<p, c>> \in children' => <<p, c>> \in children \/ c = n
          BY <1>2
        <5>2. Apart(k, S \union {n})'
          BY <3>1, <4>2, <4>3, <4>5, <5>1 DEF Apart, Downward, All
        <5> QED
          BY <4>2, <5>2
      <4> QED
        BY <4>4, <4>5
    <3> QED
      BY <3>2, <3>3
  <2> QED
    BY <1>1, <2>2, <2>3, <2>4
<1>8. DoneMeansAll'
  BY <1>1 DEF DoneMeansAll
<1> QED
  BY <1>4, <1>5, <1>6, <1>7, <1>8 DEF ReachInv

\* Both invariants hold throughout.
LEMMA ReachInvAlways == Spec => []ReachInv
<1>1. Init => ReachInv
  <2> SUFFICES ASSUME Init PROVE ReachInv
    OBVIOUS
  <2>1. finished = {} /\ children = {} /\ outcome = "running"
    BY DEF Init
  <2>2. \A k \in Nodes : Apart(k, {})
    BY <2>1 DEF Apart, Downward
  <2> QED
    BY <2>1, <2>2 DEF ReachInv, EndsAhead, Rooted, LinksFinished, UndirectedInv, DoneMeansAll
<1>2. SearchInv /\ ReachInv /\ [Next]_searchVars => ReachInv'
  <2> SUFFICES ASSUME SearchInv, ReachInv, [Next]_searchVars PROVE ReachInv'
    OBVIOUS
  <2>1. CASE \E n \in All : Run(n)
    BY <2>1, RunKeepsReach
  <2>2. CASE Stuck \/ Finish \/ UNCHANGED searchVars
    <3>1. UNCHANGED <<graph, waiting, finished, remaining, children, terminal>>
      BY <2>2 DEF Stuck, Finish, searchVars
    <3>2. outcome' = "done" => (Nodes \subseteq finished /\ remaining = {})
      BY <2>2 DEF Stuck, Finish, searchVars, ReachInv, DoneMeansAll, RemainingNodes
    <3>3. EndsAhead' /\ Rooted' /\ LinksFinished'
      BY <3>1 DEF ReachInv, EndsAhead, Rooted, LinksFinished, Downward
    <3>4. UndirectedInv'
      BY <3>1 DEF ReachInv, UndirectedInv, Undirected, Apart, Downward
    <3> QED
      BY <3>1, <3>2, <3>3, <3>4 DEF ReachInv, DoneMeansAll
  <2> QED
    BY <2>1, <2>2 DEF Next
<1> QED
  BY <1>1, <1>2, SearchInvAlways, PTL DEF Spec

\* What R leads to is a set that no link leads out of, and the least around R.
LEMMA DescendantsLeast ==
    ASSUME NEW R \in SUBSET All
    PROVE  /\ Descendants(R) \in SUBSET All
           /\ R \subseteq Descendants(R)
           /\ Downward(Descendants(R))
           /\ \A S \in SUBSET All : R \subseteq S /\ Downward(S) => Descendants(R) \subseteq S
<1>1. Downward(Descendants(R))
  <2> SUFFICES ASSUME NEW p \in Descendants(R), NEW c \in Nodes, <<p, c>> \in children
               PROVE  c \in Descendants(R)
    BY DEF Downward
  <2>1. ASSUME NEW S \in SUBSET All, R \subseteq S, Downward(S)
        PROVE  c \in S
    <3>1. p \in S
      BY <2>1 DEF Descendants
    <3> QED
      BY <2>1, <3>1 DEF Downward
  <2> QED
    BY <2>1 DEF Descendants, All
<1> QED
  BY <1>1 DEF Descendants

\* Every collection of an accepted traversal feeds an end node, so what dask
\* computes for the end nodes is every collection.
THEOREM EndsAlwaysNeedEverything == Spec => []EndsNeedEverything
<1>1. ASSUME ReachInv, outcome = "done", NEW n \in Nodes
      PROVE  Descendants({n}) \cap terminal # {}
  <2>1. Nodes \subseteq finished /\ remaining = {}
    BY <1>1 DEF ReachInv, DoneMeansAll
  <2>2. /\ Descendants({n}) \in SUBSET All
        /\ n \in Descendants({n})
        /\ Downward(Descendants({n}))
    BY DescendantsLeast DEF All
  <2> QED
    BY <1>1, <2>1, <2>2 DEF ReachInv, EndsAhead
<1>2. ReachInv => EndsNeedEverything
  BY <1>1 DEF EndsNeedEverything
<1> QED
  BY <1>2, ReachInvAlways, PTL

\* Every collection of an accepted traversal gets data that came from the root.
THEOREM AlwaysSeededFromRoot == Spec => []SeededFromRoot
<1>1. ASSUME ReachInv, outcome = "done"
      PROVE  Nodes \subseteq Descendants({Root})
  <2>1. Nodes \subseteq finished
    BY <1>1 DEF ReachInv, DoneMeansAll
  <2>2. /\ Descendants({Root}) \in SUBSET All
        /\ Root \in Descendants({Root})
        /\ Downward(Descendants({Root}))
    BY DescendantsLeast DEF All
  <2> QED
    BY <1>1, <2>1, <2>2 DEF ReachInv, Rooted
<1>2. ReachInv => SeededFromRoot
  BY <1>1 DEF SeededFromRoot
<1> QED
  BY <1>2, ReachInvAlways, PTL

\* Without directed references no collection of a traversal needs its own output,
\* whatever order the queue had: dask accepts the graph.
THEOREM UndirectedAlwaysAcyclic == Spec => []UndirectedIsAcyclic
<1>1. ASSUME ReachInv, Undirected, NEW n \in Nodes
      PROVE  n \notin Descendants({c \in Nodes : <<n, c>> \in children})
  <2>1. PICK S \in SUBSET Nodes : Apart(n, S)
    BY <1>1 DEF ReachInv, UndirectedInv
  <2>2. /\ S \in SUBSET All
        /\ {c \in Nodes : <<n, c>> \in children} \subseteq S
        /\ Downward(S) /\ n \notin S
    BY <2>1 DEF Apart, All
  <2>3. {c \in Nodes : <<n, c>> \in children} \in SUBSET All
    BY DEF All
  <2> QED
    BY <2>2, <2>3, DescendantsLeast
<1>2. ReachInv => UndirectedIsAcyclic
  BY <1>1 DEF UndirectedIsAcyclic, Acyclic, Undirected
<1> QED
  BY <1>2, ReachInvAlways, PTL

-----------------------------------------------------------------------------
\* The queue

\* No collection is queued twice, and the queue holds those that wait.
QueueInv ==
    /\ queue \in Seq(All)
    /\ IsInjective(queue)
    /\ waiting = Range(queue)

\* A set of positions has a first one.
LEMMA MinOfPositions ==
    ASSUME NEW S \in SUBSET Nat, S # {}
    PROVE  Min(S) \in S
<1> DEFINE R == {ss \in Nat \X Nat : ss[1] < ss[2]}
<1>1. IsWellFoundedOn(R, Nat)
  BY NatLessThanWellFounded, Zenon DEF OpToRel
<1> HIDE DEF R
<1>2. PICK x \in S : \A y \in S : ~ (<<y, x>> \in R)
  BY <1>1, WFMin
<1>3. \A y \in S : x <= y
  <2> TAKE y \in S
  <2>1. x \in Nat /\ y \in Nat
    OBVIOUS
  <2>2. y < x => <<y, x>> \in R
    BY <2>1 DEF R
  <2> QED
    BY <1>2, <2>1, <2>2
<1> QED
  BY <1>3 DEF Min

\* pop_first_match takes out one entry, and nothing else.
LEMMA RemoveAtTakesOut ==
    ASSUME NEW S, NEW s \in Seq(S), IsInjective(s), NEW i \in 1 .. Len(s)
    PROVE  /\ RemoveAt(s, i) \in Seq(S)
           /\ IsInjective(RemoveAt(s, i))
           /\ Range(RemoveAt(s, i)) = Range(s) \ {s[i]}
<1> DEFINE r == RemoveAt(s, i)
<1>1. /\ r \in Seq(S)
      /\ Len(r) = Len(s) - 1
      /\ \A j \in 1 .. Len(r) : r[j] = IF j < i THEN s[j] ELSE s[j + 1]
  <2>1. /\ SubSeq(s, 1, i - 1) \in Seq(S)
        /\ Len(SubSeq(s, 1, i - 1)) = i - 1
        /\ \A j \in 1 .. i - 1 : SubSeq(s, 1, i - 1)[j] = s[j]
    BY SubSeqProperties
  <2>2. /\ SubSeq(s, i + 1, Len(s)) \in Seq(S)
        /\ Len(SubSeq(s, i + 1, Len(s))) = Len(s) - i
        /\ \A j \in 1 .. Len(s) - i : SubSeq(s, i + 1, Len(s))[j] = s[i + j]
    BY SubSeqProperties
  <2> DEFINE u == SubSeq(s, 1, i - 1)
             v == SubSeq(s, i + 1, Len(s))
  <2>3. r = u \o v
    BY DEF RemoveAt
  <2> HIDE DEF r, u, v
  <2>4. /\ u \o v \in Seq(S)
        /\ Len(u \o v) = Len(u) + Len(v)
        /\ \A j \in 1 .. Len(u) + Len(v) : (u \o v)[j] =
              IF j <= Len(u) THEN u[j] ELSE v[j - Len(u)]
    BY <2>1, <2>2, ConcatProperties DEF u, v
  <2>5. Len(s) \in Nat /\ Len(u) = i - 1 /\ Len(v) = Len(s) - i
    BY <2>1, <2>2 DEF u, v
  <2>6. ASSUME NEW j \in 1 .. Len(r)
        PROVE  r[j] = IF j < i THEN s[j] ELSE s[j + 1]
    <3>1. CASE j < i
      BY <2>1, <2>3, <2>4, <2>5, <3>1 DEF u
    <3>2. CASE j >= i
      <4>1. j - Len(u) \in 1 .. Len(s) - i /\ i + (j - Len(u)) = j + 1
        BY <2>3, <2>4, <2>5, <3>2
      <4>2. r[j] = v[j - Len(u)]
        BY <2>3, <2>4, <2>5, <3>2
      <4> QED
        BY <2>2, <3>2, <4>1, <4>2 DEF v
    <3> QED
      BY <2>5, <3>1, <3>2
  <2> QED
    BY <2>3, <2>4, <2>5, <2>6
<1>2. \A j, k \in 1 .. Len(s) : s[j] = s[k] => j = k
  BY DEF IsInjective
<1>3. IsInjective(r)
  <2> SUFFICES ASSUME NEW j \in 1 .. Len(r), NEW k \in 1 .. Len(r), r[j] = r[k]
               PROVE  j = k
    BY <1>1 DEF IsInjective
  <2> DEFINE at(n) == IF n < i THEN n ELSE n + 1
  <2>1. s[at(j)] = s[at(k)] /\ at(j) \in 1 .. Len(s) /\ at(k) \in 1 .. Len(s)
    BY <1>1
  <2>2. at(j) = at(k)
    BY <1>2, <2>1
  <2> QED
    BY <2>2
<1>4. Range(r) = {r[j] : j \in 1 .. Len(r)} /\ Range(s) = {s[j] : j \in 1 .. Len(s)}
  BY <1>1, RangeEquality
<1>5. ASSUME NEW j \in 1 .. Len(r) PROVE r[j] \in Range(s) \ {s[i]}
  BY <1>1, <1>2, <1>4
<1>6. ASSUME NEW j \in 1 .. Len(s), s[j] # s[i] PROVE s[j] \in Range(r)
  <2>1. CASE j < i
    BY <1>1, <1>4, <2>1
  <2>2. CASE j > i
    <3>1. j - 1 \in 1 .. Len(r) /\ r[j - 1] = s[j]
      BY <1>1, <2>2
    <3> QED
      BY <1>4, <3>1
  <2> QED
    BY <1>6, <2>1, <2>2
<1>7. Range(r) = Range(s) \ {s[i]}
  <2>1. ASSUME NEW x \in Range(r) PROVE x \in Range(s) \ {s[i]}
    BY <1>4, <1>5
  <2>2. ASSUME NEW x \in Range(s), x # s[i] PROVE x \in Range(r)
    BY <1>4, <1>6, <2>2
  <2> QED
    BY <2>1, <2>2
<1> QED
  BY <1>1, <1>3, <1>7

\* push_if_new for every child adds the children that are not queued, in whatever
\* order, each once.
LEMMA PushAddsNew ==
    ASSUME NEW q \in Seq(All), IsInjective(q), NEW S \in SUBSET All,
           NEW r \in PushAllIfNew(q, S)
    PROVE  /\ r \in Seq(All)
           /\ IsInjective(r)
           /\ Range(r) = Range(q) \union S
<1> DEFINE new == S \ Range(q)
<1>1. IsFiniteSet(new) /\ Cardinality(new) \in Nat
  <2>1. IsFiniteSet(All)
    BY FiniteAssumption, FS_AddElement DEF All
  <2>2. new \in SUBSET All
    OBVIOUS
  <2> QED
    BY <2>1, <2>2, FS_Subset, FS_CardinalityType
<1>2. PICK s \in SetToSeqs(new) : r = q \o s
  BY DEF PushAllIfNew
<1>3. /\ s \in [1 .. Cardinality(new) -> new]
      /\ \A i, j \in 1 .. Cardinality(new) : i # j => s[i] # s[j]
  BY <1>2 DEF SetToSeqs
<1>4. s \in Seq(All) /\ Len(s) = Cardinality(new)
  <2> DEFINE n == Cardinality(new)
  <2>1. n \in Nat /\ s \in [1 .. n -> All]
    BY <1>1, <1>3
  <2> HIDE DEF n
  <2>2. s \in Seq(All) /\ Len(s) = n
    BY <2>1
  <2> QED
    BY <2>2 DEF n
<1>5. Range(s) = new
  <2>1. s \in Injection(1 .. Cardinality(new), new)
    BY <1>3 DEF Injection, IsInjective
  <2>2. Cardinality(1 .. Cardinality(new)) = Cardinality(new)
    BY <1>1, FS_Interval
  <2>3. s \in Surjection(1 .. Cardinality(new), new)
    BY <1>1, <2>1, <2>2, FS_Injection
  <2> QED
    BY <1>3, <2>3 DEF Surjection, Range
<1>6. Range(r) = Range(q) \union S
  BY <1>2, <1>4, <1>5, RangeConcatenation
<1>7. /\ r \in Seq(All)
      /\ Len(r) = Len(q) + Len(s)
      /\ \A i \in 1 .. Len(r) : r[i] = IF i <= Len(q) THEN q[i] ELSE s[i - Len(q)]
  <2>1. /\ q \o s \in Seq(All)
        /\ Len(q \o s) = Len(q) + Len(s)
        /\ \A i \in 1 .. Len(q) + Len(s) : (q \o s)[i] =
              IF i <= Len(q) THEN q[i] ELSE s[i - Len(q)]
    BY <1>4, ConcatProperties
  <2> QED
    BY <1>2, <2>1
<1>8. IsInjective(r)
  <2> SUFFICES ASSUME NEW i \in 1 .. Len(r), NEW j \in 1 .. Len(r), r[i] = r[j]
               PROVE  i = j
    BY <1>7 DEF IsInjective
  <2>1. \A k \in 1 .. Len(q) : q[k] \in Range(q)
    BY DEF Range
  <2>2. \A k \in 1 .. Len(s) : s[k] \notin Range(q)
    BY <1>3, <1>4
  <2>3. CASE i <= Len(q) /\ j <= Len(q)
    BY <1>7, <2>3 DEF IsInjective
  <2>4. CASE i > Len(q) /\ j > Len(q)
    <3>1. i - Len(q) \in 1 .. Cardinality(new) /\ j - Len(q) \in 1 .. Cardinality(new)
      BY <1>4, <1>7, <2>4
    <3>2. s[i - Len(q)] = s[j - Len(q)]
      BY <1>7, <2>4
    <3>3. i - Len(q) = j - Len(q)
      BY <1>3, <3>1, <3>2
    <3> QED
      BY <1>7, <2>4, <3>3
  <2>5. CASE i <= Len(q) /\ j > Len(q)
    BY <1>7, <2>1, <2>2, <2>5, SMTT(30)
  <2>6. CASE i > Len(q) /\ j <= Len(q)
    BY <1>7, <2>1, <2>2, <2>6
  <2> QED
    BY <2>3, <2>4, <2>5, <2>6
<1> QED
  BY <1>6, <1>7, <1>8

\* A step of the traversal is a step of the search, and keeps the queue as it
\* should be.
LEMMA RunFirstIsRun ==
    ASSUME TypeOK, QueueInv, RunFirst
    PROVE  /\ \E n \in All : Run(n)
           /\ QueueInv'
<1> DEFINE i == FirstMatch
           n == queue[i]
<1>1. i \in {j \in DOMAIN queue : CanRun(queue[j])}
  <2>1. {j \in DOMAIN queue : CanRun(queue[j])} \in SUBSET Nat
    BY DEF QueueInv
  <2>2. FirstMatch # 0
    BY DEF RunFirst
  <2> QED
    BY <2>1, <2>2, MinOfPositions DEF FirstMatch
<1> HIDE DEF i
<1>2. i \in 1 .. Len(queue) /\ n \in All /\ n \in Range(queue) /\ CanRun(n)
  BY <1>1 DEF QueueInv, Range
<1>3. /\ outcome = "running" /\ Visit(n)
      /\ queue' \in PushAllIfNew(RemoveAt(queue, i), ChildAddresses(remaining', n))
      /\ waiting' = Range(queue')
      /\ UNCHANGED <<graph, outcome>>
  BY DEF RunFirst, i
<1>4. /\ RemoveAt(queue, i) \in Seq(All)
      /\ IsInjective(RemoveAt(queue, i))
      /\ Range(RemoveAt(queue, i)) = waiting \ {n}
  BY <1>2, RemoveAtTakesOut DEF QueueInv
<1>5. ChildAddresses(remaining', n) \subseteq All
  <2>1. remaining' \subseteq EdgesOver(All)
    BY <1>3 DEF Visit, TypeOK, WellFormed
  <2> QED
    BY <2>1 DEF ChildAddresses, Targets, EdgesOver
<1>6. /\ queue' \in Seq(All)
      /\ IsInjective(queue')
      /\ Range(queue') = (waiting \ {n}) \union ChildAddresses(remaining', n)
  BY <1>3, <1>4, <1>5, PushAddsNew
<1>7. Run(n)
  BY <1>2, <1>3, <1>6 DEF Run, QueueInv
<1> QED
  BY <1>2, <1>3, <1>6, <1>7 DEF QueueInv

\* No queued collection may run exactly when pop_first_match finds none.
LEMMA NoMatchMeansStuck ==
    ASSUME QueueInv, FirstMatch = 0
    PROVE  \A n \in waiting : ~CanRun(n)
<1>1. ASSUME NEW j \in DOMAIN queue, CanRun(queue[j]) PROVE FALSE
  <2> DEFINE R == {k \in DOMAIN queue : CanRun(queue[k])}
  <2>1. R \in SUBSET Nat /\ R # {} /\ 0 \notin R
    BY <1>1 DEF QueueInv
  <2>2. Min(R) \in R
    BY <2>1, MinOfPositions
  <2>3. FirstMatch = Min(R)
    BY <2>1 DEF FirstMatch
  <2> QED
    BY <2>1, <2>2, <2>3
<1> QED
  BY <1>1 DEF QueueInv, Range

\* Every step of the traversal maps to a step of the search.
LEMMA TraversalStep ==
    ASSUME TypeOK, QueueInv, [TraversalNext]_traversalVars
    PROVE  [Next]_searchVars /\ QueueInv'
<1>1. CASE RunFirst
  BY <1>1, RunFirstIsRun DEF Next
<1>2. CASE NoMatch
  <2>1. Range(queue) # {}
    <3>1. 1 \in DOMAIN queue
      BY <1>2, EmptySeq DEF NoMatch, QueueInv
    <3> QED
      BY <3>1 DEF Range
  <2>2. Stuck
    BY <1>2, <2>1, NoMatchMeansStuck DEF NoMatch, Stuck, QueueInv
  <2> QED
    BY <1>2, <2>2 DEF Next, NoMatch, QueueInv
<1>3. CASE EmptyQueue
  <2>1. Range(queue) = {}
    BY <1>3 DEF EmptyQueue, Range
  <2>2. Finish
    BY <1>3, <2>1 DEF EmptyQueue, Finish, QueueInv
  <2> QED
    BY <1>3, <2>2 DEF Next, EmptyQueue, QueueInv
<1>4. CASE UNCHANGED traversalVars
  BY <1>4 DEF traversalVars, searchVars, QueueInv
<1> QED
  BY <1>1, <1>2, <1>3, <1>4 DEF TraversalNext

\* traverse, with its queue and whatever order it iterates sets in, carries out
\* the search: so what is proved of every search (the collections that run, their
\* links and end nodes) is true of it.
THEOREM TraversalImplementsSearch == TraversalSpec => ImplementsSearch
<1>1. TraversalInit => Init /\ QueueInv
  <2> SUFFICES ASSUME TraversalInit PROVE Init /\ QueueInv
    OBVIOUS
  <2>1. queue = <<Root>> /\ waiting = {Root} /\ Root \in All
    BY DEF TraversalInit, Init, All
  <2>2. queue \in Seq(All) /\ Len(queue) = 1 /\ queue[1] = Root /\ DOMAIN queue = 1 .. 1
    BY <2>1
  <2>3. Range(queue) = {Root}
    BY <2>2 DEF Range
  <2>4. IsInjective(queue)
    BY <2>2 DEF IsInjective
  <2> QED
    BY <2>1, <2>2, <2>3, <2>4 DEF TraversalInit, QueueInv
<1>2. Init => SearchInv
  BY InitHasSearchInv
<1>3. SearchInv /\ [Next]_searchVars => SearchInv'
  BY StepKeepsInv
<1>4. SearchInv /\ QueueInv /\ [TraversalNext]_traversalVars => [Next]_searchVars /\ QueueInv'
  BY TraversalStep DEF SearchInv
<1> QED
  BY <1>1, <1>2, <1>3, <1>4, PTL DEF TraversalSpec, ImplementsSearch, Spec

\* What is proved of every search is true of traverse: the collections that have run
\* when it ends are the least closed set, the check of unused edges never raises,
\* each collection is fed from the root and feeds an end node, and without directed
\* references none needs its own output.
THEOREM TraversalCorrect ==
    TraversalSpec => [](/\ RunsLeastClosedSet /\ EdgesAllUsed
                        /\ EndsNeedEverything /\ SeededFromRoot /\ UndirectedIsAcyclic)
BY TraversalImplementsSearch, LeastClosedSet, EdgesAlwaysUsed, EndsAlwaysNeedEverything,
   AlwaysSeededFromRoot, UndirectedAlwaysAcyclic, PTL DEF ImplementsSearch
===============================================================================
