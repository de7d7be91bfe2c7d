------------------------------ MODULE Traversal -------------------------------
(***************************************************************************)
(* traverse: the search with its queue. Among the queued collections the   *)
(* first that may run is taken; new children are queued at the end, each   *)
(* once, in the order in which the set of their addresses is iterated.     *)
(***************************************************************************)
EXTENDS GraphSearch, SequencesExt

\* The datasets of the connections are finitely many.
ASSUME FiniteAssumption == IsFiniteSet(Nodes)

VARIABLE queue  \* the MatchingQueue; waiting is always the set of its entries

traversalVars == <<queue, searchVars>>

TraversalInit == Init /\ queue = <<Root>>

\* Mutant of FirstMatch: takes the head of the queue.
FirstMatchHead == IF queue = << >> THEN 0 ELSE 1

\* The position of pop_first_match: 0 when no queued collection may run.
FirstMatch ==
    LET runnable == {i \in DOMAIN queue : CanRun(queue[i])} IN
    IF runnable = {} THEN 0 ELSE Min(runnable)

\* Mutant of PushAllIfNew: what has run is not queued again.
PushUnrun(q, S) == {q \o s : s \in SetToSeqs(S \ (Range(q) \union finished))}

\* push_if_new for every child, in some order.
PushAllIfNew(q, S) == {q \o s : s \in SetToSeqs(S \ Range(q))}

RunFirst ==
    LET i == FirstMatch
        n == queue[i]
    IN
    /\ outcome = "running"
    /\ i # 0
    /\ Visit(n)
    /\ queue' \in PushAllIfNew(RemoveAt(queue, i), ChildAddresses(remaining', n))
    /\ waiting' = Range(queue')
    /\ UNCHANGED <<graph, outcome>>

NoMatch ==
    /\ outcome = "running"
    /\ queue # << >>
    /\ FirstMatch = 0
    /\ outcome' = "bad_ordering"
    /\ UNCHANGED <<queue, graph, waiting, finished, remaining, children, terminal>>

EmptyQueue ==
    /\ outcome = "running"
    /\ queue = << >>
    /\ outcome' = IF RemainingNodes # {} THEN "unreachable_nodes"
                  ELSE IF remaining # {} THEN "unreachable_edges"
                  ELSE "done"
    /\ UNCHANGED <<queue, graph, waiting, finished, remaining, children, terminal>>

TraversalNext == RunFirst \/ NoMatch \/ EmptyQueue

TraversalSpec ==
    TraversalInit /\ [][TraversalNext]_traversalVars /\ WF_traversalVars(TraversalNext)

-----------------------------------------------------------------------------
\* The traversal carries out the search: whatever GraphSearch proves of a
\* search is true of traverse with its queue (pop_first_match, push_if_new).
ImplementsSearch == Spec

\* traverse returns or raises (its while loop ends).
Terminates == <>(outcome # "running")
===============================================================================
