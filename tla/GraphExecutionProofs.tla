------------------------- MODULE GraphExecutionProofs -------------------------
(***************************************************************************)
(* Proofs about GraphExecution, for every set of graphs, number of retries *)
(* and faults, and whatever an earlier run of the request left in redis.   *)
(***************************************************************************)
EXTENDS GraphExecution, TLAPS

CacheStates == {"none", "earlier", "now"}

ExecTyped ==
    /\ task \in [Nodes -> [action : Actions, pc : TaskStates, attempt : Nat]]
    /\ placeholders \in [Nodes -> CacheStates]
    /\ results \in [Nodes -> CacheStates]
    /\ logs \in [Actions -> [Nodes -> SUBSET ExecutionLogStatus]]

\* What the point that a task has reached says of redis and of the data.
Progress ==
    \A n \in Nodes :
        /\ task[n].pc \in {"retrieved", "placed"} => task[n].action = "access"
        /\ task[n].pc = "placed" => placeholders[n] = "now"
        /\ task[n].pc = "worked" =>
              \/ /\ task[n].action = "access"
                 /\ placeholders[n] = "now"
                 /\ results[n] = "now"
              \/ /\ task[n].action = "erasure"
                 /\ n \in masked

\* Erasure tasks exist only once all rows are in redis.
Guarded ==
    (masked # {} \/ \E n \in Nodes : task[n].action = "erasure") =>
        \A n \in Nodes : placeholders[n] # "none"

\* Tasks wait while the graph is traversed, are access tasks until the results are
\* collected, and erasure tasks then.
PhaseOfTasks ==
    /\ phase = "traverse" => \A n \in Nodes : task[n].pc = "waiting"
    /\ phase \in {"traverse", "access", "collected"} =>
          \A n \in Nodes : task[n].action = "access"
    /\ phase = "erasure" => \A n \in Nodes : task[n].action = "erasure"
    /\ phase \in {"collected", "erasure"} => Erasing

\* Nothing is executed of a graph that was not accepted.
Accepted == phase \in {"access", "collected", "erasure", "over"} => outcome = "done"

\* An access task has begun only after those that feed it have ended.
InOrder ==
    \A n \in Nodes :
        task[n].action = "access" /\ task[n].pc # "waiting" =>
            \A p \in InputKeys(n) : task[p].action = "access" /\ task[p].pc = "ended"

\* An access task that has ended has its rows in the results, or has said so.
EndedIsLogged ==
    phase # "raised" =>
        \A n \in Nodes :
            task[n].action = "access" /\ task[n].pc = "ended" =>
                results[n] = "now" \/ "error" \in logs["access"][n]

ReadInv ==
    PhaseOfTasks /\ Accepted /\ InOrder /\ EndedIsLogged /\ EveryCollectionRead /\ MissingIsLogged

\* What is proved of the search is used of the traversal here.
SearchProofs == INSTANCE TraversalProofs WITH queue <- << >>

ExecInv == ExecTyped /\ Progress /\ CompleteLogIsTrue /\ Guarded

\* Nothing is cached, masked or logged when the runner starts.
LEMMA InitEstablishes == Init => ExecInv
<1> SUFFICES ASSUME Init PROVE ExecInv
  OBVIOUS
<1>1. ExecTyped
  BY DEF Init, ExecTyped, NewTask, CacheStates, Actions, TaskStates,
         ExecutionLogStatus
<1>2. Progress
  BY DEF Init, Progress, NewTask
<1>3. CompleteLogIsTrue
  BY DEF Init, CompleteLogIsTrue, Actions
<1>4. Guarded
  BY DEF Init, Guarded, NewTask
<1> QED
  BY <1>1, <1>2, <1>3, <1>4 DEF ExecInv

\* A task that moves moves alone.
LEMMA TaskAtEffect ==
    ASSUME ExecTyped, NEW n \in Nodes, NEW pc \in TaskStates, NEW k \in Nat,
           TaskAt(n, pc, k)
    PROVE  /\ task' \in [Nodes -> [action : Actions, pc : TaskStates, attempt : Nat]]
           /\ \A m \in Nodes : task'[m].action = task[m].action
           /\ task'[n].pc = pc
           /\ \A m \in Nodes : m # n => task'[m] = task[m]
BY DEF ExecTyped, TaskAt

\* The same, when its attempt stays what it was.
LEMMA TaskGoesEffect ==
    ASSUME ExecTyped, NEW n \in Nodes, NEW pc \in TaskStates, TaskGoes(n, pc)
    PROVE  /\ task' \in [Nodes -> [action : Actions, pc : TaskStates, attempt : Nat]]
           /\ \A m \in Nodes : task'[m].action = task[m].action
           /\ task'[n].pc = pc
           /\ \A m \in Nodes : m # n => task'[m] = task[m]
<1>1. task[n].attempt \in Nat
  BY DEF ExecTyped
<1> QED
  BY <1>1, TaskAtEffect DEF TaskGoes

\* A log adds one entry for one task.
LEMMA LogEffect ==
    ASSUME ExecTyped, NEW n \in Nodes, NEW s \in ExecutionLogStatus, Log(n, s)
    PROVE  /\ logs' \in [Actions -> [Nodes -> SUBSET ExecutionLogStatus]]
           /\ logs'[task[n].action][n] = logs[task[n].action][n] \union {s}
           /\ \A a \in Actions, m \in Nodes :
                 a # task[n].action \/ m # n => logs'[a][m] = logs[a][m]
BY DEF ExecTyped, Log

\* What a task leaves alone when it only moves on, possibly writing a log that
\* does not claim completion.
LEMMA QuietStep ==
    ASSUME ExecInv, NEW n \in Nodes, NEW pc \in TaskStates, NEW k \in Nat,
           TaskAt(n, pc, k),
           pc \notin {"placed", "worked"},
           pc = "retrieved" => task[n].action = "access",
           UNCHANGED <<cache, masked>>,
           \/ UNCHANGED logs
           \/ \E s \in {"in_processing", "retrying", "error"} : Log(n, s)
    PROVE  ExecInv'
<1>1. /\ task' \in [Nodes -> [action : Actions, pc : TaskStates, attempt : Nat]]
      /\ \A m \in Nodes : task'[m].action = task[m].action
      /\ task'[n].pc = pc
      /\ \A m \in Nodes : m # n => task'[m] = task[m]
  BY TaskAtEffect DEF ExecInv
<1>2. /\ logs' \in [Actions -> [Nodes -> SUBSET ExecutionLogStatus]]
      /\ \A a \in Actions, m \in Nodes :
            "complete" \in logs'[a][m] => "complete" \in logs[a][m]
  <2>1. CASE UNCHANGED logs
    BY <2>1 DEF ExecInv, ExecTyped
  <2>2. ASSUME NEW s \in {"in_processing", "retrying", "error"}, Log(n, s)
        PROVE  <1>2!1 /\ <1>2!2
    <3>1. s \in ExecutionLogStatus /\ s # "complete"
      BY DEF ExecutionLogStatus
    <3>2. /\ logs' \in [Actions -> [Nodes -> SUBSET ExecutionLogStatus]]
          /\ logs'[task[n].action][n] = logs[task[n].action][n] \union {s}
          /\ \A a \in Actions, m \in Nodes :
                a # task[n].action \/ m # n => logs'[a][m] = logs[a][m]
      BY <2>2, <3>1, LogEffect DEF ExecInv
    <3> QED
      BY <3>1, <3>2
  <2> QED
    BY <2>1, <2>2
<1>3. placeholders' = placeholders /\ results' = results /\ masked' = masked
  BY DEF cache
<1>4. ExecTyped'
  BY <1>1, <1>2, <1>3 DEF ExecInv, ExecTyped
<1>5. Progress'
  BY <1>1, <1>3 DEF ExecInv, Progress
<1>6. CompleteLogIsTrue'
  BY <1>2, <1>3 DEF ExecInv, CompleteLogIsTrue, Actions
<1>7. Guarded'
  BY <1>1, <1>3 DEF ExecInv, Guarded
<1> QED
  BY <1>4, <1>5, <1>6, <1>7 DEF ExecInv

\* A task that caches its rows has the rows its next place needs.
LEMMA CacheKeeps ==
    ASSUME ExecInv, NEW n \in Nodes,
           CacheResultsWithPlaceholders(n) \/ CacheObject(n)
    PROVE  ExecInv'
<1>1. CASE CacheResultsWithPlaceholders(n)
  <2>1. /\ task[n].pc = "retrieved" /\ task[n].action = "access"
        /\ placeholders' = [placeholders EXCEPT ![n] = "now"]
        /\ results' = results /\ logs' = logs /\ masked' = masked
    BY <1>1 DEF CacheResultsWithPlaceholders, ExecInv, Progress
  <2>2. /\ task' \in [Nodes -> [action : Actions, pc : TaskStates, attempt : Nat]]
        /\ \A m \in Nodes : task'[m].action = task[m].action
        /\ task'[n].pc = "placed"
        /\ \A m \in Nodes : m # n => task'[m] = task[m]
    BY <1>1, TaskGoesEffect DEF CacheResultsWithPlaceholders, ExecInv, TaskStates
  <2>3. ExecTyped'
    BY <2>1, <2>2 DEF ExecInv, ExecTyped, CacheStates
  <2>4. \A m \in Nodes : placeholders'[m] = placeholders[m] \/ placeholders'[m] = "now"
    BY <2>1 DEF ExecInv, ExecTyped
  <2>5. Progress'
    BY <2>1, <2>2, <2>4 DEF ExecInv, ExecTyped, Progress
  <2>6. CompleteLogIsTrue'
    BY <2>1, <2>4 DEF ExecInv, CompleteLogIsTrue
  <2>7. Guarded'
    BY <2>1, <2>2, <2>4 DEF ExecInv, Guarded
  <2> QED
    BY <2>3, <2>5, <2>6, <2>7 DEF ExecInv
<1>2. CASE CacheObject(n)
  <2>1. /\ task[n].pc = "placed" /\ task[n].action = "access"
        /\ placeholders[n] = "now"
        /\ results' = [results EXCEPT ![n] = "now"]
        /\ placeholders' = placeholders /\ logs' = logs /\ masked' = masked
    BY <1>2 DEF CacheObject, ExecInv, Progress
  <2>2. /\ task' \in [Nodes -> [action : Actions, pc : TaskStates, attempt : Nat]]
        /\ \A m \in Nodes : task'[m].action = task[m].action
        /\ task'[n].pc = "worked"
        /\ \A m \in Nodes : m # n => task'[m] = task[m]
    BY <1>2, TaskGoesEffect DEF CacheObject, ExecInv, TaskStates
  <2>3. ExecTyped'
    BY <2>1, <2>2 DEF ExecInv, ExecTyped, CacheStates
  <2>4. \A m \in Nodes : results'[m] = results[m] \/ results'[m] = "now"
    BY <2>1 DEF ExecInv, ExecTyped
  <2>4a. results'[n] = "now"
    BY <2>1 DEF ExecInv, ExecTyped
  <2>5. Progress'
    BY <2>1, <2>2, <2>4, <2>4a DEF ExecInv, Progress
  <2>6. CompleteLogIsTrue'
    BY <2>1, <2>4 DEF ExecInv, CompleteLogIsTrue
  <2>7. Guarded'
    BY <2>1, <2>2 DEF ExecInv, Guarded
  <2> QED
    BY <2>3, <2>5, <2>6, <2>7 DEF ExecInv
<1> QED
  BY <1>1, <1>2

\* A complete log of an access task follows its rows being cached.
LEMMA EndAttemptKeeps ==
    ASSUME ExecInv, NEW n \in Nodes, EndAttempt(n)
    PROVE  ExecInv'
<1>1. /\ task[n].pc = "worked"
      /\ placeholders' = placeholders /\ results' = results /\ masked' = masked
  BY DEF EndAttempt, cache
<1>2. /\ task' \in [Nodes -> [action : Actions, pc : TaskStates, attempt : Nat]]
      /\ \A m \in Nodes : task'[m].action = task[m].action
      /\ task'[n].pc = "ended"
      /\ \A m \in Nodes : m # n => task'[m] = task[m]
  BY TaskGoesEffect DEF EndAttempt, ExecInv, TaskStates
<1>3. /\ logs' \in [Actions -> [Nodes -> SUBSET ExecutionLogStatus]]
      /\ logs'[task[n].action][n] = logs[task[n].action][n] \union {"complete"}
      /\ \A a \in Actions, m \in Nodes :
            a # task[n].action \/ m # n => logs'[a][m] = logs[a][m]
  BY LogEffect DEF EndAttempt, ExecInv, ExecutionLogStatus
<1>4. ExecTyped'
  BY <1>1, <1>2, <1>3 DEF ExecInv, ExecTyped
<1>5. Progress'
  BY <1>1, <1>2 DEF ExecInv, Progress
<1>6. CompleteLogIsTrue'
  BY <1>1, <1>3 DEF ExecInv, Progress, CompleteLogIsTrue, Actions
<1>7. Guarded'
  BY <1>1, <1>2 DEF ExecInv, Guarded
<1> QED
  BY <1>4, <1>5, <1>6, <1>7 DEF ExecInv

\* An erasure task masks only after every collection has been read.
LEMMA MaskKeeps ==
    ASSUME ExecInv, NEW n \in Nodes, MaskData(n)
    PROVE  ExecInv'
<1>1. /\ task[n].action = "erasure"
      /\ masked' = masked \union {n}
      /\ placeholders' = placeholders /\ results' = results /\ logs' = logs
  BY DEF MaskData, cache
<1>2. /\ task' \in [Nodes -> [action : Actions, pc : TaskStates, attempt : Nat]]
      /\ \A m \in Nodes : task'[m].action = task[m].action
      /\ task'[n].pc = "worked"
      /\ \A m \in Nodes : m # n => task'[m] = task[m]
  BY TaskGoesEffect DEF MaskData, ExecInv, TaskStates
<1>4. ExecTyped'
  BY <1>1, <1>2 DEF ExecInv, ExecTyped
<1>5. Progress'
  BY <1>1, <1>2 DEF ExecInv, Progress
<1>6. CompleteLogIsTrue'
  BY <1>1 DEF ExecInv, CompleteLogIsTrue
<1>7. Guarded'
  BY <1>1, <1>2 DEF ExecInv, Guarded
<1> QED
  BY <1>4, <1>5, <1>6, <1>7 DEF ExecInv

\* A collection without write access gets a log of status "error", one without
\* primary key a log that claims nothing about masking.
LEMMA NotErasedKeeps ==
    ASSUME ExecInv, NEW n \in Nodes, NotErased(n)
    PROVE  ExecInv'
<1> DEFINE s == IF n \in PrimaryKeyed THEN "error" ELSE "complete"
<1>1. /\ task[n].action = "erasure"
      /\ placeholders' = placeholders /\ results' = results /\ masked' = masked
  BY DEF NotErased, cache
<1>2. /\ task' \in [Nodes -> [action : Actions, pc : TaskStates, attempt : Nat]]
      /\ \A m \in Nodes : task'[m].action = task[m].action
      /\ task'[n].pc = "ended"
      /\ \A m \in Nodes : m # n => task'[m] = task[m]
  BY TaskGoesEffect DEF NotErased, ExecInv, TaskStates
<1>3. /\ logs' \in [Actions -> [Nodes -> SUBSET ExecutionLogStatus]]
      /\ logs'["erasure"][n] = logs["erasure"][n] \union {s}
      /\ \A a \in Actions, m \in Nodes :
            a # "erasure" \/ m # n => logs'[a][m] = logs[a][m]
  <2>1. s \in ExecutionLogStatus /\ Log(n, s)
    BY DEF NotErased, ExecutionLogStatus
  <2> HIDE DEF s
  <2> QED
    BY <1>1, <2>1, LogEffect DEF ExecInv
<1>4. ExecTyped'
  BY <1>1, <1>2, <1>3 DEF ExecInv, ExecTyped
<1>5. Progress'
  BY <1>1, <1>2 DEF ExecInv, Progress
<1>6. CompleteLogIsTrue'
  <2> SUFFICES ASSUME NEW m \in Nodes
               PROVE  /\ "complete" \in logs'["access"][m] =>
                            placeholders[m] = "now" /\ results[m] = "now"
                      /\ /\ "complete" \in logs'["erasure"][m]
                         /\ m \in PrimaryKeyed
                         => m \in masked
    BY <1>1 DEF CompleteLogIsTrue
  <2>1. logs'["access"][m] = logs["access"][m]
    BY <1>3 DEF Actions
  <2>2. "complete" \in logs'["erasure"][m] /\ m \in PrimaryKeyed
        => "complete" \in logs["erasure"][m]
    BY <1>3 DEF Actions
  <2> QED
    BY <2>1, <2>2 DEF ExecInv, CompleteLogIsTrue
<1>7. Guarded'
  BY <1>1, <1>2 DEF ExecInv, Guarded
<1> QED
  BY <1>4, <1>5, <1>6, <1>7 DEF ExecInv

\* The steps of the runner touch no task, but for the start of the erasure.
LEMMA RunnerKeeps ==
    ASSUME ExecInv, RunnerStep
    PROVE  ExecInv'
<1> DEFINE Same == UNCHANGED <<task, cache, logs, masked>>
<1>1. CASE Same
  BY <1>1 DEF cache, ExecInv, ExecTyped, Progress, CompleteLogIsTrue, Guarded
<1>2. CASE StartErasure /\ ~Same
  <2>1. /\ \A n \in Nodes : placeholders[n] # "none"
        /\ task' = [n \in Nodes |-> NewTask("erasure")]
        /\ placeholders' = placeholders /\ results' = results
        /\ logs' = logs /\ masked' = masked
    BY <1>2 DEF StartErasure, cache
  <2>2. ExecTyped'
    BY <2>1 DEF ExecInv, ExecTyped, NewTask, Actions, TaskStates
  <2>3. Progress'
    BY <2>1 DEF Progress, NewTask
  <2>4. CompleteLogIsTrue'
    BY <2>1 DEF ExecInv, CompleteLogIsTrue
  <2>5. Guarded'
    BY <2>1 DEF Guarded
  <2> QED
    BY <2>2, <2>3, <2>4, <2>5 DEF ExecInv
<1>3. StartErasure \/ Same
  BY DEF RunnerStep, Traverse, Traversed, CollectResults, FinishErasure
<1> QED
  BY <1>1, <1>2, <1>3

\* Every step of a task keeps the invariant, one case per step.
LEMMA TaskKeeps ==
    ASSUME ExecInv, NEW n \in Nodes, Dispatch(n) \/ TaskStep(n)
    PROVE  ExecInv'
<1>a. task[n].attempt \in Nat /\ task[n].attempt + 1 \in Nat
  BY DEF ExecInv, ExecTyped
<1>1. CASE Dispatch(n)
  <2>1. TaskAt(n, "begin", task[n].attempt) /\ UNCHANGED <<cache, masked>> /\ UNCHANGED logs
    BY <1>1 DEF Dispatch, TaskGoes
  <2> QED
    BY <1>a, <2>1, QuietStep DEF TaskStates
<1>2. CASE BeginAttempt(n)
  <2>1. /\ TaskAt(n, "logged", task[n].attempt) /\ UNCHANGED <<cache, masked>>
        /\ \E s \in {"in_processing", "retrying", "error"} : Log(n, s)
    BY <1>2 DEF BeginAttempt, TaskGoes
  <2> QED
    BY <1>a, <2>1, QuietStep DEF TaskStates
<1>3. CASE AttemptFails(n)
  <2>1. UNCHANGED <<cache, masked>> /\ UNCHANGED logs
    BY <1>3 DEF AttemptFails
  <2>2. \/ TaskAt(n, "begin", task[n].attempt + 1)
        \/ TaskAt(n, "failed", task[n].attempt)
    BY <1>3 DEF AttemptFails, TaskGoes
  <2>3. CASE TaskAt(n, "begin", task[n].attempt + 1)
    BY <1>a, <2>1, <2>3, QuietStep DEF TaskStates
  <2>4. CASE TaskAt(n, "failed", task[n].attempt)
    BY <1>a, <2>1, <2>4, QuietStep DEF TaskStates
  <2> QED
    BY <2>2, <2>3, <2>4
<1>4. CASE GivesUp(n)
  <2>1. /\ TaskAt(n, "ended", task[n].attempt) /\ UNCHANGED <<cache, masked>>
        /\ \E s \in {"in_processing", "retrying", "error"} : Log(n, s)
    BY <1>4 DEF GivesUp, TaskGoes
  <2> QED
    BY <1>a, <2>1, QuietStep DEF TaskStates
<1>5. CASE GivesUpRaising(n)
  <2>1. TaskAt(n, "ended", task[n].attempt) /\ UNCHANGED <<cache, masked>> /\ UNCHANGED logs
    BY <1>5 DEF GivesUpRaising, TaskGoes
  <2> QED
    BY <1>a, <2>1, QuietStep DEF TaskStates
<1>6. CASE RetrieveData(n)
  <2>1. /\ TaskAt(n, "retrieved", task[n].attempt) /\ UNCHANGED <<cache, masked>>
        /\ UNCHANGED logs /\ task[n].action = "access"
    BY <1>6 DEF RetrieveData, TaskGoes
  <2> QED
    BY <1>a, <2>1, QuietStep DEF TaskStates
<1> QED
  BY <1>1, <1>2, <1>3, <1>4, <1>5, <1>6, CacheKeeps, EndAttemptKeeps,
     MaskKeeps, NotErasedKeeps DEF TaskStep

\* The invariant is inductive.
LEMMA NextKeeps == ExecInv /\ [Next]_vars => ExecInv'
<1>1. ASSUME ExecInv, UNCHANGED vars
      PROVE  ExecInv'
  BY <1>1 DEF vars, cache, ExecInv, ExecTyped, Progress, CompleteLogIsTrue, Guarded
<1> QED
  BY <1>1, RunnerKeeps, TaskKeeps DEF Next

\* It holds throughout.
LEMMA AlwaysExecInv == Spec => []ExecInv
BY InitEstablishes, NextKeeps, PTL DEF Spec

\* An execution log of status "complete" tells the truth about redis and the
\* masking (log_end, access_request, erasure_request).
THEOREM CompleteLogCorrect == Spec => []CompleteLogIsTrue
<1>1. ExecInv => CompleteLogIsTrue
  BY DEF ExecInv
<1> QED
  BY <1>1, AlwaysExecInv, PTL

-----------------------------------------------------------------------------
\* The graphs are those of the search.
LEMMA NodesAreFinite == SearchProofs!IsFiniteSet(Nodes)
BY GraphsAssumption DEF IsFiniteSet, SearchProofs!IsFiniteSet

LEMMA GraphsAreWellFormed ==
    /\ Root \notin Nodes
    /\ \A g \in Graphs : SearchProofs!WellFormed(g)
BY GraphsAssumption
DEF Search!WellFormed, SearchProofs!WellFormed, Search!EdgesOver, SearchProofs!EdgesOver,
    Search!All, SearchProofs!All

\* The two instances of the search take the same steps.
LEMMA SearchSteps ==
    /\ Search!Init => SearchProofs!Init
    /\ Search!Next => SearchProofs!Next
    /\ search = SearchProofs!searchVars
    /\ Search!EndsNeedEverything <=> SearchProofs!EndsNeedEverything
    /\ \A n : Search!Descendants({n}) = SearchProofs!Descendants({n})
BY DEF Search!Init, SearchProofs!Init, search, SearchProofs!searchVars,
       Search!Next, SearchProofs!Next, Search!Stuck, SearchProofs!Stuck,
       Search!Finish, SearchProofs!Finish, Search!Run, SearchProofs!Run,
       Search!CanRun, SearchProofs!CanRun, Search!All, SearchProofs!All,
       Search!RemainingNodes, SearchProofs!RemainingNodes,
       Search!Visit, SearchProofs!Visit, Search!EdgesInto, SearchProofs!EdgesInto,
       Search!ChildAddresses, SearchProofs!ChildAddresses,
       Search!Targets, SearchProofs!Targets, Search!Spans, SearchProofs!Spans,
       Search!EndsNeedEverything, SearchProofs!EndsNeedEverything,
       Search!Descendants, SearchProofs!Descendants, Search!Downward, SearchProofs!Downward

\* Whatever executions do, the traversal in them is one of the searches.
LEMMA ExecutionSearches == Spec => []SearchProofs!EndsNeedEverything
<1>1. Init => SearchProofs!Init
  BY SearchSteps DEF Init
<1>2. [Next]_vars => [SearchProofs!Next]_(SearchProofs!searchVars)
  <2> SUFFICES ASSUME [Next]_vars PROVE [SearchProofs!Next]_(SearchProofs!searchVars)
    OBVIOUS
  <2>1. CASE Traverse
    BY <2>1, SearchSteps DEF Traverse
  <2>2. CASE ~Traverse
    <3>1. UNCHANGED search
      BY <2>2 DEF Next, RunnerStep, Traversed, CollectResults, StartErasure, FinishErasure,
                  Dispatch, TaskStep, BeginAttempt, AttemptFails, EndAttempt, GivesUp,
                  GivesUpRaising, RetrieveData, CacheResultsWithPlaceholders, CacheObject,
                  NotErased, MaskData, vars
    <3> QED
      BY <3>1 DEF search, SearchProofs!searchVars
  <2> QED
    BY <2>1, <2>2
<1>3. SearchProofs!Spec => []SearchProofs!EndsNeedEverything
  BY SearchProofs!EndsAlwaysNeedEverything, NodesAreFinite, GraphsAreWellFormed, PTL
<1> QED
  BY <1>1, <1>2, <1>3, PTL DEF Spec, SearchProofs!Spec

\* Once the end nodes' tasks have ended, all have: what has not ended is not fed
\* by what has not ended, so it would hold an end node.
LEMMA EndNodesComeLast ==
    ASSUME InOrder, SearchProofs!EndsNeedEverything, outcome = "done",
           \A n \in Nodes : task[n].action = "access",
           \A n \in terminal : task[n].pc = "ended"
    PROVE  \A n \in Nodes : task[n].pc = "ended"
<1> SUFFICES ASSUME NEW n \in Nodes, task[n].pc # "ended"
             PROVE  FALSE
  OBVIOUS
<1> DEFINE S == {m \in Nodes : task[m].pc # "ended"}
<1>1. ASSUME NEW p \in S, NEW c \in Nodes, <<p, c>> \in children
      PROVE  c \in S
  <2>1. p \in InputKeys(c)
    BY <1>1 DEF InputKeys
  <2> QED
    BY <2>1 DEF InOrder
<1>2. SearchProofs!Downward(S)
  BY <1>1 DEF SearchProofs!Downward
<1>3. SearchProofs!Descendants({n}) \subseteq S
  BY <1>2 DEF SearchProofs!Descendants, SearchProofs!All
<1>4. SearchProofs!Descendants({n}) \cap terminal # {}
  BY DEF SearchProofs!EndsNeedEverything
<1> QED
  BY <1>3, <1>4

\* Steps of the runner keep the second invariant.
LEMMA RunnerKeepsRead ==
    ASSUME ExecInv, ReadInv, SearchProofs!EndsNeedEverything, RunnerStep
    PROVE  ReadInv'
<1> USE DEF ReadInv, PhaseOfTasks, Accepted, InOrder, EndedIsLogged, EveryCollectionRead,
            MissingIsLogged
<1>1. CASE Traverse
  BY <1>1 DEF Traverse, InputKeys, cache
<1>2. CASE Traversed
  BY <1>2 DEF Traversed, InputKeys, cache, search
<1>3. CASE CollectResults
  <2>1. /\ phase = "access" /\ phase' = (IF Erasing THEN "collected" ELSE "over")
        /\ UNCHANGED <<outcome, children, terminal, task, results, logs>>
    BY <1>3 DEF CollectResults, search, cache
  <2>2. \A n \in Nodes : task[n].pc = "ended" /\ task[n].action = "access"
    BY <1>3, <2>1, EndNodesComeLast DEF CollectResults
  <2>3. \A n \in Nodes : results[n] = "now" \/ "error" \in logs["access"][n]
    BY <2>1, <2>2
  <2> QED
    BY <2>1, <2>2, <2>3 DEF InputKeys
<1>4. CASE StartErasure
  <2>1. /\ phase = "collected"
        /\ UNCHANGED <<outcome, children, terminal, results, logs>>
    BY <1>4 DEF StartErasure, search, cache
  <2>2. CASE phase' = "erasure" /\ task' = [n \in Nodes |-> NewTask("erasure")]
    BY <2>1, <2>2 DEF InputKeys, NewTask
  <2>3. CASE phase' = "raised" /\ task' = task
    BY <2>1, <2>3 DEF InputKeys
  <2> QED
    BY <1>4, <2>2, <2>3 DEF StartErasure
<1>5. CASE FinishErasure
  BY <1>5 DEF FinishErasure, InputKeys, search, cache
<1> QED
  BY <1>1, <1>2, <1>3, <1>4, <1>5 DEF RunnerStep

\* A task that goes from one place to another, not back to waiting, keeps the second
\* invariant when it has not ended yet, may have begun, and says why it ends.
LEMMA TaskMoveKeepsRead ==
    ASSUME ExecInv, ReadInv, NEW n \in Nodes, NEW pc \in TaskStates, NEW k \in Nat,
           TaskAt(n, pc, k), UNCHANGED search,
           task[n].pc # "ended", pc # "waiting",
           phase # "traverse",
           phase' \in {phase, "raised"},
           task[n].pc = "waiting" /\ task[n].action = "access" =>
               \A p \in InputKeys(n) : task[p].action = "access" /\ task[p].pc = "ended",
           \A m \in Nodes : results[m] = "now" => results'[m] = "now",
           \A m \in Nodes : logs["access"][m] \subseteq logs'["access"][m],
           phase' # "raised" /\ pc = "ended" /\ task[n].action = "access" =>
               results'[n] = "now" \/ "error" \in logs'["access"][n]
    PROVE  ReadInv'
<1>1. /\ \A m \in Nodes : task'[m].action = task[m].action
      /\ task'[n].pc = pc
      /\ \A m \in Nodes : m # n => task'[m] = task[m]
  BY TaskAtEffect DEF ExecInv
<1>2. outcome' = outcome /\ InputKeys(n)' = InputKeys(n)
      /\ \A m \in Nodes : InputKeys(m)' = InputKeys(m)
  BY DEF search, InputKeys
<1>3. InOrder'
  <2> SUFFICES ASSUME NEW m \in Nodes, task'[m].action = "access", task'[m].pc # "waiting",
                      NEW p \in InputKeys(m)
               PROVE  task'[p].action = "access" /\ task'[p].pc = "ended"
    BY <1>2 DEF InOrder
  <2>1. task[p].action = "access" /\ task[p].pc = "ended"
    <3>1. CASE m = n
      BY <1>1, <3>1 DEF ReadInv, InOrder
    <3>2. CASE m # n
      BY <1>1, <3>2 DEF ReadInv, InOrder
    <3> QED
      BY <3>1, <3>2
  <2>2. p # n /\ p \in Nodes
    BY <2>1 DEF InputKeys
  <2> QED
    BY <1>1, <2>1, <2>2
<1>4. EndedIsLogged'
  BY <1>1 DEF ReadInv, EndedIsLogged
<1>5. EveryCollectionRead'
  BY <1>1 DEF ReadInv, EveryCollectionRead
<1>6. MissingIsLogged' /\ Accepted' /\ PhaseOfTasks'
  BY <1>1, <1>2 DEF ReadInv, MissingIsLogged, Accepted, PhaseOfTasks
<1> QED
  BY <1>3, <1>4, <1>5, <1>6 DEF ReadInv

\* Every step of a task keeps the second invariant.
LEMMA TaskKeepsRead ==
    ASSUME ExecInv, ReadInv, NEW n \in Nodes, Dispatch(n) \/ TaskStep(n)
    PROVE  ReadInv'
<1>a. task[n].attempt \in Nat /\ task[n].attempt + 1 \in Nat
  BY DEF ExecInv, ExecTyped
<1>b. phase # "traverse"
  BY DEF ReadInv, PhaseOfTasks, Dispatch, TaskStep, BeginAttempt, AttemptFails, EndAttempt,
         GivesUp, GivesUpRaising, RetrieveData, CacheResultsWithPlaceholders, CacheObject,
         NotErased, MaskData
<1>c. ASSUME NEW s \in ExecutionLogStatus, Log(n, s)
      PROVE  /\ \A m \in Nodes : logs["access"][m] \subseteq logs'["access"][m]
             /\ task[n].action = "access" => s \in logs'["access"][n]
  <2>1. /\ logs'[task[n].action][n] = logs[task[n].action][n] \union {s}
        /\ \A a \in Actions, m \in Nodes :
              a # task[n].action \/ m # n => logs'[a][m] = logs[a][m]
    BY <1>c, LogEffect DEF ExecInv
  <2> QED
    BY <2>1 DEF Actions
<1>1. CASE Dispatch(n)
  <2>1. /\ TaskAt(n, "begin", task[n].attempt) /\ UNCHANGED <<search, phase, cache, logs>>
        /\ task[n].pc = "waiting"
        /\ \/ phase = "access" /\ \A p \in InputKeys(n) : task[p].pc = "ended"
           \/ phase = "erasure"
    BY <1>1 DEF Dispatch, TaskGoes
  <2>2. task[n].action = "access" =>
           \A p \in InputKeys(n) : task[p].action = "access" /\ task[p].pc = "ended"
    BY <2>1 DEF ReadInv, PhaseOfTasks, InputKeys
  <2>3. results' = results
    BY <2>1 DEF cache
  <2> QED
    BY <1>a, <1>b, <2>1, <2>2, <2>3, TaskMoveKeepsRead DEF TaskStates
<1>2. CASE BeginAttempt(n) \/ GivesUp(n) \/ EndAttempt(n) \/ NotErased(n)
  <2>1. PICK s \in ExecutionLogStatus, pc \in {"logged", "ended"} :
           /\ TaskAt(n, pc, task[n].attempt) /\ Log(n, s)
           /\ UNCHANGED <<search, phase, cache>>
           /\ task[n].pc \notin {"waiting", "ended"}
           /\ pc = "ended" => \/ s = "error"
                              \/ task[n].pc = "worked"
                              \/ task[n].action = "erasure"
    <3>1. CASE BeginAttempt(n)
      BY <3>1 DEF BeginAttempt, TaskGoes, ExecutionLogStatus
    <3>2. CASE GivesUp(n)
      BY <3>2 DEF GivesUp, TaskGoes, ExecutionLogStatus
    <3>3. CASE EndAttempt(n)
      BY <3>3 DEF EndAttempt, TaskGoes, ExecutionLogStatus
    <3>4. CASE NotErased(n)
      BY <3>4 DEF NotErased, TaskGoes, ExecutionLogStatus
    <3> QED
      BY <1>2, <3>1, <3>2, <3>3, <3>4
  <2>2. results' = results /\ pc \in TaskStates /\ phase' = phase
    BY <2>1 DEF cache, TaskStates
  <2>3. task[n].pc = "worked" /\ task[n].action = "access" => results[n] = "now"
    BY DEF ExecInv, Progress
  <2>4. /\ \A m \in Nodes : logs["access"][m] \subseteq logs'["access"][m]
        /\ task[n].action = "access" => s \in logs'["access"][n]
    BY <1>c, <2>1
  <2>5. pc = "ended" /\ task[n].action = "access" =>
           results'[n] = "now" \/ "error" \in logs'["access"][n]
    BY <2>1, <2>2, <2>3, <2>4
  <2> QED
    BY <1>a, <1>b, <2>1, <2>2, <2>4, <2>5, TaskMoveKeepsRead
<1>3. CASE AttemptFails(n)
  <2>1. /\ UNCHANGED <<search, phase, cache, logs>>
        /\ task[n].pc \notin {"waiting", "ended"}
    BY <1>3 DEF AttemptFails
  <2>2. PICK pc \in {"begin", "failed"}, k \in Nat : TaskAt(n, pc, k)
    BY <1>3, <1>a DEF AttemptFails, TaskGoes
  <2>3. results' = results /\ pc \in TaskStates
    BY <2>1 DEF cache, TaskStates
  <2> QED
    BY <1>b, <2>1, <2>2, <2>3, TaskMoveKeepsRead
<1>4. CASE GivesUpRaising(n)
  <2>1. /\ UNCHANGED <<search, cache, logs>> /\ phase' = "raised"
        /\ task[n].pc = "failed" /\ TaskAt(n, "ended", task[n].attempt)
    BY <1>4 DEF GivesUpRaising, TaskGoes
  <2>2. results' = results /\ "ended" \in TaskStates
    BY <2>1 DEF cache, TaskStates
  <2> QED
    BY <1>a, <1>b, <2>1, <2>2, TaskMoveKeepsRead
<1>5. CASE RetrieveData(n) \/ CacheResultsWithPlaceholders(n) \/ CacheObject(n) \/ MaskData(n)
  <2>1. /\ UNCHANGED <<search, phase, logs>>
        /\ task[n].pc \notin {"waiting", "ended"}
        /\ results' = results \/ results' = [results EXCEPT ![n] = "now"]
    BY <1>5 DEF RetrieveData, CacheResultsWithPlaceholders, CacheObject, MaskData, cache
  <2>2. PICK pc \in {"retrieved", "placed", "worked"} : TaskAt(n, pc, task[n].attempt)
    BY <1>5 DEF RetrieveData, CacheResultsWithPlaceholders, CacheObject, MaskData, TaskGoes
  <2>3. /\ \A m \in Nodes : results[m] = "now" => results'[m] = "now"
        /\ pc \in TaskStates
    BY <2>1 DEF TaskStates, ExecInv, ExecTyped
  <2> QED
    BY <1>a, <1>b, <2>1, <2>2, <2>3, TaskMoveKeepsRead
<1> QED
  BY <1>1, <1>2, <1>3, <1>4, <1>5 DEF TaskStep

\* The second invariant is inductive, given the first and what the search promises.
LEMMA NextKeepsRead ==
    ExecInv /\ ReadInv /\ SearchProofs!EndsNeedEverything /\ [Next]_vars => ReadInv'
<1>1. ASSUME ReadInv, UNCHANGED vars
      PROVE  ReadInv'
  BY <1>1 DEF vars, cache, search, InputKeys, ReadInv, PhaseOfTasks, Accepted, InOrder,
              EndedIsLogged, EveryCollectionRead, MissingIsLogged
<1> QED
  BY <1>1, RunnerKeepsRead, TaskKeepsRead DEF Next

\* It holds throughout.
LEMMA AlwaysReadInv == Spec => []ReadInv
<1>1. Init => ReadInv
  BY DEF Init, NewTask, ReadInv, PhaseOfTasks, Accepted, InOrder, EndedIsLogged,
         EveryCollectionRead, MissingIsLogged
<1> QED
  BY <1>1, AlwaysExecInv, ExecutionSearches, NextKeepsRead, PTL DEF Spec

\* When the results are read the task of every collection has ended, although only
\* end nodes are waited for: for any graph, accepted by any traversal of it
\* (termination_fn, GraphTask).
THEOREM EveryCollectionIsRead == Spec => []EveryCollectionRead
<1>1. ReadInv => EveryCollectionRead
  BY DEF ReadInv
<1> QED
  BY <1>1, AlwaysReadInv, PTL

\* A collection that is missing in the results of an access that returned has a log
\* of status "error" (retry, log_end).
THEOREM MissingAlwaysLogged == Spec => []MissingIsLogged
<1>1. ReadInv => MissingIsLogged
  BY DEF ReadInv
<1> QED
  BY <1>1, AlwaysReadInv, PTL

-----------------------------------------------------------------------------
\* Results are written after the copy with placeholders.
PlacedFirst == \A n \in Nodes : results[n] = "now" => placeholders[n] = "now"

\* When there are erasure tasks, every access has cached its rows or logged its failure.
ReadFirst ==
    (masked # {} \/ \E n \in Nodes : task[n].action = "erasure") =>
        \A n \in Nodes : placeholders[n] = "now" \/ "error" \in logs["access"][n]

\* Redis and the logs only grow.
LEMMA NothingForgotten ==
    ASSUME ExecInv, Next, NEW n \in Nodes
    PROVE  /\ placeholders[n] = "now" => placeholders'[n] = "now"
           /\ "error" \in logs["access"][n] => "error" \in logs'["access"][n]
<1>1. CASE RunnerStep
  BY <1>1 DEF RunnerStep, Traverse, Traversed, CollectResults, StartErasure, FinishErasure, cache
<1>2. CASE \E m \in Nodes : Dispatch(m) \/ TaskStep(m)
  <2>1. PICK m \in Nodes : Dispatch(m) \/ TaskStep(m)
    BY <1>2
  <2>2. placeholders' = placeholders \/ placeholders' = [placeholders EXCEPT ![m] = "now"]
    BY <2>1 DEF Dispatch, TaskStep, BeginAttempt, AttemptFails, EndAttempt, GivesUp, GivesUpRaising,
                RetrieveData, CacheResultsWithPlaceholders, CacheObject, NotErased, MaskData, cache
  <2>3. logs' = logs \/ \E s \in ExecutionLogStatus : Log(m, s)
    BY <2>1 DEF Dispatch, TaskStep, BeginAttempt, AttemptFails, EndAttempt, GivesUp, GivesUpRaising,
                RetrieveData, CacheResultsWithPlaceholders, CacheObject, NotErased, MaskData,
                ExecutionLogStatus
  <2>4. CASE \E s \in ExecutionLogStatus : Log(m, s)
    <3>1. PICK s \in ExecutionLogStatus : Log(m, s)
      BY <2>4
    <3>2. /\ logs'[task[m].action][m] = logs[task[m].action][m] \union {s}
          /\ \A a \in Actions, b \in Nodes :
                a # task[m].action \/ b # m => logs'[a][b] = logs[a][b]
      BY <3>1, LogEffect DEF ExecInv
    <3>3. "error" \in logs["access"][n] => "error" \in logs'["access"][n]
      BY <3>2 DEF Actions
    <3> QED
      BY <2>2, <3>3 DEF ExecInv, ExecTyped
  <2> QED
    BY <2>2, <2>3, <2>4 DEF ExecInv, ExecTyped
<1> QED
  BY <1>1, <1>2 DEF Next

LEMMA PlacedFirstKept ==
    ASSUME ExecInv, PlacedFirst, [Next]_vars PROVE PlacedFirst'
<1>1. CASE UNCHANGED vars
  BY <1>1 DEF vars, cache, PlacedFirst
<1>2. CASE Next
  <2> SUFFICES ASSUME NEW n \in Nodes, results'[n] = "now" PROVE placeholders'[n] = "now"
    BY DEF PlacedFirst
  <2>1. CASE results' = results
    BY <1>2, <2>1, NothingForgotten DEF PlacedFirst
  <2>2. CASE results' # results
    <3>1. PICK m \in Nodes : CacheObject(m)
      BY <1>2, <2>2 DEF Next, RunnerStep, Traverse, Traversed, CollectResults, StartErasure,
         FinishErasure, Dispatch, TaskStep, BeginAttempt, AttemptFails, EndAttempt, GivesUp,
         GivesUpRaising, RetrieveData, CacheResultsWithPlaceholders, NotErased, MaskData, cache
    <3>2. placeholders[m] = "now" /\ results' = [results EXCEPT ![m] = "now"] /\ placeholders' = placeholders
      BY <3>1 DEF CacheObject, ExecInv, Progress
    <3> QED
      BY <3>2 DEF PlacedFirst, ExecInv, ExecTyped
  <2> QED
    BY <2>1, <2>2
<1> QED
  BY <1>1, <1>2

LEMMA ReadFirstKept ==
    ASSUME ExecInv, ReadInv, PlacedFirst, ReadFirst, [Next]_vars PROVE ReadFirst'
<1>1. CASE UNCHANGED vars
  BY <1>1 DEF vars, cache, ReadFirst
<1>2. CASE Next /\ (masked # {} \/ \E n \in Nodes : task[n].action = "erasure")
  BY <1>2, NothingForgotten DEF ReadFirst
<1>3. CASE StartErasure
  <2>1. phase = "collected" /\ UNCHANGED <<placeholders, results, logs>>
    BY <1>3 DEF StartErasure, cache
  <2>2. \A n \in Nodes : results[n] = "now" \/ "error" \in logs["access"][n]
    BY <2>1 DEF ReadInv, MissingIsLogged
  <2> QED
    BY <2>1, <2>2 DEF PlacedFirst, ReadFirst
<1>4. CASE Next /\ ~StartErasure /\ masked = {} /\ \A n \in Nodes : task[n].action # "erasure"
  <2>1. masked' = {}
    BY <1>4 DEF Next, RunnerStep, Traverse, Traversed, CollectResults, FinishErasure, Dispatch,
       TaskStep, BeginAttempt, AttemptFails, EndAttempt, GivesUp, GivesUpRaising, RetrieveData,
       CacheResultsWithPlaceholders, CacheObject, NotErased, MaskData
  <2>2. task' = task \/ \E m \in Nodes, pc \in TaskStates, k \in Nat : TaskAt(m, pc, k)
    <3>1. \A m \in Nodes : task[m].attempt \in Nat /\ task[m].attempt + 1 \in Nat
      BY DEF ExecInv, ExecTyped
    <3>2. CASE RunnerStep
      BY <1>4, <3>2 DEF RunnerStep, Traverse, Traversed, CollectResults, FinishErasure
    <3>3. ASSUME NEW m \in Nodes, Dispatch(m) \/ TaskStep(m)
          PROVE  \E pc \in TaskStates, k \in Nat : TaskAt(m, pc, k)
      BY <3>1, <3>3 DEF Dispatch, TaskStep, BeginAttempt, AttemptFails, EndAttempt, GivesUp,
         GivesUpRaising, RetrieveData, CacheResultsWithPlaceholders, CacheObject, NotErased,
         MaskData, TaskGoes, TaskStates
    <3> QED
      BY <1>4, <3>2, <3>3 DEF Next
  <2>3. \A n \in Nodes : task'[n].action = task[n].action
    <3>1. ASSUME NEW m \in Nodes, NEW pc \in TaskStates, NEW k \in Nat, TaskAt(m, pc, k)
          PROVE  \A n \in Nodes : task'[n].action = task[n].action
      BY <3>1, TaskAtEffect DEF ExecInv
    <3> QED
      BY <2>2, <3>1
  <2> QED
    BY <1>4, <2>1, <2>3 DEF ReadFirst
<1> QED
  BY <1>1, <1>2, <1>3, <1>4

\* When a row is masked every collection has rows in redis, of this run or, behind a
\* logged failure, of an earlier one, however tasks interleave, fail and are retried
\* (run_erasure, retry).
THEOREM ErasureCorrect == Spec => []ReadBeforeErased
<1>1. Init => PlacedFirst /\ ReadFirst
  BY DEF Init, NewTask, PlacedFirst, ReadFirst
<1>2. ExecInv /\ ReadInv /\ PlacedFirst /\ ReadFirst /\ [Next]_vars => (PlacedFirst /\ ReadFirst)'
  BY PlacedFirstKept, ReadFirstKept
<1>3. ExecInv /\ ReadFirst => ReadBeforeErased
  BY DEF ExecInv, ExecTyped, CacheStates, Guarded, ReadFirst, ReadBeforeErased
<1> QED
  BY <1>1, <1>2, <1>3, AlwaysExecInv, AlwaysReadInv, PTL DEF Spec
===============================================================================
