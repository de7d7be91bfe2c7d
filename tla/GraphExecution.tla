---------------------------- MODULE GraphExecution ----------------------------
(***************************************************************************)
(* A request's access and erasure over a dataset graph: the graph is       *)
(* traversed, an access task per collection runs on threads in the order   *)
(* in which collections feed each other, the results go to redis, and then *)
(* an erasure task per collection masks the rows found there.              *)
(*                                                                         *)
(* run_erasure traverses the graph once more, but uses nothing of it than  *)
(* the set of collections, which is the same (RunsLeastClosedSet).         *)
(***************************************************************************)
EXTENDS Naturals, FiniteSets

CONSTANTS
    Nodes, Root, DatasetOf, Graphs,     \* as in GraphSearch
    PrimaryKeyed,   \* collections with a primary key
    Writable,       \* collections whose connection has write access
    Erasing,        \* has the policy an erasure rule
    Leftovers,      \* the collections that may have results in redis already,
                    \* from an earlier run of the same request
    RetryCount,     \* config.execution.TASK_RETRY_COUNT
    MaxFaults       \* bound on exceptions in tasks

ASSUME ExecutionAssumption ==
    /\ PrimaryKeyed \subseteq Nodes
    /\ Writable \subseteq Nodes
    /\ Erasing \in BOOLEAN
    /\ Leftovers \subseteq SUBSET Nodes
    /\ RetryCount \in Nat
    /\ MaxFaults \in Nat

VARIABLES
    graph, waiting, finished, remaining, children, terminal, outcome,
    phase,          \* "traverse", "access", "collected", "erasure", "over",
                    \* or "raised": an exception ended the execution
    task,           \* the task of each collection in this phase
    placeholders,   \* results in redis for erasures: "none", of an "earlier"
    results,        \* run or of this one ("now"); the same for access
    logs,           \* the statuses of the execution logs written for each
                    \* action and collection
    masked,         \* collections whose rows were masked
    faults          \* exceptions so far

Search == INSTANCE GraphSearch

ASSUME GraphsAssumption ==
    /\ IsFiniteSet(Nodes)
    /\ Root \notin Nodes
    /\ \A g \in Graphs : Search!WellFormed(g)

search == <<graph, waiting, finished, remaining, children, terminal, outcome>>
cache == <<placeholders, results>>
vars == <<search, phase, task, cache, logs, masked, faults>>

Actions == {"access", "erasure"}
ExecutionLogStatus == {"in_processing", "retrying", "complete", "error"}

NewTask(a) == [action |-> a, pc |-> "waiting", attempt |-> 0]

Init ==
    /\ Search!Init
    /\ phase = "traverse"
    /\ task = [n \in Nodes |-> NewTask("access")]
    /\ \E left \in Leftovers :
          /\ placeholders = [n \in Nodes |-> IF n \in left THEN "earlier" ELSE "none"]
          /\ results = placeholders
    /\ logs = [a \in Actions |-> [n \in Nodes |-> {}]]
    /\ masked = {}
    /\ faults = 0

-----------------------------------------------------------------------------
\* run_access_request: the traversal, then dask

Traverse ==
    /\ phase = "traverse"
    /\ Search!Next
    /\ UNCHANGED <<phase, task, cache, logs, masked, faults>>

\* A TraversalError, and a cycle in the graph given to dask, are exceptions.
Traversed ==
    /\ phase = "traverse"
    /\ outcome # "running"
    /\ phase' = IF outcome = "done" /\ Search!Acyclic THEN "access" ELSE "raised"
    /\ UNCHANGED <<search, task, cache, logs, masked, faults>>

InputKeys(n) == {p \in Nodes : <<p, n>> \in children}

\* dask computes only what the end nodes need.
Needed(n) == Search!Descendants({n}) \cap terminal # {}

\* The task of n is at pc now, in its attempt k.
TaskAt(n, pc, k) ==
    task' = [task EXCEPT ![n] = [action |-> task[n].action, pc |-> pc,
                                 attempt |-> k]]

TaskGoes(n, pc) == TaskAt(n, pc, task[n].attempt)

\* write_execution_log, in a session of its own.
Log(n, s) == logs' = [logs EXCEPT ![task[n].action][n] = @ \union {s}]

\* dask starts the task of n on some thread: an access task when those that
\* feed it have ended, an erasure task at any time.
Dispatch(n) ==
    /\ task[n].pc = "waiting"
    /\ \/ /\ phase = "access"
          /\ Needed(n)
          /\ \A p \in InputKeys(n) : task[p].pc = "ended"
       \/ phase = "erasure"
    /\ TaskGoes(n, "begin")
    /\ UNCHANGED <<search, phase, cache, logs, masked, faults>>

\* log_start or log_retry. (The steps of a task do not depend on the phase: after
\* an exception in the runner, tasks that have begun go on on their threads.)
BeginAttempt(n) ==
    /\ task[n].pc = "begin"
    /\ Log(n, IF task[n].attempt = 0 THEN "in_processing" ELSE "retrying")
    /\ TaskGoes(n, "logged")
    /\ UNCHANGED <<search, phase, cache, masked, faults>>

\* Any exception of an attempt: the retry decorator sleeps and tries again,
\* as long as attempts are left.
AttemptFails(n) ==
    /\ task[n].pc \in {"begin", "logged", "retrieved", "placed", "worked"}
    /\ faults < MaxFaults
    /\ faults' = faults + 1
    /\ IF task[n].attempt < RetryCount
       THEN TaskAt(n, "begin", task[n].attempt + 1)
       ELSE TaskGoes(n, "failed")
    /\ UNCHANGED <<search, phase, cache, logs, masked>>

\* Mutant of GivesUp: returns the default without a log.
GivesUpSilently(n) ==
    /\ task[n].pc = "failed"
    /\ TaskGoes(n, "ended")
    /\ UNCHANGED <<search, phase, cache, logs, masked, faults>>

\* log_end(error); the task returns the default: no rows, or no row masked.
GivesUp(n) ==
    /\ task[n].pc = "failed"
    /\ Log(n, "error")
    /\ TaskGoes(n, "ended")
    /\ UNCHANGED <<search, phase, cache, masked, faults>>

\* The exception of that log_end is not caught: dask raises it in the runner.
GivesUpRaising(n) ==
    /\ task[n].pc = "failed"
    /\ faults < MaxFaults
    /\ faults' = faults + 1
    /\ TaskGoes(n, "ended")
    /\ phase' = "raised"
    /\ UNCHANGED <<search, cache, logs, masked>>

\* log_end: the last thing that an attempt does.
EndAttempt(n) ==
    /\ task[n].pc = "worked"
    /\ Log(n, "complete")
    /\ TaskGoes(n, "ended")
    /\ UNCHANGED <<search, phase, cache, masked, faults>>

-----------------------------------------------------------------------------
\* access_request

\* Mutant of RetrieveData: completion is logged before the rows are in redis.
RetrieveDataUncached(n) ==
    /\ task[n].action = "access"
    /\ task[n].pc = "logged"
    /\ TaskGoes(n, "worked")
    /\ UNCHANGED <<search, phase, cache, logs, masked, faults>>

RetrieveData(n) ==
    /\ task[n].action = "access"
    /\ task[n].pc = "logged"
    /\ TaskGoes(n, "retrieved")
    /\ UNCHANGED <<search, phase, cache, logs, masked, faults>>

CacheResultsWithPlaceholders(n) ==
    /\ task[n].pc = "retrieved"
    /\ placeholders' = [placeholders EXCEPT ![n] = "now"]
    /\ TaskGoes(n, "placed")
    /\ UNCHANGED <<search, phase, results, logs, masked, faults>>

CacheObject(n) ==
    /\ task[n].pc = "placed"
    /\ results' = [results EXCEPT ![n] = "now"]
    /\ TaskGoes(n, "worked")
    /\ UNCHANGED <<search, phase, placeholders, logs, masked, faults>>

\* Mutant of CollectResults: waits for rows instead of for tasks.
CollectResultsWhenCached ==
    /\ phase = "access"
    /\ \A n \in terminal : results[n] = "now"
    /\ phase' = IF Erasing THEN "collected" ELSE "over"
    /\ UNCHANGED <<search, task, cache, logs, masked, faults>>

\* termination_fn waits for the end nodes and reads all the results.
CollectResults ==
    /\ phase = "access"
    /\ \A n \in terminal : task[n].pc = "ended"
    /\ phase' = IF Erasing THEN "collected" ELSE "over"
    /\ UNCHANGED <<search, task, cache, logs, masked, faults>>

-----------------------------------------------------------------------------
\* run_erasure

\* Mutant of StartErasure: a collection without results has no rows to mask.
StartErasureLeniently ==
    /\ phase = "collected"
    /\ phase' = "erasure"
    /\ task' = [n \in Nodes |-> NewTask("erasure")]
    /\ UNCHANGED <<search, cache, logs, masked, faults>>

\* Each task is given the rows of its collection: a collection without results
\* is a KeyError, and nothing is erased.
StartErasure ==
    /\ phase = "collected"
    /\ IF \A n \in Nodes : placeholders[n] # "none"
       THEN /\ phase' = "erasure"
            /\ task' = [n \in Nodes |-> NewTask("erasure")]
       ELSE /\ phase' = "raised"
            /\ UNCHANGED task
    /\ UNCHANGED <<search, cache, logs, masked, faults>>

\* erasure_request of a collection without primary key, or without write access.
NotErased(n) ==
    /\ task[n].action = "erasure"
    /\ task[n].pc = "logged"
    /\ n \notin PrimaryKeyed \intersect Writable
    /\ Log(n, IF n \in PrimaryKeyed THEN "error" ELSE "complete")
    /\ TaskGoes(n, "ended")
    /\ UNCHANGED <<search, phase, cache, masked, faults>>

MaskData(n) ==
    /\ task[n].action = "erasure"
    /\ task[n].pc = "logged"
    /\ n \in PrimaryKeyed \intersect Writable
    /\ masked' = masked \union {n}
    /\ TaskGoes(n, "worked")
    /\ UNCHANGED <<search, phase, cache, logs, faults>>

FinishErasure ==
    /\ phase = "erasure"
    /\ \A n \in Nodes : task[n].pc = "ended"
    /\ phase' = "over"
    /\ UNCHANGED <<search, task, cache, logs, masked, faults>>

-----------------------------------------------------------------------------
TaskStep(n) ==
    \/ BeginAttempt(n) \/ AttemptFails(n) \/ EndAttempt(n)
    \/ GivesUp(n) \/ GivesUpRaising(n)
    \/ RetrieveData(n) \/ CacheResultsWithPlaceholders(n) \/ CacheObject(n)
    \/ NotErased(n) \/ MaskData(n)

RunnerStep == Traverse \/ Traversed \/ CollectResults \/ StartErasure \/ FinishErasure

Next == RunnerStep \/ \E n \in Nodes : Dispatch(n) \/ TaskStep(n)

\* The runner's thread, dask and its threads are scheduled.
Spec ==
    /\ Init
    /\ [][Next]_vars
    /\ WF_vars(RunnerStep)
    /\ \A n \in Nodes : WF_vars(Dispatch(n)) /\ WF_vars(TaskStep(n))

-----------------------------------------------------------------------------
\* Properties

TaskStates == {"waiting", "begin", "logged", "retrieved", "placed", "worked",
               "failed", "ended"}

\* When termination_fn reads the results, the task of every collection has
\* ended, not only those of the end nodes it waits for: no collection is left
\* out of the results without an error, or read after masking has begun.
EveryCollectionRead ==
    phase = "collected" \/ (phase = "over" /\ ~Erasing) =>
        \A n \in Nodes : task[n].pc = "ended"

\* Nothing is masked before every collection has rows in redis: those this run has
\* read, or, where a log says that its access failed for good, those that an earlier
\* run left there. Without any the erasure of all collections is refused. (A failure
\* does not rule the erasure out: the rows may be older than the access results, or,
\* when it came after the placeholders were written, not be among them.)
ReadBeforeErased ==
    masked # {} =>
        \A n \in Nodes : \/ placeholders[n] = "now"
                         \/ placeholders[n] = "earlier" /\ "error" \in logs["access"][n]

\* A collection whose rows are not in the results of an access that returned has
\* an execution log that says so. Nothing else does: the request goes on as if
\* the collection had no rows (retry).
MissingIsLogged ==
    phase \in {"collected", "erasure", "over"} =>
        \A n \in Nodes :
            results[n] = "now" \/ "error" \in logs["access"][n]

\* A log of status "complete" is true: the rows are in redis in both forms, or
\* masked if they may be, whatever failed and was retried.
CompleteLogIsTrue ==
    \A n \in Nodes :
        /\ "complete" \in logs["access"][n] =>
              placeholders[n] = "now" /\ results[n] = "now"
        /\ /\ "complete" \in logs["erasure"][n]
           /\ n \in PrimaryKeyed
           => n \in masked

\* The execution returns or raises, whichever tasks fail.
ExecutionEnds == <>(phase \in {"over", "raised"})
===============================================================================
