# A TLA+ verification of fidesops

fidesops carries out privacy requests: it finds a person's data in many
datastores, hands it out (access) or masks it (erasure). This directory holds
TLA+ models of the parts of it that are hard to test, TLC configurations that
check them on small instances, and proofs that TLAPS checks for instances of any
size. `PROJECT.json` names the source lines behind every definition, the runs,
the theorems, the hazards each property is for, and the disagreements between
the code and what its documentation, docstrings or tests say.

    tlc -workers 2 -config LifecycleAuto.cfg MCRequestLifecycle     # a run
    tlapm RequestLifecycleProofs.tla                                # proofs

## Inventory

| Component | State | Operations | Interacts with | What makes it hard |
|---|---|---|---|---|
| Privacy request lifecycle (`request_runner_service.py`, `models/privacy_request.py`, `privacy_request_endpoints.py`, `async_util.py`) | the row (status, times), identity in redis, the executor's queue, runs in progress | create, approve, deny, resume, run | webhooks, scheduler, graph execution, storage | unlocked reads before writes, overlapping runs, restarts, exceptions nobody catches |
| Expiry of paused requests (`scheduler.py`, the last two functions of `request_runner_service.py`) | jobs in memory | schedule, fire | the row | races with resume; lost on a restart |
| Webhook calls (`http_connector.py`, `trigger_policy_webhook`) | reply-to tokens | call, answer, halt, fail | runs, resume | early and late callbacks, no timeout |
| Dataset graph, traversal (`graph.py`, `traversal.py`, `matching_queue.py`) | queue, finished collections, remaining edges | traverse | graph execution | sets iterated in any order, collections queued again, `after` |
| Graph execution (`graph_task.py`, `task_resources.py`) | tasks, cached rows, execution logs | access and erasure tasks with retries | dask, redis, connectors | threads, failure at any step of an attempt |
| Policy webhooks (`policy_webhook_endpoints.py`, `models/policy.py`, `base_class.py`) | the `order` column | PUT, PATCH, DELETE | the ORM session | commits in the middle of a call |
| Rules and targets (`models/policy.py`, `policy_endpoints.py`, `storage_endpoints.py`) | policies, rules, targets, storage destinations | bulk PATCH, DELETE | the ORM session, lifecycle | checks across rows, commits item by item, what a refused item leaves in the session |
| Connections, SaaS configs, datasets (`connection_endpoints.py`, `saas_config_endpoints.py`, `dataset_endpoints.py`, `datasetconfig.py`, `graph/config.py`) | a row with type, SaaS config, secrets; dataset rows | PATCH, PUT, DELETE, test; merge and convert to graphs | runs load them | several endpoints keep one row together by checks that are stale when they commit |
| Rows (`filter_results.py`, `filter_element_match.py`, `refine_target_path.py`, `consolidate_query_matches.py`) | none: pure functions | filter, refine, consolidate | tasks | nested arrays, positions that shift |
| Stores (`query_config.py`, `sql_connector.py`, `mongodb_connector.py`) | rows of a store | select, update | tasks | empty keys, retries after half of the rows, nulls |
| SaaS connector (`saas_connector.py`, `saas_query_config.py`, `service/pagination`, `service/processors`) | `collection_name` and `client_config`, shared by tasks | read with pages, mask | tasks on threads, an external service | pagination that must end, shared state, ignored errors |
| Masking (`service/masking`, `secrets_util.py`) | secrets in redis | mask | erasure | secrets expire |
| OneTrust intake (`onetrust_service.py`) | none | scheduled intake | lifecycle | an external service |
| Storage services, OAuth clients, users, configuration | rows | create, read, update, delete | | I/O; single rows |

For each component, the properties that make it correct are the ones listed
under the runs below; the hazards in `PROJECT.json` give the line where each
could go wrong.

## Modules

| Module | Models | Extends or instantiates |
|---|---|---|
| `RequestLifecycle` | the life of a request across API threads, executor threads, hooks, scheduler and restarts | |
| `GraphEdges` | links between collections | |
| `GraphSearch` | what a traversal does, without the order of its queue | `GraphEdges` |
| `Traversal` | `traverse` with its queue | implements `GraphSearch` |
| `GraphExecution` | access and erasure tasks on threads, after the search | composes `GraphSearch` |
| `WebhookOrder` | the list of webhooks the endpoints promise | |
| `PolicyWebhooks` | the endpoints, commit by commit | implements `WebhookOrder` |
| `PolicyRules` | policies, rules, targets and storage destinations under concurrent calls | |
| `Positions` | scalars, and the positions in a row that paths lead to | |
| `Erasure` | the updates of one collection's rows in a store, with their retries, after any access | `Positions` |
| `Documents` | nested rows and the algorithms that walk them | `Positions` |
| `CollectionTask` | the access and the erasure of one collection in a store | `Documents`; implements `Erasure` |
| `SaasConnector` | the tasks of one SaaS connector | |
| `Connections` | connections, SaaS configs, secrets and datasets under concurrent calls, and the graphs a run makes of them | |
| `SampleGraphs`, `MC*` | instances for TLC | |
| `RequestLifecycleProofs`, `TraversalProofs`, `GraphExecutionProofs`, `PolicyRulesProofs`, `PolicyWebhooksProofs`, `ErasureProofs`, `SaasConnectorProofs`, `ConnectionsProofs` | theorems | the module in their name; `TraversalProofs` also has those of `GraphSearch` |

Operators whose comment says "Mutant of X" are not part of any specification:
each is X with a plausible mistake, and shows that the property named with it in
`PROJECT.json` notices.

### RequestLifecycle

Three stores are kept apart because they fail apart.

* **Database**: `status`, `stamps` (which of the started, finished and reviewed
  times are set) and `rules` of a request. `"absent"` is a row that does not exist.
  The ORM's UPDATE names a column only when its value differs from the one that
  was loaded. So a run remembers the status it loaded (`seen`) and the one in
  memory (`mem`), and `WriteStatus` writes only a difference: a run that loaded
  `error` and ends in `error` does not overwrite a `paused` written meanwhile.
* **Redis**: `identity`, whose keys expire one by one.
* **Process memory**: `handler` (an API thread between its read and its write, or
  between its commit and `submit`), `queue` and `run` (the executor), `jobs` and
  `firing` (the scheduler: scheduled, and between the read and the write). `Crash`
  clears all of it.

A step ends where another actor can see the difference: at a commit, a write to
redis, an HTTP call or its answer. `CallPreHook` and the answer are two steps
because the callback token works from the moment of the call. `tokens` are the
reply-to URLs with their unexpired tokens in clients' hands. The token itself names
only the webhook (`generate_request_callback_jwe`); the request is in the URL. That
a token comes back to the URL it was sent with is assumed of the clients.

Graph execution is one step here (`Access`, `Erase`, or `ExecutionFails`), and an
upload one step per request; `GraphExecution` opens the first two up. A policy
is given by its set of rule actions, chosen when the request is created.

The history variables `released`, `did` and `approvals` record, in that order,
which hooks let a request go on, which effects on data it had, and which approvals
were committed. No guard reads them.

### GraphEdges, GraphSearch, Traversal

Edges are seen between collections; which fields they join has no influence on a
traversal. `Spans`, `Targets` and `EdgesInto` are the methods of `Edge` and
`BidirectionalEdge`. `GraphSearch` runs *any* waiting collection that may run,
`Traversal` the first in its queue, pushing children in any order (the code
iterates a set). One action (`Run`, `RunFirst`) is one iteration of the while loop.

### GraphExecution

The search, then a task per collection. An attempt has the steps `begin` (the log
of its start), `logged`, `retrieved`, `placed` (rows with placeholders are in
redis, for erasures), `worked` (rows are in redis), `ended`; an exception may end
an attempt at any of them, including the log writes. Tasks go on after an
exception has reached the runner, because dask does not stop its threads. The cache
starts with rows of an earlier run for some collections, because a resumed or
doubly submitted request uses the same keys. Such rows stand in for a collection whose
access fails now: the erasure goes on, and the log of the failure is the only trace.
`ReadBeforeErased` says just that, and not that a failed access rules the erasure out.
Dask is external: modelled as starting
any task whose inputs have ended and that an end node needs, and refusing a cycle.

The graph execution traverses the graph twice (`__verify_traversal`, then
`run_access_request`), and the erasure does so again. The model has one search: the
set of collections is the same for all (`LeastClosedSet`), and the iteration order
of the copied set of edges is the same within a process.

### PolicyWebhooks

Webhooks as rows with an owner and an order. A step ends at a commit: creations
are staged (`persist_obj` is overridden), updates commit at once with everything
staged (`save` calls the base class). `was`, in a call's record, is the list at its
start, for the properties only. One table is modelled, because pre-execution and
post-execution webhooks have the same code.

The granularity is exact when calls are served one at a time, as in the passing
run.

### PolicyRules

Rows of policies, rules, targets and storage destinations, and one session per API
thread. A call is a loop over its items; an item reads and checks in one step
(`RuleCreated`, `RuleUpdated`, `TargetCreated`, ...) and commits in a second one
(`Commit`, or `CommitFails` when a constraint of the database is broken), so that
another thread can commit between the check and the write. The session holds

* `dirty`: rules whose attributes were set, as loaded and as in memory. An update
  sets attributes *before* `save` validates them, so a refused item stays dirty and
  the commit of a later item writes it (`failed` remembers which ones). A flush
  writes only columns that differ from what was loaded (`Merged`).
* `saw`: the targets the conflict check has loaded. They are loaded once per
  commit, since a commit expires what the session holds.

`Rule.delete` is one commit per target and one for the rule. `DeleteStorage` empties
the column of the rules that use it, as the ORM does for a relationship without a
cascade. `Init` is any database that calls served one at a time, all of them
successful, can have left. `Conflicting` is what the docstring of
`_validate_rule_target_collection` and the guide rule out, a category that two erasure
targets of a policy mask, or one that is a part of another; the check (`ValidateTargets`)
looks for the second only. `ConflictHasCause` names the first as a cause of its own, and
policies may be in conflict from the start. `FindRule` is the lookup as it is written: the
condition's `and` is Python's, so the policy is not part of the query.

### Positions, Erasure, Documents, CollectionTask

`Erasure` has rows as functions from positions to scalars, because an update assigns
to positions (`a.0.b` in a document store, columns in SQL). Its `Access` is any access
that keeps two promises: a cached copy of a row has what the store has, or a
placeholder, at every position, with the key as it is (`IsCopy`); and the plan of a row
is made of targeted positions without a placeholder, with a rule that supports them
(`IsPlan`). The erasure updates row by row from those copies. An attempt may fail at any
row (`AttemptRaises`) and starts over; secrets may expire at any moment
(`SecretsExpire`). Masked values are one abstract value, and what differs between
strategies is kept: what they do with nulls, with unsupported types and without secrets.
Rows of the store are changed only by the erasure: another writer to it is not modelled.

In `Documents` a value is a scalar, a list or a dictionary, and the recursive
operators are the recursive functions of the source, one for one. The paths of an access
package are a set that the code walks in an order of its own: `Packages` has the result of
every order, and none where `select_and_save_field` raises (`SelectRaises`: a path that
ends at a dictionary is asked for another level). `CollectionTask` uses
them for one collection: `AccessRequest` selects rows with the inputs of upstream rows
(SQL compares columns, Mongo values along a path), keeps matching array elements in two
ways (deleted for the results, replaced by placeholders for the copy in redis) and makes
the plans (`Updates`); then it takes the steps of `Erasure` (`Erase`). That the real
access keeps the two promises is the refinement `ImplementsErasure`.

Both properties of an erasure have a proviso on keys, because
`filter_nonempty_values` drops empty parts of a key from the condition of an update.
`KeyTells(i)`: no part of the key of row i is empty and no other row has the same key.
`KeysApart`, for `FoundIsErased`: in a document store the key is one field, or none of its fields is masked.
Without it the update for a document whose key is in part empty can meet another
document and mask a part of *its* key, whose own update then finds nothing: the erasure
ends without an error and that document is not masked. Tables do not need it, because
there all rows have the same columns, so that the first update masks everything.

A case of `MCCollectionTask` is a collection with its rows, keys, edges and
policy. They are 25 situations chosen for the branches of the source, not an
enumeration.

### SaasConnector

Tasks of the collections of one connector object, on dask's threads. They share two
attributes of it, which each writes and reads back without a lock. `NameCollection`
writes `collection_name`, and `Begin` reads it to choose the read request (`read`, in
the record of a task), while the requests themselves are made from the task's own node.
Then a request is sent in three steps: `BuildClient` writes `client_config`, `BuildUri`
reads it, and `Fetch`, `Apply`, `Refused` or `SendRaises` is the send with everything up
to the next request. Masking does not use `collection_name`. `Raises` is the retry of
`graph_task.py`, from the start of the attempt.

Another task's write in between leads a request astray (`Astray`): it goes to the host
of another configuration, or its answer is taken with the data path, post-processors
and pagination of another collection. What comes of that depends on services and configs
that have nothing to do with each other, so it is left open. It may be refused,
fail, or be answered ok (`FetchAstray`, `ApplyAstray`): the pagination then stops, goes
on, or asks for the same page again, and a row that was to be masked counts as updated.
`stray` remembers that the attempt took such an answer. The properties leave this
attempt out, and without that proviso TLC refutes each of the three: what they
show is that the shared attributes do no other harm, to later attempts or to
tasks that are not astray. Which rows an attempt astray returns is not modelled.

The service that a collection is meant for is external: it has pages, refuses what
lacks headers it needs, and may refuse or fail for reasons of its own at any time.

### Connections

A row of `ConnectionConfig` has a type, a SaaS config, secrets and the outcome of its
last test; datasets refer to it. As in `PolicyRules`, a call checks what it has
loaded and commits later, and writes only columns that it changed. Handlers that are
`async def` without awaiting (`put_connection_config_secrets` and the connection test)
occupy the event loop, so they exclude each other but not the handlers on threads.
A run loads all datasets, then the connection of each as its graph is made, then all
connections (`LoadDatasets`, `BuildGraph`, `LoadConnections`). A dataset and its connection may
thus be of two configurations; `GraphHasBothParts` is about the versions that were loaded.
An endpoint without a read request, which the schema allows, fails the run
(`GetGraphRaises`). A commit that fails rolls the session back
(`ExtendedSession.commit`), so a PATCH goes on with its next item. `GetGraph`,
`ConvertDataset`, `ConfigGraph` and `MergeDatasets` are the functions that make and
merge graphs, at the level of fields; `DatasetGraphRaises` and `CreateEdge` make edges
of the references of fields, or refuse them. `to`, in an edge, are the ends that values flow to: both when it has no
direction.

## Runs

| Run | Bounds | Shows |
|---|---|---|
| `lifecycle_auto` | 1 request, 2 API threads, 2 executor threads, 2 two-way pre hooks, 1 post hook, 1 restart, 2 client calls, uncaught exceptions | `HooksReleaseExecution`, `CompleteMeansDone`, `PausedHasFollowup` |
| `lifecycle_manual` | the same with manual approval, 1 API thread, 3 client calls, policies with and without rules | `ApprovedBeforeRun`, `SingleFlight`, `DeniedIsFinal`, `CompleteUndoneOnlyByExpiry` |
| `lifecycle_live` | 1 pre hook, 2 API threads, no restart, no uncaught exception | `PausedResolves`, `DispatchedSettles` |
| `traversal` | 3 collections in 2 datasets, all combinations of seeds and edges, 6 orders, children queued in any order | `RunsLeastClosedSet`, `EdgesAllUsed`, `EndsNeedEverything`, `SeededFromRoot`, `UndirectedIsAcyclic`, `RunsUseEdges`, `ImplementsSearch`, `Terminates` |
| `execution` | 6 graphs of 3 collections, 1 retry, 3 exceptions, results of an earlier run | access and erasure |
| `webhooks_serial` | 1 policy, 3 webhooks, 1 thread, a PUT may be refused at its first item | `OrdersArePositions`, `KeepsPromise` |
| `policy_rules` | 2 threads, 2 calls of up to 2 items, 2 policies, 2 rules, 2 targets, 1 storage destination, a category and its child, any database with its references in order and valid rules, with or without conflicting targets | `TypeOK`, `OwnersStay`, `InvalidHasCause`, `ConflictHasCause` |
| `collection_task` | 25 cases of 3 rows, 2 attempts | `RefineFindsMatches`, `CopiesAgree`, `PackageHasTargets`, `ErasesOnlyFound`, `FoundIsErased`, `ImplementsErasure` |
| `saas` | 15 cases of 2 tasks, up to 3 pages and 3 upstream rows, 2 attempts | `RowsComplete`, `MaskedAll`, `TasksEnd` |
| `connections` | 1 connection, 3 SaaS configs (one without a read request), 3 datasets (one with identities and references of its own), 2 threads and the event loop, 2 calls of up to 2 items, a run, any consistent database | `GraphHasBothParts`, `MismatchHasCause` |
| `lifecycle_denied`, `saas_host` | the smallest instance | a disagreement, see below |

Why the bounds are enough. Requests share nothing but the threads and the queue,
and two runs of one request are what a second request cannot show; two client
calls allow an approval and a resume, or two resumes, to overlap a run. Two
webhooks are needed for a stale token of the first to arrive in the pause of the
second. Three collections give every shape of a path, a fork, a join and a
triangle, and the last edge of a triangle is used after both of its ends have
run. Three exceptions use up one task's attempts and break its last log. Three
webhooks are needed to tell a move from a swap. Two calls are what can overlap on
two threads, and `policy_rules` and `connections` start from every consistent
database, so that what came before need not be a call of the run; two items are
what it takes for one to commit what the other left behind. Three pages have a
first, a middle and a last one. The properties that are proved do
not depend on bounds at all.

`lifecycle_auto`, `lifecycle_manual` and `connections` use the symmetry of threads:
nothing distinguishes one API or executor thread from another. `policy_rules` also
uses that of keys. The liveness runs use none.

`InvalidHasCause`, `ConflictHasCause` and `MismatchHasCause` have one form: the
database is consistent unless one of the listed things has happened. The code
does not keep it consistent under concurrent calls, since nothing locks between a
check and its commit; what the properties say is that there is no *other* way. With calls
that succeed and do not overlap, what is left are the writes that nothing checks, and
the two erasure targets of one category that the check lets through.
Deadlock is not checked where the system may come to rest: when every request has
ended and no calls are left, or when a traversal or an execution is over.

### Fairness

`Fairness` in `RequestLifecycle`: API threads, executor threads and the scheduler
go on when they have something to do, because the operating system schedules them,
and a date trigger fires. Nothing is assumed of clients, of which answer a hook
gives, or of restarts. That a hook answers at all *is* assumed (the answer is a
step of the executor thread), and the code does not guarantee it: `requests.post` is
called without a timeout. `GraphExecution` and `Traversal` assume that their
threads are scheduled, and connectors that answer or raise. `SaasConnector` assumes
the same of its tasks and of the service (`Fetch`, `Refused` and `SendRaises` are
steps of the task): it gives an answer, though not the same one each time, and does not
repeat a cursor.

### Disagreements

Two are runs that TLC must find violated; `PROJECT.json` quotes the two sides.

1. `lifecycle_denied`: without manual approval a request stays `pending` while it
   runs, can be denied, and completes.
2. `saas_host`: tasks of one SaaS connector share `client_config`, so that a request
   with a client configuration of its own can be sent to another host.

A third has no run of its own: `retrieve_data` is to "get the corresponding read
request for the given collection" (`saas_connector.py:185`), but names the collection in
an attribute that other tasks write, and may get another's (`NameCollection`, `Begin`).
The read then ends with other rows, or, with another's pagination, may not end:
`RowsComplete` and `TasksEnd` are violated when their provisos about `stray` are dropped.

The others came up while modelling. They limit what the passing runs say, and each
is visible in the definition named with it.

* A restart forgets the expiry job of a paused request, which stays paused
  (`Crash`; `policy_webhooks.md` says it will be given an `error` status).
* An exception of a webhook call other than the two that are caught ends the run and
  leaves the request as it was (`HookRaises`).
* `after` orders the traversal, which reads nothing, and not the tasks, which read:
  dask gets the data dependencies only (`Dispatch`; `datasets.md:97`).
* A PUT of webhooks that is refused half-way has committed the updates before it
  (`put_webhooks` says all-or-nothing), and a PUT on one policy can take the webhook
  of another by its key and leave a gap in its orders. `OrdersArePositions` is
  therefore checked with one policy, and calls refused at their first item if at all.
* A circle of references with directions is accepted by the traversal, as
  `test_circular_reference` asks, but dask refuses it, so that the execution ends in
  an exception.
* DELETE of a rule or a target, and PATCH of targets, find a rule of any policy
  (`FindRule`).
* A refused update of a rule is committed by a later item (`RuleUpdateInvalid`).
* Two erasure targets of one policy may have the same category: the check asks for
  ancestors only, and a category is not its own (`ValidateTargets`). Its docstring says
  "We cannot mask the same data categories multiple times" (`models/policy.py:175`), and
  the guide that it is illegal to erase the same data twice within a Policy
  (`docs/guides/policies.md:128`). It takes one call (`ConflictHasCause`).
* A path to a category that ends at a document makes the access package fail
  (`SelectRaises`).
* When a row is found through one field, an array that is another entry point and
  has no match is kept whole (`FilterElementMatch`); `complex_fields.md` says that
  only matching indices are considered.
* Parts of a primary key that are 0 or empty are left out of an update's condition
  (`Where`), and in generic SQL a masked primary key keeps its value, because SET
  and WHERE share a parameter (`Assigned`). In a document store an update that meets
  another document for this reason can mask part of its key, so that it is then missed
  without an error (`KeysApart`).
* Requests for further pages drop the headers of the first (`Next1`). A filter drops
  a whole page when one of its rows lacks the field (`FilterByIdentity`). Cursor
  pagination does not notice a cursor that repeats.
* A SaaS config may have an endpoint without a read request, which no run with its
  dataset survives (`GetGraphRaises`).
* The secrets of a connection that is no longer of type SaaS are checked against the
  SaaS config left on it (`Schema`). The API cannot clear secrets, so a SaaS config
  can never be deleted once secrets were set (`DeleteSaasConfig`).
* Merging drops the `after` of the dataset and of its collections (`MergeDatasets`).
* Deleting a connection that a webhook uses fails after its datasets are gone
  (`DeleteRow`).

## Proofs

Thirty-six theorems in eight modules, for any number of requests, threads, hooks,
collections, edges, rows, attempts, restarts and faults. Assumptions on constants:
hook numbers are within bounds, and flags are Boolean (`HookAssumption`,
`PolicyAssumption`); the edges of a graph join known collections and none leads to
the root (`GraphAssumption`, `GraphsAssumption`); collections and webhooks are
finitely many, and so are the rows that a read of a SaaS collection has found
(`FiniteAssumption`, `TablesAssumption`, `CasesAssumption`); constants have their types
(`ExecutionAssumption`, `ConstantsAssumption`, `RefusedAssumption`); and the value that
stands for "no row" is not a row (`AbsentAssumption`, and `TablesAssumption` for "no
policy"). `CasesAssumption` of `Erasure`: every row has the fields of the key, no key is
what a strategy makes of a value, and stores and strategies are those the code knows.
`CasesAssumption` of `SaasConnector`: inputs and pages are finite lists, the step of a
pagination is positive (`check_increment_by`), no page before the end is empty, and only
an offset goes on beyond the last page. TLC evaluates each of them on the instances.

### Invariants of the system as it is

* `RequestLifecycleProofs`.
  `TypeCorrect`: `TypeOK` with `Refs`, which says that busy
  handlers, queue entries and runs refer to requests that exist, and that a run
  which waits for an answer waits for a hook of the policy.
  `ReleaseCorrect`: `HooksReleaseExecution` is not inductive, since it says nothing
  of work that will start in the middle of the list. `ReleaseInv` adds: every hook
  before the one a run has reached, and every hook up to the one named by a queue
  entry, a resuming handler *or a token*, has let the request go on (up to, but not
  including, the token's own hook). That a token of hook k exists only after hooks
  1 to k-1 agreed is what makes stale tokens harmless.
  `CompleteCorrect`: `DoneInv` ties the phase of a run and the error it carries
  in memory to the effects so far (a run that is past its upload has uploaded or is
  in error). `FollowupCorrect` and `FinishedCorrect`: `Tidy`.
  `ApprovalCorrect`: `ApprovalInv` follows an approval from the handler through
  the queue to the run, and through a pause.
* `TraversalProofs`, of `GraphSearch`. `SearchInv`: what waits is the root or is led to by an unused
  edge from a finished collection (`Sourced`), and every such edge leads to a waiting
  one (`Covered`); a used edge joins two finished ones (`UsedBetweenFinished`), and
  a bidirectional one is used as soon as it does (`TwoWayOpen`); every closed set
  contains what has finished (`Needed`); a search ends only when nothing that waits
  may run (`EndedAtRest`). From it `EdgesAlwaysUsed`,
  `LeastClosedSet` (a closed set contains what has finished, by induction over
  the steps; when the search ends, what has finished is closed) and
  `RunsAlwaysUseEdges`.
  The links that a search makes between parents and children form paths of any
  length. `Descendants` is defined by sets that are closed under the links, so that
  `ReachInv` can say without an induction over paths: such a set that has the root
  has all that has run (`Rooted`); one that has something that has run has an end node,
  or an unused edge leaves it (`EndsAhead`); and, without directed references, every
  collection has one with what it feeds and not itself (`UndirectedInv`).
  From it `AlwaysSeededFromRoot`, `EndsAlwaysNeedEverything` and
  `UndirectedAlwaysAcyclic`.
* `TraversalProofs`, of `Traversal`. `QueueInv`: the queue has no duplicates and its items are what
  waits in the search; so taking the first one that may run is a `Run` of the
  search, and finding none is the end of it (`TraversalImplementsSearch`). Hence
  everything above is true of `traverse` itself (`TraversalCorrect`).
* `GraphExecutionProofs`. `ExecInv`: the place a task has reached implies what is in
  redis and in `masked`, also for tasks that go on after the runner raised, and an
  erasure task exists only when every collection has rows. From it
  `CompleteLogCorrect`. `ReadInv` adds that an access task has begun only after those that feed it
  have ended (`InOrder`): when the end nodes have ended every collection has, because
  each one feeds an end node (`EndsAlwaysNeedEverything`, cited for the search that comes
  first). From it
  `EveryCollectionIsRead`, `MissingAlwaysLogged` and `ErasureCorrect`: an access that
  ended has written its rows in this run, or has logged that it gave up (`PlacedFirst`), and
  masking begins after all have ended (`ReadFirst`).
* `PolicyRulesProofs`. `RulesInv`: the rules a session has changed, and the one whose
  targets it patches or deletes, still exist; a dirty rule has the owner it was loaded
  with and, unless it is among those that were refused, is valid; what a call is about
  to commit was checked against what it saw. `TargetsKeepTheirRule`, `OwnersAlwaysStay`,
  `InvalidAlwaysHasCause` and `ConflictAlwaysHasCause` follow, the last two by cases
  on what a commit may write. For the last: a new target that passed the check, whose
  category the policy does not have yet, is in conflict with no target that the check saw.
* `SaasConnectorProofs`. `MaskInv`: what an attempt has still to do covers every row that
  neither it nor an earlier attempt has masked, unless it went astray. From it
  `MaskingCorrect`. `ReadInv`, for `ReadingCorrect`: unless an error was ignored, the
  identity expired or this attempt went astray, a task that reads is at a place of a complete read, or at the link that comes with
  the last page (`GoodAt`), and has the rows of all places of the requests that are
  finished and of the places before its own in the one at work (`Reading`): as a
  set, and counted. A step adds the rows of one page and goes to the next place
  of the request, or to the first place of the next one (`ReadOn`), so that no page is
  left out and none is read twice, for each of the ways to paginate. An attempt
  that raises begins with nothing, and not astray, so a retry has nothing of the one
  before. That the shared attributes do no other harm is a matter of what a step reads:
  `collectionName` and `clientConfig` reach a task only through `read` and `host`.
* `ErasureProofs`. `EraseInv`. `ErasesOnlyFound` is not inductive: that the statement for
  a row with a key of its own meets no other row must hold when keys have been masked as
  well. `Traces` says what a value can have become (as it was, null or masked), and a
  key is neither null nor a mask, so a changed row never looks like another one
  (`MeetsNoOther`). `FoundIsErased` needs more, since statements for *other* rows,
  whose keys are in part empty, can meet a row first: `AllReached` says that it is then masked
  already, or still has the key that its own update looks for (`OtherUpdates`), and
  that it is masked once the attempt is past it (`OwnUpdate`). Masked stays masked
  (`ErasedStays`), so a repeated attempt does no harm. From it `OnlyFoundErased`,
  `AllFoundErased` and `MaskedStaysMasked` (no step brings a value back), for any access
  that keeps the promises of `IsCopy` and `IsPlan`.
* `ConnectionsProofs`. `RunInv`: the graphs a run has built are those of the dataset
  and the connection it loaded, whatever was committed since
  (`GraphsAlwaysHaveBothParts`; the rest is about what a merge of two graphs makes of
  each field, `GraphFields`).
  `ConnInv`: what a call will commit differs from what it has seen in the one column
  it may write, and passed its check on what it has seen; every dataset has its
  connection (`MismatchAlwaysHasCause`).

### Theorems with a hypothesis

Five properties are true only when calls do not overlap, and the runs that check
them have one API thread. Their theorems state this as a hypothesis on the constants,
`Serial`; all other numbers stay arbitrary, and executor threads, hooks, expiry jobs
and restarts still interleave.

* In `RequestLifecycleProofs`, `Serial` is manual approval and one API thread.
  Without it two calls read the same row before either commits, and a request that
  is approved automatically is `pending` while it runs (`lifecycle_denied`).
  `SerialInv`: a request is about to be submitted, queued or at work in one place at
  most (`OneOn`); when its status is pending, paused or final, it is in none
  (`StatusTells`); and what a call has read still holds when it writes
  (`ReadsHold`). `SingleFlightCorrect`, `DenialCorrect` and
  `CompletionCorrect` follow.
* In `PolicyWebhooksProofs`, `Serial` is one API thread, one policy, and a PUT that
  is refused at its first item if at all. The three exclude, in this order, calls
  that overlap, a PUT that takes the webhook of another policy by its key, and a
  PUT that has committed a prefix; each breaks the order in the code.
  `OrderInv` describes the table in the middle of a call: the items a PUT has done
  are staged or have their index; the webhooks a reordering has done have their
  index in the new list, the others the one in the old; the new list is the old one
  with the webhook of the call moved. Between calls the order column is the position
  in the list, so that the query "order by order" has one result (an increasing
  sequence of n different numbers below n is 0, 1, 2...), and the webhook at position
  `order[k]`, which `reorder_related_webhooks` pops, is k. `OrdersCorrect` follows, and
  `PromiseKept`: with `SettledList` as the abstract list, the last commit of a PUT,
  PATCH or DELETE is the step that `WebhookOrder` promises, and every other step
  leaves the list and the last call as they are.

### Only model-checked

* Liveness (`PausedResolves`, `DispatchedSettles`, `Terminates`, `ExecutionEnds`,
  `TasksEnd`), because the prover handles neither fairness nor ENABLED.
* The walks through nested rows (`RefineFindsMatches`, `CopiesAgree`,
  `PackageHasTargets`), and with them `ImplementsErasure`: they are recursive operators,
  which the prover does not support, and what they compute needs an induction over the
  data. What is proved of `Erasure` carries over to `CollectionTask` by this refinement.

Where a proof does need an induction, over the positions of a queue or the places of a
pagination, it takes a least counterexample: the natural numbers are well founded
(`NatLessThanWellFounded`), so a set of them has a minimum (`WFMin`).

## Plan

Done: the lifecycle, the search and traversal, graph execution, webhooks, rules and
targets, rows and queries, the SaaS connector, connections and datasets; proofs of
every safety property but the ones named above.

What is left, in this order:

1. The types of `Connections`, `SaasConnector` and `GraphExecution` as theorems of their
   own; they are conjuncts of the invariants above.
2. `PausedOrder`: the composition of webhooks and paused requests (reordering and
   deleting while a request waits), and a module with time for the token's age, the
   time to live of the identity and the expiry job.

## Approximations

Places where a definition is coarser or finer than the code, and no property depends on it:

* `build_uri` reads `client_config` twice, for the host and for the protocol; `BuildUri`
  reads it once.
* `action_type` is loaded as an enum and set as a string, so that an UPDATE of a rule
  always names it; `Merged` takes it as unchanged when it is equal.
* `ValidateSaasDataset` looks at top-level fields, as the code does; fields of the model
  have no fields of their own.
* `TargetPaths` takes a category as a sequence of names, of which another is a prefix;
  the code compares strings, so that a name may also be cut in its middle.
* `MongoClause` matches scalars wherever a path leads, also in arrays of arrays and where a
  scalar cuts the path short, which MongoDB does not: the model selects more documents.

## Not modelled

Text of SQL, HTTP and files; cryptography; authentication strategies; pydantic
schemas; migrations; the web clients; users and OAuth clients; the OneTrust intake;
logging. They hold no protocol state, or they are functions of one value that unit
tests reach. The read-only endpoints change nothing.
