----------------------------- MODULE Connections ------------------------------
(***************************************************************************)
(* Connections, their SaaS configs, secrets and datasets, as the API       *)
(* maintains them, and the graphs that a privacy request makes of them. A  *)
(* call loads the row of its connection, checks what it has loaded, and    *)
(* commits later. Most handlers run on threads; the two that are "async"   *)
(* share the event loop, so one of them is served at a time.               *)
(*                                                                         *)
(* Names follow keys. The reads of one item happen at one instant. Of the  *)
(* connection types, "sql" stands for all that are not SaaS.               *)
(***************************************************************************)
EXTENDS Naturals, FiniteSets, Functions

CONSTANTS
    Threads,    \* threads of the API server
    Loop,       \* its event loop
    Keys,       \* keys of connections
    FidesKeys,  \* keys of datasets and SaaS configs
    Configs,    \* SaaS configs that clients send
    Docs,       \* datasets that clients send
    Absent,
    MaxItems,   \* bound: items of one PATCH
    MaxCalls    \* bound: calls served

\* A dataset is [key, after, collections]: a collection is [after, fields], a
\* field [categories, meta], meta is Absent or [identity, references].
\* A SaaS config is [key, connectorParams, endpoints]: an endpoint is [after,
\* grouped, params], the params of its read request are [identity, references], or
\* Absent without such a request; a param with neither takes its value from a
\* connector param. A reference is [field, direction]: the address <<dataset,
\* collection, field>> of another field, and "to", "from" or Absent.
ASSUME ConstantsAssumption ==
    /\ Loop \notin Threads
    /\ \A x \in Configs \union Docs : x.key \in FidesKeys
    /\ MaxItems \in Nat /\ MaxCalls \in Nat

Secrets == {{"url"}} \union {config.connectorParams : config \in Configs}

Row == [type : {"saas", "sql"}, config : Configs \union {Absent},
        secrets : Secrets \union {Absent}, tested : {"never", "succeeded", "failed"}]

DatasetRow == [conn : Keys, doc : Docs]

ASSUME AbsentAssumption ==
    Absent \notin Keys /\ Absent \notin Configs /\ Absent \notin Row /\ Absent \notin DatasetRow

VARIABLES
    rows,      \* rows of ConnectionConfig
    datasets,  \* rows of DatasetConfig
    hooked,    \* connections that a webhook refers to; never changes
    sess,      \* the call each thread serves, with its session
    calls,     \* calls served so far
    run        \* a privacy request that reads the configuration

vars == <<rows, datasets, hooked, sess, calls, run>>

NewRow(type) == [type |-> type, config |-> Absent, secrets |-> Absent, tested |-> "never"]

NoOp == [do |-> "none"]

\* kind: what is served; conn: the key of its connection; seen: the row as loaded,
\* Absent once it is expired; saw: the datasets it had then; gone: the row has been
\* deleted meanwhile; left: items to come; op: what is to be committed; todo:
\* datasets to delete; lost: one of them was deleted by another call.
Idle == [kind |-> "idle", conn |-> Absent, seen |-> Absent, saw |-> {}, gone |-> FALSE,
         left |-> 0, committing |-> FALSE, op |-> NoOp, todo |-> {}, lost |-> FALSE]

NoRun == [pc |-> "begin", left |-> << >>, conns |-> << >>, graph |-> << >>, edges |-> {}, gone |-> {}]

DatasetsOf(c) == {k \in FidesKeys : datasets[k] # Absent /\ datasets[k].conn = c}

\* Something of the connection does not belong together: a SaaS connection has a
\* dataset that its config is not for, or secrets are not what its connector asks
\* for.
Mismatched(c) ==
    /\ rows[c] # Absent
    /\ \/ rows[c].type = "saas" /\ \E k \in DatasetsOf(c) :
             rows[c].config = Absent \/ rows[c].config.key # k
       \/ /\ rows[c].secrets # Absent
          /\ rows[c].secrets # IF rows[c].type # "saas" THEN {"url"}
                               ELSE IF rows[c].config = Absent THEN {}
                               ELSE rows[c].config.connectorParams

\* A database that earlier calls, served one at a time, have left as it should be.
Init ==
    /\ rows \in [Keys -> {Absent} \union {row \in Row : row.tested = "never"}]
    /\ datasets \in [FidesKeys -> {Absent} \union DatasetRow]
    /\ \A k \in FidesKeys : datasets[k] # Absent =>
          datasets[k].doc.key = k /\ rows[datasets[k].conn] # Absent
    /\ \A c \in Keys : ~Mismatched(c)
    /\ hooked \in SUBSET {c \in Keys : rows[c] # Absent}
    /\ sess = [t \in Threads \union {Loop} |-> Idle]
    /\ calls = 0
    /\ run = NoRun

-----------------------------------------------------------------------------
\* Calls and their items

NextItem(s) == IF s.left <= 1 THEN Idle ELSE [s EXCEPT !.left = @ - 1]

Serves(t, kind) == sess[t].kind = kind /\ ~sess[t].committing

Begin(t, s) ==
    /\ sess[t] = Idle
    /\ calls < MaxCalls
    /\ calls' = calls + 1
    /\ sess' = [sess EXCEPT ![t] = s]
    /\ UNCHANGED <<rows, datasets, hooked, run>>

Continue(t, s) ==
    /\ sess' = [sess EXCEPT ![t] = s]
    /\ UNCHANGED <<rows, datasets, hooked, calls, run>>

\* A session that is about to write the columns of a connection.
Write(s, c, row) ==
    [s EXCEPT !.conn = c, !.seen = rows[c], !.saw = DatasetsOf(c), !.gone = FALSE,
              !.committing = TRUE,
              !.op = [do |-> "write", base |-> rows[c], row |-> row]]

PatchConnections(t) ==
    \E n \in 1 .. MaxItems : Begin(t, [Idle EXCEPT !.kind = "connections", !.left = n])

\* A new connection, or the type of one that exists; nothing else is looked at.
ConnectionItem(t, c, type) ==
    /\ Serves(t, "connections")
    /\ Continue(t,
          IF rows[c] # Absent THEN Write(sess[t], c, [rows[c] EXCEPT !.type = type])
          ELSE [sess[t] EXCEPT !.conn = c, !.gone = FALSE, !.committing = TRUE,
                               !.op = [do |-> "create", row |-> NewRow(type)]])

\* The key of another connection, or a name that is taken.
ConnectionRefused(t) == Serves(t, "connections") /\ Continue(t, NextItem(sess[t]))

\* _get_saas_connection_config
IsSaas(c) == rows[c] # Absent /\ rows[c].type = "saas"

\* What the connection had before is not looked at.
PatchSaasConfig(t, c, config) ==
    /\ IsSaas(c)
    /\ Begin(t, Write([Idle EXCEPT !.kind = "config"], c, [rows[c] EXCEPT !.config = config]))

\* Mutant of DeleteSaasConfig: the dataset of the config is not looked for.
DeleteSaasConfigAnyway(t, c) ==
    /\ IsSaas(c)
    /\ rows[c].config # Absent
    /\ rows[c].secrets = Absent
    /\ Begin(t, Write([Idle EXCEPT !.kind = "config"], c, [rows[c] EXCEPT !.config = Absent]))

\* The dataset and the secrets must be gone.
DeleteSaasConfig(t, c) ==
    /\ IsSaas(c)
    /\ rows[c].config # Absent
    /\ rows[c].config.key \notin DatasetsOf(c)
    /\ rows[c].secrets = Absent
    /\ Begin(t, Write([Idle EXCEPT !.kind = "config"], c, [rows[c] EXCEPT !.config = Absent]))

\* get_connection_secrets_validator: a SaaS config decides, whatever the type.
Schema(row) == IF row.config # Absent THEN row.config.connectorParams ELSE {"url"}

\* Secrets are saved before they are tried.
PutSecrets(c, secrets, verify) ==
    /\ rows[c] # Absent
    /\ ~(rows[c].type = "saas" /\ rows[c].config = Absent)
    /\ secrets = Schema(rows[c])
    /\ Begin(Loop, Write([Idle EXCEPT !.kind = IF verify THEN "verify" ELSE "secrets"],
                         c, [rows[c] EXCEPT !.secrets = secrets]))

TestSecrets(c) ==
    /\ rows[c] # Absent
    /\ Begin(Loop, [Idle EXCEPT !.kind = "test", !.conn = c, !.seen = rows[c]])

\* connection_status: the outcome is saved. Without a SaaS config there is no
\* connector; other exceptions are not caught, and a test may be skipped.
ConnectionStatus(outcome) ==
    /\ Serves(Loop, "test")
    /\ LET s == sess[Loop] IN
       IF outcome = "none" THEN Continue(Loop, Idle)
       ELSE /\ ~(s.seen.type = "saas" /\ s.seen.config = Absent)
            /\ Continue(Loop, [s EXCEPT !.committing = TRUE,
                   !.op = [do |-> "write", base |-> s.seen, row |-> [s.seen EXCEPT !.tested = outcome]]])

PatchDatasets(t, c) ==
    /\ rows[c] # Absent
    /\ \E n \in 1 .. MaxItems :
          Begin(t, [Idle EXCEPT !.kind = "datasets", !.conn = c, !.seen = rows[c], !.left = n])

\* _validate_saas_dataset
ValidateSaasDataset(row, doc) ==
    /\ row.config # Absent
    /\ row.config.key = doc.key
    /\ \A x \in DOMAIN doc.collections : LET fields == doc.collections[x].fields IN
          \A f \in DOMAIN fields : fields[f].meta # Absent =>
             fields[f].meta.identity = Absent /\ fields[f].meta.references = {}

\* The row of the connection is loaded again after each commit.
Loaded(t) == IF sess[t].seen # Absent THEN sess[t].seen ELSE rows[sess[t].conn]

\* An item is refused, or its row is looked up by connection and key.
DatasetItem(t, doc) ==
    LET s == [sess[t] EXCEPT !.seen = Loaded(t)]
        found == ~s.gone /\ doc.key \in DatasetsOf(s.conn)
    IN /\ Serves(t, "datasets")
       /\ ~(sess[t].seen = Absent /\ s.gone)
       /\ Continue(t,
             IF s.seen.type = "saas" /\ ~ValidateSaasDataset(s.seen, doc) THEN NextItem(s)
             ELSE [s EXCEPT !.committing = TRUE,
                            !.op = [do |-> IF found THEN "update" ELSE "insert",
                                    doc |-> doc, gone |-> FALSE]])

\* The connection cannot be loaded again: this is outside of the try.
DatasetsRaise(t) ==
    /\ Serves(t, "datasets")
    /\ sess[t].seen = Absent /\ sess[t].gone
    /\ Continue(t, Idle)

-----------------------------------------------------------------------------
\* Commits

\* Columns that differ from what was loaded are written.
Merged(row, op) ==
    [x \in DOMAIN row |-> IF op.base[x] # op.row[x] THEN op.row[x] ELSE row[x]]

\* Rows that are updated exist, keys are unique, foreign keys refer to a row.
Integrity(s) ==
    CASE s.op.do = "create" -> rows[s.conn] = Absent
      [] s.op.do = "write" -> ~s.gone
      [] s.op.do = "insert" -> ~s.gone /\ datasets[s.op.doc.key] = Absent
      [] s.op.do = "update" -> ~s.op.gone

Committed(s) ==
    CASE s.kind \in {"connections", "datasets"} ->
            NextItem([s EXCEPT !.committing = FALSE, !.op = NoOp, !.seen = Absent])
      [] s.kind = "verify" -> [s EXCEPT !.kind = "test", !.committing = FALSE, !.op = NoOp,
                                        !.seen = Merged(rows[s.conn], s.op)]
      [] OTHER -> Idle

Commit(t) ==
    LET s == sess[t] IN
    /\ s.committing
    /\ Integrity(s)
    /\ rows' = CASE s.op.do = "create" -> [rows EXCEPT ![s.conn] = s.op.row]
                 [] s.op.do = "write" -> [rows EXCEPT ![s.conn] = Merged(@, s.op)]
                 [] OTHER -> rows
    /\ datasets' = IF s.op.do \in {"insert", "update"}
                   THEN [datasets EXCEPT ![s.op.doc.key] = [conn |-> s.conn, doc |-> s.op.doc]]
                   ELSE datasets
    /\ sess' = [sess EXCEPT ![t] = Committed(s)]
    /\ UNCHANGED <<hooked, calls, run>>

\* ExtendedSession.commit rolls the session back: a PATCH of several items reports
\* one as failed and goes on.
CommitFails(t) ==
    LET s == sess[t] IN
    /\ s.committing
    /\ ~Integrity(s)
    /\ Continue(t, IF s.kind \in {"connections", "datasets"}
                   THEN NextItem([s EXCEPT !.committing = FALSE, !.op = NoOp, !.seen = Absent])
                   ELSE Idle)

-----------------------------------------------------------------------------
\* Deletions

\* What the other sessions hold of a dataset that is deleted.
WithoutDataset(t, k, s) ==
    [u \in DOMAIN sess |->
        CASE u = t -> s
          [] u # t /\ sess[u].op.do = "update" -> [sess[u] EXCEPT !.op.gone = @ \/ sess[u].op.doc.key = k]
          [] u # t /\ sess[u].op.do # "update" ->
                [sess[u] EXCEPT !.todo = @ \ {k}, !.lost = @ \/ k \in sess[u].todo]]

DeleteDataset(t, c, k) ==
    /\ sess[t] = Idle
    /\ calls < MaxCalls
    /\ k \in DatasetsOf(c)
    /\ calls' = calls + 1
    /\ datasets' = [datasets EXCEPT ![k] = Absent]
    /\ sess' = WithoutDataset(t, k, Idle)
    /\ UNCHANGED <<rows, hooked, run>>

DeleteConnection(t, c) ==
    /\ rows[c] # Absent
    /\ Begin(t, [Idle EXCEPT !.kind = "delete", !.conn = c, !.seen = rows[c], !.todo = DatasetsOf(c)])

\* ConnectionConfig.delete: a commit for each dataset loaded at first ...
DeleteItsDataset(t, k) ==
    /\ Serves(t, "delete")
    /\ k \in sess[t].todo
    /\ datasets' = [datasets EXCEPT ![k] = Absent]
    /\ sess' = WithoutDataset(t, k, [sess[t] EXCEPT !.todo = @ \ {k}])
    /\ UNCHANGED <<rows, hooked, calls, run>>

\* ... which raises when one of them is gone and was not loaded again ...
DeletionRaises(t) == Serves(t, "delete") /\ sess[t].lost /\ Continue(t, Idle)

\* ... and the row at last, unless a dataset or a webhook refers to it.
DeleteRow(t) ==
    LET c == sess[t].conn IN
    /\ Serves(t, "delete")
    /\ sess[t].todo = {}
    /\ IF sess[t].gone \/ DatasetsOf(c) # {} \/ c \in hooked THEN Continue(t, Idle)
       ELSE /\ rows' = [rows EXCEPT ![c] = Absent]
            /\ sess' = [u \in DOMAIN sess |->
                           IF u = t THEN Idle
                           ELSE [sess[u] EXCEPT !.gone = @ \/ (sess[u].conn = c /\ sess[u].op.do # "create")]]
            /\ run' = [run EXCEPT !.gone = @ \union {c}]
            /\ UNCHANGED <<datasets, hooked, calls>>

-----------------------------------------------------------------------------
\* Graphs

\* Mutant of GraphField: the identity of a field is dropped.
GraphFieldUnidentified(f) ==
    [categories |-> f.categories, identity |-> Absent,
     references |-> IF f.meta = Absent THEN {} ELSE f.meta.references]

\* to_graph_field
GraphField(f) ==
    [categories |-> f.categories,
     identity |-> IF f.meta = Absent THEN Absent ELSE f.meta.identity,
     references |-> IF f.meta = Absent THEN {} ELSE f.meta.references]

\* convert_dataset_to_graph
ConvertDataset(doc) ==
    [after |-> doc.after,
     collections |-> [x \in DOMAIN doc.collections |->
        [after |-> doc.collections[x].after, grouped |-> {},
         fields |-> [f \in DOMAIN doc.collections[x].fields |->
                        GraphField(doc.collections[x].fields[f])]]]]

\* The params of an endpoint that become fields.
FieldParams(endpoint) ==
    {p \in DOMAIN endpoint.params :
        endpoint.params[p].identity # Absent \/ endpoint.params[p].references # {}}

\* SaaSConfig.get_graph: endpoints without fields are left out.
ConfigGraph(config) ==
    LET used == {x \in DOMAIN config.endpoints : FieldParams(config.endpoints[x]) # {}} IN
    [after |-> {},
     collections |-> [x \in used |->
        [after |-> config.endpoints[x].after, grouped |-> config.endpoints[x].grouped,
         fields |-> [p \in FieldParams(config.endpoints[x]) |->
             [categories |-> {}, identity |-> config.endpoints[x].params[p].identity,
              references |-> config.endpoints[x].params[p].references]]]]]

\* The references of a config's field are a list, maybe empty, and never None.
MergeFields(target, source) ==
    [target EXCEPT !.references = source.references,
                   !.identity = IF source.identity # Absent THEN source.identity ELSE @]

\* extract_fields, for the fields of one collection on both sides.
ExtractFields(a, b) ==
    [f \in DOMAIN a \union DOMAIN b |->
        IF f \in DOMAIN a \cap DOMAIN b THEN MergeFields(a[f], b[f])
        ELSE IF f \in DOMAIN a THEN a[f] ELSE b[f]]

\* merge_datasets: after and grouped_inputs are those of the config alone.
MergeDatasets(a, b) ==
    LET fields(g, x) == IF x \in DOMAIN g.collections THEN g.collections[x].fields ELSE << >> IN
    [after |-> {},
     collections |-> [x \in DOMAIN a.collections \union DOMAIN b.collections |->
        [after |-> IF x \in DOMAIN b.collections THEN b.collections[x].after ELSE {},
         grouped |-> IF x \in DOMAIN b.collections THEN b.collections[x].grouped ELSE {},
         fields |-> ExtractFields(fields(a, x), fields(b, x))]]]

Merges(row, doc) == row.type = "saas" /\ row.config # Absent /\ row.config.key = doc.key

\* DatasetConfig.get_graph
GetGraph(doc, row) ==
    IF Merges(row, doc) THEN MergeDatasets(ConvertDataset(doc), ConfigGraph(row.config))
    ELSE ConvertDataset(doc)

\* SaaSConfig.get_graph asks every endpoint for its read request.
GetGraphRaises(doc, row) ==
    Merges(row, doc) /\ \E x \in DOMAIN row.config.endpoints : row.config.endpoints[x].params = Absent

\* A run loads the datasets ...
LoadDatasets ==
    /\ run.pc = "begin"
    /\ run' = [run EXCEPT !.pc = "graphs", !.gone = {},
                  !.left = Restrict(datasets, {k \in FidesKeys : datasets[k] # Absent})]
    /\ UNCHANGED <<rows, datasets, hooked, sess, calls>>

\* ... then each one's connection, when its graph is made ...
BuildGraph(k) ==
    /\ run.pc = "graphs"
    /\ k \in DOMAIN run.left \ DOMAIN run.graph
    /\ LET c == run.left[k].conn
           doc == run.left[k].doc
           row == IF c \in DOMAIN run.conns THEN run.conns[c] ELSE rows[c]
       IN IF (c \notin DOMAIN run.conns /\ c \in run.gone) \/ GetGraphRaises(doc, row)
          THEN run' = [run EXCEPT !.pc = "failed"]
          ELSE run' = [run EXCEPT
                   !.conns = [d \in DOMAIN @ \union {c} |-> IF d = c THEN row ELSE @[d]],
                   !.graph = [j \in DOMAIN @ \union {k} |->
                                 IF j = k THEN GetGraph(doc, row) ELSE @[j]]]
    /\ UNCHANGED <<rows, datasets, hooked, sess, calls>>

\* The fields of all graphs, by address.
Addresses(graph) ==
    UNION {UNION {{<<k, x, f>> : f \in DOMAIN graph[k].collections[x].fields} :
                  x \in DOMAIN graph[k].collections} : k \in DOMAIN graph}

FieldAt(graph, a) == graph[a[1]].collections[a[2]].fields[a[3]]

SameCollection(a, b) == a[1] = b[1] /\ a[2] = b[2]

\* Collection.references, of all collections.
ReferencesOf(graph) ==
    UNION {{<<a, ref>> : ref \in FieldAt(graph, a).references} : a \in Addresses(graph)}

\* DatasetGraph raises: a collection that does not exist, or the field's own.
DatasetGraphRaises(graph) ==
    \E r \in ReferencesOf(graph) : LET field == r[2].field IN
        \/ field[1] \notin DOMAIN graph
        \/ field[2] \notin DOMAIN graph[field[1]].collections
        \/ SameCollection(r[1], field)

\* create_edge: values flow to the ends in "to"; without a direction, both ways.
CreateEdge(a, ref) ==
    [ends |-> {a, ref.field},
     to |-> CASE ref.direction = "from" -> {a}
              [] ref.direction = "to" -> {ref.field}
              [] OTHER -> {a, ref.field}]

\* ... the graph of all, and all connections at last: one that has no row gets no
\* connector.
LoadConnections ==
    /\ run.pc = "graphs"
    /\ DOMAIN run.graph = DOMAIN run.left
    /\ run' = IF \/ DatasetGraphRaises(run.graph)
                 \/ \E c \in DOMAIN run.conns : rows[c] = Absent
              THEN [run EXCEPT !.pc = "failed"]
              ELSE [run EXCEPT !.pc = "done",
                       !.edges = {CreateEdge(r[1], r[2]) : r \in ReferencesOf(run.graph)}]
    /\ UNCHANGED <<rows, datasets, hooked, sess, calls>>

-----------------------------------------------------------------------------
Serve(t) ==
    \/ PatchConnections(t) \/ ConnectionRefused(t)
    \/ \E c \in Keys, type \in {"saas", "sql"} : ConnectionItem(t, c, type)
    \/ \E c \in Keys, config \in Configs : PatchSaasConfig(t, c, config)
    \/ \E c \in Keys : DeleteSaasConfig(t, c) \/ PatchDatasets(t, c) \/ DeleteConnection(t, c)
    \/ \E doc \in Docs : DatasetItem(t, doc)
    \/ DatasetsRaise(t)
    \/ \E c \in Keys, k \in FidesKeys : DeleteDataset(t, c, k)
    \/ \E k \in FidesKeys : DeleteItsDataset(t, k)
    \/ DeletionRaises(t) \/ DeleteRow(t)

ServeLoop ==
    \/ \E c \in Keys, secrets \in Secrets, verify \in BOOLEAN : PutSecrets(c, secrets, verify)
    \/ \E c \in Keys : TestSecrets(c)
    \/ \E outcome \in {"succeeded", "failed", "none"} : ConnectionStatus(outcome)

Next ==
    \/ \E t \in Threads : Serve(t)
    \/ ServeLoop
    \/ \E t \in Threads \union {Loop} : Commit(t) \/ CommitFails(t)
    \/ LoadDatasets
    \/ \E k \in FidesKeys : BuildGraph(k)
    \/ LoadConnections

Spec == Init /\ [][Next]_vars

-----------------------------------------------------------------------------
\* Properties

\* The checks of patch_datasets, delete_saas_config and of the secrets keep a
\* connection together in every order of calls. What takes it apart is a new
\* SaaS config or type over what the connection has, secrets checked against the
\* SaaS config that is left on a connection of another type, or a check that has
\* seen another row than its commit meets, or other datasets.
MismatchHasCause ==
    [][\A c \in Keys : Mismatched(c)' /\ ~Mismatched(c) =>
          \E t \in Threads \union {Loop} :
             /\ Commit(t)
             /\ sess[t].conn = c
             /\ \/ sess[t].kind = "connections" /\ sess[t].op.base.type # sess[t].op.row.type
                \/ sess[t].kind = "config" /\ sess[t].op.row.config # Absent
                \/ sess[t].kind \in {"verify", "secrets"} /\ rows[c].type # "saas"
                                    /\ rows[c].config # Absent
                \/ sess[t].seen # rows[c]
                \/ sess[t].kind = "config" /\ sess[t].saw # DatasetsOf(c)]_vars

\* In the graphs that a run uses, a field has the categories of its dataset and,
\* where the SaaS config has a param for it, the references of that param and its
\* identity, if any; a field without a param keeps its own identity and references,
\* and nothing else is in them (to_graph_field, merge_datasets, get_graph). The two
\* parts are the versions that the run has loaded, maybe at two instants. A run goes
\* on only when every param that takes values from another collection has an edge
\* along which they come (DatasetGraph).
GraphHasBothParts ==
    \A k \in DOMAIN run.graph :
        LET doc == run.left[k].doc
            row == run.conns[run.left[k].conn]
            own == UNION {{<<k, y, f>> : f \in DOMAIN doc.collections[y].fields} :
                          y \in DOMAIN doc.collections}
            asked == IF ~Merges(row, doc) THEN {}
                     ELSE UNION {{<<k, y, p>> : p \in FieldParams(row.config.endpoints[y])} :
                                 y \in DOMAIN row.config.endpoints}
            declared(a) == doc.collections[a[2]].fields[a[3]]
            meta(a) == IF declared(a).meta # Absent THEN declared(a).meta
                       ELSE [identity |-> Absent, references |-> {}]
            param(a) == row.config.endpoints[a[2]].params[a[3]]
            made(a) == FieldAt(run.graph, a)
        IN /\ {a \in Addresses(run.graph) : a[1] = k} = own \union asked
           /\ \A a \in own : made(a).categories = declared(a).categories
           /\ \A a \in asked :
                 /\ made(a).references = param(a).references
                 /\ param(a).identity # Absent => made(a).identity = param(a).identity
                 /\ run.pc = "done" =>
                       \A ref \in param(a).references :
                           /\ ref.field[2] \in DOMAIN run.graph[ref.field[1]].collections
                           /\ ref.direction # "to" =>
                                 \E e \in run.edges : e.ends = {a, ref.field} /\ a \in e.to
           /\ \A a \in own \ asked : made(a).references = meta(a).references
           /\ \A a \in own : a \notin asked \/ param(a).identity = Absent =>
                 made(a).identity = meta(a).identity
===============================================================================
