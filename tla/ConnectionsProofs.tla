--------------------------- MODULE ConnectionsProofs --------------------------
(***************************************************************************)
(* Proofs about Connections, for any number of threads, calls and items    *)
(* and any SaaS configs and datasets that clients send.                    *)
(***************************************************************************)
EXTENDS Connections, TLAPS

Servers == Threads \union {Loop}

Ops ==
    {NoOp} \union [do : {"create"}, row : Row]
           \union [do : {"write"}, base : Row, row : Row]
           \union [do : {"insert", "update"}, doc : Docs, gone : BOOLEAN]

OwnsConnection == {"config", "verify", "secrets", "test", "datasets", "delete"}

Session ==
    [kind : OwnsConnection \union {"idle", "connections"},
     conn : Keys \union {Absent}, seen : Row \union {Absent}, saw : SUBSET FidesKeys,
     gone : BOOLEAN, left : Nat, committing : BOOLEAN, op : Ops,
     todo : SUBSET FidesKeys, lost : BOOLEAN]

\* A write changes one column of the row that was seen, by the kind of the call.
ColumnOf(s) ==
    \/ s.kind = "connections" /\ s.op.row = [s.seen EXCEPT !.type = s.op.row.type]
    \/ /\ s.kind = "config" /\ s.op.row = [s.seen EXCEPT !.config = s.op.row.config]
       /\ s.op.row.config = Absent =>
             s.seen.type = "saas" /\ s.seen.secrets = Absent /\ s.seen.config.key \notin s.saw
    \/ /\ s.kind \in {"verify", "secrets"} /\ s.op.row = [s.seen EXCEPT !.secrets = Schema(s.seen)]
       /\ ~(s.seen.type = "saas" /\ s.seen.config = Absent)
    \/ s.kind = "test" /\ s.op.row = [s.seen EXCEPT !.tested = s.op.row.tested]

\* What a session is about to commit has passed the checks on what it had seen.
OpOK(s) ==
    /\ s.committing = (s.op.do # "none")
    /\ s.committing \/ s.kind \in OwnsConnection => s.conn \in Keys
    /\ s.op.do \in {"write", "insert", "update"} \/ s.kind = "test" => s.seen \in Row
    /\ s.op.do = "write" => s.op.base = s.seen /\ ColumnOf(s)
    /\ s.op.do = "create" => s.kind = "connections" /\ s.op.row = NewRow(s.op.row.type)
    /\ s.op.do \in {"insert", "update"} =>
          s.kind = "datasets" /\ (s.seen.type = "saas" => ValidateSaasDataset(s.seen, s.op.doc))

\* The session is told of the rows that are deleted under it: unless it is, its
\* connection exists, and so does the dataset that it updates.
TiesOK(s, R, D) ==
    /\ s.conn \in Keys /\ ~s.gone /\ s.op.do # "create" => R[s.conn] # Absent
    /\ s.op.do = "update" /\ ~s.op.gone =>
          D[s.op.doc.key] # Absent /\ D[s.op.doc.key].conn = s.conn

\* A session over connections R and datasets D.
SessOK(s, R, D) == s \in Session /\ OpOK(s) /\ TiesOK(s, R, D)

Tables ==
    /\ rows \in [Keys -> Row \union {Absent}]
    /\ datasets \in [FidesKeys -> DatasetRow \union {Absent}]
    /\ \A k \in FidesKeys : datasets[k] # Absent => rows[datasets[k].conn] # Absent

ConnInv ==
    /\ Tables
    /\ sess \in [Servers -> Session]
    /\ \A t \in Servers : SessOK(sess[t], rows, datasets)

\* The graphs of a run are made of what it has loaded, and a run that is done has
\* passed the check of references.
RunInv ==
    /\ DOMAIN run = {"pc", "left", "conns", "graph", "edges", "gone"}
    /\ run.pc = "begin" => DOMAIN run.graph = {}
    /\ \A k \in DOMAIN run.graph :
          /\ run.left[k].conn \in DOMAIN run.conns
          /\ run.graph[k] = GetGraph(run.left[k].doc, run.conns[run.left[k].conn])
    /\ run.pc = "done" =>
          /\ ~DatasetGraphRaises(run.graph)
          /\ run.edges = {CreateEdge(r[1], r[2]) : r \in ReferencesOf(run.graph)}

-----------------------------------------------------------------------------
\* Graphs

\* The dataset declares the field, or the SaaS config merged into it asks for it.
Owns(doc, y, f) == y \in DOMAIN doc.collections /\ f \in DOMAIN doc.collections[y].fields

Asks(row, doc, y, f) ==
    /\ Merges(row, doc)
    /\ y \in DOMAIN row.config.endpoints /\ f \in FieldParams(row.config.endpoints[y])

HasField(g, y, f) == y \in DOMAIN g.collections /\ f \in DOMAIN g.collections[y].fields

\* convert_dataset_to_graph keeps collections, fields, categories and references.
LEMMA ConvertedFields ==
    ASSUME NEW doc, NEW y, NEW f
    PROVE  LET g == ConvertDataset(doc) IN
           /\ y \in DOMAIN g.collections <=> y \in DOMAIN doc.collections
           /\ HasField(g, y, f) <=> Owns(doc, y, f)
           /\ Owns(doc, y, f) =>
                 g.collections[y].fields[f] = GraphField(doc.collections[y].fields[f])
BY DEF ConvertDataset, HasField, Owns

\* get_graph of a SaaS config has the params of its endpoints that become fields.
LEMMA ConfigFields ==
    ASSUME NEW config, NEW y, NEW f
    PROVE  LET g == ConfigGraph(config)
               asks == y \in DOMAIN config.endpoints /\ f \in FieldParams(config.endpoints[y])
           IN /\ HasField(g, y, f) <=> asks
              /\ asks => /\ g.collections[y].fields[f].references =
                               config.endpoints[y].params[f].references
                         /\ g.collections[y].fields[f].identity =
                               config.endpoints[y].params[f].identity
<1> DEFINE used == {x \in DOMAIN config.endpoints : FieldParams(config.endpoints[x]) # {}}
           fields(x) == [p \in FieldParams(config.endpoints[x]) |->
             [categories |-> {}, identity |-> config.endpoints[x].params[p].identity,
              references |-> config.endpoints[x].params[p].references]]
           g == ConfigGraph(config)
<1>1. g.collections = [x \in used |->
        [after |-> config.endpoints[x].after, grouped |-> config.endpoints[x].grouped,
         fields |-> fields(x)]]
  BY DEF ConfigGraph
<1>2. DOMAIN g.collections = used
  BY <1>1
<1>3. \A x \in used : g.collections[x].fields = fields(x)
  <2> HIDE DEF used, fields, g
  <2> QED
    BY <1>1
<1>4. \A x : DOMAIN fields(x) = FieldParams(config.endpoints[x])
  OBVIOUS
<1>5. f \in FieldParams(config.endpoints[y]) =>
         /\ fields(y)[f].references = config.endpoints[y].params[f].references
         /\ fields(y)[f].identity = config.endpoints[y].params[f].identity
  OBVIOUS
<1>6. y \in used <=> y \in DOMAIN config.endpoints /\ FieldParams(config.endpoints[y]) # {}
  OBVIOUS
<1> HIDE DEF fields, used, g
<1>7. HasField(g, y, f) <=> y \in DOMAIN config.endpoints /\ f \in FieldParams(config.endpoints[y])
  BY <1>2, <1>3, <1>4, <1>6 DEF HasField
<1> QED
  BY <1>3, <1>5, <1>6, <1>7 DEF g

\* merge_datasets has the fields of both graphs, and merges those that both have.
LEMMA MergedFields ==
    ASSUME NEW a, NEW b, NEW y, NEW f
    PROVE  LET g == MergeDatasets(a, b) IN
           /\ HasField(g, y, f) <=> HasField(a, y, f) \/ HasField(b, y, f)
           /\ HasField(a, y, f) /\ HasField(b, y, f) =>
                 g.collections[y].fields[f] =
                    MergeFields(a.collections[y].fields[f], b.collections[y].fields[f])
           /\ HasField(a, y, f) /\ ~HasField(b, y, f) =>
                 g.collections[y].fields[f] = a.collections[y].fields[f]
           /\ ~HasField(a, y, f) /\ HasField(b, y, f) =>
                 g.collections[y].fields[f] = b.collections[y].fields[f]
<1> DEFINE fields(h) == IF y \in DOMAIN h.collections THEN h.collections[y].fields ELSE << >>
           g == MergeDatasets(a, b)
<1>1. DOMAIN g.collections = DOMAIN a.collections \union DOMAIN b.collections
  BY DEF MergeDatasets
<1>2. y \in DOMAIN g.collections =>
         g.collections[y].fields = ExtractFields(fields(a), fields(b))
  BY DEF MergeDatasets
<1>3. DOMAIN << >> = {}
  OBVIOUS
<1>4. /\ f \in DOMAIN fields(a) <=> HasField(a, y, f)
      /\ f \in DOMAIN fields(b) <=> HasField(b, y, f)
  BY <1>3 DEF HasField
<1>5. /\ HasField(a, y, f) => fields(a)[f] = a.collections[y].fields[f]
      /\ HasField(b, y, f) => fields(b)[f] = b.collections[y].fields[f]
  BY DEF HasField
<1>6. \A u, v : DOMAIN ExtractFields(u, v) = DOMAIN u \union DOMAIN v
  BY DEF ExtractFields
<1>7. \A u, v : f \in DOMAIN u \union DOMAIN v => ExtractFields(u, v)[f] =
         IF f \in DOMAIN u \cap DOMAIN v THEN MergeFields(u[f], v[f])
         ELSE IF f \in DOMAIN u THEN u[f] ELSE v[f]
  BY DEF ExtractFields
<1> HIDE DEF fields, g
<1>8. HasField(g, y, f) <=> HasField(a, y, f) \/ HasField(b, y, f)
  <2>1. y \in DOMAIN g.collections =>
           (f \in DOMAIN g.collections[y].fields <=> f \in DOMAIN fields(a) \union DOMAIN fields(b))
    BY <1>2, <1>6
  <2>2. HasField(a, y, f) \/ HasField(b, y, f) => y \in DOMAIN g.collections
    BY <1>1 DEF HasField
  <2> QED
    BY <1>4, <2>1, <2>2 DEF HasField
<1>9. HasField(a, y, f) \/ HasField(b, y, f) => g.collections[y].fields[f] =
         IF HasField(a, y, f) /\ HasField(b, y, f)
         THEN MergeFields(a.collections[y].fields[f], b.collections[y].fields[f])
         ELSE IF HasField(a, y, f) THEN a.collections[y].fields[f] ELSE b.collections[y].fields[f]
  <2>1. HasField(a, y, f) \/ HasField(b, y, f) =>
           g.collections[y].fields[f] = ExtractFields(fields(a), fields(b))[f]
    BY <1>1, <1>2 DEF HasField
  <2> QED
    BY <1>4, <1>5, <1>7, <2>1
<1> QED
  BY <1>8, <1>9 DEF g

\* What a field of a dataset says of itself.
MetaOf(declared) ==
    IF declared.meta # Absent THEN declared.meta ELSE [identity |-> Absent, references |-> {}]

\* What a graph g has at a field, when it is made of doc and row.
FieldIsMade(g, doc, row, y, f) ==
    LET made == g.collections[y].fields[f]
        declared == doc.collections[y].fields[f]
        param == row.config.endpoints[y].params[f]
    IN /\ HasField(g, y, f) <=> Owns(doc, y, f) \/ Asks(row, doc, y, f)
       /\ Owns(doc, y, f) => made.categories = declared.categories
       /\ Asks(row, doc, y, f) =>
             /\ made.references = param.references
             /\ param.identity # Absent => made.identity = param.identity
       /\ Owns(doc, y, f) /\ ~Asks(row, doc, y, f) => made.references = MetaOf(declared).references
       /\ Owns(doc, y, f) /\ (~Asks(row, doc, y, f) \/ param.identity = Absent) =>
             made.identity = MetaOf(declared).identity

\* What get_graph of a dataset makes of a field.
LEMMA GraphFields ==
    ASSUME NEW doc, NEW row, NEW y, NEW f
    PROVE  FieldIsMade(GetGraph(doc, row), doc, row, y, f)
<1> DEFINE a == ConvertDataset(doc)
           b == ConfigGraph(row.config)
           declared == doc.collections[y].fields[f]
           param == row.config.endpoints[y].params[f]
           field == GraphField(declared)
<1>1. /\ field.categories = declared.categories
      /\ field.references = MetaOf(declared).references
      /\ field.identity = MetaOf(declared).identity
  BY DEF GraphField, MetaOf
<1>2. ASSUME NEW source
      PROVE  LET m == MergeFields(field, source) IN
             /\ m.categories = declared.categories /\ m.references = source.references
             /\ source.identity # Absent => m.identity = source.identity
             /\ source.identity = Absent => m.identity = MetaOf(declared).identity
  BY DEF MergeFields, GraphField, MetaOf
<1>3. /\ HasField(a, y, f) <=> Owns(doc, y, f)
      /\ Owns(doc, y, f) => a.collections[y].fields[f] = field
  BY ConvertedFields
<1>4. CASE ~Merges(row, doc)
  BY <1>1, <1>3, <1>4 DEF GetGraph, Asks, FieldIsMade
<1>5. CASE Merges(row, doc)
  <2>1. /\ HasField(b, y, f) <=> Asks(row, doc, y, f)
        /\ Asks(row, doc, y, f) => /\ b.collections[y].fields[f].references = param.references
                                   /\ b.collections[y].fields[f].identity = param.identity
    BY <1>5, ConfigFields DEF Asks
  <2>2. GetGraph(doc, row) = MergeDatasets(a, b)
    BY <1>5 DEF GetGraph
  <2> HIDE DEF a, b, field, declared, param
  <2> DEFINE g == MergeDatasets(a, b)
  <2>3. HasField(g, y, f) <=> Owns(doc, y, f) \/ Asks(row, doc, y, f)
    BY <1>3, <2>1, MergedFields
  <2>4. CASE Owns(doc, y, f) /\ Asks(row, doc, y, f)
    <3> DEFINE source == b.collections[y].fields[f]
               m == MergeFields(field, source)
    <3>1. g.collections[y].fields[f] = m
      BY <1>3, <2>1, <2>4, MergedFields
    <3>2. /\ m.categories = declared.categories /\ m.references = source.references
          /\ source.identity # Absent => m.identity = source.identity
          /\ source.identity = Absent => m.identity = MetaOf(declared).identity
      BY <1>2
    <3>3. source.references = param.references /\ source.identity = param.identity
      BY <2>1, <2>4
    <3> HIDE DEF source, m, g
    <3> QED
      BY <2>2, <2>3, <2>4, <3>1, <3>2, <3>3 DEF FieldIsMade, declared, param, g
  <2>5. CASE Owns(doc, y, f) /\ ~Asks(row, doc, y, f)
    <3>1. g.collections[y].fields[f] = field
      BY <1>3, <2>1, <2>5, MergedFields
    <3> QED
      BY <1>1, <2>2, <2>3, <2>5, <3>1 DEF FieldIsMade, declared, param
  <2>6. CASE ~Owns(doc, y, f)
    <3>1. Asks(row, doc, y, f) => g.collections[y].fields[f] = b.collections[y].fields[f]
      BY <1>3, <2>1, <2>6, MergedFields
    <3> QED
      BY <2>1, <2>2, <2>3, <2>6, <3>1 DEF FieldIsMade, declared, param
  <2> QED
    BY <2>4, <2>5, <2>6
<1> QED
  BY <1>4, <1>5

\* An address of the graphs is that of a field of one of them.
LEMMA AddressOfField ==
    ASSUME NEW graph, NEW a
    PROVE  a \in Addresses(graph) <=>
              \E k \in DOMAIN graph : \E y, f : a = <<k, y, f>> /\ HasField(graph[k], y, f)
BY DEF Addresses, HasField

\* A run that goes on has an edge for each reference, to a collection that exists.
LEMMA ReferencesHaveEdges ==
    ASSUME RunInv, run.pc = "done", NEW a \in Addresses(run.graph),
           NEW ref \in FieldAt(run.graph, a).references
    PROVE  /\ ref.field[2] \in DOMAIN run.graph[ref.field[1]].collections
           /\ ref.direction # "to" =>
                 \E e \in run.edges : e.ends = {a, ref.field} /\ a \in e.to
<1> DEFINE r == <<a, ref>>
           e == CreateEdge(a, ref)
<1>1. r \in ReferencesOf(run.graph) /\ r[1] = a /\ r[2] = ref
  BY DEF ReferencesOf
<1> HIDE DEF r
<1>2. ref.field[2] \in DOMAIN run.graph[ref.field[1]].collections
  BY <1>1 DEF RunInv, DatasetGraphRaises
<1>3. e \in run.edges
  BY <1>1 DEF RunInv
<1>4. e.ends = {a, ref.field} /\ (ref.direction # "to" => a \in e.to)
  BY DEF CreateEdge
<1> HIDE DEF e
<1> QED
  BY <1>2, <1>3, <1>4

\* What the graphs are made of is what the property asks for.
LEMMA RunInvSuffices == RunInv => GraphHasBothParts
<1> SUFFICES ASSUME RunInv PROVE GraphHasBothParts
  OBVIOUS
<1> SUFFICES ASSUME NEW k \in DOMAIN run.graph
             PROVE  LET doc == run.left[k].doc
                        row == run.conns[run.left[k].conn]
                        own == UNION {{<<k, y, f>> : f \in DOMAIN doc.collections[y].fields} :
                                      y \in DOMAIN doc.collections}
                        asked == IF ~Merges(row, doc) THEN {}
                                 ELSE UNION {{<<k, y, p>> : p \in FieldParams(row.config.endpoints[y])} :
                                             y \in DOMAIN row.config.endpoints}
                        declared(a) == doc.collections[a[2]].fields[a[3]]
                        meta(a) == IF declared(a).meta # Absent THEN declared(a).meta
                                   ELSE [identity |-> Absent, references |-> {}]
                        param(a) == row.config.endpoints[a[2]].params[a[3]]
                        made(a) == FieldAt(run.graph, a)
                    IN /\ {a \in Addresses(run.graph) : a[1] = k} = own \union asked
                       /\ \A a \in own : made(a).categories = declared(a).categories
                       /\ \A a \in asked :
                             /\ made(a).references = param(a).references
                             /\ param(a).identity # Absent => made(a).identity = param(a).identity
                             /\ run.pc = "done" =>
                                   \A ref \in param(a).references :
                                       /\ ref.field[2] \in DOMAIN run.graph[ref.field[1]].collections
                                       /\ ref.direction # "to" =>
                                             \E e \in run.edges : e.ends = {a, ref.field} /\ a \in e.to
                       /\ \A a \in own \ asked : made(a).references = meta(a).references
                       /\ \A a \in own : a \notin asked \/ param(a).identity = Absent =>
                             made(a).identity = meta(a).identity
  BY DEF GraphHasBothParts
<1> DEFINE doc == run.left[k].doc
           row == run.conns[run.left[k].conn]
           own == UNION {{<<k, y, f>> : f \in DOMAIN doc.collections[y].fields} :
                         y \in DOMAIN doc.collections}
           asked == IF ~Merges(row, doc) THEN {}
                    ELSE UNION {{<<k, y, p>> : p \in FieldParams(row.config.endpoints[y])} :
                                y \in DOMAIN row.config.endpoints}
           declared(a) == doc.collections[a[2]].fields[a[3]]
           param(a) == row.config.endpoints[a[2]].params[a[3]]
           made(a) == FieldAt(run.graph, a)
<1>1. run.graph[k] = GetGraph(doc, row)
  BY DEF RunInv
<1>2. ASSUME NEW a PROVE a \in own <=> \E y, f : a = <<k, y, f>> /\ Owns(doc, y, f)
  BY DEF Owns
<1>3. ASSUME NEW a PROVE a \in asked <=> \E y, f : a = <<k, y, f>> /\ Asks(row, doc, y, f)
  <2> DEFINE ends == row.config.endpoints
             all == UNION {{<<k, y, p>> : p \in FieldParams(ends[y])} : y \in DOMAIN ends}
  <2>1. asked = IF ~Merges(row, doc) THEN {} ELSE all
    OBVIOUS
  <2> HIDE DEF row, doc, asked
  <2>2. a \in all <=> \E y, f : a = <<k, y, f>> /\ y \in DOMAIN ends /\ f \in FieldParams(ends[y])
    OBVIOUS
  <2> HIDE DEF all
  <2> QED
    BY <2>1, <2>2 DEF Asks
<1>4. ASSUME NEW a
      PROVE  a \in Addresses(run.graph) /\ a[1] = k <=>
                \E y, f : a = <<k, y, f>> /\ HasField(run.graph[k], y, f)
  BY AddressOfField
<1> HIDE DEF doc, row, own, asked
<1>5. ASSUME NEW a PROVE a \in Addresses(run.graph) /\ a[1] = k <=> a \in own \union asked
  <2>1. \A y, f : FieldIsMade(run.graph[k], doc, row, y, f)
    BY <1>1, GraphFields
  <2>2. \A y, f : HasField(run.graph[k], y, f) <=> Owns(doc, y, f) \/ Asks(row, doc, y, f)
    BY <2>1 DEF FieldIsMade
  <2> QED
    BY <1>2, <1>3, <1>4, <2>2
<1>6. ASSUME NEW a, NEW y, NEW f, a = <<k, y, f>>
      PROVE  /\ FieldIsMade(run.graph[k], doc, row, y, f)
             /\ made(a) = run.graph[k].collections[y].fields[f]
             /\ declared(a) = doc.collections[y].fields[f]
             /\ param(a) = row.config.endpoints[y].params[f]
  <2>1. a[1] = k /\ a[2] = y /\ a[3] = f
    BY <1>6
  <2> QED
    BY <1>1, <2>1, GraphFields DEF FieldAt
<1> HIDE DEF made, declared, param
<1>7. ASSUME NEW a \in asked
      PROVE  /\ made(a).references = param(a).references
             /\ param(a).identity # Absent => made(a).identity = param(a).identity
  <2>1. PICK y, f : a = <<k, y, f>> /\ Asks(row, doc, y, f)
    BY <1>3
  <2>2. /\ FieldIsMade(run.graph[k], doc, row, y, f)
        /\ made(a) = run.graph[k].collections[y].fields[f]
        /\ param(a) = row.config.endpoints[y].params[f]
    BY <1>6, <2>1
  <2> QED
    BY <2>1, <2>2 DEF FieldIsMade
<1>8. ASSUME NEW a \in own
      PROVE  /\ made(a).categories = declared(a).categories
             /\ a \notin asked => made(a).references = MetaOf(declared(a)).references
             /\ a \notin asked \/ param(a).identity = Absent =>
                   made(a).identity = MetaOf(declared(a)).identity
  <2>1. PICK y, f : a = <<k, y, f>> /\ Owns(doc, y, f)
    BY <1>2
  <2>2. a \notin asked => ~Asks(row, doc, y, f)
    BY <1>3, <2>1
  <2>3. /\ FieldIsMade(run.graph[k], doc, row, y, f)
        /\ made(a) = run.graph[k].collections[y].fields[f]
        /\ declared(a) = doc.collections[y].fields[f]
        /\ param(a) = row.config.endpoints[y].params[f]
    BY <1>6, <2>1
  <2> QED
    BY <2>1, <2>2, <2>3 DEF FieldIsMade
<1>9. ASSUME NEW a \in asked, run.pc = "done", NEW ref \in param(a).references
      PROVE  /\ ref.field[2] \in DOMAIN run.graph[ref.field[1]].collections
             /\ ref.direction # "to" =>
                   \E e \in run.edges : e.ends = {a, ref.field} /\ a \in e.to
  <2>1. a \in Addresses(run.graph)
    BY <1>5
  <2>2. ref \in FieldAt(run.graph, a).references
    BY <1>7, <1>9 DEF made
  <2> QED
    BY <1>9, <2>1, <2>2, ReferencesHaveEdges
<1>10. {a \in Addresses(run.graph) : a[1] = k} = own \union asked
  BY <1>5
<1> QED
  BY <1>7, <1>8, <1>9, <1>10 DEF doc, row, own, asked, made, declared, param, MetaOf

\* Each step of a run keeps what its graphs are made of.
LEMMA RunSteps ==
    ASSUME RunInv,
           \/ LoadDatasets \/ LoadConnections
           \/ \E k \in FidesKeys : BuildGraph(k)
    PROVE  RunInv'
<1>1. CASE LoadDatasets
  <2>1. /\ DOMAIN run' = DOMAIN run /\ run'.pc = "graphs"
        /\ run'.graph = run.graph /\ run'.conns = run.conns /\ DOMAIN run.graph = {}
    BY <1>1 DEF LoadDatasets, RunInv
  <2> QED
    BY <2>1 DEF RunInv
<1>2. CASE LoadConnections
  <2>1. /\ DOMAIN run' = DOMAIN run /\ run'.pc \in {"failed", "done"}
        /\ run'.graph = run.graph /\ run'.conns = run.conns /\ run'.left = run.left
        /\ run'.pc = "done" =>
              /\ ~DatasetGraphRaises(run.graph)
              /\ run'.edges = {CreateEdge(r[1], r[2]) : r \in ReferencesOf(run.graph)}
    BY <1>2 DEF LoadConnections, RunInv
  <2> QED
    BY <2>1 DEF RunInv
<1>3. ASSUME NEW k \in FidesKeys, BuildGraph(k) PROVE RunInv'
  <2> DEFINE c == run.left[k].conn
             row == IF c \in DOMAIN run.conns THEN run.conns[c] ELSE rows[c]
             raises == \/ c \notin DOMAIN run.conns /\ c \in run.gone
                       \/ GetGraphRaises(run.left[k].doc, row)
             graph == GetGraph(run.left[k].doc, row)
  <2>1. run' = IF raises THEN [run EXCEPT !.pc = "failed"]
               ELSE [run EXCEPT
                        !.conns = [d \in DOMAIN @ \union {c} |-> IF d = c THEN row ELSE @[d]],
                        !.graph = [j \in DOMAIN @ \union {k} |-> IF j = k THEN graph ELSE @[j]]]
    BY <1>3 DEF BuildGraph
  <2>2. run.pc = "graphs" /\ DOMAIN run = {"pc", "left", "conns", "graph", "edges", "gone"}
    BY <1>3 DEF BuildGraph, RunInv
  <2>3. c \in DOMAIN run.conns => row = run.conns[c]
    OBVIOUS
  <2> HIDE DEF raises, row, graph, c
  <2>4. CASE raises
    <3>1. /\ DOMAIN run' = DOMAIN run /\ run'.pc = "failed"
          /\ run'.graph = run.graph /\ run'.conns = run.conns /\ run'.left = run.left
      BY <2>1, <2>2, <2>4
    <3> QED
      BY <3>1 DEF RunInv
  <2>5. CASE ~raises
    <3>1. /\ DOMAIN run' = DOMAIN run /\ run'.pc = "graphs" /\ run'.left = run.left
          /\ run'.conns = [d \in DOMAIN run.conns \union {c} |-> IF d = c THEN row ELSE run.conns[d]]
          /\ run'.graph = [j \in DOMAIN run.graph \union {k} |->
                              IF j = k THEN graph ELSE run.graph[j]]
      BY <2>1, <2>2, <2>5
    <3>2. /\ run'.conns[c] = row /\ c \in DOMAIN run'.conns
          /\ \A d \in DOMAIN run.conns : d \in DOMAIN run'.conns /\ run'.conns[d] = run.conns[d]
      <4> DEFINE old == run.conns
                 new == run'.conns
      <4>1. new = [d \in DOMAIN old \union {c} |-> IF d = c THEN row ELSE old[d]]
        BY <3>1
      <4>2. c \in DOMAIN old => row = old[c]
        BY <2>3
      <4> HIDE DEF old, new
      <4>3. new[c] = row /\ c \in DOMAIN new /\ \A d \in DOMAIN old : d \in DOMAIN new /\ new[d] = old[d]
        BY <4>1, <4>2
      <4> QED
        BY <4>3 DEF old, new
    <3>3. /\ DOMAIN run'.graph = DOMAIN run.graph \union {k}
          /\ run'.graph[k] = graph
          /\ \A j \in DOMAIN run.graph \ {k} : run'.graph[j] = run.graph[j]
      <4> DEFINE old == run.graph
                 new == run'.graph
      <4>1. new = [j \in DOMAIN old \union {k} |-> IF j = k THEN graph ELSE old[j]]
        BY <3>1
      <4> HIDE DEF old, new
      <4>2. DOMAIN new = DOMAIN old \union {k} /\ new[k] = graph /\ \A j \in DOMAIN old \ {k} : new[j] = old[j]
        BY <4>1
      <4> QED
        BY <4>2 DEF old, new
    <3>4. ASSUME NEW j \in DOMAIN run'.graph
          PROVE  /\ run.left[j].conn \in DOMAIN run'.conns
                 /\ run'.graph[j] = GetGraph(run.left[j].doc, run'.conns[run.left[j].conn])
      <4>1. CASE j = k
        BY <3>2, <3>3, <4>1 DEF graph, c
      <4>2. CASE j # k
        BY <3>2, <3>3, <4>2 DEF RunInv
      <4> QED
        BY <4>1, <4>2
    <3> QED
      BY <3>1, <3>4 DEF RunInv
  <2> QED
    BY <2>4, <2>5
<1> QED
  BY <1>1, <1>2, <1>3

\* The API changes nothing of a run but the connections that it is told are gone.
LEMMA RunKept ==
    ASSUME RunInv, UNCHANGED run \/ \E c : run' = [run EXCEPT !.gone = @ \union {c}]
    PROVE  RunInv'
<1>1. /\ DOMAIN run' = DOMAIN run /\ run'.pc = run.pc /\ run'.graph = run.graph
      /\ run'.conns = run.conns /\ run'.left = run.left /\ run'.edges = run.edges
  BY DEF RunInv
<1> QED
  BY <1>1 DEF RunInv

\* What the API does is in one of these.
LEMMA ServeKeepsRun ==
    ASSUME \/ \E t \in Threads : Serve(t)
           \/ ServeLoop
           \/ \E t \in Servers : Commit(t) \/ CommitFails(t)
    PROVE  UNCHANGED run \/ \E c : run' = [run EXCEPT !.gone = @ \union {c}]
<1>1. ASSUME NEW t, NEW s, Begin(t, s) \/ Continue(t, s) PROVE UNCHANGED run
  BY <1>1 DEF Begin, Continue
<1>2. ASSUME NEW t \in Threads, Serve(t)
      PROVE  UNCHANGED run \/ \E c : run' = [run EXCEPT !.gone = @ \union {c}]
  <2>1. CASE DeleteRow(t)
    BY <2>1 DEF DeleteRow, Continue
  <2>2. CASE \E k \in FidesKeys : DeleteItsDataset(t, k) \/ \E c \in Keys : DeleteDataset(t, c, k)
    BY <2>2 DEF DeleteItsDataset, DeleteDataset
  <2>3. CASE PatchConnections(t) \/ ConnectionRefused(t) \/ DatasetsRaise(t) \/ DeletionRaises(t)
    BY <1>1, <2>3 DEF PatchConnections, ConnectionRefused, DatasetsRaise, DeletionRaises
  <2>4. CASE \E c \in Keys, type \in {"saas", "sql"} : ConnectionItem(t, c, type)
    BY <1>1, <2>4 DEF ConnectionItem
  <2>5. CASE \E c \in Keys, config \in Configs : PatchSaasConfig(t, c, config)
    BY <1>1, <2>5 DEF PatchSaasConfig
  <2>6. CASE \E c \in Keys : DeleteSaasConfig(t, c) \/ PatchDatasets(t, c) \/ DeleteConnection(t, c)
    BY <1>1, <2>6 DEF DeleteSaasConfig, PatchDatasets, DeleteConnection
  <2>7. CASE \E doc \in Docs : DatasetItem(t, doc)
    BY <1>1, <2>7 DEF DatasetItem
  <2> QED
    BY <1>2, <2>1, <2>2, <2>3, <2>4, <2>5, <2>6, <2>7 DEF Serve
<1>3. ASSUME ServeLoop PROVE UNCHANGED run
  BY <1>1, <1>3 DEF ServeLoop, PutSecrets, TestSecrets, ConnectionStatus
<1>4. ASSUME NEW t \in Servers, Commit(t) \/ CommitFails(t) PROVE UNCHANGED run
  BY <1>1, <1>4 DEF Commit, CommitFails
<1> QED
  BY <1>2, <1>3, <1>4

\* In the graphs of a run, fields have the categories of their dataset and the
\* references and identities of the SaaS config merged into it, whatever the API
\* commits between the loads of the two; and a run is done only with an edge for
\* every reference along which its values come.
THEOREM GraphsAlwaysHaveBothParts == Spec => []GraphHasBothParts
<1>1. Init => RunInv
  <2> SUFFICES ASSUME Init PROVE RunInv
    OBVIOUS
  <2>1. DOMAIN << >> = {}
    OBVIOUS
  <2>2. run = NoRun
    BY DEF Init
  <2> QED
    BY <2>1, <2>2 DEF RunInv, NoRun
<1>2. RunInv /\ [Next]_vars => RunInv'
  <2> SUFFICES ASSUME RunInv, [Next]_vars PROVE RunInv'
    OBVIOUS
  <2>1. CASE UNCHANGED vars
    BY <2>1, RunKept DEF vars
  <2>2. CASE \/ LoadDatasets \/ LoadConnections
             \/ \E k \in FidesKeys : BuildGraph(k)
    BY <2>2, RunSteps
  <2>3. CASE \/ \E t \in Threads : Serve(t)
             \/ ServeLoop
             \/ \E t \in Servers : Commit(t) \/ CommitFails(t)
    BY <2>3, ServeKeepsRun, RunKept
  <2> QED
    BY <2>1, <2>2, <2>3 DEF Next, Servers
<1>3. RunInv => GraphHasBothParts
  BY RunInvSuffices
<1> QED
  BY <1>1, <1>2, <1>3, PTL DEF Spec

-----------------------------------------------------------------------------
\* Sessions

LEMMA IdleOK ==
    ASSUME NEW R, NEW D
    PROVE  SessOK(Idle, R, D)
<1>1. Idle \in Session
  BY DEF Idle, Session, Ops, NoOp, OwnsConnection
<1>2. OpOK(Idle)
  BY DEF Idle, OpOK, NoOp, OwnsConnection
<1>3. TiesOK(Idle, R, D)
  BY AbsentAssumption DEF Idle, TiesOK, NoOp
<1> QED
  BY <1>1, <1>2, <1>3 DEF SessOK

\* Going on to the next item leaves the session as it is, or closes it.
LEMMA NextItemOK ==
    ASSUME NEW R, NEW D, NEW s, SessOK(s, R, D)
    PROVE  SessOK(NextItem(s), R, D)
<1>1. CASE s.left <= 1
  BY <1>1, IdleOK DEF NextItem
<1>2. CASE ~(s.left <= 1)
  <2> DEFINE n == [s EXCEPT !.left = @ - 1]
  <2>1. s \in Session /\ s.left - 1 \in Nat
    BY <1>2 DEF SessOK, Session
  <2>2. /\ n \in Session
        /\ n.kind = s.kind /\ n.conn = s.conn /\ n.seen = s.seen /\ n.saw = s.saw
        /\ n.gone = s.gone /\ n.committing = s.committing /\ n.op = s.op
    BY <2>1 DEF Session
  <2>3. NextItem(s) = n
    BY <1>2 DEF NextItem
  <2> HIDE DEF n
  <2> QED
    BY <2>2, <2>3 DEF SessOK, OpOK, ColumnOf, TiesOK
<1> QED
  BY <1>1, <1>2

\* After a commit or a rollback of an item, nothing is to be committed, and the
\* connection is loaded again.
LEMMA ItemEndedOK ==
    ASSUME NEW R, NEW D, NEW s \in Session, s.kind \in OwnsConnection => s.conn \in Keys,
           s.kind # "test",
           s.conn \in Keys /\ ~s.gone => R[s.conn] # Absent
    PROVE  SessOK(NextItem([s EXCEPT !.committing = FALSE, !.op = NoOp, !.seen = Absent]), R, D)
<1> DEFINE n == [s EXCEPT !.committing = FALSE, !.op = NoOp, !.seen = Absent]
<1>1. NoOp \in Ops /\ NoOp.do = "none"
  BY DEF Ops, NoOp
<1>2. /\ n \in Session
      /\ n.kind = s.kind /\ n.conn = s.conn /\ n.op = NoOp /\ n.gone = s.gone
      /\ n.committing = FALSE
  BY <1>1 DEF Session
<1> HIDE DEF n
<1>3. SessOK(n, R, D)
  BY <1>1, <1>2 DEF SessOK, OpOK, TiesOK
<1> QED
  BY <1>3, NextItemOK DEF n

\* What a session rests on: its connection, and the dataset that it updates.
LEMMA SessionStays ==
    ASSUME NEW R, NEW D, NEW R1, NEW D1, NEW s, SessOK(s, R, D),
           s.conn \in Keys /\ ~s.gone /\ s.op.do # "create" /\ R[s.conn] # Absent =>
               R1[s.conn] # Absent,
           s.op.do = "update" /\ ~s.op.gone /\ D[s.op.doc.key] # Absent =>
               D1[s.op.doc.key] # Absent /\ D1[s.op.doc.key].conn = D[s.op.doc.key].conn
    PROVE  SessOK(s, R1, D1)
BY DEF SessOK, TiesOK

\* A step of which only thread t knows keeps the invariant.
LEMMA OwnStep ==
    ASSUME ConnInv, NEW t \in Servers, NEW s, SessOK(s, rows, datasets),
           sess' = [sess EXCEPT ![t] = s], UNCHANGED <<rows, datasets>>
    PROVE  ConnInv'
<1>1. sess' \in [Servers -> Session]
  BY DEF ConnInv, SessOK
<1>2. ASSUME NEW u \in Servers PROVE SessOK(sess'[u], rows, datasets)
  BY DEF ConnInv
<1>3. Tables'
  BY DEF ConnInv, Tables
<1> QED
  BY <1>1, <1>2, <1>3 DEF ConnInv

\* A session that is about to write one column of a connection that exists.
LEMMA WriteOK ==
    ASSUME ConnInv, NEW s \in Session, NEW c \in Keys, rows[c] # Absent, NEW row \in Row,
           \/ s.kind = "connections" /\ row = [rows[c] EXCEPT !.type = row.type]
           \/ /\ s.kind = "config" /\ row = [rows[c] EXCEPT !.config = row.config]
              /\ row.config = Absent =>
                    /\ rows[c].type = "saas" /\ rows[c].secrets = Absent
                    /\ rows[c].config.key \notin DatasetsOf(c)
           \/ /\ s.kind \in {"verify", "secrets"}
              /\ row = [rows[c] EXCEPT !.secrets = Schema(rows[c])]
              /\ ~(rows[c].type = "saas" /\ rows[c].config = Absent)
    PROVE  SessOK(Write(s, c, row), rows, datasets)
<1> DEFINE op == [do |-> "write", base |-> rows[c], row |-> row]
           n == Write(s, c, row)
<1>1. rows[c] \in Row
  BY DEF ConnInv, Tables
<1>2. op \in Ops /\ op.do = "write" /\ op.base = rows[c] /\ op.row = row
  BY <1>1 DEF Ops
<1> HIDE DEF op
<1>3. DatasetsOf(c) \in SUBSET FidesKeys
  BY DEF DatasetsOf
<1>4. n = [s EXCEPT !.conn = c, !.seen = rows[c], !.saw = DatasetsOf(c), !.gone = FALSE,
                    !.committing = TRUE, !.op = op]
  BY DEF Write, op
<1>5. /\ n \in Session
      /\ n.kind = s.kind /\ n.conn = c /\ n.seen = rows[c] /\ n.saw = DatasetsOf(c)
      /\ n.committing = TRUE /\ n.op = op
  BY <1>1, <1>2, <1>3, <1>4, ZenonT(60) DEF Session
<1> HIDE DEF n
<1>6. ColumnOf(n)
  BY <1>2, <1>5 DEF ColumnOf
<1>7. OpOK(n)
  BY <1>1, <1>2, <1>5, <1>6 DEF OpOK
<1>8. TiesOK(n, rows, datasets)
  BY <1>2, <1>5 DEF TiesOK
<1> QED
  BY <1>5, <1>7, <1>8 DEF SessOK, n

\* The sessions of calls that begin with nothing to commit.
LEMMA BegunOK ==
    ASSUME NEW R, NEW D, NEW s \in Session, s.op = NoOp, s.committing = FALSE,
           s.kind \in OwnsConnection => s.conn \in Keys,
           s.kind = "test" => s.seen \in Row,
           s.conn \in Keys => R[s.conn] # Absent
    PROVE  SessOK(s, R, D)
<1>1. NoOp.do = "none"
  BY DEF NoOp
<1> QED
  BY <1>1 DEF SessOK, OpOK, TiesOK

\* Calls that begin: each loads the row of its connection.
LEMMA BeginsOK ==
    ASSUME ConnInv, NEW t \in Servers, NEW c, NEW config,
           \/ PatchConnections(t)
           \/ /\ c \in Keys
              /\ \/ PatchDatasets(t, c) \/ DeleteConnection(t, c) \/ DeleteSaasConfig(t, c)
                 \/ config \in Configs /\ PatchSaasConfig(t, c, config)
    PROVE  ConnInv'
<1>1. \A n \in 1 .. MaxItems : n \in Nat
  BY ConstantsAssumption
<1>2. Idle \in Session /\ Idle.op = NoOp /\ Idle.committing = FALSE /\ Idle.conn = Absent
  BY IdleOK DEF SessOK, Idle
<1>3. c \in Keys /\ rows[c] # Absent => rows[c] \in Row
  BY DEF ConnInv, Tables
<1>4. ASSUME NEW s, SessOK(s, rows, datasets), Begin(t, s) PROVE ConnInv'
  BY <1>4, OwnStep DEF Begin
<1>5. CASE PatchConnections(t)
  <2>1. PICK n \in 1 .. MaxItems : Begin(t, [Idle EXCEPT !.kind = "connections", !.left = n])
    BY <1>5 DEF PatchConnections
  <2> DEFINE s == [Idle EXCEPT !.kind = "connections", !.left = n]
  <2>2. /\ s \in Session /\ s.op = NoOp /\ s.committing = FALSE /\ s.conn = Absent
        /\ s.kind = "connections"
    BY <1>1, <1>2 DEF Session
  <2> HIDE DEF s
  <2>3. SessOK(s, rows, datasets)
    BY <2>2, BegunOK, AbsentAssumption DEF OwnsConnection
  <2> QED
    BY <1>4, <2>1, <2>3 DEF s
<1>6. CASE c \in Keys /\ PatchDatasets(t, c)
  <2>1. PICK n \in 1 .. MaxItems :
           Begin(t, [Idle EXCEPT !.kind = "datasets", !.conn = c, !.seen = rows[c], !.left = n])
    BY <1>6 DEF PatchDatasets
  <2> DEFINE s == [Idle EXCEPT !.kind = "datasets", !.conn = c, !.seen = rows[c], !.left = n]
  <2>2. rows[c] # Absent
    BY <1>6 DEF PatchDatasets
  <2>3. /\ s \in Session /\ s.op = NoOp /\ s.committing = FALSE /\ s.conn = c
        /\ s.kind = "datasets"
    BY <1>1, <1>2, <1>3, <1>6, <2>2 DEF Session, OwnsConnection
  <2> HIDE DEF s
  <2>4. SessOK(s, rows, datasets)
    BY <1>6, <2>2, <2>3, BegunOK
  <2> QED
    BY <1>4, <2>1, <2>4 DEF s
<1>7. CASE c \in Keys /\ DeleteConnection(t, c)
  <2> DEFINE s == [Idle EXCEPT !.kind = "delete", !.conn = c, !.seen = rows[c],
                               !.todo = DatasetsOf(c)]
  <2>1. Begin(t, s) /\ rows[c] # Absent
    BY <1>7 DEF DeleteConnection
  <2>2. DatasetsOf(c) \in SUBSET FidesKeys
    BY DEF DatasetsOf
  <2>3. /\ s \in Session /\ s.op = NoOp /\ s.committing = FALSE /\ s.conn = c
        /\ s.kind = "delete"
    BY <1>2, <1>3, <1>7, <2>1, <2>2 DEF Session, OwnsConnection
  <2> HIDE DEF s
  <2>4. SessOK(s, rows, datasets)
    BY <1>7, <2>1, <2>3, BegunOK
  <2> QED
    BY <1>4, <2>1, <2>4
<1>8. CASE /\ c \in Keys
           /\ (config \in Configs /\ PatchSaasConfig(t, c, config)) \/ DeleteSaasConfig(t, c)
  <2> DEFINE i == [Idle EXCEPT !.kind = "config"]
  <2>1. /\ i \in Session /\ i.op = NoOp /\ i.committing = FALSE /\ i.conn = Absent
        /\ i.kind = "config"
    BY <1>2 DEF Session, OwnsConnection
  <2> HIDE DEF i
  <2>2. rows[c] # Absent /\ rows[c] \in Row
    BY <1>3, <1>8 DEF PatchSaasConfig, DeleteSaasConfig, IsSaas
  <2>3. ASSUME NEW new \in Configs \union {Absent},
               new = Absent => /\ rows[c].type = "saas" /\ rows[c].secrets = Absent
                               /\ rows[c].config.key \notin DatasetsOf(c),
               Begin(t, Write(i, c, [rows[c] EXCEPT !.config = new]))
        PROVE  ConnInv'
    <3> DEFINE row == [rows[c] EXCEPT !.config = new]
    <3>1. row \in Row /\ row.config = new /\ row = [rows[c] EXCEPT !.config = row.config]
      BY <2>2 DEF Row
    <3> HIDE DEF row
    <3>2. SessOK(Write(i, c, row), rows, datasets)
      BY <1>8, <2>1, <2>2, <2>3, <3>1, WriteOK
    <3> QED
      BY <1>4, <2>3, <3>2 DEF row
  <2> QED
    BY <1>8, <2>3, AbsentAssumption DEF PatchSaasConfig, DeleteSaasConfig, IsSaas, i
<1> QED
  BY <1>5, <1>6, <1>7, <1>8

\* The two handlers of the event loop.
LEMMA LoopOK ==
    ASSUME ConnInv, ServeLoop
    PROVE  ConnInv'
<1>1. Loop \in Servers
  BY DEF Servers
<1>2. Idle \in Session /\ Idle.op = NoOp /\ Idle.committing = FALSE
  BY IdleOK DEF SessOK, Idle
<1>3. ASSUME NEW c \in Keys, NEW secrets \in Secrets, NEW verify \in BOOLEAN,
             PutSecrets(c, secrets, verify)
      PROVE  ConnInv'
  <2> DEFINE i == [Idle EXCEPT !.kind = IF verify THEN "verify" ELSE "secrets"]
             row == [rows[c] EXCEPT !.secrets = secrets]
  <2>1. i \in Session /\ i.kind \in {"verify", "secrets"}
    BY <1>2 DEF Session, OwnsConnection
  <2>2. rows[c] # Absent /\ rows[c] \in Row
    BY <1>3 DEF PutSecrets, ConnInv, Tables
  <2>3. /\ row \in Row /\ row = [rows[c] EXCEPT !.secrets = Schema(rows[c])]
        /\ ~(rows[c].type = "saas" /\ rows[c].config = Absent)
    BY <1>3, <2>2 DEF Row, PutSecrets
  <2>4. Begin(Loop, Write(i, c, row))
    BY <1>3 DEF PutSecrets
  <2> HIDE DEF i, row
  <2>5. SessOK(Write(i, c, row), rows, datasets)
    BY <2>1, <2>2, <2>3, WriteOK
  <2> QED
    BY <1>1, <2>4, <2>5, OwnStep DEF Begin
<1>4. ASSUME NEW c \in Keys, TestSecrets(c) PROVE ConnInv'
  <2> DEFINE s == [Idle EXCEPT !.kind = "test", !.conn = c, !.seen = rows[c]]
  <2>1. rows[c] # Absent /\ rows[c] \in Row /\ Begin(Loop, s)
    BY <1>4 DEF TestSecrets, ConnInv, Tables
  <2>2. /\ s \in Session /\ s.op = NoOp /\ s.committing = FALSE /\ s.conn = c
        /\ s.kind = "test" /\ s.seen = rows[c]
    BY <1>2, <2>1 DEF Session, OwnsConnection
  <2> HIDE DEF s
  <2>3. SessOK(s, rows, datasets)
    BY <2>1, <2>2, BegunOK
  <2> QED
    BY <1>1, <2>1, <2>3, OwnStep DEF Begin
<1>5. ASSUME NEW outcome \in {"succeeded", "failed", "none"}, ConnectionStatus(outcome)
      PROVE  ConnInv'
  <2> DEFINE s == sess[Loop]
             row == [s.seen EXCEPT !.tested = outcome]
             op == [do |-> "write", base |-> s.seen, row |-> row]
             n == [s EXCEPT !.committing = TRUE, !.op = op]
  <2>1. SessOK(s, rows, datasets) /\ s \in Session /\ s.kind = "test" /\ s.op.do = "none"
    BY <1>1, <1>5 DEF ConnInv, SessOK, OpOK, ConnectionStatus, Serves
  <2>2. s.seen \in Row /\ s.conn \in Keys
    BY <2>1 DEF SessOK, OpOK, OwnsConnection
  <2>3. CASE outcome = "none"
    BY <1>1, <1>5, <2>3, IdleOK, OwnStep DEF ConnectionStatus, Continue
  <2>4. CASE outcome # "none"
    <3>1. row \in Row /\ row = [s.seen EXCEPT !.tested = row.tested]
      BY <2>2, <2>4 DEF Row
    <3>2. sess' = [sess EXCEPT ![Loop] = n] /\ UNCHANGED <<rows, datasets>>
      BY <1>5, <2>4 DEF ConnectionStatus, Continue
    <3> HIDE DEF row
    <3>3. op \in Ops /\ op.do = "write" /\ op.base = s.seen /\ op.row = row
      BY <2>2, <3>1 DEF Ops
    <3> HIDE DEF op
    <3>4. /\ n \in Session
          /\ n.kind = "test" /\ n.conn = s.conn /\ n.seen = s.seen /\ n.gone = s.gone
          /\ n.committing = TRUE /\ n.op = op
      BY <2>1, <3>3 DEF Session
    <3> HIDE DEF n, s
    <3>5. OpOK(n)
      BY <2>2, <3>1, <3>3, <3>4 DEF OpOK, ColumnOf
    <3>6. TiesOK(n, rows, datasets)
      BY <2>1, <3>3, <3>4 DEF SessOK, TiesOK
    <3>7. SessOK(n, rows, datasets)
      BY <3>4, <3>5, <3>6 DEF SessOK
    <3> QED
      BY <1>1, <3>2, <3>7, OwnStep
  <2> QED
    BY <2>3, <2>4
<1> QED
  BY <1>3, <1>4, <1>5 DEF ServeLoop

\* The items of a PATCH of connections.
LEMMA ConnectionItemsOK ==
    ASSUME ConnInv, NEW t \in Servers, NEW c \in Keys, NEW type \in {"saas", "sql"},
           ConnectionItem(t, c, type)
    PROVE  ConnInv'
<1>1. SessOK(sess[t], rows, datasets) /\ sess[t] \in Session /\ sess[t].kind = "connections"
  BY DEF ConnInv, SessOK, ConnectionItem, Serves
<1>2. CASE rows[c] # Absent
  <2> DEFINE row == [rows[c] EXCEPT !.type = type]
  <2>1. rows[c] \in Row
    BY <1>2 DEF ConnInv, Tables
  <2>2. row \in Row /\ row = [rows[c] EXCEPT !.type = row.type]
    BY <2>1 DEF Row
  <2>3. Continue(t, Write(sess[t], c, row))
    BY <1>2 DEF ConnectionItem
  <2> HIDE DEF row
  <2>4. SessOK(Write(sess[t], c, row), rows, datasets)
    BY <1>1, <1>2, <2>2, WriteOK
  <2> QED
    BY <2>3, <2>4, OwnStep DEF Continue
<1>3. CASE rows[c] = Absent
  <2> DEFINE s == sess[t]
             op == [do |-> "create", row |-> NewRow(type)]
             n == [s EXCEPT !.conn = c, !.gone = FALSE, !.committing = TRUE, !.op = op]
  <2>1. Continue(t, n)
    BY <1>3 DEF ConnectionItem
  <2>2. /\ op \in Ops /\ op.do = "create" /\ op.row = NewRow(op.row.type)
    BY DEF Ops, NewRow, Row
  <2> HIDE DEF op
  <2>3. /\ n \in Session
        /\ n.kind = "connections" /\ n.conn = c /\ n.committing = TRUE /\ n.op = op
    BY <1>1, <2>2 DEF Session
  <2> HIDE DEF n, s
  <2>4. SessOK(n, rows, datasets)
    BY <2>2, <2>3 DEF SessOK, OpOK, TiesOK
  <2> QED
    BY <2>1, <2>4, OwnStep DEF Continue
<1> QED
  BY <1>2, <1>3

\* The items of a PATCH of datasets: what is checked is the row that was loaded.
LEMMA DatasetItemsOK ==
    ASSUME ConnInv, NEW t \in Servers, NEW doc \in Docs, DatasetItem(t, doc)
    PROVE  ConnInv'
<1> DEFINE s == sess[t]
           l == [s EXCEPT !.seen = Loaded(t)]
           found == ~l.gone /\ doc.key \in DatasetsOf(l.conn)
           op == [do |-> IF found THEN "update" ELSE "insert", doc |-> doc, gone |-> FALSE]
           n == [l EXCEPT !.committing = TRUE, !.op = op]
<1>1. /\ SessOK(s, rows, datasets) /\ s \in Session /\ s.kind = "datasets" /\ s.op.do = "none"
      /\ ~(s.seen = Absent /\ s.gone) /\ s.conn \in Keys
  BY DEF ConnInv, SessOK, OpOK, OwnsConnection, DatasetItem, Serves, Session
<1>2. Loaded(t) \in Row
  <2>1. s.seen # Absent => s.seen \in Row
    BY <1>1 DEF Session
  <2>2. s.seen = Absent => rows[s.conn] # Absent
    BY <1>1 DEF SessOK, TiesOK
  <2>3. rows[s.conn] # Absent => rows[s.conn] \in Row
    BY <1>1 DEF ConnInv, Tables
  <2> QED
    BY <2>1, <2>2, <2>3 DEF Loaded
<1>3. /\ l \in Session
      /\ l.kind = "datasets" /\ l.conn = s.conn /\ l.seen = Loaded(t) /\ l.gone = s.gone
      /\ l.committing = s.committing /\ l.op = s.op
  BY <1>1, <1>2 DEF Session
<1>4. CASE l.seen.type = "saas" /\ ~ValidateSaasDataset(l.seen, doc)
  <2>1. Continue(t, NextItem(l))
    BY <1>4 DEF DatasetItem
  <2> HIDE DEF l
  <2>2. SessOK(l, rows, datasets)
    BY <1>1, <1>3 DEF SessOK, OpOK, TiesOK
  <2> QED
    BY <2>1, <2>2, NextItemOK, OwnStep DEF Continue
<1>5. CASE ~(l.seen.type = "saas" /\ ~ValidateSaasDataset(l.seen, doc))
  <2>1. Continue(t, n)
    BY <1>5 DEF DatasetItem
  <2> HIDE DEF l
  <2>2. /\ op \in Ops /\ op.do \in {"insert", "update"} /\ op.doc = doc
        /\ op.do = "update" => doc.key \in DatasetsOf(l.conn)
    BY DEF Ops
  <2> HIDE DEF op
  <2>3. /\ n \in Session
        /\ n.kind = "datasets" /\ n.conn = s.conn /\ n.seen = Loaded(t) /\ n.gone = s.gone
        /\ n.committing = TRUE /\ n.op = op
    BY <1>3, <2>2 DEF Session
  <2> HIDE DEF n, s
  <2>4. OpOK(n)
    BY <1>1, <1>2, <1>3, <1>5, <2>2, <2>3 DEF OpOK
  <2>5. TiesOK(n, rows, datasets)
    BY <1>1, <1>3, <2>2, <2>3 DEF SessOK, TiesOK, DatasetsOf
  <2>6. SessOK(n, rows, datasets)
    BY <2>3, <2>4, <2>5 DEF SessOK
  <2> QED
    BY <2>1, <2>6, OwnStep DEF Continue
<1> QED
  BY <1>4, <1>5

-----------------------------------------------------------------------------
\* Commits and deletions

\* Columns that were not changed since they were loaded become what was asked for.
LEMMA MergedRow ==
    ASSUME NEW row \in Row, NEW op, op.base \in Row, op.row \in Row
    PROVE  /\ Merged(row, op) \in Row
           /\ row = op.base => Merged(row, op) = op.row
<1>1. DOMAIN row = {"type", "config", "secrets", "tested"}
  BY DEF Row
<1> DEFINE m == Merged(row, op)
<1>2. m = [type |-> m.type, config |-> m.config, secrets |-> m.secrets, tested |-> m.tested]
  BY <1>1 DEF Merged
<1>3. /\ m.type = IF op.base.type # op.row.type THEN op.row.type ELSE row.type
      /\ m.config = IF op.base.config # op.row.config THEN op.row.config ELSE row.config
      /\ m.secrets = IF op.base.secrets # op.row.secrets THEN op.row.secrets ELSE row.secrets
      /\ m.tested = IF op.base.tested # op.row.tested THEN op.row.tested ELSE row.tested
  BY <1>1 DEF Merged
<1> HIDE DEF m
<1>4. m \in Row
  BY <1>2, <1>3 DEF Row
<1>5. row = op.base => m = op.row
  <2>1. op.row = [type |-> op.row.type, config |-> op.row.config,
                  secrets |-> op.row.secrets, tested |-> op.row.tested]
    BY DEF Row
  <2> QED
    BY <1>2, <1>3, <2>1
<1> QED
  BY <1>4, <1>5 DEF m

\* What a session that commits is known to hold.
LEMMA CommitterKnown ==
    ASSUME ConnInv, NEW t \in Servers, sess[t].committing
    PROVE  /\ sess[t] \in Session /\ sess[t].conn \in Keys
           /\ sess[t].op.do \in {"create", "write", "insert", "update"}
           /\ sess[t].op.do = "create" => sess[t].op.row \in Row /\ sess[t].kind = "connections"
           /\ sess[t].op.do = "write" => /\ sess[t].op.base \in Row /\ sess[t].op.row \in Row
                                         /\ ~sess[t].gone => rows[sess[t].conn] \in Row
           /\ sess[t].op.do \in {"insert", "update"} =>
                 /\ sess[t].op.doc \in Docs /\ sess[t].op.doc.key \in FidesKeys
                 /\ sess[t].kind = "datasets"
<1>1. SessOK(sess[t], rows, datasets) /\ sess[t] \in Session /\ sess[t].op \in Ops
  BY DEF ConnInv, SessOK, Session
<1>2. sess[t].conn \in Keys /\ sess[t].op.do # "none"
  BY <1>1 DEF SessOK, OpOK
<1>3. /\ sess[t].op.do \in {"create", "write", "insert", "update"}
      /\ sess[t].op.do = "create" => sess[t].op.row \in Row
      /\ sess[t].op.do = "write" => sess[t].op.base \in Row /\ sess[t].op.row \in Row
      /\ sess[t].op.do \in {"insert", "update"} => sess[t].op.doc \in Docs
  BY <1>1, <1>2 DEF Ops, NoOp
<1>4. sess[t].op.do = "write" /\ ~sess[t].gone => rows[sess[t].conn] \in Row
  BY <1>1, <1>2 DEF SessOK, TiesOK, ConnInv, Tables
<1>5. \A doc \in Docs : doc.key \in FidesKeys
  BY ConstantsAssumption
<1> QED
  BY <1>1, <1>2, <1>3, <1>4, <1>5 DEF SessOK, OpOK

\* A commit leaves tables that refer to each other, and takes nothing away.
LEMMA CommitTables ==
    ASSUME ConnInv, NEW t \in Servers, Commit(t)
    PROVE  /\ Tables'
           /\ \A c \in Keys : rows[c] # Absent => rows'[c] # Absent
           /\ ~sess[t].gone \/ sess[t].op.do = "create" => rows'[sess[t].conn] # Absent
           /\ \A k \in FidesKeys : datasets[k] # Absent =>
                 datasets'[k] # Absent /\ datasets'[k].conn = datasets[k].conn
<1> DEFINE s == sess[t]
           c == sess[t].conn
<1>1. s.committing /\ Integrity(s)
  BY DEF Commit
<1>2. /\ s \in Session /\ c \in Keys /\ s.op.do \in {"create", "write", "insert", "update"}
      /\ SessOK(s, rows, datasets) /\ Tables
  BY <1>1, CommitterKnown DEF ConnInv
<1>3. ~s.gone /\ s.op.do # "create" => rows[c] # Absent
  BY <1>2 DEF SessOK, TiesOK
<1>4. CASE s.op.do \in {"create", "write"}
  <2>1. PICK new \in Row : rows' = [rows EXCEPT ![c] = new]
    <3>1. CASE s.op.do = "create"
      BY <1>1, <3>1, CommitterKnown DEF Commit
    <3>2. CASE s.op.do = "write"
      <4>1. ~s.gone
        BY <1>1, <3>2 DEF Integrity
      <4>2. Merged(rows[c], s.op) \in Row
        BY <1>1, <3>2, <4>1, CommitterKnown, MergedRow
      <4>3. rows' = [rows EXCEPT ![c] = Merged(@, s.op)]
        BY <3>2 DEF Commit
      <4>4. rows' = [rows EXCEPT ![c] = Merged(rows[c], s.op)]
        BY <4>3
      <4> QED
        BY <4>2, <4>4
    <3> QED
      BY <1>4, <3>1, <3>2
  <2>2. datasets' = datasets
    BY <1>4 DEF Commit
  <2>3. rows'[c] = new /\ rows'[c] # Absent /\ \A d \in Keys \ {c} : rows'[d] = rows[d]
    BY <1>2, <2>1, AbsentAssumption DEF Tables
  <2>4. rows' \in [Keys -> Row \union {Absent}]
    BY <1>2, <2>1 DEF Tables
  <2>5. \A d \in Keys : rows[d] # Absent => rows'[d] # Absent
    BY <2>3
  <2>6. \A k \in FidesKeys : datasets[k] # Absent => datasets[k].conn \in Keys
    BY <1>2 DEF Tables, DatasetRow
  <2> QED
    BY <1>2, <2>2, <2>3, <2>4, <2>5, <2>6 DEF Tables
<1>5. CASE s.op.do \in {"insert", "update"}
  <2> DEFINE k == s.op.doc.key
             new == [conn |-> c, doc |-> s.op.doc]
  <2>1. k \in FidesKeys /\ s.op.doc \in Docs
    BY <1>1, <1>5, CommitterKnown
  <2>2. new \in DatasetRow /\ new # Absent /\ new.conn = c
    BY <1>2, <2>1, AbsentAssumption DEF DatasetRow
  <2>3. rows' = rows /\ datasets' = [datasets EXCEPT ![k] = new]
    BY <1>5 DEF Commit
  <2> HIDE DEF new
  <2>4. datasets'[k] = new /\ \A j \in FidesKeys \ {k} : datasets'[j] = datasets[j]
    BY <1>2, <2>1, <2>3 DEF Tables
  <2>5. datasets[k] # Absent => datasets[k].conn = c /\ s.op.do = "update"
    BY <1>1, <1>2, <1>5 DEF Integrity, SessOK, TiesOK
  <2>6. rows[c] # Absent
    <3>1. CASE s.op.do = "insert"
      BY <1>1, <1>3, <3>1 DEF Integrity
    <3>2. CASE s.op.do = "update"
      <4>1. datasets[k] # Absent /\ datasets[k].conn = c
        BY <1>1, <1>2, <3>2 DEF Integrity, SessOK, TiesOK
      <4> QED
        BY <1>2, <2>1, <4>1 DEF Tables
    <3> QED
      BY <1>5, <3>1, <3>2
  <2>7. datasets' \in [FidesKeys -> DatasetRow \union {Absent}]
    BY <1>2, <2>2, <2>3 DEF Tables
  <2>8. \A j \in FidesKeys : datasets'[j] # Absent => rows[datasets'[j].conn] # Absent
    BY <1>2, <2>2, <2>4, <2>6 DEF Tables
  <2>9. \A j \in FidesKeys : datasets[j] # Absent =>
           datasets'[j] # Absent /\ datasets'[j].conn = datasets[j].conn
    BY <2>2, <2>4, <2>5
  <2> QED
    BY <1>2, <2>3, <2>6, <2>7, <2>8, <2>9 DEF Tables
<1> QED
  BY <1>2, <1>4, <1>5

\* The session that has committed goes on, tests what it has saved, or ends.
LEMMA CommittedOK ==
    ASSUME ConnInv, NEW t \in Servers, Commit(t)
    PROVE  SessOK(Committed(sess[t]), rows', datasets')
<1> DEFINE s == sess[t]
<1>1. /\ s.committing /\ Integrity(s) /\ s \in Session /\ s.conn \in Keys
      /\ SessOK(s, rows, datasets)
  BY CommitterKnown DEF Commit, ConnInv
<1>2. ~s.gone \/ s.op.do = "create" => rows'[s.conn] # Absent
  BY CommitTables
<1>3. CASE s.kind \in {"connections", "datasets"}
  BY <1>1, <1>2, <1>3, ItemEndedOK DEF Committed
<1>4. CASE s.kind = "verify"
  <2>1. s.op.do = "write"
    BY <1>1, <1>4, CommitterKnown
  <2>2. ~s.gone
    BY <1>1, <2>1 DEF Integrity
  <2> DEFINE m == Merged(rows[s.conn], s.op)
             n == [s EXCEPT !.kind = "test", !.committing = FALSE, !.op = NoOp, !.seen = m]
  <2>3. m \in Row
    BY <1>1, <2>1, <2>2, CommitterKnown, MergedRow
  <2> HIDE DEF m
  <2>4. /\ n \in Session /\ n.kind = "test" /\ n.conn = s.conn /\ n.seen = m
        /\ n.committing = FALSE /\ n.op = NoOp
    BY <1>1, <2>3 DEF Session, Ops, OwnsConnection
  <2>5. Committed(s) = n
    BY <1>4 DEF Committed, m
  <2> HIDE DEF n
  <2>6. SessOK(n, rows', datasets')
    BY <1>1, <1>2, <2>2, <2>3, <2>4, BegunOK
  <2> QED
    BY <2>5, <2>6
<1>5. CASE s.kind \notin {"connections", "datasets", "verify"}
  <2>1. Committed(s) = Idle
    BY <1>5 DEF Committed
  <2> QED
    BY <2>1, IdleOK
<1> QED
  BY <1>3, <1>4, <1>5

LEMMA CommitOK ==
    ASSUME ConnInv, NEW t \in Servers, Commit(t)
    PROVE  ConnInv'
<1>1. sess' = [sess EXCEPT ![t] = Committed(sess[t])] /\ sess \in [Servers -> Session]
  BY DEF Commit, ConnInv
<1>2. SessOK(Committed(sess[t]), rows', datasets')
  BY CommittedOK
<1>3. sess' \in [Servers -> Session]
  BY <1>1, <1>2 DEF SessOK
<1>4. ASSUME NEW u \in Servers PROVE SessOK(sess'[u], rows', datasets')
  <2>1. CASE u = t
    BY <1>1, <1>2, <2>1
  <2>2. CASE u # t
    <3> DEFINE s == sess[u]
    <3>1. sess'[u] = s /\ SessOK(s, rows, datasets)
      BY <1>1, <2>2 DEF ConnInv
    <3>2. s.op.do = "update" => s.op.doc.key \in FidesKeys
      <4>1. s.op \in Ops /\ \A doc \in Docs : doc.key \in FidesKeys
        BY <3>1, ConstantsAssumption DEF SessOK, Session
      <4> QED
        BY <4>1 DEF Ops, NoOp
    <3> HIDE DEF s
    <3>3. SessOK(s, rows', datasets')
      BY <3>1, <3>2, CommitTables, SessionStays
    <3> QED
      BY <3>1, <3>3
  <2> QED
    BY <2>1, <2>2
<1> QED
  BY <1>3, <1>4, CommitTables DEF ConnInv

\* A rollback: the tables stay, and the session goes on or ends.
LEMMA CommitFailsOK ==
    ASSUME ConnInv, NEW t \in Servers, CommitFails(t)
    PROVE  ConnInv'
<1> DEFINE s == sess[t]
<1>1. /\ s.committing /\ ~Integrity(s) /\ s \in Session /\ s.conn \in Keys
      /\ SessOK(s, rows, datasets)
  BY CommitterKnown DEF CommitFails, ConnInv
<1>2. CASE s.kind \in {"connections", "datasets"}
  <2> DEFINE n == NextItem([s EXCEPT !.committing = FALSE, !.op = NoOp, !.seen = Absent])
  <2>1. ~s.gone => rows[s.conn] # Absent
    BY <1>1 DEF Integrity, SessOK, TiesOK
  <2>2. SessOK(n, rows, datasets)
    BY <1>1, <1>2, <2>1, ItemEndedOK
  <2>3. Continue(t, n)
    BY <1>2 DEF CommitFails
  <2> QED
    BY <2>2, <2>3, OwnStep DEF Continue
<1>3. CASE s.kind \notin {"connections", "datasets"}
  BY <1>3, IdleOK, OwnStep DEF CommitFails, Continue
<1> QED
  BY <1>2, <1>3

\* A dataset is deleted, and the other sessions are told.
LEMMA WithoutDatasetOK ==
    ASSUME ConnInv, NEW t \in Servers, NEW k \in FidesKeys, NEW s, SessOK(s, rows, datasets),
           s.op.do # "update",
           datasets' = [datasets EXCEPT ![k] = Absent], rows' = rows,
           sess' = WithoutDataset(t, k, s)
    PROVE  ConnInv'
<1>1. sess \in [Servers -> Session] /\ Tables
  BY DEF ConnInv
<1>2. datasets'[k] = Absent /\ \A j \in FidesKeys \ {k} : datasets'[j] = datasets[j]
  BY <1>1 DEF Tables
<1>3. Tables'
  BY <1>1, <1>2 DEF Tables
<1>4. DOMAIN sess = Servers
  BY <1>1
<1>5. ASSUME NEW u \in Servers PROVE SessOK(sess'[u], rows', datasets')
  <2> DEFINE old == sess[u]
  <2>1. old \in Session /\ SessOK(old, rows, datasets) /\ old.op \in Ops
    BY <1>1 DEF ConnInv, Session
  <2>2. CASE u = t
    <3>1. sess'[u] = s
      BY <1>4, <2>2 DEF WithoutDataset
    <3>2. SessOK(s, rows', datasets')
      BY SessionStays
    <3> QED
      BY <3>1, <3>2
  <2>3. CASE u # t /\ old.op.do = "update"
    <3> DEFINE op == [old.op EXCEPT !.gone = @ \/ old.op.doc.key = k]
               n == [old EXCEPT !.op = op]
    <3>1. old.op \in [do : {"insert", "update"}, doc : Docs, gone : BOOLEAN]
      BY <2>1, <2>3 DEF Ops, NoOp
    <3>2. /\ op \in Ops /\ op.do = "update" /\ op.doc = old.op.doc
          /\ op.gone = (old.op.gone \/ old.op.doc.key = k)
      BY <2>3, <3>1 DEF Ops
    <3>3. sess'[u] = n
      BY <1>4, <2>3 DEF WithoutDataset
    <3>4. old.op.doc.key \in FidesKeys
      BY <3>1, ConstantsAssumption
    <3> HIDE DEF op
    <3>5. /\ n \in Session
          /\ n.kind = old.kind /\ n.conn = old.conn /\ n.seen = old.seen /\ n.saw = old.saw
          /\ n.gone = old.gone /\ n.committing = old.committing /\ n.op = op
      BY <2>1, <3>2 DEF Session
    <3> HIDE DEF n, old
    <3>6. OpOK(n)
      BY <2>1, <2>3, <3>2, <3>5 DEF SessOK, OpOK
    <3>7. TiesOK(n, rows', datasets')
      <4>1. TiesOK(old, rows, datasets)
        BY <2>1 DEF SessOK
      <4>2. /\ n.conn = old.conn /\ n.gone = old.gone /\ n.op.do = "update" /\ old.op.do = "update"
            /\ n.op.doc = old.op.doc /\ n.op.gone = (old.op.gone \/ old.op.doc.key = k)
        BY <2>3, <3>2, <3>5 DEF old
      <4>3. n.op.doc.key # k => datasets'[n.op.doc.key] = datasets[n.op.doc.key]
        BY <1>2, <3>4, <4>2
      <4> QED
        BY <4>1, <4>2, <4>3 DEF TiesOK
    <3> QED
      BY <3>3, <3>5, <3>6, <3>7 DEF SessOK
  <2>4. CASE u # t /\ old.op.do # "update"
    <3> DEFINE n == [old EXCEPT !.todo = @ \ {k}, !.lost = @ \/ k \in old.todo]
    <3>1. sess'[u] = n
      BY <1>4, <2>4 DEF WithoutDataset
    <3>2. /\ n \in Session
          /\ n.kind = old.kind /\ n.conn = old.conn /\ n.seen = old.seen /\ n.saw = old.saw
          /\ n.gone = old.gone /\ n.committing = old.committing /\ n.op = old.op
      BY <2>1 DEF Session
    <3> HIDE DEF n, old
    <3>3. SessOK(n, rows', datasets')
      BY <2>1, <2>4, <3>2 DEF SessOK, OpOK, ColumnOf, TiesOK
    <3> QED
      BY <3>1, <3>3
  <2> QED
    BY <2>2, <2>3, <2>4
<1>6. sess' \in [Servers -> Session]
  <2>1. DOMAIN sess' = Servers /\ sess' = [u \in Servers |-> sess'[u]]
    BY <1>4 DEF WithoutDataset
  <2> QED
    BY <1>5, <2>1 DEF SessOK
<1> QED
  BY <1>3, <1>5, <1>6 DEF ConnInv

\* The deletion of datasets and of connections.
LEMMA DeletionsOK ==
    ASSUME ConnInv, NEW t \in Servers, NEW c, NEW k \in FidesKeys,
           DeleteDataset(t, c, k) \/ DeleteItsDataset(t, k)
    PROVE  ConnInv'
<1>1. CASE DeleteDataset(t, c, k)
  BY <1>1, IdleOK, WithoutDatasetOK DEF DeleteDataset, Idle, NoOp
<1>2. CASE DeleteItsDataset(t, k)
  <2> DEFINE s == sess[t]
             n == [s EXCEPT !.todo = @ \ {k}]
  <2>1. s \in Session /\ SessOK(s, rows, datasets) /\ s.op.do = "none"
    BY <1>2 DEF ConnInv, SessOK, OpOK, DeleteItsDataset, Serves
  <2>2. /\ n \in Session
        /\ n.kind = s.kind /\ n.conn = s.conn /\ n.seen = s.seen /\ n.saw = s.saw
        /\ n.gone = s.gone /\ n.committing = s.committing /\ n.op = s.op
    BY <2>1 DEF Session
  <2>3. /\ datasets' = [datasets EXCEPT ![k] = Absent] /\ rows' = rows
        /\ sess' = WithoutDataset(t, k, n)
    BY <1>2 DEF DeleteItsDataset
  <2> HIDE DEF n, s
  <2>4. SessOK(n, rows, datasets)
    BY <2>1, <2>2 DEF SessOK, OpOK, ColumnOf, TiesOK
  <2> QED
    BY <2>1, <2>2, <2>3, <2>4, WithoutDatasetOK
<1> QED
  BY <1>1, <1>2

\* A row is deleted when nothing refers to it, and the other sessions are told.
LEMMA DeleteRowOK ==
    ASSUME ConnInv, NEW t \in Servers, DeleteRow(t)
    PROVE  ConnInv'
<1> DEFINE c == sess[t].conn
<1>1. c \in Keys
  BY DEF DeleteRow, Serves, ConnInv, SessOK, OpOK, OwnsConnection
<1>2. CASE sess[t].gone \/ DatasetsOf(c) # {} \/ c \in hooked
  BY <1>2, IdleOK, OwnStep DEF DeleteRow, Continue
<1>3. CASE ~(sess[t].gone \/ DatasetsOf(c) # {} \/ c \in hooked)
  <2>1. /\ rows' = [rows EXCEPT ![c] = Absent] /\ datasets' = datasets
        /\ sess' = [u \in DOMAIN sess |->
                       IF u = t THEN Idle
                       ELSE [sess[u] EXCEPT !.gone = @ \/ (sess[u].conn = c /\ sess[u].op.do # "create")]]
        /\ \A k \in FidesKeys : datasets[k] # Absent => datasets[k].conn # c
    BY <1>3 DEF DeleteRow, DatasetsOf
  <2>2. Tables /\ DOMAIN sess = Servers /\ sess \in [Servers -> Session]
    BY DEF ConnInv
  <2>3. rows'[c] = Absent /\ \A d \in Keys \ {c} : rows'[d] = rows[d]
    BY <1>1, <2>1, <2>2 DEF Tables
  <2>4. \A k \in FidesKeys : datasets[k] # Absent => datasets[k].conn \in Keys
    BY <2>2 DEF Tables, DatasetRow
  <2>5. Tables'
    <3>1. rows' \in [Keys -> Row \union {Absent}]
      BY <2>1, <2>2 DEF Tables
    <3> QED
      BY <2>1, <2>2, <2>3, <2>4, <3>1 DEF Tables
  <2>6. ASSUME NEW u \in Servers PROVE SessOK(sess'[u], rows', datasets')
    <3>1. CASE u = t
      BY <2>1, <2>2, <3>1, IdleOK
    <3>2. CASE u # t
      <4> DEFINE old == sess[u]
                 n == [old EXCEPT !.gone = @ \/ (old.conn = c /\ old.op.do # "create")]
      <4>1. old \in Session /\ SessOK(old, rows, datasets)
        BY <2>2 DEF ConnInv
      <4>2. sess'[u] = n
        BY <2>1, <2>2, <3>2
      <4>3. /\ n \in Session
            /\ n.kind = old.kind /\ n.conn = old.conn /\ n.seen = old.seen /\ n.saw = old.saw
            /\ n.committing = old.committing /\ n.op = old.op
            /\ n.gone = (old.gone \/ (old.conn = c /\ old.op.do # "create"))
        BY <4>1 DEF Session
      <4> HIDE DEF n, old
      <4>4. OpOK(n)
        BY <4>1, <4>3 DEF SessOK, OpOK, ColumnOf
      <4>5. TiesOK(n, rows', datasets')
        BY <2>1, <2>3, <4>1, <4>3 DEF SessOK, TiesOK
      <4> QED
        BY <4>2, <4>3, <4>4, <4>5 DEF SessOK
    <3> QED
      BY <3>1, <3>2
  <2>7. sess' \in [Servers -> Session]
    <3>1. DOMAIN sess' = Servers /\ sess' = [u \in Servers |-> sess'[u]]
      BY <2>1, <2>2
    <3> QED
      BY <2>6, <3>1 DEF SessOK
  <2> QED
    BY <2>5, <2>6, <2>7 DEF ConnInv
<1> QED
  BY <1>2, <1>3

\* What an API thread does.
LEMMA ServeOK ==
    ASSUME ConnInv, NEW t \in Threads, Serve(t)
    PROVE  ConnInv'
<1>1. t \in Servers
  BY DEF Servers
<1>2. CASE PatchConnections(t)
  BY <1>1, <1>2, BeginsOK
<1>3. CASE ConnectionRefused(t)
  <2>1. SessOK(NextItem(sess[t]), rows, datasets)
    BY <1>1, NextItemOK DEF ConnInv
  <2> QED
    BY <1>1, <1>3, <2>1, OwnStep DEF ConnectionRefused, Continue
<1>4. CASE \E c \in Keys, type \in {"saas", "sql"} : ConnectionItem(t, c, type)
  BY <1>1, <1>4, ConnectionItemsOK
<1>5. CASE \/ \E c \in Keys, config \in Configs : PatchSaasConfig(t, c, config)
           \/ \E c \in Keys : DeleteSaasConfig(t, c) \/ PatchDatasets(t, c) \/ DeleteConnection(t, c)
  BY <1>1, <1>5, BeginsOK
<1>6. CASE \E doc \in Docs : DatasetItem(t, doc)
  BY <1>1, <1>6, DatasetItemsOK
<1>7. CASE DatasetsRaise(t) \/ DeletionRaises(t)
  BY <1>1, <1>7, IdleOK, OwnStep DEF DatasetsRaise, DeletionRaises, Continue
<1>8. CASE \E c \in Keys, k \in FidesKeys : DeleteDataset(t, c, k)
  BY <1>1, <1>8, DeletionsOK
<1>9. CASE \E k \in FidesKeys : DeleteItsDataset(t, k)
  BY <1>1, <1>9, DeletionsOK
<1>10. CASE DeleteRow(t)
  BY <1>1, <1>10, DeleteRowOK
<1> QED
  BY <1>2, <1>3, <1>4, <1>5, <1>6, <1>7, <1>8, <1>9, <1>10 DEF Serve

\* The inductive invariant.
LEMMA ConnInvHolds == Spec => []ConnInv
<1>1. Init => ConnInv
  <2> SUFFICES ASSUME Init PROVE ConnInv
    OBVIOUS
  <2>1. Tables
    BY DEF Init, Tables
  <2>2. sess = [t \in Servers |-> Idle] /\ Idle \in Session
    BY IdleOK DEF Init, Servers, SessOK
  <2>3. \A t \in Servers : SessOK(sess[t], rows, datasets)
    BY <2>2, IdleOK
  <2> QED
    BY <2>1, <2>2, <2>3 DEF ConnInv
<1>2. ConnInv /\ [Next]_vars => ConnInv'
  <2> SUFFICES ASSUME ConnInv, [Next]_vars PROVE ConnInv'
    OBVIOUS
  <2>1. CASE UNCHANGED <<rows, datasets, sess>>
    BY <2>1 DEF ConnInv, Tables
  <2>2. CASE \E t \in Threads : Serve(t)
    BY <2>2, ServeOK
  <2>3. CASE ServeLoop
    BY <2>3, LoopOK
  <2>4. CASE \E t \in Servers : Commit(t) \/ CommitFails(t)
    BY <2>4, CommitOK, CommitFailsOK
  <2>5. CASE LoadDatasets \/ LoadConnections \/ \E k \in FidesKeys : BuildGraph(k)
    BY <2>1, <2>5 DEF LoadDatasets, LoadConnections, BuildGraph
  <2> QED
    BY <2>1, <2>2, <2>3, <2>4, <2>5 DEF Next, vars, Servers
<1> QED
  BY <1>1, <1>2, PTL DEF Spec

-----------------------------------------------------------------------------
\* Connections that stay together

\* A connection whose row is the same and which has no new datasets.
LEMMA NotTakenApart ==
    ASSUME NEW c \in Keys, Mismatched(c)',
           rows'[c] = rows[c],
           \A k \in FidesKeys : datasets'[k] # Absent /\ datasets'[k].conn = c =>
               datasets[k] # Absent /\ datasets[k].conn = c
    PROVE  Mismatched(c)
BY DEF Mismatched, DatasetsOf

\* Why a commit may take a connection apart.
Cause(t, c) ==
    \/ sess[t].kind = "connections" /\ sess[t].op.base.type # sess[t].op.row.type
    \/ sess[t].kind = "config" /\ sess[t].op.row.config # Absent
    \/ sess[t].kind \in {"verify", "secrets"} /\ rows[c].type # "saas" /\ rows[c].config # Absent
    \/ sess[t].seen # rows[c]
    \/ sess[t].kind = "config" /\ sess[t].saw # DatasetsOf(c)

\* A write that finds the row as it was seen.
LEMMA WriteHasCause ==
    ASSUME ConnInv, NEW t \in Servers, Commit(t), sess[t].op.do = "write",
           NEW c \in Keys, sess[t].conn = c, Mismatched(c)', ~Mismatched(c)
    PROVE  Cause(t, c)
<1> DEFINE s == sess[t]
<1> SUFFICES ASSUME s.seen = rows[c] PROVE Cause(t, c)
  BY DEF Cause
<1>1. /\ s.op.base = s.seen /\ ColumnOf(s) /\ s.seen \in Row /\ s.op.row \in Row
      /\ rows \in [Keys -> Row \union {Absent}]
  BY CommitterKnown DEF Commit, ConnInv, SessOK, OpOK, Tables
<1>2. datasets' = datasets /\ rows' = [rows EXCEPT ![c] = Merged(@, s.op)]
  BY DEF Commit
<1>3. rows'[c] = s.op.row
  BY <1>1, <1>2, MergedRow
<1>4. DatasetsOf(c)' = DatasetsOf(c)
  BY <1>2 DEF DatasetsOf
<1>5. rows[c] # Absent
  BY <1>1, AbsentAssumption
<1> DEFINE new == s.op.row
<1>6. \/ new.type = "saas" /\ \E k \in DatasetsOf(c) : new.config = Absent \/ new.config.key # k
      \/ /\ new.secrets # Absent
         /\ new.secrets # IF new.type # "saas" THEN {"url"}
                          ELSE IF new.config = Absent THEN {} ELSE new.config.connectorParams
  <2>1. rows'[c].type = new.type /\ rows'[c].config = new.config /\ rows'[c].secrets = new.secrets
    BY <1>3
  <2> HIDE DEF new
  <2> QED
    BY <1>4, <2>1 DEF Mismatched
<1>7. /\ s.seen.type = "saas" => \A k \in DatasetsOf(c) :
            s.seen.config # Absent /\ s.seen.config.key = k
      /\ s.seen.secrets # Absent =>
            s.seen.secrets = IF s.seen.type # "saas" THEN {"url"}
                             ELSE IF s.seen.config = Absent THEN {} ELSE s.seen.config.connectorParams
  BY <1>5 DEF Mismatched
<1>8. CASE s.kind = "connections" /\ new = [s.seen EXCEPT !.type = new.type]
  <2>1. CASE new.type # s.seen.type
    BY <1>1, <1>8, <2>1 DEF Cause
  <2>2. CASE new.type = s.seen.type
    <3>1. new = s.seen
      BY <1>1, <1>8, <2>2 DEF Row
    <3> QED
      BY <1>6, <1>7, <3>1
  <2> QED
    BY <2>1, <2>2
<1>9. CASE /\ s.kind = "config" /\ new = [s.seen EXCEPT !.config = new.config]
           /\ new.config = Absent =>
                 s.seen.type = "saas" /\ s.seen.secrets = Absent /\ s.seen.config.key \notin s.saw
  <2>1. CASE new.config # Absent \/ s.saw # DatasetsOf(c)
    BY <1>9, <2>1 DEF Cause
  <2>2. CASE new.config = Absent /\ s.saw = DatasetsOf(c)
    <3>1. new.type = s.seen.type /\ new.secrets = s.seen.secrets
      BY <1>1, <1>9 DEF Row
    <3> QED
      BY <1>6, <1>7, <1>9, <2>2, <3>1
  <2> QED
    BY <2>1, <2>2
<1>10. CASE /\ s.kind \in {"verify", "secrets"} /\ new = [s.seen EXCEPT !.secrets = Schema(s.seen)]
            /\ ~(s.seen.type = "saas" /\ s.seen.config = Absent)
  <2>1. /\ new.type = s.seen.type /\ new.config = s.seen.config
        /\ new.secrets = Schema(s.seen)
    BY <1>1, <1>10 DEF Row
  <2>2. CASE s.seen.type # "saas" /\ s.seen.config # Absent
    BY <1>10, <2>2 DEF Cause
  <2>3. CASE ~(s.seen.type # "saas" /\ s.seen.config # Absent)
    BY <1>6, <1>7, <1>10, <2>1, <2>3 DEF Schema
  <2> QED
    BY <2>2, <2>3
<1>11. CASE s.kind = "test" /\ new = [s.seen EXCEPT !.tested = new.tested]
  <2>1. /\ new.type = s.seen.type /\ new.config = s.seen.config
        /\ new.secrets = s.seen.secrets
    BY <1>1, <1>11 DEF Row
  <2> QED
    BY <1>6, <1>7, <2>1
<1> QED
  BY <1>1, <1>8, <1>9, <1>10, <1>11 DEF ColumnOf

\* A new version of a dataset that finds the connection as it was seen.
LEMMA DatasetKeepsTogether ==
    ASSUME ConnInv, NEW t \in Servers, Commit(t), sess[t].op.do \in {"insert", "update"},
           NEW c \in Keys, sess[t].conn = c, Mismatched(c)', ~Mismatched(c)
    PROVE  Cause(t, c)
<1> DEFINE s == sess[t]
           key == s.op.doc.key
<1> SUFFICES ASSUME s.seen = rows[c] PROVE Cause(t, c)
  BY DEF Cause
<1>1. /\ s.seen.type = "saas" => ValidateSaasDataset(s.seen, s.op.doc)
      /\ s.op.doc \in Docs /\ key \in FidesKeys /\ s.seen \in Row
      /\ datasets \in [FidesKeys -> DatasetRow \union {Absent}]
  BY CommitterKnown DEF Commit, ConnInv, SessOK, OpOK, Tables
<1>2. rows' = rows /\ datasets' = [datasets EXCEPT ![key] = [conn |-> c, doc |-> s.op.doc]]
  BY DEF Commit
<1>3. \A k \in DatasetsOf(c)' : k \in DatasetsOf(c) \/ k = key
  BY <1>1, <1>2 DEF DatasetsOf
<1>4. rows[c].type = "saas" => rows[c].config # Absent /\ rows[c].config.key = key
  BY <1>1 DEF ValidateSaasDataset
<1> QED
  BY <1>2, <1>3, <1>4 DEF Mismatched

\* A connection is taken apart only by a commit that has one of the causes.
LEMMA StepHasCause ==
    ASSUME ConnInv, [Next]_vars, NEW c \in Keys, Mismatched(c)', ~Mismatched(c)
    PROVE  \E t \in Servers : Commit(t) /\ sess[t].conn = c /\ Cause(t, c)
<1>1. datasets \in [FidesKeys -> DatasetRow \union {Absent}] /\ rows \in [Keys -> Row \union {Absent}]
  BY DEF ConnInv, Tables
<1>2. ~UNCHANGED <<rows, datasets>>
  BY NotTakenApart
<1>3. ASSUME NEW t \in Servers, Commit(t)
      PROVE  sess[t].conn = c /\ Cause(t, c)
  <2> DEFINE s == sess[t]
  <2>1. s.conn \in Keys /\ s.op.do \in {"create", "write", "insert", "update"}
    BY <1>3, CommitterKnown DEF Commit
  <2>2. s.conn = c
    <3> SUFFICES ASSUME s.conn # c PROVE FALSE
      OBVIOUS
    <3>1. rows'[c] = rows[c]
      BY <1>1, <1>3, <2>1 DEF Commit
    <3>2. s.op.do \in {"insert", "update"} => s.op.doc.key \in FidesKeys
      BY <1>3, CommitterKnown DEF Commit
    <3>3. \A k \in FidesKeys : datasets'[k] # Absent /\ datasets'[k].conn = c =>
             datasets[k] # Absent /\ datasets[k].conn = c
      BY <1>1, <1>3, <3>2 DEF Commit
    <3> QED
      BY <3>1, <3>3, NotTakenApart
  <2>3. CASE s.op.do = "create"
    <3>1. /\ rows[c] = Absent /\ datasets' = datasets /\ rows' = [rows EXCEPT ![c] = s.op.row]
      BY <1>3, <2>2, <2>3 DEF Commit, Integrity
    <3>2. s.op.row = NewRow(s.op.row.type)
      BY <1>3, <2>3 DEF ConnInv, SessOK, OpOK
    <3>3. DatasetsOf(c)' = {}
      BY <3>1 DEF DatasetsOf, ConnInv, Tables
    <3>4. rows'[c].secrets = Absent
      BY <1>1, <3>1, <3>2 DEF NewRow
    <3> QED
      BY <3>3, <3>4 DEF Mismatched
  <2>4. CASE s.op.do = "write"
    BY <1>3, <2>2, <2>4, WriteHasCause
  <2>5. CASE s.op.do \in {"insert", "update"}
    BY <1>3, <2>2, <2>5, DatasetKeepsTogether
  <2> QED
    BY <2>1, <2>2, <2>3, <2>4, <2>5
<1>4. ASSUME NEW t \in Threads, Serve(t) PROVE FALSE
  <2>0. t \in Servers
    BY DEF Servers
  <2>1. \A s : ~Begin(t, s) /\ ~Continue(t, s)
    BY <1>2 DEF Begin, Continue
  <2>2. ASSUME NEW k \in FidesKeys, datasets' = [datasets EXCEPT ![k] = Absent], rows' = rows
        PROVE  FALSE
    <3>1. \A j \in FidesKeys : datasets'[j] # Absent => datasets'[j] = datasets[j]
      BY <1>1, <2>2
    <3> QED
      BY <2>2, <3>1, NotTakenApart
  <2>3. CASE DeleteRow(t)
    <3>1. datasets' = datasets /\ rows' = [rows EXCEPT ![sess[t].conn] = Absent]
      BY <2>1, <2>3 DEF DeleteRow
    <3>2. rows'[c] = rows[c] \/ rows'[c] = Absent
      BY <1>1, <3>1
    <3> QED
      BY <3>1, <3>2, NotTakenApart DEF Mismatched
  <2>4. CASE \E k \in FidesKeys : DeleteItsDataset(t, k) \/ \E d \in Keys : DeleteDataset(t, d, k)
    BY <2>2, <2>4 DEF DeleteItsDataset, DeleteDataset
  <2>5. CASE PatchConnections(t) \/ ConnectionRefused(t) \/ DatasetsRaise(t) \/ DeletionRaises(t)
    BY <2>1, <2>5 DEF PatchConnections, ConnectionRefused, DatasetsRaise, DeletionRaises
  <2>6. CASE \E d \in Keys, type \in {"saas", "sql"} : ConnectionItem(t, d, type)
    BY <2>1, <2>6 DEF ConnectionItem
  <2>7. CASE \E d \in Keys, config \in Configs : PatchSaasConfig(t, d, config)
    BY <2>1, <2>7 DEF PatchSaasConfig
  <2>8. CASE \E d \in Keys : DeleteSaasConfig(t, d) \/ PatchDatasets(t, d) \/ DeleteConnection(t, d)
    BY <2>1, <2>8 DEF DeleteSaasConfig, PatchDatasets, DeleteConnection
  <2>9. CASE \E doc \in Docs : DatasetItem(t, doc)
    BY <2>1, <2>9 DEF DatasetItem
  <2> QED
    BY <1>4, <2>3, <2>4, <2>5, <2>6, <2>7, <2>8, <2>9 DEF Serve
<1>5. ~ServeLoop
  <2>1. \A s : ~Begin(Loop, s) /\ ~Continue(Loop, s)
    BY <1>2 DEF Begin, Continue
  <2> QED
    BY <2>1 DEF ServeLoop, PutSecrets, TestSecrets, ConnectionStatus
<1>6. \A t \in Servers : ~CommitFails(t)
  BY <1>2 DEF CommitFails, Continue
<1>7. ~LoadDatasets /\ ~LoadConnections /\ \A k \in FidesKeys : ~BuildGraph(k)
  BY <1>2 DEF LoadDatasets, LoadConnections, BuildGraph
<1>8. ~UNCHANGED vars
  BY <1>2 DEF vars
<1> QED
  BY <1>3, <1>4, <1>5, <1>6, <1>7, <1>8 DEF Next, Servers

\* Whatever calls run together, a connection, its SaaS config, its secrets and its
\* datasets are taken apart only by a commit that does not look at the others, or
\* that checked what another commit has changed since.
THEOREM MismatchAlwaysHasCause == Spec => MismatchHasCause
<1> DEFINE Step == \A c \in Keys : Mismatched(c)' /\ ~Mismatched(c) =>
          \E t \in Threads \union {Loop} :
             /\ Commit(t)
             /\ sess[t].conn = c
             /\ \/ sess[t].kind = "connections" /\ sess[t].op.base.type # sess[t].op.row.type
                \/ sess[t].kind = "config" /\ sess[t].op.row.config # Absent
                \/ sess[t].kind \in {"verify", "secrets"} /\ rows[c].type # "saas"
                                    /\ rows[c].config # Absent
                \/ sess[t].seen # rows[c]
                \/ sess[t].kind = "config" /\ sess[t].saw # DatasetsOf(c)
<1>1. ConnInv /\ [Next]_vars => Step
  <2> SUFFICES ASSUME ConnInv, [Next]_vars, NEW c \in Keys, Mismatched(c)', ~Mismatched(c)
               PROVE  \E t \in Servers : Commit(t) /\ sess[t].conn = c /\ Cause(t, c)
    BY DEF Servers, Cause
  <2> QED
    BY StepHasCause
<1>2. ConnInv /\ [Next]_vars => [Step]_vars
  BY <1>1
<1> QED
  BY <1>2, ConnInvHolds, PTL DEF Spec, MismatchHasCause
===============================================================================
