---------------------------- MODULE SaasConnector ----------------------------
(***************************************************************************)
(* One SaaS connector, shared by the tasks of its collections: the         *)
(* requests made of the values of upstream rows, the pages of each         *)
(* request, post-processing, and masking by update or delete requests.     *)
(* Tasks run on threads of their own and share two attributes of the       *)
(* connector, collection_name and client_config, which each of them writes *)
(* and reads back. An attempt that raises is repeated from its start.      *)
(*                                                                         *)
(* The services are external. The one that a collection is meant for has   *)
(* pages for each request, or refuses. What a request astray brings (one   *)
(* sent to the host of another configuration, or whose answer is taken     *)
(* with the read request of another collection) is left open.              *)
(* Paths, headers and bodies are reduced to the parameters put into them.  *)
(***************************************************************************)
EXTENDS Integers, SequencesExt, FiniteSets

CONSTANTS
    Collections,  \* the endpoints of the connector; each is a task
    Cases,        \* configurations, inputs and services considered
    MaxAttempts   \* attempts of a task (TASK_RETRY_COUNT + 1)

\* A case has a mode, "read" or "mask", the flag strict (MASKING_STRICT) and, for
\* every collection,
\*   own       the request has a client_config of its own
\*   inputs    the upstream rows in sequence: parameter names to values; 0 is empty
\*   grouped   the parameters in grouped_inputs
\*   inPath    parameters with a placeholder in the path (or body)
\*   paging    "none", "offset", "cursor" or "link"
\*   first, step, limit   of offset pagination
\*   pages     what the service has for a request: sequences of items, which are
\*             sequences of rows (of one row, without the unwrap post-processor)
\*   endless   the service answers any offset with its last page
\*   linksOn   the service sends a link with its last, empty page
\*   noCursor  the page whose last object lacks the cursor field, or 0
\*   needs     the service requires the headers of the request
\*   filter    the filter post-processor, by identity, is configured
\*   ignore    ignore_errors
\*   masks     which of "update", "gdpr", "delete" are configured
\*   found     the rows to mask
\*   lacks     a row to mask lacks a parameter of the masking request's path
\* A row is <<id, owner>> with owner "me", "other", or "none" without the field.
ServiceRows == Int \X {"me", "other", "none"}

\* The pages of a service end where the first empty one would be; check_increment_by
\* refuses a step that is not positive.
ASSUME CasesAssumption ==
    \A x \in Cases : \A c \in Collections :
        LET k == x.of[c] IN
        /\ IsFiniteSet(k.found)
        /\ k.inputs \in Seq(Range(k.inputs))
        /\ \A i \in DOMAIN k.inputs : IsFiniteSet(DOMAIN k.inputs[i])
        /\ k.paging \in {"none", "offset", "cursor", "link"}
        /\ k.first \in Int /\ k.step \in Nat \ {0} /\ k.limit \in Int
        /\ k.pages \in Seq(Seq(Seq(ServiceRows)))
        /\ \A i \in DOMAIN k.pages : k.pages[i] # << >>
        /\ k.endless => k.paging = "offset"

Null == -1

VARIABLES
    case,            \* what is considered; never changes
    collectionName,  \* attributes of the connector: the collection named last,
    clientConfig,    \* and whose client_config is in it
    identity,      \* the identity is in the cache
    task,          \* locals of each task: read, the collection whose read request
                   \* it uses; stray (history), an answer was taken astray in this
                   \* attempt; pc: "begin", "named", "config", "uri", "send", "done"
                   \* or "failed"
    ignored,       \* collections with a response that was ignored
    store          \* rows of the service: "kept", "masked" or "deleted"

vars == <<case, collectionName, clientConfig, identity, task, ignored, store>>

\* An attempt as it starts, or what is left of one that raised.
Attempt(c, pc, n) ==
    [pc |-> pc, todo |-> << >>, rows |-> << >>, attempts |-> n,
     host |-> "base", read |-> c, stray |-> FALSE]

Init ==
    /\ case \in Cases
    /\ collectionName = "none"
    /\ clientConfig = "base"
    /\ identity = TRUE
    /\ task = [c \in Collections |-> Attempt(c, "begin", 1)]
    /\ ignored = {}
    /\ store = [c \in Collections |-> [r \in case.of[c].found |-> "kept"]]

Config(c) == case.of[c]

\* The client_config that create_client_from_request chooses.
ClientOf(c) == IF Config(c).own THEN c ELSE "base"

-----------------------------------------------------------------------------
\* The requests of a collection

\* Placeholders are replaced by values that are neither null nor empty.
Params(row) == RestrictValues(row, LAMBDA v : v \notin {Null, 0})

\* The values of parameters that are independent of each other.
Values(c) ==
    {v \in (DOMAIN Config(c).inputs) \X UNION {DOMAIN row : row \in Range(Config(c).inputs)} :
        LET row == Config(c).inputs[v[1]] IN
        v[2] \in DOMAIN row \ Config(c).grouped /\ row[v[2]] # Null}

\* generate_requests: one request per value of an independent parameter...
Independent(c) ==
    LET values == SetToSeq(Values(c)) IN
    [i \in DOMAIN values |-> Params(Restrict(Config(c).inputs[values[i][1]], {values[i][2]}))]

\* ... and one per upstream row for parameters that belong together.
Grouped(c) ==
    IF Config(c).grouped = {} THEN << >>
    ELSE [i \in DOMAIN Config(c).inputs |-> Params(Restrict(Config(c).inputs[i], Config(c).grouped))]

Prepared(c) == Independent(c) \o Grouped(c)

\* map_param_values raises when the path lacks a parameter; query parameters and
\* headers without a value are left out.
PrepareRaises(c) == \E params \in Range(Prepared(c)) : ~(Config(c).inPath \subseteq DOMAIN params)

FirstAt(c) == CASE Config(c).paging = "offset" -> Config(c).first
                [] Config(c).paging = "cursor" -> 0
                [] OTHER -> 1

FirstRequests(c) ==
    LET prepared == Prepared(c) IN
    [i \in DOMAIN prepared |-> [params |-> prepared[i], at |-> FirstAt(c), headers |-> TRUE]]

-----------------------------------------------------------------------------
\* The service

PageAt(c, at) ==
    LET pages == Config(c).pages
        n == CASE Config(c).paging = "offset" -> (at - Config(c).first) \div Config(c).step + 1
               [] Config(c).paging = "cursor" -> at + 1
               [] OTHER -> at
    IN IF n \in DOMAIN pages THEN pages[n]
       ELSE IF Config(c).endless /\ pages # << >> THEN Last(pages) ELSE << >>

\* A request without headers that the service wants.
Refuses(c, request) == Config(c).needs /\ ~request.headers

-----------------------------------------------------------------------------
\* Post-processing and pagination

\* The unwrap post-processor: the rows inside of each item, in sequence.
Unwrap(page) == FlattenSeq(page)

\* The filter post-processor drops everything when one row lacks the field, or when
\* the identity is gone.
FilterByIdentity(rows) ==
    IF ~identity \/ \E i \in DOMAIN rows : rows[i][2] = "none" THEN << >>
    ELSE FlattenSeq([i \in DOMAIN rows |-> IF rows[i][2] = "me" THEN <<rows[i]>> ELSE << >>])

\* process_response_data
Process(c, page) ==
    IF Config(c).filter THEN FilterByIdentity(Unwrap(page)) ELSE Unwrap(page)

Next1(request, at) == <<[request EXCEPT !.at = at, !.headers = FALSE]>>

\* Mutant of LinkNext: the link is followed from an empty page.
LinkNextAnyway(c, request, page) ==
    IF request.at < Len(Config(c).pages) \/ Config(c).linksOn
    THEN Next1(request, IF request.at > Len(Config(c).pages) THEN request.at ELSE request.at + 1)
    ELSE << >>

LinkNext(c, request, page) ==
    IF page # << >> /\ (request.at < Len(Config(c).pages) \/ Config(c).linksOn)
    THEN Next1(request, request.at + 1) ELSE << >>

\* Mutant of OffsetNext: the page at the limit is left out.
OffsetNextBelow(c, request, page) ==
    LET at == request.at + Config(c).step IN
    IF page # << >> /\ at < Config(c).limit THEN Next1(request, at) ELSE << >>

OffsetNext(c, request, page) ==
    LET at == request.at + Config(c).step IN
    IF page # << >> /\ at <= Config(c).limit THEN Next1(request, at) ELSE << >>

CursorNext(c, request, page) ==
    IF page # << >> /\ request.at + 1 # Config(c).noCursor
    THEN Next1(request, request.at + 1) ELSE << >>

\* get_next_request: no request, or one, always without the headers.
GetNextRequest(c, request, page) ==
    CASE Config(c).paging = "none" -> << >>
      [] Config(c).paging = "offset" -> OffsetNext(c, request, page)
      [] Config(c).paging = "cursor" -> CursorNext(c, request, page)
      [] Config(c).paging = "link" -> LinkNext(c, request, page)

-----------------------------------------------------------------------------
\* Masking

Preferred(usable) ==
    IF "update" \in usable THEN "update"
    ELSE IF "gdpr" \in usable THEN "gdpr"
    ELSE IF "delete" \in usable THEN "delete" ELSE "none"

\* Mutant of MaskingRequest: MASKING_STRICT is ignored.
MaskingRequestLenient(c) == Preferred(Config(c).masks)

\* get_masking_request_from_config: the preferred one of those that may be used.
MaskingRequest(c) ==
    Preferred(Config(c).masks \cap (IF case.strict THEN {"update"} ELSE {"update", "gdpr", "delete"}))

-----------------------------------------------------------------------------
\* Steps of a task

\* The retry decorator: again from the start, or give up.
Raises(c) ==
    LET n == task[c].attempts IN
    task' = [task EXCEPT ![c] = IF n < MaxAttempts THEN Attempt(c, "begin", n + 1)
                                ELSE Attempt(c, "failed", n)]

\* retrieve_data writes one shared attribute ...
NameCollection(c) ==
    /\ task[c].pc = "begin"
    /\ case.mode = "read"
    /\ collectionName' = c
    /\ task' = [task EXCEPT ![c].pc = "named"]
    /\ UNCHANGED <<case, clientConfig, identity, ignored, store>>

\* ... and reads it to choose the read request, which may by then be another
\* collection's. The requests themselves are made from the task's own node.
Begin(c) ==
    /\ task[c].pc = "named"
    /\ IF PrepareRaises(c) THEN Raises(c)
       ELSE task' = [task EXCEPT
               ![c].pc = IF Prepared(c) = << >> THEN "done" ELSE "config",
               ![c].todo = FirstRequests(c),
               ![c].read = collectionName]
    /\ UNCHANGED <<case, collectionName, clientConfig, identity, ignored, store>>

\* mask_data: every request is made before the first is sent.
BeginMasking(c) ==
    /\ task[c].pc = "begin"
    /\ case.mode = "mask"
    /\ IF MaskingRequest(c) = "none" \/ Config(c).lacks THEN Raises(c)
       ELSE task' = [task EXCEPT ![c].pc = "config", ![c].todo = SetToSeq(Config(c).found)]
    /\ UNCHANGED <<case, collectionName, clientConfig, identity, ignored, store>>

\* _build_client_with_config writes the other shared attribute ...
BuildClient(c) ==
    /\ task[c].pc = "config"
    /\ clientConfig' = ClientOf(task[c].read)
    /\ task' = [task EXCEPT ![c].pc = "uri"]
    /\ UNCHANGED <<case, collectionName, identity, ignored, store>>

\* ... and build_uri reads it.
BuildUri(c) ==
    /\ task[c].pc = "uri"
    /\ task' = [task EXCEPT ![c].pc = IF task[c].todo = << >> THEN "done" ELSE "send",
                            ![c].host = clientConfig]
    /\ UNCHANGED <<case, collectionName, clientConfig, identity, ignored, store>>

\* The rest of execute_prepared_request: rows to add and the next request, if any.
Continue(c, page) ==
    LET request == Head(task[c].todo)
        todo == GetNextRequest(c, request, page) \o Tail(task[c].todo)
        rows == Process(c, page)
    IN task' = [task EXCEPT
           ![c].todo = todo,
           ![c].rows = @ \o [i \in DOMAIN rows |-> <<request.params, rows[i]>>],
           ![c].pc = IF todo = << >> THEN "done" ELSE "config"]

\* The request goes to another host than the one it is meant for, or its answer is
\* taken for another collection's.
Astray(c) == task[c].read # c \/ task[c].host # ClientOf(c)

Fetch(c) ==
    /\ case.mode = "read"
    /\ task[c].pc = "send"
    /\ ~Astray(c)
    /\ ~Refuses(c, Head(task[c].todo))
    /\ Continue(c, PageAt(c, Head(task[c].todo).at))
    /\ UNCHANGED <<case, collectionName, clientConfig, identity, ignored, store>>

\* An answer that is ok all the same: the rows it brings, if any, are left out. The
\* pagination sees another body, or is another collection's: it stops, asks the
\* same again (a service ignores a parameter it does not know), or goes on.
FetchAstray(c) ==
    LET request == Head(task[c].todo) IN
    /\ case.mode = "read"
    /\ task[c].pc = "send"
    /\ Astray(c)
    /\ \E next \in {<< >>, Next1(request, request.at),
                    GetNextRequest(c, request, PageAt(c, request.at))} :
          LET todo == next \o Tail(task[c].todo) IN
          task' = [task EXCEPT ![c].todo = todo,
                               ![c].stray = TRUE,
                               ![c].pc = IF todo = << >> THEN "done" ELSE "config"]
    /\ UNCHANGED <<case, collectionName, clientConfig, identity, ignored, store>>

\* The row counts as updated, and the next one is taken.
RowDone(c, stray) ==
    task' = [task EXCEPT ![c].todo = Tail(@),
                         ![c].stray = stray,
                         ![c].pc = IF Len(task[c].todo) = 1 THEN "done" ELSE "send"]

Apply(c) ==
    /\ case.mode = "mask"
    /\ task[c].pc = "send"
    /\ ~Astray(c)
    /\ LET row == Head(task[c].todo) IN
       /\ store[c][row] # "deleted"
       /\ store' = [store EXCEPT ![c][row] =
                       IF MaskingRequest(c) = "update" THEN "masked" ELSE "deleted"]
    /\ RowDone(c, task[c].stray)
    /\ UNCHANGED <<case, collectionName, clientConfig, identity, ignored>>

\* Another host answers that all is well: the row is where it was.
ApplyAstray(c) ==
    /\ case.mode = "mask"
    /\ task[c].pc = "send"
    /\ Astray(c)
    /\ RowDone(c, TRUE)
    /\ UNCHANGED <<case, collectionName, clientConfig, identity, ignored, store>>

\* A response that is not ok: an empty answer when errors are ignored, else an
\* exception. The service may refuse for reasons of its own.
Refused(c) ==
    /\ task[c].pc = "send"
    /\ IF ~Config(task[c].read).ignore THEN Raises(c) /\ ignored' = ignored
       ELSE /\ ignored' = ignored \union {c}
            /\ IF case.mode = "read" THEN Continue(c, << >>) ELSE RowDone(c, task[c].stray)
    /\ UNCHANGED <<case, collectionName, clientConfig, identity, store>>

\* No connection, no JSON, or a post-processor that raises.
SendRaises(c) ==
    /\ task[c].pc = "send"
    /\ Raises(c)
    /\ UNCHANGED <<case, collectionName, clientConfig, identity, ignored, store>>

\* The identity's time to live passes.
IdentityExpires ==
    /\ identity
    /\ identity' = FALSE
    /\ UNCHANGED <<case, collectionName, clientConfig, task, ignored, store>>

TaskStep(c) ==
    \/ NameCollection(c) \/ Begin(c) \/ BeginMasking(c) \/ BuildClient(c) \/ BuildUri(c)
    \/ Fetch(c) \/ FetchAstray(c) \/ Apply(c) \/ ApplyAstray(c) \/ Refused(c) \/ SendRaises(c)

Next == (\E c \in Collections : TaskStep(c)) \/ IdentityExpires

Fairness == \A c \in Collections : WF_vars(TaskStep(c))

Spec == Init /\ [][Next]_vars /\ Fairness

-----------------------------------------------------------------------------
\* Properties

\* The offsets, cursors or links that a complete read of one request uses.
Reached(c) ==
    LET n == Len(Config(c).pages) IN
    CASE Config(c).paging = "none" -> {1}
      [] Config(c).paging = "offset" ->
            {at \in Config(c).first .. Config(c).limit :
                (at - Config(c).first) % Config(c).step = 0} \union {Config(c).first}
      [] Config(c).paging = "cursor" ->
            {at \in 0 .. n : Config(c).noCursor \in 1 .. n => at < Config(c).noCursor}
      [] Config(c).paging = "link" -> 1 .. n

\* The places of the rows that are read there, and the rows.
Wanted(c, ats) == UNION {{<<at, i>> : i \in DOMAIN Process(c, PageAt(c, at))} : at \in ats}
RowsAt(c, places) == {Process(c, PageAt(c, w[1]))[w[2]] : w \in places}

\* When a read has ended, whatever attempts failed or went astray before, its rows
\* are those of all pages of all requests, each once and under the parameters of
\* one upstream row: unless an error was ignored, the identity expired, a filtered
\* page lacks the field, or this attempt took an answer astray. What the other
\* tasks of the connector do has no other way to make them wrong.
RowsComplete ==
    \A c \in Collections :
        /\ case.mode = "read"
        /\ task[c].pc = "done"
        /\ c \notin ignored
        /\ ~task[c].stray
        /\ Config(c).filter => identity
        => LET asked == Cardinality(Values(c))
                        + IF Config(c).grouped = {} THEN 0 ELSE Len(Config(c).inputs)
               wanted == Wanted(c, Reached(c))
           IN /\ Len(task[c].rows) = asked * Cardinality(wanted)
              /\ \A i \in DOMAIN task[c].rows : \E row \in Range(Config(c).inputs) :
                    \A p \in DOMAIN task[c].rows[i][1] : task[c].rows[i][1][p] = row[p]
              /\ {task[c].rows[i][2] : i \in DOMAIN task[c].rows} =
                    IF asked = 0 THEN {} ELSE RowsAt(c, wanted)

\* When masking has ended, every row is masked, or deleted where that is allowed,
\* or its refusal was ignored, or this attempt went to another host; and nothing is
\* ever deleted with MASKING_STRICT or where an update request is configured.
MaskedAll ==
    \A c \in Collections :
        /\ (case.mode = "mask" /\ task[c].pc = "done" /\ c \notin ignored /\ ~task[c].stray) =>
              \A row \in Config(c).found : store[c][row] # "kept"
        /\ (case.strict \/ "update" \in Config(c).masks) =>
              \A row \in Config(c).found : store[c][row] # "deleted"

\* Every task ends: pagination stops at an empty page, at the limit, or where no
\* cursor or link is found. Only an attempt that went astray may go on for ever.
TasksEnd == \A c \in Collections : <>(task[c].pc \in {"done", "failed"}) \/ <>[]task[c].stray

===============================================================================
