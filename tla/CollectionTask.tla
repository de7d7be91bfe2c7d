---------------------------- MODULE CollectionTask ----------------------------
(***************************************************************************)
(* What a task does with the rows of its collection: the values that       *)
(* upstream rows give it, the query, the two copies of the result that are *)
(* cached (one for the access package and for downstream tasks, one for    *)
(* the erasure), the positions that the erasure rules lead to in the       *)
(* second copy, and the erasure.                                           *)
(*                                                                         *)
(* The text of queries is left out. Rows of SQL stores are flat.           *)
(***************************************************************************)
EXTENDS Erasure, Documents, FiniteSets

\* A case has, besides what an erasure uses,
\*   docs      the rows of the collection as documents, by id
\*   edges     pairs of a path of upstream rows and a path of this collection
\*   upstream  the rows of the collections upstream
\*   entire    the entry paths with return_all_elements
ASSUME DocsAssumption == \A c \in Cases : \A i \in Ids : c.rows[i] = Flat(c.docs[i])

VARIABLE
    results     \* the rows found, unmatched elements removed

taskVars == <<results, vars>>

TaskInit == Init /\ results = Nothing

-----------------------------------------------------------------------------
\* The access request

\* Field.cast of a string field makes None of what is empty.
Cast(path, n) == IF path \in case.strings /\ n = 0 THEN Null ELSE n

EntryPaths == {edge[2] : edge \in case.edges}

\* pre_process_input_data, with the casts of typed_filtered_values.
InputValues(path) ==
    {Cast(path, n) : n \in UNION {UNION {Consolidate(row, edge[1]) : row \in case.upstream} :
                                  edge \in {e \in case.edges : e[2] = path}}} \ {Null}

\* Fields without values take no part in the query.
QueryPaths == {path \in EntryPaths : InputValues(path) # {}}

\* The clauses of generate_query: SQL compares a column, a document store compares
\* every element of what the path leads to. (MongoDB does not look into arrays of
\* arrays, nor behind a scalar that cuts the path short: it may find fewer rows.)
SqlClause(doc, path) == doc[2][path[1]][2] \in InputValues(path)
MongoClause(doc, path) == Consolidate(doc, path) \cap InputValues(path) # {}

\* Clauses are joined by OR. Without a clause there is no query.
Selected(doc) ==
    \E path \in QueryPaths :
        IF case.store = "mongo" THEN MongoClause(doc, path) ELSE SqlClause(doc, path)

\* post_process_input_data: what the elements of arrays must match, if anything.
Query == [path \in QueryPaths \union (EntryPaths \cap case.entire) |->
             IF path \in case.entire THEN {} ELSE InputValues(path)]

\* The rows are still as they were: nothing is erased before the access has ended.
FoundRows == {i \in Ids : Selected(case.docs[i])}

\* update_value_map: what is masked in a row, from the copy with placeholders.
Updates(doc) ==
    UNION {{[at |-> p, path |-> path, rule |-> rule] : p \in RefineTargetPath(doc, path, {})} :
           <<path, rule>> \in {<<q, r>> \in (DOMAIN case.category) \X case.rules :
                                 q \in TargetPaths(r) /\ Supported(q, r)}}

Copies(delete) == [i \in FoundRows |-> FilterElementMatch(case.docs[i], Query, delete)]

AccessRequest ==
    /\ phase = "access"
    /\ results' = Copies(TRUE)
    /\ LET copies == Copies(FALSE) IN
       /\ cached' = [i \in DOMAIN copies |-> Flat(copies[i])]
       /\ plan' = [i \in DOMAIN copies |-> Updates(copies[i])]
    /\ phase' = "erasure"
    /\ UNCHANGED <<case, rows, todo, attempts, secrets>>

-----------------------------------------------------------------------------
\* The erasure request goes on from there.
TaskNext == AccessRequest \/ (Erase /\ UNCHANGED results)

TaskSpec == TaskInit /\ [][TaskNext]_taskVars

-----------------------------------------------------------------------------
\* Properties

\* The task carries out an erasure: filter_element_match and update_value_map keep
\* what Erasure asks of them, so what is proved of an erasure is true of the task.
ImplementsErasure == Spec

\* refine_target_path finds exactly the scalars that the path leads to and that
\* match, for every path of the collection and every row.
RefineFindsMatches ==
    phase = "access" =>
        \A i \in Ids, path \in EntryPaths \union Targets :
            \A only \in {{}, {1}, {1, 2}} :
                RefineTargetPath(case.docs[i], path, only) =
                    {p \in Leaves(case.docs[i]) : /\ LeadsTo(path, p)
                                                  /\ MatchFound(Get(case.docs[i], p), only)}

RECURSIVE Compact(_)

\* A row without its placeholders.
Compact(v) ==
    CASE IsScalar(v) -> v
      [] IsList(v) -> LET kept == SelectSeq(v[2], LAMBDA x : x # Placeholder) IN
                      List([j \in DOMAIN kept |-> Compact(kept[j])])
      [] IsDict(v) -> Dict([k \in DOMAIN v[2] |-> Compact(v[2][k])])

\* The two copies that filter_element_match makes, by deletion and by
\* replacement, hold the same elements, and a copy with placeholders has every
\* element at the position where the store has it.
CopiesAgree ==
    \A i \in DOMAIN results :
        LET copy == FilterElementMatch(case.docs[i], Query, FALSE) IN
        /\ Compact(copy) = results[i]
        /\ \A p \in Leaves(copy) :
              Get(copy, p) # Placeholder => Get(copy, p) = Get(case.docs[i], p)

\* Whatever the order in which the paths of its categories are taken, the access
\* package has every value that they lead to, each once, and no others but those that
\* cut a path short (a scalar where a document is expected). A path that ends at a
\* document instead leaves no package at all: select_and_save_field raises.
PackageHasTargets ==
    \A i \in DOMAIN results :
        LET row == results[i]
            packages == Packages(row, Targets)
            wanted == {p \in Leaves(row) :
                          \E path \in Targets : \/ Names(p) = path
                                                \/ IsStrictPrefix(Names(p), path)}
        IN /\ packages = {} <=> \E path \in Targets, p \in Leaves(row) : IsStrictPrefix(path, Names(p))
           /\ \A package \in packages :
                 /\ {Get(package, p) : p \in Leaves(package)} = {Get(row, p) : p \in wanted}
                 /\ Cardinality(Leaves(package)) = Cardinality(wanted)
===============================================================================
