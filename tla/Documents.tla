------------------------------ MODULE Documents -------------------------------
(***************************************************************************)
(* Nested rows and the algorithms that walk them: finding the positions    *)
(* that a field path leads to, gathering values along a path, keeping the  *)
(* matching elements of arrays, and selecting the fields of an access      *)
(* package. A value is a scalar, a list or a dictionary, tagged as such.   *)
(***************************************************************************)
EXTENDS Positions

Scalar(n) == <<"scalar", n>>
List(s) == <<"list", s>>
Dict(f) == <<"dict", f>>

IsScalar(v) == v[1] = "scalar"
IsList(v) == v[1] = "list"
IsDict(v) == v[1] = "dict"
Placeholder == Scalar(DoNotMask)

Under(level, paths) == {<<level>> \o p : p \in paths}

\* Mutant of MatchFound: placeholders match like any value.
MatchFoundAll(v, only) == only = {} \/ v[2] \in only

\* _match_found: with nothing to look for, everything matches.
MatchFound(v, only) == v[2] # DoNotMask /\ (only = {} \/ v[2] \in only)

RECURSIVE RefineTargetPath(_, _, _), EnterArray(_, _, _)

\* refine_target_path. A scalar ends the path, even where levels are left. A list
\* in place of a dictionary is a TypeError, and no position.
RefineTargetPath(row, path, only) ==
    IF path = << >> \/ ~IsDict(row) THEN {}
    ELSE IF Head(path) \notin DOMAIN row[2] THEN {}
    ELSE LET v == row[2][Head(path)] IN
         CASE IsDict(v) -> Under(Name(Head(path)), RefineTargetPath(v, Tail(path), only))
           [] IsList(v) -> Under(Name(Head(path)), EnterArray(v[2], Tail(path), only))
           [] IsScalar(v) -> IF MatchFound(v, only) THEN {<<Name(Head(path))>>} ELSE {}

\* Mutant of EnterArray: arrays of arrays are not entered.
EnterArrayOnce(array, path, only) ==
    UNION {Under(Index(i),
              IF path # << >> THEN RefineTargetPath(array[i], path, only)
              ELSE IF IsScalar(array[i]) /\ MatchFound(array[i], only) THEN {<< >>} ELSE {}) : i \in DOMAIN array}

\* _enter_array. A dictionary at the end of a path matches only when nothing is
\* looked for: a scalar never equals it.
EnterArray(array, path, only) ==
    UNION {Under(Index(i),
              CASE path # << >> -> RefineTargetPath(array[i], path, only)
                [] path = << >> /\ IsList(array[i]) -> EnterArray(array[i][2], path, only)
                [] path = << >> /\ IsDict(array[i]) -> IF only = {} THEN {<< >>} ELSE {}
                [] path = << >> /\ IsScalar(array[i]) ->
                      IF MatchFound(array[i], only) THEN {<< >>} ELSE {})
           : i \in DOMAIN array}

\* build_refined_target_paths: query maps paths to the values looked for.
BuildRefinedTargetPaths(row, query) ==
    UNION {RefineTargetPath(row, path, query[path]) : path \in DOMAIN query}

RECURSIVE Consolidate(_, _)

\* consolidate_query_matches: the values along a path, however they are nested.
Consolidate(row, path) ==
    CASE IsList(row) -> UNION {Consolidate(row[2][i], path) : i \in DOMAIN row[2]}
      [] IsDict(row) -> IF path = << >> THEN {}
                        ELSE IF Head(path) \notin DOMAIN row[2] THEN {}
                        ELSE Consolidate(row[2][Head(path)], Tail(path))
      [] IsScalar(row) -> {row[2]}

-----------------------------------------------------------------------------
\* Reading and changing a position

RECURSIVE Get(_, _), Put(_, _, _)

Holds(v, level) ==
    IF IsIndex(level) THEN IsList(v) /\ level[2] \in DOMAIN v[2]
    ELSE IsDict(v) /\ level[2] \in DOMAIN v[2]

\* pydash.objects.get
Get(v, p) ==
    IF p = << >> THEN v
    ELSE IF Holds(v, Head(p)) THEN Get(v[2][Head(p)[2]], Tail(p))
    ELSE Scalar(Null)

\* Sets what is at a position.
Put(v, p, new) ==
    IF p = << >> THEN new
    ELSE IF Holds(v, Head(p))
    THEN <<v[1], [v[2] EXCEPT ![Head(p)[2]] = Put(v[2][Head(p)[2]], Tail(p), new)]>>
    ELSE v

-----------------------------------------------------------------------------
\* filter_element_match

\* _expand_array_paths_to_preserve: the arrays that found positions go through...
ArraysEntered(found) ==
    {SubSeq(p, 1, i - 1) : <<p, i>> \in
        UNION {{<<q, j>> : j \in {k \in DOMAIN q : IsIndex(q[k])}} : q \in found}}

\* ... and the indices they go through.
Preserved(array, found) ==
    {p[Len(array) + 1][2] : p \in {q \in found : /\ Len(q) > Len(array)
                                                 /\ SubSeq(q, 1, Len(array)) = array
                                                 /\ IsIndex(q[Len(array) + 1])}}

\* Mutant of DeepestFirst: arrays of arrays are shortened from the outside.
OutermostFirst(arrays) == SetToSortSeq(arrays, LAMBDA a, b : Len(a) < Len(b))

\* _remove_paths_from_row: indices are those of the row as it was, so an array is
\* shortened before those around it.
DeepestFirst(arrays) == SetToSortSeq(arrays, LAMBDA a, b : Len(a) > Len(b))

RemoveElements(row, array, keep, delete) ==
    LET old == Get(row, array)
        indices == SetToSortSeq(DOMAIN old[2] \cap keep, LAMBDA i, j : i < j)
    IN IF ~IsList(old) THEN row
       ELSE Put(row, array, List(
                IF delete THEN [i \in DOMAIN indices |-> old[2][indices[i]]]
                ELSE [i \in DOMAIN old[2] |-> IF i \in keep THEN old[2][i] ELSE Placeholder]))

FilterElementMatch(row, query, delete) ==
    LET found == BuildRefinedTargetPaths(row, query) IN
    FoldLeft(LAMBDA r, array : RemoveElements(r, array, Preserved(array, found), delete),
             row, DeepestFirst(ArraysEntered(found)))

-----------------------------------------------------------------------------
\* filter_data_categories, for one row

RECURSIVE SelectRaises(_, _), SelectAndSave(_, _, _), RemoveEmpty(_)

Empty == {List(<< >>), Dict([x \in {} |-> Scalar(Null)])}

\* _defaultdict_or_array
EmptyLike(v) == IF IsScalar(v) THEN v ELSE IF IsList(v) THEN List(<< >>)
                ELSE Dict([x \in {} |-> Scalar(Null)])

\* select_and_save_field asks an empty path for its first level where a path ends at
\* a dictionary that is not empty: an IndexError, raised again where it is caught.
SelectRaises(row, path) ==
    CASE IsList(row) -> \E i \in DOMAIN row[2] : SelectRaises(row[2][i], path)
      [] IsDict(row) -> IF path = << >> THEN DOMAIN row[2] # {}
                        ELSE /\ Head(path) \in DOMAIN row[2]
                             /\ SelectRaises(row[2][Head(path)], Tail(path))
      [] IsScalar(row) -> FALSE

\* Mutant of SelectAndSave: a path that shares its first name with an earlier one
\* starts again.
SelectAfresh(saved, row, path) ==
    CASE IsList(row) -> List([i \in DOMAIN row[2] |->
                                SelectAndSave(EmptyLike(row[2][i]), row[2][i], path)])
      [] IsDict(row) /\ path # << >> /\ Head(path) \in DOMAIN row[2] ->
            Dict([k \in DOMAIN saved[2] \union {Head(path)} |->
                    IF k # Head(path) THEN saved[2][k]
                    ELSE SelectAndSave(EmptyLike(row[2][k]), row[2][k], Tail(path))])
      [] OTHER -> saved

\* select_and_save_field, where it does not raise: saved holds what earlier paths
\* have selected.
SelectAndSave(saved, row, path) ==
    CASE IsList(row) ->
            List([i \in DOMAIN row[2] |->
                    SelectAndSave(IF i \in DOMAIN saved[2] THEN saved[2][i]
                                  ELSE EmptyLike(row[2][i]), row[2][i], path)])
      [] IsDict(row) ->
            IF path = << >> THEN saved
            ELSE IF Head(path) \notin DOMAIN row[2] THEN saved
            ELSE LET key == Head(path)
                     old == IF key \in DOMAIN saved[2] THEN saved[2][key]
                            ELSE EmptyLike(row[2][key])
                     new == SelectAndSave(old, row[2][key], Tail(path))
                 IN Dict([k \in DOMAIN saved[2] \union {key} |->
                            IF k = key THEN new ELSE saved[2][k]])
      [] IsScalar(row) -> saved

\* remove_empty_containers
RemoveEmpty(v) ==
    CASE IsScalar(v) -> v
      [] IsList(v) -> List(SelectSeq([i \in DOMAIN v[2] |-> RemoveEmpty(v[2][i])],
                                     LAMBDA x : x \notin Empty))
      [] IsDict(v) -> LET inner == [k \in DOMAIN v[2] |-> RemoveEmpty(v[2][k])] IN
                      Dict([k \in {j \in DOMAIN inner : inner[j] \notin Empty} |-> inner[k]])

\* The package of a row, for the paths of the categories asked for in one order ...
Package(row, order) ==
    RemoveEmpty(FoldLeft(LAMBDA saved, path : SelectAndSave(saved, row, path),
                         Dict([x \in {} |-> Scalar(Null)]), order))

\* ... and in each order that the set of them may be walked in: none where it raises.
Packages(row, paths) ==
    IF \E path \in paths : SelectRaises(row, path) THEN {}
    ELSE {Package(row, order) : order \in SetToSeqs(paths)}

-----------------------------------------------------------------------------
\* What the walks are meant to find, said with the positions of all scalars.

RECURSIVE Leaves(_)

Leaves(v) ==
    IF IsScalar(v) THEN {<< >>}
    ELSE IF IsList(v) THEN UNION {Under(Index(i), Leaves(v[2][i])) : i \in DOMAIN v[2]}
    ELSE UNION {Under(Name(k), Leaves(v[2][k])) : k \in DOMAIN v[2]}

\* A value as its scalars, by their positions.
Flat(v) == [p \in Leaves(v) |-> Get(v, p)[2]]
===============================================================================
