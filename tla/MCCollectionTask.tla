---------------------------- MODULE MCCollectionTask ----------------------------
(***************************************************************************)
(* Collections, rows and policies for CollectionTask: keys, composite keys *)
(* and empty keys, references by several edges, arrays of values, of       *)
(* documents and of arrays, nulls where a document is expected, and each   *)
(* kind of masking.                                                        *)
(***************************************************************************)
EXTENDS CollectionTask, TLC

S(n) == Scalar(n)
Row(id, ref, pii) == Dict("id" :> S(id) @@ "ref" :> S(ref) @@ "pii" :> S(pii))
Rule(targets, strategy) == [targets |-> targets, strategy |-> strategy]

\* Every path is a category of its own, below the category of the path around it.
Paths == {<<"id">>, <<"ref">>, <<"pii">>, <<"tags">>, <<"grid">>, <<"docs", "k">>, <<"docs", "v">>,
          <<"a", "b">>, <<"a", "c">>, <<"info", "n">>}

\* A user row upstream, with a list and a nested document.
Upstream == {Dict("id" :> S(1) @@ "others" :> List(<<S(2), S(0), S(Null)>>)
                  @@ "info" :> Dict("n" :> S(2)))}

Base == [store    |-> "sql",
         docs     |-> [i \in Ids |-> Row(i, i, 5)],
         keys     |-> {"id"},
         edges    |-> {<<<<"id">>, <<"ref">>>>},
         upstream |-> Upstream,
         entire   |-> {},
         strings  |-> {<<"pii">>},
         limited  |-> {},
         category |-> [path \in Paths |-> path],
         rules    |-> {Rule({<<"pii">>}, "rewrite")},
         writable |-> TRUE]

SqlCases == {
    Base,
    [Base EXCEPT !.writable = FALSE],
    [Base EXCEPT !.keys = {}],
    [Base EXCEPT !.rules = {Rule({<<"pii">>}, "hash")}, !.edges = @ \union {<<<<"others">>, <<"ref">>>>}],
    [Base EXCEPT !.rules = {Rule({<<"pii">>}, "aes"), Rule({<<"ref">>}, "null")},
                 !.docs = [i \in Ids |-> Row(i, 1, IF i = 1 THEN Null ELSE 5)]],
    [Base EXCEPT !.limited = {<<"pii">>}, !.docs = [i \in Ids |-> Row(i, 1, IF i = 1 THEN Null ELSE 5)]],
    [Base EXCEPT !.rules = {Rule({<<"pii">>, <<"id">>}, "null")}, !.edges = {<<<<"info", "n">>, <<"id">>>>}],
    [Base EXCEPT !.docs = [i \in Ids |-> Row(i - 1, 1, 5)]],
    [Base EXCEPT !.docs = [i \in Ids |-> Row(1, IF i = 1 THEN 1 ELSE 3, 5)], !.keys = {"id", "ref"}],
    [Base EXCEPT !.docs = [i \in Ids |-> Row(1, IF i = 2 THEN 0 ELSE i, 5)], !.keys = {"id", "ref"},
                 !.edges = {<<<<"others">>, <<"ref">>>>}],
    [Base EXCEPT !.docs = [i \in Ids |-> Row(1, IF i = 1 THEN 0 ELSE i, 5)], !.keys = {"id", "ref"},
                 !.edges = {<<<<"others">>, <<"ref">>>>}, !.rules = {Rule({<<"pii">>, <<"ref">>}, "null")}],
    [Base EXCEPT !.store = "bigquery", !.rules = {Rule({<<"pii">>, <<"id">>}, "null")}],
    [Base EXCEPT !.store = "bigquery", !.rules = {Rule({<<"id">>}, "rewrite")}],
    [Base EXCEPT !.edges = {<<<<"none">>, <<"ref">>>>}]}

Mongo == [Base EXCEPT !.store = "mongo"]
Doc(id, f) == Dict("id" :> S(id) @@ f)
Pair(k, v) == Dict("k" :> S(k) @@ "v" :> S(v))

\* An array of values is the way in, and is what is masked.
Tags == [Mongo EXCEPT
    !.docs = [i \in Ids |-> Doc(i, "tags" :> List(<<S(i), S(1), S(4)>>) @@ "pii" :> S(5))],
    !.edges = {<<<<"id">>, <<"tags">>>>},
    !.strings = {<<"tags">>, <<"pii">>},
    !.rules = {Rule({<<"tags">>}, "random"), Rule({<<"pii">>}, "null")}]

\* An array of documents, one of them null.
Embedded == [Mongo EXCEPT
    !.docs = [i \in Ids |-> Doc(i, "docs" :> List(<<Pair(1, 5), Pair(i, 6), S(Null)>>))],
    !.edges = {<<<<"id">>, <<"docs", "k">>>>, <<<<"others">>, <<"docs", "k">>>>},
    !.strings = {<<"docs", "v">>, <<"docs", "k">>},
    !.rules = {Rule({<<"docs">>}, "hmac")}]

\* Arrays of arrays.
Matrix == [Mongo EXCEPT
    !.docs = [i \in Ids |-> Doc(i, "grid" :> List(<<List(<<S(1), S(2)>>), List(<<S(3)>>),
                                                  List(<<S(i), S(4), S(1)>>)>>))],
    !.edges = {<<<<"id">>, <<"grid">>>>},
    !.strings = {<<"grid">>},
    !.rules = {Rule({<<"grid">>}, "rewrite")}]

\* Arrays inside the documents of an array, and null for a document.
Deep == [Mongo EXCEPT
    !.docs = [i \in Ids |-> Doc(i, "a" :> List(<<Dict("b" :> List(<<S(1), S(3)>>) @@ "c" :> S(7)),
                                                Dict("b" :> List(<<S(3)>>) @@ "c" :> S(8)),
                                                Dict("b" :> List(<<S(i), S(2)>>))>>)
                                  @@ "info" :> (IF i = 2 THEN S(Null) ELSE Dict("n" :> S(9))))],
    !.edges = {<<<<"id">>, <<"a", "b">>>>},
    !.strings = {<<"a", "c">>, <<"info", "n">>},
    !.rules = {Rule({<<"a", "c">>}, "hash"), Rule({<<"info", "n">>}, "rewrite"),
               Rule({<<"a", "b">>}, "absent")}]

\* A key of two fields, empty in part and masked in part.
TwoKeys == [Tags EXCEPT
    !.docs = [i \in Ids |-> Doc(7, "ref" :> S(IF i = 1 THEN 0 ELSE i) @@ "tags" :> List([j \in 1 .. i |-> S(1)]))],
    !.keys = {"id", "ref"},
    !.rules = {Rule({<<"tags">>}, "random"), Rule({<<"ref">>}, "null")}]

\* A document where a scalar is expected, and three paths into an array.
Odd == [Mongo EXCEPT
    !.docs = [i \in Ids |-> Doc(i, "info" :> Dict("n" :> S(9))
                                  @@ "pii" :> (IF i = 2 THEN Dict("v" :> S(5)) ELSE S(5))
                                  @@ "a" :> List(<<Dict("b" :> List(<<S(1), S(3)>>) @@ "c" :> S(7)), S(8)>>))],
    !.edges = {<<<<"id">>, <<"a", "b">>>>, <<<<"id">>, <<"id">>>>, <<<<"others">>, <<"id">>>>},
    !.entire = {<<"a", "b">>},
    !.rules = {Rule({<<"a">>, <<"info">>}, "null"), Rule({<<"pii">>}, "rewrite")}]

MongoCases == {
    Odd, TwoKeys, [TwoKeys EXCEPT !.rules = {Rule({<<"tags">>}, "random")}],
    Tags, Embedded, Matrix, Deep,
    [Tags EXCEPT !.entire = {<<"tags">>}],
    [Tags EXCEPT !.edges = @ \union {<<<<"info", "n">>, <<"id">>>>},
                 !.docs[2] = Doc(2, "tags" :> List(<<S(3), S(4)>>) @@ "pii" :> S(5))],
    [Deep EXCEPT !.rules = {Rule({<<"a", "b">>}, "null")}, !.entire = {<<"a", "b">>}],
    [Matrix EXCEPT !.edges = @ \union {<<<<"others">>, <<"grid">>>>}]}

\* The rows of a case are its documents, by position, and its keys are positions.
Complete(c) == [c EXCEPT !.keys = {<<Name(k)>> : k \in @}] @@ [rows |-> [i \in Ids |-> Flat(c.docs[i])]]

MCCases == {Complete(c) : c \in SqlCases \union MongoCases}
MCIds == 1 .. 3
===============================================================================
