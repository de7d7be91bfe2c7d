--------------------------- MODULE MCSaasConnector ---------------------------
(***************************************************************************)
(* Two collections of a connector: each kind of pagination, grouped and    *)
(* independent inputs, post-processors, request-level clients, and the     *)
(* ways to mask.                                                           *)
(***************************************************************************)
EXTENDS SaasConnector, TLC

Item(id, owner) == <<<<id, owner>>>>

Base == [own |-> FALSE, inputs |-> <<("a" :> 1)>>, grouped |-> {}, inPath |-> {},
         paging |-> "none", first |-> 1, step |-> 1, limit |-> 1,
         pages |-> <<<<Item(1, "me"), Item(2, "other")>>>>,
         endless |-> FALSE, linksOn |-> FALSE, noCursor |-> 0, needs |-> FALSE,
         filter |-> FALSE, ignore |-> FALSE, masks |-> {}, found |-> {},
         lacks |-> FALSE]

ThreePages == <<<<Item(1, "me")>>, <<Item(2, "other"), Item(3, "me")>>, <<Item(4, "me")>>>>
TwoPages == SubSeq(ThreePages, 1, 2)

Offset == [Base EXCEPT !.paging = "offset", !.first = 2, !.step = 2, !.limit = 6, !.pages = ThreePages]
Cursor == [Base EXCEPT !.paging = "cursor", !.pages = ThreePages]
Twice(config) == [config EXCEPT !.inputs = <<("a" :> 1), ("a" :> 1)>>]
Link == [Base EXCEPT !.paging = "link", !.pages = TwoPages, !.own = TRUE]

Pair(x, y) == ("a" :> x) @@ ("b" :> y)
Together == [Base EXCEPT !.inputs = <<Pair(1, 5), Pair(2, 0), Pair(Null, 6)>>, !.grouped = {"a", "b"}]

Reads == {
    <<Offset, Link>>,
    <<[Offset EXCEPT !.endless = TRUE, !.filter = TRUE, !.pages = TwoPages],
      [Link EXCEPT !.linksOn = TRUE, !.ignore = TRUE]>>,
    <<[Offset EXCEPT !.limit = 1, !.own = TRUE], Twice([Cursor EXCEPT !.noCursor = 2])>>,
    <<Cursor, [Link EXCEPT !.needs = TRUE]>>,
    <<Together, [Base EXCEPT !.pages = << >>]>>,
    <<[Together EXCEPT !.inPath = {"a"}], [Together EXCEPT !.grouped = {}, !.inputs = <<Pair(0, 0), Pair(Null, 6)>>]>>,
    <<[Base EXCEPT !.filter = TRUE, !.pages = <<<<Item(1, "me"), Item(2, "none")>>>>, !.own = TRUE],
      [Base EXCEPT !.filter = TRUE, !.pages = <<<<<<<<1, "me">>, <<2, "other">>>>, << >>, <<<<3, "me">>>>>>>>]>>}

Update == [Base EXCEPT !.masks = {"update", "delete"}, !.found = {1, 2}]
Delete == [Base EXCEPT !.masks = {"gdpr", "delete"}, !.found = {1, 2}, !.own = TRUE]

Masks == {<<Update, Delete>>, <<Delete, [Delete EXCEPT !.ignore = TRUE, !.own = FALSE]>>,
          <<[Update EXCEPT !.ignore = TRUE], Base>>,
          <<[Update EXCEPT !.lacks = TRUE], Update>>}

MCCollections == {"c1", "c2"}
Of(pair) == [c \in MCCollections |-> IF c = "c1" THEN pair[1] ELSE pair[2]]

MCCases ==
    {[mode |-> "read", strict |-> FALSE, of |-> Of(pair)] : pair \in Reads} \union
    {[mode |-> "mask", strict |-> s, of |-> Of(pair)] : s \in BOOLEAN, pair \in Masks}
===============================================================================
