------------------------------ MODULE Positions -------------------------------
(***************************************************************************)
(* Scalars, and the positions in a row that field paths lead to. A         *)
(* position is a sequence of names and of indices, tagged as such; a path  *)
(* is a sequence of names.                                                 *)
(***************************************************************************)
EXTENDS Integers, SequencesExt

\* Scalars are integers. 0 stands for what Python takes for false (0, "").
Null == -1
DoNotMask == -2      \* FIDESOPS_DO_NOT_MASK
Masked == -3         \* whatever a strategy makes of a value
Raised == -4         \* not a value: the strategy has raised

Name(x) == <<"name", x>>
Index(i) == <<"index", i>>
IsIndex(level) == level[1] = "index"

Names(p) == LET named == SelectSeq(p, LAMBDA level : ~IsIndex(level)) IN
            [i \in DOMAIN named |-> named[i][2]]

\* The position is where the path leads, or where a scalar cuts it short.
LeadsTo(path, p) ==
    \/ Names(p) = path
    \/ Names(p) # << >> /\ ~IsIndex(Last(p)) /\ IsStrictPrefix(Names(p), path)
===============================================================================
