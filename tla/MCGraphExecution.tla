--------------------------- MODULE MCGraphExecution ---------------------------
(* GraphExecution on the sample graphs. *)
EXTENDS GraphExecution, SampleGraphs
===============================================================================
