----------------------------- MODULE MCTraversal ------------------------------
(* Traversal on the sample graphs. *)
EXTENDS Traversal, SampleGraphs
===============================================================================
