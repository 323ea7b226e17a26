---------------------------- MODULE MCThreadpool ----------------------------
(***************************************************************************)
(* A pool of two or three threads and a small graph.                       *)
(***************************************************************************)
EXTENDS Threadpool

\* A product, then rows; an empty node between them has no barrier.
ThreadSet == 0 .. NThreads - 1
GraphNodes == <<"mul_mat", "empty", "rows">>
=============================================================================
