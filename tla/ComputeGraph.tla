---------------------------- MODULE ComputeGraph ----------------------------
(***************************************************************************)
(* The graph that the thread pool computes: its nodes in order, each cut   *)
(* into the pieces that the threads of the pool compute.                   *)
(***************************************************************************)
EXTENDS Integers, Sequences

CONSTANTS
  Nodes,         \* a sequence of "empty", "rows" and "mul_mat"
  NChunks,       \* the chunks of a matrix product ...
  ChunkFactor,   \* ... unless there are fewer than this for each thread
  NThreads       \* the threads of the pool

ASSUME GraphAssumption ==
  /\ Nodes \in Seq({"empty", "rows", "mul_mat"})
  /\ NChunks \in Nat \ {0} /\ ChunkFactor \in Nat \ {0} /\ NThreads \in Nat \ {0}

\* Nodes and threads are numbered from 0 as in the code.
Kind(m) == Nodes[m + 1]
NNodes == Len(Nodes)

\* Too few chunks are replaced by one for each thread.
Chunks(n) == IF NChunks < n * ChunkFactor THEN n ELSE NChunks

Pieces(m, phase, count) == {<<m, phase, c>> : c \in 0 .. count - 1}

\* The pieces of node m when n threads compute it: every thread has its rows, and its part
\* of the conversion of a product's operand; the chunks of the product are shared out.
PiecesOf(m, n) ==
  CASE Kind(m) = "empty"   -> {}
    [] Kind(m) = "rows"    -> Pieces(m, "rows", n)
    [] Kind(m) = "mul_mat" -> Pieces(m, "convert", n) \union Pieces(m, "product", Chunks(n))

AllPieces(n) == UNION {PiecesOf(m, n) : m \in 0 .. NNodes - 1}

\* Piece p must be finished before piece q is begun.
Precedes(p, q) == p[1] < q[1] \/ (p[1] = q[1] /\ p[2] = "convert" /\ q[2] = "product")
=============================================================================
