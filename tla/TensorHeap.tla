----------------------------- MODULE TensorHeap -----------------------------
(***************************************************************************)
(* What ggml_dyn_tallocr promises the graph allocator: an address that no  *)
(* live allocation shares, and for every chunk the size that its buffer    *)
(* must have so that all addresses handed out so far lie in it.            *)
(***************************************************************************)
EXTENDS Integers

CONSTANT MaxChunks

VARIABLES
  live,       \* allocations: [chunk, offset, size]
  reserved    \* per chunk, the size of the buffer it needs

heapVars == <<live, reserved>>

ChunkIds == 0 .. MaxChunks - 1

Apart(a, b) == a.offset + a.size <= b.offset \/ b.offset + b.size <= a.offset

HeapInit == live = {} /\ reserved = [c \in ChunkIds |-> 0]

HeapAllocate(a) ==
  /\ a.chunk \in ChunkIds
  /\ \A b \in live : b.chunk = a.chunk => Apart(a, b)
  /\ live' = live \union {a}
  /\ reserved' = [reserved EXCEPT ![a.chunk] =
                    IF a.offset + a.size > @ THEN a.offset + a.size ELSE @]

HeapFree(a) ==
  /\ live' = live \ {a}
  /\ UNCHANGED reserved

HeapReset == live' = {} /\ reserved' = [c \in ChunkIds |-> 0]

HeapNext ==
  \/ \E a \in live' \ live : HeapAllocate(a)
  \/ \E a \in live : HeapFree(a)
  \/ HeapReset

HeapSpec == HeapInit /\ [][HeapNext]_heapVars
=============================================================================
