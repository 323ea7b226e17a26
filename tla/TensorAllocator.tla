-------------------------- MODULE TensorAllocator --------------------------
(***************************************************************************)
(* ggml_dyn_tallocr of ggml-alloc.c: the allocator with which the memory of*)
(* a graph is planned.  Addresses are relative to chunks, each of which    *)
(* becomes a buffer; a chunk keeps its free blocks sorted by offset, here a*)
(* set.  Sizes are counted in units of the alignment, to which the code    *)
(* rounds them up, and are positive.                                       *)
(***************************************************************************)
EXTENDS Integers

CONSTANTS
  MaxChunks,      \* GGML_VBUFFER_MAX_CHUNKS, 16
  MaxChunkSize,   \* the largest buffer of the backend
  Endless,        \* the size of the last chunk, SIZE_MAX / 2
  Sizes           \* the sizes of tensors

ASSUME AllocatorAssumption ==
  /\ MaxChunks \in Nat \ {0} /\ MaxChunkSize \in Nat \ {0} /\ Endless \in Nat \ {0}
  /\ Sizes \subseteq Nat \ {0}

VARIABLES
  n_chunks,
  free,        \* per chunk: free_blocks, [offset, size]
  max_size,    \* per chunk
  live         \* history: the allocations, [chunk, offset, size]

allocatorVars == <<n_chunks, free, max_size, live>>

Heap == INSTANCE TensorHeap WITH reserved <- max_size

ChunkIds == 0 .. MaxChunks - 1
Block(offset, size) == [offset |-> offset, size |-> size]

Greater(m, n) == IF m > n THEN m ELSE n

AllocatorInit ==
  /\ n_chunks = 0
  /\ free = [c \in ChunkIds |-> {}]
  /\ max_size = [c \in ChunkIds |-> 0]
  /\ live = {}

-----------------------------------------------------------------------------
(***************************************************************************)
(* ggml_dyn_tallocr_alloc                                                  *)
(***************************************************************************)

\* The block that the array has at its end: it borders on the memory not used so far.
IsLast(b, c) == \A d \in free[c] : d.offset <= b.offset

Fitting(c, size) == {b \in free[c] : b.size >= size}
InnerFits(c, size) == {b \in Fitting(c, size) : ~IsLast(b, c)}
LastFits(c, size) == {b \in Fitting(c, size) : IsLast(b, c)}

\* Among the blocks that are not last: the search starts anew in every chunk, so it ends in
\* the last chunk that has one that fits, with the smallest, and the later of two equal ones.
BestInner(c, b, size) ==
  /\ b \in InnerFits(c, size)
  /\ \A e \in c + 1 .. n_chunks - 1 : InnerFits(e, size) = {}
  /\ \A d \in InnerFits(c, size) : b.size < d.size \/ (b.size = d.size /\ d.offset <= b.offset)

\* What is left over of the memory in use (negative: how much the chunk has to grow).
Reuse(c, b, size) == max_size[c] - b.offset - size

\* Little left over is better than much, and that better than growing, by less best of all.
Better(r, s) == (s < 0 /\ r > s) \/ (r >= 0 /\ r < s)

\* Among the last blocks: the first chunk whose reuse is the best.
BestLast(c, b, size) ==
  /\ \A e \in 0 .. n_chunks - 1 : InnerFits(e, size) = {}
  /\ b \in LastFits(c, size)
  /\ \A e \in 0 .. n_chunks - 1 : \A d \in LastFits(e, size) :
       LET r == Reuse(c, b, size)
           s == Reuse(e, d, size)
       IN  ~Better(s, r) /\ (s = r => c <= e)

\* ggml_dyn_tallocr_new_chunk: the last chunk is endless.
NewChunkSize(size) ==
  IF n_chunks = MaxChunks - 1 THEN Endless ELSE Greater(size, MaxChunkSize)

\* Where an allocation goes: a chunk and the block at whose start it is placed.  No place
\* is left only when all chunks are in use, the last one too; the program is then aborted.
Places(size) ==
  LET old == {p \in {<<c, b>> : c \in 0 .. n_chunks - 1, b \in UNION {free[e] : e \in ChunkIds}} :
                BestInner(p[1], p[2], size) \/ BestLast(p[1], p[2], size)}
  IN  IF old # {} THEN old
      ELSE IF n_chunks < MaxChunks /\ NewChunkSize(size) >= size
           THEN {<<n_chunks, Block(0, NewChunkSize(size))>>}
           ELSE {}

\* Mutant: the new block is not cut to what is left.
MutantRest(b, size) == IF b.size = size THEN {} ELSE {Block(b.offset + size, b.size)}

\* What is left of block b.
Rest(b, size) == IF b.size = size THEN {} ELSE {Block(b.offset + size, b.size - size)}

Address(p, size) == [chunk |-> p[1], offset |-> p[2].offset, size |-> size]

Allocate(p, size) ==
  LET c == p[1]
      b == p[2]
  IN  /\ n_chunks' = IF c = n_chunks THEN n_chunks + 1 ELSE n_chunks
      /\ free' = [free EXCEPT ![c] = (@ \ {b}) \union Rest(b, size)]
      /\ max_size' = [max_size EXCEPT ![c] = Greater(@, b.offset + size)]
      /\ live' = live \union {Address(p, size)}

-----------------------------------------------------------------------------
(***************************************************************************)
(* ggml_dyn_tallocr_free_bytes                                             *)
(***************************************************************************)
Before(a) == {b \in free[a.chunk] : b.offset + b.size = a.offset}
After(a) == {b \in free[a.chunk] : a.offset + a.size = b.offset}

\* Mutant: the freed block is merged with one neighbour only.
MutantMerged(a) ==
  IF Before(a) # {}
  THEN LET p == CHOOSE p \in Before(a) : TRUE IN Block(p.offset, p.size + a.size)
  ELSE Block(a.offset, a.size)

\* The freed block, merged with the free blocks on its two sides.
Merged(a) ==
  LET start == IF Before(a) = {} THEN a.offset ELSE (CHOOSE p \in Before(a) : TRUE).offset
      extra == IF After(a) = {} THEN 0 ELSE (CHOOSE n \in After(a) : TRUE).size
  IN  Block(start, a.offset + a.size + extra - start)

\* The code takes it on trust that the address is one it gave away.
Free(a) ==
  /\ free' = [free EXCEPT ![a.chunk] = (@ \ (Before(a) \union After(a))) \union {Merged(a)}]
  /\ live' = live \ {a}
  /\ UNCHANGED <<n_chunks, max_size>>

\* ggml_dyn_tallocr_reset
Reset ==
  /\ n_chunks' = 0
  /\ free' = [c \in ChunkIds |-> {}]
  /\ max_size' = [c \in ChunkIds |-> 0]
  /\ live' = {}

-----------------------------------------------------------------------------
\* The allocator under any user who frees what he was given, and once.
AllocatorNext ==
  \/ \E size \in Sizes : \E p \in Places(size) : Allocate(p, size)
  \/ \E a \in live : Free(a)
  \/ Reset

AllocatorSpec == AllocatorInit /\ [][AllocatorNext]_allocatorVars

-----------------------------------------------------------------------------
AllocatorTypeOK ==
  /\ n_chunks \in 0 .. MaxChunks
  /\ DOMAIN free = ChunkIds /\ \A c \in ChunkIds : free[c] \subseteq [offset : Nat, size : Nat \ {0}]
  /\ max_size \in [ChunkIds -> Nat]
  /\ live \subseteq [chunk : ChunkIds, offset : Nat, size : Nat \ {0}]

Apart(a, b) == a.offset + a.size <= b.offset \/ b.offset + b.size <= a.offset

\* Live allocations and free blocks never share memory: neither best fit nor merging of
\* neighbours hands out a byte twice.
NothingShared ==
  /\ \A a, b \in live : a # b /\ a.chunk = b.chunk => Apart(a, b)
  /\ \A c \in ChunkIds : \A b, d \in free[c] : b # d => Apart(b, d)
  /\ \A a \in live : \A b \in free[a.chunk] : Apart(a, b)

\* Freeing merges completely and forgets nothing: no two free blocks touch, and together with
\* the allocations the blocks fill the chunk from its start without a gap.
NothingLost ==
  \A c \in ChunkIds :
    LET blocks == free[c] \union {Block(a.offset, a.size) : a \in {x \in live : x.chunk = c}}
    IN  /\ \A b, d \in free[c] : b.offset + b.size # d.offset
        /\ \A b \in blocks : b.offset = 0 \/ \E d \in blocks : d.offset + d.size = b.offset
=============================================================================
