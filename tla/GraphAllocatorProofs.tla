------------------------- MODULE GraphAllocatorProofs -------------------------
(***************************************************************************)
(* First the allocator, for tensors of any size, chunks of any size and    *)
(* any number of chunks: it never hands out memory twice, and implements   *)
(* TensorHeap.  Then the planner, for graphs of any length, kinds and      *)
(* sources: it uses the allocator as such a heap, and its plan is safe.    *)
(***************************************************************************)
EXTENDS GraphAllocator, FiniteSetTheorems, SequenceTheorems, WellFoundedInduction,
        TLAPS

FreeBlocks == [offset : Nat, size : Nat \ {0}]
Allocations == [chunk : ChunkIds, offset : Nat, size : Nat \ {0}]

TypeInv ==
  /\ n_chunks \in 0 .. MaxChunks
  /\ free \in [ChunkIds -> SUBSET FreeBlocks]
  /\ max_size \in [ChunkIds -> Nat]
  /\ live \in SUBSET Allocations

\* A chunk that is not in use yet has neither blocks nor allocations.
UnusedEmpty ==
  /\ \A c \in ChunkIds : c >= n_chunks => free[c] = {}
  /\ \A a \in live : a.chunk < n_chunks

LiveApart == \A a, b \in live : a # b /\ a.chunk = b.chunk => Apart(a, b)
FreeApart == \A c \in ChunkIds : \A b, d \in free[c] : b # d => Apart(b, d)
LiveNotFree == \A a \in live : \A b \in free[a.chunk] : Apart(a, b)

IInv == TypeInv /\ UnusedEmpty /\ LiveApart /\ FreeApart /\ LiveNotFree

USE AllocatorAssumption

-----------------------------------------------------------------------------
\* What is known of a place: it is a large enough free block of a chunk in use, or the block
\* of a new chunk.
Place(c, b, size) ==
  /\ c \in ChunkIds
  /\ b.offset \in Nat /\ b.size \in Nat \ {0}
  /\ b.size >= size
  /\ \/ c < n_chunks /\ b \in free[c]
     \/ c = n_chunks /\ b.offset = 0

LEMMA PlacesArePlaces ==
  ASSUME IInv, NEW size \in Sizes, NEW p \in Places(size)
  PROVE  Place(p[1], p[2], size)
<1> DEFINE blocks == UNION {free[e] : e \in ChunkIds}
           old == {q \in {<<c, b>> : c \in 0 .. n_chunks - 1, b \in blocks} :
                     BestInner(q[1], q[2], size) \/ BestLast(q[1], q[2], size)}
<1>1. CASE p \in old
  <2>1. PICK c \in 0 .. n_chunks - 1, b \in blocks : p = <<c, b>>
    BY <1>1
  <2>2. p[1] = c /\ p[2] = b
    BY <2>1
  <2>3. b \in free[c] /\ b.size >= size
    BY <1>1, <2>2 DEF BestInner, BestLast, InnerFits, LastFits, Fitting
  <2>4. c \in ChunkIds
    BY DEF IInv, TypeInv, ChunkIds
  <2>5. b \in FreeBlocks
    BY <2>3, <2>4 DEF IInv, TypeInv
  <2> QED
    BY <2>2, <2>3, <2>4, <2>5 DEF Place, FreeBlocks, IInv, TypeInv
<1>2. CASE p \notin old
  <2>1. /\ n_chunks < MaxChunks /\ NewChunkSize(size) >= size
        /\ p = <<n_chunks, Block(0, NewChunkSize(size))>>
    BY <1>2 DEF Places
  <2>2. p[1] = n_chunks /\ p[2] = Block(0, NewChunkSize(size))
    BY <2>1
  <2>3. NewChunkSize(size) \in Nat \ {0}
    BY DEF NewChunkSize, Greater
  <2> QED
    BY <2>1, <2>2, <2>3 DEF Place, Block, IInv, TypeInv, ChunkIds
<1> QED BY <1>1, <1>2

LEMMA AddressIsNew ==
  ASSUME IInv, NEW size \in Sizes, NEW p, Place(p[1], p[2], size)
  PROVE  /\ Address(p, size) \in Allocations
         /\ \A b \in live : b.chunk = p[1] => Apart(Address(p, size), b) /\ Apart(b, Address(p, size))
         /\ Address(p, size) \notin live
<1>1. Address(p, size) \in Allocations
  BY DEF Address, Place, Allocations
<1>2. ASSUME NEW b \in live, b.chunk = p[1]
      PROVE  Apart(Address(p, size), b) /\ Apart(b, Address(p, size))
  <2>1. b \in Allocations
    BY DEF IInv, TypeInv
  <2>2. p[2] \in free[p[1]]
    BY <1>2 DEF IInv, UnusedEmpty, Place, TypeInv, ChunkIds
  <2>3. Apart(b, p[2])
    BY <1>2, <2>2 DEF IInv, LiveNotFree
  <2> QED
    BY <2>1, <2>3 DEF Apart, Address, Place, Allocations
<1>3. Address(p, size) \notin live
  <2> SUFFICES ASSUME Address(p, size) \in live PROVE FALSE
    OBVIOUS
  <2>1. Apart(Address(p, size), Address(p, size))
    BY <1>2 DEF Address
  <2> QED
    BY <1>1, <2>1 DEF Apart, Allocations, Address
<1> QED BY <1>1, <1>2, <1>3

LEMMA RestIsInside ==
  ASSUME NEW size \in Sizes, NEW b, b.offset \in Nat, b.size \in Nat \ {0}, b.size >= size,
         NEW r \in Rest(b, size)
  PROVE  /\ r \in FreeBlocks
         /\ r.offset = b.offset + size
         /\ r.offset + r.size = b.offset + b.size
<1>1. b.size # size /\ r = Block(b.offset + size, b.size - size)
  BY DEF Rest
<1> QED BY <1>1 DEF Block, FreeBlocks

LEMMA AllocateKeeps ==
  ASSUME IInv, NEW size \in Sizes, NEW p, Place(p[1], p[2], size), Allocate(p, size)
  PROVE  IInv'
<1> DEFINE c == p[1]
           b == p[2]
           a == Address(p, size)
<1>0. /\ c \in ChunkIds /\ b.offset \in Nat /\ b.size \in Nat \ {0} /\ b.size >= size
      /\ \/ c < n_chunks /\ b \in free[c]
         \/ c = n_chunks /\ b.offset = 0
  BY DEF Place
<1>1. /\ n_chunks' = IF c = n_chunks THEN n_chunks + 1 ELSE n_chunks
      /\ free' = [free EXCEPT ![c] = (free[c] \ {b}) \union Rest(b, size)]
      /\ max_size' = [max_size EXCEPT ![c] = Greater(max_size[c], b.offset + size)]
      /\ live' = live \union {a}
  BY DEF Allocate
<1>2. /\ a \in Allocations /\ a \notin live
      /\ \A x \in live : x.chunk = c => Apart(a, x) /\ Apart(x, a)
  BY AddressIsNew
<1>3. a.chunk = c /\ a.offset = b.offset /\ a.size = size
  BY DEF Address
<1>4. /\ \A e \in ChunkIds : e # c => free'[e] = free[e]
      /\ free'[c] = (free[c] \ {b}) \union Rest(b, size)
  BY <1>0, <1>1 DEF IInv, TypeInv
<1>5. \A d \in free[c] \ {b} : d \in FreeBlocks /\ Apart(d, b)
  <2>1. CASE c < n_chunks
    BY <1>0, <2>1 DEF IInv, TypeInv, FreeApart
  <2>2. CASE c = n_chunks
    BY <1>0, <2>2 DEF IInv, UnusedEmpty, TypeInv, ChunkIds
  <2> QED BY <1>0, <2>1, <2>2
<1>6. ASSUME NEW r \in Rest(b, size)
      PROVE  r \in FreeBlocks /\ r.offset = b.offset + size /\ r.offset + r.size = b.offset + b.size
  BY <1>0, RestIsInside
<1>7. TypeInv'
  <2>1. n_chunks' \in 0 .. MaxChunks
    BY <1>0, <1>1 DEF IInv, TypeInv, ChunkIds
  <2>2. Rest(b, size) \subseteq FreeBlocks
    BY <1>6
  <2>3. free' \in [ChunkIds -> SUBSET FreeBlocks]
    BY <1>0, <1>1, <2>2 DEF IInv, TypeInv
  <2>4. max_size' \in [ChunkIds -> Nat]
    BY <1>0, <1>1 DEF IInv, TypeInv, Greater
  <2> QED
    BY <1>1, <1>2, <2>1, <2>3, <2>4 DEF IInv, TypeInv, ChunkIds, Allocations
<1>8. UnusedEmpty'
  <2>1. ASSUME NEW e \in ChunkIds, e >= n_chunks' PROVE free'[e] = {}
    <3>1. e # c /\ e >= n_chunks
      BY <1>0, <1>1, <2>1 DEF IInv, TypeInv, ChunkIds
    <3> QED BY <1>4, <3>1 DEF IInv, UnusedEmpty
  <2>2. ASSUME NEW x \in live' PROVE x.chunk < n_chunks'
    BY <1>0, <1>1, <1>3, <2>2 DEF IInv, UnusedEmpty, TypeInv, ChunkIds, Allocations
  <2> QED BY <2>1, <2>2 DEF UnusedEmpty, ChunkIds
<1>9. LiveApart'
  BY <1>1, <1>2, <1>3 DEF IInv, LiveApart, Apart
<1>10. FreeApart'
  <2> SUFFICES ASSUME NEW e \in ChunkIds, NEW x \in free'[e], NEW y \in free'[e], x # y
               PROVE  Apart(x, y)
    BY DEF FreeApart, ChunkIds, Apart
  <2>1. CASE e # c
    BY <1>4, <2>1 DEF IInv, FreeApart
  <2>2. CASE e = c
    <3>1. CASE x \in free[c] \ {b} /\ y \in free[c] \ {b}
      BY <1>0, <3>1 DEF IInv, FreeApart
    <3>2. CASE x \in Rest(b, size) /\ y \in Rest(b, size)
      BY <3>2 DEF Rest
    <3>3. ASSUME NEW d \in free[c] \ {b}, NEW r \in Rest(b, size) PROVE Apart(d, r) /\ Apart(r, d)
      <4>1. /\ d.offset \in Nat /\ d.size \in Nat /\ r.offset \in Nat /\ r.size \in Nat
            /\ size \in Nat /\ b.offset \in Nat /\ b.size \in Nat
        BY <1>0, <1>5, <1>6 DEF FreeBlocks
      <4>2. Apart(d, b) /\ r.offset = b.offset + size /\ r.offset + r.size = b.offset + b.size
        BY <1>5, <1>6
      <4> QED BY <4>1, <4>2 DEF Apart
    <3> QED BY <1>4, <2>2, <3>1, <3>2, <3>3
  <2> QED BY <2>1, <2>2
<1>11. LiveNotFree'
  <2> SUFFICES ASSUME NEW x \in live', NEW y \in free'[x.chunk]
               PROVE  Apart(x, y)
    BY DEF LiveNotFree, Apart
  <2>0. x \in Allocations /\ x.chunk \in ChunkIds
    BY <1>7 DEF TypeInv, Allocations, ChunkIds
  <2>1. CASE x \in live /\ x.chunk # c
    BY <1>4, <2>0, <2>1 DEF IInv, LiveNotFree
  <2>2. CASE x \in live /\ x.chunk = c
    <3>1. b \in free[c]
      BY <1>0, <2>2 DEF IInv, UnusedEmpty, TypeInv, ChunkIds
    <3>2. Apart(x, b)
      BY <2>2, <3>1 DEF IInv, LiveNotFree
    <3>3. CASE y \in free[c]
      BY <2>2, <3>3 DEF IInv, LiveNotFree
    <3>4. CASE y \in Rest(b, size)
      BY <1>0, <1>6, <2>0, <3>2, <3>4 DEF Apart, FreeBlocks, Allocations
    <3> QED BY <1>4, <2>2, <3>3, <3>4
  <2>3. CASE x = a
    <3>1. CASE y \in free[c] \ {b}
      BY <1>0, <1>3, <1>5, <2>3, <3>1 DEF Apart, FreeBlocks
    <3>2. CASE y \in Rest(b, size)
      BY <1>0, <1>3, <1>6, <2>3, <3>2 DEF Apart, FreeBlocks
    <3> QED BY <1>3, <1>4, <2>3, <3>1, <3>2
  <2> QED BY <1>1, <2>1, <2>2, <2>3
<1> QED BY <1>7, <1>8, <1>9, <1>10, <1>11 DEF IInv

-----------------------------------------------------------------------------
\* The block that is freed, with its free neighbours: what they cover together.
LEMMA MergedCovers ==
  ASSUME IInv, NEW a \in live
  PROVE  /\ Merged(a) \in FreeBlocks
         /\ Merged(a).offset <= a.offset
         /\ a.offset + a.size <= Merged(a).offset + Merged(a).size
         /\ \/ Before(a) = {} /\ Merged(a).offset = a.offset
            \/ \E p \in Before(a) : Merged(a).offset = p.offset
         /\ \/ After(a) = {} /\ Merged(a).offset + Merged(a).size = a.offset + a.size
            \/ \E n \in After(a) : Merged(a).offset + Merged(a).size = n.offset + n.size
<1> DEFINE p == CHOOSE x \in Before(a) : TRUE
           n == CHOOSE x \in After(a) : TRUE
           start == IF Before(a) = {} THEN a.offset ELSE p.offset
           extra == IF After(a) = {} THEN 0 ELSE n.size
<1>1. a \in Allocations /\ a.chunk \in ChunkIds
  BY DEF IInv, TypeInv, Allocations
<1>2. /\ Before(a) # {} => p \in Before(a)
      /\ After(a) # {} => n \in After(a)
  OBVIOUS
<1>3. Before(a) \subseteq FreeBlocks /\ After(a) \subseteq FreeBlocks
  BY <1>1 DEF Before, After, IInv, TypeInv
<1>4. /\ start \in Nat /\ start <= a.offset
      /\ (Before(a) = {} /\ start = a.offset) \/ \E x \in Before(a) : start = x.offset
  <2>1. CASE Before(a) = {}
    BY <1>1, <2>1 DEF Allocations
  <2>2. CASE Before(a) # {}
    <3>1. p \in Before(a) /\ p \in FreeBlocks
      BY <1>2, <1>3, <2>2
    <3>2. p.offset + p.size = a.offset
      BY <3>1 DEF Before
    <3>3. start = p.offset
      BY <2>2
    <3> HIDE DEF p
    <3> QED BY <1>1, <3>1, <3>2, <3>3 DEF FreeBlocks, Allocations
  <2> QED BY <2>1, <2>2
<1>5. /\ extra \in Nat
      /\ (After(a) = {} /\ extra = 0) \/ \E x \in After(a) : a.offset + a.size + extra = x.offset + x.size
  <2>1. CASE After(a) = {}
    BY <2>1
  <2>2. CASE After(a) # {}
    <3>1. n \in After(a) /\ n \in FreeBlocks
      BY <1>2, <1>3, <2>2
    <3>2. a.offset + a.size = n.offset
      BY <3>1 DEF After
    <3>3. extra = n.size
      BY <2>2
    <3> HIDE DEF n
    <3> QED BY <1>1, <3>1, <3>2, <3>3 DEF FreeBlocks, Allocations
  <2> QED BY <2>1, <2>2
<1>6. Merged(a) = Block(start, a.offset + a.size + extra - start)
  BY DEF Merged
<1> HIDE DEF start, extra
<1>7. /\ Merged(a).offset = start
      /\ Merged(a).size = a.offset + a.size + extra - start
  BY <1>6 DEF Block
<1>8. Merged(a) \in FreeBlocks
  BY <1>1, <1>4, <1>5, <1>6 DEF Block, FreeBlocks, Allocations
<1>9. Merged(a).offset + Merged(a).size = a.offset + a.size + extra
  BY <1>1, <1>4, <1>5, <1>7 DEF Allocations
<1> QED BY <1>1, <1>4, <1>5, <1>7, <1>8, <1>9 DEF Allocations

\* What is apart from the freed block and its neighbours is apart from their union.
LEMMA MergedApart ==
  ASSUME IInv, NEW a \in live,
         NEW x, x.offset \in Nat, x.size \in Nat \ {0},
         Apart(x, a),
         \A p \in Before(a) : Apart(x, p),
         \A n \in After(a) : Apart(x, n)
  PROVE  Apart(x, Merged(a)) /\ Apart(Merged(a), x)
<1>1. a \in Allocations
  BY DEF IInv, TypeInv
<1>2. Before(a) \subseteq FreeBlocks /\ After(a) \subseteq FreeBlocks
  BY <1>1 DEF Before, After, IInv, TypeInv, Allocations
<1>3. \A p \in Before(a) : p.offset + p.size = a.offset
  BY DEF Before
<1>4. \A n \in After(a) : a.offset + a.size = n.offset
  BY DEF After
<1>5. CASE x.offset + x.size <= a.offset
  <2>1. x.offset + x.size <= Merged(a).offset
    <3>1. CASE Merged(a).offset = a.offset
      BY <1>5, <3>1
    <3>2. CASE \E p \in Before(a) : Merged(a).offset = p.offset
      BY <1>1, <1>2, <1>3, <1>5, <3>2 DEF Apart, FreeBlocks, Allocations
    <3> QED BY <3>1, <3>2, MergedCovers
  <2> QED BY <2>1 DEF Apart
<1>6. CASE a.offset + a.size <= x.offset
  <2>1. Merged(a).offset + Merged(a).size <= x.offset
    <3>1. CASE Merged(a).offset + Merged(a).size = a.offset + a.size
      BY <1>6, <3>1
    <3>2. CASE \E n \in After(a) : Merged(a).offset + Merged(a).size = n.offset + n.size
      BY <1>1, <1>2, <1>4, <1>6, <3>2 DEF Apart, FreeBlocks, Allocations
    <3> QED BY <3>1, <3>2, MergedCovers
  <2> QED BY <2>1 DEF Apart
<1> QED BY <1>5, <1>6 DEF Apart

LEMMA FreeKeeps ==
  ASSUME IInv, NEW a \in live, Free(a)
  PROVE  IInv'
<1> DEFINE c == a.chunk
           kept == free[c] \ (Before(a) \union After(a))
<1>1. a \in Allocations /\ c \in ChunkIds
  BY DEF IInv, TypeInv, Allocations
<1>2. /\ live' = live \ {a} /\ UNCHANGED <<n_chunks, max_size>>
      /\ free' = [free EXCEPT ![c] = kept \union {Merged(a)}]
  BY DEF Free
<1>3. Merged(a) \in FreeBlocks
  BY MergedCovers
<1>4. /\ \A e \in ChunkIds : e # c => free'[e] = free[e]
      /\ free'[c] = kept \union {Merged(a)}
  BY <1>1, <1>2 DEF IInv, TypeInv
<1>5. ASSUME NEW d \in kept PROVE Apart(d, Merged(a)) /\ Apart(Merged(a), d)
  <2>1. d \in FreeBlocks
    BY <1>1 DEF IInv, TypeInv
  <2>2. Apart(a, d)
    BY DEF IInv, LiveNotFree
  <2>3. Apart(d, a)
    BY <2>2 DEF Apart
  <2>4. (\A p \in Before(a) : Apart(d, p)) /\ \A n \in After(a) : Apart(d, n)
    BY <1>1 DEF IInv, FreeApart, Before, After
  <2> QED BY <2>1, <2>3, <2>4, MergedApart DEF FreeBlocks
<1>6. ASSUME NEW x \in live', x.chunk = c PROVE Apart(x, Merged(a))
  <2>1. x \in Allocations /\ x # a /\ x \in live
    BY <1>2 DEF IInv, TypeInv
  <2>2. Apart(x, a)
    BY <1>6, <2>1 DEF IInv, LiveApart
  <2>3. (\A p \in Before(a) : Apart(x, p)) /\ \A n \in After(a) : Apart(x, n)
    BY <1>6, <2>1 DEF IInv, LiveNotFree, Before, After
  <2> QED BY <2>1, <2>2, <2>3, MergedApart DEF Allocations
<1>7. TypeInv'
  <2>1. kept \union {Merged(a)} \in SUBSET FreeBlocks
    BY <1>1, <1>3 DEF IInv, TypeInv
  <2>2. free' \in [ChunkIds -> SUBSET FreeBlocks]
    BY <1>1, <1>2, <2>1 DEF IInv, TypeInv
  <2> QED
    BY <1>2, <2>2 DEF IInv, TypeInv, ChunkIds, Allocations
<1>8. UnusedEmpty'
  <2>1. c < n_chunks
    BY DEF IInv, UnusedEmpty
  <2>2. ASSUME NEW e \in ChunkIds, e >= n_chunks PROVE free'[e] = {}
    <3>1. e # c
      BY <1>1, <2>1, <2>2 DEF IInv, TypeInv, ChunkIds
    <3> QED BY <1>4, <2>2, <3>1 DEF IInv, UnusedEmpty
  <2>3. ASSUME NEW x \in live' PROVE x.chunk < n_chunks
    BY <1>2 DEF IInv, UnusedEmpty
  <2> QED BY <1>2, <2>2, <2>3 DEF UnusedEmpty, ChunkIds
<1>9. LiveApart'
  BY <1>2 DEF IInv, LiveApart, Apart
<1>10. FreeApart'
  <2> SUFFICES ASSUME NEW e \in ChunkIds, NEW x \in free'[e], NEW y \in free'[e], x # y
               PROVE  Apart(x, y)
    BY DEF FreeApart, ChunkIds, Apart
  <2>1. CASE e # c
    BY <1>4, <2>1 DEF IInv, FreeApart
  <2>2. CASE e = c
    <3>1. CASE x \in kept /\ y \in kept
      BY <1>1, <3>1 DEF IInv, FreeApart
    <3>2. CASE x = Merged(a) \/ y = Merged(a)
      BY <1>4, <1>5, <2>2, <3>2
    <3> QED BY <1>4, <2>2, <3>1, <3>2
  <2> QED BY <2>1, <2>2
<1>11. LiveNotFree'
  <2> SUFFICES ASSUME NEW x \in live', NEW y \in free'[x.chunk]
               PROVE  Apart(x, y)
    BY DEF LiveNotFree, Apart
  <2>0. x.chunk \in ChunkIds /\ x \in live
    BY <1>2 DEF IInv, TypeInv, Allocations
  <2>1. CASE x.chunk # c
    BY <1>4, <2>0, <2>1 DEF IInv, LiveNotFree
  <2>2. CASE x.chunk = c
    <3>1. CASE y \in kept
      BY <2>0, <2>2, <3>1 DEF IInv, LiveNotFree
    <3>2. CASE y = Merged(a)
      BY <1>6, <2>2, <3>2
    <3> QED BY <1>4, <2>2, <3>1, <3>2
  <2> QED BY <2>1, <2>2
<1> QED BY <1>7, <1>8, <1>9, <1>10, <1>11 DEF IInv

-----------------------------------------------------------------------------
LEMMA InitiallyApart == AllocatorInit => IInv
<1> SUFFICES ASSUME AllocatorInit PROVE IInv
  OBVIOUS
<1>1. TypeInv
  BY DEF AllocatorInit, TypeInv, ChunkIds
<1> QED
  BY <1>1 DEF AllocatorInit, IInv, UnusedEmpty, LiveApart, FreeApart, LiveNotFree

LEMMA ResetKeeps == ASSUME Reset PROVE IInv'
<1>1. TypeInv'
  BY DEF Reset, TypeInv, ChunkIds
<1> QED
  BY <1>1 DEF Reset, IInv, UnusedEmpty, LiveApart, FreeApart, LiveNotFree, ChunkIds

LEMMA StepKeepsApart == IInv /\ [AllocatorNext]_allocatorVars => IInv'
<1> SUFFICES ASSUME IInv, [AllocatorNext]_allocatorVars PROVE IInv'
  OBVIOUS
<1>1. ASSUME NEW size \in Sizes, NEW p \in Places(size), Allocate(p, size) PROVE IInv'
  BY <1>1, PlacesArePlaces, AllocateKeeps
<1>2. ASSUME NEW a \in live, Free(a) PROVE IInv'
  BY <1>2, FreeKeeps
<1>3. ASSUME Reset PROVE IInv'
  BY <1>3, ResetKeeps
<1>4. ASSUME UNCHANGED allocatorVars PROVE IInv'
  BY <1>4 DEF allocatorVars, IInv, TypeInv, UnusedEmpty, LiveApart, FreeApart, LiveNotFree,
              ChunkIds, Allocations, Apart
<1> QED BY <1>1, <1>2, <1>3, <1>4 DEF AllocatorNext

LEMMA ApartAlways == AllocatorSpec => []IInv
BY InitiallyApart, StepKeepsApart, PTL DEF AllocatorSpec

\* However tensors are allocated and freed, no byte belongs to two allocations, to two free
\* blocks, or to an allocation and a free block (ggml_dyn_tallocr_alloc and _free_bytes).
THEOREM NothingIsShared == AllocatorSpec => []NothingShared
<1>1. IInv => NothingShared
  BY DEF IInv, LiveApart, FreeApart, LiveNotFree, NothingShared
<1> QED BY <1>1, ApartAlways, PTL

-----------------------------------------------------------------------------
\* Nothing is lost: where a block or an allocation of chunk c starts, another ends, or it is
\* the start of the chunk.
Founded(c, offset) ==
  \/ offset = 0
  \/ \E b \in free[c] : b.offset + b.size = offset
  \/ \E a \in live : a.chunk = c /\ a.offset + a.size = offset

NoGaps ==
  \A c \in ChunkIds :
    /\ \A b \in free[c] : Founded(c, b.offset)
    /\ \A a \in live : a.chunk = c => Founded(c, a.offset)

FreeIsolated == \A c \in ChunkIds : \A b, d \in free[c] : b.offset + b.size # d.offset

Complete == NoGaps /\ FreeIsolated

LEMMA AllocateCompletes ==
  ASSUME IInv, Complete, NEW size \in Sizes, NEW p, Place(p[1], p[2], size), Allocate(p, size)
  PROVE  Complete'
<1> DEFINE c == p[1]
           b == p[2]
           a == Address(p, size)
<1>0. /\ c \in ChunkIds /\ b.offset \in Nat /\ b.size \in Nat \ {0} /\ b.size >= size
      /\ \/ c < n_chunks /\ b \in free[c]
         \/ c = n_chunks /\ b.offset = 0
  BY DEF Place
<1>1. /\ free' = [free EXCEPT ![c] = (free[c] \ {b}) \union Rest(b, size)]
      /\ live' = live \union {a}
  BY DEF Allocate
<1>2. a.chunk = c /\ a.offset = b.offset /\ a.size = size
  BY DEF Address
<1>3. /\ \A e \in ChunkIds : e # c => free'[e] = free[e]
      /\ free'[c] = (free[c] \ {b}) \union Rest(b, size)
  BY <1>0, <1>1 DEF IInv, TypeInv
<1>4. c = n_chunks => free[c] = {}
  BY <1>0 DEF IInv, UnusedEmpty, TypeInv
<1>5. ASSUME NEW r \in Rest(b, size)
      PROVE  r \in FreeBlocks /\ r.offset = b.offset + size /\ r.offset + r.size = b.offset + b.size
  BY <1>0, RestIsInside
<1>6. ASSUME NEW e \in ChunkIds, NEW o, Founded(e, o) PROVE Founded(e, o)'
  <2>1. CASE e # c
    BY <1>1, <1>3, <1>6, <2>1 DEF Founded
  <2>2. CASE e = c /\ b \in free[c] /\ o = b.offset + b.size
    <3>1. CASE b.size = size
      BY <1>1, <1>2, <2>2, <3>1 DEF Founded
    <3>2. CASE b.size # size
      <4>1. PICK r \in Rest(b, size) : TRUE
        BY <3>2 DEF Rest
      <4> QED BY <1>3, <1>5, <2>2, <4>1 DEF Founded
    <3> QED BY <3>1, <3>2
  <2>3. CASE e = c /\ ~(b \in free[c] /\ o = b.offset + b.size)
    BY <1>1, <1>3, <1>6, <2>3 DEF Founded
  <2> QED BY <2>1, <2>2, <2>3
<1>7. Founded(c, b.offset)
  BY <1>0 DEF Complete, NoGaps, Founded
<1>8. NoGaps'
  <2>1. ASSUME NEW e \in ChunkIds, NEW x \in free'[e] PROVE Founded(e, x.offset)'
    <3>1. CASE x \in free[e]
      BY <1>6, <3>1 DEF Complete, NoGaps
    <3>2. CASE x \notin free[e]
      <4>1. e = c /\ x \in Rest(b, size)
        BY <1>3, <3>2
      <4>2. x.offset = a.offset + a.size
        BY <1>2, <1>5, <4>1
      <4> QED BY <1>1, <1>2, <4>1, <4>2 DEF Founded
    <3> QED BY <3>1, <3>2
  <2>2. ASSUME NEW x \in live' PROVE Founded(x.chunk, x.offset)'
    <3>1. CASE x \in live
      <4>1. x.chunk \in ChunkIds
        BY <3>1 DEF IInv, TypeInv, Allocations
      <4> QED BY <1>6, <3>1, <4>1 DEF Complete, NoGaps
    <3>2. CASE x = a
      BY <1>0, <1>2, <1>6, <1>7, <3>2
    <3> QED BY <1>1, <3>1, <3>2
  <2> QED BY <2>1, <2>2 DEF NoGaps, ChunkIds
<1>9. FreeIsolated'
  <2> SUFFICES ASSUME NEW e \in ChunkIds, NEW x \in free'[e], NEW y \in free'[e]
               PROVE  x.offset + x.size # y.offset
    BY DEF FreeIsolated, ChunkIds
  <2>1. CASE x \in free[e] /\ y \in free[e]
    BY <2>1 DEF Complete, FreeIsolated
  <2>2. CASE e = c /\ x \in Rest(b, size) /\ y \in Rest(b, size)
    BY <1>5, <2>2 DEF Rest, FreeBlocks
  <2>3. CASE e = c /\ x \in free[c] \ {b} /\ y \in Rest(b, size)
    <3>1. b \in free[c] /\ x \in FreeBlocks
      BY <1>0, <1>4, <2>3 DEF IInv, TypeInv
    <3>2. Apart(x, b)
      BY <1>0, <2>3, <3>1 DEF IInv, FreeApart
    <3> QED BY <1>0, <1>5, <2>3, <3>1, <3>2 DEF Apart, FreeBlocks
  <2>4. CASE e = c /\ x \in Rest(b, size) /\ y \in free[c] \ {b}
    <3>1. b \in free[c]
      BY <1>0, <1>4, <2>4
    <3>2. b.offset + b.size # y.offset
      BY <1>0, <2>4, <3>1 DEF Complete, FreeIsolated
    <3> QED BY <1>5, <2>4, <3>2
  <2> QED BY <1>3, <2>1, <2>2, <2>3, <2>4
<1> QED BY <1>8, <1>9 DEF Complete

LEMMA FreeCompletes ==
  ASSUME IInv, Complete, NEW a \in live, Free(a)
  PROVE  Complete'
<1> DEFINE c == a.chunk
           m == Merged(a)
           kept == free[c] \ (Before(a) \union After(a))
<1>1. a \in Allocations /\ c \in ChunkIds
  BY DEF IInv, TypeInv, Allocations
<1>2. /\ live' = live \ {a}
      /\ free' = [free EXCEPT ![c] = kept \union {m}]
  BY DEF Free
<1>3. /\ \A e \in ChunkIds : e # c => free'[e] = free[e]
      /\ free'[c] = kept \union {m}
  BY <1>1, <1>2 DEF IInv, TypeInv
<1>4. free[c] \subseteq FreeBlocks /\ m \in FreeBlocks
  BY <1>1, MergedCovers DEF IInv, TypeInv
<1>5. /\ \A x \in Before(a) : x \in free[c] /\ x.offset + x.size = a.offset
      /\ \A x \in After(a) : x \in free[c] /\ x.offset = a.offset + a.size
      /\ \A x \in kept : x \in free[c] /\ x.offset + x.size # a.offset /\ x.offset # a.offset + a.size
  BY DEF Before, After
<1>6. /\ \/ Before(a) = {} /\ m.offset = a.offset
         \/ \E x \in Before(a) : m.offset = x.offset
      /\ \/ After(a) = {} /\ m.offset + m.size = a.offset + a.size
         \/ \E x \in After(a) : m.offset + m.size = x.offset + x.size
  BY MergedCovers
<1>7. \A x, y \in free[c] : x.offset + x.size # y.offset
  BY <1>1 DEF Complete, FreeIsolated
<1> HIDE DEF m, kept
\* What another block or allocation starts at is an end still, be it that of the merged block.
<1>8. ASSUME NEW y, y.offset \in Nat, y.size \in Nat \ {0}, Apart(a, y),
             \A x \in free[c] : y = x \/ Apart(y, x),
             y \in free[c] => y \in kept,
             Founded(c, y.offset)
      PROVE  Founded(c, y.offset)'
  <2>1. CASE y.offset = 0
    BY <2>1 DEF Founded
  <2>2. CASE \E x \in live : x # a /\ x.chunk = c /\ x.offset + x.size = y.offset
    BY <1>2, <2>2 DEF Founded
  <2>3. CASE y.offset = a.offset + a.size
    <3>1. y \notin free[c]
      BY <1>5, <1>8, <2>3
    <3>2. After(a) = {}
      <4> SUFFICES ASSUME NEW x \in After(a) PROVE FALSE
        OBVIOUS
      <4>1. x \in FreeBlocks /\ x.offset = y.offset
        BY <1>4, <1>5, <2>3
      <4>2. Apart(y, x)
        BY <1>5, <1>8, <3>1
      <4> QED BY <1>8, <4>1, <4>2 DEF Apart, FreeBlocks
    <3> QED BY <1>3, <1>6, <2>3, <3>2, <1>1 DEF Founded
  <2>4. ASSUME NEW x \in free[c], x.offset + x.size = y.offset PROVE Founded(c, y.offset)'
    <3>0. x \in FreeBlocks
      BY <1>4
    <3>1. CASE x \in kept
      BY <1>1, <1>3, <2>4, <3>1 DEF Founded
    <3>2. CASE x \in Before(a)
      <4>1. y.offset = a.offset
        BY <1>5, <2>4, <3>2
      <4> QED BY <1>1, <1>8, <4>1 DEF Apart, Allocations
    <3>3. CASE x \in After(a)
      <4>1. PICK n \in After(a) : m.offset + m.size = n.offset + n.size
        BY <1>6, <3>3
      <4>2. n \in free[c] /\ n \in FreeBlocks /\ n.offset = x.offset
        BY <1>4, <1>5, <3>3, <4>1
      <4>3. n = x
        <5> SUFFICES ASSUME n # x PROVE FALSE
          OBVIOUS
        <5>1. Apart(n, x)
          BY <1>1, <4>2 DEF IInv, FreeApart
        <5> QED BY <3>0, <4>2, <5>1 DEF Apart, FreeBlocks
      <4> QED BY <1>1, <1>3, <2>4, <4>1, <4>3 DEF Founded
    <3> QED BY <3>1, <3>2, <3>3 DEF kept
  <2> QED BY <1>8, <2>1, <2>2, <2>3, <2>4 DEF Founded
<1>9. ASSUME NEW o, o = m.offset PROVE Founded(c, o)'
  <2>1. CASE Before(a) = {} /\ m.offset = a.offset
    <3>1. Founded(c, a.offset)
      BY <1>1 DEF Complete, NoGaps
    <3>2. ~\E x \in free[c] : x.offset + x.size = a.offset
      BY <2>1 DEF Before
    <3>3. a.offset + a.size # a.offset
      BY <1>1 DEF Allocations
    <3> QED BY <1>2, <1>9, <2>1, <3>1, <3>2, <3>3 DEF Founded
  <2>2. ASSUME NEW x \in Before(a), m.offset = x.offset PROVE Founded(c, o)'
    <3>1. x \in free[c] /\ x \in FreeBlocks /\ x.offset + x.size = a.offset
      BY <1>4, <1>5
    <3>2. Founded(c, x.offset)
      BY <1>1, <3>1 DEF Complete, NoGaps
    <3>3. a.offset + a.size # x.offset
      BY <1>1, <3>1 DEF Allocations, FreeBlocks
    <3> QED BY <1>2, <1>7, <1>9, <2>2, <3>1, <3>2, <3>3 DEF Founded
  <2> QED BY <1>6, <2>1, <2>2
<1>10. NoGaps'
  <2>1. ASSUME NEW e \in ChunkIds, e # c, NEW o, Founded(e, o) PROVE Founded(e, o)'
    BY <1>2, <1>3, <2>1 DEF Founded
  <2>2. ASSUME NEW e \in ChunkIds, NEW x \in free'[e] PROVE Founded(e, x.offset)'
    <3>1. CASE e # c
      BY <1>3, <2>1, <3>1 DEF Complete, NoGaps
    <3>2. CASE e = c /\ x \in kept
      <4>1. x \in free[c] /\ x \in FreeBlocks
        BY <1>4, <1>5, <3>2
      <4>2. Apart(a, x)
        BY <4>1 DEF IInv, LiveNotFree
      <4>3. \A z \in free[c] : x = z \/ Apart(x, z)
        BY <1>1, <4>1 DEF IInv, FreeApart
      <4>4. Founded(c, x.offset)
        BY <1>1, <4>1 DEF Complete, NoGaps
      <4> QED BY <1>8, <3>2, <4>1, <4>2, <4>3, <4>4 DEF FreeBlocks
    <3> QED BY <1>3, <1>9, <3>1, <3>2
  <2>3. ASSUME NEW x \in live' PROVE Founded(x.chunk, x.offset)'
    <3>0. x \in live /\ x # a /\ x \in Allocations /\ x.chunk \in ChunkIds
      BY <1>2 DEF IInv, TypeInv, Allocations
    <3>1. Founded(x.chunk, x.offset)
      BY <3>0 DEF Complete, NoGaps
    <3>2. CASE x.chunk # c
      BY <2>1, <3>0, <3>1, <3>2
    <3>3. CASE x.chunk = c
      <4>1. Apart(a, x)
        BY <3>0, <3>3 DEF IInv, LiveApart
      <4>2. \A z \in free[c] : Apart(x, z)
        BY <3>0, <3>3 DEF IInv, LiveNotFree
      <4>3. x.offset \in Nat /\ x.size \in Nat \ {0}
        BY <3>0 DEF Allocations
      <4>4. x \notin free[c]
        <5> SUFFICES ASSUME x \in free[c] PROVE FALSE
          OBVIOUS
        <5>1. Apart(x, x)
          BY <4>2
        <5> QED BY <4>3, <5>1 DEF Apart
      <4> QED BY <1>8, <3>1, <3>3, <4>1, <4>2, <4>3, <4>4
    <3> QED BY <3>2, <3>3
  <2> QED BY <2>2, <2>3 DEF NoGaps, ChunkIds
<1>11. FreeIsolated'
  <2> SUFFICES ASSUME NEW e \in ChunkIds, NEW x \in free'[e], NEW y \in free'[e]
               PROVE  x.offset + x.size # y.offset
    BY DEF FreeIsolated, ChunkIds
  <2>1. CASE e # c
    BY <1>3, <2>1 DEF Complete, FreeIsolated
  <2>2. CASE e = c /\ x \in kept /\ y \in kept
    BY <1>5, <1>7, <2>2
  <2>3. CASE e = c /\ x = m /\ y \in kept
    BY <1>5, <1>6, <1>7, <2>3
  <2>4. CASE e = c /\ x \in kept /\ y = m
    BY <1>5, <1>6, <1>7, <2>4
  <2>5. CASE x = m /\ y = m
    BY <1>4, <2>5 DEF FreeBlocks
  <2> QED BY <1>3, <2>1, <2>2, <2>3, <2>4, <2>5
<1> QED BY <1>10, <1>11 DEF Complete

LEMMA StepKeepsComplete == IInv /\ Complete /\ [AllocatorNext]_allocatorVars => Complete'
<1> SUFFICES ASSUME IInv, Complete, [AllocatorNext]_allocatorVars PROVE Complete'
  OBVIOUS
<1>1. ASSUME NEW size \in Sizes, NEW p \in Places(size), Allocate(p, size) PROVE Complete'
  BY <1>1, PlacesArePlaces, AllocateCompletes
<1>2. ASSUME NEW a \in live, Free(a) PROVE Complete'
  BY <1>2, FreeCompletes
<1>3. ASSUME Reset PROVE Complete'
  BY <1>3 DEF Reset, Complete, NoGaps, FreeIsolated, ChunkIds
<1>4. ASSUME UNCHANGED allocatorVars PROVE Complete'
  BY <1>4 DEF allocatorVars, Complete, NoGaps, FreeIsolated, Founded, ChunkIds
<1> QED BY <1>1, <1>2, <1>3, <1>4 DEF AllocatorNext

\* However tensors are allocated and freed, no two free blocks touch and no byte below a block
\* or an allocation is forgotten: freeing merges on both sides (ggml_dyn_tallocr_free_bytes).
THEOREM NothingIsLost == AllocatorSpec => []NothingLost
<1>1. AllocatorInit => Complete
  BY DEF AllocatorInit, Complete, NoGaps, FreeIsolated, ChunkIds
<1>2. ASSUME TypeInv, Complete PROVE NothingLost
  <2> SUFFICES ASSUME NEW c \in ChunkIds
               PROVE  LET blocks == free[c] \union {Block(a.offset, a.size) : a \in {x \in live : x.chunk = c}}
                      IN  /\ \A b, d \in free[c] : b.offset + b.size # d.offset
                          /\ \A b \in blocks : b.offset = 0 \/ \E d \in blocks : d.offset + d.size = b.offset
    BY DEF NothingLost
  <2> DEFINE blocks == free[c] \union {Block(a.offset, a.size) : a \in {x \in live : x.chunk = c}}
  <2>1. ASSUME NEW o, Founded(c, o) PROVE o = 0 \/ \E d \in blocks : d.offset + d.size = o
    <3>1. ASSUME NEW a \in live, a.chunk = c, a.offset + a.size = o
          PROVE  \E d \in blocks : d.offset + d.size = o
      <4>1. Block(a.offset, a.size) \in blocks
        BY <3>1
      <4>2. Block(a.offset, a.size).offset + Block(a.offset, a.size).size = o
        BY <3>1 DEF Block
      <4> QED BY <4>1, <4>2
    <3> QED BY <2>1, <3>1 DEF Founded
  <2>2. ASSUME NEW b \in blocks PROVE Founded(c, b.offset)
    <3>1. CASE b \in free[c]
      BY <1>2, <3>1 DEF Complete, NoGaps
    <3>2. ASSUME NEW a \in live, a.chunk = c, b = Block(a.offset, a.size) PROVE Founded(c, b.offset)
      BY <1>2, <3>2 DEF Complete, NoGaps, Block
    <3> QED BY <2>2, <3>1, <3>2
  <2> QED BY <1>2, <2>1, <2>2 DEF Complete, FreeIsolated
<1> QED BY <1>1, <1>2, ApartAlways, StepKeepsComplete, PTL DEF AllocatorSpec, IInv

-----------------------------------------------------------------------------
LEMMA AllocateIsHeapAllocate ==
  ASSUME IInv, NEW size \in Sizes, NEW p \in Places(size), Allocate(p, size)
  PROVE  Heap!HeapNext
<1> DEFINE a == Address(p, size)
<1>0. Place(p[1], p[2], size)
  BY PlacesArePlaces
<1>1. a \in live' \ live
  BY <1>0, AddressIsNew DEF Allocate
<1>2. a.chunk = p[1] /\ a.offset = p[2].offset /\ a.size = size
  BY DEF Address
<1>3. a.chunk \in Heap!ChunkIds
  BY <1>0, <1>2 DEF Place, ChunkIds, Heap!ChunkIds
<1>4. \A b \in live : b.chunk = a.chunk => Heap!Apart(a, b)
  BY <1>0, <1>2, AddressIsNew DEF Apart, Heap!Apart
<1>5. live' = live \union {a}
  BY DEF Allocate
<1>6. max_size' = [max_size EXCEPT ![a.chunk] =
                     IF a.offset + a.size > max_size[a.chunk]
                     THEN a.offset + a.size ELSE max_size[a.chunk]]
  <2>1. max_size' = [max_size EXCEPT ![p[1]] = Greater(max_size[p[1]], p[2].offset + size)]
    BY DEF Allocate
  <2>2. max_size[p[1]] \in Nat /\ p[2].offset + size \in Nat
    BY <1>0 DEF Place, IInv, TypeInv
  <2>3. Greater(max_size[p[1]], p[2].offset + size)
          = IF p[2].offset + size > max_size[p[1]] THEN p[2].offset + size ELSE max_size[p[1]]
    BY <2>2 DEF Greater
  <2> QED BY <1>2, <2>1, <2>3
<1>7. Heap!HeapAllocate(a)
  BY <1>3, <1>4, <1>5, <1>6 DEF Heap!HeapAllocate
<1> QED BY <1>1, <1>7 DEF Heap!HeapNext

\* The allocator with its chunks, best fits and merged blocks implements the abstract heap.
THEOREM AllocatorImplementsHeap == AllocatorSpec => Heap!HeapSpec
<1>1. AllocatorInit => Heap!HeapInit
  BY DEF AllocatorInit, Heap!HeapInit, ChunkIds, Heap!ChunkIds
<1>2. ASSUME IInv, [AllocatorNext]_allocatorVars
      PROVE  [Heap!HeapNext]_(Heap!heapVars)
  <2>1. ASSUME NEW size \in Sizes, NEW p \in Places(size), Allocate(p, size)
        PROVE  Heap!HeapNext
    BY <1>2, <2>1, AllocateIsHeapAllocate
  <2>2. ASSUME NEW a \in live, Free(a) PROVE Heap!HeapNext
    BY <2>2 DEF Free, Heap!HeapNext, Heap!HeapFree
  <2>3. ASSUME Reset PROVE Heap!HeapNext
    BY <2>3 DEF Reset, Heap!HeapNext, Heap!HeapReset, ChunkIds, Heap!ChunkIds
  <2>4. ASSUME UNCHANGED allocatorVars PROVE UNCHANGED Heap!heapVars
    BY <2>4 DEF allocatorVars, Heap!heapVars
  <2> QED BY <1>2, <2>1, <2>2, <2>3, <2>4 DEF AllocatorNext
<1> QED BY <1>1, <1>2, ApartAlways, PTL DEF AllocatorSpec, Heap!HeapSpec
-----------------------------------------------------------------------------

Ops == {"leaf", "weight", "inplace", "other", "view"}
AnyTensor == [op : Ops, src : Seq(Nat), root : Nat, output : BOOLEAN]
Indices == 1 .. NTensors

\* The graph is in topological order, its leafs are first, and the root of a view is no view.
WellFormed(t) ==
  /\ \A k \in Sources(t) : k \in 1 .. MaxSources /\ graph[t].src[k] \in 1 .. t - 1
  /\ t \in Leafs => Sources(t) = {}
  /\ IF IsView(t) THEN graph[t].root \in 1 .. t - 1 /\ ~IsView(graph[t].root) ELSE graph[t].root = t

GraphOK ==
  /\ graph \in Seq(AnyTensor) /\ Len(graph) <= NTensors
  /\ \A t \in Tensors : WellFormed(t)
  /\ \A t \in Leafs : \A s \in 1 .. t - 1 : s \in Leafs
  /\ \A t \in Tensors : IsView(t) => Readings(graph[t].root) # {}

Counted == {"parents", "update", "reserve", "planned", "failed"}

PlaceOK ==
  /\ phase \in {"build", "leafs"} \union Counted
  /\ i \in Nat \ {0} /\ j \in Nat \ {0}
  /\ phase # "build" => Len(graph) = NTensors
  /\ phase = "leafs" => i <= NTensors + 1 /\ 1 .. i - 1 \subseteq Leafs
  /\ phase \in {"parents", "update"} => i \in Tensors \ Leafs

HashOK ==
  /\ n_children \in [Indices -> Int] /\ n_views \in [Indices -> Int]
  /\ allocated \in [Indices -> BOOLEAN]
  /\ addr \in [Indices -> [chunk : ChunkIds, offset : Nat, size : Nat]]
  /\ buffers \in [ChunkIds -> Nat]

\* The tensors that have got an address of their own.
Processed ==
  {t \in Tensors : Own(t) /\
     \/ phase \in {"leafs", "parents"} /\ t < i
     \/ phase = "update" /\ t <= i
     \/ phase \in {"reserve", "planned", "failed"}}

\* The readings of tensor t that the planner has not come to, and the views that it has not
\* seen read for the last time.
Pending(t) ==
  {r \in Readings(t) :
     \/ phase = "parents" /\ r[1] >= i
     \/ phase = "update" /\ (r[1] > i \/ (r[1] = i /\ r[2] >= j))}
PendingViews(t) == {v \in Views(t) : Readings(v) = {} \/ Pending(v) # {}}

Counts ==
  phase \in Counted => \A t \in Tensors :
    /\ n_children[t] = Cardinality(Pending(t))
    /\ n_views[t] = Cardinality(PendingViews(t))

Wanted(t) == graph[t].output \/ Readings(t) = {} \/ Pending(t) # {} \/ PendingViews(t) # {}

\* What has memory is wanted.
HeldIsWanted ==
  \A t \in Indices : allocated[t] => t \in Processed /\ (phase \in Counted => Wanted(t))

\* What has none any more is not, but by the node that has taken it over.
LostIsRead ==
  \A t \in Processed : ~allocated[t] =>
    /\ phase \in Counted
    /\ ~graph[t].output /\ Readings(t) # {} /\ PendingViews(t) = {}
    /\ \A r \in Pending(t) : phase = "update" /\ r[1] = i

Held == {t \in Indices : allocated[t]}

Memory ==
  /\ live = {addr[t] : t \in Held}
  /\ \A t, u \in Held : addr[t] = addr[u] => t = u
  /\ \A t \in Processed :
       /\ addr[t] \in Allocations /\ addr[t].size = Size(t)
       /\ addr[t].chunk < n_chunks
       /\ addr[t].offset + Size(t) <= max_size[addr[t].chunk]

\* What PlanIsSafe says of a node and a tensor before it.
Reads(n, t) == \E u \in {t} \union Views(t) : \E r \in Readings(u) : r[1] = n
Safe(n, t) == ~NeededAfter(t, n) /\ (Reads(n, t) => Overwrites(n, t))

SafeSoFar ==
  \A n \in Processed \ Leafs : \A t \in Processed :
    t < n /\ Overlap(addr[n], addr[t]) => Safe(n, t)

Fits == phase = "planned" => \A c \in 0 .. n_chunks - 1 : max_size[c] <= buffers[c]

PlanInv ==
  GraphOK /\ PlaceOK /\ HashOK /\ Counts /\ HeldIsWanted /\ LostIsRead /\ Memory /\ SafeSoFar /\ Fits

-----------------------------------------------------------------------------
LEMMA ReadingsAre ==
  ASSUME GraphOK, NEW t \in Tensors
  PROVE  /\ \A r \in Readings(t) : /\ r = <<r[1], r[2]>>
                                   /\ r[1] \in Tensors /\ r[2] \in 1 .. MaxSources
                                   /\ r[2] \in Sources(r[1]) /\ graph[r[1]].src[r[2]] = t
                                   /\ t < r[1] /\ r[1] \notin Leafs
         /\ \A n \in Tensors : \A k \in Sources(n) : graph[n].src[k] = t => <<n, k>> \in Readings(t)
         /\ IsFiniteSet(Readings(t)) /\ IsFiniteSet(Views(t))
         /\ Views(t) \subseteq Tensors
<1>1. Tensors = 1 .. Len(graph) /\ Len(graph) \in Nat
  BY LenProperties DEF GraphOK, Tensors
<1>2. \A n \in Tensors : WellFormed(n)
  BY DEF GraphOK
<1>3. \A r \in Readings(t) : /\ r = <<r[1], r[2]>>
                             /\ r[1] \in Tensors /\ r[2] \in 1 .. MaxSources
                             /\ r[2] \in Sources(r[1]) /\ graph[r[1]].src[r[2]] = t
  BY DEF Readings
<1>4. \A r \in Readings(t) : t < r[1] /\ r[1] \notin Leafs
  BY <1>1, <1>2, <1>3 DEF WellFormed
<1>5. \A n \in Tensors : \A k \in Sources(n) : graph[n].src[k] = t => <<n, k>> \in Readings(t)
  BY <1>2 DEF Readings, WellFormed
<1>6. IsFiniteSet(Tensors) /\ IsFiniteSet(1 .. MaxSources)
  <2>1. \A n \in Nat : n \in Int
    OBVIOUS
  <2>2. 1 \in Int /\ MaxSources \in Int
    BY PlanAssumption
  <2> QED BY <1>1, <2>1, <2>2, FS_Interval
<1>7. IsFiniteSet(Tensors \X (1 .. MaxSources))
  BY <1>6, FS_Product
<1>8. Readings(t) \in SUBSET (Tensors \X (1 .. MaxSources))
  BY <1>3
<1>9. IsFiniteSet(Readings(t))
  BY <1>7, <1>8, FS_Subset
<1>10. Views(t) \in SUBSET Tensors
  BY DEF Views
<1>11. IsFiniteSet(Views(t))
  BY <1>6, <1>10, FS_Subset
<1> QED BY <1>3, <1>4, <1>5, <1>9, <1>10, <1>11

\* Nothing but the walk changes.
LEMMA SameGraph ==
  ASSUME UNCHANGED graph
  PROVE  /\ Tensors' = Tensors /\ Leafs' = Leafs
         /\ \A t : /\ Readings(t)' = Readings(t) /\ Views(t)' = Views(t)
                   /\ Sources(t)' = Sources(t) /\ IsView(t)' = IsView(t) /\ Own(t)' = Own(t)
                   /\ WellFormed(t)' = WellFormed(t)
         /\ GraphOK => GraphOK'
<1>1. Tensors' = Tensors /\ Leafs' = Leafs
  BY DEF Tensors, Leafs
<1>2. \A t : /\ Readings(t)' = Readings(t) /\ Views(t)' = Views(t)
             /\ Sources(t)' = Sources(t) /\ IsView(t)' = IsView(t) /\ Own(t)' = Own(t)
             /\ WellFormed(t)' = WellFormed(t)
  BY <1>1 DEF Readings, Views, Sources, IsView, Own, WellFormed
<1> QED BY <1>1, <1>2 DEF GraphOK

LEMMA TensorsAre ==
  ASSUME GraphOK, PlaceOK
  PROVE  /\ Tensors = 1 .. Len(graph) /\ Len(graph) \in Nat /\ Tensors \subseteq Indices
         /\ phase # "build" => Tensors = Indices /\ Len(graph) = NTensors
         /\ Leafs \subseteq Tensors /\ NTensors \in Nat
<1>1. Tensors = 1 .. Len(graph) /\ Len(graph) \in Nat
  BY LenProperties DEF GraphOK, Tensors
<1>2. NTensors \in Nat /\ Leafs \subseteq Tensors
  BY PlanAssumption DEF NTensors, Leafs
<1> QED BY <1>1, <1>2 DEF GraphOK, PlaceOK, Indices

LEMMA PendingIsFinite ==
  ASSUME GraphOK, NEW t \in Tensors
  PROVE  IsFiniteSet(Pending(t)) /\ IsFiniteSet(PendingViews(t))
<1>1. Pending(t) \in SUBSET Readings(t) /\ PendingViews(t) \in SUBSET Views(t)
  BY DEF Pending, PendingViews
<1>2. IsFiniteSet(Readings(t)) /\ IsFiniteSet(Views(t))
  BY ReadingsAre
<1> QED BY <1>1, <1>2, FS_Subset

LEMMA OneViewLess ==
  ASSUME GraphOK, NEW t \in Tensors, NEW v \in PendingViews(t)
  PROVE  Cardinality(PendingViews(t) \ {v}) = Cardinality(PendingViews(t)) - 1
BY PendingIsFinite, FS_RemoveElement

\* What the two counters of a tensor tell.
LEMMA CountsMean ==
  ASSUME GraphOK, Counts, phase \in Counted, NEW t \in Tensors
  PROVE  /\ IsFiniteSet(Pending(t)) /\ IsFiniteSet(PendingViews(t))
         /\ n_children[t] = 0 <=> Pending(t) = {}
         /\ n_children[t] = 1 => \E r : Pending(t) = {r}
         /\ n_views[t] = 0 <=> PendingViews(t) = {}
<1>1. IsFiniteSet(Pending(t)) /\ IsFiniteSet(PendingViews(t))
  BY PendingIsFinite
<1>2. n_children[t] = Cardinality(Pending(t)) /\ n_views[t] = Cardinality(PendingViews(t))
  BY DEF Counts
<1> QED BY <1>1, <1>2, FS_EmptySet, FS_Singleton

\* What is safe stays so while addresses stay.
LEMMA SafeStays ==
  ASSUME UNCHANGED graph, NEW n, NEW t, addr'[n] = addr[n], addr'[t] = addr[t]
  PROVE  Overlap(addr[n], addr[t])' = Overlap(addr[n], addr[t]) /\ Safe(n, t)' = Safe(n, t)
<1>1. \A u : Readings(u)' = Readings(u) /\ Views(u)' = Views(u) /\ Sources(u)' = Sources(u)
  BY SameGraph
<1>2. Reads(n, t)' = Reads(n, t)
  BY <1>1 DEF Reads
<1>3. NeededAfter(t, n)' = NeededAfter(t, n)
  <2>1. \A u : IsView(u)' = IsView(u)
    BY SameGraph
  <2> QED BY <1>1, <2>1 DEF NeededAfter, ReadAfter
<1>4. Overwrites(n, t)' = Overwrites(n, t)
  BY <1>1 DEF Overwrites
<1> QED BY <1>2, <1>3, <1>4 DEF Safe, Overlap, Apart

LEMMA SameAddresses ==
  ASSUME SafeSoFar, UNCHANGED <<graph, addr>>, Processed' = Processed
  PROVE  SafeSoFar'
<1>1. Leafs' = Leafs
  BY SameGraph
<1>2. ASSUME NEW n, NEW t
      PROVE  Overlap(addr[n], addr[t])' = Overlap(addr[n], addr[t]) /\ Safe(n, t)' = Safe(n, t)
  BY SafeStays
<1> QED BY <1>1, <1>2 DEF SafeSoFar

-----------------------------------------------------------------------------
\* A step that only moves on in the walk, past readings and tensors that it leaves as they are.
LEMMA MoveKeeps ==
  ASSUME PlanInv, phase \in Counted, phase' \in Counted,
         UNCHANGED <<allocatorVars, graph, hashVars>>,
         PlaceOK', buffers' \in [ChunkIds -> Nat], Fits', Processed' = Processed,
         \A t \in Tensors : Pending(t)' = Pending(t),
         \A t \in Processed : ~allocated[t] => \A r \in Pending(t) : phase' = "update" /\ r[1] = i'
  PROVE  PlanInv'
<1> USE DEF PlanInv
<1>1. GraphOK' /\ Tensors' = Tensors /\ Leafs' = Leafs
  BY SameGraph
<1>2. \A t : Readings(t)' = Readings(t) /\ Views(t)' = Views(t)
  BY SameGraph
<1>3. \A t \in Tensors : Views(t) \subseteq Tensors
  BY ReadingsAre
<1>4. \A t \in Tensors : PendingViews(t)' = PendingViews(t)
  BY <1>2, <1>3 DEF PendingViews
<1>5. HashOK'
  BY DEF HashOK, hashVars
<1>6. Counts'
  BY <1>1, <1>4 DEF Counts, hashVars
<1>7. Processed \subseteq Tensors
  BY DEF Processed
<1>8. \A t \in Tensors : Wanted(t)' = Wanted(t)
  BY <1>2, <1>4 DEF Wanted
<1>9. HeldIsWanted'
  BY <1>7, <1>8 DEF HeldIsWanted, hashVars
<1>10. LostIsRead'
  BY <1>2, <1>4, <1>7 DEF LostIsRead, hashVars
<1>11. Memory'
  BY DEF Memory, Held, hashVars, allocatorVars
<1>12. SafeSoFar'
  BY SameAddresses DEF hashVars
<1> QED BY <1>1, <1>5, <1>6, <1>9, <1>10, <1>11, <1>12

-----------------------------------------------------------------------------
(***************************************************************************)
(* What becomes of the memory.                                             *)
(***************************************************************************)

\* A new address is apart from all that is held.
LEMMA FreshMemory ==
  ASSUME IInv, PlanInv, NEW t \in Indices, t \notin Processed, NEW p \in Places(Size(t)),
         Allocate(p, Size(t)), addr' = [addr EXCEPT ![t] = Address(p, Size(t))],
         allocated' = [allocated EXCEPT ![t] = TRUE], Processed' = Processed \union {t}
  PROVE  /\ Memory' /\ Held' = Held \union {t} /\ t \notin Held
         /\ \A u \in Held : ~Overlap(addr'[t], addr[u])
<1> DEFINE size == Size(t)
           a == Address(p, size)
<1>0. size \in Sizes /\ size \in Nat \ {0}
  BY PlanAssumption, AllocatorAssumption DEF Size, Indices, NTensors
<1>1. Place(p[1], p[2], size)
  BY <1>0, PlacesArePlaces
<1>2. /\ a \in Allocations /\ a \notin live
      /\ \A b \in live : b.chunk = p[1] => Apart(a, b)
  BY <1>0, <1>1, AddressIsNew
<1>3. a.chunk = p[1] /\ a.offset = p[2].offset /\ a.size = size
  BY DEF Address
<1>4. /\ live' = live \union {a}
      /\ n_chunks' = IF p[1] = n_chunks THEN n_chunks + 1 ELSE n_chunks
      /\ max_size' = [max_size EXCEPT ![p[1]] = Greater(max_size[p[1]], p[2].offset + size)]
  BY DEF Allocate
<1> HIDE DEF size
<1>5. \A u \in Indices : /\ allocated'[u] = IF u = t THEN TRUE ELSE allocated[u]
                         /\ addr'[u] = IF u = t THEN a ELSE addr[u]
  BY DEF PlanInv, HashOK, size
<1> HIDE DEF a
<1>6. Held' = Held \union {t} /\ t \notin Held
  BY <1>5 DEF Held, PlanInv, HeldIsWanted
<1>7. \A u \in Held : u \in Indices /\ u # t /\ addr[u] \in live
  BY <1>6 DEF Held, PlanInv, Memory
<1>m. live = {addr[u] : u \in Held} /\ \A u, v \in Held : addr[u] = addr[v] => u = v
  BY DEF PlanInv, Memory
<1>n. addr'[t] = a /\ \A u \in Held : addr'[u] = addr[u]
  BY <1>5, <1>7
<1>8. live' = {addr'[u] : u \in Held'}
  BY <1>4, <1>6, <1>m, <1>n
<1>9. \A u, v \in Held' : addr'[u] = addr'[v] => u = v
  BY <1>2, <1>6, <1>7, <1>m, <1>n
<1>10. /\ p[1] \in ChunkIds /\ p[2].offset \in Nat /\ p[1] <= n_chunks /\ n_chunks \in Nat
       /\ \A c \in ChunkIds : /\ max_size[c] \in Nat /\ max_size'[c] \in Nat /\ max_size'[c] >= max_size[c]
                              /\ c = p[1] => max_size'[c] >= p[2].offset + size
  <2>1. p[1] \in ChunkIds /\ p[2].offset \in Nat /\ (p[1] < n_chunks \/ p[1] = n_chunks)
    BY <1>1 DEF Place
  <2>2. n_chunks \in Nat /\ max_size \in [ChunkIds -> Nat]
    BY DEF IInv, TypeInv
  <2>3. p[1] \in Nat /\ p[1] <= n_chunks
    BY <2>1, <2>2 DEF ChunkIds
  <2>4. PICK end : end = p[2].offset + size
    BY Zenon
  <2>5. end \in Nat
    BY <1>0, <2>1, <2>4
  <2>6. \A c \in ChunkIds : max_size'[c] = IF c = p[1] THEN Greater(max_size[c], end) ELSE max_size[c]
    BY <1>4, <2>2, <2>4
  <2>7. ASSUME NEW c \in ChunkIds
        PROVE  /\ max_size[c] \in Nat /\ max_size'[c] \in Nat /\ max_size'[c] >= max_size[c]
               /\ c = p[1] => max_size'[c] >= end
    <3>1. max_size[c] \in Nat
      BY <2>2
    <3> QED BY <2>5, <2>6, <3>1 DEF Greater
  <2> QED BY <2>1, <2>2, <2>3, <2>4, <2>7
<1>11. n_chunks' \in Nat /\ n_chunks <= n_chunks' /\ p[1] < n_chunks'
  BY <1>4, <1>10 DEF ChunkIds
<1>12. ASSUME NEW u \in Processed'
       PROVE  /\ addr'[u] \in Allocations /\ addr'[u].size = Size(u)
              /\ addr'[u].chunk < n_chunks'
              /\ addr'[u].offset + Size(u) <= max_size'[addr'[u].chunk]
  <2>1. CASE u = t
    <3>1. addr'[u] = a /\ size = Size(u)
      BY <1>5, <2>1 DEF size
    <3>2. a.chunk < n_chunks' /\ a.offset + size <= max_size'[a.chunk]
      BY <1>3, <1>10, <1>11
    <3> QED BY <1>2, <1>3, <3>1, <3>2
  <2>2. CASE u # t
    <3>1. u \in Processed /\ u \in Indices
      BY <2>2, TensorsAre DEF Processed, PlanInv
    <3>2. addr'[u] = addr[u]
      BY <1>5, <2>2, <3>1
    <3>3. /\ addr[u] \in Allocations /\ addr[u].size = Size(u)
          /\ addr[u].chunk < n_chunks
          /\ addr[u].offset + Size(u) <= max_size[addr[u].chunk]
      BY <3>1 DEF PlanInv, Memory
    <3>4. addr[u].chunk \in ChunkIds /\ addr[u].chunk \in Nat /\ addr[u].offset + Size(u) \in Nat
      BY <3>3 DEF Allocations, ChunkIds
    <3> QED BY <1>10, <1>11, <3>2, <3>3, <3>4
  <2> QED BY <2>1, <2>2
<1>13. Memory'
  BY <1>8, <1>9, <1>12 DEF Memory, Allocations, ChunkIds, Size
<1>14. ASSUME NEW u \in Held PROVE ~Overlap(addr'[t], addr[u])
  <2>1. addr[u] \in live
    BY <1>7
  <2> QED BY <1>2, <1>3, <1>n, <2>1 DEF Overlap
<1> QED BY <1>6, <1>13, <1>14

\* A node takes over the address of its parent.
LEMMA TakenMemory ==
  ASSUME PlanInv, NEW t \in Indices, t \notin Processed, NEW p \in Held, Size(t) = Size(p),
         UNCHANGED allocatorVars, addr' = [addr EXCEPT ![t] = addr[p]],
         allocated' = [allocated EXCEPT ![t] = TRUE, ![p] = FALSE],
         Processed' = Processed \union {t}
  PROVE  /\ Memory' /\ Held' = (Held \ {p}) \union {t} /\ t \notin Held
         /\ p \in Processed
<1>1. t \notin Held /\ p # t /\ p \in Indices /\ p \in Processed
  BY DEF Held, PlanInv, HeldIsWanted
<1>2. \A u \in Indices : /\ allocated'[u] = IF u = p THEN FALSE ELSE IF u = t THEN TRUE ELSE allocated[u]
                         /\ addr'[u] = IF u = t THEN addr[p] ELSE addr[u]
  BY <1>1 DEF PlanInv, HashOK
<1>3. Held' = (Held \ {p}) \union {t}
  BY <1>1, <1>2 DEF Held
<1>4. \A u \in Held : u \in Indices
  BY DEF Held
<1>m. live = {addr[u] : u \in Held} /\ \A u, v \in Held : addr[u] = addr[v] => u = v
  BY DEF PlanInv, Memory
<1>n. addr'[t] = addr[p] /\ \A u \in Held : addr'[u] = addr[u]
  BY <1>1, <1>2, <1>4
<1>5. live' = {addr'[u] : u \in Held'}
  BY <1>1, <1>3, <1>m, <1>n DEF allocatorVars
<1>6. \A u, v \in Held' : addr'[u] = addr'[v] => u = v
  BY <1>1, <1>3, <1>m, <1>n
<1>7. Processed \subseteq Indices
  BY TensorsAre DEF Processed, PlanInv
<1>8. ASSUME NEW u \in Processed'
      PROVE  /\ addr'[u] \in Allocations /\ addr'[u].size = Size(u)
             /\ addr'[u].chunk < n_chunks'
             /\ addr'[u].offset + Size(u) <= max_size'[addr'[u].chunk]
  <2>1. PICK v \in Processed : addr'[u] = addr[v] /\ Size(u) = Size(v)
    BY <1>1, <1>2, <1>7, <1>8
  <2>2. /\ addr[v] \in Allocations /\ addr[v].size = Size(v)
        /\ addr[v].chunk < n_chunks
        /\ addr[v].offset + Size(v) <= max_size[addr[v].chunk]
    BY DEF PlanInv, Memory
  <2> QED BY <2>1, <2>2 DEF allocatorVars
<1> QED BY <1>1, <1>3, <1>5, <1>6, <1>8 DEF Memory, Allocations, ChunkIds, Size

\* A tensor's memory is freed.
LEMMA FreedMemory ==
  ASSUME PlanInv, NEW t \in Held, Free(addr[t]), UNCHANGED addr,
         allocated' = [allocated EXCEPT ![t] = FALSE], Processed' = Processed
  PROVE  Memory' /\ Held' = Held \ {t}
<1>1. \A u \in Indices : allocated'[u] = IF u = t THEN FALSE ELSE allocated[u]
  BY DEF PlanInv, HashOK
<1>2. Held' = Held \ {t}
  BY <1>1 DEF Held
<1>3. live' = live \ {addr[t]} /\ UNCHANGED <<n_chunks, max_size>>
  BY DEF Free
<1>4. live' = {addr'[u] : u \in Held'}
  BY <1>2, <1>3 DEF PlanInv, Memory
<1> QED BY <1>2, <1>3, <1>4 DEF PlanInv, Memory, Allocations, ChunkIds, Size

-----------------------------------------------------------------------------
(***************************************************************************)
(* The steps before the walk.                                              *)
(***************************************************************************)

\* The graph grows by a tensor that reads what is there.
LEMMA GrowsWell ==
  ASSUME GraphOK, Len(graph) < NTensors, NEW x \in AnyTensor, graph' = Append(graph, x),
         \A k \in DOMAIN x.src : k \in 1 .. MaxSources /\ x.src[k] \in Tensors,
         x.op \in {"leaf", "weight"} => x.src = <<>> /\ Tensors = Leafs,
         IF x.op = "view"
         THEN \E s \in Tensors : x.src = <<s>> /\ x.root = graph[s].root
         ELSE x.root = Position
  PROVE  GraphOK'
<1>0. PICK n : n = Len(graph) + 1
  OBVIOUS
<1>1. /\ graph \in Seq(AnyTensor) /\ Len(graph) \in Nat
      /\ graph' \in Seq(AnyTensor) /\ Len(graph') = n
      /\ \A t \in 1 .. Len(graph) : graph'[t] = graph[t]
      /\ graph'[n] = x
  BY <1>0, AppendProperties, LenProperties DEF GraphOK
<1>2. Tensors = 1 .. Len(graph) /\ Tensors' = 1 .. n
  BY <1>0, <1>1, LenProperties DEF Tensors
<1>3. \A t \in Tensors : graph'[t] = graph[t] /\ t \in Tensors' /\ t # n
  BY <1>0, <1>1, <1>2
<1>4. \A t \in Tensors' : t \in Tensors \/ t = n
  BY <1>0, <1>1, <1>2
<1>5. n \in Tensors' /\ n \in Nat /\ n <= NTensors
  BY <1>0, <1>1, <1>2, PlanAssumption DEF NTensors
<1>6. Leafs \subseteq Leafs' /\ \A t \in Tensors : t \in Leafs' <=> t \in Leafs
  BY <1>3 DEF Leafs
<1>7. ASSUME NEW t \in Tensors PROVE WellFormed(t)' /\ IsView(t)' = IsView(t)
  <2>1. WellFormed(t)
    BY DEF GraphOK
  <2>2. CASE IsView(t)
    <3>1. graph[t].root \in Tensors
      BY <1>1, <1>2, <2>1, <2>2 DEF WellFormed
    <3> QED BY <1>3, <1>6, <2>1, <3>1 DEF WellFormed, Sources, IsView
  <2>3. CASE ~IsView(t)
    BY <1>3, <1>6, <2>1, <2>3 DEF WellFormed, Sources, IsView
  <2> QED BY <2>2, <2>3
<1>8. \A t \in Tensors : IsView(t) => graph[t].root \in Tensors /\ ~IsView(graph[t].root)
  BY <1>1, <1>2 DEF GraphOK, WellFormed
<1>9. \A s \in Tensors : ~IsView(s) => graph[s].root = s
  BY DEF GraphOK, WellFormed
<1>10. WellFormed(n)'
  <2>1. (\A k \in Sources(n) : k \in 1 .. MaxSources /\ graph[n].src[k] \in 1 .. n - 1)'
    BY <1>0, <1>1, <1>2 DEF Sources
  <2>2. (n \in Leafs => Sources(n) = {})'
    BY <1>1 DEF Leafs, Sources
  <2>3. CASE x.op = "view"
    <3>1. PICK s \in Tensors : x.src = <<s>> /\ x.root = graph[s].root
      BY <2>3
    <3>2. x.root \in Tensors /\ ~IsView(x.root)
      BY <1>8, <1>9, <3>1
    <3>3. ~IsView(x.root)'
      BY <1>7, <3>2
    <3>4. (IsView(n) /\ graph[n].root \in 1 .. n - 1 /\ ~IsView(graph[n].root))'
      BY <1>0, <1>1, <1>2, <2>3, <3>2, <3>3 DEF IsView
    <3> QED BY <2>1, <2>2, <3>4 DEF WellFormed
  <2>4. CASE x.op # "view"
    BY <1>0, <1>1, <2>1, <2>2, <2>4 DEF WellFormed, IsView, Position
  <2> QED BY <2>3, <2>4
<1>11. ASSUME NEW t \in Leafs', NEW s \in 1 .. t - 1 PROVE s \in Leafs'
  <2>1. t \in Tensors'
    BY DEF Leafs
  <2>2. CASE t \in Tensors
    BY <1>6, <2>2 DEF GraphOK
  <2>3. CASE t = n
    <3>1. Tensors = Leafs
      BY <1>1, <2>3 DEF Leafs
    <3> QED BY <1>0, <1>1, <1>2, <1>6, <2>3, <3>1
  <2> QED BY <1>4, <2>1, <2>2, <2>3
<1>12. ASSUME NEW t \in Tensors, Readings(t) # {} PROVE Readings(t)' # {}
  <2>1. PICK r \in Readings(t) : TRUE
    BY <1>12
  <2>2. /\ r \in Tensors \X (1 .. MaxSources) /\ r[1] \in Tensors
        /\ r[2] \in Sources(r[1]) /\ graph[r[1]].src[r[2]] = t
    BY DEF Readings
  <2>3. r \in Tensors' \X (1 .. MaxSources)
    BY <1>3, <2>2
  <2>4. (r \in Readings(t))'
    BY <1>3, <2>2, <2>3 DEF Readings, Sources
  <2> QED BY <2>4
<1>13. ASSUME NEW t \in Tensors', IsView(t)' PROVE (Readings(graph[t].root) # {})'
  <2>1. CASE t \in Tensors
    <3>0. PICK q : q = graph[t].root
      OBVIOUS
    <3>1. IsView(t) /\ q \in Tensors /\ graph'[t].root = q
      BY <1>3, <1>7, <1>8, <1>13, <2>1, <3>0
    <3>2. Readings(q) # {}
      BY <2>1, <3>0, <3>1 DEF GraphOK
    <3>3. (Readings(q) # {})'
      BY <1>12, <3>1, <3>2
    <3> QED BY <3>1, <3>3
  <2>2. CASE t = n
    <3>1. PICK s \in Tensors : x.src = <<s>> /\ x.root = graph[s].root
      BY <1>1, <1>13, <2>2 DEF IsView
    <3>0. PICK q : q = graph[s].root
      OBVIOUS
    <3>2. graph'[t].root = q
      BY <1>1, <2>2, <3>0, <3>1
    <3>3. CASE IsView(s)
      <4>1. Readings(q) # {} /\ q \in Tensors
        BY <1>8, <3>0, <3>3 DEF GraphOK
      <4>2. (Readings(q) # {})'
        BY <1>12, <4>1
      <4> QED BY <3>2, <4>2
    <3>4. CASE ~IsView(s)
      <4>1. graph'[t].root = s /\ graph'[n].src = <<s>>
        BY <1>1, <1>9, <3>0, <3>1, <3>2, <3>4
      <4>0. 1 \in 1 .. MaxSources
        BY PlanAssumption
      <4>2. <<n, 1>> \in Tensors' \X (1 .. MaxSources) /\ 1 \in DOMAIN graph'[n].src /\ graph'[n].src[1] = s
        BY <1>5, <4>0, <4>1
      <4>3. (<<n, 1>> \in Readings(s))'
        BY <4>2 DEF Readings, Sources
      <4> QED BY <4>1, <4>3
    <3> QED BY <3>3, <3>4
  <2> QED BY <1>4, <2>1, <2>2
<1>14. (\A t \in Tensors : WellFormed(t))'
  BY <1>4, <1>7, <1>10
<1> QED BY <1>1, <1>5, <1>11, <1>13, <1>14 DEF GraphOK, NTensors

LEMMA BuildKeeps ==
  ASSUME PlanInv, phase = "build", Build
  PROVE  PlanInv'
<1> USE DEF PlanInv
<1>1. PICK x : /\ AddTensor(x) /\ x \in AnyTensor
               /\ \A k \in DOMAIN x.src : k \in 1 .. MaxSources /\ x.src[k] \in Tensors
               /\ x.op \in {"leaf", "weight"} => x.src = <<>> /\ Tensors = Leafs
               /\ IF x.op = "view"
                  THEN \E s \in Tensors : x.src = <<s>> /\ x.root = graph[s].root
                  ELSE x.root = Position
  <2> DEFINE Good(x) ==
        /\ AddTensor(x) /\ x \in AnyTensor
        /\ \A k \in DOMAIN x.src : k \in 1 .. MaxSources /\ x.src[k] \in Tensors
        /\ x.op \in {"leaf", "weight"} => x.src = <<>> /\ Tensors = Leafs
        /\ IF x.op = "view"
           THEN \E s \in Tensors : x.src = <<s>> /\ x.root = graph[s].root
           ELSE x.root = Position
  <2>0. Tensors \subseteq Nat /\ Position \in Nat
    BY TensorsAre DEF Position
  <2>1. PICK op : \/ AddLeaf(op)
                  \/ \E n \in 1 .. MaxSources : \E src \in [1 .. n -> Tensors], output \in BOOLEAN :
                       AddNode(op, src, output)
                  \/ \E t \in Tensors : AddView(op, t)
    BY DEF Build
  <2>2. CASE AddLeaf(op)
    <3> DEFINE x == Tensor(op, <<>>, Position, FALSE)
    <3>1. x \in AnyTensor /\ x.op = op /\ x.src = <<>> /\ x.root = Position
      BY <2>0, <2>2 DEF AddLeaf, Tensor, AnyTensor, Ops
    <3>2. AddTensor(x) /\ op \in {"leaf", "weight"} /\ Tensors = Leafs /\ DOMAIN x.src = {}
      BY <2>2 DEF AddLeaf, Tensor
    <3> HIDE DEF x
    <3>3. Good(x)
      BY <3>1, <3>2
    <3> QED BY <3>3
  <2>3. ASSUME NEW n \in 1 .. MaxSources, NEW src \in [1 .. n -> Tensors], NEW output \in BOOLEAN,
               AddNode(op, src, output)
        PROVE  \E x : Good(x)
    <3> DEFINE x == Tensor(op, src, Position, output)
    <3>1. src \in Seq(Nat) /\ \A k \in DOMAIN src : k \in 1 .. MaxSources /\ src[k] \in Tensors
      <4>1. n \in Nat /\ n <= MaxSources /\ DOMAIN src = 1 .. n
        BY PlanAssumption
      <4>2. \A k \in 1 .. n : src[k] \in Tensors /\ src[k] \in Nat /\ k \in 1 .. MaxSources
        <5>1. \A k \in 1 .. n : src[k] \in Tensors
          OBVIOUS
        <5>2. \A k \in 1 .. n : k \in 1 .. MaxSources
          BY <4>1, PlanAssumption
        <5> QED BY <2>0, <5>1, <5>2
      <4>3. src = [k \in 1 .. n |-> src[k]]
        OBVIOUS
      <4>4. src \in [1 .. n -> Nat]
        BY <4>2, <4>3
      <4>5. src \in Seq(Nat)
        BY <4>1, <4>4, SeqDef
      <4> QED BY <4>1, <4>2, <4>5
    <3>2. x \in AnyTensor /\ x.op = op /\ x.src = src /\ x.root = Position
      BY <2>0, <2>3, <3>1 DEF AddNode, Tensor, AnyTensor, Ops
    <3>3. Good(x)
      BY <2>3, <3>1, <3>2 DEF AddNode
    <3> QED BY <3>3
  <2>4. ASSUME NEW t \in Tensors, AddView(op, t)
        PROVE  \E x : Good(x)
    <3> DEFINE x == Tensor(op, <<t>>, graph[t].root, FALSE)
    <3>1. graph[t].root \in Nat
      <4>1. graph[t] \in AnyTensor
        BY ElementOfSeq, TensorsAre DEF GraphOK
      <4> QED BY <4>1 DEF AnyTensor
    <3>2. x \in AnyTensor /\ x.op = op /\ x.src = <<t>> /\ x.root = graph[t].root
      BY <2>0, <2>4, <3>1 DEF AddView, Tensor, AnyTensor, Ops
    <3>3. /\ AddTensor(x) /\ op = "view" /\ DOMAIN x.src = {1} /\ x.src[1] = t
          /\ 1 \in 1 .. MaxSources
      BY <2>4, PlanAssumption DEF AddView, Tensor
    <3> HIDE DEF x
    <3>4. Good(x)
      BY <3>2, <3>3
    <3> QED BY <3>4
  <2> QED BY <2>1, <2>2, <2>3, <2>4
<1>2. /\ graph' = Append(graph, x)
      /\ UNCHANGED <<allocatorVars, phase, i, j, hashVars, buffers>>
  BY <1>1 DEF AddTensor
<1>3. Len(graph) < NTensors
  BY TensorsAre DEF Build, Position
<1>4. GraphOK'
  BY <1>1, <1>2, <1>3, GrowsWell
<1>5. PlaceOK'
  BY <1>2 DEF PlaceOK, Counted
<1>6. HashOK'
  BY <1>2 DEF HashOK, hashVars
<1>7. Processed = {} /\ Processed' = {}
  BY <1>2 DEF Processed
<1>8. \A t \in Indices : ~allocated[t]
  BY <1>7 DEF HeldIsWanted
<1>9. HeldIsWanted' /\ LostIsRead'
  BY <1>2, <1>7, <1>8 DEF HeldIsWanted, LostIsRead, hashVars
<1>10. Counts' /\ Fits' /\ SafeSoFar'
  BY <1>2, <1>7 DEF Counts, Fits, SafeSoFar, Counted
<1>11. Memory'
  BY <1>2, <1>7 DEF Memory, Held, hashVars, allocatorVars
<1> QED BY <1>4, <1>5, <1>6, <1>9, <1>10, <1>11

LEMMA BeginKeeps ==
  ASSUME PlanInv, BeginPlan
  PROVE  PlanInv'
<1> USE DEF PlanInv
<1>1. /\ phase = "build" /\ Len(graph) = NTensors
      /\ phase' = "leafs" /\ i' = 1 /\ j' = 1
      /\ UNCHANGED <<allocatorVars, graph, hashVars, buffers>>
  BY DEF BeginPlan, At
<1>2. GraphOK' /\ Tensors' = Tensors /\ Tensors \subseteq Nat \ {0} /\ NTensors \in Nat
  BY <1>1, SameGraph, TensorsAre
<1>3. PlaceOK'
  BY <1>1, <1>2 DEF PlaceOK, Counted, NTensors
<1>4. HashOK'
  BY <1>1 DEF HashOK, hashVars
<1>5. Processed = {} /\ Processed' = {}
  <2>1. \A t \in Tensors : ~(t < 1)
    BY <1>2
  <2>2. Processed' = {t \in Tensors : Own(t)' /\ t < 1}
    BY <1>1, <1>2 DEF Processed
  <2> QED BY <1>1, <2>1, <2>2 DEF Processed
<1>6. \A t \in Indices : ~allocated[t]
  BY <1>5 DEF HeldIsWanted
<1>7. HeldIsWanted' /\ LostIsRead'
  BY <1>1, <1>5, <1>6 DEF HeldIsWanted, LostIsRead, hashVars
<1>8. Counts' /\ Fits' /\ SafeSoFar'
  BY <1>1, <1>5 DEF Counts, Fits, SafeSoFar, Counted
<1>9. Memory'
  BY <1>1, <1>5 DEF Memory, Held, hashVars, allocatorVars
<1> QED BY <1>2, <1>3, <1>4, <1>7, <1>8, <1>9

\* A leaf gets memory unless it has got some, being a weight.
LEMMA LeafKeeps ==
  ASSUME IInv, PlanInv, AllocateLeaf
  PROVE  PlanInv' /\ [AllocatorNext]_allocatorVars
<1> USE DEF PlanInv
<1>1. /\ phase = "leafs" /\ i \in Leafs /\ AllocateNode(i)
      /\ phase' = "leafs" /\ i' = i + 1 /\ j' = 1
      /\ UNCHANGED <<graph, n_children, n_views, buffers>>
  BY DEF AllocateLeaf, At
<1>2. /\ GraphOK' /\ Tensors' = Tensors /\ Leafs' = Leafs
      /\ \A t : Own(t)' = Own(t)
  BY <1>1, SameGraph
<1>3. /\ Tensors = 1 .. NTensors /\ NTensors \in Nat /\ Leafs \subseteq Tensors /\ Tensors = Indices
      /\ i \in Indices /\ i \in Nat /\ 1 .. i - 1 \subseteq Leafs
  BY <1>1, TensorsAre DEF PlaceOK
<1>4. PlaceOK'
  BY <1>1, <1>2, <1>3 DEF PlaceOK, NTensors
<1>5. Processed' = IF Own(i) THEN Processed \union {i} ELSE Processed
  <2>1. \A t \in Tensors : t < i + 1 <=> t < i \/ t = i
    BY <1>3
  <2>2. Processed = {t \in Tensors : Own(t) /\ t < i}
    BY <1>1 DEF Processed
  <2>3. Processed' = {t \in Tensors : Own(t) /\ t < i + 1}
    BY <1>1, <1>2 DEF Processed
  <2> QED BY <1>3, <2>1, <2>2, <2>3
<1>6. i \notin Processed /\ ~allocated[i]
  <2>1. i \notin Processed
    BY <1>1, <1>3 DEF Processed
  <2> QED BY <1>3, <2>1 DEF HeldIsWanted
<1>7. Processed' \subseteq Leafs'
  BY <1>1, <1>2, <1>3, <1>5 DEF Processed
<1>8. Counts' /\ Fits' /\ SafeSoFar'
  BY <1>1, <1>7 DEF Counts, Fits, SafeSoFar, Counted
<1>9. CASE ~Own(i)
  <2>1. graph[i].op = "weight"
    BY <1>1, <1>9 DEF Leafs, Own
  <2>2. UNCHANGED <<allocatorVars, allocated, addr>>
    BY <1>1, <2>1 DEF AllocateNode
  <2>3. HashOK'
    BY <1>1, <2>2 DEF HashOK
  <2>4. Memory'
    BY <1>5, <1>9, <2>2 DEF Memory, Held, allocatorVars
  <2>5. HeldIsWanted' /\ LostIsRead'
    BY <1>1, <1>5, <1>9, <2>2 DEF HeldIsWanted, LostIsRead, Counted
  <2> QED BY <1>2, <1>4, <1>8, <2>2, <2>3, <2>4, <2>5
<1>10. CASE Own(i)
  <2>1. graph[i].op = "leaf" /\ ~IsView(i) /\ InPlace(i) = {}
    BY <1>1, <1>10 DEF Leafs, Own, IsView, InPlace
  <2>2. PICK p \in Places(Size(i)) :
          /\ Allocate(p, Size(i)) /\ addr' = [addr EXCEPT ![i] = Address(p, Size(i))]
          /\ allocated' = [allocated EXCEPT ![i] = TRUE]
    BY <1>1, <1>6, <2>1 DEF AllocateNode
  <2>3. Memory'
    BY <1>3, <1>5, <1>6, <1>10, <2>2, FreshMemory
  <2>4. Size(i) \in Sizes
    BY <1>3, PlanAssumption DEF Size, NTensors
  <2>5. AllocatorNext
    BY <2>2, <2>4 DEF AllocatorNext
  <2>6. HashOK'
    <3>1. Address(p, Size(i)) \in Allocations
      BY <2>2, <2>4, PlacesArePlaces, AddressIsNew
    <3>2. Address(p, Size(i)) \in [chunk : ChunkIds, offset : Nat, size : Nat]
      BY <3>1 DEF Allocations
    <3> QED BY <1>1, <1>3, <2>2, <3>2 DEF HashOK
  <2>7. \A t \in Indices : allocated'[t] = IF t = i THEN TRUE ELSE allocated[t]
    BY <2>2 DEF HashOK
  <2>8. HeldIsWanted' /\ LostIsRead'
    BY <1>1, <1>2, <1>3, <1>5, <1>10, <2>7 DEF HeldIsWanted, LostIsRead, Counted, Processed
  <2> QED BY <1>2, <1>4, <1>8, <2>3, <2>5, <2>6, <2>8
<1> QED BY <1>9, <1>10

\* Before the walk all readings are to come, and all that was processed is held.
LEMMA CountKeeps ==
  ASSUME PlanInv, CountChildrenAndViews
  PROVE  PlanInv'
<1> USE DEF PlanInv
<1>1. /\ phase = "leafs" /\ i \notin Leafs
      /\ n_children' = [t \in Tensors |-> Cardinality(Readings(t))]
      /\ n_views' = [t \in Tensors |-> Cardinality(Views(t))]
      /\ phase' = (IF i \in Tensors THEN "parents" ELSE "reserve") /\ i' = i /\ j' = 1
      /\ UNCHANGED <<allocatorVars, graph, allocated, addr, buffers>>
  BY DEF CountChildrenAndViews, At, Views
<1>2. /\ GraphOK' /\ Tensors' = Tensors /\ Leafs' = Leafs
      /\ \A t : /\ Own(t)' = Own(t) /\ Readings(t)' = Readings(t) /\ Views(t)' = Views(t)
                /\ IsView(t)' = IsView(t)
  BY <1>1, SameGraph
<1>3. /\ Tensors = 1 .. NTensors /\ NTensors \in Nat /\ Leafs \subseteq Tensors /\ Tensors = Indices
      /\ i \in Nat \ {0} /\ i <= NTensors + 1 /\ 1 .. i - 1 \subseteq Leafs
      /\ Len(graph) = NTensors
  BY <1>1, TensorsAre DEF PlaceOK
<1>4. PlaceOK'
  BY <1>1, <1>2, <1>3 DEF PlaceOK, Counted
<1>5. i \notin Tensors => i = NTensors + 1 /\ Tensors = Leafs
  <2>1. ASSUME i \notin Tensors PROVE i = NTensors + 1
    BY <1>3, <2>1
  <2>2. ASSUME i = NTensors + 1 PROVE i - 1 = NTensors
    BY <1>3, <2>2
  <2> QED BY <1>3, <2>1, <2>2
<1>6. \A t \in Tensors : t < i => t \in Leafs
  BY <1>3
<1>7. ASSUME NEW t \in Tensors PROVE Pending(t)' = Readings(t) /\ PendingViews(t)' = Views(t)
  <2>1. \A u \in Tensors : Pending(u)' = Readings(u)
    <3>1. SUFFICES ASSUME NEW u \in Tensors PROVE Pending(u)' = Readings(u)
      OBVIOUS
    <3>2. \A r \in Readings(u) : r[1] \in Tensors /\ r[1] \notin Leafs
      BY ReadingsAre
    <3>3. CASE i \in Tensors
      <4>1. \A r \in Readings(u) : r[1] >= i
        BY <1>3, <1>6, <3>2
      <4> QED BY <1>1, <1>2, <3>3, <4>1 DEF Pending
    <3>4. CASE i \notin Tensors
      <4>1. Readings(u) = {}
        BY <1>5, <3>2, <3>4
      <4> QED BY <1>2, <4>1 DEF Pending
    <3> QED BY <3>3, <3>4
  <2>2. Views(t) \subseteq Tensors
    BY ReadingsAre
  <2> QED BY <1>2, <2>1, <2>2 DEF PendingViews
<1>8. Counts'
  BY <1>1, <1>2, <1>7 DEF Counts
<1>9. HashOK'
  <2>1. ASSUME NEW t \in Tensors PROVE Cardinality(Readings(t)) \in Int /\ Cardinality(Views(t)) \in Int
    <3>1. IsFiniteSet(Readings(t)) /\ IsFiniteSet(Views(t))
      BY ReadingsAre
    <3> QED BY <3>1, FS_CardinalityType
  <2> QED BY <1>1, <1>3, <2>1 DEF HashOK
<1>10. Processed' = Processed
  <2>1. CASE i \in Tensors
    BY <1>1, <1>2, <2>1 DEF Processed
  <2>2. CASE i \notin Tensors
    <3>1. \A t \in Tensors : t < i
      BY <1>3, <1>5, <2>2
    <3> QED BY <1>1, <1>2, <2>2, <3>1 DEF Processed
  <2> QED BY <2>1, <2>2
<1>11. HeldIsWanted' /\ LostIsRead'
  BY <1>1, <1>2, <1>3, <1>7, <1>10 DEF HeldIsWanted, LostIsRead, Wanted, Counted
<1>12. Memory'
  BY <1>1, <1>10 DEF Memory, Held, allocatorVars
<1>13. SafeSoFar' /\ Fits'
  BY <1>1, <1>10, SameAddresses DEF Fits
<1> QED BY <1>2, <1>4, <1>8, <1>9, <1>11, <1>12, <1>13

-----------------------------------------------------------------------------
(***************************************************************************)
(* The walk.                                                               *)
(***************************************************************************)

LEMMA WalkIs ==
  ASSUME PlanInv, phase \in Counted
  PROVE  /\ Tensors = 1 .. NTensors /\ NTensors \in Nat /\ Tensors = Indices /\ Len(graph) = NTensors
         /\ phase \in {"parents", "update"} => i \in Tensors /\ i \notin Leafs
         /\ i \in Nat \ {0} /\ j \in Nat \ {0}
         /\ \A n \in Tensors : /\ n \in Nat \ {0} /\ Sources(n) = 1 .. Len(graph[n].src)
                               /\ Len(graph[n].src) \in Nat
                               /\ \A k \in Sources(n) : k \in 1 .. MaxSources /\ graph[n].src[k] \in Tensors
                                                          /\ graph[n].src[k] < n
<1>1. /\ Tensors = 1 .. NTensors /\ NTensors \in Nat /\ Tensors = Indices /\ Len(graph) = NTensors
      /\ phase \in {"parents", "update"} => i \in Tensors /\ i \notin Leafs
      /\ i \in Nat \ {0} /\ j \in Nat \ {0}
  BY TensorsAre DEF PlanInv, PlaceOK, Counted
<1>2. ASSUME NEW n \in Tensors
      PROVE  /\ n \in Nat \ {0} /\ Sources(n) = 1 .. Len(graph[n].src)
             /\ Len(graph[n].src) \in Nat
             /\ \A k \in Sources(n) : k \in 1 .. MaxSources /\ graph[n].src[k] \in Tensors
                                        /\ graph[n].src[k] < n
  <2>1. graph[n] \in AnyTensor
    BY <1>1, ElementOfSeq DEF PlanInv, GraphOK
  <2>2. Sources(n) = 1 .. Len(graph[n].src) /\ Len(graph[n].src) \in Nat
    BY <2>1, LenProperties DEF AnyTensor, Sources
  <2>3. WellFormed(n) /\ n \in Nat \ {0}
    BY <1>1 DEF PlanInv, GraphOK
  <2> QED BY <1>1, <2>2, <2>3 DEF WellFormed
<1> QED BY <1>1, <1>2

\* What is still to be read is held: the walk never allocates a parent.
LEMMA ParentKeeps ==
  ASSUME PlanInv, AllocateParent
  PROVE  PlanInv' /\ UNCHANGED allocatorVars
<1> USE DEF PlanInv
<1>1. /\ phase = "parents" /\ j \in Sources(i) /\ AllocateNode(graph[i].src[j])
      /\ phase' = "parents" /\ i' = i /\ j' = j + 1
      /\ UNCHANGED <<graph, n_children, n_views, buffers>>
  BY DEF AllocateParent, At
<1>2. /\ phase \in Counted /\ phase' \in Counted
      /\ i \in Tensors /\ i \notin Leafs /\ i \in Nat /\ j \in Nat \ {0} /\ Tensors = Indices
  BY <1>1, WalkIs DEF Counted
<1>3. PICK p : p = graph[i].src[j]
  BY Zenon
<1>4. p \in Tensors /\ p < i /\ <<i, j>> \in Pending(p)
  <2>1. p \in Tensors /\ p < i
    BY <1>1, <1>2, <1>3, WalkIs
  <2>2. <<i, j>> \in Readings(p)
    BY <1>1, <1>2, <1>3, <2>1, ReadingsAre
  <2> QED BY <1>1, <1>2, <2>1, <2>2 DEF Pending
<1>5. ~IsView(p) /\ graph[p].op # "weight" => allocated[p]
  <2>1. ASSUME Own(p) PROVE p \in Processed
    BY <1>1, <1>4, <2>1 DEF Processed
  <2>2. ASSUME p \in Processed, ~allocated[p] PROVE FALSE
    BY <1>1, <1>4, <2>2 DEF LostIsRead
  <2> QED BY <2>1, <2>2 DEF Own, IsView
<1>6. UNCHANGED <<allocatorVars, allocated, addr>>
  BY <1>1, <1>3, <1>5, Zenon DEF AllocateNode
<1>7. /\ Tensors' = Tensors /\ Leafs' = Leafs
      /\ \A t : Own(t)' = Own(t) /\ Readings(t)' = Readings(t)
  BY <1>1, SameGraph
<1>8. PlaceOK'
  BY <1>1, <1>2, <1>7 DEF PlaceOK, Counted
<1>9. Processed' = Processed
  BY <1>1, <1>7 DEF Processed
<1>10. \A t \in Tensors : Pending(t)' = Pending(t)
  BY <1>1, <1>7 DEF Pending
<1>11. \A t \in Processed : ~allocated[t] => \A r \in Pending(t) : phase' = "update" /\ r[1] = i'
  BY <1>1 DEF LostIsRead
<1>12. buffers' \in [ChunkIds -> Nat] /\ Fits'
  BY <1>1 DEF HashOK, Fits
<1>13. UNCHANGED <<allocatorVars, graph, hashVars>>
  BY <1>1, <1>6 DEF hashVars
<1>14. PlanInv'
  BY <1>2, <1>8, <1>9, <1>10, <1>11, <1>12, <1>13, MoveKeeps
<1> QED BY <1>6, <1>14

LEMMA NextKeeps ==
  ASSUME PlanInv, NextNode
  PROVE  PlanInv'
<1> USE DEF PlanInv
<1>1. /\ phase = "update" /\ j \notin Sources(i) /\ j' = 1
      /\ \/ i < Len(graph) /\ phase' = "parents" /\ i' = i + 1
         \/ ~(i < Len(graph)) /\ phase' = "reserve" /\ i' = i
      /\ UNCHANGED <<allocatorVars, graph, hashVars, buffers>>
  BY DEF NextNode, At
<1>2. /\ phase \in Counted /\ phase' \in Counted
      /\ i \in Tensors /\ i \notin Leafs /\ i \in Nat \ {0} /\ j \in Nat \ {0}
      /\ Tensors = 1 .. NTensors /\ NTensors \in Nat /\ Len(graph) = NTensors
      /\ \A k \in Sources(i) : k < j
  BY <1>1, WalkIs DEF Counted
<1>3. /\ Tensors' = Tensors /\ Leafs' = Leafs
      /\ \A t : Own(t)' = Own(t) /\ Readings(t)' = Readings(t)
  BY <1>1, SameGraph
<1>4. i < NTensors => i + 1 \in Tensors /\ i + 1 \notin Leafs
  <2>1. ASSUME i < NTensors, i + 1 \in Leafs PROVE FALSE
    <3>1. i \in 1 .. (i + 1) - 1
      BY <1>2
    <3> QED BY <1>2, <2>1, <3>1 DEF GraphOK
  <2> QED BY <1>2, <2>1
<1>5. PlaceOK'
  BY <1>1, <1>2, <1>3, <1>4 DEF PlaceOK, Counted
<1>6. Processed' = Processed
  <2>1. CASE phase' = "parents"
    <3>1. \A t \in Tensors : t <= i <=> t < i + 1
      BY <1>2
    <3> QED BY <1>1, <1>3, <2>1, <3>1 DEF Processed
  <2>2. CASE phase' = "reserve"
    <3>1. \A t \in Tensors : t <= i
      BY <1>1, <1>2, <2>2
    <3> QED BY <1>1, <1>3, <2>2, <3>1 DEF Processed
  <2> QED BY <1>1, <2>1, <2>2
<1>7. ASSUME NEW t \in Tensors PROVE Pending(t)' = Pending(t)
  <2>1. \A r \in Readings(t) : r[1] \in Tensors /\ r[1] \in Nat /\ r[2] \in Sources(r[1]) /\ r[2] \in Nat
    BY <1>2, ReadingsAre
  <2>2. \A r \in Readings(t) : ~(r[1] = i /\ r[2] >= j)
    BY <1>2, <2>1
  <2>3. Pending(t) = {r \in Readings(t) : r[1] > i}
    BY <1>1, <2>2 DEF Pending
  <2>4. CASE phase' = "parents"
    <3>1. \A r \in Readings(t) : r[1] > i <=> r[1] >= i + 1
      BY <1>2, <2>1
    <3> QED BY <1>1, <1>3, <2>3, <2>4, <3>1 DEF Pending
  <2>5. CASE phase' = "reserve"
    <3>1. \A r \in Readings(t) : ~(r[1] > i)
      BY <1>1, <1>2, <2>1, <2>5
    <3> QED BY <1>1, <1>3, <2>3, <2>5, <3>1 DEF Pending
  <2> QED BY <1>1, <2>4, <2>5
<1>8. ASSUME NEW t \in Processed, ~allocated[t], NEW r \in Pending(t) PROVE FALSE
  <2>1. t \in Tensors
    BY DEF Processed
  <2>2. r \in Readings(t) /\ r[1] = i /\ r[2] >= j
    BY <1>1, <1>2, <1>8 DEF LostIsRead, Pending
  <2>3. r[2] \in Sources(i) /\ r[2] \in Nat
    BY <2>1, <2>2, ReadingsAre
  <2> QED BY <1>2, <2>2, <2>3
<1>9. \A t \in Processed : ~allocated[t] => \A r \in Pending(t) : phase' = "update" /\ r[1] = i'
  BY <1>8
<1>10. buffers' \in [ChunkIds -> Nat] /\ Fits'
  BY <1>1 DEF HashOK, Fits
<1> QED BY <1>1, <1>2, <1>5, <1>6, <1>7, <1>9, <1>10, MoveKeeps

\* The buffers there are suffice chunk by chunk, or new ones are as large as the plan.
LEMMA ReserveKeeps ==
  ASSUME IInv, PlanInv, Reserve
  PROVE  PlanInv'
<1> USE DEF PlanInv
<1>1. PICK old \in OldBuffers :
         \/ phase' = "planned" /\ buffers' = IF TooSmall(old) THEN max_size ELSE old
         \/ phase' = "failed" /\ buffers' = [c \in ChunkIds |-> 0]
  BY DEF Reserve, At
<1>2. /\ phase = "reserve" /\ phase' \in {"planned", "failed"} /\ i' = i /\ j' = 1
      /\ UNCHANGED <<allocatorVars, graph, hashVars>>
  BY DEF Reserve, At
<1>3. old \in [ChunkIds -> Nat] /\ max_size \in [ChunkIds -> Nat] /\ n_chunks \in 0 .. MaxChunks
  BY PlanAssumption DEF IInv, TypeInv
<1>4. buffers' \in [ChunkIds -> Nat]
  BY <1>1, <1>3
<1>5. 0 .. n_chunks - 1 \subseteq ChunkIds
  BY <1>3, AllocatorAssumption DEF ChunkIds
<1>6. phase' = "planned" => \A c \in 0 .. n_chunks - 1 : max_size[c] <= buffers'[c]
  BY <1>1, <1>3, <1>5 DEF TooSmall
<1>7. Fits'
  BY <1>2, <1>6 DEF Fits, allocatorVars
<1>8. /\ Tensors' = Tensors /\ Leafs' = Leafs
      /\ \A t : Own(t)' = Own(t) /\ Readings(t)' = Readings(t)
  BY <1>2, SameGraph
<1>9. PlaceOK' /\ phase \in Counted /\ phase' \in Counted
  BY <1>2, <1>8 DEF PlaceOK, Counted
<1>10. Processed' = Processed /\ \A t \in Tensors : Pending(t)' = Pending(t)
  BY <1>2, <1>8 DEF Processed, Pending
<1>11. \A t \in Processed : ~allocated[t] => \A r \in Pending(t) : phase' = "update" /\ r[1] = i'
  BY <1>2 DEF LostIsRead
<1> QED BY <1>2, <1>4, <1>7, <1>9, <1>10, <1>11, MoveKeeps

\* What AllocateDestination does to the bookkeeping: the node is processed, nothing is read yet.
LEMMA DestinationIs ==
  ASSUME PlanInv, AllocateDestination
  PROVE  /\ phase = "parents" /\ phase' = "update" /\ i' = i /\ j' = 1 /\ AllocateNode(i)
         /\ UNCHANGED <<graph, n_children, n_views, buffers>>
         /\ PlaceOK' /\ GraphOK' /\ Fits'
         /\ i \in Tensors /\ i \notin Leafs /\ i \notin Processed /\ ~allocated[i]
         /\ Tensors' = Tensors /\ Leafs' = Leafs /\ Tensors = Indices
         /\ Processed' = IF Own(i) THEN Processed \union {i} ELSE Processed
         /\ \A t \in Tensors : Pending(t)' = Pending(t) /\ PendingViews(t)' = PendingViews(t)
                                 /\ Wanted(t)' = Wanted(t)
         /\ Wanted(i) /\ Counts'
<1> USE DEF PlanInv
<1>1. /\ phase = "parents" /\ phase' = "update" /\ i' = i /\ j' = 1 /\ AllocateNode(i)
      /\ UNCHANGED <<graph, n_children, n_views, buffers>>
  BY DEF AllocateDestination, At
<1>2. /\ i \in Tensors /\ i \notin Leafs /\ i \in Nat \ {0} /\ phase \in Counted
      /\ Tensors = Indices /\ Tensors = 1 .. NTensors /\ NTensors \in Nat
  BY <1>1, WalkIs DEF Counted
<1>3. /\ Tensors' = Tensors /\ Leafs' = Leafs /\ GraphOK'
      /\ \A t : Own(t)' = Own(t) /\ Readings(t)' = Readings(t) /\ Views(t)' = Views(t)
  BY <1>1, SameGraph
<1>4. PlaceOK' /\ Fits'
  BY <1>1, <1>2, <1>3 DEF PlaceOK, Counted, Fits
<1>5. Processed' = IF Own(i) THEN Processed \union {i} ELSE Processed
  <2>1. \A t \in Tensors : t <= i <=> t < i \/ t = i
    BY <1>2
  <2>2. Processed = {t \in Tensors : Own(t) /\ t < i}
    BY <1>1 DEF Processed
  <2>3. Processed' = {t \in Tensors : Own(t) /\ t <= i}
    BY <1>1, <1>3 DEF Processed
  <2> QED BY <1>2, <2>1, <2>2, <2>3
<1>6. i \notin Processed /\ ~allocated[i]
  <2>1. i \notin Processed
    BY <1>1, <1>2 DEF Processed
  <2> QED BY <1>2, <2>1 DEF HeldIsWanted
<1>7. ASSUME NEW t \in Tensors PROVE Pending(t)' = Pending(t)
  <2>1. \A r \in Readings(t) : r[1] \in Nat /\ r[2] >= 1
    BY <1>2, ReadingsAre
  <2>2. \A r \in Readings(t) : r[1] >= i <=> (r[1] > i \/ (r[1] = i /\ r[2] >= 1))
    BY <1>2, <2>1
  <2> QED BY <1>1, <1>3, <2>2 DEF Pending
<1>8. ASSUME NEW t \in Tensors PROVE PendingViews(t)' = PendingViews(t)
  <2>1. Views(t) \subseteq Tensors
    BY ReadingsAre
  <2> QED BY <1>3, <1>7, <2>1 DEF PendingViews
<1>9. \A t \in Tensors : Wanted(t)' = Wanted(t)
  BY <1>1, <1>3, <1>7, <1>8 DEF Wanted
<1>10. Wanted(i)
  <2>1. \A r \in Readings(i) : r[1] \in Nat /\ i < r[1]
    BY <1>2, ReadingsAre
  <2>2. Pending(i) = Readings(i)
    BY <1>1, <1>2, <2>1 DEF Pending
  <2> QED BY <2>2 DEF Wanted
<1>11. Counts'
  BY <1>1, <1>2, <1>3, <1>7, <1>8 DEF Counts
<1> QED BY <1>1, <1>2, <1>3, <1>4, <1>5, <1>6, <1>7, <1>8, <1>9, <1>10, <1>11

\* A tensor that has lost its memory may be overwritten by node i: the walk has come to every
\* reading of it and of its views.
LEMMA LostIsUnread ==
  ASSUME PlanInv, phase = "parents", NEW t \in Processed, ~allocated[t]
  PROVE  /\ ~NeededAfter(t, i)
         /\ \A u \in {t} \union Views(t) : \A r \in Readings(u) : r[1] # i
<1> USE DEF PlanInv
<1>1. /\ ~graph[t].output /\ Readings(t) # {} /\ PendingViews(t) = {} /\ Pending(t) = {}
  BY DEF LostIsRead
<1>2. t \in Tensors /\ i \in Nat /\ Tensors = 1 .. NTensors /\ NTensors \in Nat
  BY WalkIs DEF Processed, Counted
<1>3. \A u \in {t} \union Views(t) : u \in Tensors /\ Pending(u) = {} /\ Readings(u) # {}
  BY <1>1, <1>2, ReadingsAre DEF PendingViews
<1>4. \A u \in {t} \union Views(t) : \A r \in Readings(u) : r[1] \in Nat /\ ~(r[1] >= i)
  BY <1>2, <1>3, ReadingsAre DEF Pending
<1>5. \A u \in {t} \union Views(t) : \A r \in Readings(u) : r[1] # i /\ ~(r[1] > i)
  BY <1>2, <1>4
<1>6. ~NeededAfter(t, i)
  BY <1>1, <1>3, <1>5 DEF NeededAfter, ReadAfter
<1> QED BY <1>5, <1>6

\* A parent that is taken over is read by node i for the last time, and by no view of it.
LEMMA TakenIsSafe ==
  ASSUME PlanInv, phase = "parents", NEW k \in InPlace(i), NEW p, p = graph[i].src[k]
  PROVE  /\ p \in Held /\ Size(p) = Size(i) /\ p < i
         /\ ~graph[p].output /\ Readings(p) # {} /\ PendingViews(p) = {}
         /\ \A r \in Pending(p) : r[1] = i
         /\ ~NeededAfter(p, i)
         /\ graph[i].op = "inplace" /\ p \in {graph[i].src[m] : m \in Sources(i)}
         /\ \A v \in Views(p) : v \notin {graph[i].src[m] : m \in Sources(i)}
<1> USE DEF PlanInv
<1>1. /\ k \in Sources(i) /\ graph[i].op = "inplace" /\ Size(p) = Size(i)
      /\ allocated[p] /\ ~graph[p].output /\ n_children[p] = 1 /\ n_views[p] = 0
  BY DEF InPlace, Reusable
<1>2. i \in Tensors /\ i \in Nat /\ Tensors = Indices /\ phase \in Counted
      /\ Tensors = 1 .. NTensors /\ NTensors \in Nat
  BY WalkIs DEF Counted
<1>3. p \in Tensors /\ p < i /\ <<i, k>> \in Readings(p)
  BY <1>1, <1>2, WalkIs, ReadingsAre
<1>4. \A t \in Tensors : Pending(t) = {r \in Readings(t) : r[1] >= i}
  BY DEF Pending
<1>5. <<i, k>> \in Pending(p)
  BY <1>2, <1>3, <1>4
<1>6. \A r \in Pending(p) : r = <<i, k>>
  BY <1>1, <1>2, <1>3, <1>5, CountsMean
<1>7. PendingViews(p) = {}
  BY <1>1, <1>2, <1>3, CountsMean
<1>8. \A v \in Views(p) : v \in Tensors /\ Readings(v) # {} /\ Pending(v) = {}
  BY <1>3, <1>7, ReadingsAre DEF PendingViews
<1>9. \A u \in {p} \union Views(p) : \A r \in Readings(u) : r[1] \in Nat /\ ~(r[1] > i)
  <2>1. ASSUME NEW r \in Readings(p) PROVE r[1] \in Nat /\ ~(r[1] > i)
    <3>1. r[1] \in Nat
      BY <1>2, <1>3, ReadingsAre
    <3>2. CASE r[1] >= i
      <4>1. r = <<i, k>>
        BY <1>3, <1>4, <1>6, <3>2
      <4> QED BY <1>2, <4>1
    <3>3. CASE ~(r[1] >= i)
      BY <1>2, <3>1, <3>3
    <3> QED BY <3>2, <3>3
  <2>2. ASSUME NEW v \in Views(p), NEW r \in Readings(v) PROVE r[1] \in Nat /\ ~(r[1] > i)
    BY <1>2, <1>4, <1>8, ReadingsAre
  <2> QED BY <2>1, <2>2
<1>10. ~NeededAfter(p, i)
  BY <1>1, <1>3, <1>8, <1>9 DEF NeededAfter, ReadAfter
<1>11. ASSUME NEW v \in Views(p), NEW m \in Sources(i), graph[i].src[m] = v PROVE FALSE
  <2>1. <<i, m>> \in Readings(v)
    BY <1>2, <1>8, <1>11, ReadingsAre
  <2> QED BY <1>2, <1>4, <1>8, <2>1
<1>12. \A r \in Pending(p) : r[1] = i
  BY <1>6
<1>13. p \in Held
  BY <1>1, <1>2, <1>3 DEF Held
<1> QED BY <1>1, <1>3, <1>7, <1>10, <1>11, <1>12, <1>13

LEMMA LeastOne ==
  ASSUME NEW S, S \subseteq Nat, S # {}
  PROVE  \E x \in S : \A m \in S : x <= m
<1> DEFINE R == OpToRel(<, Nat)
<1>1. IsWellFoundedOn(R, Nat)
  BY NatLessThanWellFounded
<1> HIDE DEF R
<1>2. PICK x \in S : \A m \in S : <<m, x>> \notin R
  BY <1>1, WFMin
<1>3. \A m \in S : ~(m < x)
  BY <1>2 DEF R, OpToRel
<1> QED BY <1>2, <1>3

LEMMA FirstInPlace ==
  ASSUME PlanInv, phase = "parents", InPlace(i) # {}
  PROVE  (CHOOSE x \in InPlace(i) : \A m \in InPlace(i) : x <= m) \in InPlace(i)
<1>1. i \in Tensors
  BY WalkIs DEF Counted
<1>2. InPlace(i) \subseteq 1 .. MaxSources
  BY <1>1, WalkIs DEF InPlace, Counted
<1>3. InPlace(i) \subseteq Nat
  BY <1>2
<1> QED BY <1>3, LeastOne

LEMMA SameNeed ==
  ASSUME UNCHANGED graph
  PROVE  \A t, n : NeededAfter(t, n)' = NeededAfter(t, n)
<1>1. \A u : Readings(u)' = Readings(u) /\ Views(u)' = Views(u) /\ IsView(u)' = IsView(u)
  BY SameGraph
<1> QED BY <1>1 DEF NeededAfter, ReadAfter

\* Once node i has an address: what is safe so far, with the pairs that node i is the later of.
LEMMA SafeGrows ==
  ASSUME PlanInv, AllocateDestination, Own(i),
         \A t \in Tensors : t # i => addr'[t] = addr[t],
         \A t \in Processed : Overlap(addr'[i], addr[t]) => Safe(i, t)'
  PROVE  SafeSoFar'
<1>1. /\ Processed' = Processed \union {i} /\ Leafs' = Leafs /\ i \in Tensors /\ i \in Nat
      /\ phase = "parents" /\ i \notin Processed /\ UNCHANGED graph /\ i' = i
  BY DestinationIs, WalkIs DEF Counted
<1>2. \A t \in Processed : t \in Tensors /\ t < i /\ t # i /\ t \in Nat
  BY <1>1, WalkIs DEF Processed, Counted
<1>3. ASSUME NEW n \in Processed' \ Leafs, NEW t \in Processed', t < n, Overlap(addr[n], addr[t])'
      PROVE  Safe(n, t)'
  <2>1. CASE n = i
    <3>1. t \in Processed
      BY <1>1, <1>3, <2>1
    <3>2. addr'[t] = addr[t] /\ addr'[n] = addr'[i]
      BY <1>2, <2>1, <3>1
    <3>3. Overlap(addr'[i], addr[t])
      BY <1>3, <3>2 DEF Overlap, Apart
    <3> QED BY <1>1, <2>1, <3>1, <3>3
  <2>2. CASE n # i
    <3>1. n \in Processed /\ t \in Processed
      BY <1>1, <1>2, <1>3, <2>2
    <3>2. addr'[n] = addr[n] /\ addr'[t] = addr[t]
      BY <1>2, <3>1
    <3>3. Overlap(addr[n], addr[t]) /\ (Safe(n, t)' = Safe(n, t))
      BY <1>1, <1>3, <3>2, SafeStays
    <3> QED BY <1>3, <3>1, <3>3 DEF PlanInv, SafeSoFar
  <2> QED BY <2>1, <2>2
<1> QED BY <1>1, <1>3 DEF SafeSoFar

LEMMA DestinationKeeps ==
  ASSUME IInv, PlanInv, AllocateDestination
  PROVE  PlanInv' /\ [AllocatorNext]_allocatorVars
<1> USE DEF PlanInv
<1>1. /\ phase = "parents" /\ phase' = "update" /\ i' = i /\ AllocateNode(i)
      /\ UNCHANGED <<graph, n_children, n_views, buffers>>
      /\ PlaceOK' /\ GraphOK' /\ Fits'
      /\ i \in Tensors /\ i \notin Leafs /\ i \notin Processed /\ ~allocated[i]
      /\ Tensors' = Tensors /\ Leafs' = Leafs /\ Tensors = Indices
  BY DestinationIs
<1>2. Processed' = IF Own(i) THEN Processed \union {i} ELSE Processed
  BY DestinationIs
<1>3. /\ \A t \in Tensors : Pending(t)' = Pending(t) /\ PendingViews(t)' = PendingViews(t)
                              /\ Wanted(t)' = Wanted(t)
      /\ Wanted(i) /\ Counts'
  BY DestinationIs
<1>4. \A t : Readings(t)' = Readings(t)
  BY <1>1, SameGraph
<1>5. phase \in Counted /\ phase' \in Counted /\ Processed \subseteq Tensors
  BY <1>1 DEF Counted, Processed
<1>6. CASE ~Own(i)
  <2>1. UNCHANGED <<allocatorVars, allocated, addr>>
    BY <1>1, <1>6 DEF AllocateNode, Own, IsView
  <2>2. HashOK'
    BY <1>1, <2>1 DEF HashOK
  <2>3. Memory'
    BY <1>2, <1>6, <2>1 DEF Memory, Held, allocatorVars
  <2>4. SafeSoFar'
    BY <1>1, <1>2, <1>6, <2>1, SameAddresses
  <2>5. HeldIsWanted'
    BY <1>1, <1>2, <1>3, <1>5, <1>6, <2>1 DEF HeldIsWanted
  <2>6. LostIsRead'
    BY <1>1, <1>2, <1>3, <1>4, <1>5, <1>6, <2>1 DEF LostIsRead
  <2> QED BY <1>1, <1>3, <2>1, <2>2, <2>3, <2>4, <2>5, <2>6
<1>7. CASE Own(i) /\ InPlace(i) = {}
  <2>1. PICK p \in Places(Size(i)) :
          /\ Allocate(p, Size(i)) /\ addr' = [addr EXCEPT ![i] = Address(p, Size(i))]
          /\ allocated' = [allocated EXCEPT ![i] = TRUE]
    BY <1>1, <1>7 DEF AllocateNode, Own, IsView
  <2>2. Size(i) \in Sizes
    BY <1>1, PlanAssumption DEF Size, Indices, NTensors
  <2>3. AllocatorNext
    BY <2>1, <2>2 DEF AllocatorNext
  <2>4. HashOK'
    <3>1. Address(p, Size(i)) \in Allocations
      BY <2>1, <2>2, PlacesArePlaces, AddressIsNew
    <3>2. Address(p, Size(i)) \in [chunk : ChunkIds, offset : Nat, size : Nat]
      BY <3>1 DEF Allocations
    <3> QED BY <1>1, <2>1, <3>2 DEF HashOK
  <2>5. /\ Memory'
        /\ \A u \in Held : ~Overlap(addr'[i], addr[u])
    BY <1>1, <1>2, <1>7, <2>1, FreshMemory
  <2>6. \A t \in Indices : allocated'[t] = IF t = i THEN TRUE ELSE allocated[t]
    BY <2>1 DEF HashOK
  <2>7. HeldIsWanted' /\ LostIsRead'
    <3>1. Processed' = Processed \union {i} /\ allocated'[i]
      BY <1>1, <1>2, <1>7, <2>6
    <3>2. \A t \in Tensors : t # i => allocated'[t] = allocated[t]
      BY <1>1, <2>6
    <3>3. ASSUME NEW t \in Indices, allocated'[t] PROVE t \in Processed' /\ Wanted(t)'
      BY <1>1, <1>3, <1>5, <3>1, <3>2, <3>3 DEF HeldIsWanted
    <3>4. HeldIsWanted'
      BY <3>3 DEF HeldIsWanted
    <3>5. ASSUME NEW t \in Processed', ~allocated'[t]
          PROVE  /\ ~graph'[t].output /\ Readings(t)' # {} /\ PendingViews(t)' = {}
                 /\ \A r \in Pending(t)' : phase' = "update" /\ r[1] = i'
      <4>1. t \in Processed /\ t \in Tensors /\ ~allocated[t]
        BY <1>5, <3>1, <3>2, <3>5
      <4>2. /\ ~graph[t].output /\ Readings(t) # {} /\ PendingViews(t) = {}
            /\ \A r \in Pending(t) : phase = "update" /\ r[1] = i
        BY <4>1 DEF LostIsRead
      <4> QED BY <1>1, <1>3, <1>4, <4>1, <4>2
    <3>6. LostIsRead'
      BY <1>5, <3>5 DEF LostIsRead
    <3> QED BY <3>4, <3>6
  <2>8. \A t \in Tensors : t # i => addr'[t] = addr[t]
    BY <1>1, <2>1 DEF HashOK
  <2>9. ASSUME NEW t \in Processed, Overlap(addr'[i], addr[t]) PROVE Safe(i, t)'
    <3>1. ~allocated[t]
      BY <1>1, <1>5, <2>5, <2>9 DEF Held
    <3>2. ~NeededAfter(t, i) /\ \A u \in {t} \union Views(t) : \A r \in Readings(u) : r[1] # i
      BY <1>1, <3>1, LostIsUnread
    <3>3. ~Reads(i, t)'
      BY <1>1, <3>2, SameGraph DEF Reads
    <3>4. ~NeededAfter(t, i)'
      BY <1>1, <3>2, SameNeed
    <3> QED BY <1>1, <3>3, <3>4 DEF Safe
  <2>10. SafeSoFar'
    BY <1>7, <2>8, <2>9, SafeGrows
  <2> QED BY <1>1, <1>3, <2>3, <2>4, <2>5, <2>7, <2>10
<1>8. CASE Own(i) /\ InPlace(i) # {}
  <2>1. PICK k \in InPlace(i) :
          /\ k = CHOOSE x \in InPlace(i) : \A m \in InPlace(i) : x <= m
          /\ allocated' = [allocated EXCEPT ![i] = TRUE, ![graph[i].src[k]] = FALSE]
          /\ addr' = [addr EXCEPT ![i] = addr[graph[i].src[k]]]
          /\ UNCHANGED allocatorVars
    <3> DEFINE k == CHOOSE x \in InPlace(i) : \A m \in InPlace(i) : x <= m
    <3>1. k \in InPlace(i)
      BY <1>1, <1>8, FirstInPlace
    <3>2. /\ allocated' = [allocated EXCEPT ![i] = TRUE, ![graph[i].src[k]] = FALSE]
          /\ addr' = [addr EXCEPT ![i] = addr[graph[i].src[k]]]
          /\ UNCHANGED allocatorVars
      BY <1>1, <1>8 DEF AllocateNode, Own, IsView
    <3> QED BY <3>1, <3>2
  <2>2. PICK p : p = graph[i].src[k]
    OBVIOUS
  <2>3. /\ p \in Held /\ Size(p) = Size(i) /\ p < i
        /\ ~graph[p].output /\ Readings(p) # {} /\ PendingViews(p) = {}
        /\ \A r \in Pending(p) : r[1] = i
        /\ ~NeededAfter(p, i)
        /\ graph[i].op = "inplace" /\ p \in {graph[i].src[m] : m \in Sources(i)}
        /\ \A v \in Views(p) : v \notin {graph[i].src[m] : m \in Sources(i)}
    BY <1>1, <2>1, <2>2, TakenIsSafe
  <2>4. /\ Memory' /\ p \in Processed
    BY <1>1, <1>2, <1>8, <2>1, <2>2, <2>3, TakenMemory
  <2>5. p # i /\ p \in Indices
    BY <1>1, <2>4, <1>5
  <2>6. \A t \in Indices : /\ allocated'[t] = IF t = p THEN FALSE ELSE IF t = i THEN TRUE ELSE allocated[t]
                           /\ addr'[t] = IF t = i THEN addr[p] ELSE addr[t]
    <3>1. /\ allocated' = [allocated EXCEPT ![i] = TRUE, ![p] = FALSE]
          /\ addr' = [addr EXCEPT ![i] = addr[p]]
      BY <2>1, <2>2
    <3>2. DOMAIN allocated = Indices /\ DOMAIN addr = Indices
      BY DEF HashOK
    <3> QED BY <1>1, <2>5, <3>1, <3>2
  <2>7. HashOK'
    BY <1>1, <2>1, <2>2, <2>5 DEF HashOK
  <2>8. HeldIsWanted'
    BY <1>1, <1>2, <1>3, <1>5, <1>8, <2>6 DEF HeldIsWanted
  <2>9. LostIsRead'
    <3>1. ASSUME NEW t \in Processed', ~allocated'[t]
          PROVE  /\ t \in Tensors /\ ~graph[t].output /\ Readings(t) # {} /\ PendingViews(t) = {}
                 /\ \A r \in Pending(t) : r[1] = i
      <4>1. t \in Processed
        BY <1>1, <1>2, <1>8, <2>5, <2>6, <3>1
      <4>2. t = p \/ ~allocated[t]
        BY <1>1, <1>5, <2>6, <3>1, <4>1
      <4> QED BY <1>1, <1>5, <2>3, <4>1, <4>2 DEF LostIsRead
    <3>2. ASSUME NEW t \in Processed', ~allocated'[t]
          PROVE  /\ PendingViews(t)' = {} /\ \A r \in Pending(t)' : r[1] = i
      BY <1>3, <3>1, <3>2
    <3> QED BY <1>1, <1>4, <1>5, <3>1, <3>2 DEF LostIsRead
  <2>10. ASSUME NEW t \in Processed, Overlap(addr'[i], addr[t]) PROVE Safe(i, t)'
    <3>0. addr'[i] = addr[p] /\ addr'[t] = addr[t] /\ t \in Indices
      BY <1>1, <1>5, <2>6
    <3>1. CASE t = p
      <4>1. ~NeededAfter(p, i)'
        BY <1>1, <2>3, SameNeed
      <4>2. Overwrites(i, p)'
        <5>1. \A u : Views(u)' = Views(u) /\ Sources(u)' = Sources(u)
          BY <1>1, SameGraph
        <5> QED BY <1>1, <2>3, <3>0, <3>1, <5>1 DEF Overwrites
      <4> QED BY <1>1, <3>1, <4>1, <4>2 DEF Safe
    <3>2. CASE t # p
      <4>1. ~allocated[t]
        <5>1. SUFFICES ASSUME allocated[t] PROVE FALSE
          OBVIOUS
        <5>2. t \in Held
          BY <3>0, <5>1 DEF Held
        <5>3. addr[t] \in live /\ addr[p] \in live /\ addr[t] # addr[p]
          BY <2>3, <3>2, <5>2 DEF Memory
        <5>4. addr[t].chunk = addr[p].chunk => Apart(addr[p], addr[t])
          BY <5>3 DEF IInv, LiveApart
        <5> QED BY <2>10, <3>0, <5>4 DEF Overlap
      <4>2. ~NeededAfter(t, i) /\ \A u \in {t} \union Views(t) : \A r \in Readings(u) : r[1] # i
        BY <1>1, <4>1, LostIsUnread
      <4>3. ~Reads(i, t)'
        BY <1>1, <4>2, SameGraph DEF Reads
      <4>4. ~NeededAfter(t, i)'
        BY <1>1, <4>2, SameNeed
      <4> QED BY <1>1, <4>3, <4>4 DEF Safe
    <3> QED BY <3>1, <3>2
  <2>11. SafeSoFar'
    BY <1>1, <1>8, <2>6, <2>10, SafeGrows
  <2> QED BY <1>1, <1>3, <2>1, <2>4, <2>7, <2>8, <2>9, <2>11
<1> QED BY <1>6, <1>7, <1>8

-----------------------------------------------------------------------------
\* One reading less: of the parent only, and with its last one a view is one less of its root.
LEMMA UpdateCounts ==
  ASSUME PlanInv, UpdateParent, NEW p, p = graph[i].src[j], NEW r, r = graph[p].root
  PROVE  /\ p \in Tensors /\ r \in Tensors /\ Readings(r) # {} /\ Readings(p) # {}
         /\ \A t \in Tensors : /\ Pending(t)' \subseteq Pending(t)
                               /\ t # p => Pending(t)' = Pending(t)
                               /\ PendingViews(t)' \subseteq PendingViews(t)
                               /\ ~(t = r /\ IsView(p) /\ n_children[p] = 1 /\ n_views[p] = 0)
                                    => PendingViews(t)' = PendingViews(t)
         /\ Pending(p)' = {} <=> n_children[p] = 1
         /\ n_children' = [n_children EXCEPT ![p] = @ - 1]
         /\ HashOK => n_children' \in [Indices -> Int] /\ n_views' \in [Indices -> Int]
         /\ Counts'
<1> USE DEF PlanInv
<1>1. /\ phase = "update" /\ j \in Sources(i) /\ phase' = "update" /\ i' = i /\ j' = j + 1
      /\ n_children' = [n_children EXCEPT ![p] = @ - 1]
      /\ n_views' = IF (n_children[p] = 1 /\ n_views[p] = 0) /\ IsView(p)
                    THEN [n_views EXCEPT ![r] = @ - 1] ELSE n_views
      /\ UNCHANGED <<graph, addr, buffers>>
  BY Zenon DEF UpdateParent, At
<1>2. /\ phase \in Counted /\ i \in Tensors /\ i \in Nat /\ j \in Nat
      /\ Tensors = Indices /\ Tensors = 1 .. NTensors /\ NTensors \in Nat
      /\ p \in Tensors /\ p < i
  BY <1>1, WalkIs DEF Counted
<1>3. /\ Tensors' = Tensors
      /\ \A t : Readings(t)' = Readings(t) /\ Views(t)' = Views(t)
  BY <1>1, SameGraph
<1>4. /\ r \in Tensors
      /\ IsView(p) => ~IsView(r) /\ Readings(r) # {}
  <2>1. WellFormed(p) /\ (IsView(p) => Readings(r) # {})
    BY <1>2, Zenon DEF GraphOK
  <2>2. 1 .. p - 1 \subseteq Tensors
    BY <1>2
  <2> QED BY <1>2, <2>1, <2>2 DEF WellFormed
<1>5. <<i, j>> \in Readings(p)
  BY <1>1, <1>2, ReadingsAre
<1>6. ~IsView(p) => r = p
  BY <1>2 DEF GraphOK, WellFormed
<1>7. ASSUME NEW t \in Tensors PROVE Pending(t)' = Pending(t) \ {<<i, j>>}
  <2>1. \A x \in Readings(t) : x = <<x[1], x[2]>> /\ x[1] \in Nat /\ x[2] \in Nat
    BY <1>2, ReadingsAre
  <2>2. ASSUME NEW x \in Readings(t)
        PROVE  (x[1] > i \/ (x[1] = i /\ x[2] >= j + 1)) <=> (x[1] > i \/ (x[1] = i /\ x[2] >= j)) /\ x # <<i, j>>
    <3>1. x = <<i, j>> <=> x[1] = i /\ x[2] = j
      BY <2>1
    <3> QED BY <1>2, <2>1, <3>1
  <2>3. Pending(t)' = {x \in Readings(t) : x[1] > i \/ (x[1] = i /\ x[2] >= j + 1)}
    BY <1>1, <1>3 DEF Pending
  <2>4. Pending(t) = {x \in Readings(t) : x[1] > i \/ (x[1] = i /\ x[2] >= j)}
    BY <1>1 DEF Pending
  <2> QED BY <2>2, <2>3, <2>4
<1>8. <<i, j>> \in Pending(p)
  BY <1>1, <1>2, <1>5 DEF Pending
<1>9. \A t \in Tensors : t # p => <<i, j>> \notin Pending(t)
  <2>1. ASSUME NEW t \in Tensors, <<i, j>> \in Readings(t) PROVE t = p
    BY <2>1, ReadingsAre
  <2> QED BY <2>1 DEF Pending
<1>10. \A t \in Tensors : t # p => Pending(t)' = Pending(t)
  BY <1>7, <1>9
<1>11. /\ n_children[p] = Cardinality(Pending(p)) /\ IsFiniteSet(Pending(p))
       /\ Cardinality(Pending(p) \ {<<i, j>>}) = Cardinality(Pending(p)) - 1
       /\ n_children[p] \in Int
  <2>1. n_children[p] = Cardinality(Pending(p)) /\ IsFiniteSet(Pending(p))
    BY <1>2, CountsMean DEF Counts
  <2>2. Cardinality(Pending(p) \ {<<i, j>>}) = Cardinality(Pending(p)) - 1
    BY <1>8, <2>1, FS_RemoveElement
  <2> QED BY <1>2, <2>1, <2>2, FS_CardinalityType
<1>12. n_children[p] = 1 <=> Pending(p)' = {}
  <2>1. IsFiniteSet(Pending(p) \ {<<i, j>>})
    BY <1>11, FS_RemoveElement
  <2>2. Cardinality(Pending(p) \ {<<i, j>>}) = 0 <=> Pending(p) \ {<<i, j>>} = {}
    BY <2>1, FS_EmptySet
  <2> QED BY <1>2, <1>7, <1>11, <2>2
<1>13. ASSUME NEW t \in Tensors
       PROVE  PendingViews(t)' = IF p \in Views(t) /\ n_children[p] = 1
                                 THEN PendingViews(t) \ {p} ELSE PendingViews(t)
  <2>1. Views(t) \subseteq Tensors
    BY ReadingsAre
  <2>2. Readings(p) # {} /\ Pending(p) # {}
    BY <1>5, <1>8
  <2>3. PendingViews(t)' = {v \in Views(t) : Readings(v) = {} \/ Pending(v)' # {}}
    BY <1>3 DEF PendingViews
  <2> QED BY <1>10, <1>12, <2>1, <2>2, <2>3 DEF PendingViews
<1>14. \A t \in Tensors : p \in Views(t) <=> IsView(p) /\ t = r
  BY <1>2 DEF Views
<1>15. IsView(p) => n_views[p] = 0
  <2>1. ASSUME IsView(p) PROVE Views(p) = {}
    BY <2>1 DEF Views, GraphOK, WellFormed
  <2>2. Views(p) = {} => PendingViews(p) = {}
    BY DEF PendingViews
  <2> QED BY <1>2, <2>1, <2>2, CountsMean
<1>16. ASSUME NEW t \in Tensors
       PROVE  PendingViews(t)' = IF t = r /\ IsView(p) /\ n_children[p] = 1 /\ n_views[p] = 0
                                 THEN PendingViews(t) \ {p} ELSE PendingViews(t)
  BY <1>13, <1>14, <1>15
<1>17. IsView(p) => p \in PendingViews(r)
  BY <1>4, <1>8, <1>14 DEF PendingViews
<1>18. ASSUME NEW t \in Tensors
       PROVE  n_views'[t] = Cardinality(PendingViews(t)')
  <2>1. n_views[t] = Cardinality(PendingViews(t))
    BY <1>2, Zenon DEF Counts
  <2>2. CASE t = r /\ IsView(p) /\ n_children[p] = 1 /\ n_views[p] = 0
    <3>1. Cardinality(PendingViews(t) \ {p}) = Cardinality(PendingViews(t)) - 1
      BY <1>17, <2>2, OneViewLess
    <3>2. n_views'[t] = n_views[t] - 1
      BY <1>1, <1>2, <2>2 DEF HashOK
    <3>3. PendingViews(t)' = PendingViews(t) \ {p}
      BY <1>16, <2>2, Zenon
    <3> QED BY <2>1, <3>1, <3>2, <3>3, Zenon
  <2>3. CASE ~(t = r /\ IsView(p) /\ n_children[p] = 1 /\ n_views[p] = 0)
    <3>1. n_views'[t] = n_views[t]
      BY <1>1, <1>2, <2>3 DEF HashOK
    <3>2. PendingViews(t)' = PendingViews(t)
      BY <1>16, <2>3, Zenon
    <3> QED BY <2>1, <3>1, <3>2, Zenon
  <2> QED BY <2>2, <2>3
<1>19. ASSUME NEW t \in Tensors
       PROVE  n_children'[t] = Cardinality(Pending(t)')
  <2>1. CASE t = p
    BY <1>1, <1>2, <1>7, <1>11, <2>1 DEF HashOK
  <2>2. CASE t # p
    BY <1>1, <1>2, <1>10, <2>2 DEF HashOK, Counts
  <2> QED BY <2>1, <2>2
<1>20. Counts'
  BY <1>3, <1>18, <1>19 DEF Counts
<1>21. n_children' \in [Indices -> Int] /\ n_views' \in [Indices -> Int]
  <2>1. n_views \in [Indices -> Int] /\ n_children \in [Indices -> Int]
    BY DEF HashOK
  <2>2. r \in Indices /\ p \in Indices
    BY <1>2, <1>4
  <2>3. n_views[r] - 1 \in Int /\ n_children[p] - 1 \in Int
    BY <2>1, <2>2
  <2>4. n_children' \in [Indices -> Int]
    BY <1>1, <2>1, <2>3, Zenon
  <2>5. n_views' \in [Indices -> Int]
    BY <1>1, <2>1, <2>3, Zenon
  <2> QED BY <2>4, <2>5
<1>22. Readings(r) # {} /\ Readings(p) # {}
  BY <1>4, <1>5, <1>6
<1>23. \A t \in Tensors : Pending(t)' \subseteq Pending(t) /\ PendingViews(t)' \subseteq PendingViews(t)
  BY <1>7, <1>16
<1>24. \A t \in Tensors : ~(t = r /\ IsView(p) /\ n_children[p] = 1 /\ n_views[p] = 0)
                             => PendingViews(t)' = PendingViews(t)
  BY <1>16
<1> QED BY <1>1, <1>2, <1>4, <1>10, <1>12, <1>20, <1>21, <1>22, <1>23, <1>24, Zenon

LEMMA UpdateKeeps ==
  ASSUME PlanInv, UpdateParent
  PROVE  PlanInv' /\ [AllocatorNext]_allocatorVars
<1> USE DEF PlanInv
<1>1. PICK p : p = graph[i].src[j]
  BY Zenon
<1>2. PICK r : r = graph[p].root
  BY Zenon
<1> DEFINE last == n_children[p] = 1 /\ n_views[p] = 0
           freesP == last /\ ~IsView(p) /\ allocated[p]
           freesR == last /\ IsView(p) /\ n_views'[r] = 0 /\ n_children'[r] = 0 /\ allocated[r]
<1>3. /\ phase = "update" /\ j \in Sources(i) /\ phase' = "update" /\ i' = i /\ j' = j + 1
      /\ UNCHANGED <<graph, addr, buffers>>
      /\ \/ freesP /\ FreeNode(p)
         \/ freesR /\ FreeNode(r)
         \/ ~freesP /\ ~freesR /\ UNCHANGED <<allocatorVars, allocated>>
  BY <1>1, <1>2, Zenon DEF UpdateParent, At
<1>4. /\ p \in Tensors /\ r \in Tensors /\ Readings(r) # {} /\ Readings(p) # {}
      /\ \A t \in Tensors : /\ Pending(t)' \subseteq Pending(t)
                            /\ t # p => Pending(t)' = Pending(t)
                            /\ PendingViews(t)' \subseteq PendingViews(t)
                            /\ ~(t = r /\ IsView(p) /\ last) => PendingViews(t)' = PendingViews(t)
      /\ Pending(p)' = {} => n_children[p] = 1
      /\ n_children' \in [Indices -> Int] /\ n_views' \in [Indices -> Int]
      /\ Counts'
  BY <1>1, <1>2, UpdateCounts
<1>5. /\ phase \in Counted /\ phase' \in Counted /\ i \in Tensors /\ i \notin Leafs
      /\ i \in Nat \ {0} /\ j \in Nat \ {0} /\ Tensors = Indices
  BY <1>3, WalkIs DEF Counted
<1>6. /\ Tensors' = Tensors /\ Leafs' = Leafs /\ GraphOK'
      /\ \A t : Own(t)' = Own(t) /\ Readings(t)' = Readings(t) /\ IsView(t)' = IsView(t)
  BY <1>3, SameGraph
<1>7. PlaceOK' /\ Fits'
  BY <1>3, <1>5, <1>6 DEF PlaceOK, Counted, Fits
<1>8. Processed' = Processed /\ Processed \subseteq Tensors
  BY <1>3, <1>6 DEF Processed
<1>9. SafeSoFar'
  BY <1>3, <1>8, SameAddresses
<1>10. \A t \in Tensors : /\ n_children[t] = 0 <=> Pending(t) = {}
                          /\ n_views[t] = 0 <=> PendingViews(t) = {}
  BY <1>5, CountsMean
<1>11. \A t \in Tensors : /\ n_children'[t] = 0 <=> Pending(t)' = {}
                          /\ n_views'[t] = 0 <=> PendingViews(t)' = {}
  <2>1. ASSUME NEW t \in Tensors PROVE IsFiniteSet(Pending(t)') /\ IsFiniteSet(PendingViews(t)')
    <3>1. IsFiniteSet(Pending(t)) /\ IsFiniteSet(PendingViews(t))
      BY <1>5, CountsMean
    <3> QED BY <1>4, <3>1, FS_Subset
  <2>2. \A t \in Tensors : /\ n_children'[t] = Cardinality(Pending(t)')
                           /\ n_views'[t] = Cardinality(PendingViews(t)')
    BY <1>4, <1>5, <1>6 DEF Counts
  <2> QED BY <2>1, <2>2, FS_EmptySet
<1>12. \A t \in Tensors : allocated[t] => ~IsView(t)
  BY <1>5 DEF HeldIsWanted, Processed, Own, IsView
\* Whose memory is freed, if anybody's.
<1>13. PICK f \in Tensors :
         /\ (f = p /\ freesP) \/ (f = r /\ freesR) \/ (~freesP /\ ~freesR)
         /\ IF (freesP \/ freesR) /\ ~graph[f].output
            THEN allocated[f] /\ Free(addr[f]) /\ allocated' = [allocated EXCEPT ![f] = FALSE]
            ELSE UNCHANGED <<allocatorVars, allocated>>
  <2>0. (freesP => allocated[p]) /\ (freesR => allocated[r])
    OBVIOUS
  <2> HIDE DEF freesP, freesR
  <2> DEFINE Frees(f) ==
        /\ (f = p /\ freesP) \/ (f = r /\ freesR) \/ (~freesP /\ ~freesR)
        /\ IF (freesP \/ freesR) /\ ~graph[f].output
           THEN allocated[f] /\ Free(addr[f]) /\ allocated' = [allocated EXCEPT ![f] = FALSE]
           ELSE UNCHANGED <<allocatorVars, allocated>>
  <2>1. ASSUME freesP, FreeNode(p) PROVE Frees(p)
    <3>1. CASE graph[p].output
      BY <2>1, <3>1 DEF FreeNode
    <3>2. CASE ~graph[p].output
      <4>1. Free(addr[p]) /\ allocated' = [allocated EXCEPT ![p] = FALSE]
        BY <2>1, <3>2 DEF FreeNode
      <4> QED BY <2>0, <2>1, <3>2, <4>1
    <3> QED BY <3>1, <3>2
  <2>2. ASSUME freesR, FreeNode(r) PROVE Frees(r)
    <3>1. CASE graph[r].output
      BY <2>2, <3>1 DEF FreeNode
    <3>2. CASE ~graph[r].output
      <4>1. Free(addr[r]) /\ allocated' = [allocated EXCEPT ![r] = FALSE]
        BY <2>2, <3>2 DEF FreeNode
      <4> QED BY <2>0, <2>2, <3>2, <4>1
    <3> QED BY <3>1, <3>2
  <2>3. ASSUME ~freesP, ~freesR, UNCHANGED <<allocatorVars, allocated>> PROVE Frees(p)
    BY <2>3
  <2>4. \E f \in Tensors : Frees(f)
    <3> HIDE DEF Frees
    <3> QED BY <1>3, <1>4, <2>1, <2>2, <2>3
  <2> QED BY <2>4
<1> DEFINE frees == (freesP \/ freesR) /\ ~graph[f].output
<1>14. \A t \in Indices : allocated'[t] = IF t = f /\ frees THEN FALSE ELSE allocated[t]
  BY <1>13 DEF HashOK
<1>15. HashOK'
  BY <1>3, <1>4, <1>13 DEF HashOK
<1>16. Memory' /\ [AllocatorNext]_allocatorVars
  <2>1. CASE frees
    <3>1. f \in Held /\ Free(addr[f]) /\ allocated' = [allocated EXCEPT ![f] = FALSE]
      BY <1>5, <1>13, <2>1 DEF Held
    <3>2. Memory'
      BY <1>3, <1>8, <3>1, FreedMemory
    <3>3. addr[f] \in live
      BY <3>1 DEF Memory
    <3> QED BY <3>1, <3>2, <3>3 DEF AllocatorNext
  <2>2. CASE ~frees
    <3>1. UNCHANGED <<allocatorVars, allocated>>
      BY <1>13, <2>2
    <3> QED BY <1>3, <1>8, <3>1 DEF Memory, Held, allocatorVars
  <2> QED BY <2>1, <2>2
<1>17. ASSUME NEW t \in Indices, allocated'[t]
       PROVE  t \in Processed' /\ Wanted(t)'
  <2>1. allocated[t] /\ ~(t = f /\ frees)
    BY <1>14, <1>17
  <2>2. t \in Processed /\ Wanted(t) /\ t \in Tensors
    BY <1>5, <2>1 DEF HeldIsWanted
  <2>3. CASE graph[t].output \/ Readings(t) = {}
    BY <1>3, <1>6, <1>8, <2>2, <2>3 DEF Wanted
  <2>4. CASE ~graph[t].output /\ Pending(t) # {}
    <3>1. ASSUME Pending(t)' = {}, PendingViews(t)' = {} PROVE FALSE
      <4>1. t = p /\ n_children[p] = 1
        BY <1>4, <2>2, <2>4, <3>1
      <4>2. ~IsView(p)
        BY <1>12, <2>1, <2>2, <4>1
      <4>3. PendingViews(p) = {}
        BY <1>4, <3>1, <4>1, <4>2
      <4>4. freesP
        BY <1>4, <1>10, <2>1, <4>1, <4>2, <4>3
      <4> QED BY <1>13, <2>1, <2>4, <4>1, <4>2, <4>4
    <3> QED BY <1>8, <2>2, <3>1 DEF Wanted
  <2>5. CASE ~graph[t].output /\ PendingViews(t) # {}
    <3>1. ASSUME Pending(t)' = {}, PendingViews(t)' = {} PROVE FALSE
      <4>1. t = r /\ IsView(p) /\ last
        BY <1>4, <2>2, <2>5, <3>1
      <4>2. freesR
        BY <1>4, <1>11, <2>1, <3>1, <4>1
      <4> QED BY <1>13, <2>1, <2>5, <4>1, <4>2
    <3> QED BY <1>8, <2>2, <3>1 DEF Wanted
  <2> QED BY <2>2, <2>3, <2>4, <2>5 DEF Wanted
<1>18. HeldIsWanted'
  BY <1>17 DEF HeldIsWanted, Indices, NTensors
<1>19. ASSUME NEW t \in Processed, ~allocated'[t]
       PROVE  /\ ~graph[t].output /\ Readings(t) # {} /\ PendingViews(t)' = {}
              /\ \A x \in Pending(t)' : x[1] = i
  <2>1. CASE ~allocated[t]
    BY <1>4, <1>8, <2>1 DEF LostIsRead
  <2>2. CASE allocated[t]
    <3>1. t = f /\ frees /\ t \in Tensors
      BY <1>5, <1>8, <1>14, <1>19, <2>2
    <3>2. CASE t = p /\ freesP
      <4>1. PendingViews(p)' = {}
        BY <1>4, <1>10, <3>2
      <4>2. Pending(p)' = {}
        BY <1>1, <1>2, <3>2, UpdateCounts
      <4> QED BY <1>4, <3>1, <3>2, <4>1, <4>2
    <3>3. CASE t = r /\ freesR
      BY <1>4, <1>11, <3>1, <3>3
    <3> QED BY <1>13, <3>1, <3>2, <3>3
  <2> QED BY <2>1, <2>2
<1>20. LostIsRead'
  BY <1>3, <1>5, <1>6, <1>8, <1>19 DEF LostIsRead
<1> QED BY <1>4, <1>6, <1>7, <1>9, <1>15, <1>16, <1>18, <1>20

-----------------------------------------------------------------------------
LEMMA PlanInitially == Init => IInv /\ PlanInv
<1> SUFFICES ASSUME Init PROVE IInv /\ PlanInv
  OBVIOUS
<1> USE DEF Init
<1>1. IInv /\ live = {}
  BY InitiallyApart DEF AllocatorInit
<1>2. graph \in Seq(AnyTensor) /\ Len(graph) = 0 /\ Tensors = {} /\ NTensors \in Nat
  BY PlanAssumption DEF Tensors, NTensors
<1>3. Leafs = {} /\ GraphOK
  BY <1>2 DEF Leafs, GraphOK
<1>4. PlaceOK
  BY DEF PlaceOK, Counted
<1>5. HashOK
  BY AllocatorAssumption DEF HashOK, Indices, Nowhere, ChunkIds
<1>6. Processed = {} /\ Held = {}
  BY <1>2 DEF Processed, Held, Indices
<1>7. Counts /\ HeldIsWanted /\ LostIsRead /\ SafeSoFar /\ Fits
  BY <1>6 DEF Counts, Counted, HeldIsWanted, LostIsRead, SafeSoFar, Fits, Indices
<1>8. Memory
  BY <1>1, <1>6 DEF Memory
<1> QED BY <1>1, <1>3, <1>4, <1>5, <1>7, <1>8 DEF PlanInv

LEMMA PlanStep ==
  ASSUME IInv, PlanInv, [Next]_vars
  PROVE  PlanInv' /\ [AllocatorNext]_allocatorVars
<1>1. CASE Build
  <2>1. phase = "build" /\ UNCHANGED allocatorVars
    BY <1>1 DEF Build, AddLeaf, AddNode, AddView, AddTensor
  <2> QED BY <1>1, <2>1, BuildKeeps
<1>2. CASE BeginPlan
  BY <1>2, BeginKeeps DEF BeginPlan
<1>3. CASE AllocateLeaf
  BY <1>3, LeafKeeps
<1>4. CASE CountChildrenAndViews
  BY <1>4, CountKeeps DEF CountChildrenAndViews
<1>5. CASE AllocateParent
  BY <1>5, ParentKeeps
<1>6. CASE AllocateDestination
  BY <1>6, DestinationKeeps
<1>7. CASE UpdateParent
  BY <1>7, UpdateKeeps
<1>8. CASE NextNode
  BY <1>8, NextKeeps DEF NextNode
<1>9. CASE Reserve
  BY <1>9, ReserveKeeps DEF Reserve
<1>10. CASE UNCHANGED vars
  <2>1. /\ UNCHANGED <<allocatorVars, graph, phase, i, j, n_children, n_views, allocated, addr, buffers>>
    BY <1>10 DEF vars, hashVars
  <2>2. /\ \A t : Readings(t)' = Readings(t) /\ Views(t)' = Views(t) /\ Own(t)' = Own(t)
        /\ Tensors' = Tensors /\ Leafs' = Leafs /\ (GraphOK => GraphOK')
    BY <2>1, SameGraph
  <2>3. Processed' = Processed /\ Held' = Held
    BY <2>1, <2>2 DEF Processed, Held
  <2>4. \A t : Pending(t)' = Pending(t)
    BY <2>1, <2>2 DEF Pending
  <2>5. \A t : PendingViews(t)' = PendingViews(t)
    BY <2>2, <2>4 DEF PendingViews
  <2>6. \A t : Wanted(t)' = Wanted(t)
    BY <2>1, <2>2, <2>4, <2>5 DEF Wanted
  <2>7. GraphOK' /\ PlaceOK' /\ HashOK'
    BY <2>1, <2>2 DEF PlanInv, PlaceOK, HashOK
  <2>8. Counts' /\ HeldIsWanted' /\ LostIsRead'
    BY <2>1, <2>2, <2>3, <2>4, <2>5, <2>6 DEF PlanInv, Counts, HeldIsWanted, LostIsRead
  <2>9. Memory' /\ Fits'
    BY <2>1, <2>3 DEF PlanInv, Memory, Fits, allocatorVars
  <2>10. SafeSoFar'
    BY <2>1, <2>3, SameAddresses DEF PlanInv
  <2> QED BY <2>1, <2>7, <2>8, <2>9, <2>10 DEF PlanInv
<1> QED BY <1>1, <1>2, <1>3, <1>4, <1>5, <1>6, <1>7, <1>8, <1>9, <1>10 DEF Next, Finished

LEMMA PlanAlways == Spec => [](IInv /\ PlanInv)
<1>1. IInv /\ PlanInv /\ [Next]_vars => (IInv /\ PlanInv)'
  BY PlanStep, StepKeepsApart
<1> QED BY <1>1, PlanInitially, PTL DEF Spec

\* The planner uses the allocator as it is meant to be used: it frees only what it has been
\* given, and once (ggml_gallocr_free_node, and the places it is called from).
THEOREM PlannerUsesAllocator == Spec => UsesAllocator
<1>1. Init => AllocatorInit
  BY DEF Init
<1>2. IInv /\ PlanInv /\ [Next]_vars => [AllocatorNext]_allocatorVars
  BY PlanStep
<1> QED BY <1>1, <1>2, PlanAlways, PTL DEF Spec, UsesAllocator, AllocatorSpec

\* So the memory it plans with is the abstract heap's.
THEOREM PlannerUsesHeap == Spec => UsesHeap
BY PlannerUsesAllocator, AllocatorImplementsHeap, PTL DEF UsesAllocator, UsesHeap

\* For every graph in topological order, with views and in-place operations: when a node
\* writes its result, it destroys nothing that it, a later node or the user of the graph still
\* reads, directly or through a view (ggml_gallocr_alloc_graph_impl).
THEOREM PlanIsAlwaysSafe == Spec => []PlanIsSafe
<1>1. PlanInv => PlanIsSafe
  <2> SUFFICES ASSUME PlanInv, phase = "planned",
                      NEW n \in {m \in Tensors \ Leafs : Own(m)},
                      NEW t \in {u \in 1 .. n - 1 : Own(u)}, Overlap(addr[n], addr[t])
               PROVE  /\ ~NeededAfter(t, n)
                      /\ (\E u \in {t} \union Views(t) : \E r \in Readings(u) : r[1] = n) => Overwrites(n, t)
    BY DEF PlanIsSafe
  <2>1. Tensors = 1 .. NTensors /\ NTensors \in Nat
    BY WalkIs DEF Counted
  <2>2. n \in Processed \ Leafs /\ t \in Processed /\ t < n
    BY <2>1 DEF Processed
  <2>3. Safe(n, t)
    BY <2>2 DEF PlanInv, SafeSoFar
  <2> QED BY <2>3 DEF Safe, Reads
<1> QED BY <1>1, PlanAlways, PTL

\* When the graph is planned, only what is needed at its end still has memory, and no two
\* tensors have the same: nothing leaks from one graph of the walk to its end.
THEOREM MemoryIsAlwaysReturned == Spec => []MemoryIsReturned
<1>1. PlanInv => MemoryIsReturned
  <2> SUFFICES ASSUME PlanInv, phase = "planned" PROVE MemoryIsReturned
    BY DEF MemoryIsReturned
  <2>1. Tensors = Indices /\ Tensors = 1 .. NTensors /\ NTensors \in Nat /\ phase \in Counted
    BY WalkIs DEF Counted
  <2>2. ASSUME NEW t \in Tensors, allocated[t] PROVE NeededAfter(t, Len(graph))
    <3>1. Wanted(t)
      BY <2>1, <2>2 DEF PlanInv, HeldIsWanted
    <3>2. \A u : Pending(u) = {}
      BY DEF Pending
    <3> QED BY <3>1, <3>2 DEF Wanted, PendingViews, NeededAfter
  <2>3. Held = {t \in Tensors : allocated[t]}
    BY <2>1 DEF Held
  <2>4. live = {addr[t] : t \in Held}
    BY DEF PlanInv, Memory
  <2>5. Cardinality(live) = Cardinality(Held)
    <3> DEFINE f == [t \in Held |-> addr[t]]
    <3>1. f \in Bijection(Held, live)
      <4>1. f \in Injection(Held, live)
        BY <2>4 DEF PlanInv, Memory, Injection, IsInjective
      <4>2. f \in Surjection(Held, live)
        BY <2>4 DEF Surjection
      <4> QED BY <4>1, <4>2 DEF Bijection
    <3>2. IsFiniteSet(Held)
      <4>1. Held \in SUBSET (1 .. NTensors)
        BY <2>1, <2>3
      <4>2. IsFiniteSet(1 .. NTensors)
        <5>1. 1 \in Int /\ NTensors \in Int
          BY <2>1
        <5> QED BY <5>1, FS_Interval
      <4> QED BY <4>1, <4>2, FS_Subset
    <3>3. ExistsBijection(Held, live)
      BY <3>1 DEF ExistsBijection
    <3> QED BY <3>2, <3>3, FS_Bijection
  <2> QED BY <2>2, <2>3, <2>4, <2>5 DEF MemoryIsReturned
<1> QED BY <1>1, PlanAlways, PTL

\* Everything planned lies in the buffers, whether an earlier graph has left them behind or
\* they are allocated anew (ggml_gallocr_reserve_n_impl).
THEOREM PlanAlwaysFits == Spec => []PlanFitsBuffers
<1>1. IInv /\ PlanInv => PlanFitsBuffers
  <2> SUFFICES ASSUME IInv, PlanInv, phase = "planned", NEW t \in Tensors, Own(t)
               PROVE  addr[t].offset + Size(t) <= buffers[addr[t].chunk]
    BY DEF PlanFitsBuffers
  <2>1. t \in Processed
    BY DEF Processed
  <2>2. /\ addr[t] \in Allocations /\ addr[t].size = Size(t) /\ addr[t].chunk < n_chunks
        /\ addr[t].offset + Size(t) <= max_size[addr[t].chunk]
    BY <2>1 DEF PlanInv, Memory
  <2>3. addr[t].chunk \in ChunkIds /\ addr[t].chunk \in 0 .. n_chunks - 1
        /\ addr[t].offset \in Nat /\ Size(t) \in Nat
    BY <2>2 DEF Allocations, ChunkIds, IInv, TypeInv
  <2>4. max_size[addr[t].chunk] \in Nat /\ buffers[addr[t].chunk] \in Nat
    BY <2>3 DEF IInv, TypeInv, PlanInv, HashOK
  <2>5. max_size[addr[t].chunk] <= buffers[addr[t].chunk]
    BY <2>3 DEF PlanInv, Fits
  <2> QED BY <2>2, <2>3, <2>4, <2>5
<1> QED BY <1>1, PlanAlways, PTL

=============================================================================
