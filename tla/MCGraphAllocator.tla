-------------------------- MODULE MCGraphAllocator --------------------------
(***************************************************************************)
(* All graphs of a leaf, three other tensors and a node: what is freed too *)
(* early is overwritten by one of the last nodes.                          *)
(***************************************************************************)
EXTENDS GraphAllocator

MCSizes == {1, 2}
Computed == {"inplace", "other", "view"}
MCKinds == <<{"leaf"}, Computed \union {"leaf", "weight"}, Computed, Computed, {"inplace", "other"}>>
MCSizeOf == <<2, 1, 2, 1, 2>>
MCOldBuffers == {[c \in ChunkIds |-> 0], [c \in ChunkIds |-> IF c = 0 THEN 3 ELSE 0]}
=============================================================================
