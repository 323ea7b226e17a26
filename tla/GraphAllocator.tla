--------------------------- MODULE GraphAllocator ---------------------------
(***************************************************************************)
(* ggml_gallocr of ggml-alloc.c: plans the memory of a compute graph.  The *)
(* leafs get their memory first; then the graph is walked in the order of  *)
(* its evaluation, a node takes over the memory of a parent that nobody    *)
(* else reads or gets some of its own, and what has been read for the last *)
(* time is freed.  One buffer type; views are not allocated, they lie in   *)
(* the memory of their root; tensors of one size have the same layout.     *)
(***************************************************************************)
EXTENDS TensorAllocator, FiniteSets, Sequences

CONSTANTS
  \* The graphs considered: per tensor, in topological order and the leafs first, what it
  \* may be, its size, and whether it may be an output
  Kinds, SizeOf, Outputs,
  MaxSources,   \* GGML_MAX_SRC, 10 in the code
  OldBuffers    \* buffers that an earlier graph may have left behind

ASSUME PlanAssumption ==
  /\ Len(Kinds) \in Nat
  /\ SizeOf \in [1 .. Len(Kinds) -> Sizes]
  /\ MaxSources \in Nat \ {0}
  /\ OldBuffers \subseteq [ChunkIds -> Nat]

VARIABLES
  graph,       \* sequence of [op, src, root, output], src and root indices of tensors
  phase, i, j,                         \* where ggml_gallocr_alloc_graph_impl is
  n_children, n_views, allocated, addr,  \* struct hash_node, per tensor
  buffers                              \* sizes of the chunks of the allocated buffer

hashVars == <<n_children, n_views, allocated, addr>>
vars == <<allocatorVars, graph, phase, i, j, hashVars, buffers>>

NTensors == Len(Kinds)
Tensors == DOMAIN graph
Leafs == {t \in Tensors : graph[t].op \in {"leaf", "weight"}}
IsView(t) == graph[t].op = "view"
Size(t) == SizeOf[t]
Sources(t) == DOMAIN graph[t].src

Nowhere == [chunk |-> 0, offset |-> 0, size |-> 0]

Init ==
  /\ AllocatorInit
  /\ graph = <<>>
  /\ phase = "build" /\ i = 1 /\ j = 1
  /\ n_children = [t \in 1 .. NTensors |-> 0]
  /\ n_views = [t \in 1 .. NTensors |-> 0]
  /\ allocated = [t \in 1 .. NTensors |-> FALSE]
  /\ addr = [t \in 1 .. NTensors |-> Nowhere]
  /\ buffers = [c \in ChunkIds |-> 0]

At(p, n, m) == phase' = p /\ i' = n /\ j' = m

-----------------------------------------------------------------------------
(***************************************************************************)
(* The user builds the graph.                                              *)
(***************************************************************************)
AddTensor(t) ==
  /\ phase = "build"
  /\ graph' = Append(graph, t)
  /\ UNCHANGED <<allocatorVars, phase, i, j, hashVars, buffers>>

Tensor(op, src, root, output) == [op |-> op, src |-> src, root |-> root, output |-> output]

Position == Len(graph) + 1

\* The memory of a leaf is planned here, that of a weight is there already.  Leafs are listed
\* apart from the nodes.
AddLeaf(op) ==
  /\ op \in {"leaf", "weight"}
  /\ Tensors = Leafs
  /\ AddTensor(Tensor(op, <<>>, Position, FALSE))

AddNode(op, src, output) ==
  /\ op \in {"inplace", "other"}
  /\ output => Position \in Outputs
  /\ AddTensor(Tensor(op, src, Position, output))

\* A view of a view lies in the same root.
AddView(op, t) ==
  /\ op = "view"
  /\ AddTensor(Tensor(op, <<t>>, graph[t].root, FALSE))

Build ==
  Position <= NTensors /\ \E op \in Kinds[Position] :
    \/ AddLeaf(op)
    \/ \E n \in 1 .. MaxSources : \E src \in [1 .. n -> Tensors], output \in BOOLEAN :
         AddNode(op, src, output)
    \/ \E t \in Tensors : AddView(op, t)

-----------------------------------------------------------------------------
\* Mutant: views of the parent are not asked for.
MutantReusable(p) == allocated[p] /\ ~graph[p].output /\ n_children[p] = 1

\* The parent's memory may be written in place of a new one: it is the allocator's own, no
\* output, and this node is the last that reads it.
Reusable(p) == allocated[p] /\ ~graph[p].output /\ n_children[p] = 1 /\ n_views[p] = 0

\* The parents that node t can replace; the first one is.
InPlace(t) ==
  {k \in Sources(t) : graph[t].op = "inplace" /\ Reusable(graph[t].src[k])
                        /\ Size(graph[t].src[k]) = Size(t)}

\* ggml_gallocr_allocate_node
AllocateNode(t) ==
  IF graph[t].op = "weight" \/ allocated[t] \/ IsView(t)
  THEN UNCHANGED <<allocatorVars, allocated, addr>>
  ELSE \/ /\ InPlace(t) # {}
          /\ LET p == graph[t].src[CHOOSE k \in InPlace(t) : \A m \in InPlace(t) : k <= m]
             IN  /\ allocated' = [allocated EXCEPT ![t] = TRUE, ![p] = FALSE]
                 /\ addr' = [addr EXCEPT ![t] = addr[p]]
          /\ UNCHANGED allocatorVars
       \/ /\ InPlace(t) = {}
          /\ \E p \in Places(Size(t)) :
               /\ Allocate(p, Size(t))
               /\ addr' = [addr EXCEPT ![t] = Address(p, Size(t))]
          /\ allocated' = [allocated EXCEPT ![t] = TRUE]

\* ggml_gallocr_free_node
FreeNode(t) ==
  IF graph[t].output
  THEN UNCHANGED <<allocatorVars, allocated>>
  ELSE Free(addr[t]) /\ allocated' = [allocated EXCEPT ![t] = FALSE]

-----------------------------------------------------------------------------
(***************************************************************************)
(* ggml_gallocr_alloc_graph_impl                                           *)
(***************************************************************************)
BeginPlan ==
  /\ phase = "build" /\ Len(graph) = NTensors
  /\ At("leafs", 1, 1)
  /\ UNCHANGED <<allocatorVars, graph, hashVars, buffers>>

AllocateLeaf ==
  /\ phase = "leafs" /\ i \in Leafs
  /\ AllocateNode(i)
  /\ At("leafs", i + 1, 1)
  /\ UNCHANGED <<graph, n_children, n_views, buffers>>

\* The places where tensor t is read: a tensor, and which of its sources.
Readings(t) ==
  {r \in Tensors \X (1 .. MaxSources) : r[2] \in Sources(r[1]) /\ graph[r[1]].src[r[2]] = t}

CountChildrenAndViews ==
  /\ phase = "leafs" /\ i \notin Leafs
  /\ n_children' = [t \in Tensors |-> Cardinality(Readings(t))]
  /\ n_views' = [t \in Tensors |-> Cardinality({v \in Tensors : IsView(v) /\ graph[v].root = t})]
  /\ At(IF i \in Tensors THEN "parents" ELSE "reserve", i, 1)
  /\ UNCHANGED <<allocatorVars, graph, allocated, addr, buffers>>

AllocateParent ==
  /\ phase = "parents" /\ j \in Sources(i)
  /\ AllocateNode(graph[i].src[j])
  /\ At("parents", i, j + 1)
  /\ UNCHANGED <<graph, n_children, n_views, buffers>>

AllocateDestination ==
  /\ phase = "parents" /\ j \notin Sources(i)
  /\ AllocateNode(i)
  /\ At("update", i, 1)
  /\ UNCHANGED <<graph, n_children, n_views, buffers>>

\* Mutant: memory that an in-place node has taken over is freed with the parent.
MutantUpdateParent ==
  /\ phase = "update" /\ j \in Sources(i)
  /\ LET p == graph[i].src[j]
     IN  /\ n_children' = [n_children EXCEPT ![p] = @ - 1]
         /\ IF n_children[p] = 1 /\ n_views[p] = 0 /\ ~IsView(p)
            THEN FreeNode(p)
            ELSE UNCHANGED <<allocatorVars, allocated>>
  /\ At("update", i, j + 1)
  /\ UNCHANGED <<graph, n_views, addr, buffers>>

\* One reading less.  The last one of a view is one view less of its root.
UpdateParent ==
  /\ phase = "update" /\ j \in Sources(i)
  /\ LET p    == graph[i].src[j]
         r    == graph[p].root
         last == n_children[p] = 1 /\ n_views[p] = 0
     IN  /\ n_children' = [n_children EXCEPT ![p] = @ - 1]
         /\ n_views' = IF last /\ IsView(p) THEN [n_views EXCEPT ![r] = @ - 1] ELSE n_views
         /\ \/ /\ last /\ ~IsView(p) /\ allocated[p]
               /\ FreeNode(p)
            \/ /\ last /\ IsView(p) /\ n_views'[r] = 0 /\ n_children'[r] = 0 /\ allocated[r]
               /\ FreeNode(r)
            \/ /\ ~(last /\ ~IsView(p) /\ allocated[p])
               /\ ~(last /\ IsView(p) /\ n_views'[r] = 0 /\ n_children'[r] = 0 /\ allocated[r])
               /\ UNCHANGED <<allocatorVars, allocated>>
  /\ At("update", i, j + 1)
  /\ UNCHANGED <<graph, addr, buffers>>

NextNode ==
  /\ phase = "update" /\ j \notin Sources(i)
  /\ IF i < Len(graph) THEN At("parents", i + 1, 1) ELSE At("reserve", i, 1)
  /\ UNCHANGED <<allocatorVars, graph, hashVars, buffers>>

\* Mutant: the total is compared, not chunk by chunk.
MutantTooSmall(old) == old[0] < max_size[0]

\* A chunk of the old buffers does not suffice for the plan.
TooSmall(old) == \E c \in 0 .. n_chunks - 1 : old[c] < max_size[c]

\* ggml_gallocr_reserve_n_impl keeps the buffers that there are, or frees them and allocates
\* new ones. When there is no memory for those, there is none left at all.
Reserve ==
  /\ phase = "reserve"
  /\ \E old \in OldBuffers :
       \/ /\ buffers' = IF TooSmall(old) THEN max_size ELSE old
          /\ At("planned", i, 1)
       \/ /\ TooSmall(old)
          /\ buffers' = [c \in ChunkIds |-> 0]
          /\ At("failed", i, 1)
  /\ UNCHANGED <<allocatorVars, graph, hashVars>>

\* The plan stands until the next graph.
Finished == phase \in {"planned", "failed"} /\ UNCHANGED vars

Next ==
  \/ Build \/ BeginPlan
  \/ AllocateLeaf \/ CountChildrenAndViews
  \/ AllocateParent \/ AllocateDestination \/ UpdateParent \/ NextNode
  \/ Reserve \/ Finished

Spec == Init /\ [][Next]_vars

-----------------------------------------------------------------------------
Own(t) == graph[t].op \notin {"weight", "view"}
RootOf(t) == IF IsView(t) THEN graph[t].root ELSE t
Views(t) == {v \in Tensors : IsView(v) /\ graph[v].root = t}

\* Somebody will look at tensor t when node n is done: a later node, or the user of the
\* graph at its end, who may take outputs and what no node has read.
ReadAfter(t, n) == \E r \in UNION {Readings(u) : u \in {t} \union Views(t)} : r[1] > n /\ ~IsView(r[1])
NeededAfter(t, n) ==
  \/ graph[t].output
  \/ \E u \in {t} \union Views(t) : Readings(u) = {}
  \/ ReadAfter(t, n)

\* The parents that node n may overwrite while it reads them.
Overwrites(n, t) ==
  /\ graph[n].op = "inplace"
  /\ t \in {graph[n].src[k] : k \in Sources(n)}
  /\ \A v \in Views(t) : v \notin {graph[n].src[k] : k \in Sources(n)}
  /\ addr[n] = addr[t]

Overlap(a, b) == a.chunk = b.chunk /\ ~Apart(a, b)

\* The plan is safe for the evaluation of the graph in its order: when a node writes its
\* result, it destroys no tensor that it or a later node reads, directly or through a view,
\* and none that the user asks for at the end.
PlanIsSafe ==
  phase = "planned" =>
    \A n \in {m \in Tensors \ Leafs : Own(m)} : \A t \in {u \in 1 .. n - 1 : Own(u)} :
      Overlap(addr[n], addr[t]) =>
        /\ ~NeededAfter(t, n)
        /\ (\E u \in {t} \union Views(t) : \E r \in Readings(u) : r[1] = n) => Overwrites(n, t)

\* When the graph is planned, only what is needed at its end still has memory, each tensor its own.
MemoryIsReturned ==
  phase = "planned" =>
    /\ \A t \in Tensors : allocated[t] => NeededAfter(t, Len(graph))
    /\ live = {addr[t] : t \in {u \in Tensors : allocated[u]}}
    /\ Cardinality(live) = Cardinality({t \in Tensors : allocated[t]})

\* Everything planned lies in the buffers, old or new.
PlanFitsBuffers ==
  phase = "planned" =>
    \A t \in Tensors : Own(t) => addr[t].offset + Size(t) <= buffers[addr[t].chunk]

\* The planner frees only what it has, and once.
UsesAllocator == AllocatorSpec
UsesHeap == Heap!HeapSpec
=============================================================================
