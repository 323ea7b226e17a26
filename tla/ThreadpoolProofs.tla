-------------------------- MODULE ThreadpoolProofs --------------------------
(***************************************************************************)
(* For any graph, any number of threads and any number of computations:    *)
(* the pool keeps its types, and its workers are out of the graph whenever *)
(* the caller is.                                                          *)
(*                                                                         *)
(* A graph is a line of levels with a wall wherever the code has a barrier.*)
(* The threads of a graph are always between the same two walls; those that*)
(* the barrier has let go count as being behind it already.  Hence those   *)
(* that wait, wait at one barrier, and when the caller is done all are.    *)
(*                                                                         *)
(* Within two walls a thread's progress tells the pieces it has computed;  *)
(* with the chunks that are given out, it tells all that are finished.     *)
(* Hence the pool implements the evaluation of a graph, node by node.      *)
(***************************************************************************)
EXTENDS Threadpool, FiniteSetTheorems, TLAPS

Members == {t \in Threads : t < n_graph.n}

\* The last barrier that the thread has arrived at has been passed.
LetGo(t) == bpc[t] = "spinning" /\ n_passed[t] < n_barrier_passed
Stale(t) == pc[t] = "barrier" /\ ret[t] = "computed" /\ LetGo(t)

-----------------------------------------------------------------------------
\* How far a thread is in the graph: 2 * m at node m, 2 * m + 1 in the product at node m.
End == 2 * NNodes
Done == End + 1

LevelOf(m) == IF Kind(m) = "mul_mat" THEN 2 * m + 1 ELSE 2 * m
Reached(m) == IF m = NNodes \/ m = abort THEN End ELSE 2 * m

\* Where the barrier leads to.
LevelAfter(t) ==
  CASE ret[t] = "chunks"   -> 2 * node[t] + 1
    [] ret[t] = "node"     -> Reached(node[t] + 1)
    [] ret[t] = "computed" -> Done

LevelAt(t) ==
  CASE ret[t] = "chunks"   -> 2 * node[t]
    [] ret[t] = "node"     -> LevelOf(node[t])
    [] ret[t] = "computed" -> End

LevelInside(t) ==
  CASE pc[t] = "enter"                 -> 0
    [] pc[t] = "node"                  -> Reached(node[t])
    [] pc[t] = "piece"                 -> IF phase[t] = "product" THEN 2 * node[t] + 1 ELSE 2 * node[t]
    [] pc[t] = "set_chunk"             -> 2 * node[t]
    [] pc[t] \in {"chunks", "fetch"}   -> 2 * node[t] + 1
    [] pc[t] = "after"                 -> LevelOf(node[t])
    [] pc[t] = "barrier"               -> IF LetGo(t) THEN LevelAfter(t) ELSE LevelAt(t)

\* A worker that has not noted the graph, or not begun it, is at its start.
ToBegin(t) == IF t = 0 THEN pc[0] = "kickoff_signal" ELSE last_graph[t] # n_graph \/ pending[t]

Level(t) ==
  IF ToBegin(t) THEN 0 ELSE IF pc[t] \in Computing THEN LevelInside(t) ELSE Done

\* The levels that are left through a barrier only.
Walls ==
  {2 * m : m \in {x \in 0 .. NNodes - 1 : Kind(x) = "mul_mat"}}
  \union {LevelOf(m) : m \in {x \in 0 .. NNodes - 2 : Kind(x) # "empty"}}
  \union {End}

Same(p, q) == \A w \in Walls : p > w <=> q > w

InStep == \A t, u \in Members : Same(Level(t), Level(u))

-----------------------------------------------------------------------------
CallerPlaces == {"idle", "kickoff", "kickoff_signal", "computed", "free_signal", "join", "freed"}
WorkerPlaces == {"pause_loop", "pause_lock", "pause_wait", "paused", "stop_check", "poll",
                 "poll_graph", "lock", "cond_wait", "sleeping", "check", "exited"}

\* Where a thread can be with its node and phase.
PlaceOK(t) ==
  /\ pc[t] \in Computing \union (IF t = 0 THEN CallerPlaces ELSE WorkerPlaces)
  /\ pc[t] \in {"piece", "set_chunk", "chunks", "fetch", "after"} =>
       node[t] < NNodes /\ Kind(node[t]) # "empty"
  /\ pc[t] = "piece" => (phase[t] = "rows" <=> Kind(node[t]) = "rows")
  /\ pc[t] \in {"set_chunk", "chunks", "fetch"} => Kind(node[t]) = "mul_mat"
  /\ pc[t] = "set_chunk" => t = 0
  /\ pc[t] = "barrier" =>
       /\ ret[t] = "chunks" => node[t] < NNodes /\ Kind(node[t]) = "mul_mat"
       /\ ret[t] = "node" => node[t] < NNodes - 1 /\ Kind(node[t]) # "empty"

\* A worker computes the present graph if it is a member, or is just leaving an earlier one.
WorkerOK(t) ==
  /\ last_graph[t].id <= n_graph.id
  /\ last_graph[t].id = n_graph.id => last_graph[t] = n_graph
  /\ pending[t] => pc[t] = "check" /\ t < n_graph.n /\ last_graph[t] = n_graph
  /\ pc[t] \in Computing => Stale(t) \/ (t < n_graph.n /\ last_graph[t] = n_graph)

CallerOK ==
  /\ pc[0] = "kickoff" => request \in 1 .. NThreads /\ n_graph.id < MaxGraphs
  /\ pc[0] \in Computing \union {"kickoff_signal", "computed"} => n_graph.n > 0
  /\ abort # -1 => abort \in 1 .. NNodes /\ Kind(abort - 1) # "empty"
  /\ pc[0] \in {"kickoff", "kickoff_signal", "enter", "piece", "set_chunk", "chunks", "fetch", "after"} =>
       abort = -1
  /\ pc[0] = "node" => abort \in {-1, node[0]}
  /\ pc[0] = "barrier" /\ ret[0] = "chunks" => abort = -1
  /\ pc[0] = "barrier" /\ ret[0] = "node" => abort \in {-1, node[0] + 1}

-----------------------------------------------------------------------------
LastPlaces == {"resetting", "releasing"}

Arrived ==
  {t \in Members : bpc[t] \in LastPlaces \/ (bpc[t] = "spinning" /\ n_passed[t] = n_barrier_passed)}

\* Only members are inside the barrier, but for those that it has let go.
InsideAreMembers ==
  \A t \in Threads : bpc[t] # "outside" =>
    /\ pc[t] = "barrier"
    /\ LetGo(t) \/ (t \in Members /\ n_passed[t] = n_barrier_passed)

LastIsAlone ==
  \A t \in Threads : bpc[t] \in LastPlaces =>
    /\ Arrived = Members
    /\ \A u \in Members \ {t} : bpc[u] = "spinning"

CounterCounts ==
  /\ (\A t \in Threads : bpc[t] # "releasing") => n_barrier = Cardinality(Arrived)
  /\ (\E t \in Threads : bpc[t] = "releasing") => n_barrier = 0
  /\ (\A t \in Threads : bpc[t] \notin LastPlaces) /\ n_graph.n > 0 => n_barrier < n_graph.n

PoolInv ==
  /\ TypeOK
  /\ \A t \in Threads : PlaceOK(t)
  /\ \A t \in Workers : WorkerOK(t)
  /\ CallerOK
  /\ InsideAreMembers
  /\ LastIsAlone
  /\ CounterCounts
  /\ InStep

-----------------------------------------------------------------------------
LEMMA Pool ==
  /\ NThreads \in Nat /\ 0 < NThreads /\ MaxGraphs \in Nat
  /\ Threads = 0 .. NThreads - 1 /\ 0 \in Threads /\ Workers = 1 .. NThreads - 1
  /\ NNodes \in Nat
  /\ \A m \in 0 .. NNodes - 1 : Kind(m) \in {"empty", "rows", "mul_mat"}
<1>1. NThreads \in Nat /\ 0 < NThreads /\ MaxGraphs \in Nat /\ Threads = 0 .. NThreads - 1
  BY PoolAssumption, GraphAssumption
<1>2. NNodes \in Nat /\ \A m \in 1 .. Len(Nodes) : Nodes[m] \in {"empty", "rows", "mul_mat"}
  BY GraphAssumption DEF NNodes
<1>3. ASSUME NEW m \in 0 .. NNodes - 1 PROVE Kind(m) \in {"empty", "rows", "mul_mat"}
  <2>1. m + 1 \in 1 .. Len(Nodes)
    BY <1>2 DEF NNodes
  <2> QED BY <1>2, <2>1 DEF Kind
<1> QED BY <1>1, <1>2, <1>3 DEF Workers

LEMMA MembersAre ==
  ASSUME TypeOK
  PROVE  /\ n_graph.n \in 0 .. NThreads /\ n_graph.id \in 0 .. MaxGraphs
         /\ n_graph = [id |-> n_graph.id, n |-> n_graph.n]
         /\ Members = 0 .. n_graph.n - 1
         /\ IsFiniteSet(Members) /\ Cardinality(Members) = n_graph.n
         /\ n_graph.n > 0 => 0 \in Members
<1>1. /\ n_graph.n \in 0 .. NThreads /\ n_graph.id \in 0 .. MaxGraphs
      /\ n_graph = [id |-> n_graph.id, n |-> n_graph.n]
  BY DEF TypeOK, PoolTyped, Graph
<1>2. Members = 0 .. n_graph.n - 1
  BY <1>1, Pool DEF Members
<1>3. 0 \in Int /\ n_graph.n - 1 \in Int /\ n_graph.n \in Nat
  BY <1>1, Pool
<1>4. IsFiniteSet(0 .. n_graph.n - 1)
  BY <1>3, FS_Interval
<1>5. Cardinality(0 .. n_graph.n - 1) = n_graph.n
  <2>1. Cardinality(0 .. n_graph.n - 1) = IF 0 > n_graph.n - 1 THEN 0 ELSE n_graph.n - 1 - 0 + 1
    BY <1>3, FS_Interval
  <2> QED BY <1>3, <2>1
<1> QED BY <1>1, <1>2, <1>3, <1>4, <1>5

\* Where there is a barrier between two levels, and where there is none.
LEMMA WallsAre ==
  /\ Walls \subseteq Int /\ End \in Walls /\ End \in Nat
  /\ \A m \in 0 .. NNodes - 1 : Kind(m) = "mul_mat" => 2 * m \in Walls
  /\ \A m \in 0 .. NNodes - 2 : Kind(m) # "empty" => LevelOf(m) \in Walls
  /\ \A m \in 0 .. NNodes - 1 : Kind(m) = "empty" => Same(2 * m, 2 * (m + 1))
  /\ \A m \in 0 .. NNodes - 1 : m + 1 = NNodes /\ Kind(m) # "empty" => Same(LevelOf(m), End)
<1> USE Pool
<1>1. ASSUME NEW w \in Walls
      PROVE  \/ \E m \in 0 .. NNodes - 1 : Kind(m) = "mul_mat" /\ w = 2 * m
             \/ \E m \in 0 .. NNodes - 2 : Kind(m) # "empty" /\ w = LevelOf(m)
             \/ w = End
  BY DEF Walls
<1>2. \A m \in 0 .. NNodes - 1 : Kind(m) = "mul_mat" => 2 * m \in Walls
  BY DEF Walls
<1>3. \A m \in 0 .. NNodes - 2 : Kind(m) # "empty" => LevelOf(m) \in Walls
  BY DEF Walls
<1>4. End \in Walls /\ End \in Nat
  BY DEF Walls, End
<1>5. ASSUME NEW w \in Walls
      PROVE  /\ w \in Int
             /\ w = End \/ \E m \in 0 .. NNodes - 1 : Kind(m) # "empty" /\ w \in {2 * m, LevelOf(m)}
                             /\ (w = LevelOf(m) /\ Kind(m) # "mul_mat" => m < NNodes - 1)
                             /\ (w = 2 * m + 1 => m < NNodes - 1)
  BY <1>1, <1>4 DEF LevelOf
<1>6. ASSUME NEW m \in 0 .. NNodes - 1, Kind(m) = "empty", NEW w \in Walls
      PROVE  2 * m > w <=> 2 * (m + 1) > w
  BY <1>5, <1>6 DEF LevelOf, End
<1>7. ASSUME NEW m \in 0 .. NNodes - 1, m + 1 = NNodes, Kind(m) # "empty", NEW w \in Walls
      PROVE  LevelOf(m) > w <=> End > w
  BY <1>5, <1>7 DEF LevelOf, End
<1> QED BY <1>2, <1>3, <1>4, <1>5, <1>6, <1>7 DEF Same

LEMMA SameIsEquivalence ==
  /\ \A p : Same(p, p)
  /\ \A p, q : Same(p, q) => Same(q, p)
  /\ \A p, q, r : Same(p, q) /\ Same(q, r) => Same(p, r)
BY DEF Same

LEMMA WallsApart == \A p, q \in Walls : Same(p, q) => p = q
<1> SUFFICES ASSUME NEW p \in Walls, NEW q \in Walls, Same(p, q) PROVE p = q
  OBVIOUS
<1>1. p \in Int /\ q \in Int
  BY WallsAre
<1>2. (p > p <=> q > p) /\ (p > q <=> q > q)
  BY DEF Same
<1> QED BY <1>1, <1>2

-----------------------------------------------------------------------------
\* What a step of thread t leaves alone.
OthersStay(t) ==
  /\ UNCHANGED <<n_graph, abort, n_barrier_passed>>
  /\ \A u \in Threads \ {t} :
       /\ pc'[u] = pc[u] /\ node'[u] = node[u] /\ phase'[u] = phase[u] /\ ret'[u] = ret[u]
       /\ last_graph'[u] = last_graph[u] /\ pending'[u] = pending[u]
       /\ n_passed'[u] = n_passed[u] /\ bpc'[u] = bpc[u]

LEMMA OthersKeep ==
  ASSUME NEW t \in Threads, OthersStay(t)
  PROVE  /\ Members' = Members
         /\ \A u \in Threads \ {t} : /\ PlaceOK(u)' = PlaceOK(u) /\ Level(u)' = Level(u)
                                     /\ LetGo(u)' = LetGo(u) /\ WorkerOK(u)' = WorkerOK(u)
<1> USE Pool DEF OthersStay
<1>1. Members' = Members
  BY DEF Members
<1>2. ASSUME NEW u \in Threads \ {t}
      PROVE  /\ PlaceOK(u)' = PlaceOK(u) /\ LetGo(u)' = LetGo(u) /\ Stale(u)' = Stale(u)
             /\ Reached(node[u])' = Reached(node[u]) /\ Reached(node[u] + 1)' = Reached(node[u] + 1)
             /\ ToBegin(u)' = ToBegin(u)
  BY DEF PlaceOK, LetGo, Stale, ToBegin, Reached
<1>3. ASSUME NEW u \in Threads \ {t} PROVE Level(u)' = Level(u)
  <2>1. LevelAfter(u)' = LevelAfter(u) /\ LevelAt(u)' = LevelAt(u)
    BY <1>2 DEF LevelAfter, LevelAt
  <2>2. LevelInside(u)' = LevelInside(u)
    BY <1>2, <2>1 DEF LevelInside
  <2> QED BY <1>2, <2>2 DEF Level
<1>4. ASSUME NEW u \in Threads \ {t} PROVE WorkerOK(u)' = WorkerOK(u)
  BY <1>2 DEF WorkerOK
<1> QED BY <1>1, <1>2, <1>3, <1>4

\* A step of one thread keeps the invariant if it keeps the thread's own part, the barrier's,
\* and the threads in step.
LEMMA OwnPartKeeps ==
  ASSUME PoolInv, TypeOK', NEW t \in Threads, OthersStay(t), request' = request,
         PlaceOK(t)', t # 0 => WorkerOK(t)', t = 0 => CallerOK',
         InsideAreMembers', LastIsAlone', CounterCounts', InStep'
  PROVE  PoolInv'
<1> USE Pool DEF PoolInv
<1>2. \A u \in Threads : PlaceOK(u)'
  BY OthersKeep
<1>3. \A u \in Workers : WorkerOK(u)'
  BY OthersKeep
<1>4. CallerOK'
  <2>1. CASE t # 0
    BY <2>1 DEF OthersStay, CallerOK
  <2> QED BY <2>1
<1> QED BY <1>2, <1>3, <1>4

\* The threads stay in step when one of them goes through no wall.
LEMMA StaysInStep ==
  ASSUME PoolInv, NEW t \in Threads, OthersStay(t), t \in Members => Same(Level(t), Level(t)')
  PROVE  InStep'
<1>1. Members' = Members
  BY OthersKeep
<1>2. \A u \in Members : Same(Level(u), Level(u)')
  <2>1. \A u \in Members \ {t} : Level(u)' = Level(u)
    BY OthersKeep DEF Members
  <2> QED BY <2>1, SameIsEquivalence
<1> SUFFICES ASSUME NEW u \in Members, NEW v \in Members PROVE Same(Level(u)', Level(v)')
  BY <1>1 DEF InStep, Same
<1>3. Same(Level(u), Level(v))
  BY DEF InStep, PoolInv
<1> QED BY <1>2, <1>3, SameIsEquivalence

LEMMA BarrierStays ==
  ASSUME PoolInv, NEW t \in Threads, OthersStay(t),
         UNCHANGED <<n_barrier, n_passed, bpc>>, bpc[t] = "outside"
  PROVE  InsideAreMembers' /\ LastIsAlone' /\ CounterCounts'
<1> USE DEF PoolInv
<1>1. Members' = Members /\ n_graph' = n_graph /\ n_barrier_passed' = n_barrier_passed
  BY OthersKeep DEF OthersStay
<1>2. InsideAreMembers'
  BY <1>1 DEF InsideAreMembers, LetGo, OthersStay
<1>3. Arrived' = Arrived
  BY <1>1 DEF Arrived
<1> QED BY <1>1, <1>2, <1>3 DEF LastIsAlone, CounterCounts

LEMMA StepKeeps ==
  ASSUME PoolInv, TypeOK', NEW t \in Threads, OthersStay(t),
         UNCHANGED <<n_barrier, n_passed, bpc, request>>, bpc[t] = "outside",
         PlaceOK(t)', t # 0 => WorkerOK(t)', t = 0 => CallerOK',
         t \in Members => Same(Level(t), Level(t)')
  PROVE  PoolInv'
BY OwnPartKeeps, StaysInStep, BarrierStays

\* A thread in the graph is a member, unless it is just leaving an earlier one.
LEMMA InsideIsMember ==
  ASSUME PoolInv, NEW t \in Threads, pc[t] \in Computing, ~Stale(t)
  PROVE  /\ t \in Members /\ n_graph.n > 0 /\ ~ToBegin(t) /\ Level(t) = LevelInside(t)
         /\ t # 0 => last_graph[t] = n_graph /\ ~pending[t]
<1> USE Pool DEF PoolInv
<1>1. n_graph.n \in 0 .. NThreads
  BY MembersAre
<1>2. t # 0 => last_graph[t] = n_graph /\ ~pending[t] /\ t < n_graph.n
  BY DEF WorkerOK, Computing
<1>3. t = 0 => n_graph.n > 0
  BY DEF CallerOK
<1>4. ~ToBegin(t)
  BY <1>2 DEF ToBegin, Computing
<1> QED BY <1>1, <1>2, <1>3, <1>4 DEF Members, Level

LEMMA OutsideBarrier ==
  ASSUME PoolInv, NEW t \in Threads, pc[t] # "barrier"
  PROVE  bpc[t] = "outside" /\ ~Stale(t) /\ ~LetGo(t)
BY DEF PoolInv, InsideAreMembers, Stale, LetGo

\* The same for a step within the graph.
LEMMA StepInsideKeeps ==
  ASSUME PoolInv, TypeOK', NEW t \in Threads, OthersStay(t),
         UNCHANGED <<n_barrier, n_passed, bpc, request, last_graph, pending>>,
         bpc[t] = "outside", pc[t] \in Computing, pc'[t] \in Computing,
         PlaceOK(t)', t = 0 => CallerOK', Same(LevelInside(t), LevelInside(t)')
  PROVE  PoolInv'
<1> USE Pool
<1>1. ~Stale(t)
  BY DEF Stale, LetGo
<1>2. /\ t \in Members /\ n_graph.n > 0 /\ ~ToBegin(t) /\ Level(t) = LevelInside(t)
      /\ t # 0 => last_graph[t] = n_graph /\ ~pending[t]
  BY <1>1, InsideIsMember
<1>3. n_graph' = n_graph
  BY DEF OthersStay
<1>4. ~ToBegin(t)'
  BY <1>2, <1>3 DEF ToBegin, Computing
<1>5. Level(t)' = LevelInside(t)'
  BY <1>4 DEF Level
<1>6. t # 0 => WorkerOK(t)'
  BY <1>2, <1>3, MembersAre DEF WorkerOK, Members, PoolInv
<1> QED BY <1>2, <1>5, <1>6, StepKeeps

-----------------------------------------------------------------------------
\* An arrival finds room.
LEMMA ArrivalCounts ==
  ASSUME PoolInv, NEW t \in Threads, bpc[t] = "arriving"
  PROVE  /\ t \in Members /\ n_passed[t] = n_barrier_passed /\ pc[t] = "barrier"
         /\ \A u \in Threads : bpc[u] \notin LastPlaces
         /\ n_barrier = Cardinality(Arrived) /\ n_barrier < n_graph.n
<1>1. t \in Members /\ n_passed[t] = n_barrier_passed /\ pc[t] = "barrier"
  BY DEF PoolInv, InsideAreMembers, LetGo
<1>2. \A u \in Threads : bpc[u] \notin LastPlaces
  BY <1>1 DEF PoolInv, LastIsAlone, LastPlaces
<1>3. n_graph.n > 0
  BY <1>1, Pool, MembersAre DEF Members, PoolInv
<1>4. n_barrier = Cardinality(Arrived) /\ n_barrier < n_graph.n
  BY <1>2, <1>3 DEF PoolInv, CounterCounts, LastPlaces
<1> QED BY <1>1, <1>2, <1>4

LEMMA PlacesAre ==
  /\ Computing \subseteq Places /\ CallerPlaces \subseteq Places /\ WorkerPlaces \subseteq Places
  /\ {"enter", "node", "piece", "set_chunk", "chunks", "fetch", "after", "barrier"} \subseteq Places
BY DEF Places, Computing, CallerPlaces, WorkerPlaces

LEMMA GotoIsTyped ==
  ASSUME pc \in [Threads -> Places], NEW t, NEW place \in Places, Goto(t, place)
  PROVE  pc' \in [Threads -> Places]
BY DEF Goto

\* Each part of the type is kept by a step that leaves its variables alone.
LEMMA TypesStay ==
  /\ PoolTyped /\ UNCHANGED poolVars => PoolTyped'
  /\ BarrierTyped /\ UNCHANGED barrierVars => BarrierTyped'
  /\ ThreadsTyped /\ UNCHANGED <<stateVars, localVars>> => ThreadsTyped'
  /\ ThreadsTyped /\ UNCHANGED <<stateVars, node, phase, chunk, nth, ret>>
       /\ pc' \in [Threads -> Places] => ThreadsTyped'
BY DEF poolVars, PoolTyped, barrierVars, BarrierTyped, stateVars, localVars, ThreadsTyped

LEMMA CallerTypes == 
  ASSUME PoolInv, \/ \E n \in 1 .. NThreads + 1 : BeginCompute(n)
                  \/ \E p \in BOOLEAN : SetPause(p)
                  \/ FreeStop \/ PublishGraph \/ SignalGraph \/ EndCompute \/ FreeSignal \/ Join
  PROVE  TypeOK'
<1> USE Pool DEF TypeOK
<1>0. TypeOK /\ pc \in [Threads -> Places]
  BY DEF PoolInv, ThreadsTyped
<1>1. ASSUME NEW n \in 1 .. NThreads + 1, BeginCompute(n) PROVE TypeOK'
  <2>1. pc' \in [Threads -> Places]
    BY <1>0, <1>1, GotoIsTyped, PlacesAre DEF BeginCompute, CallerPlaces
  <2>2. PoolTyped'
    <3>1. request' \in 0 .. NThreads
      BY <1>1 DEF BeginCompute
    <3> QED BY <1>0, <1>1, <3>1 DEF BeginCompute, PoolTyped
  <2> QED BY <1>0, <1>1, <2>1, <2>2, TypesStay DEF BeginCompute
<1>2. ASSUME NEW p \in BOOLEAN, SetPause(p) PROVE TypeOK'
  <2>1. PoolTyped'
    BY <1>0, <1>2 DEF SetPause, PoolTyped
  <2> QED BY <1>0, <1>2, <2>1, TypesStay DEF SetPause
<1>3. CASE FreeStop
  <2>1. pc' \in [Threads -> Places]
    BY <1>0, <1>3, GotoIsTyped, PlacesAre DEF FreeStop, CallerPlaces
  <2>2. PoolTyped'
    BY <1>0, <1>3 DEF FreeStop, PoolTyped
  <2> QED BY <1>0, <1>3, <2>1, <2>2, TypesStay DEF FreeStop
<1>4. CASE PublishGraph
  <2>1. pc' \in [Threads -> Places]
    BY <1>0, <1>4, GotoIsTyped, PlacesAre DEF PublishGraph, CallerPlaces
  <2>2. n_graph' \in Graph
    <3>1. n_graph.id \in 0 .. MaxGraphs - 1 /\ request \in 0 .. NThreads
      BY <1>0, <1>4, MembersAre DEF PublishGraph, PoolInv, CallerOK
    <3> QED BY <1>4, <3>1 DEF PublishGraph, Graph
  <2>3. PoolTyped'
    BY <1>0, <1>4, <2>2 DEF PublishGraph, PoolTyped
  <2> QED BY <1>0, <1>4, <2>1, <2>3, TypesStay DEF PublishGraph
<1>5. CASE SignalGraph
  <2>1. pc' \in [Threads -> Places]
    BY <1>0, <1>5, GotoIsTyped, PlacesAre DEF SignalGraph
  <2>2. PoolTyped'
    BY <1>0, <1>5 DEF SignalGraph, PoolTyped
  <2> QED BY <1>0, <1>5, <2>1, <2>2, TypesStay DEF SignalGraph
<1>6. CASE FreeSignal
  <2>1. pc' \in [Threads -> Places]
    BY <1>0, <1>6, GotoIsTyped, PlacesAre DEF FreeSignal, CallerPlaces
  <2>2. PoolTyped'
    BY <1>0, <1>6 DEF FreeSignal, PoolTyped
  <2> QED BY <1>0, <1>6, <2>1, <2>2, TypesStay DEF FreeSignal
<1>7. CASE EndCompute \/ Join
  <2>1. pc' \in [Threads -> Places]
    BY <1>0, <1>7, GotoIsTyped, PlacesAre DEF EndCompute, Join, CallerPlaces
  <2> QED BY <1>0, <1>7, <2>1, TypesStay DEF EndCompute, Join
<1> QED BY <1>1, <1>2, <1>3, <1>4, <1>5, <1>6, <1>7

LEMMA WorkerTypes ==
  ASSUME PoolInv, NEW t \in Workers,
         \/ TestPause(t) \/ LockPaused(t) \/ WaitPaused(t) \/ WakePaused(t)
         \/ TestStop(t) \/ PollFlags(t) \/ PollGraph(t) \/ LockAndTest(t) \/ WaitForWork(t)
         \/ CheckPending(t) \/ SpuriousWakeup(t)
  PROVE  TypeOK'
<1> USE Pool DEF TypeOK
<1>0. TypeOK /\ pc \in [Threads -> Places] /\ t \in Threads
  BY DEF PoolInv, ThreadsTyped, Workers
<1>1. CASE TestPause(t) \/ TestStop(t) \/ WakePaused(t) \/ PollFlags(t)
  <2>1. \E place \in WorkerPlaces : Goto(t, place)
    BY <1>1 DEF TestPause, TestStop, WakePaused, PollFlags, WorkerPlaces
  <2>2. UNCHANGED <<poolVars, stateVars, node, phase, chunk, nth, ret, barrierVars>>
    BY <1>1 DEF TestPause, TestStop, WakePaused, PollFlags
  <2> QED BY <1>0, <2>1, <2>2, GotoIsTyped, PlacesAre, TypesStay
<1>2. CASE LockPaused(t)
  <2>1. \E place \in WorkerPlaces : Goto(t, place)
    BY <1>2 DEF LockPaused, WorkerPlaces
  <2>2. PoolTyped'
    BY <1>0, <1>2 DEF LockPaused, PoolTyped
  <2> QED BY <1>0, <1>2, <2>1, <2>2, GotoIsTyped, PlacesAre, TypesStay DEF LockPaused
<1>3. CASE WaitPaused(t) \/ WaitForWork(t)
  <2>1. \E place \in WorkerPlaces : Goto(t, place)
    BY <1>3 DEF WaitPaused, WaitForWork, CondWait, WorkerPlaces
  <2>2. PoolTyped'
    BY <1>0, <1>3 DEF WaitPaused, WaitForWork, CondWait, PoolTyped
  <2>3. UNCHANGED <<stateVars, node, phase, chunk, nth, ret, barrierVars>>
    BY <1>3 DEF WaitPaused, WaitForWork, CondWait
  <2> QED BY <1>0, <2>1, <2>2, <2>3, GotoIsTyped, PlacesAre, TypesStay
<1>4. CASE SpuriousWakeup(t)
  <2>1. PoolTyped'
    BY <1>0, <1>4 DEF SpuriousWakeup, PoolTyped
  <2> QED BY <1>0, <1>4, <2>1, TypesStay DEF SpuriousWakeup
<1>5. CASE PollGraph(t) \/ LockAndTest(t)
  <2>1. \E place \in WorkerPlaces : Goto(t, place)
    BY <1>5 DEF PollGraph, LockAndTest, WorkerPlaces
  <2>2. UNCHANGED stateVars \/ NoteGraph(t)
    BY <1>5 DEF PollGraph, LockAndTest
  <2>3. /\ UNCHANGED <<waiting, n_graph, current_chunk, stop, pause, abort, ec, request, finished,
                       node, phase, chunk, nth, ret, barrierVars>>
        /\ mutex' \in {mutex, t}
    BY <1>5 DEF PollGraph, LockAndTest, poolVars
  <2>4. PoolTyped'
    BY <1>0, <2>3 DEF PoolTyped
  <2>5. last_graph' \in [Threads -> Graph] /\ pending' \in [Threads -> BOOLEAN]
    <3>1. last_graph \in [Threads -> Graph] /\ pending \in [Threads -> BOOLEAN] /\ n_graph \in Graph
      BY <1>0 DEF ThreadsTyped, PoolTyped
    <3>2. CASE UNCHANGED stateVars
      BY <3>1, <3>2 DEF stateVars
    <3>3. CASE NoteGraph(t)
      <4>1. (t < n_graph.n) \in BOOLEAN
        OBVIOUS
      <4>2. pending' \in [Threads -> BOOLEAN]
        BY <3>1, <3>3, <4>1 DEF NoteGraph
      <4>3. last_graph' \in [Threads -> Graph]
        BY <3>1, <3>3 DEF NoteGraph
      <4> QED BY <4>2, <4>3
    <3> QED BY <2>2, <3>2, <3>3
  <2>6. ThreadsTyped'
    BY <1>0, <2>1, <2>3, <2>5, GotoIsTyped, PlacesAre DEF ThreadsTyped
  <2> QED BY <1>0, <2>3, <2>4, <2>6, TypesStay
<1>6. CASE CheckPending(t)
  <2>1. pc' \in [Threads -> Places]
    BY <1>0, <1>6, GotoIsTyped, PlacesAre DEF CheckPending, WorkerPlaces
  <2>2. pending' \in [Threads -> BOOLEAN]
    BY <1>0, <1>6 DEF CheckPending, ThreadsTyped
  <2>3. ThreadsTyped'
    BY <1>0, <1>6, <2>1, <2>2 DEF CheckPending, ThreadsTyped
  <2> QED BY <1>0, <1>6, <2>3, TypesStay DEF CheckPending
<1> QED BY <1>1, <1>2, <1>3, <1>4, <1>5, <1>6

LEMMA ComputeTypes ==
  ASSUME PoolInv, NEW t \in Threads, ComputeStep(t) \/ SetChunk(t)
  PROVE  TypeOK'
<1> USE Pool DEF TypeOK
<1>0. TypeOK /\ pc \in [Threads -> Places]
  BY DEF PoolInv, ThreadsTyped
<1>1. CASE EnterGraph(t)
  <2>1. pc' \in [Threads -> Places]
    BY <1>0, <1>1, GotoIsTyped, PlacesAre DEF EnterGraph
  <2>2. nth' \in [Threads -> 0 .. NThreads] /\ node' \in [Threads -> 0 .. NNodes]
    BY <1>0, <1>1, MembersAre DEF EnterGraph, ThreadsTyped
  <2>3. ThreadsTyped'
    BY <1>0, <1>1, <2>1, <2>2 DEF EnterGraph, ThreadsTyped, stateVars
  <2> QED BY <1>0, <1>1, <2>3, TypesStay DEF EnterGraph
<1>2. ASSUME NEW then \in {"computed", "node", "chunks"}, GotoBarrier(t, then)
      PROVE  pc' \in [Threads -> Places] /\ ret' \in [Threads -> {"computed", "node", "chunks"}]
  <2>1. Goto(t, "barrier") /\ ret' = [ret EXCEPT ![t] = then]
    BY <1>2 DEF GotoBarrier
  <2>2. ret \in [Threads -> {"computed", "node", "chunks"}]
    BY <1>0 DEF ThreadsTyped
  <2> QED BY <1>0, <2>1, <2>2, GotoIsTyped, PlacesAre
<1>3. CASE LeaveLoop(t)
  <2>1. ThreadsTyped'
    BY <1>0, <1>2, <1>3 DEF LeaveLoop, ThreadsTyped, stateVars
  <2> QED BY <1>0, <1>3, <2>1, TypesStay DEF LeaveLoop
<1>4. CASE SetChunk(t)
  <2>1. ThreadsTyped'
    BY <1>0, <1>2, <1>4 DEF SetChunk, ThreadsTyped, stateVars
  <2>2. PoolTyped'
    BY <1>0, <1>4 DEF SetChunk, PoolTyped, ThreadsTyped
  <2> QED BY <1>0, <1>4, <2>1, <2>2, TypesStay DEF SetChunk
<1>5. CASE SkipNode(t)
  <2>1. node' \in [Threads -> 0 .. NNodes]
    <3>1. node \in [Threads -> 0 .. NNodes]
      BY <1>0 DEF ThreadsTyped
    <3>2. node[t] # NNodes /\ node' = [node EXCEPT ![t] = node[t] + 1]
      BY <1>5 DEF SkipNode, LoopEnds
    <3>3. node[t] \in 0 .. NNodes
      BY <3>1
    <3>4. node[t] + 1 \in 0 .. NNodes
      BY <3>2, <3>3
    <3> QED BY <3>1, <3>2, <3>4
  <2>2. ThreadsTyped'
    BY <1>0, <1>5, <2>1 DEF SkipNode, ThreadsTyped, stateVars
  <2> QED BY <1>0, <1>5, <2>2, TypesStay DEF SkipNode
<1>6. CASE BeginNode(t)
  <2>1. pc' \in [Threads -> Places]
    BY <1>0, <1>6, GotoIsTyped, PlacesAre DEF BeginNode
  <2>2. phase' \in [Threads -> {"rows", "convert", "product"}]
    BY <1>0, <1>6 DEF BeginNode, ThreadsTyped
  <2>5. chunk' \in [Threads -> Nat]
    <3>1. chunk \in [Threads -> Nat]
      BY <1>0 DEF ThreadsTyped
    <3>2. chunk' = [chunk EXCEPT ![t] = t]
      BY <1>6 DEF BeginNode
    <3>3. t \in Nat
      OBVIOUS
    <3> QED BY <3>1, <3>2, <3>3
  <2>3. ThreadsTyped'
    BY <1>0, <1>6, <2>1, <2>2, <2>5 DEF BeginNode, ThreadsTyped, stateVars
  <2> QED BY <1>0, <1>6, <2>3, TypesStay DEF BeginNode
<1>7. CASE EndPiece(t)
  <2>1. pc' \in [Threads -> Places] /\ ret' \in [Threads -> {"computed", "node", "chunks"}]
    <3>1. CASE phase[t] = "convert" /\ t # 0
      BY <1>2, <1>7, <3>1 DEF EndPiece
    <3>2. CASE ~(phase[t] = "convert" /\ t # 0)
      <4>1. phase[t] \in {"rows", "convert", "product"}
        BY <1>0 DEF ThreadsTyped
      <4>2. \E place \in {"after", "set_chunk", "fetch"} : Goto(t, place)
        BY <1>7, <3>2, <4>1 DEF EndPiece
      <4>3. ret' = ret
        BY <1>7, <3>2 DEF EndPiece
      <4> QED BY <1>0, <4>2, <4>3, GotoIsTyped, PlacesAre DEF ThreadsTyped
    <3> QED BY <3>1, <3>2
  <2>2. /\ UNCHANGED <<mutex, waiting, n_graph, current_chunk, stop, pause, abort, ec, request,
                       stateVars, node, phase, chunk, nth, barrierVars>>
    BY <1>7 DEF EndPiece
  <2>3. ThreadsTyped'
    BY <1>0, <2>1, <2>2 DEF ThreadsTyped, stateVars
  <2>4. PoolTyped'
    BY <1>0, <2>2 DEF PoolTyped
  <2> QED BY <1>0, <2>2, <2>3, <2>4, TypesStay
<1>8. CASE FetchChunk(t)
  <2>1. pc' \in [Threads -> Places]
    BY <1>0, <1>8, GotoIsTyped, PlacesAre DEF FetchChunk
  <2>2. chunk' \in [Threads -> Nat] /\ current_chunk' \in Nat
    <3>1. chunk \in [Threads -> Nat] /\ current_chunk \in Nat
      BY <1>0 DEF ThreadsTyped, PoolTyped
    <3>2. chunk' = [chunk EXCEPT ![t] = current_chunk] /\ current_chunk' = current_chunk + 1
      BY <1>8 DEF FetchChunk
    <3> QED BY <3>1, <3>2
  <2>3. ThreadsTyped'
    BY <1>0, <1>8, <2>1, <2>2 DEF FetchChunk, ThreadsTyped, stateVars
  <2>4. PoolTyped'
    BY <1>0, <1>8, <2>2 DEF FetchChunk, PoolTyped
  <2> QED BY <1>0, <1>8, <2>3, <2>4, TypesStay DEF FetchChunk
<1>9. CASE BeginChunk(t)
  <2>1. pc' \in [Threads -> Places]
    BY <1>0, <1>9, GotoIsTyped, PlacesAre DEF BeginChunk
  <2>2. phase' \in [Threads -> {"rows", "convert", "product"}]
    BY <1>0, <1>9 DEF BeginChunk, ThreadsTyped
  <2>3. ThreadsTyped'
    BY <1>0, <1>9, <2>1, <2>2 DEF BeginChunk, ThreadsTyped, stateVars
  <2> QED BY <1>0, <1>9, <2>3, TypesStay DEF BeginChunk
<1>10. CASE AfterNode(t)
  <2>1. node[t] \in 0 .. NNodes - 1 /\ node \in [Threads -> 0 .. NNodes]
    <3>1. node \in [Threads -> 0 .. NNodes] /\ pc[t] = "after"
      BY <1>0, <1>10 DEF AfterNode, ThreadsTyped
    <3>2. node[t] < NNodes
      BY <3>1 DEF PoolInv, PlaceOK
    <3> QED BY <3>1, <3>2
  <2>2. abort' \in -1 .. NNodes /\ ec' \in {"success", "aborted"}
    <3>1. abort \in -1 .. NNodes /\ ec \in {"success", "aborted"}
      BY <1>0 DEF PoolTyped
    <3>2. (abort' = node[t] + 1 /\ ec' = "aborted") \/ (abort' = abort /\ ec' = ec)
      BY <1>10 DEF AfterNode
    <3> QED BY <2>1, <3>1, <3>2
  <2>3. node' \in [Threads -> 0 .. NNodes]
    BY <1>10, <2>1 DEF AfterNode
  <2>4. pc' \in [Threads -> Places] /\ ret' \in [Threads -> {"computed", "node", "chunks"}]
    <3>1. GotoBarrier(t, "node") \/ (Goto(t, "node") /\ ret' = ret)
      BY <1>10 DEF AfterNode
    <3>2. ret \in [Threads -> {"computed", "node", "chunks"}]
      BY <1>0 DEF ThreadsTyped
    <3> QED BY <1>0, <1>2, <3>1, <3>2, GotoIsTyped, PlacesAre
  <2>5. UNCHANGED <<mutex, waiting, n_graph, current_chunk, stop, pause, request, finished,
                    stateVars, phase, chunk, nth, barrierVars>>
    BY <1>10 DEF AfterNode
  <2>6. ThreadsTyped'
    BY <1>0, <2>3, <2>4, <2>5 DEF ThreadsTyped, stateVars
  <2>7. PoolTyped'
    BY <1>0, <2>2, <2>5 DEF PoolTyped
  <2> QED BY <1>0, <2>5, <2>6, <2>7, TypesStay
<1>11. ASSUME AfterBarrier(t), pc[t] = "barrier"
       PROVE  PoolTyped' /\ ThreadsTyped'
  <2>1. ret[t] = "node" => node[t] \in 0 .. NNodes - 1
    <3>1. ret[t] = "node" => node[t] < NNodes - 1
      BY <1>11 DEF PoolInv, PlaceOK
    <3>2. node[t] \in 0 .. NNodes
      BY <1>0 DEF ThreadsTyped
    <3> QED BY <3>1, <3>2
  <2>2. ret[t] \in {"computed", "node", "chunks"} /\ node \in [Threads -> 0 .. NNodes]
    BY <1>0 DEF ThreadsTyped
  <2>3. node' \in [Threads -> 0 .. NNodes]
    <3>1. CASE ret[t] = "node"
      <4>1. node[t] + 1 \in 0 .. NNodes
        BY <2>1, <3>1, Pool
      <4>2. node' = [node EXCEPT ![t] = node[t] + 1]
        BY <1>11, <3>1 DEF AfterBarrier
      <4> QED BY <2>2, <4>1, <4>2
    <3>2. CASE ret[t] # "node"
      BY <1>11, <2>2, <3>2 DEF AfterBarrier
    <3> QED BY <3>1, <3>2
  <2>4. chunk' \in [Threads -> Nat]
    <3>1. chunk \in [Threads -> Nat] /\ t \in Nat
      BY <1>0 DEF ThreadsTyped
    <3>2. chunk' \in {chunk, [chunk EXCEPT ![t] = t]}
      BY <1>11 DEF AfterBarrier
    <3> QED BY <3>1, <3>2
  <2>5. pc' \in [Threads -> Places]
    <3>1. \E place \in {"pause_loop", "computed", "node", "chunks"} : Goto(t, place)
      BY <1>11, <2>2 DEF AfterBarrier
    <3>2. {"pause_loop", "computed", "node", "chunks"} \subseteq Places
      BY DEF Places, Computing
    <3> QED BY <1>0, <3>1, <3>2, GotoIsTyped
  <2>6. UNCHANGED <<poolVars, stateVars, phase, nth, ret>>
    BY <1>11 DEF AfterBarrier
  <2>7. ThreadsTyped'
    BY <1>0, <2>3, <2>4, <2>5, <2>6 DEF ThreadsTyped, stateVars
  <2> QED BY <1>0, <2>6, <2>7, TypesStay
<1>12. CASE PassAlone(t)
  BY <1>0, <1>11, <1>12, TypesStay DEF PassAlone
<1>13. CASE EnterBarrier(t)
  <2>1. BarrierTyped'
    BY <1>0, <1>13 DEF EnterBarrier, ReadPassed, BarrierTyped, BarrierPlaces
  <2> QED BY <1>0, <1>13, <2>1, TypesStay DEF EnterBarrier
<1>14. CASE InBarrier(t)
  <2>1. n_barrier' \in 0 .. NThreads
    <3>1. CASE Arrive(t, n_graph.n)
      <4>1. n_barrier < n_graph.n /\ n_barrier' = n_barrier + 1
        BY <3>1, ArrivalCounts DEF Arrive
      <4> QED BY <1>0, <4>1, MembersAre DEF BarrierTyped
    <3>2. CASE ResetBarrier(t)
      BY <3>2 DEF ResetBarrier
    <3> QED BY <1>14, <3>1, <3>2 DEF InBarrier
  <2>2. bpc' \in [Threads -> BarrierPlaces] /\ n_passed' = n_passed /\ n_barrier_passed' = n_barrier_passed
    BY <1>0, <1>14 DEF InBarrier, Arrive, ResetBarrier, BarrierTyped, BarrierPlaces
  <2>3. BarrierTyped'
    BY <1>0, <2>1, <2>2 DEF BarrierTyped
  <2> QED BY <1>0, <1>14, <2>3, TypesStay DEF InBarrier
<1>15. CASE LeaveBarrier(t)
  <2>1. AfterBarrier(t) /\ pc[t] = "barrier"
    BY <1>15 DEF LeaveBarrier
  <2>2. BarrierTyped'
    BY <1>0, <1>15 DEF LeaveBarrier, Release, StopSpinning, BarrierTyped, BarrierPlaces
  <2> QED BY <1>11, <2>1, <2>2, TypesStay
<1> QED BY <1>1, <1>3, <1>4, <1>5, <1>6, <1>7, <1>8, <1>9, <1>10, <1>12, <1>13, <1>14, <1>15
        DEF ComputeStep

LEMMA TypeStep == PoolInv /\ [Next]_vars => TypeOK'
<1> SUFFICES ASSUME PoolInv, [Next]_vars PROVE TypeOK'
  OBVIOUS
<1>1. CASE UNCHANGED vars \/ Freed
  BY <1>1, TypesStay DEF vars, Freed, PoolInv, TypeOK
<1>2. CASE Call
  BY <1>2, CallerTypes DEF Call
<1>3. CASE CallerStep
  BY <1>3, CallerTypes, ComputeTypes, Pool DEF CallerStep
<1>4. ASSUME NEW t \in Workers, WorkerStep(t) \/ SpuriousWakeup(t) PROVE TypeOK'
  BY <1>4, WorkerTypes, ComputeTypes DEF WorkerStep, Workers
<1> QED BY <1>1, <1>2, <1>3, <1>4 DEF Next

LEMMA InvStays ==
  ASSUME PoolInv, TypeOK', UNCHANGED <<n_graph, abort, request, stateVars, localVars, barrierVars>>
  PROVE  PoolInv'
<1> USE DEF stateVars, localVars, barrierVars
<1>1. \A t \in Threads : OthersStay(t)
  BY DEF OthersStay
<1>2. Members' = Members /\ \A t \in Threads : /\ PlaceOK(t)' = PlaceOK(t) /\ LetGo(t)' = LetGo(t)
                                               /\ ToBegin(t)' = ToBegin(t) /\ WorkerOK(t)' = WorkerOK(t)
  BY DEF Members, PlaceOK, LetGo, ToBegin, WorkerOK, Stale
<1>3. \A t \in Threads : Level(t)' = Level(t)
  <2> SUFFICES ASSUME NEW t \in Threads PROVE Level(t)' = Level(t)
    OBVIOUS
  <2>1. Reached(node[t])' = Reached(node[t]) /\ Reached(node[t] + 1)' = Reached(node[t] + 1)
    BY DEF Reached
  <2>2. LevelAfter(t)' = LevelAfter(t) /\ LevelAt(t)' = LevelAt(t)
    BY <2>1 DEF LevelAfter, LevelAt
  <2>3. LevelInside(t)' = LevelInside(t)
    BY <1>2, <2>1, <2>2 DEF LevelInside
  <2> QED BY <1>2, <2>3 DEF Level
<1>4. InStep'
  BY <1>2, <1>3 DEF PoolInv, InStep, Members, Same
<1>5. Arrived' = Arrived
  BY <1>2 DEF Arrived
<1>6. InsideAreMembers' /\ LastIsAlone' /\ CounterCounts' /\ CallerOK'
  BY <1>2, <1>5 DEF PoolInv, InsideAreMembers, LastIsAlone, CounterCounts, CallerOK
<1>7. \A t \in Workers : WorkerOK(t)'
  BY <1>2 DEF PoolInv, Workers
<1> QED BY <1>2, <1>4, <1>6, <1>7 DEF PoolInv

-----------------------------------------------------------------------------
(***************************************************************************)
(* The invariant is kept: by a worker outside of the graph ...             *)
(***************************************************************************)
LEMMA UpdateIs ==
  ASSUME NEW S, NEW T, NEW f \in [S -> T], NEW s \in S, NEW v
  PROVE  [f EXCEPT ![s] = v][s] = v /\ \A u \in S \ {s} : [f EXCEPT ![s] = v][u] = f[u]
OBVIOUS

LEMMA GotoGoes ==
  ASSUME TypeOK, NEW t \in Threads, NEW place, Goto(t, place)
  PROVE  pc'[t] = place /\ \A u \in Threads \ {t} : pc'[u] = pc[u]
<1>1. pc \in [Threads -> Places]
  BY DEF TypeOK, ThreadsTyped
<1> QED BY <1>1 DEF Goto

LEMMA ReturnIsNoted ==
  ASSUME TypeOK, NEW t \in Threads, NEW then, ret' = [ret EXCEPT ![t] = then]
  PROVE  ret'[t] = then /\ \A u \in Threads \ {t} : ret'[u] = ret[u]
<1>1. ret \in [Threads -> {"computed", "node", "chunks"}]
  BY DEF TypeOK, ThreadsTyped
<1> QED BY <1>1

LEMMA GotoLeavesOthers ==
  ASSUME TypeOK, NEW t \in Threads, NEW place, Goto(t, place),
         UNCHANGED <<n_graph, abort, barrierVars, stateVars, node, phase, ret>>
  PROVE  OthersStay(t) /\ pc'[t] = place /\ UNCHANGED <<n_barrier, n_passed, bpc, last_graph, pending>>
BY DEF TypeOK, ThreadsTyped, Goto, OthersStay, barrierVars, stateVars

LEMMA WorkerMoves ==
  ASSUME PoolInv, TypeOK', NEW t \in Workers, pc[t] \in WorkerPlaces \ {"check"},
         NEW place \in WorkerPlaces, Goto(t, place),
         UNCHANGED <<n_graph, abort, request, barrierVars, stateVars, node, phase, ret>>
  PROVE  PoolInv'
<1> USE Pool
<1>1. OthersStay(t) /\ pc'[t] = place /\ UNCHANGED <<n_barrier, n_passed, bpc, last_graph, pending>>
  BY GotoLeavesOthers DEF PoolInv
<1>2. bpc[t] = "outside" /\ ~Stale(t)
  BY OutsideBarrier DEF WorkerPlaces
<1>3. PlaceOK(t)'
  BY <1>1 DEF PlaceOK, WorkerPlaces
<1>4. WorkerOK(t)'
  <2>1. pc'[t] \notin Computing /\ pc[t] # "check"
    BY <1>1 DEF Computing, WorkerPlaces
  <2>2. WorkerOK(t) /\ t # 0
    BY DEF PoolInv
  <2> QED BY <1>1, <2>1, <2>2 DEF WorkerOK, OthersStay
<1>5. Level(t)' = Level(t)
  BY <1>1 DEF Level, ToBegin, Computing, WorkerPlaces, OthersStay
<1> QED BY <1>1, <1>2, <1>3, <1>4, <1>5, StepKeeps, SameIsEquivalence

\* Noting a graph leads to its beginning only where the thread stands already.
LEMMA WorkerNotes ==
  ASSUME PoolInv, TypeOK', NEW t \in Workers, pc[t] \in {"poll_graph", "lock", "sleeping"},
         NewGraph(t), NoteGraph(t), Goto(t, IF t < n_graph.n THEN "check" ELSE pc'[t]),
         pc'[t] \in {"check", "lock"},
         UNCHANGED <<n_graph, abort, request, barrierVars, node, phase, ret>>
  PROVE  PoolInv'
<1> USE Pool
<1>0. TypeOK
  BY DEF PoolInv
<1>1. /\ last_graph'[t] = n_graph /\ pending'[t] = (t < n_graph.n)
      /\ \A u \in Threads \ {t} : last_graph'[u] = last_graph[u] /\ pending'[u] = pending[u]
  BY <1>0 DEF TypeOK, ThreadsTyped, NoteGraph
<1>2. /\ OthersStay(t) /\ UNCHANGED <<n_barrier, n_passed, bpc>>
      /\ pc'[t] = IF t < n_graph.n THEN "check" ELSE pc'[t]
  <2>1. /\ pc'[t] = IF t < n_graph.n THEN "check" ELSE pc'[t]
        /\ \A u \in Threads \ {t} : pc'[u] = pc[u]
    BY <1>0, GotoGoes
  <2> QED BY <1>1, <2>1 DEF OthersStay, barrierVars
<1>3. bpc[t] = "outside"
  BY OutsideBarrier
<1>4. PlaceOK(t)'
  BY DEF PlaceOK, WorkerPlaces
<1>5. WorkerOK(t)'
  <2>1. n_graph.id \in Int
    BY <1>0, MembersAre
  <2>2. last_graph'[t].id <= n_graph'.id
    BY <1>1, <2>1
  <2>3. pending'[t] => pc'[t] = "check" /\ t < n_graph'.n
    BY <1>1, <1>2
  <2>4. pc'[t] \notin Computing
    BY DEF Computing
  <2> QED BY <1>1, <2>2, <2>3, <2>4 DEF WorkerOK
<1>6. t \in Members => Level(t) = 0 /\ Level(t)' = 0
  <2>1. t # 0
    OBVIOUS
  <2>2. Level(t) = 0
    BY <2>1 DEF NewGraph, Level, ToBegin
  <2>3. t \in Members => pending'[t]
    BY <1>1 DEF Members
  <2>4. t \in Members => Level(t)' = 0
    BY <2>1, <2>3 DEF Level, ToBegin
  <2> QED BY <2>2, <2>4
<1> QED BY <1>2, <1>3, <1>4, <1>5, <1>6, StepKeeps, SameIsEquivalence

LEMMA CheckKeeps ==
  ASSUME PoolInv, TypeOK', NEW t \in Workers, CheckPending(t)
  PROVE  PoolInv'
<1> USE Pool
<1>0. TypeOK /\ WorkerOK(t) /\ t # 0
  BY DEF PoolInv
<1>1. /\ pending'[t] = FALSE /\ pc'[t] = IF pending[t] THEN "enter" ELSE "pause_loop"
      /\ OthersStay(t) /\ UNCHANGED <<n_graph, n_barrier, n_passed, bpc, last_graph, request>> /\ pc[t] = "check"
  BY <1>0 DEF TypeOK, ThreadsTyped, CheckPending, Goto, OthersStay, barrierVars, poolVars
<1>2. bpc[t] = "outside"
  BY <1>1, OutsideBarrier
<1>3. PlaceOK(t)'
  BY <1>0, <1>1 DEF PlaceOK, WorkerPlaces, Computing
<1>4. WorkerOK(t)'
  BY <1>0, <1>1 DEF WorkerOK, Computing
<1>5. Level(t)' = Level(t)
  BY <1>0, <1>1 DEF Level, ToBegin, LevelInside, Computing, WorkerOK
<1> QED BY <1>0, <1>1, <1>2, <1>3, <1>4, <1>5, StepKeeps, SameIsEquivalence

LEMMA WorkerKeeps ==
  ASSUME PoolInv, TypeOK', NEW t \in Workers,
         \/ TestPause(t) \/ LockPaused(t) \/ WaitPaused(t) \/ WakePaused(t)
         \/ TestStop(t) \/ PollFlags(t) \/ PollGraph(t) \/ LockAndTest(t) \/ WaitForWork(t)
         \/ CheckPending(t) \/ SpuriousWakeup(t)
  PROVE  PoolInv'
<1>1. CASE TestPause(t) \/ TestStop(t) \/ WakePaused(t) \/ PollFlags(t)
  <2>1. \E place \in WorkerPlaces : Goto(t, place)
    BY <1>1 DEF TestPause, TestStop, WakePaused, PollFlags, WorkerPlaces
  <2>2. /\ UNCHANGED <<n_graph, abort, request, barrierVars, stateVars, node, phase, ret>>
        /\ pc[t] \in {"pause_loop", "stop_check", "paused", "poll"}
    BY <1>1 DEF TestPause, TestStop, WakePaused, PollFlags, poolVars
  <2> QED BY <2>1, <2>2, WorkerMoves DEF WorkerPlaces
<1>2. CASE LockPaused(t)
  <2>1. \E place \in WorkerPlaces : Goto(t, place)
    BY <1>2 DEF LockPaused, WorkerPlaces
  <2>2. /\ UNCHANGED <<n_graph, abort, request, barrierVars, stateVars, node, phase, ret>>
        /\ pc[t] = "pause_lock"
    BY <1>2 DEF LockPaused
  <2> QED BY <2>1, <2>2, WorkerMoves DEF WorkerPlaces
<1>3. CASE WaitPaused(t) \/ WaitForWork(t)
  <2>1. \E place \in WorkerPlaces : Goto(t, place)
    BY <1>3 DEF WaitPaused, WaitForWork, CondWait, WorkerPlaces
  <2>2. /\ UNCHANGED <<n_graph, abort, request, barrierVars, stateVars, node, phase, ret>>
        /\ pc[t] \in {"pause_wait", "cond_wait"}
    BY <1>3 DEF WaitPaused, WaitForWork, CondWait
  <2> QED BY <2>1, <2>2, WorkerMoves DEF WorkerPlaces
<1>4. CASE PollGraph(t) \/ LockAndTest(t)
  <2>1. /\ UNCHANGED <<n_graph, abort, request, barrierVars, node, phase, ret>>
        /\ pc[t] \in {"poll_graph", "lock", "sleeping"}
    BY <1>4 DEF PollGraph, LockAndTest, poolVars
  <2>2. \/ UNCHANGED stateVars /\ \E place \in {"poll", "lock", "check", "cond_wait"} : Goto(t, place)
        \/ NewGraph(t) /\ NoteGraph(t) /\ Goto(t, IF t < n_graph.n THEN "check" ELSE "lock")
        \/ NewGraph(t) /\ NoteGraph(t) /\ Goto(t, "check")
    BY <1>4 DEF PollGraph, LockAndTest
  <2>3. CASE UNCHANGED stateVars /\ \E place \in {"poll", "lock", "check", "cond_wait"} : Goto(t, place)
    <3>1. {"poll", "lock", "check", "cond_wait"} \subseteq WorkerPlaces /\ pc[t] \in WorkerPlaces \ {"check"}
      BY <2>1 DEF WorkerPlaces
    <3> QED BY <2>1, <2>3, <3>1, WorkerMoves
  <2>4. ASSUME NewGraph(t), NoteGraph(t), NEW place \in {"check", "lock"}, Goto(t, place),
               t < n_graph.n => place = "check"
        PROVE  PoolInv'
    <3>1. pc'[t] = place
      BY <2>4 DEF Goto, PoolInv, TypeOK, ThreadsTyped, Workers
    <3>2. Goto(t, IF t < n_graph.n THEN "check" ELSE pc'[t])
      BY <2>4, <3>1
    <3> QED BY <2>1, <2>4, <3>1, <3>2, WorkerNotes
  <2> QED BY <2>2, <2>3, <2>4
<1>5. CASE CheckPending(t)
  BY <1>5, CheckKeeps
<1>6. CASE SpuriousWakeup(t)
  <2>1. UNCHANGED <<n_graph, abort, request, stateVars, localVars, barrierVars>>
    BY <1>6 DEF SpuriousWakeup
  <2> QED BY <2>1, InvStays
<1> QED BY <1>1, <1>2, <1>3, <1>4, <1>5, <1>6

-----------------------------------------------------------------------------
(***************************************************************************)
(* ... by a thread in the graph, outside of the barrier ...                *)
(***************************************************************************)
LEMMA EnterKeeps ==
  ASSUME PoolInv, TypeOK', NEW t \in Threads, EnterGraph(t)
  PROVE  PoolInv'
<1> USE Pool
<1>0. TypeOK /\ PlaceOK(t) /\ CallerOK
  BY DEF PoolInv
<1>1. /\ OthersStay(t) /\ UNCHANGED <<n_barrier, n_passed, bpc, request, last_graph, pending>>
      /\ pc[t] = "enter" /\ pc'[t] = "node" /\ node'[t] = 0
  BY <1>0 DEF TypeOK, ThreadsTyped, EnterGraph, Goto, OthersStay, poolVars, stateVars, barrierVars
<1>2. bpc[t] = "outside" /\ pc[t] \in Computing /\ pc'[t] \in Computing
  BY <1>1, OutsideBarrier DEF Computing
<1>3. PlaceOK(t)'
  BY <1>0, <1>1 DEF PlaceOK, Computing
<1>4. abort # 0
  BY <1>0 DEF CallerOK
<1>5. t = 0 => CallerOK'
  BY <1>0, <1>1 DEF CallerOK, OthersStay, Computing
<1>6. LevelInside(t) = 0 /\ LevelInside(t)' = 0
  BY <1>1, <1>4 DEF LevelInside, Reached, End, OthersStay
<1> QED BY <1>1, <1>2, <1>3, <1>5, <1>6, StepInsideKeeps, SameIsEquivalence

LEMMA LeaveKeeps ==
  ASSUME PoolInv, TypeOK', NEW t \in Threads, LeaveLoop(t)
  PROVE  PoolInv'
<1> USE Pool
<1>0. TypeOK /\ PlaceOK(t) /\ CallerOK
  BY DEF PoolInv
<1>1. /\ OthersStay(t) /\ UNCHANGED <<n_barrier, n_passed, bpc, request, last_graph, pending>>
      /\ pc[t] = "node" /\ pc'[t] = "barrier" /\ ret'[t] = "computed" /\ node'[t] = node[t]
      /\ node[t] = NNodes \/ abort = node[t]
  BY <1>0 DEF TypeOK, ThreadsTyped, LeaveLoop, LoopEnds, GotoBarrier, Goto, OthersStay, poolVars,
              stateVars, barrierVars
<1>2. bpc[t] = "outside" /\ pc[t] \in Computing /\ pc'[t] \in Computing
  BY <1>1, OutsideBarrier DEF Computing
<1>3. PlaceOK(t)'
  BY <1>0, <1>1 DEF PlaceOK, Computing
<1>5. t = 0 => CallerOK'
  BY <1>0, <1>1 DEF CallerOK, OthersStay, Computing
<1>6. LevelInside(t) = End /\ LevelInside(t)' = End
  BY <1>1, <1>2 DEF LevelInside, Reached, End, OthersStay, LetGo, LevelAt
<1> QED BY <1>1, <1>2, <1>3, <1>5, <1>6, StepInsideKeeps, SameIsEquivalence

\* An empty node has no barrier, and the graph is not aborted after one.
LEMMA SkipKeeps ==
  ASSUME PoolInv, TypeOK', NEW t \in Threads, SkipNode(t)
  PROVE  PoolInv'
<1> USE Pool
<1>0. TypeOK /\ PlaceOK(t) /\ CallerOK
  BY DEF PoolInv
<1>1. /\ OthersStay(t) /\ UNCHANGED <<n_barrier, n_passed, bpc, request, last_graph, pending, pc, ret>>
      /\ pc[t] = "node" /\ node'[t] = node[t] + 1
      /\ node[t] \in 0 .. NNodes - 1 /\ abort # node[t] /\ Kind(node[t]) = "empty"
  <2>1. /\ UNCHANGED <<n_graph, abort, barrierVars, n_barrier_passed, n_barrier, n_passed, bpc, request,
                       last_graph, pending, pc, phase, ret>>
        /\ pc[t] = "node" /\ node' = [node EXCEPT ![t] = node[t] + 1]
        /\ node[t] # NNodes /\ abort # node[t] /\ Kind(node[t]) = "empty"
    BY DEF SkipNode, LoopEnds, poolVars, stateVars, barrierVars
  <2>2. node \in [Threads -> 0 .. NNodes]
    BY <1>0 DEF TypeOK, ThreadsTyped
  <2>3. node'[t] = node[t] + 1 /\ \A u \in Threads \ {t} : node'[u] = node[u]
    BY <2>1, <2>2, UpdateIs
  <2>4. node[t] \in 0 .. NNodes - 1
    BY <2>1, <2>2
  <2> QED BY <2>1, <2>3, <2>4 DEF OthersStay
<1>2. bpc[t] = "outside" /\ pc[t] \in Computing /\ pc'[t] \in Computing
  BY <1>1, OutsideBarrier DEF Computing
<1>3. PlaceOK(t)'
  BY <1>0, <1>1 DEF PlaceOK, Computing
<1>4. abort # node[t] + 1
  <2>1. ASSUME abort = node[t] + 1 PROVE FALSE
    <3>1. abort - 1 = node[t] /\ abort # -1
      BY <1>1, <2>1
    <3> QED BY <1>0, <1>1, <3>1 DEF CallerOK
  <2> QED BY <2>1
<1>5. t = 0 => CallerOK'
  BY <1>0, <1>1 DEF CallerOK, OthersStay, Computing
<1>6. LevelInside(t) = 2 * node[t] /\ LevelInside(t)' = 2 * (node[t] + 1)
  BY <1>1, <1>4 DEF LevelInside, Reached, End, OthersStay
<1>7. Same(LevelInside(t), LevelInside(t)')
  BY <1>1, <1>6, WallsAre
<1> QED BY <1>1, <1>2, <1>3, <1>5, <1>7, StepInsideKeeps

LEMMA BeginKeeps ==
  ASSUME PoolInv, TypeOK', NEW t \in Threads, BeginNode(t)
  PROVE  PoolInv'
<1> USE Pool
<1>0. TypeOK /\ PlaceOK(t) /\ CallerOK
  BY DEF PoolInv
<1>1. /\ OthersStay(t) /\ UNCHANGED <<n_barrier, n_passed, bpc, request, last_graph, pending>>
      /\ pc[t] = "node" /\ pc'[t] = "piece" /\ node'[t] = node[t]
      /\ phase'[t] = IF Kind(node[t]) = "mul_mat" THEN "convert" ELSE "rows"
      /\ node[t] \in 0 .. NNodes - 1 /\ abort # node[t] /\ Kind(node[t]) # "empty"
  <2>1. /\ UNCHANGED <<n_graph, abort, n_barrier_passed, n_barrier, n_passed, bpc, request,
                       last_graph, pending, node, ret>>
        /\ pc[t] = "node" /\ Goto(t, "piece") /\ node[t] # NNodes /\ abort # node[t]
        /\ Kind(node[t]) # "empty"
        /\ phase' = [phase EXCEPT ![t] = IF Kind(node[t]) = "mul_mat" THEN "convert" ELSE "rows"]
    BY DEF BeginNode, LoopEnds, poolVars, stateVars, barrierVars
  <2>2. node[t] \in 0 .. NNodes /\ phase \in [Threads -> {"rows", "convert", "product"}]
    BY <1>0 DEF TypeOK, ThreadsTyped
  <2>3. pc'[t] = "piece" /\ \A u \in Threads \ {t} : pc'[u] = pc[u]
    BY <1>0, <2>1, GotoGoes
  <2>4. /\ phase'[t] = IF Kind(node[t]) = "mul_mat" THEN "convert" ELSE "rows"
        /\ \A u \in Threads \ {t} : phase'[u] = phase[u]
    BY <2>1, <2>2, UpdateIs
  <2>5. node[t] \in 0 .. NNodes - 1
    BY <2>1, <2>2
  <2> QED BY <2>1, <2>3, <2>4, <2>5 DEF OthersStay
<1>2. bpc[t] = "outside" /\ pc[t] \in Computing /\ pc'[t] \in Computing
  BY <1>1, OutsideBarrier DEF Computing
<1>3. PlaceOK(t)'
  BY <1>0, <1>1 DEF PlaceOK, Computing
<1>5. t = 0 => CallerOK'
  BY <1>0, <1>1 DEF CallerOK, OthersStay, Computing
<1>6. LevelInside(t) = 2 * node[t] /\ LevelInside(t)' = 2 * node[t]
  BY <1>1 DEF LevelInside, Reached, End, OthersStay
<1> QED BY <1>1, <1>2, <1>3, <1>5, <1>6, StepInsideKeeps, SameIsEquivalence

LEMMA EndKeeps ==
  ASSUME PoolInv, TypeOK', NEW t \in Threads, EndPiece(t)
  PROVE  PoolInv'
<1> USE Pool
<1>0. TypeOK /\ PlaceOK(t) /\ CallerOK /\ phase[t] \in {"rows", "convert", "product"}
  BY DEF PoolInv, TypeOK, ThreadsTyped
<1>1. /\ UNCHANGED <<n_graph, abort, n_barrier_passed, n_barrier, n_passed, bpc, request, last_graph,
                     pending, node, phase>>
      /\ pc[t] = "piece"
  BY DEF EndPiece, stateVars, barrierVars
<1>2. \/ phase[t] = "rows" /\ Goto(t, "after") /\ ret' = ret
      \/ phase[t] = "convert" /\ t = 0 /\ Goto(t, "set_chunk") /\ ret' = ret
      \/ phase[t] = "convert" /\ t # 0 /\ Goto(t, "barrier") /\ ret' = [ret EXCEPT ![t] = "chunks"]
      \/ phase[t] = "product" /\ (Goto(t, "after") \/ Goto(t, "fetch")) /\ ret' = ret
  BY <1>0 DEF EndPiece, GotoBarrier
<1>3. /\ OthersStay(t)
      /\ \/ phase[t] = "rows" /\ pc'[t] = "after"
         \/ phase[t] = "convert" /\ t = 0 /\ pc'[t] = "set_chunk"
         \/ phase[t] = "convert" /\ t # 0 /\ pc'[t] = "barrier" /\ ret'[t] = "chunks"
         \/ phase[t] = "product" /\ pc'[t] \in {"after", "fetch"}
  <2>1. ret' = ret \/ ret' = [ret EXCEPT ![t] = "chunks"]
    BY <1>2
  <2>2. \A u \in Threads \ {t} : ret'[u] = ret[u]
    BY <1>0, <2>1, ReturnIsNoted
  <2>3. \A u \in Threads \ {t} : pc'[u] = pc[u]
    BY <1>0, <1>2, GotoGoes
  <2>4. OthersStay(t)
    BY <1>1, <2>2, <2>3 DEF OthersStay
  <2> QED BY <1>0, <1>2, <2>4, GotoGoes, ReturnIsNoted
<1>4. bpc[t] = "outside" /\ pc[t] \in Computing /\ pc'[t] \in Computing
  BY <1>1, <1>3, OutsideBarrier DEF Computing
<1>5. node[t] \in 0 .. NNodes - 1 /\ (phase[t] = "rows" <=> Kind(node[t]) = "rows")
      /\ Kind(node[t]) \in {"rows", "mul_mat"}
  <2>1. node[t] \in 0 .. NNodes
    BY <1>0 DEF TypeOK, ThreadsTyped
  <2>2. /\ node[t] < NNodes /\ Kind(node[t]) # "empty"
        /\ phase[t] = "rows" <=> Kind(node[t]) = "rows"
    BY <1>0, <1>1 DEF PlaceOK
  <2> QED BY <2>1, <2>2
<1>6. PlaceOK(t)'
  BY <1>1, <1>3, <1>4, <1>5 DEF PlaceOK
<1>7. t = 0 => CallerOK'
  BY <1>0, <1>1, <1>3 DEF CallerOK, OthersStay, Computing
<1>8. LevelInside(t)' = LevelInside(t)
  BY <1>1, <1>3, <1>4, <1>5 DEF LevelInside, LevelOf, LevelAt, LetGo
<1> QED BY <1>1, <1>3, <1>4, <1>6, <1>7, <1>8, StepInsideKeeps, SameIsEquivalence

LEMMA SetChunkKeeps ==
  ASSUME PoolInv, TypeOK', NEW t \in Threads, SetChunk(t)
  PROVE  PoolInv'
<1> USE Pool
<1>0. TypeOK /\ PlaceOK(t) /\ CallerOK
  BY DEF PoolInv
<1>1. /\ OthersStay(t) /\ UNCHANGED <<n_barrier, n_passed, bpc, request, last_graph, pending, node>>
      /\ pc[t] = "set_chunk" /\ pc'[t] = "barrier" /\ ret'[t] = "chunks"
  BY <1>0 DEF TypeOK, ThreadsTyped, SetChunk, GotoBarrier, Goto, OthersStay, stateVars,
              barrierVars
<1>2. bpc[t] = "outside" /\ pc[t] \in Computing /\ pc'[t] \in Computing
  BY <1>1, OutsideBarrier DEF Computing
<1>3. PlaceOK(t)'
  BY <1>0, <1>1 DEF PlaceOK, Computing
<1>5. t = 0 => CallerOK'
  BY <1>0, <1>1 DEF CallerOK, OthersStay, Computing
<1>6. LevelInside(t)' = LevelInside(t)
  BY <1>1, <1>2 DEF LevelInside, LevelAt, LetGo
<1> QED BY <1>1, <1>2, <1>3, <1>5, <1>6, StepInsideKeeps, SameIsEquivalence

LEMMA FetchKeeps ==
  ASSUME PoolInv, TypeOK', NEW t \in Threads, FetchChunk(t)
  PROVE  PoolInv'
<1> USE Pool
<1>0. TypeOK /\ PlaceOK(t) /\ CallerOK
  BY DEF PoolInv
<1>1. /\ OthersStay(t) /\ UNCHANGED <<n_barrier, n_passed, bpc, request, last_graph, pending, node>>
      /\ pc[t] = "fetch" /\ pc'[t] = "chunks"
  BY <1>0 DEF TypeOK, ThreadsTyped, FetchChunk, Goto, OthersStay, stateVars, barrierVars
<1>2. bpc[t] = "outside" /\ pc[t] \in Computing /\ pc'[t] \in Computing
  BY <1>1, OutsideBarrier DEF Computing
<1>3. PlaceOK(t)'
  BY <1>0, <1>1 DEF PlaceOK, Computing
<1>5. t = 0 => CallerOK'
  BY <1>0, <1>1 DEF CallerOK, OthersStay, Computing
<1>6. LevelInside(t)' = LevelInside(t)
  BY <1>1 DEF LevelInside
<1> QED BY <1>1, <1>2, <1>3, <1>5, <1>6, StepInsideKeeps, SameIsEquivalence

LEMMA BeginChunkKeeps ==
  ASSUME PoolInv, TypeOK', NEW t \in Threads, BeginChunk(t)
  PROVE  PoolInv'
<1> USE Pool
<1>0. TypeOK /\ PlaceOK(t) /\ CallerOK
  BY DEF PoolInv
<1>1. /\ UNCHANGED <<n_graph, abort, barrierVars, n_barrier, n_passed, bpc, request, last_graph, pending, node, ret>>
      /\ pc[t] = "chunks"
      /\ \/ Goto(t, "piece") /\ phase' = [phase EXCEPT ![t] = "product"]
         \/ Goto(t, "after") /\ phase' = phase
  BY DEF BeginChunk, poolVars, stateVars, barrierVars
<1>2. /\ OthersStay(t)
      /\ \/ pc'[t] = "piece" /\ phase'[t] = "product"
         \/ pc'[t] = "after"
  <2>1. phase \in [Threads -> {"rows", "convert", "product"}]
    BY <1>0 DEF TypeOK, ThreadsTyped
  <2>2. \A u \in Threads \ {t} : phase'[u] = phase[u]
    BY <1>1, <2>1
  <2>3. \A u \in Threads \ {t} : pc'[u] = pc[u]
    BY <1>0, <1>1, GotoGoes
  <2>4. OthersStay(t)
    BY <1>1, <2>2, <2>3 DEF OthersStay, barrierVars
  <2> QED BY <1>0, <1>1, <2>1, <2>4, GotoGoes
<1>3. bpc[t] = "outside" /\ pc[t] \in Computing /\ pc'[t] \in Computing
  BY <1>1, <1>2, OutsideBarrier DEF Computing
<1>4. Kind(node[t]) = "mul_mat"
  BY <1>0, <1>1 DEF PlaceOK
<1>5. PlaceOK(t)'
  BY <1>0, <1>1, <1>2, <1>3, <1>4 DEF PlaceOK
<1>6. t = 0 => CallerOK'
  BY <1>0, <1>1, <1>2 DEF CallerOK, OthersStay, Computing
<1>7. LevelInside(t)' = LevelInside(t)
  BY <1>1, <1>2, <1>4 DEF LevelInside, LevelOf
<1> QED BY <1>1, <1>2, <1>3, <1>5, <1>6, <1>7, StepInsideKeeps, SameIsEquivalence

\* After a node: its barrier, or the end of the graph if it was the last.
LEMMA AfterNodeIs ==
  ASSUME PoolInv, TypeOK', NEW t \in Threads, AfterNode(t)
  PROVE  /\ UNCHANGED <<n_graph, n_barrier_passed, n_barrier, n_passed, bpc, request, last_graph, pending>>
         /\ pc[t] = "after" /\ bpc[t] = "outside" /\ pc'[t] \in Computing
         /\ node[t] \in 0 .. NNodes - 1 /\ Kind(node[t]) \in {"rows", "mul_mat"}
         /\ \A u \in Threads \ {t} : /\ pc'[u] = pc[u] /\ node'[u] = node[u]
                                     /\ phase'[u] = phase[u] /\ ret'[u] = ret[u]
         /\ \/ node[t] + 1 < NNodes /\ pc'[t] = "barrier" /\ ret'[t] = "node" /\ node'[t] = node[t]
            \/ node[t] + 1 = NNodes /\ pc'[t] = "node" /\ node'[t] = NNodes
         /\ PlaceOK(t)'
         /\ LevelInside(t) = LevelOf(node[t]) /\ Same(LevelInside(t), LevelInside(t)')
<1> USE Pool
<1>0. TypeOK /\ PlaceOK(t)
  BY DEF PoolInv
<1>1. /\ UNCHANGED <<n_graph, n_barrier_passed, n_barrier, n_passed, bpc, request, last_graph, pending>>
      /\ pc[t] = "after"
  BY DEF AfterNode, stateVars, barrierVars
<1>2. node[t] \in 0 .. NNodes - 1 /\ Kind(node[t]) \in {"rows", "mul_mat"}
  <2>1. node[t] \in 0 .. NNodes
    BY <1>0 DEF TypeOK, ThreadsTyped
  <2>2. node[t] < NNodes /\ Kind(node[t]) # "empty"
    BY <1>0, <1>1 DEF PlaceOK
  <2> QED BY <2>1, <2>2
<1>3. /\ \A u \in Threads \ {t} : /\ pc'[u] = pc[u] /\ node'[u] = node[u]
                                  /\ phase'[u] = phase[u] /\ ret'[u] = ret[u]
      /\ \/ node[t] + 1 < NNodes /\ pc'[t] = "barrier" /\ ret'[t] = "node" /\ node'[t] = node[t]
         \/ node[t] + 1 = NNodes /\ pc'[t] = "node" /\ node'[t] = NNodes
  <2>1. CASE node[t] + 1 < NNodes
    <3>1. /\ Goto(t, "barrier") /\ ret' = [ret EXCEPT ![t] = "node"]
          /\ node' = node /\ phase' = phase
      BY <2>1 DEF AfterNode, GotoBarrier
    <3>2. pc'[t] = "barrier" /\ \A u \in Threads \ {t} : pc'[u] = pc[u]
      BY <1>0, <3>1, GotoGoes
    <3>3. ret'[t] = "node" /\ \A u \in Threads \ {t} : ret'[u] = ret[u]
      BY <1>0, <3>1, ReturnIsNoted
    <3> QED BY <2>1, <3>1, <3>2, <3>3
  <2>2. CASE ~(node[t] + 1 < NNodes)
    <3>1. /\ Goto(t, "node") /\ node' = [node EXCEPT ![t] = node[t] + 1]
          /\ ret' = ret /\ phase' = phase
      BY <2>2 DEF AfterNode
    <3>2. node \in [Threads -> 0 .. NNodes] /\ node[t] + 1 = NNodes
      <4>1. node \in [Threads -> 0 .. NNodes]
        BY <1>0 DEF TypeOK, ThreadsTyped
      <4>2. node[t] + 1 = NNodes
        BY <1>2, <2>2
      <4> QED BY <4>1, <4>2
    <3>3. node'[t] = node[t] + 1 /\ \A u \in Threads \ {t} : node'[u] = node[u]
      BY <3>1, <3>2, UpdateIs
    <3>4. pc'[t] = "node" /\ \A u \in Threads \ {t} : pc'[u] = pc[u]
      BY <1>0, <3>1, GotoGoes
    <3> QED BY <3>1, <3>2, <3>3, <3>4
  <2> QED BY <2>1, <2>2
<1>4. bpc[t] = "outside" /\ pc'[t] \in Computing
  BY <1>1, <1>3, OutsideBarrier DEF Computing
<1>5. PlaceOK(t)'
  BY <1>2, <1>3, <1>4 DEF PlaceOK
<1>6. LevelInside(t) = LevelOf(node[t])
  BY <1>1 DEF LevelInside
<1>7. Same(LevelInside(t), LevelInside(t)')
  <2>1. CASE node[t] + 1 < NNodes
    <3>1. LevelInside(t)' = LevelOf(node[t])
      BY <1>1, <1>3, <1>4, <2>1 DEF LevelInside, LevelAt, LevelOf, LetGo
    <3> QED BY <1>6, <3>1, SameIsEquivalence
  <2>2. CASE node[t] + 1 = NNodes
    <3>1. LevelInside(t)' = End
      BY <1>2, <1>3, <2>2 DEF LevelInside, Reached, End
    <3> QED BY <1>2, <1>6, <2>2, <3>1, WallsAre
  <2> QED BY <1>3, <2>1, <2>2
<1> QED BY <1>1, <1>2, <1>3, <1>4, <1>5, <1>6, <1>7

LEMMA AfterNodeKeeps ==
  ASSUME PoolInv, TypeOK', NEW t \in Threads, AfterNode(t), abort' = abort
  PROVE  PoolInv'
<1> USE Pool
<1>1. OthersStay(t) /\ pc[t] \in Computing
  BY AfterNodeIs DEF OthersStay, Computing
<1>2. t = 0 => CallerOK'
  BY AfterNodeIs DEF CallerOK, PoolInv, Computing
<1> QED BY <1>1, <1>2, AfterNodeIs, StepInsideKeeps

\* Nobody is past the node after which the caller is told to abort.
LEMMA AbortKeeps ==
  ASSUME PoolInv, TypeOK', AfterNode(0), abort' = node[0] + 1
  PROVE  PoolInv'
<1> USE Pool
<1>0. TypeOK /\ CallerOK /\ 0 \in Threads
  BY DEF PoolInv
<1>1. abort = -1 /\ pc[0] = "after" /\ ~Stale(0)
  BY <1>0, AfterNodeIs DEF CallerOK, Stale
<1>2. 0 \in Members /\ Level(0) = LevelOf(node[0]) /\ n_graph.n > 0 /\ ~ToBegin(0)
  BY <1>0, <1>1, InsideIsMember, AfterNodeIs DEF Computing
<1>3. /\ Members' = Members /\ n_graph' = n_graph
      /\ \A u \in Threads \ {0} : /\ PlaceOK(u)' = PlaceOK(u) /\ LetGo(u)' = LetGo(u)
                                  /\ ToBegin(u)' = ToBegin(u) /\ WorkerOK(u)' = WorkerOK(u)
  BY AfterNodeIs DEF Members, PlaceOK, LetGo, ToBegin, WorkerOK, Stale
<1>4. ASSUME NEW u \in Members \ {0} PROVE Level(u)' = Level(u)
  <2>1. u \in Threads \ {0} /\ node[u] \in 0 .. NNodes /\ PlaceOK(u)
    BY <1>0 DEF Members, TypeOK, ThreadsTyped, PoolInv
  <2>2. Same(Level(u), LevelOf(node[0]))
    BY <1>2 DEF PoolInv, InStep
  <2>3. node[0] + 1 < NNodes => Level(u) # 2 * (node[0] + 1)
    <3>1. ASSUME node[0] + 1 < NNodes PROVE LevelOf(node[0]) \in Walls /\ LevelOf(node[0]) < 2 * (node[0] + 1)
      BY <3>1, WallsAre, AfterNodeIs DEF LevelOf
    <3>2. ASSUME node[0] + 1 < NNodes, Level(u) = 2 * (node[0] + 1) PROVE FALSE
      <4>1. 2 * (node[0] + 1) > LevelOf(node[0]) <=> LevelOf(node[0]) > LevelOf(node[0])
        BY <2>2, <3>1, <3>2 DEF Same
      <4>2. LevelOf(node[0]) \in Int
        BY <3>1, <3>2, WallsAre
      <4> QED BY <3>1, <3>2, <4>1, <4>2, AfterNodeIs
    <3> QED BY <3>2
  <2>4. ASSUME NEW x \in 0 .. NNodes, x # node[0] + 1 \/ node[0] + 1 = NNodes
        PROVE  Reached(x)' = Reached(x)
    BY <1>1, <2>4, AfterNodeIs DEF Reached
  <2>5. CASE ToBegin(u) \/ pc[u] \notin Computing
    BY <1>3, <2>1, <2>5, AfterNodeIs DEF Level
  <2>6. CASE ~ToBegin(u) /\ pc[u] = "node"
    <3>1. Level(u) = Reached(node[u])
      BY <2>6 DEF Level, LevelInside, Computing
    <3>2. Level(u)' = Reached(node[u])'
      BY <1>3, <2>1, <2>6, AfterNodeIs DEF Level, LevelInside, Computing
    <3>3. node[u]' = node[u]
      BY <2>1, AfterNodeIs
    <3>4. node[u] # node[0] + 1 \/ node[0] + 1 = NNodes
      BY <1>1, <2>1, <2>3, <3>1, AfterNodeIs DEF Reached
    <3> QED BY <2>1, <2>4, <3>1, <3>2, <3>3, <3>4 DEF Reached
  <2>7. CASE ~ToBegin(u) /\ pc[u] = "barrier" /\ LetGo(u) /\ ret[u] = "node"
    <3>1. Level(u) = Reached(node[u] + 1)
      BY <2>7 DEF Level, LevelInside, LevelAfter, Computing
    <3>2. Level(u)' = Reached(node[u] + 1)'
      BY <1>3, <2>1, <2>7, AfterNodeIs DEF Level, LevelInside, LevelAfter, Computing
    <3>3. node[u]' = node[u]
      BY <2>1, AfterNodeIs
    <3>4. node[u] + 1 \in 0 .. NNodes
      BY <2>1, <2>7 DEF PlaceOK
    <3>5. node[u] + 1 # node[0] + 1 \/ node[0] + 1 = NNodes
      BY <1>1, <2>3, <3>1, <3>4, AfterNodeIs DEF Reached
    <3> QED BY <2>4, <3>1, <3>2, <3>3, <3>4, <3>5 DEF Reached
  <2>8. CASE /\ ~ToBegin(u) /\ pc[u] \in Computing \ {"node"}
             /\ ~(pc[u] = "barrier" /\ LetGo(u) /\ ret[u] = "node")
    <3>0. node'[u] = node[u] /\ ret'[u] = ret[u]
      BY <2>1, AfterNodeIs
    <3>1. LevelAt(u)' = LevelAt(u)
      BY <3>0 DEF LevelAt, LevelOf
    <3>2. ret[u] \in {"computed", "chunks"} => LevelAfter(u)' = LevelAfter(u)
      BY <3>0 DEF LevelAfter
    <3>3. ret[u] \in {"computed", "node", "chunks"}
      BY <1>0, <2>1 DEF TypeOK, ThreadsTyped
    <3>4. pc'[u] = pc[u] /\ node'[u] = node[u] /\ phase'[u] = phase[u] /\ LetGo(u)' = LetGo(u)
      BY <1>3, <2>1, AfterNodeIs
    <3>5. pc[u] # "barrier" => LevelInside(u)' = LevelInside(u)
      BY <2>8, <3>4 DEF LevelInside, LevelOf
    <3>6. pc[u] = "barrier" => LevelInside(u)' = LevelInside(u)
      BY <2>8, <3>1, <3>2, <3>3, <3>4 DEF LevelInside
    <3>7. LevelInside(u)' = LevelInside(u)
      BY <3>5, <3>6
    <3> QED BY <1>3, <2>1, <2>8, <3>4, <3>7 DEF Level
  <2> QED BY <2>5, <2>6, <2>7, <2>8 DEF Computing
<1>5. Same(Level(0), Level(0)')
  <2>1. Level(0)' = LevelInside(0)'
    BY AfterNodeIs, <1>0 DEF Level, ToBegin, Computing
  <2> QED BY <1>0, <1>2, <2>1, AfterNodeIs
<1>6. InStep'
  <2> SUFFICES ASSUME NEW u \in Members, NEW v \in Members PROVE Same(Level(u)', Level(v)')
    BY <1>3 DEF InStep, Same
  <2>1. Same(Level(u), Level(u)') /\ Same(Level(v), Level(v)')
    BY <1>4, <1>5, SameIsEquivalence
  <2>2. Same(Level(u), Level(v))
    BY DEF InStep, PoolInv
  <2> QED BY <2>1, <2>2, SameIsEquivalence
<1>7. CallerOK'
  <2>1. abort' - 1 = node[0] /\ abort' \in 1 .. NNodes /\ Kind(abort' - 1) # "empty"
    BY <1>0, AfterNodeIs
  <2> QED BY <1>0, <1>1, <1>2, <2>1, AfterNodeIs DEF CallerOK, Computing
<1>8. InsideAreMembers'
  <2>1. /\ bpc' = bpc /\ bpc[0] = "outside" /\ UNCHANGED <<n_passed, n_barrier_passed>>
        /\ \A u \in Threads \ {0} : pc'[u] = pc[u]
    BY <1>0, AfterNodeIs
  <2>2. InsideAreMembers
    BY DEF PoolInv
  <2>3. \A u \in Threads : LetGo(u)' = LetGo(u)
    BY <2>1 DEF LetGo
  <2> QED BY <1>3, <2>1, <2>2, <2>3 DEF InsideAreMembers
<1>9. Arrived' = Arrived
  BY <1>3, AfterNodeIs, <1>0 DEF Arrived
<1>10. LastIsAlone' /\ CounterCounts'
  BY <1>0, <1>3, <1>9, AfterNodeIs DEF PoolInv, LastIsAlone, CounterCounts
<1>11. (\A u \in Threads : PlaceOK(u)') /\ (\A u \in Workers : WorkerOK(u)')
  BY <1>0, <1>3, AfterNodeIs DEF PoolInv
<1> QED BY <1>6, <1>7, <1>8, <1>10, <1>11 DEF PoolInv

-----------------------------------------------------------------------------
(***************************************************************************)
(* ... in the barrier ...                                                  *)
(***************************************************************************)
LEMMA PassedIs ==
  ASSUME PoolInv, NEW t \in Threads, AfterBarrier(t), pc[t] = "barrier"
  PROVE  /\ UNCHANGED <<n_graph, abort, request, last_graph, pending, phase, ret>>
         /\ \A u \in Threads \ {t} : pc'[u] = pc[u] /\ node'[u] = node[u]
         /\ \/ ret[t] = "computed" /\ node'[t] = node[t]
                 /\ pc'[t] = IF t # 0 THEN "pause_loop" ELSE "computed"
            \/ ret[t] = "node" /\ pc'[t] = "node" /\ node'[t] = node[t] + 1
            \/ ret[t] = "chunks" /\ pc'[t] = "chunks" /\ node'[t] = node[t]
         /\ (\A u \in Threads : bpc'[u] = IF u = t THEN "outside" ELSE bpc[u]) => PlaceOK(t)'
         /\ t = 0 => CallerOK'
         /\ ToBegin(t)' = ToBegin(t)
         /\ ~ToBegin(t) => Level(t)' = LevelAfter(t)
         /\ t # 0 /\ ((t \in Members /\ ~ToBegin(t)) \/ ret[t] = "computed") => WorkerOK(t)'
<1> USE Pool
<1>0. TypeOK /\ PlaceOK(t) /\ CallerOK
  BY DEF PoolInv
<1>1. UNCHANGED <<n_graph, abort, request, last_graph, pending, phase, ret>>
  BY DEF AfterBarrier, poolVars, stateVars
<1>2. ret[t] \in {"computed", "node", "chunks"}
  BY <1>0 DEF TypeOK, ThreadsTyped
<1>3. /\ \A u \in Threads \ {t} : pc'[u] = pc[u] /\ node'[u] = node[u]
      /\ \/ ret[t] = "computed" /\ node'[t] = node[t]
              /\ pc'[t] = IF t # 0 THEN "pause_loop" ELSE "computed"
         \/ ret[t] = "node" /\ pc'[t] = "node" /\ node'[t] = node[t] + 1
         \/ ret[t] = "chunks" /\ pc'[t] = "chunks" /\ node'[t] = node[t]
  BY <1>0, <1>2 DEF TypeOK, ThreadsTyped, AfterBarrier, Goto
<1>4. (\A u \in Threads : bpc'[u] = IF u = t THEN "outside" ELSE bpc[u]) => PlaceOK(t)'
  BY <1>0, <1>3 DEF PlaceOK, CallerPlaces, WorkerPlaces, Computing
<1>5. t = 0 => CallerOK'
  BY <1>0, <1>1, <1>3 DEF CallerOK, Computing
<1>6. ToBegin(t)' = ToBegin(t)
  BY <1>1, <1>3 DEF ToBegin
<1>7. ASSUME ~ToBegin(t) PROVE Level(t)' = LevelAfter(t)
  <2>1. CASE ret[t] = "computed"
    BY <1>3, <1>6, <1>7, <2>1 DEF Level, LevelAfter, Computing
  <2>2. CASE ret[t] = "node"
    BY <1>1, <1>3, <1>6, <1>7, <2>2 DEF Level, LevelInside, LevelAfter, Computing, Reached
  <2>3. CASE ret[t] = "chunks"
    BY <1>3, <1>6, <1>7, <2>3 DEF Level, LevelInside, LevelAfter, Computing
  <2> QED BY <1>2, <2>1, <2>2, <2>3
<1>8. ASSUME t # 0, (t \in Members /\ ~ToBegin(t)) \/ ret[t] = "computed" PROVE WorkerOK(t)'
  <2>1. WorkerOK(t) /\ t \in Workers
    BY <1>8 DEF PoolInv
  <2>2. ~pending[t]
    BY <2>1 DEF WorkerOK
  <2> QED BY <1>1, <1>3, <1>8, <2>1, <2>2 DEF WorkerOK, Computing, Members, ToBegin
<1> QED BY <1>1, <1>3, <1>4, <1>5, <1>6, <1>7, <1>8

\* A thread at the barrier that has not been let go belongs to the graph.
LEMMA AtBarrier ==
  ASSUME PoolInv, NEW t \in Threads, pc[t] = "barrier", ~LetGo(t)
  PROVE  /\ t \in Members /\ ~ToBegin(t) /\ n_graph.n > 0 /\ Level(t) = LevelAt(t)
         /\ LevelAt(t) \in Walls
<1> USE Pool
<1>1. t \in Members /\ ~ToBegin(t) /\ n_graph.n > 0 /\ Level(t) = LevelInside(t)
  BY InsideIsMember DEF Computing, Stale
<1>2. Level(t) = LevelAt(t)
  BY <1>1 DEF LevelInside
<1>3. ret[t] \in {"computed", "node", "chunks"} /\ node[t] \in 0 .. NNodes /\ PlaceOK(t)
  BY DEF PoolInv, TypeOK, ThreadsTyped
<1>4. LevelAt(t) \in Walls
  <2>1. CASE ret[t] = "computed"
    BY <2>1, WallsAre DEF LevelAt
  <2>2. CASE ret[t] = "node"
    <3>1. node[t] \in 0 .. NNodes - 2 /\ Kind(node[t]) # "empty"
      BY <1>3, <2>2 DEF PlaceOK
    <3> QED BY <2>2, <3>1, WallsAre DEF LevelAt
  <2>3. CASE ret[t] = "chunks"
    <3>1. node[t] \in 0 .. NNodes - 1 /\ Kind(node[t]) = "mul_mat"
      BY <1>3, <2>3 DEF PlaceOK
    <3> QED BY <2>3, <3>1, WallsAre DEF LevelAt
  <2> QED BY <1>3, <2>1, <2>2, <2>3
<1> QED BY <1>1, <1>2, <1>4

\* Threads that wait at the same level wait at the same barrier.
LEMMA SameBarrier ==
  ASSUME PoolInv, NEW t \in Threads, pc[t] = "barrier", NEW u \in Threads, pc[u] = "barrier",
         LevelAt(t) = LevelAt(u)
  PROVE  LevelAfter(t) = LevelAfter(u)
<1> USE Pool
<1>1. \A v \in {t, u} : /\ ret[v] \in {"computed", "node", "chunks"} /\ node[v] \in 0 .. NNodes
                        /\ ret[v] = "chunks" => node[v] \in 0 .. NNodes - 1 /\ Kind(node[v]) = "mul_mat"
                        /\ ret[v] = "node" => node[v] \in 0 .. NNodes - 2
  <2> SUFFICES ASSUME NEW v \in Threads, pc[v] = "barrier"
               PROVE  /\ ret[v] \in {"computed", "node", "chunks"} /\ node[v] \in 0 .. NNodes
                      /\ ret[v] = "chunks" => node[v] \in 0 .. NNodes - 1 /\ Kind(node[v]) = "mul_mat"
                      /\ ret[v] = "node" => node[v] \in 0 .. NNodes - 2
    OBVIOUS
  <2>1. ret[v] \in {"computed", "node", "chunks"} /\ node[v] \in 0 .. NNodes /\ PlaceOK(v)
    BY DEF PoolInv, TypeOK, ThreadsTyped
  <2> QED BY <2>1 DEF PlaceOK
<1> DEFINE Says(r, m, l) ==
             \/ r = "computed" /\ l = 2 * NNodes
             \/ r = "chunks" /\ l = 2 * m /\ Kind(m) = "mul_mat" /\ m < NNodes
             \/ r = "node" /\ Kind(m) = "mul_mat" /\ l = 2 * m + 1 /\ m < NNodes
             \/ r = "node" /\ Kind(m) # "mul_mat" /\ l = 2 * m /\ m < NNodes
<1>3. ASSUME NEW v \in {t, u} PROVE Says(ret[v], node[v], LevelAt(v))
  <2>1. CASE ret[v] = "computed"
    BY <2>1 DEF LevelAt, End
  <2>2. CASE ret[v] = "chunks"
    BY <1>1, <2>2 DEF LevelAt
  <2>3. CASE ret[v] = "node"
    BY <1>1, <2>3 DEF LevelAt, LevelOf
  <2> QED BY <1>1, <2>1, <2>2, <2>3
<1>2. ret[t] = ret[u] /\ (ret[t] # "computed" => node[t] = node[u])
  <2>1. node[t] \in Nat /\ node[u] \in Nat
    BY <1>1
  <2>2. Says(ret[t], node[t], LevelAt(t)) /\ Says(ret[u], node[u], LevelAt(t))
    <3> HIDE DEF Says
    <3> QED BY <1>3
  <2>3. ASSUME NEW q, NEW r, NEW m \in Nat, NEW k \in Nat, NEW l, Says(q, m, l), Says(r, k, l)
        PROVE  q = r /\ (q # "computed" => m = k)
    <3>1. /\ q \in {"computed", "chunks", "node"} /\ (q = "computed" <=> l = 2 * NNodes)
          /\ q # "computed" => l = 2 * m \/ l = 2 * m + 1
      BY <2>3
    <3>2. /\ r \in {"computed", "chunks", "node"} /\ (r = "computed" <=> l = 2 * NNodes)
          /\ r # "computed" => l = 2 * k \/ l = 2 * k + 1
      BY <2>3
    <3>3. ASSUME q # "computed" PROVE m = k
      BY <3>1, <3>2, <3>3
    <3>4. CASE q = "computed"
      BY <3>1, <3>2, <3>4
    <3>5. CASE q # "computed"
      <4>1. m = k /\ Says(q, m, l) /\ Says(r, m, l) /\ r # "computed"
        BY <2>3, <3>1, <3>2, <3>3, <3>5
      <4>2. l = 2 * m => l # 2 * m + 1
        OBVIOUS
      <4>3. \A s : Says(s, m, l) /\ s # "computed" =>
                   (s = "chunks" <=> Kind(m) = "mul_mat" /\ l = 2 * m) /\ s \in {"chunks", "node"}
        BY <4>2
      <4> QED BY <3>5, <4>1, <4>3
    <3> QED BY <3>4, <3>5
  <2> HIDE DEF Says
  <2> QED BY <2>1, <2>2, <2>3
<1> QED BY <1>1, <1>2 DEF LevelAfter

LEMMA PassAloneKeeps ==
  ASSUME PoolInv, TypeOK', NEW t \in Threads, PassAlone(t)
  PROVE  PoolInv'
<1> USE Pool
<1>0. TypeOK
  BY DEF PoolInv
<1>1. /\ pc[t] = "barrier" /\ bpc[t] = "outside" /\ n_graph.n = 1 /\ AfterBarrier(t)
      /\ UNCHANGED <<n_barrier, n_barrier_passed, n_passed, bpc>>
  BY DEF PassAlone, barrierVars
<1>2. t \in Members /\ Members = {0}
  BY <1>0, <1>1, AtBarrier, MembersAre DEF LetGo
<1>3. OthersStay(t) /\ request' = request
  BY <1>0, <1>1, PassedIs DEF OthersStay
<1>4. PlaceOK(t)' /\ (t = 0 => CallerOK')
  BY <1>1, PassedIs
<1>5. InStep'
  BY <1>2, <1>3, OthersKeep, SameIsEquivalence DEF InStep, Same
<1> QED BY <1>1, <1>2, <1>3, <1>4, <1>5, BarrierStays, OwnPartKeeps

LEMMA EnterBarrierKeeps ==
  ASSUME PoolInv, TypeOK', NEW t \in Threads, EnterBarrier(t)
  PROVE  PoolInv'
<1> USE Pool
<1>0. TypeOK /\ PlaceOK(t) /\ CallerOK /\ InsideAreMembers /\ LastIsAlone /\ CounterCounts
  BY DEF PoolInv
<1>1. /\ pc[t] = "barrier" /\ bpc[t] = "outside" /\ OthersStay(t)
      /\ UNCHANGED <<n_graph, request, pc, ret, node, phase, last_graph, pending, abort, n_barrier, n_barrier_passed>>
      /\ n_passed'[t] = n_barrier_passed /\ bpc'[t] = "arriving"
  BY <1>0 DEF TypeOK, ThreadsTyped, BarrierTyped, EnterBarrier, ReadPassed, OthersStay, poolVars,
              stateVars, localVars
<1>2. ~LetGo(t) /\ ~LetGo(t)' /\ t \in Members /\ ~ToBegin(t)
  BY <1>1, AtBarrier DEF LetGo
<1>3. PlaceOK(t)' /\ (t = 0 => CallerOK')
  BY <1>0, <1>1 DEF PlaceOK, CallerOK
<1>4. t # 0 => WorkerOK(t)'
  BY <1>0, <1>1, <1>2 DEF WorkerOK, ToBegin, Members, PoolInv
<1>5. Level(t)' = Level(t)
  <2>1. ToBegin(t)' = ToBegin(t) /\ LevelAt(t)' = LevelAt(t)
    BY <1>1 DEF ToBegin, LevelAt, LevelOf
  <2> QED BY <1>1, <1>2, <2>1 DEF Level, LevelInside
<1>6. InStep'
  BY <1>1, <1>5, StaysInStep, SameIsEquivalence
<1>7. Members' = Members
  BY <1>1, OthersKeep
<1>8. \A u \in Threads \ {t} : bpc'[u] = bpc[u] /\ n_passed'[u] = n_passed[u]
  BY <1>1 DEF OthersStay
<1>9. InsideAreMembers'
  BY <1>0, <1>1, <1>2, <1>7, <1>8 DEF InsideAreMembers, LetGo
<1>10. Arrived' = Arrived
  <2>1. t \notin Arrived /\ t \notin Arrived'
    BY <1>1 DEF Arrived, LastPlaces
  <2>2. \A u \in Threads \ {t} : u \in Arrived' <=> u \in Arrived
    BY <1>1, <1>7, <1>8 DEF Arrived
  <2> QED BY <2>1, <2>2 DEF Arrived, Members
<1>11. \A u \in Threads : bpc[u] \notin LastPlaces
  BY <1>0, <1>1, <1>2 DEF LastIsAlone, LastPlaces
<1>12. LastIsAlone' /\ CounterCounts'
  BY <1>0, <1>1, <1>8, <1>10, <1>11 DEF LastIsAlone, CounterCounts, LastPlaces
<1> QED BY <1>1, <1>3, <1>4, <1>6, <1>9, <1>12, OwnPartKeeps

\* The arrival that completes the count finds everybody else spinning.
LEMMA ArriveKeeps ==
  ASSUME PoolInv, TypeOK', NEW t \in Threads, Arrive(t, n_graph.n), pc[t] = "barrier",
         UNCHANGED <<poolVars, stateVars, localVars>>
  PROVE  PoolInv'
<1> USE Pool
<1>0. TypeOK /\ PlaceOK(t) /\ CallerOK /\ InsideAreMembers /\ LastIsAlone /\ CounterCounts
  BY DEF PoolInv
<1> DEFINE place == IF n_barrier = n_graph.n - 1 THEN "resetting" ELSE "spinning"
<1>1. /\ pc[t] = "barrier" /\ bpc[t] = "arriving" /\ OthersStay(t)
      /\ UNCHANGED <<n_graph, request, pc, ret, node, phase, last_graph, pending, abort, n_passed, n_barrier_passed>>
      /\ n_barrier' = n_barrier + 1 /\ bpc'[t] = place
      /\ \A u \in Threads \ {t} : bpc'[u] = bpc[u]
  BY <1>0 DEF TypeOK, ThreadsTyped, BarrierTyped, Arrive, OthersStay, poolVars, stateVars,
              localVars
<1>2. /\ t \in Members /\ n_passed[t] = n_barrier_passed
      /\ \A u \in Threads : bpc[u] \notin LastPlaces
      /\ n_barrier = Cardinality(Arrived) /\ n_barrier < n_graph.n
  BY <1>1, ArrivalCounts
<1>3. ~LetGo(t) /\ ~LetGo(t)' /\ ~ToBegin(t)
  BY <1>1, <1>2, AtBarrier, <1>0 DEF LetGo, TypeOK, BarrierTyped
<1>4. PlaceOK(t)' /\ (t = 0 => CallerOK')
  BY <1>0, <1>1 DEF PlaceOK, CallerOK
<1>5. t # 0 => WorkerOK(t)'
  BY <1>0, <1>1, <1>2, <1>3 DEF WorkerOK, ToBegin, Members, PoolInv
<1>6. Level(t)' = Level(t)
  <2>1. ToBegin(t)' = ToBegin(t) /\ LevelAt(t)' = LevelAt(t)
    BY <1>1 DEF ToBegin, LevelAt, LevelOf
  <2> QED BY <1>1, <1>3, <2>1 DEF Level, LevelInside
<1>7. InStep'
  BY <1>1, <1>6, StaysInStep, SameIsEquivalence
<1>8. Members' = Members
  BY <1>1, OthersKeep
<1>9. InsideAreMembers'
  BY <1>0, <1>1, <1>2, <1>8 DEF InsideAreMembers, LetGo
<1>10. Arrived' = Arrived \union {t} /\ t \notin Arrived
  <2>1. t \notin Arrived /\ t \in Arrived'
    BY <1>1, <1>2, <1>8 DEF Arrived, LastPlaces
  <2>2. \A u \in Threads \ {t} : u \in Arrived' <=> u \in Arrived
    BY <1>1, <1>8 DEF Arrived
  <2> QED BY <2>1, <2>2 DEF Arrived, Members
<1>11. IsFiniteSet(Members) /\ Cardinality(Members) = n_graph.n /\ n_graph.n \in Nat
  BY <1>0, MembersAre
<1>12. Arrived \in SUBSET Members /\ Arrived' \in SUBSET Members
  BY <1>8 DEF Arrived
<1>13. IsFiniteSet(Arrived)
  BY <1>11, <1>12, FS_Subset
<1>14. Cardinality(Arrived') = n_barrier + 1
  BY <1>2, <1>10, <1>13, FS_AddElement
<1>15. n_barrier \in Nat
  BY <1>0 DEF TypeOK, BarrierTyped
<1>16. CASE n_barrier = n_graph.n - 1
  <2>1. Cardinality(Arrived') = Cardinality(Members)
    BY <1>11, <1>14, <1>16
  <2>2. Arrived' = Members
    BY <2>1, <1>11, <1>12, FS_Subset
  <2>3. \A u \in Members \ {t} : bpc[u] = "spinning"
    BY <2>2, <1>2, <1>10 DEF Arrived, Members
  <2>4. LastIsAlone'
    BY <2>2, <2>3, <1>1, <1>2, <1>8, <1>16 DEF LastIsAlone, LastPlaces, Members
  <2>5. CounterCounts'
    BY <1>1, <1>2, <1>14, <1>16 DEF CounterCounts, LastPlaces
  <2> QED BY <1>1, <1>4, <1>5, <1>7, <1>9, <2>4, <2>5, OwnPartKeeps
<1>17. CASE n_barrier # n_graph.n - 1
  <2>1. \A u \in Threads : bpc'[u] \notin LastPlaces
    BY <1>1, <1>2, <1>17 DEF LastPlaces
  <2>2. n_barrier' < n_graph'.n
    BY <1>1, <1>2, <1>11, <1>15, <1>17
  <2>3. LastIsAlone' /\ CounterCounts'
    BY <1>1, <1>14, <2>1, <2>2 DEF LastIsAlone, CounterCounts, LastPlaces
  <2> QED BY <1>1, <1>4, <1>5, <1>7, <1>9, <2>3, OwnPartKeeps
<1> QED BY <1>16, <1>17

LEMMA ResetKeeps ==
  ASSUME PoolInv, TypeOK', NEW t \in Threads, ResetBarrier(t), pc[t] = "barrier",
         UNCHANGED <<poolVars, stateVars, localVars>>
  PROVE  PoolInv'
<1> USE Pool
<1>0. TypeOK /\ PlaceOK(t) /\ CallerOK /\ InsideAreMembers /\ LastIsAlone /\ CounterCounts
  BY DEF PoolInv
<1>1. /\ pc[t] = "barrier" /\ bpc[t] = "resetting" /\ OthersStay(t)
      /\ UNCHANGED <<n_graph, request, pc, ret, node, phase, last_graph, pending, abort, n_passed, n_barrier_passed>>
      /\ n_barrier' = 0 /\ bpc'[t] = "releasing"
      /\ \A u \in Threads \ {t} : bpc'[u] = bpc[u]
  BY <1>0 DEF TypeOK, ThreadsTyped, BarrierTyped, ResetBarrier, OthersStay, poolVars, stateVars,
              localVars
<1>2. /\ t \in Members /\ n_passed[t] = n_barrier_passed
      /\ Arrived = Members /\ \A u \in Members \ {t} : bpc[u] = "spinning"
  BY <1>0, <1>1 DEF InsideAreMembers, LetGo, LastIsAlone, LastPlaces
<1>3. ~LetGo(t) /\ ~LetGo(t)' /\ ~ToBegin(t)
  BY <1>1, AtBarrier DEF LetGo
<1>4. PlaceOK(t)' /\ (t = 0 => CallerOK')
  BY <1>0, <1>1 DEF PlaceOK, CallerOK
<1>5. t # 0 => WorkerOK(t)'
  BY <1>0, <1>1, <1>2, <1>3 DEF WorkerOK, ToBegin, Members, PoolInv
<1>6. Level(t)' = Level(t)
  <2>1. ToBegin(t)' = ToBegin(t) /\ LevelAt(t)' = LevelAt(t)
    BY <1>1 DEF ToBegin, LevelAt, LevelOf
  <2> QED BY <1>1, <1>3, <2>1 DEF Level, LevelInside
<1>7. InStep'
  BY <1>1, <1>6, StaysInStep, SameIsEquivalence
<1>8. Members' = Members
  BY <1>1, OthersKeep
<1>9. InsideAreMembers'
  BY <1>0, <1>1, <1>2, <1>8 DEF InsideAreMembers, LetGo
<1>10. Arrived' = Arrived
  <2>1. t \in Arrived /\ t \in Arrived'
    BY <1>1, <1>2, <1>8 DEF Arrived, LastPlaces
  <2>2. \A u \in Threads \ {t} : u \in Arrived' <=> u \in Arrived
    BY <1>1, <1>8 DEF Arrived
  <2> QED BY <2>1, <2>2 DEF Arrived, Members
<1>11. LastIsAlone'
  <2>1. \A u \in Threads \ {t} : bpc[u] \notin LastPlaces
    BY <1>0, <1>1, <1>2 DEF LastIsAlone, LastPlaces
  <2> QED BY <2>1, <1>1, <1>2, <1>8, <1>10 DEF LastIsAlone, Members
<1>12. CounterCounts'
  BY <1>1 DEF CounterCounts, LastPlaces
<1> QED BY <1>1, <1>4, <1>5, <1>7, <1>9, <1>11, <1>12, OwnPartKeeps

LEMMA StopSpinningKeeps ==
  ASSUME PoolInv, TypeOK', NEW t \in Threads, StopSpinning(t), AfterBarrier(t), pc[t] = "barrier"
  PROVE  PoolInv'
<1> USE Pool
<1>0. TypeOK /\ InsideAreMembers /\ LastIsAlone /\ CounterCounts
  BY DEF PoolInv
<1>1. /\ bpc[t] = "spinning" /\ n_barrier_passed # n_passed[t]
      /\ UNCHANGED <<n_barrier, n_barrier_passed, n_passed>>
      /\ \A u \in Threads : bpc'[u] = IF u = t THEN "outside" ELSE bpc[u]
  BY <1>0 DEF TypeOK, BarrierTyped, StopSpinning
<1>2. LetGo(t)
  BY <1>0, <1>1 DEF InsideAreMembers
<1>3. OthersStay(t) /\ request' = request
  BY <1>1, PassedIs DEF OthersStay
<1>4. PlaceOK(t)' /\ (t = 0 => CallerOK')
  BY <1>1, PassedIs
<1>5. Stale(t) \/ (ret[t] # "computed" /\ t \in Members /\ ~ToBegin(t))
  BY InsideIsMember, <1>2 DEF Stale, Computing
<1>6. t # 0 => WorkerOK(t)'
  BY <1>5, PassedIs DEF Stale
<1>7. Level(t)' = Level(t)
  <2>1. CASE ToBegin(t)
    BY <2>1, PassedIs DEF Level
  <2>2. CASE ~ToBegin(t)
    <3>1. Level(t) = LevelAfter(t)
      BY <1>2, <2>2 DEF Level, LevelInside, Computing
    <3> QED BY <2>2, <3>1, PassedIs
  <2> QED BY <2>1, <2>2
<1>8. InStep'
  BY <1>3, <1>7, StaysInStep, SameIsEquivalence
<1>9. Members' = Members /\ n_graph' = n_graph
  BY <1>3, OthersKeep DEF OthersStay
<1>10. InsideAreMembers'
  BY <1>0, <1>1, <1>3, <1>9 DEF InsideAreMembers, LetGo, OthersStay
<1>11. Arrived' = Arrived
  <2>1. t \notin Arrived /\ t \notin Arrived'
    BY <1>1 DEF Arrived, LastPlaces
  <2>2. \A u \in Threads \ {t} : u \in Arrived' <=> u \in Arrived
    BY <1>1, <1>9 DEF Arrived
  <2> QED BY <2>1, <2>2 DEF Arrived, Members
<1>12. \A u \in Threads : /\ bpc'[u] \in LastPlaces <=> bpc[u] \in LastPlaces
                          /\ bpc'[u] = "releasing" <=> bpc[u] = "releasing"
  BY <1>1 DEF LastPlaces
<1>13. ASSUME t \in Members PROVE \A u \in Threads : bpc[u] \notin LastPlaces
  <2>1. t \notin Arrived
    BY <1>1 DEF Arrived, LastPlaces
  <2> QED BY <1>0, <1>13, <2>1 DEF LastIsAlone
<1>14. LastIsAlone'
  BY <1>0, <1>1, <1>9, <1>11, <1>12, <1>13 DEF LastIsAlone, Members
<1>15. CounterCounts'
  BY <1>0, <1>1, <1>9, <1>11, <1>12 DEF CounterCounts
<1> QED BY <1>3, <1>4, <1>6, <1>8, <1>10, <1>14, <1>15, OwnPartKeeps

\* The release lets all the others go, to where it goes itself.
LEMMA ReleaseKeeps ==
  ASSUME PoolInv, TypeOK', NEW t \in Threads, Release(t), AfterBarrier(t), pc[t] = "barrier"
  PROVE  PoolInv'
<1> USE Pool
<1>0. TypeOK /\ InsideAreMembers /\ LastIsAlone /\ CounterCounts /\ CallerOK
  BY DEF PoolInv
<1>1. /\ bpc[t] = "releasing"
      /\ UNCHANGED <<n_barrier, n_passed>> /\ n_barrier_passed' = n_barrier_passed + 1
      /\ \A u \in Threads : bpc'[u] = IF u = t THEN "outside" ELSE bpc[u]
  BY <1>0 DEF TypeOK, BarrierTyped, Release
<1>2. UNCHANGED <<n_graph, abort, request, last_graph, pending, phase, ret>>
  BY PassedIs
<1>3. \A u \in Threads \ {t} : pc'[u] = pc[u] /\ node'[u] = node[u]
  BY PassedIs
<1>4. n_barrier_passed \in Nat /\ \A u \in Threads : n_passed[u] \in Nat
  BY <1>0 DEF TypeOK, BarrierTyped
<1>5. /\ ~LetGo(t) /\ t \in Members /\ n_passed[t] = n_barrier_passed
      /\ Arrived = Members /\ \A u \in Members \ {t} : bpc[u] = "spinning"
  BY <1>0, <1>1 DEF InsideAreMembers, LetGo, LastIsAlone, LastPlaces
<1>6. ASSUME NEW u \in Members
      PROVE  u \in Threads /\ pc[u] = "barrier" /\ ~LetGo(u) /\ ~ToBegin(u) /\ n_passed[u] = n_barrier_passed
             /\ LevelAfter(u) = LevelAfter(t)
  <2>1. u \in Threads /\ u \in Arrived
    BY <1>5 DEF Members
  <2>2. n_passed[u] = n_barrier_passed /\ pc[u] = "barrier" /\ ~LetGo(u)
    BY <1>0, <1>1, <1>4, <1>5, <2>1 DEF Arrived, InsideAreMembers, LastPlaces, LetGo
  <2>3. Level(u) = LevelAt(u) /\ LevelAt(u) \in Walls /\ ~ToBegin(u)
    BY <2>1, <2>2, AtBarrier
  <2>4. Level(t) = LevelAt(t) /\ LevelAt(t) \in Walls
    BY <1>5, AtBarrier
  <2>5. LevelAt(u) = LevelAt(t)
    BY <1>5, <2>3, <2>4, WallsApart DEF PoolInv, InStep
  <2> QED BY <2>1, <2>2, <2>3, <2>5, SameBarrier
<1>7. Members' = Members
  BY <1>2 DEF Members
<1>8. ASSUME NEW u \in Members PROVE Level(u)' = LevelAfter(t)
  <2>1. CASE u = t
    BY <1>5, <1>6, <2>1, PassedIs
  <2>2. CASE u # t
    <3>1. u \in Threads \ {t}
      BY <1>6, <2>2
    <3>2. pc'[u] = "barrier" /\ LetGo(u)'
      BY <1>1, <1>3, <1>4, <1>5, <1>6, <2>2, <3>1 DEF LetGo
    <3>3. ToBegin(u)' = ToBegin(u)
      BY <1>2, <1>3, <3>1, PassedIs DEF ToBegin
    <3>4. LevelAfter(u)' = LevelAfter(u)
      <4>1. Reached(node[u] + 1)' = Reached(node[u] + 1)
        BY <1>2, <1>3, <3>1 DEF Reached
      <4> QED BY <1>2, <1>3, <3>1, <4>1 DEF LevelAfter
    <3>5. Level(u)' = LevelInside(u)'
      BY <1>6, <3>2, <3>3 DEF Level, Computing
    <3> QED BY <1>6, <3>2, <3>4, <3>5 DEF LevelInside
  <2> QED BY <2>1, <2>2
<1>9. InStep'
  BY <1>7, <1>8 DEF InStep, Same
<1>10. ASSUME NEW u \in Threads \ {t}, LetGo(u) PROVE LetGo(u)'
  BY <1>1, <1>4, <1>10 DEF LetGo
<1>11. \A u \in Threads : PlaceOK(u)'
  <2>1. ASSUME NEW u \in Threads \ {t} PROVE PlaceOK(u)'
    BY <1>2, <1>3 DEF PoolInv, PlaceOK
  <2> QED BY <2>1, <1>1, PassedIs
<1>12. ASSUME NEW u \in Workers PROVE WorkerOK(u)'
  <2>1. CASE u = t
    BY <1>5, <1>6, <2>1, PassedIs
  <2>2. CASE u # t
    <3>1. u \in Threads \ {t} /\ WorkerOK(u)
      BY <2>2 DEF PoolInv
    <3>2. pc[u] \in Computing => Stale(u)' \/ (u < n_graph.n /\ last_graph[u] = n_graph)
      BY <1>2, <1>3, <1>10, <3>1 DEF WorkerOK, Stale
    <3> QED BY <1>2, <1>3, <3>1, <3>2 DEF WorkerOK
  <2> QED BY <2>1, <2>2
<1>13. CallerOK'
  <2>1. CASE t = 0
    BY <2>1, PassedIs
  <2>2. CASE t # 0
    BY <1>0, <1>2, <1>3, <2>2 DEF CallerOK
  <2> QED BY <2>1, <2>2
<1>14. ASSUME NEW u \in Threads, bpc'[u] # "outside"
       PROVE  pc'[u] = "barrier" /\ LetGo(u)'
  <2>1. u # t /\ bpc[u] = bpc'[u] /\ pc[u] = "barrier" /\ pc'[u] = pc[u]
    BY <1>0, <1>1, <1>14, <1>3 DEF InsideAreMembers
  <2>2. CASE u \in Members
    BY <1>1, <1>4, <1>5, <1>6, <2>1, <2>2 DEF LetGo
  <2>3. CASE u \notin Members
    <3>1. LetGo(u) /\ u \in Threads \ {t}
      BY <1>0, <1>14, <2>1, <2>3 DEF InsideAreMembers
    <3> QED BY <1>10, <2>1, <3>1
  <2> QED BY <2>1, <2>2, <2>3
<1>15. \A u \in Threads : bpc'[u] \notin LastPlaces
  BY <1>14 DEF LetGo, LastPlaces
<1>16. Arrived' = {}
  <2>1. \A u \in Threads : bpc'[u] = "spinning" => n_passed'[u] < n_barrier_passed'
    BY <1>14 DEF LetGo
  <2>2. \A u \in Threads : bpc'[u] = "spinning" => n_passed'[u] # n_barrier_passed'
    <3> SUFFICES ASSUME NEW u \in Threads, bpc'[u] = "spinning" PROVE n_passed'[u] # n_barrier_passed'
      OBVIOUS
    <3>1. n_passed'[u] < n_barrier_passed' /\ n_passed'[u] \in Nat /\ n_barrier_passed' \in Nat
      BY <1>1, <1>4, <2>1
    <3> QED BY <3>1
  <2> QED BY <1>15, <2>2 DEF Arrived, Members
<1>17. LastIsAlone'
  BY <1>15 DEF LastIsAlone
<1>18. CounterCounts'
  <2>1. n_barrier' = 0 /\ Cardinality({}) = 0
    BY <1>0, <1>1, FS_EmptySet DEF CounterCounts
  <2> QED BY <1>15, <1>16, <2>1 DEF CounterCounts, LastPlaces
<1>19. InsideAreMembers'
  BY <1>14 DEF InsideAreMembers
<1> QED BY <1>9, <1>11, <1>12, <1>13, <1>17, <1>18, <1>19 DEF PoolInv

LEMMA ComputeKeeps ==
  ASSUME PoolInv, TypeOK', NEW t \in Threads, ComputeStep(t) \/ SetChunk(t)
  PROVE  PoolInv'
<1>1. CASE EnterGraph(t) \/ LeaveLoop(t) \/ SkipNode(t) \/ BeginNode(t)
  BY <1>1, EnterKeeps, LeaveKeeps, SkipKeeps, BeginKeeps
<1>2. CASE EndPiece(t) \/ SetChunk(t) \/ FetchChunk(t) \/ BeginChunk(t)
  BY <1>2, EndKeeps, SetChunkKeeps, FetchKeeps, BeginChunkKeeps
<1>3. CASE AfterNode(t)
  <2>1. abort' = abort \/ (t = 0 /\ abort' = node[0] + 1)
    BY <1>3 DEF AfterNode
  <2> QED BY <1>3, <2>1, AfterNodeKeeps, AbortKeeps
<1>4. CASE PassAlone(t) \/ EnterBarrier(t)
  BY <1>4, PassAloneKeeps, EnterBarrierKeeps
<1>5. CASE InBarrier(t)
  BY <1>5, ArriveKeeps, ResetKeeps DEF InBarrier
<1>6. CASE LeaveBarrier(t)
  BY <1>6, ReleaseKeeps, StopSpinningKeeps DEF LeaveBarrier
<1> QED BY <1>1, <1>2, <1>3, <1>4, <1>5, <1>6 DEF ComputeStep

-----------------------------------------------------------------------------
(***************************************************************************)
(* ... and by the caller, outside of a computation.                        *)
(***************************************************************************)
QuietPlaces == CallerPlaces \ {"kickoff_signal"}

LEMMA WorkersAreQuiet ==
  ASSUME PoolInv, pc[0] \in QuietPlaces
  PROVE  /\ \A t \in Workers : /\ ~pending[t] /\ (pc[t] \in Computing => Stale(t))
                               /\ t \in Members => last_graph[t] = n_graph
         /\ \A t \in Members : Level(t) = Done
<1> USE Pool
<1>0. TypeOK
  BY DEF PoolInv
<1>1. n_graph.n \in Nat /\ (n_graph.n > 0 => 0 \in Members)
  BY <1>0, MembersAre
<1>2. Level(0) = Done
  BY DEF Level, ToBegin, Computing, QuietPlaces, CallerPlaces
<1>3. ASSUME NEW t \in Members \ {0}
      PROVE  ~ToBegin(t) /\ (pc[t] \in Computing => Stale(t)) /\ Level(t) = Done
  <2>1. t \in Workers /\ 0 \in Members /\ t \in Threads
    BY <1>1 DEF Members
  <2>2. Same(Level(t), Done)
    BY <1>2, <2>1 DEF PoolInv, InStep
  <2>3. Level(t) > End
    BY <2>2, WallsAre DEF Same, Done
  <2>4. ~ToBegin(t)
    BY <2>3, WallsAre DEF Level
  <2>5. ASSUME pc[t] \in Computing PROVE Stale(t)
    <3>1. Level(t) = LevelInside(t)
      BY <2>4, <2>5 DEF Level
    <3>2. node[t] \in 0 .. NNodes /\ PlaceOK(t) /\ ret[t] \in {"computed", "node", "chunks"}
      BY <1>0, <2>1 DEF TypeOK, ThreadsTyped, PoolInv
    <3>3. \A x \in 0 .. NNodes : Reached(x) <= End
      BY DEF Reached, End
    <3>4. \A x \in 0 .. NNodes : x < NNodes => LevelOf(x) <= End /\ 2 * x + 1 <= End /\ 2 * x <= End
      BY DEF LevelOf, End
    <3>5. ASSUME pc[t] # "barrier" PROVE FALSE
      <4>1. CASE pc[t] \in {"enter", "node"}
        BY <2>3, <3>1, <3>2, <3>3, <4>1, WallsAre DEF LevelInside, Reached, End
      <4>2. CASE pc[t] \in {"piece", "set_chunk", "chunks", "fetch", "after"}
        <5>1. node[t] < NNodes
          BY <3>2, <4>2 DEF PlaceOK
        <5>2. LevelInside(t) \in {LevelOf(node[t]), 2 * node[t], 2 * node[t] + 1}
          BY <4>2 DEF LevelInside
        <5> QED BY <2>3, <3>1, <3>2, <3>4, <5>1, <5>2, WallsAre DEF LevelOf, End
      <4> QED BY <2>5, <3>5, <4>1, <4>2 DEF Computing
    <3>6. ASSUME ~LetGo(t), pc[t] = "barrier" PROVE FALSE
      <4>1. Level(t) = LevelAt(t)
        BY <2>1, <3>6, AtBarrier
      <4>2. CASE ret[t] = "computed"
        BY <2>3, <4>1, <4>2, WallsAre DEF LevelAt
      <4>3. CASE ret[t] # "computed"
        <5>1. node[t] < NNodes
          BY <3>2, <3>6, <4>3 DEF PlaceOK
        <5>2. LevelAt(t) \in {LevelOf(node[t]), 2 * node[t]}
          BY <3>2, <4>3 DEF LevelAt
        <5> QED BY <2>3, <3>2, <4>1, <5>1, <5>2 DEF LevelOf, End
      <4> QED BY <4>2, <4>3
    <3>7. ASSUME LetGo(t), pc[t] = "barrier", ret[t] # "computed" PROVE FALSE
      <4>1. Level(t) = LevelAfter(t)
        BY <3>1, <3>7 DEF LevelInside
      <4>2. CASE ret[t] = "chunks"
        <5>1. node[t] < NNodes
          BY <3>2, <3>7, <4>2 DEF PlaceOK
        <5> QED BY <2>3, <3>2, <4>1, <4>2, <5>1 DEF LevelAfter, End
      <4>3. CASE ret[t] = "node"
        <5>1. node[t] + 1 \in 0 .. NNodes
          BY <3>2, <3>7, <4>3 DEF PlaceOK
        <5>2. LevelAfter(t) = Reached(node[t] + 1)
          BY <4>3 DEF LevelAfter
        <5> QED BY <2>3, <4>1, <5>1, <5>2 DEF Reached, End
      <4> QED BY <3>2, <3>7, <4>2, <4>3
    <3> QED BY <3>5, <3>6, <3>7 DEF Stale
  <2>6. Level(t) = Done
    BY <2>4, <2>5 DEF Level, LevelInside, LevelAfter, Stale
  <2> QED BY <2>4, <2>5, <2>6
<1>4. ASSUME NEW t \in Workers, t \notin Members
      PROVE  ~pending[t] /\ (pc[t] \in Computing => Stale(t))
  <2>1. t \in Threads /\ ~(t < n_graph.n)
    BY <1>4 DEF Members
  <2> QED BY <2>1 DEF PoolInv, WorkerOK
<1>5. \A t \in Workers : t # 0 /\ t \in Threads
  OBVIOUS
<1> QED BY <1>2, <1>3, <1>4, <1>5 DEF ToBegin

LEMMA CallerMoves ==
  ASSUME PoolInv, TypeOK', NEW place \in QuietPlaces \ {"kickoff"}, Goto(0, place),
         pc[0] \in QuietPlaces, place = "computed" => n_graph.n > 0,
         UNCHANGED <<n_graph, abort, request, barrierVars, stateVars, node, phase, ret>>
  PROVE  PoolInv'
<1> USE Pool
<1>0. TypeOK
  BY DEF PoolInv
<1>1. OthersStay(0) /\ pc'[0] = place /\ UNCHANGED <<n_barrier, n_passed, bpc, last_graph, pending>>
  BY <1>0, GotoLeavesOthers
<1>2. bpc[0] = "outside"
  BY OutsideBarrier DEF QuietPlaces, CallerPlaces
<1>3. PlaceOK(0)'
  BY <1>1 DEF PlaceOK, QuietPlaces, CallerPlaces, Computing
<1>4. CallerOK'
  BY <1>1 DEF PoolInv, CallerOK, QuietPlaces, CallerPlaces, Computing
<1>5. Level(0)' = Level(0)
  BY <1>1 DEF Level, ToBegin, QuietPlaces, CallerPlaces, Computing
<1> QED BY <1>1, <1>2, <1>3, <1>4, <1>5, StepKeeps, SameIsEquivalence

LEMMA SignalKeeps ==
  ASSUME PoolInv, TypeOK', SignalGraph
  PROVE  PoolInv'
<1> USE Pool
<1>0. TypeOK /\ 0 \in Threads
  BY DEF PoolInv
<1>1. /\ OthersStay(0) /\ pc[0] = "kickoff_signal" /\ pc'[0] = "enter"
      /\ UNCHANGED <<n_barrier, n_passed, bpc, last_graph, pending, request>>
  <2>1. pc[0] = "kickoff_signal" /\ Goto(0, "enter")
        /\ UNCHANGED <<n_graph, abort, barrierVars, stateVars, node, phase, ret, request>>
    BY DEF SignalGraph
  <2> QED BY <1>0, <2>1, GotoLeavesOthers
<1>2. bpc[0] = "outside"
  BY <1>1, OutsideBarrier
<1>3. PlaceOK(0)'
  BY <1>1 DEF PlaceOK, Computing
<1>4. CallerOK'
  BY <1>1 DEF PoolInv, CallerOK, Computing, OthersStay
<1>5. Level(0)' = Level(0)
  BY <1>1 DEF Level, ToBegin, LevelInside, Computing
<1> QED BY <1>1, <1>2, <1>3, <1>4, <1>5, StepKeeps, SameIsEquivalence

\* The fields of the pool are reset while no thread of the graph looks at them.
LEMMA BeginComputeKeeps ==
  ASSUME PoolInv, TypeOK', NEW n \in 1 .. NThreads + 1, BeginCompute(n)
  PROVE  PoolInv'
<1> USE Pool
<1>0. TypeOK
  BY DEF PoolInv
<1>1. /\ pc[0] = "idle" /\ pc'[0] = "kickoff" /\ abort' = -1 /\ n_graph.id < MaxGraphs
      /\ request' = (IF n > NThreads THEN NThreads ELSE n)
      /\ \A u \in Workers : pc'[u] = pc[u]
      /\ UNCHANGED <<n_graph, n_barrier, n_barrier_passed, n_passed, bpc, last_graph, pending, node, phase, ret>>
  BY <1>0 DEF BeginCompute, Goto, TypeOK, ThreadsTyped, stateVars, barrierVars
<1>2. request' \in 1 .. NThreads
  BY <1>1
<1>3. \A t \in Workers : /\ ~pending[t] /\ (pc[t] \in Computing => Stale(t))
                         /\ t \in Members => last_graph[t] = n_graph
  BY <1>1, WorkersAreQuiet DEF QuietPlaces, CallerPlaces
<1>4. bpc[0] = "outside"
  BY <1>1, OutsideBarrier
<1>5. \A t \in Threads : PlaceOK(t)'
  <2>1. PlaceOK(0)'
    BY <1>1 DEF PlaceOK, CallerPlaces
  <2>2. ASSUME NEW t \in Workers PROVE PlaceOK(t)'
    BY <1>1 DEF PlaceOK, PoolInv
  <2> QED BY <2>1, <2>2
<1>6. \A t \in Workers : WorkerOK(t)' /\ LetGo(t)' = LetGo(t) /\ Stale(t)' = Stale(t)
  BY <1>1 DEF WorkerOK, PoolInv, Stale, LetGo
<1>7. CallerOK'
  BY <1>1, <1>2 DEF CallerOK, Computing
<1>8. Members' = Members
  BY <1>1 DEF Members
<1>9. \A t \in Members : Level(t)' = Done
  <2>1. Level(0)' = Done
    BY <1>1 DEF Level, ToBegin, Computing
  <2>2. ASSUME NEW t \in Members \ {0} PROVE Level(t)' = Done
    <3>1. t \in Workers
      BY DEF Members
    <3>2. ~ToBegin(t)'
      BY <1>1, <1>3, <3>1 DEF ToBegin
    <3>3. pc'[t] \in Computing => Stale(t)'
      BY <1>1, <1>3, <1>6, <3>1
    <3> QED BY <3>2, <3>3 DEF Level, LevelInside, LevelAfter, Stale
  <2> QED BY <2>1, <2>2
<1>10. InStep'
  BY <1>8, <1>9 DEF InStep, Same
<1>11. Arrived' = Arrived
  BY <1>1, <1>8 DEF Arrived
<1>12. InsideAreMembers'
  <2> SUFFICES ASSUME NEW t \in Threads, bpc[t] # "outside"
               PROVE  pc'[t] = "barrier" /\ (LetGo(t)' \/ (t \in Members /\ n_passed[t] = n_barrier_passed))
    BY <1>1, <1>8 DEF InsideAreMembers
  <2>1. t \in Workers
    BY <1>4
  <2> QED BY <1>1, <1>6, <2>1 DEF PoolInv, InsideAreMembers
<1>13. LastIsAlone' /\ CounterCounts'
  BY <1>1, <1>8, <1>11 DEF PoolInv, LastIsAlone, CounterCounts
<1> QED BY <1>5, <1>6, <1>7, <1>10, <1>12, <1>13 DEF PoolInv

\* A new graph finds the barrier empty and every worker before its beginning.
LEMMA PublishKeeps ==
  ASSUME PoolInv, TypeOK', PublishGraph
  PROVE  PoolInv'
<1> USE Pool
<1>0. TypeOK /\ CallerOK
  BY DEF PoolInv
<1>1. /\ pc[0] = "kickoff" /\ pc'[0] = "kickoff_signal"
      /\ n_graph' = [id |-> n_graph.id + 1, n |-> request]
      /\ \A u \in Workers : pc'[u] = pc[u]
      /\ UNCHANGED <<abort, request, n_barrier, n_barrier_passed, n_passed, bpc, last_graph, pending, node, phase, ret>>
  BY <1>0 DEF PublishGraph, Goto, TypeOK, ThreadsTyped, stateVars, barrierVars
<1>2. request \in 1 .. NThreads /\ abort = -1 /\ n_graph.id \in Nat
  BY <1>0, <1>1, MembersAre DEF CallerOK
<1>3. \A t \in Workers : ~pending[t] /\ (pc[t] \in Computing => Stale(t))
  BY <1>1, WorkersAreQuiet DEF QuietPlaces, CallerPlaces
<1>4. bpc[0] = "outside"
  BY <1>1, OutsideBarrier
<1>5. \A t \in Threads : PlaceOK(t)'
  <2>1. PlaceOK(0)'
    BY <1>1 DEF PlaceOK, CallerPlaces
  <2>2. ASSUME NEW t \in Workers PROVE PlaceOK(t)'
    BY <1>1 DEF PlaceOK, PoolInv
  <2> QED BY <2>1, <2>2
<1>6. \A t \in Workers : LetGo(t)' = LetGo(t) /\ Stale(t)' = Stale(t)
  BY <1>1 DEF Stale, LetGo
<1>7. ASSUME NEW t \in Workers PROVE WorkerOK(t)' /\ last_graph'[t] # n_graph'
  <2>1. last_graph[t].id <= n_graph.id /\ last_graph[t].id \in Nat
    <3>1. last_graph[t] \in Graph
      BY <1>0 DEF TypeOK, ThreadsTyped
    <3>2. WorkerOK(t)
      BY DEF PoolInv
    <3> QED BY <3>1, <3>2 DEF Graph, WorkerOK
  <2>2. last_graph'[t].id < n_graph'.id
    BY <1>1, <1>2, <2>1
  <2>3. last_graph'[t].id # n_graph'.id
    BY <1>1, <1>2, <2>1
  <2>4. last_graph'[t].id <= n_graph'.id
    BY <1>1, <1>2, <2>1
  <2>5. ~pending'[t] /\ (pc'[t] \in Computing => Stale(t)')
    BY <1>1, <1>3, <1>6
  <2>6. last_graph'[t] # n_graph'
    BY <2>3
  <2> QED BY <2>3, <2>4, <2>5, <2>6 DEF WorkerOK
<1>8. CallerOK'
  BY <1>1, <1>2 DEF CallerOK, Computing
<1>9. \A t \in Threads : Level(t)' = 0
  <2>1. ToBegin(0)'
    BY <1>1 DEF ToBegin
  <2>2. ASSUME NEW t \in Workers PROVE ToBegin(t)'
    BY <1>7 DEF ToBegin
  <2> QED BY <2>1, <2>2 DEF Level
<1>10. InStep'
  BY <1>9 DEF InStep, Same, Members
<1>11. \A t \in Threads : bpc[t] # "outside" => t \in Workers /\ LetGo(t)
  <2>1. \A t \in Threads : bpc[t] # "outside" => t \in Workers /\ pc[t] = "barrier"
    BY <1>4 DEF PoolInv, InsideAreMembers
  <2> QED BY <1>3, <2>1 DEF Stale, Computing
<1>12. InsideAreMembers'
  BY <1>1, <1>6, <1>11 DEF PoolInv, InsideAreMembers
<1>13. \A t \in Threads : bpc[t] \notin LastPlaces /\ (bpc[t] = "spinning" => n_passed[t] # n_barrier_passed)
  <2> SUFFICES ASSUME NEW t \in Threads
               PROVE  bpc[t] \notin LastPlaces /\ (bpc[t] = "spinning" => n_passed[t] # n_barrier_passed)
    OBVIOUS
  <2>1. n_passed[t] \in Nat /\ n_barrier_passed \in Nat
    BY <1>0 DEF TypeOK, BarrierTyped
  <2> QED BY <1>11, <2>1 DEF LetGo, LastPlaces
<1>14. Arrived = {} /\ Arrived' = {}
  BY <1>1, <1>13 DEF Arrived, Members
<1>15. n_barrier = 0
  BY <1>13, <1>14, FS_EmptySet DEF PoolInv, CounterCounts, LastPlaces
<1>16. LastIsAlone'
  BY <1>1, <1>13 DEF LastIsAlone
<1>17. CounterCounts'
  BY <1>1, <1>2, <1>13, <1>14, <1>15, FS_EmptySet DEF CounterCounts, LastPlaces
<1> QED BY <1>5, <1>7, <1>8, <1>10, <1>12, <1>16, <1>17 DEF PoolInv

LEMMA PoolInitially == Init => PoolInv
<1> SUFFICES ASSUME Init PROVE PoolInv
  OBVIOUS
<1> USE Pool DEF Init, BarrierInit
<1>1. TypeOK
  <2>1. PoolTyped
    <3>1. n_graph \in Graph /\ request \in 0 .. NThreads /\ current_chunk \in Nat /\ abort \in -1 .. NNodes
      BY DEF Graph
    <3>2. mutex = Nobody /\ waiting = {} /\ ec = "success" /\ stop = FALSE /\ pause \in BOOLEAN
      OBVIOUS
    <3> HIDE DEF Init, BarrierInit
    <3> QED BY <3>1, <3>2 DEF PoolTyped
  <2>2. BarrierTyped
    BY DEF BarrierTyped, BarrierPlaces
  <2>3. ThreadsTyped
    BY PlacesAre DEF ThreadsTyped, Graph, Places
  <2> QED BY <2>1, <2>2, <2>3 DEF TypeOK
<1>2. Members = {} /\ Arrived = {}
  BY DEF Members, Arrived
<1>3. \A t \in Threads : PlaceOK(t)
  BY DEF PlaceOK, CallerPlaces, WorkerPlaces
<1>4. \A t \in Workers : WorkerOK(t)
  BY DEF WorkerOK, Computing
<1>5. CallerOK
  BY DEF CallerOK, Computing
<1>6. InsideAreMembers /\ LastIsAlone /\ CounterCounts
  BY <1>2, FS_EmptySet DEF InsideAreMembers, LastIsAlone, CounterCounts, LastPlaces
<1>7. InStep
  BY <1>2 DEF InStep
<1> QED BY <1>1, <1>3, <1>4, <1>5, <1>6, <1>7 DEF PoolInv

LEMMA PoolStep == PoolInv /\ [Next]_vars => PoolInv'
<1> SUFFICES ASSUME PoolInv, [Next]_vars PROVE PoolInv'
  OBVIOUS
<1>0. TypeOK'
  BY TypeStep
<1>1. CASE UNCHANGED vars \/ Freed
  BY <1>0, <1>1, InvStays DEF vars, poolVars, Freed
<1>2. CASE Call
  <2>1. ASSUME NEW p \in BOOLEAN, SetPause(p) PROVE PoolInv'
    BY <1>0, <2>1, InvStays DEF SetPause
  <2>2. CASE FreeStop
    BY <1>0, <2>2, CallerMoves DEF FreeStop, QuietPlaces, CallerPlaces
  <2> QED BY <1>0, <1>2, <2>1, <2>2, BeginComputeKeeps DEF Call
<1>3. CASE CallerStep
  <2>1. CASE EndCompute
    BY <1>0, <2>1, CallerMoves DEF EndCompute, QuietPlaces, CallerPlaces, poolVars
  <2>2. CASE FreeSignal
    BY <1>0, <2>2, CallerMoves DEF FreeSignal, QuietPlaces, CallerPlaces
  <2>3. CASE Join
    BY <1>0, <2>3, CallerMoves DEF Join, QuietPlaces, CallerPlaces, poolVars
  <2> QED BY <1>0, <1>3, <2>1, <2>2, <2>3, PublishKeeps, SignalKeeps, ComputeKeeps, Pool DEF CallerStep
<1>4. ASSUME NEW t \in Workers, WorkerStep(t) \/ SpuriousWakeup(t) PROVE PoolInv'
  BY <1>0, <1>4, WorkerKeeps, ComputeKeeps DEF WorkerStep, Workers
<1> QED BY <1>1, <1>2, <1>3, <1>4 DEF Next

LEMMA PoolAlways == Spec => []PoolInv
BY PoolInitially, PoolStep, PTL DEF Spec

\* Every variable of the pool keeps its type; in particular the barrier's counter never exceeds
\* the number of threads (ggml_barrier).
THEOREM PoolTypeCorrect == Spec => []TypeOK
BY PoolAlways, PTL DEF PoolInv

\* Whatever the workers do, poll, sleep or be paused, and for every graph and number of threads:
\* when ggml_graph_compute resets the fields of the pool without a lock, no worker is in the
\* graph, except for those that the last barrier has released.
THEOREM PoolIsQuiet == Spec => []QuietBetweenGraphs
<1>1. PoolInv => QuietBetweenGraphs
  <2> SUFFICES ASSUME PoolInv, pc[0] \in QuietPlaces, NEW t \in Workers
               PROVE  /\ ~pending[t]
                      /\ pc[t] \in Computing =>
                           /\ pc[t] = "barrier" /\ ret[t] = "computed"
                           /\ bpc[t] = "spinning" /\ n_passed[t] # n_barrier_passed
    BY DEF QuietBetweenGraphs, QuietPlaces, CallerPlaces
  <2>1. t \in Threads /\ n_passed[t] \in Nat /\ n_barrier_passed \in Nat
    BY DEF Workers, PoolInv, TypeOK, BarrierTyped
  <2> QED BY <2>1, WorkersAreQuiet DEF Stale, LetGo
<1> QED BY <1>1, PoolAlways, PTL

-----------------------------------------------------------------------------
(***************************************************************************)
(* What has been computed, told from how far each thread is.               *)
(***************************************************************************)

\* Steps of 5 for each node: own piece computed 1, conversion over 2, at the chunks 3, left 4.
Stage(t) ==
  IF pc[t] = "set_chunk" THEN 1
  ELSE IF pc[t] = "barrier" /\ ret[t] = "chunks" THEN 2
  ELSE IF pc[t] \in {"chunks", "fetch"} \/ (pc[t] = "piece" /\ phase[t] = "product") THEN 3
  ELSE IF pc[t] = "after" \/ (pc[t] = "barrier" /\ ret[t] = "node") THEN 4
  ELSE 0

Progress(t) == IF ToBegin(t) \/ pc[t] = "enter" THEN 0 ELSE 5 * node[t] + Stage(t)

Working == {m \in 0 .. NNodes - 1 : Kind(m) # "empty"}
Products == {m \in 0 .. NNodes - 1 : Kind(m) = "mul_mat"}
First(m) == IF Kind(m) = "mul_mat" THEN "convert" ELSE "rows"

\* The chunk of product m that the thread is to begin with, or is at.
Holds(t, m, c) ==
  \/ Progress(t) < 5 * m + 3 /\ c = t
  \/ Progress(t) = 5 * m + 3 /\ pc[t] # "fetch" /\ c = chunk[t]

\* What a thread knows of itself.
ThreadOK(t) ==
  /\ ~ToBegin(t) /\ pc[t] # "enter" => nth[t] = n_graph.n
  /\ pc[t] = "piece" /\ phase[t] # "product" => chunk[t] = t
  /\ pc[t] = "piece" /\ phase[t] = "product" => chunk[t] < Chunks(n_graph.n)
  /\ Progress(t) <= 5 * NNodes
  /\ abort # -1 => Progress(t) <= 5 * abort /\ (pc[t] = "piece" => node[t] < abort)
  /\ ~ToBegin(t) /\ (pc[t] \notin Computing \/ (pc[t] = "barrier" /\ ret[t] = "computed")) =>
       node[t] \in {NNodes, abort}

OwnFinished ==
  \A m \in Working, t \in Members : <<m, First(m), t>> \in finished <=> Progress(t) >= 5 * m + 1

OneHolder ==
  \A m \in Products, t, u \in Members : \A c \in Nat : Holds(t, m, c) /\ Holds(u, m, c) => t = u

HeldIsToCome ==
  \A m \in Products, t \in Members : \A c \in Nat : Holds(t, m, c) => <<m, "product", c>> \notin finished

\* A chunk is finished, someone's, or not given out yet.
NoneForgotten ==
  \A m \in Products, c \in 0 .. Chunks(n_graph.n) - 1 :
    \/ <<m, "product", c>> \in finished
    \/ \E t \in Members : Holds(t, m, c)
    \/ /\ c >= n_graph.n
       /\ \A t \in Members : Progress(t) < 5 * m + 4
       /\ Progress(0) >= 5 * m + 2 => c >= current_chunk

FinishedWasGiven ==
  \A m \in Products : \A c \in Nat : <<m, "product", c>> \in finished /\ c >= n_graph.n =>
    /\ Progress(0) >= 5 * m + 2
    /\ (\E t \in Members : Progress(t) < 5 * m + 4) => c < current_chunk

HeldWasGiven ==
  \A m \in Products, t \in Members : Progress(t) = 5 * m + 3 /\ pc[t] # "fetch" =>
    chunk[t] = t \/ (n_graph.n <= chunk[t] /\ chunk[t] < current_chunk)

CounterIsSet == \A m \in Products : Progress(0) >= 5 * m + 2 => current_chunk >= n_graph.n

ChunksInv ==
  /\ OneHolder
  /\ HeldIsToCome
  /\ NoneForgotten
  /\ FinishedWasGiven
  /\ HeldWasGiven
  /\ CounterIsSet

PiecesInv == OwnFinished /\ ChunksInv /\ finished \subseteq AllPieces(n_graph.n)

ThreadsInv ==
  /\ InGraph => (\A t \in Members : ThreadOK(t)) /\ (ec = "aborted" <=> abort # -1)
  /\ pc[0] = "kickoff" => ec = "success"

WorkInv == ThreadsInv /\ (InGraph => PiecesInv)

\* Between two walls there is no thread ahead of the others.
Apart ==
  \A t, u \in Members :
    /\ \A m \in Products : Progress(u) >= 5 * m + 3 => Progress(t) >= 5 * m + 2
    /\ \A m \in Working : m < NNodes - 1 /\ Progress(u) >= 5 * m + 5 => Progress(t) >= 5 * m + 4
    /\ pc[0] = "computed" =>
         \A m \in Working : (abort = -1 \/ m < abort) => Progress(t) >= 5 * m + 4

-----------------------------------------------------------------------------
LEMMA ProductsAre ==
  /\ Products \subseteq Working
  /\ \A m \in Working : m \in 0 .. NNodes - 1 /\ m \in Nat /\ LevelOf(m) \in 2 * m .. 2 * m + 1
  /\ \A m \in Products : LevelOf(m) = 2 * m + 1 /\ First(m) = "convert"
  /\ \A m \in Working \ Products : LevelOf(m) = 2 * m /\ First(m) = "rows" /\ Kind(m) = "rows"
BY Pool DEF Products, Working, LevelOf, First

LEMMA ProgressIs ==
  ASSUME PoolInv, NEW t \in Threads
  PROVE  /\ Stage(t) \in 0 .. 4 /\ Progress(t) \in Nat /\ node[t] \in 0 .. NNodes /\ chunk[t] \in Nat
         /\ ToBegin(t) \/ pc[t] = "enter" => Progress(t) = 0
         /\ ~ToBegin(t) /\ pc[t] # "enter" => Progress(t) = 5 * node[t] + Stage(t)
<1>1. node[t] \in 0 .. NNodes /\ chunk[t] \in Nat /\ NNodes \in Nat
  BY Pool DEF PoolInv, TypeOK, ThreadsTyped
<1>2. Stage(t) \in 0 .. 4
  BY DEF Stage
<1> QED BY <1>1, <1>2 DEF Progress

\* Level and progress of a member of the graph.
LEMMA WhereItIs ==
  ASSUME PoolInv, NEW t \in Members, ThreadOK(t), InGraph
  PROVE  \/ Level(t) = 0 /\ Progress(t) = 0
         \/ Level(t) = Reached(node[t]) /\ Progress(t) = 5 * node[t]
         \/ node[t] \in Working /\ Level(t) = 2 * node[t] /\ Progress(t) = 5 * node[t]
         \/ node[t] \in Products /\ Level(t) = 2 * node[t] /\ Progress(t) = 5 * node[t] + 1
         \/ node[t] \in Products /\ Level(t) \in {2 * node[t], 2 * node[t] + 1} /\ Progress(t) = 5 * node[t] + 2
         \/ node[t] \in Products /\ Level(t) = 2 * node[t] + 1 /\ Progress(t) = 5 * node[t] + 3
         \/ node[t] \in Working /\ Level(t) = LevelOf(node[t]) /\ Progress(t) = 5 * node[t] + 4
         \/ /\ node[t] \in Working /\ node[t] < NNodes - 1
            /\ Level(t) = Reached(node[t] + 1) /\ Progress(t) = 5 * node[t] + 4
         \/ /\ node[t] \in {NNodes, abort} /\ Level(t) \in {End, Done} /\ Progress(t) = 5 * node[t]
<1>1. t \in Threads /\ PlaceOK(t) /\ NNodes \in Nat /\ node[t] \in 0 .. NNodes /\ phase[t] \in {"rows", "convert", "product"}
  BY Pool, ProgressIs DEF Members, PoolInv, TypeOK, ThreadsTyped
<1>2. CASE ToBegin(t)
  BY <1>1, <1>2, ProgressIs DEF Level
<1>3. CASE ~ToBegin(t) /\ pc[t] \notin Computing
  <2>1. pc[t] # "enter" /\ Stage(t) = 0
    BY <1>3 DEF Computing, Stage
  <2>2. Level(t) = Done /\ node[t] \in {NNodes, abort} /\ Progress(t) = 5 * node[t]
    BY <1>1, <1>3, <2>1, ProgressIs DEF Level, ThreadOK
  <2> QED BY <2>2
<1>4. CASE ~ToBegin(t) /\ pc[t] \in Computing
  <2>0. Level(t) = LevelInside(t) /\ (pc[t] # "enter" => Progress(t) = 5 * node[t] + Stage(t))
    BY <1>1, <1>4, ProgressIs DEF Level
  <2>1. CASE pc[t] = "enter"
    BY <1>1, <2>0, <2>1, ProgressIs DEF LevelInside
  <2>2. CASE pc[t] = "node"
    BY <1>1, <2>0, <2>2 DEF LevelInside, Stage
  <2>3. CASE pc[t] = "piece" /\ phase[t] # "product"
    <3>1. node[t] \in Working
      BY <1>1, <2>3 DEF PlaceOK, Working
    <3> QED BY <1>1, <2>0, <2>3, <3>1 DEF LevelInside, Stage
  <2>4. CASE pc[t] = "piece" /\ phase[t] = "product"
    <3>1. node[t] \in Products
      BY <1>1, <2>4, Pool DEF PlaceOK, Products
    <3> QED BY <1>1, <2>0, <2>4, <3>1 DEF LevelInside, Stage
  <2>5. CASE pc[t] \in {"set_chunk", "chunks", "fetch"}
    <3>1. node[t] \in Products
      BY <1>1, <2>5 DEF PlaceOK, Products
    <3> QED BY <1>1, <2>0, <2>5, <3>1 DEF LevelInside, Stage
  <2>6. CASE pc[t] = "after"
    <3>1. node[t] \in Working
      BY <1>1, <2>6 DEF PlaceOK, Working
    <3> QED BY <1>1, <2>0, <2>6, <3>1 DEF LevelInside, Stage
  <2>7. CASE pc[t] = "barrier"
    <3>0. Level(t) = IF LetGo(t) THEN LevelAfter(t) ELSE LevelAt(t)
      BY <2>0, <2>7 DEF LevelInside
    <3>1. CASE ret[t] = "chunks"
      <4>1. node[t] \in Products
        BY <1>1, <2>7, <3>1 DEF PlaceOK, Products
      <4>2. Stage(t) = 2
        BY <2>7, <3>1 DEF Stage
      <4>3. LevelAfter(t) = 2 * node[t] + 1 /\ LevelAt(t) = 2 * node[t]
        BY <3>1 DEF LevelAfter, LevelAt
      <4> QED BY <2>0, <2>7, <3>0, <4>1, <4>2, <4>3
    <3>2. CASE ret[t] = "node"
      <4>1. node[t] \in Working /\ node[t] < NNodes - 1
        BY <1>1, <2>7, <3>2 DEF PlaceOK, Working
      <4>2. Stage(t) = 4
        BY <2>7, <3>2 DEF Stage
      <4>3. LevelAfter(t) = Reached(node[t] + 1) /\ LevelAt(t) = LevelOf(node[t])
        BY <3>2 DEF LevelAfter, LevelAt
      <4> QED BY <2>0, <2>7, <3>0, <4>1, <4>2, <4>3
    <3>3. CASE ret[t] = "computed"
      <4>1. node[t] \in {NNodes, abort}
        BY <1>4, <2>7, <3>3 DEF ThreadOK
      <4>2. Stage(t) = 0
        BY <2>7, <3>3 DEF Stage
      <4>3. LevelAfter(t) = Done /\ LevelAt(t) = End
        BY <3>3 DEF LevelAfter, LevelAt
      <4> QED BY <1>1, <2>0, <2>7, <3>0, <4>1, <4>2, <4>3
    <3> QED BY <1>1, <3>1, <3>2, <3>3 DEF PoolInv, TypeOK, ThreadsTyped
  <2> QED BY <1>4, <2>1, <2>2, <2>3, <2>4, <2>5, <2>6, <2>7 DEF Computing
<1> QED BY <1>2, <1>3, <1>4

\* The pieces of a graph.
LEMMA PiecesAre ==
  ASSUME NEW n \in Nat
  PROVE  /\ \A m \in Working, c \in 0 .. n - 1 : <<m, First(m), c>> \in AllPieces(n)
         /\ \A m \in Products, c \in 0 .. Chunks(n) - 1 : <<m, "product", c>> \in AllPieces(n)
         /\ \A q \in AllPieces(n) :
              \/ \E m \in Working, c \in 0 .. n - 1 : q = <<m, First(m), c>>
              \/ \E m \in Products, c \in 0 .. Chunks(n) - 1 : q = <<m, "product", c>>
<1>1. ASSUME NEW m \in 0 .. NNodes - 1
      PROVE  /\ Kind(m) = "empty" => PiecesOf(m, n) = {}
             /\ Kind(m) = "rows" => PiecesOf(m, n) = Pieces(m, "rows", n)
             /\ Kind(m) = "mul_mat" => PiecesOf(m, n) =
                  Pieces(m, "convert", n) \union Pieces(m, "product", Chunks(n))
  <2>1. CASE Kind(m) = "empty"
    BY <2>1 DEF PiecesOf
  <2>2. CASE Kind(m) = "rows"
    BY <2>2 DEF PiecesOf
  <2>3. CASE Kind(m) = "mul_mat"
    BY <2>3 DEF PiecesOf
  <2> QED BY <2>1, <2>2, <2>3, Pool
<1>2. \A m, f, count, q : q \in Pieces(m, f, count) <=> \E c \in 0 .. count - 1 : q = <<m, f, c>>
  BY DEF Pieces
<1>3. \A q : q \in AllPieces(n) <=> \E m \in 0 .. NNodes - 1 : q \in PiecesOf(m, n)
  BY DEF AllPieces
<1>4. ASSUME NEW m \in Working, NEW c \in 0 .. n - 1 PROVE <<m, First(m), c>> \in AllPieces(n)
  <2>1. m \in 0 .. NNodes - 1 /\ Kind(m) \in {"rows", "mul_mat"}
    BY <1>4, Pool DEF Working
  <2>2. <<m, First(m), c>> \in Pieces(m, First(m), n)
    BY <1>2, <1>4
  <2>3. Pieces(m, First(m), n) \subseteq PiecesOf(m, n)
    BY <1>1, <2>1 DEF First
  <2> QED BY <1>3, <2>1, <2>2, <2>3
<1>5. ASSUME NEW m \in Products, NEW c \in 0 .. Chunks(n) - 1 PROVE <<m, "product", c>> \in AllPieces(n)
  <2>1. m \in 0 .. NNodes - 1 /\ Kind(m) = "mul_mat"
    BY <1>5 DEF Products
  <2>2. <<m, "product", c>> \in Pieces(m, "product", Chunks(n))
    BY <1>2, <1>5
  <2> QED BY <1>1, <1>3, <2>1, <2>2
<1>6. ASSUME NEW q \in AllPieces(n)
      PROVE  \/ \E m \in Working, c \in 0 .. n - 1 : q = <<m, First(m), c>>
             \/ \E m \in Products, c \in 0 .. Chunks(n) - 1 : q = <<m, "product", c>>
  <2>1. PICK m \in 0 .. NNodes - 1 : q \in PiecesOf(m, n)
    BY <1>3, <1>6
  <2>2. CASE Kind(m) = "empty"
    BY <1>1, <2>1, <2>2
  <2>3. CASE Kind(m) = "rows"
    <3>1. m \in Working /\ First(m) = "rows"
      BY <2>1, <2>3 DEF Working, First
    <3>2. q \in Pieces(m, First(m), n)
      BY <1>1, <2>1, <2>3, <3>1
    <3> QED BY <1>2, <3>1, <3>2
  <2>4. CASE Kind(m) = "mul_mat"
    <3>1. m \in Working /\ m \in Products /\ First(m) = "convert"
      BY <2>1, <2>4 DEF Working, Products, First
    <3>2. q \in Pieces(m, First(m), n) \/ q \in Pieces(m, "product", Chunks(n))
      BY <1>1, <2>1, <2>4, <3>1
    <3> QED BY <1>2, <3>1, <3>2
  <2> QED BY <2>2, <2>3, <2>4, Pool
<1> QED BY <1>4, <1>5, <1>6

LEMMA LevelTellsProgress ==
  ASSUME PoolInv, NEW t \in Members, ThreadOK(t), InGraph
  PROVE  /\ Level(t) \in Nat
         /\ \A m \in Working : (abort = -1 \/ m < abort) /\ Level(t) > LevelOf(m) => Progress(t) >= 5 * m + 4
         /\ \A m \in Products : (abort = -1 \/ m < abort) /\ Level(t) > 2 * m => Progress(t) >= 5 * m + 2
         /\ \A m \in Products : Progress(t) >= 5 * m + 3 => Level(t) > 2 * m
         /\ \A m \in Working : Progress(t) >= 5 * m + 5 => Level(t) > LevelOf(m)
<1> DEFINE k == node[t]  p == Progress(t)  l == Level(t)
<1>1. k \in 0 .. NNodes /\ p \in Nat /\ NNodes \in Nat /\ abort \in -1 .. NNodes
  BY ProgressIs, Pool DEF Members, PoolInv, TypeOK, PoolTyped
<1>2. /\ End = 2 * NNodes /\ Done = 2 * NNodes + 1
      /\ Reached(k) \in {End, 2 * k} /\ (Reached(k) = End => k \in {NNodes, abort})
      /\ Reached(k + 1) \in {End, 2 * (k + 1)} /\ (Reached(k + 1) = End => k + 1 \in {NNodes, abort})
  BY <1>1 DEF Reached, End, Done
<1>3. \A m \in Working : m \in 0 .. NNodes - 1 /\ LevelOf(m) \in 2 * m .. 2 * m + 1
  BY ProductsAre
<1>4. \A m \in Products : m \in Working /\ LevelOf(m) = 2 * m + 1
  BY ProductsAre
<1>5. \/ l = 0 /\ p = 0
      \/ l = Reached(k) /\ p = 5 * k
      \/ k \in Working /\ l = 2 * k /\ p = 5 * k
      \/ k \in Products /\ l = 2 * k /\ p = 5 * k + 1
      \/ k \in Products /\ l \in {2 * k, 2 * k + 1} /\ p = 5 * k + 2
      \/ k \in Products /\ l = 2 * k + 1 /\ p = 5 * k + 3
      \/ k \in Working /\ l = LevelOf(k) /\ p = 5 * k + 4
      \/ k \in Working /\ k < NNodes - 1 /\ l = Reached(k + 1) /\ p = 5 * k + 4
      \/ k \in {NNodes, abort} /\ l \in {End, Done} /\ p = 5 * k
  BY WhereItIs
<1> HIDE DEF k, p, l
<1>6. l \in Nat
  BY <1>1, <1>2, <1>3, <1>4, <1>5
<1>7. ASSUME NEW m \in Working, abort = -1 \/ m < abort, l > LevelOf(m)
      PROVE  p >= 5 * m + 4
  <2>1. m \in 0 .. NNodes - 1 /\ LevelOf(m) \in {2 * m, 2 * m + 1}
    BY <1>3, <1>7
  <2>2. CASE k \in Working /\ l = LevelOf(k) /\ p = 5 * k + 4
    <3>1. k = m \/ k > m \/ k < m
      BY <1>1, <2>1
    <3>2. LevelOf(k) \in {2 * k, 2 * k + 1}
      BY <1>1, <1>3, <2>2
    <3> QED BY <1>1, <2>1, <2>2, <3>1, <3>2, <1>7
  <2>3. CASE k \in Products /\ l \in {2 * k, 2 * k + 1}
    <3>1. CASE k = m
      BY <1>1, <1>4, <1>7, <2>3, <3>1
    <3>2. CASE k # m
      BY <1>1, <1>5, <1>7, <2>1, <2>3, <3>2
    <3> QED BY <3>1, <3>2
  <2> QED BY <1>1, <1>2, <1>5, <1>7, <2>1, <2>2, <2>3
<1>8. ASSUME NEW m \in Products, abort = -1 \/ m < abort, l > 2 * m
      PROVE  p >= 5 * m + 2
  BY <1>1, <1>2, <1>3, <1>4, <1>5, <1>8
<1>9. ASSUME NEW m \in Products, p >= 5 * m + 3 PROVE l > 2 * m
  BY <1>1, <1>2, <1>3, <1>4, <1>5, <1>9
<1>10. ASSUME NEW m \in Working, p >= 5 * m + 5 PROVE l > LevelOf(m)
  <2>1. m \in 0 .. NNodes - 1 /\ LevelOf(m) \in {2 * m, 2 * m + 1}
    BY <1>3, <1>10
  <2>2. k >= m + 1
    BY <1>1, <1>5, <1>10, <2>1
  <2> QED BY <1>1, <1>2, <1>3, <1>5, <1>10, <2>1, <2>2
<1> QED BY <1>6, <1>7, <1>8, <1>9, <1>10 DEF p, l

LEMMA MembersApart == PoolInv /\ ThreadsInv /\ InGraph => Apart
<1> SUFFICES ASSUME PoolInv, ThreadsInv, InGraph, NEW t \in Members, NEW u \in Members
             PROVE  /\ \A m \in Products : Progress(u) >= 5 * m + 3 => Progress(t) >= 5 * m + 2
                    /\ \A m \in Working : m < NNodes - 1 /\ Progress(u) >= 5 * m + 5 => Progress(t) >= 5 * m + 4
                    /\ pc[0] = "computed" =>
                         \A m \in Working : (abort = -1 \/ m < abort) => Progress(t) >= 5 * m + 4
  BY DEF Apart
<1>1. 0 \in Members /\ Members \subseteq Threads
  BY MembersAre DEF PoolInv, CallerOK, InGraph, Members
<1>2. \A v \in Members : ThreadOK(v) /\ Progress(v) \in Nat
  BY <1>1, ProgressIs DEF ThreadsInv
<1>3. \A v \in Members : \A w \in Walls : Level(u) > w => Level(v) > w
  BY DEF PoolInv, InStep, Same
<1>4. NNodes \in Nat /\ abort \in -1 .. NNodes
  BY Pool DEF PoolInv, TypeOK, PoolTyped
<1>5. ASSUME NEW m \in Products, Progress(u) >= 5 * m + 3 PROVE Progress(t) >= 5 * m + 2
  <2>1. m \in Nat /\ (abort = -1 \/ m < abort)
    BY <1>2, <1>4, <1>5, ProductsAre DEF ThreadOK
  <2>2. Level(u) > 2 * m /\ 2 * m \in Walls
    BY <1>2, <1>5, LevelTellsProgress, WallsAre DEF Products
  <2> QED BY <1>2, <1>3, <2>1, <2>2, LevelTellsProgress
<1>6. ASSUME NEW m \in Working, m < NNodes - 1, Progress(u) >= 5 * m + 5 PROVE Progress(t) >= 5 * m + 4
  <2>1. m \in Nat /\ (abort = -1 \/ m < abort)
    BY <1>2, <1>4, <1>6, ProductsAre DEF ThreadOK
  <2>2. m \in 0 .. NNodes - 2
    BY <1>4, <1>6, <2>1
  <2>3. Level(u) > LevelOf(m) /\ LevelOf(m) \in Walls
    BY <1>2, <1>6, <2>2, LevelTellsProgress, WallsAre DEF Working
  <2> QED BY <1>2, <1>3, <2>1, <2>3, LevelTellsProgress
<1>7. ASSUME pc[0] = "computed", NEW m \in Working, abort = -1 \/ m < abort
      PROVE  Progress(t) >= 5 * m + 4
  <2>1. Level(0) = Done
    BY <1>7 DEF Level, ToBegin, Computing
  <2>2. Level(0) > End /\ End \in Walls
    BY <2>1, <1>4, WallsAre DEF Done, End
  <2>3. Level(t) > End /\ Level(t) \in Nat
    BY <1>1, <1>2, <2>2, LevelTellsProgress DEF PoolInv, InStep, Same
  <2>4. Level(t) > LevelOf(m)
    BY <1>4, <2>3, ProductsAre DEF End
  <2> QED BY <1>2, <1>7, <2>4, LevelTellsProgress
<1> QED BY <1>5, <1>6, <1>7

LEMMA ProgressStays == PoolInv' => (\A t \in Threads : Progress(t) \in Nat)'
<1>1. PoolInv => \A t \in Threads : Progress(t) \in Nat
  BY ProgressIs
<1> QED BY <1>1, PTL

-----------------------------------------------------------------------------
\* A step of thread t.
RestStays(t) ==
  /\ n_graph' = n_graph
  /\ \A u \in Threads \ {t} :
       /\ pc'[u] = pc[u] /\ node'[u] = node[u] /\ phase'[u] = phase[u] /\ ret'[u] = ret[u]
       /\ last_graph'[u] = last_graph[u] /\ pending'[u] = pending[u]
       /\ chunk'[u] = chunk[u] /\ nth'[u] = nth[u]

LEMMA RestKeeps ==
  ASSUME NEW t \in Threads, RestStays(t)
  PROVE  /\ Members' = Members
         /\ \A u \in Threads \ {t} :
              /\ Progress(u)' = Progress(u) /\ ToBegin(u)' = ToBegin(u)
              /\ abort' = abort => ThreadOK(u)' = ThreadOK(u)
              /\ \A m, c : Holds(u, m, c)' = Holds(u, m, c)
<1> USE Pool DEF RestStays
<1>1. Members' = Members
  BY DEF Members
<1>2. ASSUME NEW u \in Threads \ {t}
      PROVE  /\ Progress(u)' = Progress(u) /\ ToBegin(u)' = ToBegin(u)
             /\ abort' = abort => ThreadOK(u)' = ThreadOK(u)
             /\ \A m, c : Holds(u, m, c)' = Holds(u, m, c)
  <2>1. ToBegin(u)' = ToBegin(u) /\ Stage(u)' = Stage(u)
    BY <1>2 DEF ToBegin, Stage
  <2>2. Progress(u)' = Progress(u)
    BY <1>2, <2>1 DEF Progress
  <2>3. abort' = abort => ThreadOK(u)' = ThreadOK(u)
    BY <1>2, <2>1, <2>2 DEF ThreadOK
  <2>4. ASSUME NEW m, NEW c PROVE Holds(u, m, c)' = Holds(u, m, c)
    BY <1>2, <2>2 DEF Holds
  <2> QED BY <2>1, <2>2, <2>3, <2>4
<1> QED BY <1>1, <1>2

\* What is known of the chunks stays when no thread takes or leaves one.
SameForChunks(u) ==
  \A m \in Products :
    /\ Progress(u)' < 5 * m + 4 <=> Progress(u) < 5 * m + 4
    /\ u = 0 => (Progress(u)' >= 5 * m + 2 <=> Progress(u) >= 5 * m + 2)
    /\ \A c : Holds(u, m, c)' <=> Holds(u, m, c)

LEMMA ChunksStay ==
  ASSUME PoolInv, InGraph, ChunksInv, UNCHANGED <<n_graph, current_chunk>>, HeldWasGiven',
         \A u \in Members : SameForChunks(u),
         \A m, c : <<m, "product", c>> \in finished' <=> <<m, "product", c>> \in finished
  PROVE  ChunksInv'
<1>1. Members' = Members /\ 0 \in Members
  BY MembersAre DEF Members, PoolInv, CallerOK, InGraph
<1>2. Products' = Products /\ Chunks(n_graph.n)' = Chunks(n_graph.n)
  BY DEF Products, Chunks
<1>3. \A u \in Members, m \in Products :
        /\ Progress(u)' < 5 * m + 4 <=> Progress(u) < 5 * m + 4
        /\ \A c : Holds(u, m, c)' <=> Holds(u, m, c)
  BY DEF SameForChunks
<1>4. \A m \in Products : Progress(0)' >= 5 * m + 2 <=> Progress(0) >= 5 * m + 2
  BY <1>1 DEF SameForChunks
<1>5. OneHolder'
  BY <1>1, <1>2, <1>3 DEF ChunksInv, OneHolder
<1>6. HeldIsToCome'
  BY <1>1, <1>2, <1>3 DEF ChunksInv, HeldIsToCome
<1>7. NoneForgotten'
  BY <1>1, <1>2, <1>3, <1>4 DEF ChunksInv, NoneForgotten
<1>8. FinishedWasGiven'
  BY <1>1, <1>2, <1>3, <1>4 DEF ChunksInv, FinishedWasGiven
<1>9. CounterIsSet'
  BY <1>1, <1>2, <1>4 DEF ChunksInv, CounterIsSet
<1> QED BY <1>5, <1>6, <1>7, <1>8, <1>9 DEF ChunksInv

\* A step on which nothing that is known of the pieces depends.
Idles(t) ==
  \/ /\ Progress(t)' = Progress(t)
     /\ \A m \in Products : Progress(t) = 5 * m + 3 =>
          chunk'[t] = chunk[t] /\ (pc'[t] = "fetch" <=> pc[t] = "fetch")
  \/ \E k \in Nat :
       /\ Progress(t)' = 5 * k + 5
       /\ Progress(t) = 5 * k + 4 \/ (Progress(t) = 5 * k /\ k \notin Working)

LEMMA PiecesStay ==
  ASSUME PoolInv, PoolInv', InGraph, PiecesInv, NEW t \in Threads, RestStays(t),
         UNCHANGED <<finished, current_chunk>>, t \in Members => Idles(t)
  PROVE  PiecesInv'
<1>1. Members' = Members /\ Members \subseteq Threads /\ n_graph' = n_graph
  BY RestKeeps DEF Members, RestStays
<1>2. \A u \in Members : Progress(u) \in Nat /\ Progress(u)' \in Nat
  <2>1. \A u \in Threads : Progress(u) \in Nat
    BY ProgressIs
  <2>2. \A u \in Threads : Progress(u)' \in Nat
    BY ProgressStays
  <2> QED BY <1>1, <2>1, <2>2
<1>3. ASSUME NEW u \in Members, NEW m \in Working
      PROVE  /\ Progress(u)' >= 5 * m + 1 <=> Progress(u) >= 5 * m + 1
             /\ Progress(u)' >= 5 * m + 2 <=> Progress(u) >= 5 * m + 2
             /\ Progress(u)' < 5 * m + 3 <=> Progress(u) < 5 * m + 3
             /\ Progress(u)' < 5 * m + 4 <=> Progress(u) < 5 * m + 4
  <2>0. m \in Nat /\ Progress(u) \in Nat /\ Progress(u)' \in Nat
    BY <1>2, ProductsAre
  <2>1. CASE Progress(u)' = Progress(u)
    BY <2>1
  <2>2. CASE Progress(u)' # Progress(u)
    <3>1. u = t
      BY <1>1, <2>2, RestKeeps
    <3>2. PICK k \in Nat : /\ Progress(u)' = 5 * k + 5
                           /\ Progress(u) = 5 * k + 4 \/ (Progress(u) = 5 * k /\ k \notin Working)
      BY <2>2, <3>1 DEF Idles
    <3>3. CASE Progress(u) = 5 * k + 4
      BY <2>0, <3>2, <3>3
    <3>4. CASE Progress(u) = 5 * k /\ k # m
      BY <2>0, <3>2, <3>4
    <3> QED BY <3>2, <3>3, <3>4
  <2> QED BY <2>1, <2>2
<1>4. ASSUME NEW u \in Members, NEW m \in Products
      PROVE  /\ Progress(u)' = 5 * m + 3 <=> Progress(u) = 5 * m + 3
             /\ Progress(u) = 5 * m + 3 => chunk'[u] = chunk[u] /\ (pc'[u] = "fetch" <=> pc[u] = "fetch")
             /\ \A c : Holds(u, m, c)' <=> Holds(u, m, c)
  <2>1. m \in Nat /\ m \in Working /\ Progress(u) \in Nat /\ Progress(u)' \in Nat
    BY <1>2, ProductsAre
  <2>2. Progress(u)' = 5 * m + 3 <=> Progress(u) = 5 * m + 3
    BY <1>3, <2>1
  <2>3. ASSUME Progress(u) = 5 * m + 3
        PROVE  chunk'[u] = chunk[u] /\ (pc'[u] = "fetch" <=> pc[u] = "fetch")
    <3>1. CASE u # t
      BY <1>1, <3>1 DEF RestStays
    <3>2. CASE u = t
      <4>1. ASSUME NEW k \in Nat, Progress(t) = 5 * k + 4 \/ Progress(t) = 5 * k PROVE FALSE
        BY <2>1, <2>3, <3>2, <4>1
      <4> QED BY <2>3, <3>2, <4>1 DEF Idles
    <3> QED BY <3>1, <3>2
  <2>4. ASSUME NEW c PROVE Holds(u, m, c)' <=> Holds(u, m, c)
    BY <1>3, <2>1, <2>2, <2>3 DEF Holds
  <2> QED BY <2>2, <2>3, <2>4
<1>5. \A u \in Members : SameForChunks(u)
  BY <1>3, <1>4, ProductsAre DEF SameForChunks
<1>6. HeldWasGiven'
  <2> SUFFICES ASSUME NEW m \in Products, NEW u \in Members, Progress(u)' = 5 * m + 3, pc'[u] # "fetch"
               PROVE  chunk'[u] = u \/ (n_graph.n <= chunk'[u] /\ chunk'[u] < current_chunk)
    BY <1>1 DEF HeldWasGiven, Products
  <2> QED BY <1>4 DEF PiecesInv, ChunksInv, HeldWasGiven
<1>7. ChunksInv'
  BY <1>1, <1>5, <1>6, ChunksStay DEF PiecesInv
<1>8. OwnFinished'
  BY <1>1, <1>3 DEF OwnFinished, PiecesInv, Working, First
<1>9. (finished \subseteq AllPieces(n_graph.n))'
  BY <1>1 DEF PiecesInv
<1> QED BY <1>7, <1>8, <1>9 DEF PiecesInv

-----------------------------------------------------------------------------
(***************************************************************************)
(* The steps that matter to the pieces.                                    *)
(***************************************************************************)
LEMMA WorkFacts ==
  ASSUME PoolInv, PoolInv', InGraph, ThreadsInv, NEW t \in Members, RestStays(t)
  PROVE  /\ Members' = Members /\ Members \subseteq Threads /\ 0 \in Members
         /\ n_graph' = n_graph /\ n_graph.n \in Nat /\ current_chunk \in Nat /\ NNodes \in Nat
         /\ Chunks(n_graph.n) \in Nat /\ Chunks(n_graph.n) >= n_graph.n
         /\ \A u \in Members : u \in 0 .. n_graph.n - 1 /\ Progress(u) \in Nat /\ Progress(u)' \in Nat
         /\ \A u \in Members : chunk[u] \in Nat
         /\ \A u \in Members \ {t} :
              /\ Progress(u)' = Progress(u) /\ chunk'[u] = chunk[u] /\ pc'[u] = pc[u]
              /\ \A m, c : Holds(u, m, c)' = Holds(u, m, c)
         /\ \A m \in Working : m \in 0 .. NNodes - 1 /\ m \in Nat
         /\ Products \subseteq Working /\ Products' = Products /\ Working' = Working
         /\ \A m : First(m)' = First(m)
         /\ Apart
<1>1. Members' = Members /\ Members \subseteq Threads /\ 0 \in Members
  BY RestKeeps, MembersAre DEF Members, PoolInv, CallerOK, InGraph
<1>2. n_graph' = n_graph /\ n_graph.n \in Nat /\ current_chunk \in Nat /\ NNodes \in Nat
  BY MembersAre, Pool DEF RestStays, PoolInv, TypeOK, PoolTyped
<1>3. Chunks(n_graph.n) \in Nat /\ Chunks(n_graph.n) >= n_graph.n
  <2>1. NChunks \in Nat /\ ChunkFactor \in Nat /\ ChunkFactor >= 1
    BY GraphAssumption
  <2>2. n_graph.n * ChunkFactor >= n_graph.n
    BY <1>2, <2>1
  <2> QED BY <1>2, <2>1, <2>2 DEF Chunks
<1>4. \A u \in Members : u \in 0 .. n_graph.n - 1
  BY MembersAre DEF PoolInv
<1>5. \A u \in Threads : Progress(u) \in Nat /\ Progress(u)' \in Nat /\ chunk[u] \in Nat
  BY ProgressIs, ProgressStays
<1>6. \A u \in Members \ {t} :
        /\ Progress(u)' = Progress(u) /\ chunk'[u] = chunk[u] /\ pc'[u] = pc[u]
        /\ \A m, c : Holds(u, m, c)' = Holds(u, m, c)
  BY <1>1, RestKeeps DEF RestStays
<1>7. /\ \A m \in Working : m \in 0 .. NNodes - 1 /\ m \in Nat
      /\ Products \subseteq Working /\ Products' = Products /\ Working' = Working
      /\ \A m : First(m)' = First(m)
  BY ProductsAre DEF Products, Working, First
<1>8. Apart
  BY MembersApart
<1> QED BY <1>1, <1>2, <1>3, <1>4, <1>5, <1>6, <1>7, <1>8

LEMMA OwnFinishedStays ==
  ASSUME PoolInv, PoolInv', InGraph, ThreadsInv, OwnFinished, NEW t \in Members, RestStays(t),
         \A m \in Working : Progress(t)' >= 5 * m + 1 <=> Progress(t) >= 5 * m + 1,
         \A m \in Working, u \in Members :
           <<m, First(m), u>> \in finished' <=> <<m, First(m), u>> \in finished
  PROVE  OwnFinished'
<1>1. \A u \in Members, m \in Working : Progress(u)' >= 5 * m + 1 <=> Progress(u) >= 5 * m + 1
  BY WorkFacts
<1> QED BY <1>1, WorkFacts DEF OwnFinished

\* The thread's rows, or its part of the conversion, are computed.
LEMMA OwnPieceCounts ==
  ASSUME PoolInv, PoolInv', InGraph, ThreadsInv, PiecesInv, NEW t \in Members, RestStays(t),
         NEW m \in Working, Progress(t) = 5 * m, current_chunk' = current_chunk,
         finished' = finished \union {<<m, First(m), t>>}, <<m, First(m), t>> \in AllPieces(n_graph.n),
         \/ m \in Products /\ Progress(t)' = 5 * m + (IF t = 0 THEN 1 ELSE 2)
         \/ m \notin Products /\ Progress(t)' = 5 * m + 4
  PROVE  PiecesInv'
<1> USE WorkFacts
<1>1. ASSUME NEW k \in Working
      PROVE  Progress(t)' >= 5 * k + 1 <=> Progress(t) >= 5 * k + 1 \/ k = m
  <2>1. k \in Nat /\ m \in Nat
    BY <1>1
  <2> QED BY <2>1
<1>2. OwnFinished'
  <2> SUFFICES ASSUME NEW k \in Working, NEW u \in Members
               PROVE  <<k, First(k), u>> \in finished' <=> Progress(u)' >= 5 * k + 1
    BY DEF OwnFinished
  <2>1. <<k, First(k), u>> \in finished <=> Progress(u) >= 5 * k + 1
    BY DEF PiecesInv, OwnFinished
  <2>2. CASE u # t
    BY <2>1, <2>2
  <2>3. CASE u = t /\ k # m
    BY <1>1, <2>1, <2>3
  <2>4. CASE u = t /\ k = m
    BY <1>1, <2>4
  <2> QED BY <2>2, <2>3, <2>4
<1>3. ASSUME NEW k \in Products
      PROVE  /\ Progress(t)' < 5 * k + 4 <=> Progress(t) < 5 * k + 4
             /\ Progress(t)' < 5 * k + 3 <=> Progress(t) < 5 * k + 3
             /\ t = 0 => (Progress(t)' >= 5 * k + 2 <=> Progress(t) >= 5 * k + 2)
             /\ Progress(t)' # 5 * k + 3 /\ Progress(t) # 5 * k + 3
  <2>1. k \in Nat /\ m \in Nat /\ (m \notin Products => k # m)
    BY <1>3
  <2> QED BY <2>1
<1>4. \A u \in Members : SameForChunks(u)
  <2> SUFFICES ASSUME NEW u \in Members PROVE SameForChunks(u)
    OBVIOUS
  <2>1. CASE u = t
    BY <1>3, <2>1 DEF SameForChunks, Holds
  <2>2. CASE u # t
    BY <2>2 DEF SameForChunks
  <2> QED BY <2>1, <2>2
<1>5. HeldWasGiven'
  BY <1>3 DEF HeldWasGiven, PiecesInv, ChunksInv
<1>6. \A k, c : <<k, "product", c>> \in finished' <=> <<k, "product", c>> \in finished
  BY ProductsAre
<1>7. ChunksInv'
  BY <1>4, <1>5, <1>6, ChunksStay DEF PiecesInv
<1>8. (finished \subseteq AllPieces(n_graph.n))'
  BY DEF PiecesInv
<1> QED BY <1>2, <1>7, <1>8 DEF PiecesInv

\* Thread 0 sets current_chunk: no thread is at the chunks of a product.
LEMMA CounterStarts ==
  ASSUME PoolInv, PoolInv', InGraph, ThreadsInv, PiecesInv, 0 \in Members, RestStays(0),
         NEW m \in Products, Progress(0) = 5 * m + 1, Progress(0)' = 5 * m + 2,
         current_chunk' = n_graph.n, finished' = finished
  PROVE  PiecesInv'
<1> USE WorkFacts
<1>0. m \in 0 .. NNodes - 1
  OBVIOUS
<1>1. ASSUME NEW k \in Products, k < m, NEW u \in Members PROVE Progress(u) >= 5 * k + 4
  <2>1. k \in Working /\ k \in Nat /\ k < NNodes - 1 /\ Progress(0) >= 5 * k + 5
    BY <1>0, <1>1
  <2> QED BY <2>1 DEF Apart
<1>2. ASSUME NEW k \in Products, NEW u \in Members, Progress(u) = 5 * k + 3 PROVE FALSE
  <2>1. Progress(0) >= 5 * k + 2 /\ k \in Nat
    BY <1>2 DEF Apart
  <2>2. k < m
    BY <1>0, <2>1
  <2> QED BY <1>1, <1>2, <2>1, <2>2
<1>3. ASSUME NEW k \in Working
      PROVE  /\ Progress(0)' >= 5 * k + 1 <=> Progress(0) >= 5 * k + 1
             /\ Progress(0)' < 5 * k + 4 <=> Progress(0) < 5 * k + 4
             /\ Progress(0)' < 5 * k + 3 <=> Progress(0) < 5 * k + 3
             /\ Progress(0)' # 5 * k + 3 /\ Progress(0) # 5 * k + 3
  <2>1. k \in Nat
    BY <1>3
  <2> QED BY <1>0, <2>1
<1>4. ASSUME NEW k \in Products, NEW u \in Members
      PROVE  /\ \A c : Holds(u, k, c)' <=> Holds(u, k, c)
             /\ Progress(u)' < 5 * k + 4 <=> Progress(u) < 5 * k + 4
             /\ Progress(u)' # 5 * k + 3
  <2>1. CASE u = 0
    BY <1>3, <2>1 DEF Holds
  <2>2. CASE u # 0
    BY <1>2, <2>2
  <2> QED BY <2>1, <2>2
<1>5. OwnFinished'
  BY <1>3, OwnFinishedStays DEF PiecesInv
<1> USE DEF PiecesInv, ChunksInv
<1>6. OneHolder'
  BY <1>4 DEF OneHolder
<1>7. HeldIsToCome'
  BY <1>4 DEF HeldIsToCome
<1>8. NoneForgotten'
  BY <1>4 DEF NoneForgotten
<1>9. FinishedWasGiven'
  <2> SUFFICES ASSUME NEW k \in Products, NEW c \in Nat, <<k, "product", c>> \in finished, c >= n_graph.n
               PROVE  /\ Progress(0)' >= 5 * k + 2
                      /\ \A u \in Members : Progress(u)' >= 5 * k + 4
    BY DEF FinishedWasGiven
  <2>1. Progress(0) >= 5 * k + 2 /\ k \in Nat
    BY DEF FinishedWasGiven
  <2>2. k < m
    BY <1>0, <2>1
  <2> QED BY <1>0, <1>1, <1>4, <2>1, <2>2
<1>10. HeldWasGiven'
  BY <1>4 DEF HeldWasGiven
<1>11. CounterIsSet'
  BY DEF CounterIsSet
<1> QED BY <1>5, <1>6, <1>7, <1>8, <1>9, <1>10, <1>11

\* The barrier lets a thread go to its first chunk.
LEMMA FirstChunkIsOwn ==
  ASSUME PoolInv, PoolInv', InGraph, ThreadsInv, PiecesInv, NEW t \in Members, RestStays(t),
         NEW m \in Products, Progress(t) = 5 * m + 2, Progress(t)' = 5 * m + 3,
         chunk'[t] = t, pc'[t] = "chunks", UNCHANGED <<finished, current_chunk>>
  PROVE  PiecesInv'
<1> USE WorkFacts
<1>1. ASSUME NEW k \in Working
      PROVE  /\ Progress(t)' >= 5 * k + 1 <=> Progress(t) >= 5 * k + 1
             /\ Progress(t)' >= 5 * k + 2 <=> Progress(t) >= 5 * k + 2
             /\ Progress(t)' < 5 * k + 4 <=> Progress(t) < 5 * k + 4
             /\ k # m => (Progress(t)' < 5 * k + 3 <=> Progress(t) < 5 * k + 3)
             /\ k # m => Progress(t)' # 5 * k + 3
             /\ Progress(t) # 5 * k + 3
  <2>1. k \in Nat /\ m \in Nat
    BY <1>1
  <2> QED BY <2>1
<1>2. ASSUME NEW k \in Products, NEW c PROVE Holds(t, k, c)' <=> Holds(t, k, c)
  <2>1. CASE k = m
    <3>1. m \in Nat
      OBVIOUS
    <3>2. Holds(t, m, c) <=> c = t
      BY <3>1 DEF Holds
    <3>3. Holds(t, m, c)' <=> c = t
      BY <3>1 DEF Holds
    <3> QED BY <2>1, <3>2, <3>3
  <2>2. CASE k # m
    BY <1>1, <2>2 DEF Holds
  <2> QED BY <2>1, <2>2
<1>3. \A u \in Members : SameForChunks(u)
  <2> SUFFICES ASSUME NEW u \in Members PROVE SameForChunks(u)
    OBVIOUS
  <2>1. CASE u = t
    BY <1>1, <1>2, <2>1 DEF SameForChunks
  <2>2. CASE u # t
    BY <2>2 DEF SameForChunks
  <2> QED BY <2>1, <2>2
<1>4. HeldWasGiven'
  <2> SUFFICES ASSUME NEW k \in Products, NEW u \in Members, Progress(u)' = 5 * k + 3, pc'[u] # "fetch"
               PROVE  chunk'[u] = u \/ (n_graph.n <= chunk'[u] /\ chunk'[u] < current_chunk)
    BY DEF HeldWasGiven
  <2>1. CASE u = t
    BY <2>1
  <2>2. CASE u # t
    BY <2>2 DEF PiecesInv, ChunksInv, HeldWasGiven
  <2> QED BY <2>1, <2>2
<1>5. ChunksInv'
  BY <1>3, <1>4, ChunksStay DEF PiecesInv
<1>6. OwnFinished'
  BY <1>1, OwnFinishedStays DEF PiecesInv
<1> QED BY <1>5, <1>6 DEF PiecesInv

\* A chunk is computed: the thread fetches another one unless every thread has only one.
LEMMA ChunkCounts ==
  ASSUME PoolInv, PoolInv', InGraph, ThreadsInv, PiecesInv, NEW t \in Members, RestStays(t),
         NEW m \in Products, Progress(t) = 5 * m + 3, pc[t] = "piece",
         \/ Progress(t)' = 5 * m + 3 /\ pc'[t] = "fetch"
         \/ Progress(t)' = 5 * m + 4 /\ n_graph.n >= Chunks(n_graph.n),
         current_chunk' = current_chunk, <<m, "product", chunk[t]>> \in AllPieces(n_graph.n),
         finished' = finished \union {<<m, "product", chunk[t]>>}
  PROVE  PiecesInv'
<1> USE WorkFacts DEF PiecesInv, ChunksInv
<1>1. ASSUME NEW k \in Working
      PROVE  /\ Progress(t)' >= 5 * k + 1 <=> Progress(t) >= 5 * k + 1
             /\ Progress(t)' >= 5 * k + 2 <=> Progress(t) >= 5 * k + 2
             /\ Progress(t)' < 5 * k + 3 <=> Progress(t) < 5 * k + 3
             /\ Progress(t)' < 5 * k + 4 => Progress(t) < 5 * k + 4
             /\ k # m => (Progress(t)' < 5 * k + 4 <=> Progress(t) < 5 * k + 4)
             /\ k # m => Progress(t)' # 5 * k + 3 /\ Progress(t) # 5 * k + 3
  <2>1. k \in Nat /\ m \in Nat
    BY <1>1
  <2> QED BY <2>1
<1>2. ASSUME NEW u \in Members, NEW k \in Products, NEW c
      PROVE  Holds(u, k, c)' <=> Holds(u, k, c) /\ ~(u = t /\ k = m)
  <2>1. CASE u # t
    BY <2>1
  <2>2. CASE u = t /\ k # m
    BY <1>1, <2>2 DEF Holds
  <2>3. CASE u = t /\ k = m
    <3>1. m \in Nat
      OBVIOUS
    <3> QED BY <2>3, <3>1 DEF Holds
  <2> QED BY <2>1, <2>2, <2>3
<1>3. m \in Nat /\ \A c : Holds(t, m, c) <=> c = chunk[t]
  BY DEF Holds
<1>4. Progress(0) >= 5 * m + 2
  BY DEF Apart
<1>5. OwnFinished'
  <2>1. \A k \in Working, u \in Members :
          <<k, First(k), u>> \in finished' <=> <<k, First(k), u>> \in finished
    BY DEF First
  <2> QED BY <1>1, <2>1, OwnFinishedStays
<1>6. OneHolder'
  BY <1>2 DEF OneHolder
<1>7. HeldIsToCome'
  <2> SUFFICES ASSUME NEW k \in Products, NEW u \in Members, NEW c \in Nat, Holds(u, k, c)'
               PROVE  <<k, "product", c>> \notin finished'
    BY DEF HeldIsToCome
  <2>1. Holds(u, k, c) /\ ~(u = t /\ k = m) /\ <<k, "product", c>> \notin finished
    BY <1>2 DEF HeldIsToCome
  <2>2. ASSUME k = m, c = chunk[t] PROVE FALSE
    <3>1. Holds(t, m, c) /\ Holds(u, m, c)
      BY <1>3, <2>1, <2>2
    <3>2. u = t
      BY <3>1 DEF OneHolder
    <3> QED BY <2>1, <2>2, <3>2
  <2> QED BY <2>1, <2>2
<1>8. NoneForgotten'
  <2> SUFFICES ASSUME NEW k \in Products, NEW c \in 0 .. Chunks(n_graph.n) - 1
               PROVE  \/ <<k, "product", c>> \in finished'
                      \/ \E u \in Members : Holds(u, k, c)'
                      \/ /\ c >= n_graph.n
                         /\ \A u \in Members : Progress(u)' < 5 * k + 4
                         /\ Progress(0)' >= 5 * k + 2 => c >= current_chunk
    BY DEF NoneForgotten
  <2>1. CASE <<k, "product", c>> \in finished
    BY <2>1
  <2>2. CASE \E u \in Members : Holds(u, k, c)
    BY <1>2, <1>3, <2>2
  <2>3. CASE /\ c >= n_graph.n
             /\ \A u \in Members : Progress(u) < 5 * k + 4
             /\ Progress(0) >= 5 * k + 2 => c >= current_chunk
    <3>1. Progress(t)' < 5 * k + 4
      <4>1. CASE k # m
        BY <1>1, <2>3, <4>1
      <4>2. CASE k = m /\ Progress(t)' = 5 * m + 3
        BY <1>3, <4>2
      <4>3. CASE n_graph.n >= Chunks(n_graph.n)
        BY <2>3, <4>3
      <4> QED BY <4>1, <4>2, <4>3
    <3>2. \A u \in Members : Progress(u)' < 5 * k + 4
      BY <2>3, <3>1
    <3>3. Progress(0)' >= 5 * k + 2 => Progress(0) >= 5 * k + 2
      BY <1>1
    <3> QED BY <2>3, <3>2, <3>3
  <2> QED BY <2>1, <2>2, <2>3 DEF NoneForgotten
<1>9. FinishedWasGiven'
  <2> SUFFICES ASSUME NEW k \in Products, NEW c \in Nat, <<k, "product", c>> \in finished', c >= n_graph.n
               PROVE  /\ Progress(0)' >= 5 * k + 2
                      /\ (\E u \in Members : Progress(u)' < 5 * k + 4) => c < current_chunk
    BY DEF FinishedWasGiven
  <2>1. Progress(0) >= 5 * k + 2 => Progress(0)' >= 5 * k + 2
    BY <1>1
  <2>2. (\E u \in Members : Progress(u)' < 5 * k + 4) => \E u \in Members : Progress(u) < 5 * k + 4
    BY <1>1
  <2>3. CASE <<k, "product", c>> \in finished
    BY <2>1, <2>2, <2>3 DEF FinishedWasGiven
  <2>4. CASE k = m /\ c = chunk[t]
    <3>1. chunk[t] = t \/ chunk[t] < current_chunk
      BY <1>3 DEF HeldWasGiven
    <3> QED BY <1>4, <2>1, <2>4, <3>1
  <2> QED BY <2>3, <2>4
<1>10. HeldWasGiven'
  <2> SUFFICES ASSUME NEW k \in Products, NEW u \in Members, Progress(u)' = 5 * k + 3, pc'[u] # "fetch"
               PROVE  chunk'[u] = u \/ (n_graph.n <= chunk'[u] /\ chunk'[u] < current_chunk)
    BY DEF HeldWasGiven
  <2>1. u # t
    <3>1. ASSUME u = t PROVE FALSE
      <4>1. k = m
        BY <1>1, <3>1
      <4> QED BY <1>3, <3>1, <4>1
    <3> QED BY <3>1
  <2> QED BY <2>1 DEF HeldWasGiven
<1>11. CounterIsSet'
  BY <1>1 DEF CounterIsSet
<1> QED BY <1>5, <1>6, <1>7, <1>8, <1>9, <1>10, <1>11

\* The next chunk is given to the thread alone.
LEMMA ChunkIsGiven ==
  ASSUME PoolInv, PoolInv', InGraph, ThreadsInv, PiecesInv, NEW t \in Members, RestStays(t),
         NEW m \in Products, Progress(t) = 5 * m + 3, Progress(t)' = 5 * m + 3,
         pc[t] = "fetch", pc'[t] = "chunks",
         chunk'[t] = current_chunk, current_chunk' = current_chunk + 1, finished' = finished
  PROVE  PiecesInv'
<1> USE WorkFacts DEF PiecesInv, ChunksInv
<1>0. m \in 0 .. NNodes - 1 /\ Progress(0) >= 5 * m + 2 /\ current_chunk >= n_graph.n
  <2>1. Progress(0) >= 5 * m + 2
    BY DEF Apart
  <2> QED BY <2>1 DEF CounterIsSet
<1>1. ASSUME NEW u \in Members, NEW k \in Products, NEW c
      PROVE  Holds(u, k, c)' <=> Holds(u, k, c) \/ (u = t /\ k = m /\ c = current_chunk)
  <2>1. CASE u # t
    BY <2>1
  <2>2. CASE u = t /\ k # m
    <3>1. Progress(t) # 5 * k + 3
      BY <1>0, <2>2
    <3> QED BY <2>2, <3>1 DEF Holds
  <2>3. CASE u = t /\ k = m
    BY <1>0, <2>3 DEF Holds
  <2> QED BY <2>1, <2>2, <2>3
<1>2. ASSUME NEW u \in Members PROVE ~Holds(u, m, current_chunk)
  <2>1. CASE Progress(u) < 5 * m + 3
    BY <1>0, <2>1 DEF Holds
  <2>2. CASE Progress(u) = 5 * m + 3 /\ pc[u] # "fetch"
    <3>1. chunk[u] = u \/ chunk[u] < current_chunk
      BY <2>2 DEF HeldWasGiven
    <3> QED BY <1>0, <2>2, <3>1 DEF Holds
  <2> QED BY <2>1, <2>2 DEF Holds
<1>3. <<m, "product", current_chunk>> \notin finished
  <2>1. Progress(t) < 5 * m + 4
    BY <1>0
  <2>2. <<m, "product", current_chunk>> \in finished => current_chunk < current_chunk
    BY <1>0, <2>1 DEF FinishedWasGiven
  <2> QED BY <2>2
<1>4. \A u \in Members : Progress(u)' = Progress(u)
  OBVIOUS
<1>5. OwnFinished'
  BY <1>4 DEF OwnFinished
<1>6. OneHolder'
  <2> SUFFICES ASSUME NEW k \in Products, NEW u \in Members, NEW v \in Members, NEW c \in Nat,
                      Holds(u, k, c)', Holds(v, k, c)'
               PROVE  u = v
    BY DEF OneHolder
  <2> QED BY <1>1, <1>2 DEF OneHolder
<1>7. HeldIsToCome'
  BY <1>1, <1>3 DEF HeldIsToCome
<1>8. NoneForgotten'
  <2> SUFFICES ASSUME NEW k \in Products, NEW c \in 0 .. Chunks(n_graph.n) - 1
               PROVE  \/ <<k, "product", c>> \in finished
                      \/ \E u \in Members : Holds(u, k, c)'
                      \/ /\ c >= n_graph.n
                         /\ \A u \in Members : Progress(u)' < 5 * k + 4
                         /\ Progress(0)' >= 5 * k + 2 => c >= current_chunk + 1
    BY DEF NoneForgotten
  <2>1. CASE <<k, "product", c>> \in finished
    BY <2>1
  <2>2. CASE \E u \in Members : Holds(u, k, c)
    BY <1>1, <2>2
  <2>3. CASE /\ c >= n_graph.n
             /\ \A u \in Members : Progress(u) < 5 * k + 4
             /\ Progress(0) >= 5 * k + 2 => c >= current_chunk
    <3>1. CASE k = m
      <4>1. c = current_chunk => Holds(t, k, c)'
        BY <1>1, <3>1
      <4> QED BY <1>0, <2>3, <3>1, <4>1
    <3>2. CASE k # m
      <4>1. k \in 0 .. NNodes - 1 /\ Progress(t) < 5 * k + 4
        BY <2>3
      <4>2. k > m
        BY <1>0, <3>2, <4>1
      <4>3. Progress(0) >= 5 * k + 2 => Progress(t) >= 5 * m + 4
        <5>1. m < NNodes - 1 /\ (Progress(0) >= 5 * k + 2 => Progress(0) >= 5 * m + 5)
          BY <1>0, <4>1, <4>2
        <5> QED BY <5>1 DEF Apart
      <4>4. ~(Progress(0) >= 5 * k + 2)
        BY <1>0, <4>3
      <4> QED BY <2>3, <4>4
    <3> QED BY <3>1, <3>2
  <2> QED BY <2>1, <2>2, <2>3 DEF NoneForgotten
<1>9. FinishedWasGiven'
  <2> SUFFICES ASSUME NEW k \in Products, NEW c \in Nat, <<k, "product", c>> \in finished, c >= n_graph.n
               PROVE  /\ Progress(0) >= 5 * k + 2
                      /\ (\E u \in Members : Progress(u) < 5 * k + 4) => c < current_chunk + 1
    BY <1>4 DEF FinishedWasGiven
  <2>1. /\ Progress(0) >= 5 * k + 2
        /\ (\E u \in Members : Progress(u) < 5 * k + 4) => c < current_chunk
    BY DEF FinishedWasGiven
  <2> QED BY <2>1
<1>10. HeldWasGiven'
  <2> SUFFICES ASSUME NEW k \in Products, NEW u \in Members, Progress(u) = 5 * k + 3, pc'[u] # "fetch"
               PROVE  chunk'[u] = u \/ (n_graph.n <= chunk'[u] /\ chunk'[u] < current_chunk + 1)
    BY <1>4 DEF HeldWasGiven
  <2>1. CASE u = t
    BY <1>0, <2>1
  <2>2. CASE u # t
    <3>1. chunk[u] = u \/ (n_graph.n <= chunk[u] /\ chunk[u] < current_chunk)
      BY <2>2 DEF HeldWasGiven
    <3> QED BY <2>2, <3>1
  <2> QED BY <2>1, <2>2
<1>11. CounterIsSet'
  <2>1. \A k \in Products : Progress(0) >= 5 * k + 2 => current_chunk + 1 >= n_graph.n
    BY <1>0
  <2> QED BY <1>4, <2>1 DEF CounterIsSet
<1> QED BY <1>5, <1>6, <1>7, <1>8, <1>9, <1>10, <1>11

\* No chunk is left for the thread: every chunk has been given out.
LEMMA NoChunkIsLeft ==
  ASSUME PoolInv, PoolInv', InGraph, ThreadsInv, PiecesInv, NEW t \in Members, RestStays(t),
         NEW m \in Products, Progress(t) = 5 * m + 3, Progress(t)' = 5 * m + 4, pc[t] = "chunks",
         chunk[t] >= Chunks(n_graph.n), UNCHANGED <<finished, current_chunk>>
  PROVE  PiecesInv'
<1> USE WorkFacts DEF PiecesInv, ChunksInv
<1>0. m \in Nat /\ Progress(0) >= 5 * m + 2
  BY DEF Apart
<1>1. ASSUME NEW k \in Working
      PROVE  /\ Progress(t)' >= 5 * k + 1 <=> Progress(t) >= 5 * k + 1
             /\ Progress(t)' >= 5 * k + 2 <=> Progress(t) >= 5 * k + 2
             /\ Progress(t)' < 5 * k + 4 => Progress(t) < 5 * k + 4
             /\ k # m => (Progress(t)' < 5 * k + 4 <=> Progress(t) < 5 * k + 4)
             /\ k # m => (Progress(t)' < 5 * k + 3 <=> Progress(t) < 5 * k + 3)
             /\ k # m => Progress(t) # 5 * k + 3
             /\ Progress(t)' # 5 * k + 3
  <2>1. k \in Nat
    BY <1>1
  <2> QED BY <1>0, <2>1
<1>2. ASSUME NEW u \in Members, NEW k \in Products, NEW c
      PROVE  Holds(u, k, c)' <=> Holds(u, k, c) /\ ~(u = t /\ k = m)
  <2>1. CASE u # t
    BY <2>1
  <2>2. CASE u = t /\ k # m
    BY <1>1, <2>2 DEF Holds
  <2>3. CASE u = t /\ k = m
    BY <1>0, <2>3 DEF Holds
  <2> QED BY <2>1, <2>2, <2>3
<1>3. \A c : Holds(t, m, c) <=> c = chunk[t]
  BY <1>0 DEF Holds
<1>4. chunk[t] = t \/ chunk[t] < current_chunk
  BY DEF HeldWasGiven
<1>5. OwnFinished'
  BY <1>1, OwnFinishedStays
<1>6. OneHolder'
  BY <1>2 DEF OneHolder
<1>7. HeldIsToCome'
  BY <1>2 DEF HeldIsToCome
<1>8. NoneForgotten'
  <2> SUFFICES ASSUME NEW k \in Products, NEW c \in 0 .. Chunks(n_graph.n) - 1
               PROVE  \/ <<k, "product", c>> \in finished
                      \/ \E u \in Members : Holds(u, k, c)'
                      \/ /\ c >= n_graph.n
                         /\ \A u \in Members : Progress(u)' < 5 * k + 4
                         /\ Progress(0)' >= 5 * k + 2 => c >= current_chunk
    BY DEF NoneForgotten
  <2>1. CASE <<k, "product", c>> \in finished
    BY <2>1
  <2>2. CASE \E u \in Members : Holds(u, k, c)
    <3>1. PICK u \in Members : Holds(u, k, c)
      BY <2>2
    <3>2. ~(u = t /\ k = m)
      BY <1>3, <3>1
    <3> QED BY <1>2, <3>1, <3>2
  <2>3. CASE /\ c >= n_graph.n
             /\ \A u \in Members : Progress(u) < 5 * k + 4
             /\ Progress(0) >= 5 * k + 2 => c >= current_chunk
    <3>1. k # m
      BY <1>0, <1>4, <2>3
    <3>2. \A u \in Members : Progress(u)' < 5 * k + 4
      BY <1>1, <2>3, <3>1
    <3>3. Progress(0)' >= 5 * k + 2 => Progress(0) >= 5 * k + 2
      BY <1>1
    <3> QED BY <2>3, <3>2, <3>3
  <2> QED BY <2>1, <2>2, <2>3 DEF NoneForgotten
<1>9. FinishedWasGiven'
  <2> SUFFICES ASSUME NEW k \in Products, NEW c \in Nat, <<k, "product", c>> \in finished, c >= n_graph.n
               PROVE  /\ Progress(0)' >= 5 * k + 2
                      /\ (\E u \in Members : Progress(u)' < 5 * k + 4) => c < current_chunk
    BY DEF FinishedWasGiven
  <2>1. Progress(0) >= 5 * k + 2 => Progress(0)' >= 5 * k + 2
    BY <1>1
  <2>2. (\E u \in Members : Progress(u)' < 5 * k + 4) => \E u \in Members : Progress(u) < 5 * k + 4
    BY <1>1
  <2> QED BY <2>1, <2>2 DEF FinishedWasGiven
<1>10. HeldWasGiven'
  <2> SUFFICES ASSUME NEW k \in Products, NEW u \in Members, Progress(u)' = 5 * k + 3, pc'[u] # "fetch"
               PROVE  chunk'[u] = u \/ (n_graph.n <= chunk'[u] /\ chunk'[u] < current_chunk)
    BY DEF HeldWasGiven
  <2>1. u # t
    BY <1>1
  <2> QED BY <2>1 DEF HeldWasGiven
<1>11. CounterIsSet'
  BY <1>1 DEF CounterIsSet
<1> QED BY <1>5, <1>6, <1>7, <1>8, <1>9, <1>10, <1>11

-----------------------------------------------------------------------------
(***************************************************************************)
(* The steps of the threads.                                               *)
(***************************************************************************)
LEMMA ThreadsStay ==
  ASSUME PoolInv, PoolInv', ThreadsInv, InGraph, NEW t \in Threads, RestStays(t),
         UNCHANGED <<abort, ec>>, pc'[0] # "kickoff", t \in Members => ThreadOK(t)'
  PROVE  ThreadsInv'
<1>1. Members' = Members /\ Members \subseteq Threads
  BY RestKeeps DEF Members
<1>2. \A u \in Members : ThreadOK(u)'
  BY <1>1, RestKeeps DEF ThreadsInv
<1> QED BY <1>1, <1>2 DEF ThreadsInv

LEMMA WorkStays ==
  ASSUME PoolInv, PoolInv', WorkInv, InGraph, NEW t \in Threads, RestStays(t),
         UNCHANGED <<abort, ec, finished, current_chunk>>, pc'[0] # "kickoff",
         t \in Members => ThreadOK(t)' /\ Idles(t)
  PROVE  WorkInv'
BY ThreadsStay, PiecesStay DEF WorkInv

\* A thread at a node of the graph, and where a step leads it.
LEMMA AtNode ==
  ASSUME PoolInv, ThreadsInv, InGraph, NEW t \in Threads, pc[t] \in Computing \ {"enter"}, ~Stale(t)
  PROVE  /\ t \in Members /\ ~ToBegin(t) /\ ThreadOK(t) /\ nth[t] = n_graph.n /\ PlaceOK(t)
         /\ Progress(t) = 5 * node[t] + Stage(t) /\ Stage(t) \in 0 .. 4
         /\ node[t] \in 0 .. NNodes /\ NNodes \in Nat /\ abort \in -1 .. NNodes
         /\ t \in Nat /\ chunk[t] \in Nat /\ n_graph.n \in Nat /\ t < n_graph.n
<1>1. t \in Members /\ ~ToBegin(t)
  BY InsideIsMember
<1>2. ThreadOK(t) /\ PlaceOK(t)
  BY <1>1 DEF ThreadsInv, PoolInv
<1>3. nth[t] = n_graph.n
  BY <1>1, <1>2 DEF ThreadOK
<1>4. /\ Progress(t) = 5 * node[t] + Stage(t) /\ Stage(t) \in 0 .. 4
      /\ node[t] \in 0 .. NNodes /\ NNodes \in Nat /\ chunk[t] \in Nat
  BY <1>1, ProgressIs, Pool
<1>5. abort \in -1 .. NNodes /\ t \in Nat /\ n_graph.n \in Nat /\ t < n_graph.n
  BY <1>1, Pool, MembersAre DEF PoolInv, TypeOK, PoolTyped, Members
<1> QED BY <1>1, <1>2, <1>3, <1>4, <1>5

LEMMA ToNode ==
  ASSUME NEW t \in Threads, RestStays(t), ~ToBegin(t), UNCHANGED <<last_graph, pending>>,
         pc'[t] \in Computing \union WorkerPlaces \union {"computed"}, pc'[t] # "enter"
  PROVE  ~ToBegin(t)' /\ Progress(t)' = 5 * node'[t] + Stage(t)'
<1>1. ~ToBegin(t)'
  BY DEF ToBegin, RestStays, Computing, WorkerPlaces
<1> QED BY <1>1 DEF Progress

LEMMA EnterWorks ==
  ASSUME PoolInv, PoolInv', WorkInv, InGraph, NEW t \in Threads, EnterGraph(t)
  PROVE  WorkInv'
<1>1. /\ pc[t] = "enter" /\ pc'[t] = "node" /\ node'[t] = 0 /\ nth'[t] = n_graph.n
      /\ RestStays(t) /\ n_graph' = n_graph
      /\ UNCHANGED <<abort, ec, finished, current_chunk, last_graph, pending>>
  BY DEF EnterGraph, Goto, RestStays, poolVars, stateVars, PoolInv, TypeOK, ThreadsTyped
<1>2. ~ToBegin(t) /\ ~ToBegin(t)' /\ Progress(t) = 0
  BY <1>1, OutsideBarrier, InsideIsMember, ToNode, ProgressIs DEF Computing
<1>3. Progress(t)' = 0 /\ NNodes \in Nat /\ abort \in -1 .. NNodes
  <2>1. Progress(t)' = 5 * node'[t] + Stage(t)' /\ Stage(t)' = 0
    BY <1>1, <1>2, ToNode DEF Stage, Computing
  <2> QED BY <1>1, <2>1, Pool DEF PoolInv, TypeOK, PoolTyped
<1>4. ThreadOK(t)'
  BY <1>1, <1>3 DEF ThreadOK, Computing
<1>5. Idles(t)
  BY <1>2, <1>3, ProductsAre DEF Idles
<1>6. pc'[0] # "kickoff"
  BY <1>1, Pool DEF RestStays, InGraph, Computing
<1> QED BY <1>1, <1>4, <1>5, <1>6, WorkStays

LEMMA LeaveWorks ==
  ASSUME PoolInv, PoolInv', WorkInv, InGraph, NEW t \in Threads, LeaveLoop(t)
  PROVE  WorkInv'
<1>1. /\ pc[t] = "node" /\ pc'[t] = "barrier" /\ ret'[t] = "computed" /\ LoopEnds(t)
      /\ node'[t] = node[t] /\ nth'[t] = nth[t] /\ RestStays(t)
      /\ UNCHANGED <<n_graph, abort, ec, finished, current_chunk, last_graph, pending>>
  BY DEF LeaveLoop, GotoBarrier, Goto, RestStays, poolVars, stateVars, PoolInv, TypeOK, ThreadsTyped
<1>2. /\ ThreadOK(t) /\ nth[t] = n_graph.n /\ ~ToBegin(t) /\ Progress(t) = 5 * node[t]
      /\ node[t] \in 0 .. NNodes /\ NNodes \in Nat
  <2>1. Stage(t) = 0
    BY <1>1 DEF Stage
  <2> QED BY <1>1, <2>1, OutsideBarrier, AtNode DEF Computing, WorkInv
<1>3. Progress(t)' = 5 * node[t] /\ ~ToBegin(t)'
  <2>1. Stage(t)' = 0
    BY <1>1 DEF Stage
  <2> QED BY <1>1, <1>2, <2>1, ToNode DEF Computing
<1>4. ThreadOK(t)'
  BY <1>1, <1>2, <1>3 DEF ThreadOK, Computing, LoopEnds
<1>5. Idles(t)
  BY <1>2, <1>3, ProductsAre DEF Idles
<1>6. pc'[0] # "kickoff"
  BY <1>1, Pool DEF RestStays, InGraph, Computing
<1> QED BY <1>1, <1>4, <1>5, <1>6, WorkStays

LEMMA SkipWorks ==
  ASSUME PoolInv, PoolInv', WorkInv, InGraph, NEW t \in Threads, SkipNode(t)
  PROVE  WorkInv'
<1>1. /\ pc[t] = "node" /\ pc'[t] = "node" /\ ~LoopEnds(t) /\ Kind(node[t]) = "empty"
      /\ node'[t] = node[t] + 1 /\ nth'[t] = nth[t] /\ RestStays(t)
      /\ UNCHANGED <<n_graph, abort, ec, finished, current_chunk, last_graph, pending>>
  BY DEF SkipNode, RestStays, poolVars, stateVars, PoolInv, TypeOK, ThreadsTyped
<1>2. /\ ThreadOK(t) /\ nth[t] = n_graph.n /\ ~ToBegin(t) /\ Progress(t) = 5 * node[t]
      /\ node[t] \in 0 .. NNodes /\ NNodes \in Nat /\ abort \in -1 .. NNodes
  <2>1. Stage(t) = 0
    BY <1>1 DEF Stage
  <2> QED BY <1>1, <2>1, OutsideBarrier, AtNode DEF Computing, WorkInv
<1>3. Progress(t)' = 5 * node[t] + 5 /\ ~ToBegin(t)'
  <2>1. Stage(t)' = 0
    BY <1>1 DEF Stage
  <2>2. Progress(t)' = 5 * (node[t] + 1) /\ ~ToBegin(t)'
    BY <1>1, <1>2, <2>1, ToNode DEF Computing
  <2> QED BY <1>2, <2>2
<1>4. ThreadOK(t)'
  <2>1. 5 * node[t] + 5 <= 5 * NNodes /\ (abort # -1 => 5 * node[t] + 5 <= 5 * abort)
    BY <1>1, <1>2 DEF LoopEnds, ThreadOK
  <2> QED BY <1>1, <1>2, <1>3, <2>1 DEF ThreadOK, Computing
<1>5. Idles(t)
  BY <1>1, <1>2, <1>3 DEF Idles, Working
<1>6. pc'[0] # "kickoff"
  BY <1>1, Pool DEF RestStays, InGraph, Computing
<1> QED BY <1>1, <1>4, <1>5, <1>6, WorkStays

LEMMA BeginWorks ==
  ASSUME PoolInv, PoolInv', WorkInv, InGraph, NEW t \in Threads, BeginNode(t)
  PROVE  WorkInv'
<1>1. /\ pc[t] = "node" /\ pc'[t] = "piece" /\ ~LoopEnds(t) /\ phase'[t] # "product"
      /\ chunk'[t] = t /\ node'[t] = node[t] /\ nth'[t] = nth[t] /\ RestStays(t)
      /\ UNCHANGED <<n_graph, abort, ec, finished, current_chunk, last_graph, pending>>
  BY DEF BeginNode, Goto, RestStays, poolVars, stateVars, PoolInv, TypeOK, ThreadsTyped
<1>2. /\ ThreadOK(t) /\ nth[t] = n_graph.n /\ ~ToBegin(t) /\ Progress(t) = 5 * node[t]
      /\ node[t] \in 0 .. NNodes /\ NNodes \in Nat /\ abort \in -1 .. NNodes
  <2>1. Stage(t) = 0
    BY <1>1 DEF Stage
  <2> QED BY <1>1, <2>1, OutsideBarrier, AtNode DEF Computing, WorkInv
<1>3. Progress(t)' = 5 * node[t] /\ ~ToBegin(t)'
  <2>1. Stage(t)' = 0
    BY <1>1 DEF Stage
  <2> QED BY <1>1, <1>2, <2>1, ToNode DEF Computing
<1>4. ThreadOK(t)'
  <2>1. abort # -1 => node[t] < abort
    BY <1>1, <1>2 DEF LoopEnds, ThreadOK
  <2> QED BY <1>1, <1>2, <1>3, <2>1 DEF ThreadOK, Computing
<1>5. Idles(t)
  BY <1>2, <1>3, ProductsAre DEF Idles
<1>6. pc'[0] # "kickoff"
  BY <1>1, Pool DEF RestStays, InGraph, Computing
<1> QED BY <1>1, <1>4, <1>5, <1>6, WorkStays

LEMMA EndWorks ==
  ASSUME PoolInv, PoolInv', WorkInv, InGraph, NEW t \in Threads, EndPiece(t)
  PROVE  WorkInv'
<1>1. /\ pc[t] = "piece" /\ phase'[t] = phase[t] /\ chunk'[t] = chunk[t] /\ node'[t] = node[t]
      /\ nth'[t] = nth[t] /\ RestStays(t) /\ finished' = finished \union {<<node[t], phase[t], chunk[t]>>}
      /\ UNCHANGED <<n_graph, abort, ec, current_chunk, last_graph, pending>>
  BY DEF EndPiece, GotoBarrier, Goto, RestStays, stateVars, PoolInv, TypeOK, ThreadsTyped
<1>2. /\ t \in Members /\ ThreadOK(t) /\ nth[t] = n_graph.n /\ ~ToBegin(t) /\ PlaceOK(t)
      /\ Progress(t) = 5 * node[t] + Stage(t)
      /\ node[t] \in 0 .. NNodes /\ NNodes \in Nat /\ abort \in -1 .. NNodes
      /\ t \in Nat /\ chunk[t] \in Nat /\ n_graph.n \in Nat /\ t < n_graph.n
  BY <1>1, OutsideBarrier, AtNode DEF Computing, WorkInv
<1>3. /\ node[t] \in Working /\ node[t] < NNodes /\ (abort # -1 => node[t] < abort)
      /\ phase[t] \in {"rows", "convert", "product"}
      /\ phase[t] = "rows" <=> node[t] \notin Products
  <2>1. node[t] < NNodes /\ Kind(node[t]) # "empty" /\ (phase[t] = "rows" <=> Kind(node[t]) = "rows")
    BY <1>1, <1>2 DEF PlaceOK
  <2>2. node[t] \in 0 .. NNodes - 1
    BY <1>2, <2>1
  <2>3. Kind(node[t]) \in {"rows", "mul_mat"}
    BY <2>1, <2>2, Pool
  <2>4. phase[t] \in {"rows", "convert", "product"}
    BY <1>2 DEF Members, PoolInv, TypeOK, ThreadsTyped
  <2>5. abort # -1 => node[t] < abort
    BY <1>1, <1>2 DEF ThreadOK
  <2> QED BY <2>1, <2>2, <2>3, <2>4, <2>5 DEF Working, Products
<1>4. pc'[t] = IF phase[t] = "rows" THEN "after"
               ELSE IF phase[t] = "convert" THEN IF t = 0 THEN "set_chunk" ELSE "barrier"
               ELSE IF n_graph.n >= Chunks(n_graph.n) THEN "after" ELSE "fetch"
  <2>0. pc \in [Threads -> Places]
    BY DEF PoolInv, TypeOK, ThreadsTyped
  <2>1. CASE phase[t] = "rows"
    BY <2>0, <2>1 DEF EndPiece, Goto
  <2>2. CASE phase[t] = "convert"
    BY <2>0, <2>2 DEF EndPiece, GotoBarrier, Goto
  <2>3. CASE phase[t] = "product"
    BY <1>2, <2>0, <2>3 DEF EndPiece, Goto
  <2> QED BY <1>3, <2>1, <2>2, <2>3
<1>5. pc'[t] = "barrier" => ret'[t] = "chunks"
  BY <1>4 DEF EndPiece, GotoBarrier, PoolInv, TypeOK, ThreadsTyped
<1>6. ~ToBegin(t)' /\ Progress(t)' = 5 * node[t] + Stage(t)'
  BY <1>1, <1>2, <1>4, ToNode DEF Computing
<1>7. Stage(t)' = IF phase[t] = "rows" THEN 4
                  ELSE IF phase[t] = "convert" THEN IF t = 0 THEN 1 ELSE 2
                  ELSE IF n_graph.n >= Chunks(n_graph.n) THEN 4 ELSE 3
  BY <1>1, <1>3, <1>4, <1>5 DEF Stage
<1>8. ThreadOK(t)'
  <2>1. Progress(t)' <= 5 * NNodes /\ (abort # -1 => Progress(t)' <= 5 * abort)
    BY <1>2, <1>3, <1>6, <1>7
  <2>2. pc'[t] \in Computing /\ pc'[t] # "piece" /\ (pc'[t] = "barrier" => ret'[t] # "computed")
    BY <1>4, <1>5 DEF Computing
  <2> QED BY <1>1, <1>2, <2>1, <2>2 DEF ThreadOK
<1>9. pc'[0] # "kickoff"
  BY <1>1, <1>4, Pool DEF RestStays, InGraph, Computing
<1>10. ThreadsInv'
  BY <1>1, <1>8, <1>9, ThreadsStay DEF WorkInv
<1>11. PiecesInv'
  <2>1. CASE phase[t] # "product"
    <3>1. Progress(t) = 5 * node[t] /\ chunk[t] = t
      BY <1>1, <1>2, <2>1 DEF Stage, ThreadOK
    <3>2. phase[t] = First(node[t])
      BY <1>3, <2>1 DEF First, Products, Working
    <3>3. <<node[t], First(node[t]), t>> \in AllPieces(n_graph.n)
      BY <1>2, <1>3, PiecesAre
    <3> QED BY <1>1, <1>2, <1>3, <1>6, <1>7, <2>1, <3>1, <3>2, <3>3, OwnPieceCounts DEF WorkInv
  <2>2. CASE phase[t] = "product"
    <3>1. Progress(t) = 5 * node[t] + 3
      BY <1>1, <1>2, <2>2 DEF Stage
    <3>2. <<node[t], "product", chunk[t]>> \in AllPieces(n_graph.n)
      <4>1. chunk[t] \in 0 .. Chunks(n_graph.n) - 1
        <5>1. Chunks(n_graph.n) \in Nat /\ chunk[t] < Chunks(n_graph.n)
          BY <1>1, <1>2, <2>2, WorkFacts DEF ThreadOK, WorkInv
        <5> QED BY <1>2, <5>1
      <4> QED BY <1>2, <1>3, <2>2, <4>1, PiecesAre
    <3> QED BY <1>1, <1>2, <1>3, <1>4, <1>6, <1>7, <2>2, <3>1, <3>2, ChunkCounts DEF WorkInv
  <2> QED BY <2>1, <2>2
<1> QED BY <1>10, <1>11 DEF WorkInv

LEMMA SetChunkWorks ==
  ASSUME PoolInv, PoolInv', WorkInv, InGraph, NEW t \in Threads, SetChunk(t)
  PROVE  WorkInv'
<1>1. /\ pc[t] = "set_chunk" /\ pc'[t] = "barrier" /\ ret'[t] = "chunks" /\ node'[t] = node[t]
      /\ nth'[t] = nth[t] /\ RestStays(t) /\ current_chunk' = nth[t]
      /\ UNCHANGED <<n_graph, abort, ec, finished, last_graph, pending>>
  BY DEF SetChunk, GotoBarrier, Goto, RestStays, stateVars, PoolInv, TypeOK, ThreadsTyped
<1>2. /\ t \in Members /\ ThreadOK(t) /\ nth[t] = n_graph.n /\ ~ToBegin(t) /\ PlaceOK(t)
      /\ Progress(t) = 5 * node[t] + Stage(t)
      /\ node[t] \in 0 .. NNodes /\ NNodes \in Nat
  BY <1>1, OutsideBarrier, AtNode DEF Computing, WorkInv
<1>3. t = 0 /\ node[t] \in Products /\ node[t] < NNodes /\ abort = -1 /\ Progress(t) = 5 * node[t] + 1
  BY <1>1, <1>2, Pool DEF PlaceOK, Products, PoolInv, CallerOK, Stage
<1>4. ~ToBegin(t)' /\ Progress(t)' = 5 * node[t] + 2
  <2>1. Stage(t)' = 2
    BY <1>1 DEF Stage
  <2> QED BY <1>1, <1>2, <2>1, ToNode DEF Computing
<1>5. ThreadOK(t)'
  <2>1. Progress(t)' <= 5 * NNodes
    BY <1>2, <1>3, <1>4
  <2> QED BY <1>1, <1>2, <1>3, <2>1 DEF ThreadOK, Computing
<1>6. ThreadsInv'
  BY <1>1, <1>3, <1>5, ThreadsStay DEF WorkInv
<1>7. PiecesInv'
  BY <1>1, <1>2, <1>3, <1>4, CounterStarts DEF WorkInv
<1> QED BY <1>6, <1>7 DEF WorkInv

LEMMA FetchWorks ==
  ASSUME PoolInv, PoolInv', WorkInv, InGraph, NEW t \in Threads, FetchChunk(t)
  PROVE  WorkInv'
<1>1. /\ pc[t] = "fetch" /\ pc'[t] = "chunks" /\ node'[t] = node[t] /\ chunk'[t] = current_chunk
      /\ nth'[t] = nth[t] /\ RestStays(t) /\ current_chunk' = current_chunk + 1
      /\ UNCHANGED <<n_graph, abort, ec, finished, last_graph, pending>>
  BY DEF FetchChunk, Goto, RestStays, stateVars, PoolInv, TypeOK, ThreadsTyped
<1>2. /\ t \in Members /\ ThreadOK(t) /\ nth[t] = n_graph.n /\ ~ToBegin(t) /\ PlaceOK(t)
      /\ Progress(t) = 5 * node[t] + Stage(t)
      /\ node[t] \in 0 .. NNodes /\ NNodes \in Nat
  BY <1>1, OutsideBarrier, AtNode DEF Computing, WorkInv
<1>3. node[t] \in Products /\ Progress(t) = 5 * node[t] + 3
  BY <1>1, <1>2 DEF PlaceOK, Products, Stage
<1>4. ~ToBegin(t)' /\ Progress(t)' = 5 * node[t] + 3
  <2>1. Stage(t)' = 3
    BY <1>1 DEF Stage
  <2> QED BY <1>1, <1>2, <2>1, ToNode DEF Computing
<1>5. ThreadOK(t)'
  BY <1>1, <1>2, <1>3, <1>4 DEF ThreadOK, Computing
<1>6. pc'[0] # "kickoff"
  BY <1>1, Pool DEF RestStays, InGraph, Computing
<1>7. ThreadsInv'
  BY <1>1, <1>5, <1>6, ThreadsStay DEF WorkInv
<1>8. PiecesInv'
  BY <1>1, <1>2, <1>3, <1>4, ChunkIsGiven DEF WorkInv
<1> QED BY <1>7, <1>8 DEF WorkInv

LEMMA BeginChunkWorks ==
  ASSUME PoolInv, PoolInv', WorkInv, InGraph, NEW t \in Threads, BeginChunk(t)
  PROVE  WorkInv'
<1>1. /\ pc[t] = "chunks" /\ node'[t] = node[t] /\ chunk'[t] = chunk[t]
      /\ nth'[t] = nth[t] /\ RestStays(t)
      /\ UNCHANGED <<n_graph, abort, ec, finished, current_chunk, last_graph, pending>>
      /\ \/ chunk[t] < Chunks(nth[t]) /\ pc'[t] = "piece" /\ phase'[t] = "product"
         \/ ~(chunk[t] < Chunks(nth[t])) /\ pc'[t] = "after"
  BY DEF BeginChunk, Goto, RestStays, poolVars, stateVars, PoolInv, TypeOK, ThreadsTyped
<1>2. /\ t \in Members /\ ThreadOK(t) /\ nth[t] = n_graph.n /\ ~ToBegin(t) /\ PlaceOK(t)
      /\ Progress(t) = 5 * node[t] + Stage(t) /\ chunk[t] \in Nat
      /\ node[t] \in 0 .. NNodes /\ NNodes \in Nat /\ abort \in -1 .. NNodes
  BY <1>1, OutsideBarrier, AtNode DEF Computing, WorkInv
<1>3. node[t] \in Products /\ Progress(t) = 5 * node[t] + 3 /\ (abort # -1 => node[t] < abort)
  <2>1. node[t] \in Products /\ Progress(t) = 5 * node[t] + 3
    BY <1>1, <1>2 DEF PlaceOK, Products, Stage
  <2> QED BY <1>2, <2>1 DEF ThreadOK
<1>4. ~ToBegin(t)' /\ Progress(t)' = 5 * node[t] + Stage(t)'
  BY <1>1, <1>2, ToNode DEF Computing
<1>5. pc'[0] # "kickoff"
  BY <1>1, Pool DEF RestStays, InGraph, Computing
<1>6. CASE chunk[t] < Chunks(nth[t])
  <2>1. Stage(t)' = 3 /\ pc'[t] = "piece" /\ phase'[t] = "product"
    BY <1>1, <1>6 DEF Stage
  <2>2. ThreadOK(t)'
    BY <1>1, <1>2, <1>3, <1>4, <1>6, <2>1 DEF ThreadOK, Computing
  <2>3. Idles(t)
    BY <1>1, <1>3, <1>4, <2>1 DEF Idles
  <2> QED BY <1>1, <1>5, <2>2, <2>3, WorkStays
<1>7. CASE ~(chunk[t] < Chunks(nth[t]))
  <2>1. Stage(t)' = 4 /\ pc'[t] = "after"
    BY <1>1, <1>7 DEF Stage
  <2>2. ThreadOK(t)'
    <3>1. Progress(t)' <= 5 * NNodes /\ (abort # -1 => Progress(t)' <= 5 * abort)
      BY <1>2, <1>3, <1>4, <2>1, ProductsAre
    <3> QED BY <1>1, <1>2, <2>1, <3>1 DEF ThreadOK, Computing
  <2>3. ThreadsInv'
    BY <1>1, <1>5, <2>2, ThreadsStay DEF WorkInv
  <2>4. chunk[t] >= Chunks(n_graph.n)
    <3>1. Chunks(n_graph.n) \in Nat
      BY <1>1, <1>2, WorkFacts DEF WorkInv
    <3> QED BY <1>2, <1>7, <3>1
  <2>5. PiecesInv'
    BY <1>1, <1>2, <1>3, <1>4, <2>1, <2>4, NoChunkIsLeft DEF WorkInv
  <2> QED BY <2>3, <2>5 DEF WorkInv
<1> QED BY <1>6, <1>7

LEMMA AfterNodeWorks ==
  ASSUME PoolInv, PoolInv', WorkInv, InGraph, NEW t \in Threads, AfterNode(t)
  PROVE  WorkInv'
<1>1. /\ pc[t] = "after" /\ nth'[t] = nth[t] /\ RestStays(t)
      /\ UNCHANGED <<n_graph, finished, current_chunk, last_graph, pending>>
      /\ \/ node[t] + 1 < NNodes /\ pc'[t] = "barrier" /\ ret'[t] = "node" /\ node'[t] = node[t]
         \/ ~(node[t] + 1 < NNodes) /\ pc'[t] = "node" /\ node'[t] = node[t] + 1
      /\ \/ t = 0 /\ abort' = node[t] + 1 /\ ec' = "aborted"
         \/ UNCHANGED <<abort, ec>>
  BY DEF AfterNode, GotoBarrier, Goto, RestStays, stateVars, PoolInv, TypeOK, ThreadsTyped
<1>2. /\ t \in Members /\ ThreadOK(t) /\ nth[t] = n_graph.n /\ ~ToBegin(t) /\ PlaceOK(t)
      /\ Progress(t) = 5 * node[t] + Stage(t)
      /\ node[t] \in 0 .. NNodes /\ NNodes \in Nat /\ abort \in -1 .. NNodes
  BY <1>1, OutsideBarrier, AtNode DEF Computing, WorkInv
<1>3. /\ node[t] \in Working /\ node[t] \in 0 .. NNodes - 1 /\ Progress(t) = 5 * node[t] + 4
  <2>1. node[t] < NNodes /\ Kind(node[t]) # "empty" /\ Stage(t) = 4
    BY <1>1, <1>2 DEF PlaceOK, Stage
  <2> QED BY <1>2, <2>1 DEF Working
<1>4. ~ToBegin(t)' /\ Progress(t)' = 5 * node'[t] + Stage(t)'
  BY <1>1, <1>2, ToNode DEF Computing
<1>5. \/ Progress(t)' = 5 * node[t] + 4 /\ node[t] + 1 < NNodes
      \/ Progress(t)' = 5 * node[t] + 5
  <2>1. CASE pc'[t] = "barrier"
    <3>1. Stage(t)' = 4
      BY <1>1, <2>1 DEF Stage
    <3> QED BY <1>1, <1>4, <2>1, <3>1
  <2>2. CASE pc'[t] = "node"
    <3>1. Stage(t)' = 0
      BY <1>1, <2>2 DEF Stage
    <3> QED BY <1>1, <1>3, <1>4, <2>2, <3>1
  <2> QED BY <1>1, <2>1, <2>2
<1>6. Idles(t)
  <2>1. CASE Progress(t)' = Progress(t)
    <3>1. \A m \in Products : Progress(t) # 5 * m + 3
      BY <1>3, ProductsAre
    <3> QED BY <2>1, <3>1 DEF Idles
  <2>2. CASE Progress(t)' = 5 * node[t] + 5
    BY <1>3, <2>2 DEF Idles
  <2> QED BY <1>3, <1>5, <2>1, <2>2
<1>7. pc'[0] # "kickoff"
  BY <1>1, Pool DEF RestStays, InGraph, Computing
<1>8. /\ nth'[t] = n_graph'.n /\ pc'[t] \in Computing /\ pc'[t] # "piece"
      /\ pc'[t] = "barrier" => ret'[t] # "computed"
      /\ Progress(t)' <= 5 * NNodes
  BY <1>1, <1>2, <1>3, <1>5 DEF Computing
<1>9. CASE UNCHANGED <<abort, ec>>
  <2>1. abort # -1 => Progress(t)' <= 5 * abort
    BY <1>2, <1>3, <1>5 DEF ThreadOK
  <2>2. ThreadOK(t)'
    BY <1>8, <1>9, <2>1 DEF ThreadOK
  <2> QED BY <1>1, <1>6, <1>7, <1>9, <2>2, WorkStays
<1>10. CASE t = 0 /\ abort' = node[t] + 1 /\ ec' = "aborted"
  <2>1. abort = -1
    BY <1>1, <1>10 DEF PoolInv, CallerOK
  <2>2. Members' = Members /\ Members \subseteq Threads
    BY RestKeeps, <1>1 DEF Members
  <2>3. ASSUME NEW u \in Members, u # t PROVE ThreadOK(u)'
    <3>1. /\ pc'[u] = pc[u] /\ node'[u] = node[u] /\ phase'[u] = phase[u] /\ ret'[u] = ret[u]
          /\ chunk'[u] = chunk[u] /\ nth'[u] = nth[u] /\ n_graph' = n_graph
          /\ ToBegin(u)' = ToBegin(u) /\ Progress(u)' = Progress(u)
      BY <1>1, <2>2, <2>3, RestKeeps DEF RestStays
    <3>2. /\ ThreadOK(u) /\ PlaceOK(u) /\ node[u] \in 0 .. NNodes /\ Progress(u) \in Nat
          /\ ~ToBegin(u) /\ pc[u] # "enter" => Progress(u) = 5 * node[u] + Stage(u) /\ Stage(u) \in 0 .. 4
      BY <2>2, ProgressIs DEF WorkInv, ThreadsInv, PoolInv
    <3>3. Progress(u) < 5 * node[t] + 5 \/ node[t] + 1 = NNodes
      <4> SUFFICES ASSUME Progress(u) >= 5 * node[t] + 5, node[t] + 1 # NNodes PROVE FALSE
        BY <1>3, <3>2
      <4>1. Level(u) > LevelOf(node[t])
        BY <1>3, <3>2, LevelTellsProgress
      <4>2. LevelOf(node[t]) \in Walls
        <5>1. node[t] \in 0 .. NNodes - 2 /\ Kind(node[t]) # "empty"
          BY <1>2, <1>3 DEF Working
        <5> QED BY <5>1, WallsAre
      <4>3. Level(t) > LevelOf(node[t])
        BY <1>2, <4>1, <4>2 DEF PoolInv, InStep, Same
      <4>4. Level(t) = LevelOf(node[t])
        BY <1>1, <1>2 DEF Level, LevelInside, Computing
      <4>5. LevelOf(node[t]) \in Int
        BY <1>3, ProductsAre
      <4> QED BY <4>3, <4>4, <4>5
    <3>4. Progress(u) <= 5 * abort'
      BY <1>3, <1>10, <3>2, <3>3 DEF ThreadOK
    <3>5. pc[u] = "piece" => node[u] < abort'
      <4>1. pc[u] = "piece" => ~ToBegin(u) /\ node[u] < NNodes
        <5>1. pc[u] = "piece" => ~ToBegin(u)
          BY <2>2, OutsideBarrier, InsideIsMember DEF Computing
        <5> QED BY <3>2, <5>1 DEF PlaceOK
      <4>2. pc[u] = "piece" => 5 * node[u] <= Progress(u)
        BY <3>2, <4>1
      <4> QED BY <1>3, <1>10, <3>2, <3>3, <4>1, <4>2
    <3>6. /\ ~ToBegin(u)
          /\ pc[u] \notin Computing \/ (pc[u] = "barrier" /\ ret[u] = "computed")
          => node[u] = NNodes
      BY <2>1, <3>2 DEF ThreadOK
    <3> QED BY <3>1, <3>2, <3>4, <3>5, <3>6 DEF ThreadOK
  <2>4. ThreadOK(t)'
    <3>1. abort' # -1 => Progress(t)' <= 5 * abort'
      BY <1>3, <1>5, <1>10
    <3> QED BY <1>8, <3>1 DEF ThreadOK
  <2>5. ThreadsInv'
    <3>1. ec' = "aborted" /\ abort' # -1
      BY <1>3, <1>10
    <3> QED BY <1>7, <2>2, <2>3, <2>4, <3>1 DEF ThreadsInv
  <2>6. PiecesInv'
    BY <1>1, <1>6, PiecesStay DEF WorkInv
  <2> QED BY <2>5, <2>6 DEF WorkInv
<1> QED BY <1>1, <1>9, <1>10

\* The barrier keeps or lets go; a worker that leaves the graph may have been late for it.
LEMMA BarrierWorks ==
  ASSUME PoolInv, PoolInv', WorkInv, InGraph, NEW t \in Threads,
         PassAlone(t) \/ EnterBarrier(t) \/ InBarrier(t) \/ LeaveBarrier(t)
  PROVE  WorkInv'
<1>1. CASE EnterBarrier(t) \/ InBarrier(t)
  <2>1. UNCHANGED <<poolVars, stateVars, localVars>>
    BY <1>1 DEF EnterBarrier, InBarrier
  <2>2. RestStays(t) /\ pc'[0] # "kickoff"
    BY <2>1 DEF RestStays, InGraph, Computing, poolVars, stateVars, localVars
  <2>3. ToBegin(t)' = ToBegin(t) /\ Stage(t)' = Stage(t)
    BY <2>1 DEF ToBegin, Stage, poolVars, stateVars, localVars
  <2>4. Progress(t)' = Progress(t)
    BY <2>1, <2>3 DEF Progress, localVars
  <2>5. ThreadOK(t)' = ThreadOK(t) /\ Idles(t)
    BY <2>1, <2>3, <2>4 DEF ThreadOK, Idles, poolVars, localVars
  <2> QED BY <2>1, <2>2, <2>5, WorkStays DEF poolVars, WorkInv, ThreadsInv
<1>2. CASE PassAlone(t) \/ LeaveBarrier(t)
  <2>1. pc[t] = "barrier" /\ AfterBarrier(t)
    BY <1>2 DEF PassAlone, LeaveBarrier
  <2>2. /\ nth'[t] = nth[t] /\ RestStays(t) /\ phase'[t] = phase[t]
        /\ UNCHANGED <<n_graph, abort, ec, finished, current_chunk, last_graph, pending>>
        /\ ret[t] = "chunks" => pc'[t] = "chunks" /\ node'[t] = node[t] /\ chunk'[t] = t
        /\ ret[t] = "node" => pc'[t] = "node" /\ node'[t] = node[t] + 1
        /\ ret[t] = "computed" => /\ pc'[t] = IF t = 0 THEN "computed" ELSE "pause_loop"
                                  /\ node'[t] = node[t]
    BY <2>1 DEF AfterBarrier, Goto, RestStays, poolVars, stateVars, PoolInv, TypeOK, ThreadsTyped
  <2>3. pc'[0] # "kickoff" /\ ret[t] \in {"computed", "node", "chunks"} /\ Members' = Members
    BY <2>1, <2>2, Pool, RestKeeps DEF RestStays, InGraph, Computing, PoolInv, TypeOK, ThreadsTyped
  <2>4. CASE ret[t] = "computed"
    <3>1. ToBegin(t)' = ToBegin(t)
      BY <2>1, <2>2, <2>4 DEF ToBegin
    <3>2. Stage(t)' = 0 /\ Stage(t) = 0
      BY <2>1, <2>2, <2>4 DEF Stage
    <3>3. Progress(t)' = Progress(t)
      BY <2>1, <2>2, <2>4, <3>1, <3>2 DEF Progress
    <3>4. ASSUME t \in Members PROVE ThreadOK(t)'
      <4>1. ThreadOK(t)
        BY <3>4 DEF WorkInv, ThreadsInv
      <4>2. ~ToBegin(t) => nth[t] = n_graph.n /\ node[t] \in {NNodes, abort}
        BY <2>1, <2>4, <4>1 DEF ThreadOK
      <4> QED BY <2>1, <2>2, <2>4, <3>1, <3>3, <4>1, <4>2 DEF ThreadOK
    <3>5. ASSUME t \in Members PROVE Idles(t)
      <4>1. ASSUME NEW m \in Products PROVE Progress(t) # 5 * m + 3
        <5>1. Progress(t) = 0 \/ Progress(t) = 5 * node[t]
          BY <2>1, <3>2, ProgressIs
        <5>2. node[t] \in Nat /\ m \in Nat
          BY ProgressIs, ProductsAre
        <5> QED BY <5>1, <5>2
      <4> QED BY <3>3, <4>1 DEF Idles
    <3> QED BY <2>2, <2>3, <3>4, <3>5, WorkStays
  <2>5. CASE ret[t] # "computed"
    <3>1. /\ t \in Members /\ ThreadOK(t) /\ nth[t] = n_graph.n /\ ~ToBegin(t) /\ PlaceOK(t)
          /\ Progress(t) = 5 * node[t] + Stage(t)
          /\ node[t] \in 0 .. NNodes /\ NNodes \in Nat /\ abort \in -1 .. NNodes
      BY <2>1, <2>5, AtNode DEF Computing, WorkInv, Stale
    <3>2. ~ToBegin(t)' /\ Progress(t)' = 5 * node'[t] + Stage(t)'
      BY <2>2, <2>3, <2>5, <3>1, ToNode DEF Computing
    <3>3. CASE ret[t] = "node"
      <4>1. Stage(t) = 4 /\ Stage(t)' = 0 /\ node[t] < NNodes
        BY <2>1, <2>2, <3>1, <3>3 DEF Stage, PlaceOK
      <4>2. Progress(t) = 5 * node[t] + 4 /\ Progress(t)' = 5 * node[t] + 5
        BY <2>2, <3>1, <3>2, <3>3, <4>1
      <4>3. Progress(t)' <= 5 * NNodes /\ (abort # -1 => Progress(t)' <= 5 * abort)
        BY <3>1, <4>1, <4>2 DEF ThreadOK
      <4>4. ThreadOK(t)'
        BY <2>2, <3>1, <3>2, <3>3, <4>3 DEF ThreadOK, Computing
      <4>5. Idles(t)
        BY <3>1, <4>2 DEF Idles
      <4> QED BY <2>2, <2>3, <4>4, <4>5, WorkStays
    <3>4. CASE ret[t] = "chunks"
      <4>1. Stage(t) = 2 /\ Stage(t)' = 3 /\ node[t] \in Products
        BY <2>1, <2>2, <3>1, <3>4 DEF Stage, PlaceOK, Products
      <4>2. Progress(t) = 5 * node[t] + 2 /\ Progress(t)' = 5 * node[t] + 3
        BY <2>2, <3>1, <3>2, <3>4, <4>1
      <4>3. Progress(t)' <= 5 * NNodes /\ (abort # -1 => Progress(t)' <= 5 * abort)
        BY <3>1, <4>2 DEF ThreadOK
      <4>4. ThreadOK(t)'
        BY <2>2, <3>1, <3>2, <3>4, <4>3 DEF ThreadOK, Computing
      <4>5. ThreadsInv'
        BY <2>2, <2>3, <4>4, ThreadsStay DEF WorkInv
      <4>6. PiecesInv'
        BY <2>2, <3>1, <3>4, <4>1, <4>2, FirstChunkIsOwn DEF WorkInv
      <4> QED BY <4>5, <4>6 DEF WorkInv
    <3> QED BY <2>3, <2>5, <3>3, <3>4
  <2> QED BY <2>4, <2>5
<1> QED BY <1>1, <1>2

LEMMA ComputeWorks ==
  ASSUME PoolInv, PoolInv', WorkInv, InGraph, NEW t \in Threads, ComputeStep(t) \/ SetChunk(t)
  PROVE  WorkInv'
BY EnterWorks, LeaveWorks, SkipWorks, BeginWorks, EndWorks, SetChunkWorks, FetchWorks,
   BeginChunkWorks,
   AfterNodeWorks, BarrierWorks DEF ComputeStep

\* A worker that waits for a graph.
LEMMA WaitingWorks ==
  ASSUME PoolInv, PoolInv', WorkInv, InGraph, NEW t \in Workers,
         \/ TestPause(t) \/ LockPaused(t) \/ WaitPaused(t) \/ WakePaused(t)
         \/ TestStop(t) \/ PollFlags(t) \/ PollGraph(t) \/ LockAndTest(t) \/ WaitForWork(t)
         \/ CheckPending(t) \/ SpuriousWakeup(t)
  PROVE  WorkInv'
<1>0. /\ t \in Threads /\ t # 0 /\ NNodes \in Nat /\ abort \in -1 .. NNodes /\ node[t] \in 0 .. NNodes
      /\ pc \in [Threads -> Places] /\ pending \in [Threads -> BOOLEAN] /\ last_graph \in [Threads -> Graph]
  BY Pool DEF Workers, PoolInv, TypeOK, PoolTyped, ThreadsTyped
<1>1. /\ UNCHANGED <<n_graph, abort, ec, finished, current_chunk, node, phase, ret, chunk, nth>>
      /\ \A u \in Threads \ {t} :
           pc'[u] = pc[u] /\ last_graph'[u] = last_graph[u] /\ pending'[u] = pending[u]
  <2>1. CASE TestPause(t) \/ WakePaused(t) \/ TestStop(t) \/ PollFlags(t)
    BY <1>0, <2>1 DEF TestPause, WakePaused, TestStop, PollFlags, Goto, poolVars, stateVars
  <2>2. CASE LockPaused(t) \/ WaitPaused(t) \/ WaitForWork(t) \/ SpuriousWakeup(t)
    BY <1>0, <2>2 DEF LockPaused, WaitPaused, WaitForWork, CondWait, SpuriousWakeup, Goto,
                      stateVars, localVars
  <2>3. CASE PollGraph(t) \/ LockAndTest(t)
    BY <1>0, <2>3 DEF PollGraph, LockAndTest, NoteGraph, Goto, poolVars, stateVars
  <2>4. CASE CheckPending(t)
    BY <1>0, <2>4 DEF CheckPending, Goto, poolVars, stateVars
  <2> QED BY <2>1, <2>2, <2>3, <2>4
<1>2. RestStays(t)
  BY <1>1 DEF RestStays
<1>3. pc'[0] # "kickoff"
  BY <1>0, <1>1, Pool DEF InGraph, Computing
<1>4. \/ pc'[t] = pc[t] /\ UNCHANGED <<last_graph, pending>>
      \/ pc[t] \in WorkerPlaces /\ pc'[t] \in WorkerPlaces /\ ToBegin(t)' = ToBegin(t)
      \/ pc'[t] = "enter" /\ ToBegin(t)
      \/ t \in Members => ToBegin(t) /\ ToBegin(t)'
  <2>1. CASE TestPause(t) \/ WakePaused(t) \/ TestStop(t) \/ PollFlags(t)
    <3>1. UNCHANGED <<last_graph, pending>>
      BY <2>1 DEF TestPause, WakePaused, TestStop, PollFlags, stateVars
    <3>2. pc[t] \in WorkerPlaces /\ pc'[t] \in WorkerPlaces
      BY <1>0, <2>1 DEF TestPause, WakePaused, TestStop, PollFlags, Goto, WorkerPlaces
    <3> QED BY <1>0, <1>1, <3>1, <3>2 DEF ToBegin
  <2>2. CASE LockPaused(t) \/ WaitPaused(t) \/ WaitForWork(t)
    <3>1. UNCHANGED <<last_graph, pending>>
      BY <2>2 DEF LockPaused, WaitPaused, WaitForWork, CondWait, stateVars
    <3>2. pc[t] \in WorkerPlaces /\ pc'[t] \in WorkerPlaces
      BY <1>0, <2>2 DEF LockPaused, WaitPaused, WaitForWork, CondWait, Goto, WorkerPlaces
    <3> QED BY <1>0, <1>1, <3>1, <3>2 DEF ToBegin
  <2>3. CASE SpuriousWakeup(t)
    BY <2>3 DEF SpuriousWakeup, stateVars, localVars
  <2>4. CASE PollGraph(t) \/ LockAndTest(t)
    <3>1. CASE UNCHANGED stateVars
      <4>1. pc[t] \in WorkerPlaces /\ pc'[t] \in WorkerPlaces
        BY <1>0, <2>4 DEF PollGraph, LockAndTest, Goto, WorkerPlaces
      <4> QED BY <1>0, <1>1, <3>1, <4>1 DEF ToBegin, stateVars
    <3>2. CASE NewGraph(t) /\ NoteGraph(t)
      <4>1. t \in Members => pending'[t] = TRUE
        BY <1>0, <3>2 DEF NoteGraph, Members
      <4>2. n_graph # last_graph[t]
        BY <3>2 DEF NewGraph
      <4> QED BY <1>0, <4>1, <4>2 DEF ToBegin
    <3> QED BY <2>4, <3>1, <3>2 DEF PollGraph, LockAndTest
  <2>5. CASE CheckPending(t)
    <3>1. pc[t] = "check" /\ pc'[t] = (IF pending[t] THEN "enter" ELSE "pause_loop")
          /\ last_graph' = last_graph /\ pending'[t] = FALSE
      BY <1>0, <2>5 DEF CheckPending, Goto
    <3>2. CASE pending[t]
      BY <1>0, <3>1, <3>2 DEF ToBegin
    <3>3. CASE ~pending[t]
      BY <1>0, <1>1, <3>1, <3>3 DEF ToBegin, WorkerPlaces
    <3> QED BY <3>2, <3>3
  <2> QED BY <2>1, <2>2, <2>3, <2>4, <2>5
<1>5. ASSUME t \in Members PROVE ThreadOK(t)' /\ Idles(t)
  <2>0. ThreadOK(t) /\ NNodes' = NNodes
    BY <1>5 DEF WorkInv, ThreadsInv
  <2>1. CASE pc'[t] = pc[t] /\ UNCHANGED <<last_graph, pending>>
    <3>1. ToBegin(t)' = ToBegin(t) /\ Stage(t)' = Stage(t)
      BY <1>0, <1>1, <2>1 DEF ToBegin, Stage
    <3>2. Progress(t)' = Progress(t)
      BY <1>1, <2>1, <3>1 DEF Progress
    <3> QED BY <1>1, <2>0, <2>1, <3>1, <3>2 DEF ThreadOK, Idles
  <2>2. CASE pc[t] \in WorkerPlaces /\ pc'[t] \in WorkerPlaces /\ ToBegin(t)' = ToBegin(t)
    <3>1. Stage(t)' = 0 /\ Stage(t) = 0 /\ pc[t] # "enter" /\ pc'[t] # "enter"
      BY <2>2 DEF Stage, WorkerPlaces
    <3>2. Progress(t)' = Progress(t)
      BY <1>1, <2>2, <3>1 DEF Progress
    <3>3. pc[t] \notin Computing /\ pc'[t] \notin Computing /\ pc'[t] # "piece"
      BY <2>2 DEF WorkerPlaces, Computing
    <3>4. ThreadOK(t)'
      BY <1>1, <2>0, <2>2, <3>1, <3>2, <3>3 DEF ThreadOK
    <3>5. ASSUME NEW m \in Products PROVE Progress(t) # 5 * m + 3
      <4>1. Progress(t) = 0 \/ Progress(t) = 5 * node[t]
        BY <1>0, <3>1, ProgressIs
      <4> QED BY <1>0, <4>1, ProductsAre
    <3> QED BY <3>2, <3>4, <3>5 DEF Idles
  <2>3. CASE (pc'[t] = "enter" /\ ToBegin(t)) \/ (ToBegin(t) /\ ToBegin(t)')
    <3>1. Progress(t) = 0 /\ Progress(t)' = 0
      BY <2>3 DEF Progress
    <3>2. pc'[t] # "piece"
      <4>1. ToBegin(t)' => ~(pc'[t] = "piece")
        <5>1. PoolInv /\ ThreadsInv => \A u \in Workers : ToBegin(u) => pc[u] # "piece"
          BY OutsideBarrier, InsideIsMember DEF Computing, Workers
        <5>2. ToBegin(t) => pc[t] # "piece"
          BY <5>1 DEF WorkInv
        <5>3. ToBegin(t) /\ pc'[t] = "piece" => pc[t] = "piece"
          BY <1>0, <1>4, <2>3 DEF Goto, PollGraph, LockAndTest, CheckPending, SpuriousWakeup,
                                  TestPause,
               LockPaused, WaitPaused, WakePaused, TestStop, PollFlags, WaitForWork, CondWait, localVars
        <5> QED BY <2>3, <5>2, <5>3
      <4> QED BY <2>3, <4>1
    <3>3. ThreadOK(t)'
      BY <1>0, <1>1, <2>3, <3>1, <3>2 DEF ThreadOK, Computing
    <3>4. \A m \in Products : Progress(t) # 5 * m + 3
      BY <3>1, ProductsAre
    <3> QED BY <3>1, <3>3, <3>4 DEF Idles
  <2> QED BY <1>4, <1>5, <2>1, <2>2, <2>3
<1> QED BY <1>0, <1>1, <1>2, <1>3, <1>5, WorkStays

\* Outside of a graph nothing is claimed of the pieces.
LEMMA OutsideWorks ==
  ASSUME PoolInv, PoolInv', WorkInv, [Next]_vars, ~InGraph, ~PublishGraph
  PROVE  WorkInv' /\ ~InGraph'
<1>0. 0 \in Threads /\ 0 \notin Workers /\ pc[0] \in CallerPlaces \ {"kickoff_signal", "computed"}
      /\ pc \in [Threads -> Places]
  BY Pool DEF InGraph, PoolInv, PlaceOK, CallerPlaces, Workers, TypeOK, ThreadsTyped
<1>1. /\ pc'[0] \in CallerPlaces \ {"kickoff_signal", "computed"}
      /\ pc'[0] = "kickoff" => ec' = "success"
  <2>1. CASE UNCHANGED vars
    BY <1>0, <2>1 DEF vars, localVars, poolVars, WorkInv, ThreadsInv
  <2>2. CASE Call
    BY <1>0, <2>2 DEF Call, BeginCompute, SetPause, FreeStop, Goto, CallerPlaces, localVars,
                      WorkInv, ThreadsInv
  <2>3. CASE CallerStep
    <3>1. FreeSignal \/ Join
      BY <1>0, <2>3 DEF CallerStep, InGraph, CallerPlaces, SignalGraph, SetChunk, ComputeStep,
                        EndCompute,
         EnterGraph, LeaveLoop, SkipNode, BeginNode, EndPiece, FetchChunk, BeginChunk, AfterNode,
         PassAlone, EnterBarrier, InBarrier, LeaveBarrier
    <3> QED BY <1>0, <3>1 DEF FreeSignal, Join, Goto, CallerPlaces
  <2>4. ASSUME NEW t \in Workers, WorkerStep(t) \/ SpuriousWakeup(t)
        PROVE  pc'[0] = pc[0] /\ ec' = ec
    <3>1. t \in Threads /\ t # 0
      BY <1>0, <2>4 DEF Workers
    <3>2. CASE ComputeStep(t)
      <4>1. CASE EnterGraph(t) \/ LeaveLoop(t) \/ SkipNode(t) \/ BeginNode(t) \/ EndPiece(t)
        BY <1>0, <3>1, <4>1 DEF EnterGraph, LeaveLoop, SkipNode, BeginNode, EndPiece, Goto,
                                GotoBarrier, poolVars
      <4>2. CASE FetchChunk(t) \/ BeginChunk(t) \/ AfterNode(t)
        BY <1>0, <3>1, <4>2 DEF FetchChunk, BeginChunk, AfterNode, Goto, GotoBarrier, poolVars
      <4>3. CASE PassAlone(t) \/ EnterBarrier(t) \/ InBarrier(t) \/ LeaveBarrier(t)
        BY <1>0, <3>1, <4>3 DEF PassAlone, EnterBarrier, InBarrier, LeaveBarrier, AfterBarrier,
                                Goto, poolVars,
           localVars
      <4> QED BY <3>2, <4>1, <4>2, <4>3 DEF ComputeStep
    <3>3. CASE TestPause(t) \/ WakePaused(t) \/ TestStop(t) \/ PollFlags(t) \/ PollGraph(t) \/ CheckPending(t)
      BY <1>0, <3>1, <3>3 DEF TestPause, WakePaused, TestStop, PollFlags, PollGraph, CheckPending,
                              Goto, poolVars
    <3>4. CASE LockPaused(t) \/ WaitPaused(t) \/ WaitForWork(t) \/ SpuriousWakeup(t) \/ LockAndTest(t)
      BY <1>0, <3>1, <3>4 DEF LockPaused, WaitPaused, WaitForWork, CondWait, SpuriousWakeup,
                              LockAndTest, Goto,
         localVars
    <3> QED BY <2>4, <3>2, <3>3, <3>4 DEF WorkerStep
  <2>5. CASE \E t \in Workers : WorkerStep(t) \/ SpuriousWakeup(t)
    BY <1>0, <2>4, <2>5 DEF WorkInv, ThreadsInv
  <2> QED BY <2>1, <2>2, <2>3, <2>5 DEF Next, Freed
<1>2. ~InGraph'
  BY <1>1 DEF InGraph, CallerPlaces, Computing
<1> QED BY <1>1, <1>2 DEF WorkInv, ThreadsInv

\* The threads of a graph are the first ones.
LEMMA TeamIs == TypeOK => (Members \subseteq Threads /\ Members = 0 .. n_graph.n - 1 /\ n_graph.n \in Nat)
BY MembersAre DEF Members

\* A thread that has not begun the graph is not at a piece of it.
LEMMA BeginnersIdle == PoolInv => (\A v \in Threads : ToBegin(v) => pc[v] # "piece")
BY OutsideBarrier, InsideIsMember DEF Computing

\* The graph is published: no thread has begun it.
LEMMA PublishWorks ==
  ASSUME PoolInv, PoolInv', WorkInv, PublishGraph
  PROVE  WorkInv' /\ \A u \in Members' : Progress(u)' = 0
<1> USE Pool
<1>1. /\ pc[0] = "kickoff" /\ pc'[0] = "kickoff_signal" /\ finished' = {} /\ n_graph'.id = n_graph.id + 1
      /\ UNCHANGED <<abort, ec, current_chunk, last_graph, pending>>
  BY DEF PublishGraph, Goto, stateVars, PoolInv, TypeOK, ThreadsTyped
<1>2. abort = -1 /\ ec = "success"
  BY <1>1 DEF PoolInv, CallerOK, WorkInv, ThreadsInv
<1>3. \A u \in Threads : ToBegin(u)'
  <2>1. ASSUME NEW u \in Workers PROVE last_graph[u] # n_graph'
    <3>1. last_graph[u].id <= n_graph.id /\ n_graph.id \in Nat
      BY MembersAre DEF PoolInv, WorkerOK
    <3> QED BY <1>1, <3>1
  <2> QED BY <1>1, <2>1 DEF ToBegin, Workers
<1>4. Members' \subseteq Threads /\ (\A u \in Members' : u \in 0 .. n_graph'.n - 1) /\ n_graph'.n \in Nat
  <2>1. TypeOK' => (Members \subseteq Threads /\ Members = 0 .. n_graph.n - 1 /\ n_graph.n \in Nat)'
    BY TeamIs, PTL
  <2> QED BY <2>1 DEF PoolInv
<1>5. \A u \in Members' : Progress(u)' = 0
  BY <1>3, <1>4 DEF Progress
<1>6. 0 \in Members'
  BY <1>1, <1>4 DEF PublishGraph, Members, PoolInv, CallerOK
<1>7. ASSUME NEW u \in Members' PROVE ThreadOK(u)'
  <2>1. pc'[u] # "piece"
    <3>1. PoolInv' => (\A v \in Threads : ToBegin(v) => pc[v] # "piece")'
      BY BeginnersIdle, PTL
    <3> QED BY <1>3, <1>4, <3>1
  <2> QED BY <1>1, <1>2, <1>3, <1>4, <1>5, <2>1 DEF ThreadOK
<1>8. ThreadsInv'
  BY <1>1, <1>2, <1>7 DEF ThreadsInv
<1>9. ASSUME NEW m \in Working, NEW u \in Members'
      PROVE  /\ m \in Nat /\ Progress(u)' < 5 * m + 1
             /\ \A c : Holds(u, m, c)' <=> c = u
  <2>1. m \in Nat
    BY ProductsAre
  <2> QED BY <1>5, <2>1 DEF Holds
<1>10. Working' = Working /\ Products' = Products /\ Products \subseteq Working
  BY ProductsAre DEF Working, Products
<1>11. PiecesInv'
  <2>1. OwnFinished'
    <3> SUFFICES ASSUME NEW m \in Working, NEW u \in Members'
                 PROVE  ~(Progress(u)' >= 5 * m + 1)
      BY <1>1, <1>10 DEF OwnFinished
    <3> QED BY <1>5, <1>9
  <2>2. OneHolder' /\ HeldIsToCome'
    BY <1>1, <1>9, <1>10 DEF OneHolder, HeldIsToCome
  <2>3. NoneForgotten'
    <3> SUFFICES ASSUME NEW m \in Products, NEW c \in 0 .. Chunks(n_graph'.n) - 1
                 PROVE  \/ \E u \in Members' : Holds(u, m, c)'
                        \/ /\ c >= n_graph'.n
                           /\ \A u \in Members' : Progress(u)' < 5 * m + 4
                           /\ ~(Progress(0)' >= 5 * m + 2)
      BY <1>10 DEF NoneForgotten
    <3>0. c \in Nat
      OBVIOUS
    <3>1. CASE c < n_graph'.n
      <4>1. c \in Members'
        <5>1. TypeOK' => (Members \subseteq Threads /\ Members = 0 .. n_graph.n - 1 /\ n_graph.n \in Nat)'
          BY TeamIs, PTL
        <5> QED BY <1>4, <3>0, <3>1, <5>1 DEF PoolInv
      <4> QED BY <1>9, <1>10, <4>1
    <3>2. CASE ~(c < n_graph'.n)
      BY <1>4, <1>5, <1>6, <1>9, <1>10, <3>0, <3>2
    <3> QED BY <3>1, <3>2
  <2>4. FinishedWasGiven' /\ (finished \subseteq AllPieces(n_graph.n))'
    BY <1>1 DEF FinishedWasGiven
  <2>5. HeldWasGiven' /\ CounterIsSet'
    BY <1>5, <1>6, <1>9, <1>10 DEF HeldWasGiven, CounterIsSet
  <2> QED BY <2>1, <2>2, <2>3, <2>4, <2>5 DEF PiecesInv, ChunksInv
<1> QED BY <1>5, <1>8, <1>11 DEF WorkInv

\* The caller wakes up the workers, or has computed the graph.
LEMMA CallerWorks ==
  ASSUME PoolInv, PoolInv', WorkInv, InGraph, SignalGraph \/ EndCompute
  PROVE  WorkInv'
<1> USE Pool
<1>1. CASE EndCompute
  <2>1. pc'[0] = "idle"
    BY <1>1 DEF EndCompute, Goto, PoolInv, TypeOK, ThreadsTyped
  <2> QED BY <2>1 DEF WorkInv, ThreadsInv, InGraph, Computing
<1>2. CASE SignalGraph
  <2>1. /\ pc[0] = "kickoff_signal" /\ pc'[0] = "enter" /\ RestStays(0)
        /\ UNCHANGED <<abort, ec, finished, current_chunk>>
    BY <1>2 DEF SignalGraph, Goto, RestStays, stateVars, PoolInv, TypeOK, ThreadsTyped
  <2>2. Progress(0) = 0 /\ Progress(0)' = 0
    BY <2>1 DEF Progress, ToBegin
  <2>3. NNodes \in Nat /\ (abort # -1 => abort >= 0) /\ abort \in -1 .. NNodes
    BY DEF PoolInv, TypeOK, PoolTyped
  <2>4. ThreadOK(0)'
    BY <2>1, <2>2, <2>3 DEF ThreadOK, Computing
  <2>5. Idles(0)
    BY <2>2, ProductsAre DEF Idles
  <2> QED BY <2>1, <2>4, <2>5, WorkStays
<1> QED BY <1>1, <1>2

LEMMA WorkStep == PoolInv /\ PoolInv' /\ WorkInv /\ [Next]_vars => WorkInv'
<1> SUFFICES ASSUME PoolInv, PoolInv', WorkInv, [Next]_vars PROVE WorkInv'
  OBVIOUS
<1>1. CASE ~InGraph
  BY <1>1, OutsideWorks, PublishWorks
<1>2. CASE InGraph
  <2>1. CASE UNCHANGED vars
    <3>1. 0 \in Threads /\ RestStays(0) /\ pc'[0] # "kickoff"
      BY <1>2, <2>1, Pool DEF vars, poolVars, stateVars, localVars, RestStays, InGraph, Computing
    <3>2. ToBegin(0)' = ToBegin(0) /\ Stage(0)' = Stage(0)
      BY <2>1 DEF vars, poolVars, stateVars, localVars, ToBegin, Stage
    <3>3. Progress(0)' = Progress(0)
      BY <2>1, <3>2 DEF vars, localVars, Progress
    <3>4. ThreadOK(0)' = ThreadOK(0) /\ Idles(0)
      BY <2>1, <3>2, <3>3 DEF vars, poolVars, localVars, ThreadOK, Idles
    <3> QED BY <1>2, <2>1, <3>1, <3>4, WorkStays DEF vars, poolVars, WorkInv, ThreadsInv
  <2>2. CASE CallerStep
    <3>1. ~(PublishGraph \/ FreeSignal \/ Join)
      BY <1>2 DEF InGraph, Computing, PublishGraph, FreeSignal, Join
    <3> QED BY <1>2, <2>2, <3>1, CallerWorks, ComputeWorks, Pool DEF CallerStep
  <2>3. CASE Call \/ Freed
    BY <1>2, <2>3 DEF InGraph, Computing, Call, Freed, BeginCompute, SetPause, FreeStop
  <2>4. CASE \E t \in Workers : WorkerStep(t) \/ SpuriousWakeup(t)
    BY <1>2, <2>4, WaitingWorks, ComputeWorks DEF WorkerStep, Workers
  <2> QED BY <2>1, <2>2, <2>3, <2>4 DEF Next
<1> QED BY <1>1, <1>2

LEMMA WorkInitially == Init => WorkInv
BY Pool DEF Init, WorkInv, ThreadsInv, InGraph, Computing

LEMMA WorkAlways == Spec => []WorkInv
BY PoolAlways, WorkInitially, WorkStep, PTL DEF Spec

-----------------------------------------------------------------------------
(***************************************************************************)
(* What the pool shows of a graph, and the steps that do not change it.    *)
(***************************************************************************)
At(t) == <<node[t], phase[t], chunk[t]>>
Active == {At(t) : t \in {u \in Threads : pc[u] = "piece"}}
Limit == IF InGraph /\ abort # -1 THEN abort ELSE NNodes

\* The other threads are where they were.
OthersRemain(t) ==
  \A u \in Threads \ {t} : pc'[u] = pc[u] /\ (pc[u] = "piece" => At(u)' = At(u))

LEMMA Stutters ==
  ASSUME UNCHANGED <<n_graph, finished>>, InGraph' = InGraph, Active' = Active,
         InGraph => UNCHANGED <<abort, ec>>
  PROVE  UNCHANGED Evaluation!evaluationVars
<1>1. Limit' = Limit /\ NNodes' = NNodes
  BY DEF Limit, NNodes
<1>2. (InGraph /\ ec = "aborted")' = (InGraph /\ ec = "aborted")
  <2>1. CASE InGraph
    BY <2>1
  <2>2. CASE ~InGraph
    BY <2>2
  <2> QED BY <2>1, <2>2
<1> QED BY <1>1, <1>2 DEF Evaluation!evaluationVars, Active, At, Limit

\* The thread neither begins nor ends a piece.
LEMMA NothingIsSeen ==
  ASSUME NEW t \in Threads, OthersRemain(t), pc[t] # "piece", pc'[t] # "piece"
  PROVE  Active' = Active
<1>1. \A u \in Threads : (pc'[u] = "piece" <=> pc[u] = "piece") /\ (pc[u] = "piece" => At(u)' = At(u))
  BY DEF OthersRemain
<1>2. \A p : p \in Active' <=> \E u \in Threads : pc'[u] = "piece" /\ p = At(u)'
  BY DEF Active
<1>3. \A p : p \in Active <=> \E u \in Threads : pc[u] = "piece" /\ p = At(u)
  BY DEF Active
<1>4. \A p : p \in Active' <=> p \in Active
  BY <1>1, <1>2, <1>3
<1> QED BY <1>4

LEMMA PieceBegins ==
  ASSUME NEW t \in Threads, OthersRemain(t), pc[t] # "piece", pc'[t] = "piece"
  PROVE  Active' = Active \union {At(t)'}
<1>1. \A u \in Threads \ {t} : (pc'[u] = "piece" <=> pc[u] = "piece") /\ (pc[u] = "piece" => At(u)' = At(u))
  BY DEF OthersRemain
<1>2. \A p : p \in Active' <=> \E u \in Threads : pc'[u] = "piece" /\ p = At(u)'
  BY DEF Active
<1>3. \A p : p \in Active <=> \E u \in Threads : pc[u] = "piece" /\ p = At(u)
  BY DEF Active
<1>4. \A p : p \in Active' <=> p \in Active \/ p = At(t)'
  BY <1>1, <1>2, <1>3
<1> QED BY <1>4

LEMMA PieceEnds ==
  ASSUME NEW t \in Threads, OthersRemain(t), pc[t] = "piece", pc'[t] # "piece",
         \A u \in Threads \ {t} : pc[u] = "piece" => At(u) # At(t)
  PROVE  Active' = Active \ {At(t)}
<1>1. \A u \in Threads \ {t} : (pc'[u] = "piece" <=> pc[u] = "piece") /\ (pc[u] = "piece" => At(u)' = At(u))
  BY DEF OthersRemain
<1>2. \A p : p \in Active' <=> \E u \in Threads : pc'[u] = "piece" /\ p = At(u)'
  BY DEF Active
<1>3. \A p : p \in Active <=> \E u \in Threads : pc[u] = "piece" /\ p = At(u)
  BY DEF Active
<1>4. \A p : p \in Active' <=> p \in Active /\ p # At(t)
  BY <1>1, <1>2, <1>3
<1> QED BY <1>4

\* A thread at a piece.
LEMMA AtPiece ==
  ASSUME PoolInv, ThreadsInv, InGraph, NEW t \in Threads, pc[t] = "piece"
  PROVE  /\ t \in Members /\ node[t] \in Working /\ At(t) \in AllPieces(n_graph.n)
         /\ \/ At(t) = <<node[t], First(node[t]), t>> /\ Progress(t) = 5 * node[t]
            \/ /\ node[t] \in Products /\ At(t) = <<node[t], "product", chunk[t]>>
               /\ Holds(t, node[t], chunk[t]) /\ Progress(t) = 5 * node[t] + 3
<1>1. /\ t \in Members /\ ThreadOK(t) /\ PlaceOK(t) /\ ~ToBegin(t) /\ Progress(t) = 5 * node[t] + Stage(t)
      /\ node[t] \in 0 .. NNodes /\ NNodes \in Nat /\ t \in 0 .. n_graph.n - 1 /\ n_graph.n \in Nat
      /\ chunk[t] \in Nat
  BY OutsideBarrier, AtNode, Pool DEF Computing
<1>2. node[t] \in Working
  BY <1>1 DEF PlaceOK, Working
<1>3. phase[t] \in {"rows", "convert", "product"} /\ Kind(node[t]) \in {"rows", "mul_mat"}
  BY <1>2, Pool DEF PoolInv, TypeOK, ThreadsTyped, Working
<1>4. CASE phase[t] = "product"
  <2>1. node[t] \in Products /\ chunk[t] \in 0 .. Chunks(n_graph.n) - 1
    <3>1. chunk[t] < Chunks(n_graph.n) /\ Chunks(n_graph.n) \in Nat
      <4>1. NChunks \in Nat
        BY GraphAssumption
      <4> QED BY <1>1, <1>4, <4>1 DEF ThreadOK, Chunks
    <3>2. Kind(node[t]) = "mul_mat"
      BY <1>1, <1>3, <1>4 DEF PlaceOK
    <3> QED BY <1>1, <1>2, <3>1, <3>2 DEF Products, Working
  <2>2. Progress(t) = 5 * node[t] + 3
    BY <1>1, <1>4 DEF Stage
  <2>3. <<node[t], "product", chunk[t]>> \in AllPieces(n_graph.n)
    BY <1>1, <2>1, PiecesAre
  <2> QED BY <1>1, <1>2, <1>4, <2>1, <2>2, <2>3 DEF At, Holds
<1>5. CASE phase[t] # "product"
  <2>1. chunk[t] = t /\ phase[t] = First(node[t])
    BY <1>1, <1>3, <1>5 DEF ThreadOK, PlaceOK, First
  <2>2. Progress(t) = 5 * node[t]
    BY <1>1, <1>5 DEF Stage
  <2>3. <<node[t], First(node[t]), t>> \in AllPieces(n_graph.n)
    BY <1>1, <1>2, PiecesAre
  <2> QED BY <1>1, <1>2, <2>1, <2>2, <2>3 DEF At
<1> QED BY <1>4, <1>5

\* No two threads are at the same piece.
LEMMA PiecesDiffer ==
  ASSUME PoolInv, WorkInv, InGraph, NEW t \in Threads, NEW u \in Threads, t # u,
         pc[t] = "piece", pc[u] = "piece"
  PROVE  At(t) # At(u)
<1>1. \A m : First(m) # "product"
  BY DEF First
<1>2. SUFFICES ASSUME At(t) = At(u) PROVE FALSE
  OBVIOUS
<1>3. node[t] = node[u] /\ phase[t] = phase[u] /\ chunk[t] = chunk[u]
  BY <1>2 DEF At
<1>4. CASE At(t) = <<node[t], First(node[t]), t>>
  BY <1>1, <1>2, <1>3, <1>4, AtPiece DEF WorkInv, At
<1>5. CASE At(t) # <<node[t], First(node[t]), t>>
  <2>1. Holds(t, node[t], chunk[t]) /\ node[t] \in Products /\ t \in Members
    BY <1>5, AtPiece DEF WorkInv
  <2>2. At(u) # <<node[u], First(node[u]), u>>
    BY <1>1, <1>2, <1>5, AtPiece DEF WorkInv, At
  <2>3. Holds(u, node[t], chunk[t]) /\ u \in Members
    BY <1>3, <2>2, AtPiece DEF WorkInv
  <2>4. chunk[t] \in Nat
    BY DEF PoolInv, TypeOK, ThreadsTyped
  <2> QED BY <2>1, <2>3, <2>4 DEF WorkInv, PiecesInv, ChunksInv, OneHolder
<1> QED BY <1>4, <1>5

\* Both specifications are about the same graph.
LEMMA SameGraph ==
  /\ \A n : Evaluation!AllPieces(n) = AllPieces(n)
  /\ \A q, p : Evaluation!Precedes(q, p) <=> Precedes(q, p)
  /\ Evaluation!NNodes = NNodes
BY DEF Evaluation!AllPieces, AllPieces, Evaluation!PiecesOf, PiecesOf, Evaluation!Pieces, Pieces,
   Evaluation!Precedes, Precedes, Evaluation!NNodes, NNodes, Evaluation!Kind, Kind,
   Evaluation!Chunks, Chunks

LEMMA Begins ==
  ASSUME NEW p \in AllPieces(n_graph.n), InGraph, InGraph', UNCHANGED <<n_graph, finished, abort, ec>>,
         abort # -1 => p[1] < abort, p[1] < NNodes, p \notin Active, p \notin finished,
         \A q \in AllPieces(n_graph.n) : Precedes(q, p) => q \in finished,
         Active' = Active \union {p}
  PROVE  Evaluation!EvaluationNext
<1>1. Limit' = Limit /\ p[1] < Limit
  BY DEF Limit, NNodes
<1>2. (InGraph /\ ec = "aborted")' = (InGraph /\ ec = "aborted")
  OBVIOUS
<1>3. Evaluation!Begin(p)
  BY <1>1, <1>2, SameGraph DEF Evaluation!Begin, Active, At, Limit
<1> QED BY <1>3, SameGraph DEF Evaluation!EvaluationNext

LEMMA Finishes ==
  ASSUME NEW p \in AllPieces(n_graph.n), InGraph, InGraph', UNCHANGED <<n_graph, abort, ec>>,
         p \in Active, Active' = Active \ {p}, finished' = finished \union {p}
  PROVE  Evaluation!EvaluationNext
<1>1. Limit' = Limit
  BY DEF Limit, NNodes
<1>2. (InGraph /\ ec = "aborted")' = (InGraph /\ ec = "aborted")
  OBVIOUS
<1>3. Evaluation!Finish(p)
  BY <1>1, <1>2, SameGraph DEF Evaluation!Finish, Active, At, Limit
<1> QED BY <1>3, SameGraph DEF Evaluation!EvaluationNext

-----------------------------------------------------------------------------
(***************************************************************************)
(* The pieces that are finished when another one begins, or the call       *)
(* returns.                                                                *)
(***************************************************************************)
LEMMA PassedIsFinished ==
  ASSUME PoolInv, WorkInv, InGraph, NEW m \in Working,
         \A u \in Members : Progress(u) >= 5 * m + 4
  PROVE  \A q \in AllPieces(n_graph.n) : q[1] = m => q \in finished
<1>1. n_graph.n \in Nat /\ Members = 0 .. n_graph.n - 1 /\ Members \subseteq Threads /\ m \in Nat
  BY TeamIs, ProductsAre DEF PoolInv
<1>2. \A u \in Members : Progress(u) \in Nat
  BY <1>1, ProgressIs
<1>3. ASSUME NEW c \in Members PROVE <<m, First(m), c>> \in finished
  BY <1>1, <1>2 DEF WorkInv, PiecesInv, OwnFinished
<1>4. ASSUME NEW c \in 0 .. Chunks(n_graph.n) - 1, m \in Products
      PROVE  <<m, "product", c>> \in finished
  <2>1. ~\E u \in Members : Holds(u, m, c)
    BY <1>1, <1>2 DEF Holds
  <2>2. 0 \in Members
    BY MembersAre, <1>1 DEF PoolInv, CallerOK, InGraph
  <2>3. ~\A u \in Members : Progress(u) < 5 * m + 4
    BY <1>1, <1>2, <2>2
  <2> QED BY <1>4, <2>1, <2>3 DEF WorkInv, PiecesInv, ChunksInv, NoneForgotten
<1>5. ASSUME NEW q \in AllPieces(n_graph.n), q[1] = m PROVE q \in finished
  <2>1. CASE \E k \in Working, c \in 0 .. n_graph.n - 1 : q = <<k, First(k), c>>
    BY <1>1, <1>3, <1>5, <2>1
  <2>2. CASE \E k \in Products, c \in 0 .. Chunks(n_graph.n) - 1 : q = <<k, "product", c>>
    BY <1>4, <1>5, <2>2
  <2> QED BY <1>1, <1>5, <2>1, <2>2, PiecesAre
<1> QED BY <1>5

\* A thread at a node: the nodes before are finished, and the conversion once it is past it.
LEMMA EarlierIsFinished ==
  ASSUME PoolInv, WorkInv, InGraph, NEW t \in Members, NEW m \in Working, Progress(t) >= 5 * m
  PROVE  /\ \A q \in AllPieces(n_graph.n) : q[1] < m => q \in finished
         /\ m \in Products /\ Progress(t) >= 5 * m + 3 =>
              \A c \in Members : <<m, "convert", c>> \in finished
<1>1. /\ n_graph.n \in Nat /\ Members = 0 .. n_graph.n - 1 /\ Members \subseteq Threads
      /\ m \in 0 .. NNodes - 1 /\ NNodes \in Nat
  BY TeamIs, ProductsAre, Pool DEF PoolInv
<1>2. \A u \in Members : Progress(u) \in Nat
  BY <1>1, ProgressIs
<1>3. Apart
  BY MembersApart DEF WorkInv
<1>4. ASSUME NEW q \in AllPieces(n_graph.n), q[1] < m PROVE q \in finished
  <2>1. q[1] \in Working
    <3>1. \/ \E k \in Working, c \in 0 .. n_graph.n - 1 : q = <<k, First(k), c>>
          \/ \E k \in Products, c \in 0 .. Chunks(n_graph.n) - 1 : q = <<k, "product", c>>
      BY <1>1, <1>4, PiecesAre
    <3> QED BY <3>1, ProductsAre
  <2>2. q[1] \in 0 .. NNodes - 1 /\ q[1] < NNodes - 1
    <3>1. q[1] \in 0 .. NNodes - 1
      BY <2>1, ProductsAre
    <3> QED BY <1>1, <1>4, <3>1
  <2>3. Progress(t) >= 5 * q[1] + 5
    BY <1>1, <1>2, <1>4, <2>2
  <2>4. \A u \in Members : Progress(u) >= 5 * q[1] + 4
    BY <1>3, <2>1, <2>2, <2>3 DEF Apart
  <2> QED BY <2>1, <2>4, PassedIsFinished
<1>5. ASSUME m \in Products, Progress(t) >= 5 * m + 3, NEW c \in Members
      PROVE  <<m, "convert", c>> \in finished
  <2>1. Progress(c) >= 5 * m + 2 /\ First(m) = "convert"
    BY <1>3, <1>5, ProductsAre DEF Apart
  <2>2. Progress(c) >= 5 * m + 1
    BY <1>1, <1>2, <2>1
  <2> QED BY <2>1, <2>2 DEF WorkInv, PiecesInv, OwnFinished
<1> QED BY <1>4, <1>5

-----------------------------------------------------------------------------
(***************************************************************************)
(* The steps of the evaluation.                                            *)
(***************************************************************************)

\* A thread begins its own part of a node.
LEMMA BeginNodeBegins ==
  ASSUME PoolInv, WorkInv, InGraph, NEW t \in Threads, BeginNode(t)
  PROVE  [Evaluation!EvaluationNext]_Evaluation!evaluationVars
<1> DEFINE m == node[t]  p == <<m, First(m), t>>
<1>1. /\ pc[t] = "node" /\ ~LoopEnds(t) /\ Kind(m) # "empty" /\ pc'[t] = "piece" /\ node' = node
      /\ phase'[t] = First(m) /\ chunk'[t] = t /\ UNCHANGED <<n_graph, finished, abort, ec>>
      /\ OthersRemain(t) /\ pc' = [pc EXCEPT ![t] = "piece"]
  <2>1. /\ pc[t] = "node" /\ ~LoopEnds(t) /\ Kind(m) # "empty" /\ Goto(t, "piece") /\ node' = node
        /\ phase' = [phase EXCEPT ![t] = First(m)] /\ chunk' = [chunk EXCEPT ![t] = t]
        /\ UNCHANGED <<n_graph, finished, abort, ec>>
    BY DEF BeginNode, First, poolVars
  <2>2. TypeOK /\ phase \in [Threads -> {"rows", "convert", "product"}] /\ chunk \in [Threads -> Nat]
    BY DEF PoolInv, TypeOK, ThreadsTyped
  <2>3. phase'[t] = First(m) /\ \A u \in Threads \ {t} : phase'[u] = phase[u]
    BY <2>1, <2>2, UpdateIs
  <2>4. chunk'[t] = t /\ \A u \in Threads \ {t} : chunk'[u] = chunk[u]
    BY <2>1, <2>2, UpdateIs
  <2>5. pc'[t] = "piece" /\ \A u \in Threads \ {t} : pc'[u] = pc[u]
    BY <2>1, <2>2, GotoGoes
  <2>6. OthersRemain(t)
    BY <2>1, <2>3, <2>4, <2>5 DEF OthersRemain, At
  <2> QED BY <2>1, <2>3, <2>4, <2>5, <2>6 DEF Goto
<1>2. /\ t \in Members /\ ThreadOK(t) /\ Progress(t) = 5 * m + Stage(t) /\ Stage(t) = 0
      /\ m \in 0 .. NNodes /\ NNodes \in Nat /\ abort \in -1 .. NNodes
      /\ t \in 0 .. n_graph.n - 1 /\ n_graph.n \in Nat
  <2>1. Stage(t) = 0
    BY <1>1 DEF Stage
  <2>2. pc[t] \in Computing \ {"enter"} /\ ~Stale(t) /\ ThreadsInv
    BY <1>1, OutsideBarrier DEF Computing, WorkInv
  <2>3. /\ t \in Members /\ ThreadOK(t) /\ Progress(t) = 5 * m + Stage(t)
        /\ m \in 0 .. NNodes /\ NNodes \in Nat /\ abort \in -1 .. NNodes
        /\ t \in Nat /\ n_graph.n \in Nat /\ t < n_graph.n
    BY <2>2, AtNode
  <2> QED BY <2>1, <2>3
<1>3. m \in Working /\ m \in Nat /\ Progress(t) = 5 * m /\ m < NNodes
  BY <1>1, <1>2 DEF Working, LoopEnds
<1>4. InGraph' /\ (abort # -1 => m < abort)
  <2>1. InGraph'
    BY <1>1, Pool DEF InGraph, Computing, PoolInv, TypeOK, ThreadsTyped
  <2> QED BY <1>1, <1>2, <1>3, <2>1 DEF ThreadOK, LoopEnds
<1>5. Active' = Active \union {p}
  BY <1>1, PieceBegins DEF At
<1>6. p \notin Active
  <2> SUFFICES ASSUME NEW u \in Threads, pc[u] = "piece" PROVE At(u) # p
    BY DEF Active
  <2>1. u # t /\ First(m) # "product"
    BY <1>1 DEF First
  <2> QED BY <2>1, AtPiece DEF WorkInv
<1>7. p \notin finished
  BY <1>2, <1>3 DEF WorkInv, PiecesInv, OwnFinished
<1>8. ASSUME NEW q \in AllPieces(n_graph.n), Precedes(q, p) PROVE q \in finished
  <2>1. q[1] < m
    BY <1>8 DEF Precedes, First
  <2> QED BY <1>2, <1>3, <2>1, EarlierIsFinished
<1>9. p \in AllPieces(n_graph.n)
  BY <1>2, <1>3, PiecesAre
<1>10. p[1] = m
  OBVIOUS
<1> QED BY <1>1, <1>3, <1>4, <1>5, <1>6, <1>7, <1>8, <1>9, <1>10, Begins

\* A thread begins a chunk of the product, or leaves it.
LEMMA BeginChunkBegins ==
  ASSUME PoolInv, WorkInv, InGraph, NEW t \in Threads, BeginChunk(t)
  PROVE  [Evaluation!EvaluationNext]_Evaluation!evaluationVars
<1> DEFINE m == node[t]  c == chunk[t]  p == <<m, "product", c>>
<1>1. /\ pc[t] = "chunks" /\ UNCHANGED <<n_graph, finished, abort, ec, node, chunk>>
      /\ \/ c < Chunks(nth[t]) /\ pc'[t] = "piece" /\ phase'[t] = "product"
         \/ pc'[t] = "after"
      /\ OthersRemain(t) /\ pc'[t] \in {"piece", "after"} /\ (t # 0 => pc'[0] = pc[0])
  <2>1. /\ pc[t] = "chunks" /\ UNCHANGED <<n_graph, finished, abort, ec, node, chunk>>
        /\ \/ c < Chunks(nth[t]) /\ Goto(t, "piece") /\ phase' = [phase EXCEPT ![t] = "product"]
           \/ Goto(t, "after") /\ phase' = phase
    BY DEF BeginChunk, poolVars
  <2>2. TypeOK /\ phase \in [Threads -> {"rows", "convert", "product"}]
    BY DEF PoolInv, TypeOK, ThreadsTyped
  <2>3. /\ \A u \in Threads \ {t} : pc'[u] = pc[u]
        /\ \/ c < Chunks(nth[t]) /\ pc'[t] = "piece"
           \/ pc'[t] = "after" /\ phase' = phase
    BY <2>1, <2>2, GotoGoes
  <2>4. \A u \in Threads \ {t} : phase'[u] = phase[u]
    BY <2>1, <2>2, UpdateIs
  <2>5. pc'[t] = "piece" => phase'[t] = "product"
    BY <2>1, <2>2, GotoGoes, UpdateIs
  <2>6. OthersRemain(t)
    BY <2>1, <2>3, <2>4 DEF OthersRemain, At
  <2> QED BY <2>1, <2>3, <2>5, <2>6, Pool
<1>2. /\ t \in Members /\ ThreadOK(t) /\ Progress(t) = 5 * m + Stage(t) /\ Stage(t) = 3 /\ PlaceOK(t)
      /\ m \in 0 .. NNodes /\ NNodes \in Nat /\ abort \in -1 .. NNodes /\ nth[t] = n_graph.n
      /\ c \in Nat /\ n_graph.n \in Nat
  BY <1>1, OutsideBarrier, AtNode, Pool DEF Computing, WorkInv, Stage
<1>3. m \in Products /\ m \in Working /\ m \in Nat /\ Progress(t) = 5 * m + 3 /\ m < NNodes
  BY <1>1, <1>2 DEF Products, Working, PlaceOK
<1>4. InGraph'
  BY <1>1 DEF InGraph, Computing
<1>5. CASE pc'[t] = "after"
  <2>1. Active' = Active
    BY <1>1, <1>5, NothingIsSeen
  <2> QED BY <1>1, <1>4, <2>1, Stutters
<1>6. CASE c < Chunks(n_graph.n) /\ pc'[t] = "piece" /\ phase'[t] = "product"
  <2>1. abort # -1 => m < abort
    BY <1>2, <1>3 DEF ThreadOK
  <2>2. Active' = Active \union {p}
    BY <1>1, <1>6, PieceBegins DEF At
  <2>3. Holds(t, m, c)
    BY <1>1, <1>3 DEF Holds
  <2>4. p \notin Active
    <3> SUFFICES ASSUME NEW u \in Threads, pc[u] = "piece" PROVE At(u) # p
      BY DEF Active
    <3>1. u # t /\ First(node[u]) # "product"
      BY <1>1 DEF First
    <3>2. SUFFICES ASSUME At(u) = p PROVE FALSE
      OBVIOUS
    <3>3. u \in Members /\ Holds(u, m, c)
      BY <3>1, <3>2, AtPiece DEF WorkInv
    <3> QED BY <1>2, <1>3, <2>3, <3>1, <3>3 DEF WorkInv, PiecesInv, ChunksInv, OneHolder
  <2>5. p \notin finished
    BY <1>2, <1>3, <2>3 DEF WorkInv, PiecesInv, ChunksInv, HeldIsToCome
  <2>6. ASSUME NEW q \in AllPieces(n_graph.n), Precedes(q, p) PROVE q \in finished
    <3>1. CASE q[1] < m
      BY <1>2, <1>3, <3>1, EarlierIsFinished
    <3>2. CASE q[1] = m /\ q[2] = "convert"
      <4>1. \/ \E k \in Working, d \in 0 .. n_graph.n - 1 : q = <<k, First(k), d>>
            \/ \E k \in Products, d \in 0 .. Chunks(n_graph.n) - 1 : q = <<k, "product", d>>
        BY <1>2, <2>6, PiecesAre
      <4>2. PICK d \in 0 .. n_graph.n - 1 : q = <<m, "convert", d>>
        BY <3>2, <4>1
      <4>3. d \in Members
        BY TeamIs DEF PoolInv
      <4> QED BY <1>2, <1>3, <4>2, <4>3, EarlierIsFinished
    <3> QED BY <2>6, <3>1, <3>2 DEF Precedes
  <2>7. p \in AllPieces(n_graph.n)
    <3>1. NChunks \in Nat
      BY GraphAssumption
    <3>2. c \in 0 .. Chunks(n_graph.n) - 1
      BY <1>2, <1>6, <3>1 DEF Chunks
    <3> QED BY <1>2, <1>3, <3>2, PiecesAre
  <2>8. p[1] = m
    OBVIOUS
  <2> QED BY <1>1, <1>3, <1>4, <2>1, <2>2, <2>4, <2>5, <2>6, <2>7, <2>8, Begins
<1> QED BY <1>1, <1>2, <1>5, <1>6

\* A piece is computed.
LEMMA EndPieceFinishes ==
  ASSUME PoolInv, WorkInv, InGraph, NEW t \in Threads, EndPiece(t)
  PROVE  [Evaluation!EvaluationNext]_Evaluation!evaluationVars
<1>1. /\ pc[t] = "piece" /\ pc'[t] # "piece" /\ pc'[t] \in Computing /\ finished' = finished \union {At(t)}
      /\ UNCHANGED <<n_graph, abort, ec>> /\ OthersRemain(t) /\ (t # 0 => pc'[0] = pc[0])
  <2>1. /\ pc[t] = "piece" /\ finished' = finished \union {At(t)}
        /\ UNCHANGED <<n_graph, abort, ec, node, phase, chunk>>
    BY DEF EndPiece, At
  <2>2. PICK place \in {"barrier", "after", "set_chunk", "fetch"} : pc' = [pc EXCEPT ![t] = place]
    <3>1. phase[t] \in {"rows", "convert", "product"}
      BY DEF PoolInv, TypeOK, ThreadsTyped
    <3>2. CASE phase[t] = "convert" /\ t # 0
      BY <3>2 DEF EndPiece, GotoBarrier, Goto
    <3>3. CASE ~(phase[t] = "convert" /\ t # 0)
      <4> DEFINE to == CASE phase[t] = "rows" -> "after"
                         [] phase[t] = "convert" -> "set_chunk"
                         [] phase[t] = "product" -> IF nth[t] >= Chunks(nth[t]) THEN "after" ELSE "fetch"
      <4>1. pc' = [pc EXCEPT ![t] = to]
        BY <3>3 DEF EndPiece, Goto
      <4>2. to \in {"after", "set_chunk", "fetch"}
        BY <3>1
      <4> HIDE DEF to
      <4> QED BY <4>1, <4>2
    <3> QED BY <3>2, <3>3
  <2>3. pc \in [Threads -> Places] /\ 0 \in Threads
    BY Pool DEF PoolInv, TypeOK, ThreadsTyped
  <2> QED BY <2>1, <2>2, <2>3 DEF OthersRemain, At, Computing
<1>2. InGraph'
  BY <1>1 DEF InGraph
<1>3. At(t) \in Active /\ At(t) \in AllPieces(n_graph.n)
  BY <1>1, AtPiece DEF Active, WorkInv
<1>4. Active' = Active \ {At(t)}
  BY <1>1, PiecesDiffer, PieceEnds
<1> QED BY <1>1, <1>2, <1>3, <1>4, Finishes

\* A node has been computed: no thread is ahead of the caller, which asks the callback.
LEMMA NobodyIsAhead ==
  ASSUME PoolInv, WorkInv, InGraph, pc[0] = "after"
  PROVE  \A p \in Active \union finished : p[1] <= node[0]
<1> DEFINE m == node[0]
<1>1. /\ 0 \in Members /\ m \in 0 .. NNodes /\ NNodes \in Nat /\ PlaceOK(0) /\ ~ToBegin(0)
      /\ Progress(0) = 5 * m + 4 /\ abort = -1 /\ n_graph.n \in Nat
  BY OutsideBarrier, AtNode, Pool DEF Computing, WorkInv, Stage, PoolInv, CallerOK
<1>2. m \in Working
  BY <1>1 DEF PlaceOK, Working
<1>3. Members \subseteq Threads /\ Members = 0 .. n_graph.n - 1
  BY TeamIs DEF PoolInv
<1>4. ASSUME NEW u \in Members, NEW k \in Working, k > m
      PROVE  Progress(u) \in Nat /\ k \in Nat /\ Progress(u) < 5 * k
  <2>1. Progress(u) \in Nat /\ k \in 0 .. NNodes - 1
    BY <1>3, ProgressIs, ProductsAre
  <2>2. SUFFICES ASSUME Progress(u) >= 5 * m + 5 PROVE FALSE
    BY <1>1, <1>4, <2>1
  <2>3. Level(u) > LevelOf(m)
    BY <1>2, <2>2, LevelTellsProgress DEF WorkInv, ThreadsInv
  <2>4. LevelOf(m) \in Walls
    <3>1. m \in 0 .. NNodes - 2 /\ Kind(m) # "empty"
      BY <1>1, <1>2, <1>4, <2>1 DEF Working
    <3> QED BY <3>1, WallsAre
  <2>5. Level(0) > LevelOf(m)
    BY <1>1, <2>3, <2>4 DEF PoolInv, InStep, Same
  <2>6. Level(0) = LevelOf(m)
    BY <1>1 DEF Level, LevelInside, Computing
  <2>7. LevelOf(m) \in Int
    BY <1>2, ProductsAre
  <2> QED BY <2>5, <2>6, <2>7
<1>5. ASSUME NEW p \in Active PROVE p[1] <= m
  <2>1. PICK u \in Threads : pc[u] = "piece" /\ p = At(u)
    BY <1>5 DEF Active
  <2>2. u \in Members /\ node[u] \in Working /\ p[1] = node[u] /\ Progress(u) >= 5 * node[u]
    <3>1. u \in Members /\ node[u] \in Working
      BY <2>1, AtPiece DEF WorkInv
    <3>2. Progress(u) = 5 * node[u] \/ Progress(u) = 5 * node[u] + 3
      BY <2>1, AtPiece DEF WorkInv
    <3>3. node[u] \in Nat
      BY <3>1, ProductsAre
    <3> QED BY <2>1, <3>1, <3>2, <3>3 DEF At
  <2>3. ~(node[u] > m)
    BY <1>4, <2>2
  <2>4. node[u] \in Nat
    BY <2>2, ProductsAre
  <2> QED BY <1>1, <2>2, <2>3, <2>4
<1>6. ASSUME NEW p \in finished PROVE p[1] <= m
  <2>0. p \in AllPieces(n_graph.n)
    BY <1>6 DEF WorkInv, PiecesInv
  <2>1. CASE \E k \in Working, c \in 0 .. n_graph.n - 1 : p = <<k, First(k), c>>
    <3>1. PICK k \in Working, c \in Members : p = <<k, First(k), c>>
      BY <1>3, <2>1
    <3>2. Progress(c) >= 5 * k + 1
      BY <1>6, <3>1 DEF WorkInv, PiecesInv, OwnFinished
    <3>3. ~(k > m) /\ k \in Nat
      BY <1>4, <3>1, <3>2, ProductsAre
    <3> QED BY <1>1, <3>1, <3>3
  <2>2. CASE \E k \in Products, c \in 0 .. Chunks(n_graph.n) - 1 : p = <<k, "product", c>>
    <3>1. PICK k \in Products, c \in 0 .. Chunks(n_graph.n) - 1 : p = <<k, "product", c>>
      BY <2>2
    <3>2. k \in Working /\ k \in Nat /\ c \in Nat
      BY <3>1, ProductsAre
    <3>3. SUFFICES ASSUME k > m PROVE FALSE
      BY <1>1, <3>1, <3>2
    <3>4. CASE c >= n_graph.n
      <4>1. Progress(0) >= 5 * k + 2
        BY <1>6, <3>1, <3>2, <3>4 DEF WorkInv, PiecesInv, ChunksInv, FinishedWasGiven
      <4> QED BY <1>1, <1>4, <3>2, <3>3, <4>1
    <3>5. CASE ~(c >= n_graph.n)
      <4>1. c \in Members
        BY <1>1, <1>3, <3>2, <3>5
      <4>2. Holds(c, k, c)
        BY <1>4, <3>2, <3>3, <4>1 DEF Holds
      <4> QED BY <1>6, <3>1, <3>2, <4>1, <4>2 DEF WorkInv, PiecesInv, ChunksInv, HeldIsToCome
    <3> QED BY <3>4, <3>5
  <2> QED BY <1>1, <2>0, <2>1, <2>2, PiecesAre
<1> QED BY <1>5, <1>6

LEMMA AfterNodeAborts ==
  ASSUME PoolInv, WorkInv, InGraph, NEW t \in Threads, AfterNode(t)
  PROVE  [Evaluation!EvaluationNext]_Evaluation!evaluationVars
<1>1. /\ pc[t] = "after" /\ pc'[t] \in {"barrier", "node"} /\ OthersRemain(t)
      /\ UNCHANGED <<n_graph, finished>> /\ (t # 0 => pc'[0] = pc[0])
      /\ \/ t = 0 /\ abort' = node[t] + 1 /\ ec' = "aborted"
         \/ UNCHANGED <<abort, ec>>
  <2>1. PICK place \in {"barrier", "node"} : pc' = [pc EXCEPT ![t] = place]
    BY DEF AfterNode, GotoBarrier, Goto
  <2>2. pc \in [Threads -> Places] /\ node \in [Threads -> 0 .. NNodes] /\ 0 \in Threads
    BY Pool DEF PoolInv, TypeOK, ThreadsTyped
  <2>3. node' = node \/ node' = [node EXCEPT ![t] = @ + 1]
    BY DEF AfterNode
  <2> QED BY <2>1, <2>2, <2>3 DEF AfterNode, OthersRemain, At
<1>2. InGraph' /\ Active' = Active
  BY <1>1, NothingIsSeen DEF InGraph, Computing
<1>3. CASE UNCHANGED <<abort, ec>>
  BY <1>1, <1>2, <1>3, Stutters
<1>4. CASE t = 0 /\ abort' = node[t] + 1 /\ ec' = "aborted"
  <2>0. pc[0] = "after" /\ abort' = node[0] + 1 /\ ec' = "aborted"
    BY <1>1, <1>4
  <2>1. PICK m : m = node[0]
    OBVIOUS
  <2>2. m \in 0 .. NNodes - 1 /\ \A p \in Active \union finished : p[1] <= m
    <3>1. node[0] \in 0 .. NNodes - 1
      <4>1. node[0] \in 0 .. NNodes /\ NNodes \in Nat /\ PlaceOK(0)
        BY Pool DEF PoolInv, TypeOK, ThreadsTyped
      <4> QED BY <2>0, <4>1 DEF PlaceOK
    <3> QED BY <2>0, <2>1, <3>1, NobodyIsAhead
  <2>3. abort = -1 /\ ec # "aborted"
    BY <2>0 DEF PoolInv, CallerOK, WorkInv, ThreadsInv
  <2>4. Limit' = m + 1 /\ (InGraph /\ ec = "aborted")' /\ ~(InGraph /\ ec = "aborted")
    BY <1>2, <2>0, <2>1, <2>2, <2>3 DEF Limit
  <2>5. Evaluation!Abort(m)
    BY <1>1, <1>2, <2>2, <2>4 DEF Evaluation!Abort, Active, At, Limit
  <2> QED BY <2>2, <2>5, SameGraph DEF Evaluation!EvaluationNext
<1> QED BY <1>1, <1>3, <1>4

\* The caller is through the last barrier.
LEMMA EndComputeReturns ==
  ASSUME PoolInv, WorkInv, EndCompute
  PROVE  Evaluation!EvaluationNext
<1>0. 0 \in Threads /\ NNodes \in Nat /\ abort \in -1 .. NNodes
  BY Pool DEF PoolInv, TypeOK, PoolTyped
<1>1. /\ pc[0] = "computed" /\ pc'[0] = "idle" /\ UNCHANGED <<n_graph, finished>> /\ OthersRemain(0)
  BY <1>0 DEF EndCompute, Goto, poolVars, OthersRemain, At, PoolInv, TypeOK, ThreadsTyped
<1>2. InGraph /\ ~InGraph'
  BY <1>1 DEF InGraph, Computing
<1>3. Active = {} /\ Active' = {}
  <2>1. \A u \in Threads : pc[u] # "piece"
    <3>1. \A u \in Workers : pc[u] = "piece" => Stale(u)
      BY <1>1, WorkersAreQuiet DEF QuietPlaces, CallerPlaces, Computing
    <3> QED BY <1>1, <3>1 DEF Stale, Workers
  <2>2. Active = {}
    BY <2>1 DEF Active
  <2> QED BY <1>0, <1>1, <2>2, NothingIsSeen
<1>4. ASSUME NEW p \in AllPieces(n_graph.n), p[1] < Limit PROVE p \in finished
  <2>1. p[1] \in Working
    <3>1. n_graph.n \in Nat
      BY TeamIs DEF PoolInv
    <3>2. \/ \E k \in Working, c \in 0 .. n_graph.n - 1 : p = <<k, First(k), c>>
          \/ \E k \in Products, c \in 0 .. Chunks(n_graph.n) - 1 : p = <<k, "product", c>>
      BY <1>4, <3>1, PiecesAre
    <3> QED BY <3>2, ProductsAre
  <2>2. abort = -1 \/ p[1] < abort
    BY <1>2, <1>4 DEF Limit
  <2>3. \A u \in Members : Progress(u) >= 5 * p[1] + 4
    BY <1>1, <1>2, <2>1, <2>2, MembersApart DEF WorkInv, Apart
  <2> QED BY <1>2, <2>1, <2>3, PassedIsFinished
<1>5. Limit' = NNodes /\ ~(InGraph /\ ec = "aborted")'
  BY <1>2 DEF Limit, NNodes
<1>6. Evaluation!Return
  BY <1>1, <1>2, <1>3, <1>4, <1>5, SameGraph DEF Evaluation!Return, Active, At, Limit
<1> QED BY <1>6 DEF Evaluation!EvaluationNext

LEMMA PublishStarts ==
  ASSUME PoolInv, WorkInv, PublishGraph
  PROVE  Evaluation!EvaluationNext
<1>0. 0 \in Threads /\ NNodes \in Nat
  BY Pool
<1>1. /\ pc[0] = "kickoff" /\ pc'[0] = "kickoff_signal" /\ UNCHANGED <<abort, ec>> /\ OthersRemain(0)
      /\ finished' = {} /\ n_graph'.n = request
  BY <1>0 DEF PublishGraph, Goto, OthersRemain, At, PoolInv, TypeOK, ThreadsTyped
<1>2. ~InGraph /\ InGraph'
  BY <1>1 DEF InGraph, Computing
<1>3. abort = -1 /\ ec = "success" /\ request \in 1 .. NThreads
  BY <1>1 DEF PoolInv, CallerOK, WorkInv, ThreadsInv
<1>4. Limit = NNodes /\ Limit' = NNodes /\ ~(InGraph /\ ec = "aborted") /\ ~(InGraph /\ ec = "aborted")'
  BY <1>1, <1>2, <1>3 DEF Limit, NNodes
<1>5. Active' = Active
  BY <1>0, <1>1, NothingIsSeen
<1>6. Evaluation!Start
  BY <1>1, <1>2, <1>3, <1>4, <1>5 DEF Evaluation!Start, Active, At, Limit
<1> QED BY <1>6 DEF Evaluation!EvaluationNext

\* The other steps of a computation are not seen.
LEMMA ComputeEvaluates ==
  ASSUME PoolInv, PoolInv', WorkInv, NEW t \in Threads, ComputeStep(t) \/ (t = 0 /\ SetChunk(t)),
         t = 0 => InGraph
  PROVE  [Evaluation!EvaluationNext]_Evaluation!evaluationVars
<1>1. CASE BeginNode(t) \/ EndPiece(t) \/ BeginChunk(t) \/ AfterNode(t)
  <2>1. pc[t] \in Computing /\ ~Stale(t)
    BY <1>1 DEF BeginNode, EndPiece, BeginChunk, AfterNode, Computing, Stale
  <2>2. InGraph
    <3>1. t # 0 /\ ~InGraph => pc[0] \in QuietPlaces /\ t \in Workers
      BY Pool DEF InGraph, QuietPlaces, CallerPlaces, PoolInv, PlaceOK, Workers
    <3> QED BY <2>1, <3>1, WorkersAreQuiet
  <2> QED BY <1>1, <2>2, BeginNodeBegins, EndPieceFinishes, BeginChunkBegins, AfterNodeAborts
<1>2. CASE \/ EnterGraph(t) \/ LeaveLoop(t) \/ SkipNode(t) \/ (t = 0 /\ SetChunk(t)) \/ FetchChunk(t)
           \/ PassAlone(t) \/ EnterBarrier(t) \/ InBarrier(t) \/ LeaveBarrier(t)
  <2>0. /\ pc \in [Threads -> Places] /\ node \in [Threads -> 0 .. NNodes] /\ chunk \in [Threads -> Nat]
        /\ ret[t] \in {"computed", "node", "chunks"} /\ 0 \in Threads
    BY Pool DEF PoolInv, TypeOK, ThreadsTyped
  <2>1. /\ pc[t] \in Computing \ {"piece"} /\ UNCHANGED <<n_graph, finished, abort, ec, phase>>
        /\ \A u \in Threads \ {t} : pc'[u] = pc[u] /\ node'[u] = node[u] /\ chunk'[u] = chunk[u]
        /\ pc'[t] \in (Computing \union {"computed", "pause_loop"}) \ {"piece"}
        /\ t = 0 => pc'[t] # "pause_loop"
    <3>1. CASE EnterGraph(t) \/ LeaveLoop(t) \/ SkipNode(t)
      BY <2>0, <3>1 DEF EnterGraph, LeaveLoop, SkipNode, GotoBarrier, Goto, poolVars, Computing
    <3>2. CASE SetChunk(t) \/ FetchChunk(t)
      BY <2>0, <3>2 DEF SetChunk, FetchChunk, GotoBarrier, Goto, Computing
    <3>3. CASE EnterBarrier(t) \/ InBarrier(t)
      BY <2>0, <3>3 DEF EnterBarrier, InBarrier, poolVars, localVars, Computing
    <3>4. CASE PassAlone(t) \/ LeaveBarrier(t)
      <4>1. pc[t] = "barrier" /\ AfterBarrier(t)
        BY <3>4 DEF PassAlone, LeaveBarrier
      <4> QED BY <2>0, <4>1 DEF AfterBarrier, Goto, poolVars, Computing
    <3> QED BY <1>2, <3>1, <3>2, <3>3, <3>4
  <2>2. OthersRemain(t)
    BY <2>1 DEF OthersRemain, At
  <2>3. InGraph' = InGraph
    <3>1. CASE t = 0
      BY <2>1, <3>1 DEF InGraph, Computing
    <3>2. CASE t # 0
      BY <2>0, <2>1, <3>2 DEF InGraph
    <3> QED BY <3>1, <3>2
  <2>4. Active' = Active
    BY <2>1, <2>2, NothingIsSeen DEF Computing
  <2> QED BY <2>1, <2>3, <2>4, Stutters
<1> QED BY <1>1, <1>2 DEF ComputeStep

\* Nor are a worker that waits for a graph, and the caller outside of a graph.
LEMMA WaitingIsNotSeen ==
  ASSUME PoolInv, NEW t \in Workers,
         \/ TestPause(t) \/ LockPaused(t) \/ WaitPaused(t) \/ WakePaused(t)
         \/ TestStop(t) \/ PollFlags(t) \/ PollGraph(t) \/ LockAndTest(t) \/ WaitForWork(t)
         \/ CheckPending(t) \/ SpuriousWakeup(t)
  PROVE  UNCHANGED Evaluation!evaluationVars
<1>0. t \in Threads /\ t # 0 /\ 0 \in Threads /\ pc \in [Threads -> Places]
  BY Pool DEF Workers, PoolInv, TypeOK, ThreadsTyped
<1>1. CASE SpuriousWakeup(t)
  <2>1. UNCHANGED <<n_graph, finished, abort, ec, pc, node, phase, chunk>>
    BY <1>1 DEF SpuriousWakeup, localVars
  <2>2. InGraph' = InGraph /\ Active' = Active
    BY <2>1 DEF InGraph, Active, At
  <2> QED BY <2>1, <2>2, Stutters
<1>2. CASE ~SpuriousWakeup(t)
  <2>1. /\ UNCHANGED <<n_graph, finished, abort, ec, node, phase, chunk>>
        /\ \A u \in Threads \ {t} : pc'[u] = pc[u]
        /\ pc[t] # "piece" /\ pc'[t] # "piece"
    <3>1. CASE TestPause(t) \/ WakePaused(t) \/ TestStop(t) \/ PollFlags(t)
      BY <1>0, <3>1 DEF TestPause, WakePaused, TestStop, PollFlags, Goto, poolVars
    <3>2. CASE LockPaused(t) \/ WaitPaused(t) \/ WaitForWork(t)
      BY <1>0, <3>2 DEF LockPaused, WaitPaused, WaitForWork, CondWait, Goto
    <3>3. CASE PollGraph(t) \/ LockAndTest(t)
      BY <1>0, <3>3 DEF PollGraph, LockAndTest, Goto, poolVars
    <3>4. CASE CheckPending(t)
      BY <1>0, <3>4 DEF CheckPending, Goto, poolVars
    <3> QED BY <1>2, <3>1, <3>2, <3>3, <3>4
  <2>2. OthersRemain(t) /\ InGraph' = InGraph
    BY <1>0, <2>1 DEF OthersRemain, At, InGraph
  <2>3. Active' = Active
    BY <1>0, <2>1, <2>2, NothingIsSeen
  <2> QED BY <2>1, <2>2, <2>3, Stutters
<1> QED BY <1>1, <1>2

LEMMA CallerIsNotSeen ==
  ASSUME PoolInv, Call \/ SignalGraph \/ FreeSignal \/ Join
  PROVE  UNCHANGED Evaluation!evaluationVars
<1>0. 0 \in Threads /\ pc \in [Threads -> Places]
  BY Pool DEF PoolInv, TypeOK, ThreadsTyped
<1>1. /\ UNCHANGED <<n_graph, finished, node, phase, chunk>>
      /\ \A u \in Threads \ {0} : pc'[u] = pc[u]
      /\ pc[0] # "piece" /\ pc'[0] # "piece" /\ InGraph' = InGraph
      /\ InGraph => UNCHANGED <<abort, ec>>
  <2>1. CASE Call
    BY <1>0, <2>1 DEF Call, BeginCompute, SetPause, FreeStop, Goto, localVars, InGraph, Computing
  <2>2. CASE SignalGraph \/ FreeSignal \/ Join
    BY <1>0, <2>2 DEF SignalGraph, FreeSignal, Join, Goto, poolVars, InGraph, Computing
  <2> QED BY <2>1, <2>2
<1>2. OthersRemain(0)
  BY <1>1 DEF OthersRemain, At
<1>3. Active' = Active
  BY <1>0, <1>1, <1>2, NothingIsSeen
<1> QED BY <1>1, <1>3, Stutters

LEMMA PoolEvaluates ==
  PoolInv /\ PoolInv' /\ WorkInv /\ [Next]_vars => [Evaluation!EvaluationNext]_Evaluation!evaluationVars
<1> SUFFICES ASSUME PoolInv, PoolInv', WorkInv, [Next]_vars
             PROVE  [Evaluation!EvaluationNext]_Evaluation!evaluationVars
  OBVIOUS
<1>1. CASE UNCHANGED vars
  <2>1. UNCHANGED <<n_graph, finished, abort, ec, pc, node, phase, chunk>>
    BY <1>1 DEF vars, poolVars, localVars
  <2>2. InGraph' = InGraph /\ Active' = Active
    BY <2>1 DEF InGraph, Active, At
  <2> QED BY <2>1, <2>2, Stutters
<1>2. CASE Call
  BY <1>2, CallerIsNotSeen
<1>3. CASE CallerStep
  <2>1. CASE ComputeStep(0) \/ SetChunk(0)
    <3>1. pc[0] \in Computing
      BY <2>1 DEF ComputeStep, EnterGraph, LeaveLoop, SkipNode, BeginNode, EndPiece, FetchChunk,
                  BeginChunk,
         AfterNode, PassAlone, EnterBarrier, InBarrier, LeaveBarrier, SetChunk, Computing
    <3> QED BY <2>1, <3>1, ComputeEvaluates, Pool DEF InGraph
  <2> QED BY <1>3, <2>1, CallerIsNotSeen, PublishStarts, EndComputeReturns DEF CallerStep
<1>4. CASE \E t \in Workers : WorkerStep(t) \/ SpuriousWakeup(t)
  BY <1>4, WaitingIsNotSeen, ComputeEvaluates DEF WorkerStep, Workers
<1> QED BY <1>1, <1>2, <1>3, <1>4 DEF Next, Freed

LEMMA NothingEvaluatedYet == Init => Evaluation!EvaluationInit
<1> SUFFICES ASSUME Init PROVE Evaluation!EvaluationInit
  OBVIOUS
<1>1. pc[0] = "idle" /\ \A u \in Threads : pc[u] # "piece"
  BY Pool DEF Init
<1>2. ~InGraph /\ Active = {}
  BY <1>1 DEF InGraph, Computing, Active
<1> QED BY <1>2, SameGraph DEF Init, Evaluation!EvaluationInit, Active, At

\* However the threads of the pool interleave, whatever the graph and their number: the nodes are
\* computed one after the other, every piece of a node once and by one thread, a product after
\* its whole operand has been converted, and ggml_graph_compute returns when all of them up to
\* the last, or to the one at which it was aborted, are complete.
THEOREM PoolEvaluatesGraphs == Spec => ImplementsEvaluation
BY PoolAlways, WorkAlways, PoolEvaluates, NothingEvaluatedYet, PTL
   DEF Spec, ImplementsEvaluation, Evaluation!EvaluationSpec
=============================================================================
