----------------------------- MODULE Threadpool -----------------------------
(***************************************************************************)
(* The thread pool of the native engine, ggml-cpu.c, built without OpenMP: *)
(* thread 0 is the caller of ggml_graph_compute, the others are workers    *)
(* that poll for a new graph, sleep on a condition variable, are paused,   *)
(* and are stopped when the pool is freed.  Every access to a field that   *)
(* another thread may change in between is a step of its own; memory is    *)
(* sequentially consistent.                                                *)
(***************************************************************************)
EXTENDS ComputeGraph, GgmlBarrier

CONSTANTS
  Nobody,      \* the mutex is free
  MaxGraphs    \* bound: graphs that the caller computes

Workers == Threads \ {0}

ASSUME PoolAssumption ==
  /\ Threads = 0 .. NThreads - 1
  /\ Nobody \notin Threads
  /\ MaxGraphs \in Nat

VARIABLES
  \* struct ggml_threadpool
  mutex, waiting,    \* the mutex's holder; the threads in ggml_cond_wait
  n_graph,           \* [id, n]: the graphs so far and the threads of this one, one atomic int
  current_chunk, stop, pause,
  abort,             \* the node before which to stop, -1 if none
  ec,
  \* struct ggml_compute_state, per thread
  last_graph, pending,
  \* locals
  pc, node, phase, chunk, nth,
  ret,               \* where the thread goes when it leaves the barrier
  request,           \* n_threads of ggml_graph_compute
  finished           \* history: the pieces computed of this graph

poolVars  == <<mutex, waiting, n_graph, current_chunk, stop, pause, abort, ec, request, finished>>
stateVars == <<last_graph, pending>>
localVars == <<pc, node, phase, chunk, nth, ret>>
vars == <<poolVars, stateVars, localVars, barrierVars>>

Goto(t, place) == pc' = [pc EXCEPT ![t] = place]

\* ggml_threadpool_new_impl: a pool is created paused or not.
Init ==
  /\ mutex = Nobody /\ waiting = {}
  /\ n_graph = [id |-> 0, n |-> 0]
  /\ current_chunk = 0
  /\ stop = FALSE /\ pause \in BOOLEAN
  /\ abort = -1 /\ ec = "success"
  /\ last_graph = [t \in Threads |-> [id |-> 0, n |-> 0]]
  /\ pending = [t \in Threads |-> FALSE]
  /\ pc = [t \in Threads |-> IF t = 0 THEN "idle" ELSE "pause_loop"]
  /\ node = [t \in Threads |-> 0]
  /\ phase = [t \in Threads |-> "rows"]
  /\ chunk = [t \in Threads |-> 0]
  /\ nth = [t \in Threads |-> 0]
  /\ ret = [t \in Threads |-> "computed"]
  /\ request = 0
  /\ finished = {}
  /\ BarrierInit

-----------------------------------------------------------------------------
(***************************************************************************)
(* The caller.                                                             *)
(***************************************************************************)

\* ggml_graph_compute up to the kick-off; more threads than there are are not used.
BeginCompute(n) ==
  /\ pc[0] = "idle"
  /\ n_graph.id < MaxGraphs
  /\ current_chunk' = 0
  /\ abort' = -1
  /\ ec' = "success"
  /\ request' = IF n > NThreads THEN NThreads ELSE n
  /\ Goto(0, "kickoff")
  /\ UNCHANGED <<mutex, waiting, n_graph, stop, pause, finished, stateVars,
                 node, phase, chunk, nth, ret, barrierVars>>

\* Mutant: the mutex is not taken, as if all workers were polling.
MutantPublishGraph ==
  /\ pc[0] = "kickoff"
  /\ n_graph' = [id |-> n_graph.id + 1, n |-> request]
  /\ finished' = {}
  /\ Goto(0, "kickoff_signal")
  /\ UNCHANGED <<mutex, waiting, current_chunk, stop, pause, abort, ec, request, stateVars,
                 node, phase, chunk, nth, ret, barrierVars>>

\* ggml_graph_compute_kickoff: lock, publish the new n_graph ...
PublishGraph ==
  /\ pc[0] = "kickoff"
  /\ mutex = Nobody
  /\ mutex' = 0
  /\ n_graph' = [id |-> n_graph.id + 1, n |-> request]
  /\ finished' = {}
  /\ Goto(0, "kickoff_signal")
  /\ UNCHANGED <<waiting, current_chunk, stop, pause, abort, ec, request, stateVars,
                 node, phase, chunk, nth, ret, barrierVars>>

\* ... resume, broadcast, unlock.
SignalGraph ==
  /\ pc[0] = "kickoff_signal"
  /\ pause' = FALSE
  /\ waiting' = {}
  /\ mutex' = Nobody
  /\ Goto(0, "enter")
  /\ UNCHANGED <<n_graph, current_chunk, stop, abort, ec, request, finished, stateVars,
                 node, phase, chunk, nth, ret, barrierVars>>

EndCompute ==
  /\ pc[0] = "computed"
  /\ Goto(0, "idle")
  /\ UNCHANGED <<poolVars, stateVars, node, phase, chunk, nth, ret, barrierVars>>

\* ggml_threadpool_pause and ggml_threadpool_resume, each under the mutex.
SetPause(p) ==
  /\ pc[0] = "idle"
  /\ mutex = Nobody
  /\ pause # p
  /\ pause' = p
  /\ waiting' = {}
  /\ UNCHANGED <<mutex, n_graph, current_chunk, stop, abort, ec, request, finished, stateVars,
                 localVars, barrierVars>>

\* ggml_threadpool_free: lock, stop ...
FreeStop ==
  /\ pc[0] = "idle"
  /\ mutex = Nobody
  /\ mutex' = 0
  /\ stop' = TRUE
  /\ Goto(0, "free_signal")
  /\ UNCHANGED <<waiting, n_graph, current_chunk, pause, abort, ec, request, finished, stateVars,
                 node, phase, chunk, nth, ret, barrierVars>>

\* ... resume, broadcast, unlock ...
FreeSignal ==
  /\ pc[0] = "free_signal"
  /\ pause' = FALSE
  /\ waiting' = {}
  /\ mutex' = Nobody
  /\ Goto(0, "join")
  /\ UNCHANGED <<n_graph, current_chunk, stop, abort, ec, request, finished, stateVars,
                 node, phase, chunk, nth, ret, barrierVars>>

\* ... and join the workers.
Join ==
  /\ pc[0] = "join"
  /\ \A t \in Workers : pc[t] = "exited"
  /\ Goto(0, "freed")
  /\ UNCHANGED <<poolVars, stateVars, node, phase, chunk, nth, ret, barrierVars>>

-----------------------------------------------------------------------------
(***************************************************************************)
(* A worker: ggml_graph_compute_secondary_thread.                          *)
(***************************************************************************)

\* while (pause)
TestPause(t) ==
  /\ pc[t] = "pause_loop"
  /\ Goto(t, IF pause THEN "pause_lock" ELSE "stop_check")
  /\ UNCHANGED <<poolVars, stateVars, node, phase, chunk, nth, ret, barrierVars>>

\* lock, test pause again; if it is not set any more, unlock.
LockPaused(t) ==
  /\ pc[t] = "pause_lock"
  /\ mutex = Nobody
  /\ IF pause
     THEN mutex' = t /\ Goto(t, "pause_wait")
     ELSE UNCHANGED mutex /\ Goto(t, "pause_loop")
  /\ UNCHANGED <<waiting, n_graph, current_chunk, stop, pause, abort, ec, request, finished,
                 stateVars, node, phase, chunk, nth, ret, barrierVars>>

\* ggml_cond_wait releases the mutex; from is the place before it, to the place in it.
CondWait(t, from, to) ==
  /\ pc[t] = from
  /\ waiting' = waiting \union {t}
  /\ mutex' = Nobody
  /\ Goto(t, to)
  /\ UNCHANGED <<n_graph, current_chunk, stop, pause, abort, ec, request, finished, stateVars,
                 node, phase, chunk, nth, ret, barrierVars>>

WaitPaused(t) == CondWait(t, "pause_wait", "paused")

\* The thread is awake: it locks and unlocks the mutex.
WakePaused(t) ==
  /\ pc[t] = "paused"
  /\ t \notin waiting
  /\ mutex = Nobody
  /\ Goto(t, "pause_loop")
  /\ UNCHANGED <<poolVars, stateVars, node, phase, chunk, nth, ret, barrierVars>>

SpuriousWakeup(t) ==
  /\ t \in waiting
  /\ waiting' = waiting \ {t}
  /\ UNCHANGED <<mutex, n_graph, current_chunk, stop, pause, abort, ec, request, finished,
                 stateVars, localVars, barrierVars>>

TestStop(t) ==
  /\ pc[t] = "stop_check"
  /\ Goto(t, IF stop THEN "exited" ELSE "poll")
  /\ UNCHANGED <<poolVars, stateVars, node, phase, chunk, nth, ret, barrierVars>>

\* ggml_graph_compute_thread_ready is Flagged, or else NewGraph.
Flagged(t) == pending[t] \/ stop \/ pause
NewGraph(t) == n_graph # last_graph[t]

\* A new graph is noted whether or not it is for this thread.
NoteGraph(t) ==
  /\ pending' = [pending EXCEPT ![t] = t < n_graph.n]
  /\ last_graph' = [last_graph EXCEPT ![t] = n_graph]

\* ggml_graph_compute_poll_for_work: read the flags, then n_graph, for some rounds.
PollFlags(t) ==
  /\ pc[t] = "poll"
  /\ Goto(t, IF ~Flagged(t) THEN "poll_graph" ELSE IF pending[t] THEN "check" ELSE "lock")
  /\ UNCHANGED <<poolVars, stateVars, node, phase, chunk, nth, ret, barrierVars>>

PollGraph(t) ==
  /\ pc[t] = "poll_graph"
  /\ \/ /\ NewGraph(t)
        /\ NoteGraph(t)
        /\ Goto(t, IF t < n_graph.n THEN "check" ELSE "lock")
     \/ /\ ~NewGraph(t)
        /\ Goto(t, "poll") \/ Goto(t, "lock")
        /\ UNCHANGED stateVars
  /\ UNCHANGED <<poolVars, node, phase, chunk, nth, ret, barrierVars>>

\* ggml_graph_compute_check_for_work, the part under the mutex.
LockAndTest(t) ==
  /\ pc[t] = "lock" \/ (pc[t] = "sleeping" /\ t \notin waiting)
  /\ mutex = Nobody
  /\ \/ /\ Flagged(t)
        /\ Goto(t, "check")
        /\ UNCHANGED <<stateVars, mutex>>
     \/ /\ ~Flagged(t) /\ NewGraph(t)
        /\ NoteGraph(t)
        /\ Goto(t, "check")
        /\ UNCHANGED mutex
     \/ /\ ~Flagged(t) /\ ~NewGraph(t)
        /\ mutex' = t
        /\ Goto(t, "cond_wait")
        /\ UNCHANGED stateVars
  /\ UNCHANGED <<waiting, n_graph, current_chunk, stop, pause, abort, ec, request, finished,
                 node, phase, chunk, nth, ret, barrierVars>>

WaitForWork(t) == CondWait(t, "cond_wait", "sleeping")

CheckPending(t) ==
  /\ pc[t] = "check"
  /\ pending' = [pending EXCEPT ![t] = FALSE]
  /\ Goto(t, IF pending[t] THEN "enter" ELSE "pause_loop")
  /\ UNCHANGED <<poolVars, last_graph, node, phase, chunk, nth, ret, barrierVars>>

-----------------------------------------------------------------------------
(***************************************************************************)
(* Any thread of the graph: ggml_graph_compute_thread.                     *)
(***************************************************************************)

EnterGraph(t) ==
  /\ pc[t] = "enter"
  /\ nth' = [nth EXCEPT ![t] = n_graph.n]
  /\ node' = [node EXCEPT ![t] = 0]
  /\ Goto(t, "node")
  /\ UNCHANGED <<poolVars, stateVars, phase, chunk, ret, barrierVars>>

GotoBarrier(t, then) == Goto(t, "barrier") /\ ret' = [ret EXCEPT ![t] = then]

\* Negation of the condition of the loop over the nodes.
LoopEnds(t) == node[t] = NNodes \/ abort = node[t]

\* Mutant: the barrier at the end is left out.
MutantLeaveLoop(t) ==
  /\ pc[t] = "node" /\ LoopEnds(t)
  /\ Goto(t, IF t = 0 THEN "computed" ELSE "pause_loop")
  /\ UNCHANGED <<poolVars, stateVars, node, phase, chunk, nth, ret, barrierVars>>

LeaveLoop(t) ==
  /\ pc[t] = "node" /\ LoopEnds(t)
  /\ GotoBarrier(t, "computed")
  /\ UNCHANGED <<poolVars, stateVars, node, phase, chunk, nth, barrierVars>>

\* Operations without a computation, and nodes not flagged for computation.
SkipNode(t) ==
  /\ pc[t] = "node" /\ ~LoopEnds(t)
  /\ Kind(node[t]) = "empty"
  /\ node' = [node EXCEPT ![t] = @ + 1]
  /\ UNCHANGED <<poolVars, stateVars, pc, phase, chunk, nth, ret, barrierVars>>

\* ggml_compute_forward begins: the thread's rows, or its part of the conversion.
BeginNode(t) ==
  /\ pc[t] = "node" /\ ~LoopEnds(t)
  /\ Kind(node[t]) # "empty"
  /\ phase' = [phase EXCEPT ![t] = IF Kind(node[t]) = "mul_mat" THEN "convert" ELSE "rows"]
  /\ chunk' = [chunk EXCEPT ![t] = t]
  /\ Goto(t, "piece")
  /\ UNCHANGED <<poolVars, stateVars, node, nth, ret, barrierVars>>

\* A piece is computed.  After the conversion thread 0 sets current_chunk; after a chunk of
\* the product the next one is fetched, unless every thread has only one.
EndPiece(t) ==
  /\ pc[t] = "piece"
  /\ finished' = finished \union {<<node[t], phase[t], chunk[t]>>}
  /\ IF phase[t] = "convert" /\ t # 0
     THEN GotoBarrier(t, "chunks")
     ELSE /\ Goto(t, CASE phase[t] = "rows" -> "after"
                       [] phase[t] = "convert" -> "set_chunk"
                       [] phase[t] = "product" ->
                            IF nth[t] >= Chunks(nth[t]) THEN "after" ELSE "fetch")
          /\ UNCHANGED ret
  /\ UNCHANGED <<mutex, waiting, n_graph, current_chunk, stop, pause, abort, ec, request,
                 stateVars, node, phase, chunk, nth, barrierVars>>

\* Mutant: the chunks that the threads start with are not counted.
MutantSetChunk(t) ==
  /\ pc[t] = "set_chunk"
  /\ current_chunk' = 0
  /\ GotoBarrier(t, "chunks")
  /\ UNCHANGED <<mutex, waiting, n_graph, stop, pause, abort, ec, request, finished,
                 stateVars, node, phase, chunk, nth, barrierVars>>

SetChunk(t) ==
  /\ pc[t] = "set_chunk"
  /\ current_chunk' = nth[t]
  /\ GotoBarrier(t, "chunks")
  /\ UNCHANGED <<mutex, waiting, n_graph, stop, pause, abort, ec, request, finished,
                 stateVars, node, phase, chunk, nth, barrierVars>>

FetchChunk(t) ==
  /\ pc[t] = "fetch"
  /\ chunk' = [chunk EXCEPT ![t] = current_chunk]
  /\ current_chunk' = current_chunk + 1
  /\ Goto(t, "chunks")
  /\ UNCHANGED <<mutex, waiting, n_graph, stop, pause, abort, ec, request, finished,
                 stateVars, node, phase, nth, ret, barrierVars>>

\* while (current_chunk < nchunk0 * nchunk1)
BeginChunk(t) ==
  /\ pc[t] = "chunks"
  /\ IF chunk[t] < Chunks(nth[t])
     THEN Goto(t, "piece") /\ phase' = [phase EXCEPT ![t] = "product"]
     ELSE Goto(t, "after") /\ UNCHANGED phase
  /\ UNCHANGED <<poolVars, stateVars, node, chunk, nth, ret, barrierVars>>

\* Thread 0 asks the abort callback; a barrier follows unless it was the last node.
AfterNode(t) ==
  /\ pc[t] = "after"
  /\ \/ /\ t = 0
        /\ abort' = node[t] + 1
        /\ ec' = "aborted"
     \/ UNCHANGED <<abort, ec>>
  /\ IF node[t] + 1 < NNodes
     THEN GotoBarrier(t, "node") /\ UNCHANGED node
     ELSE /\ node' = [node EXCEPT ![t] = @ + 1]
          /\ Goto(t, "node")
          /\ UNCHANGED ret
  /\ UNCHANGED <<mutex, waiting, n_graph, current_chunk, stop, pause, request, finished,
                 stateVars, phase, chunk, nth, barrierVars>>

\* The thread is through the barrier: at the next node, at its first chunk, or done.
AfterBarrier(t) ==
  /\ node' = IF ret[t] = "node" THEN [node EXCEPT ![t] = @ + 1] ELSE node
  /\ chunk' = IF ret[t] = "chunks" THEN [chunk EXCEPT ![t] = t] ELSE chunk
  /\ Goto(t, IF ret[t] = "computed" /\ t # 0 THEN "pause_loop" ELSE ret[t])
  /\ UNCHANGED <<poolVars, stateVars, phase, nth, ret>>

\* ggml_barrier reads the number of threads from n_graph; one thread does not wait.
PassAlone(t) ==
  /\ pc[t] = "barrier" /\ bpc[t] = "outside"
  /\ n_graph.n = 1
  /\ AfterBarrier(t)
  /\ UNCHANGED barrierVars

EnterBarrier(t) ==
  /\ pc[t] = "barrier"
  /\ n_graph.n # 1
  /\ ReadPassed(t)
  /\ UNCHANGED <<poolVars, stateVars, localVars>>

InBarrier(t) ==
  /\ pc[t] = "barrier"
  /\ Arrive(t, n_graph.n) \/ ResetBarrier(t)
  /\ UNCHANGED <<poolVars, stateVars, localVars>>

LeaveBarrier(t) ==
  /\ pc[t] = "barrier"
  /\ Release(t) \/ StopSpinning(t)
  /\ AfterBarrier(t)

-----------------------------------------------------------------------------
ComputeStep(t) ==
  \/ EnterGraph(t) \/ LeaveLoop(t) \/ SkipNode(t) \/ BeginNode(t)
  \/ EndPiece(t) \/ FetchChunk(t) \/ BeginChunk(t) \/ AfterNode(t)
  \/ PassAlone(t) \/ EnterBarrier(t) \/ InBarrier(t) \/ LeaveBarrier(t)

\* What the caller does once it has called a function of the pool.
CallerStep ==
  \/ PublishGraph \/ SignalGraph \/ SetChunk(0) \/ ComputeStep(0) \/ EndCompute
  \/ FreeSignal \/ Join

WorkerStep(t) ==
  \/ TestPause(t) \/ LockPaused(t) \/ WaitPaused(t) \/ WakePaused(t)
  \/ TestStop(t) \/ PollFlags(t) \/ PollGraph(t) \/ LockAndTest(t) \/ WaitForWork(t)
  \/ CheckPending(t) \/ ComputeStep(t)

Call ==
  \/ \E n \in 1 .. NThreads + 1 : BeginCompute(n)
  \/ \E p \in BOOLEAN : SetPause(p)
  \/ FreeStop

\* The pool is gone: nothing happens any more.
Freed == pc[0] = "freed" /\ UNCHANGED vars

Next ==
  \/ Call
  \/ CallerStep
  \/ \E t \in Workers : WorkerStep(t) \/ SpuriousWakeup(t)
  \/ Freed

LockStep(t) == LockPaused(t) \/ WakePaused(t) \/ LockAndTest(t)

\* Every thread is scheduled, and a thread that tries again and again to lock the mutex gets
\* it in the end, even while sleepers wake up spuriously.  Nobody is forced to call the pool.
Spec ==
  /\ Init /\ [][Next]_vars
  /\ WF_vars(CallerStep) /\ SF_vars(PublishGraph)
  /\ \A t \in Workers : WF_vars(WorkerStep(t)) /\ SF_vars(LockStep(t))

-----------------------------------------------------------------------------
Computing == {"enter", "node", "piece", "set_chunk", "chunks", "fetch", "after", "barrier"}

Places == Computing \union
  {"idle", "kickoff", "kickoff_signal", "computed", "free_signal", "join", "freed",
   "pause_loop", "pause_lock", "pause_wait", "paused", "stop_check", "poll", "poll_graph",
   "lock", "cond_wait", "sleeping", "check", "exited"}

Graph == [id : 0 .. MaxGraphs, n : 0 .. NThreads]

PoolTyped ==
  /\ mutex \in Threads \union {Nobody} /\ waiting \subseteq Workers
  /\ n_graph \in Graph /\ request \in 0 .. NThreads
  /\ current_chunk \in Nat /\ abort \in -1 .. NNodes /\ ec \in {"success", "aborted"}
  /\ stop \in BOOLEAN /\ pause \in BOOLEAN

ThreadsTyped ==
  /\ last_graph \in [Threads -> Graph] /\ pending \in [Threads -> BOOLEAN]
  /\ pc \in [Threads -> Places]
  /\ node \in [Threads -> 0 .. NNodes] /\ chunk \in [Threads -> Nat]
  /\ phase \in [Threads -> {"rows", "convert", "product"}]
  /\ nth \in [Threads -> 0 .. NThreads]
  /\ ret \in [Threads -> {"computed", "node", "chunks"}]

BarrierTyped ==
  /\ n_barrier \in 0 .. NThreads /\ n_barrier_passed \in Nat
  /\ n_passed \in [Threads -> Nat] /\ bpc \in [Threads -> BarrierPlaces]

TypeOK == PoolTyped /\ ThreadsTyped /\ BarrierTyped

\* ggml_graph_compute resets the pool's fields without a lock and says that no worker uses
\* them at this stage (ggml-cpu.c 3247): outside of a computation the workers are out of the
\* graph, except for some that the last barrier has already released.
QuietBetweenGraphs ==
  pc[0] \in {"idle", "kickoff", "computed", "free_signal", "join", "freed"} =>
    \A t \in Workers :
      /\ ~pending[t]
      /\ pc[t] \in Computing =>
           /\ pc[t] = "barrier" /\ ret[t] = "computed"
           /\ bpc[t] = "spinning" /\ n_passed[t] # n_barrier_passed

\* The threads implement the evaluation of a graph node by node, piece by piece.
InGraph == pc[0] \in Computing \union {"kickoff_signal", "computed"}

Evaluation == INSTANCE GraphEvaluation WITH
  running  <- InGraph,
  team     <- n_graph.n,
  active   <- {<<node[t], phase[t], chunk[t]>> : t \in {u \in Threads : pc[u] = "piece"}},
  limit    <- IF InGraph /\ abort # -1 THEN abort ELSE NNodes,
  aborted  <- InGraph /\ ec = "aborted"

ImplementsEvaluation == Evaluation!EvaluationSpec

\* No wake-up is lost and no thread waits at a barrier for one that does not come: a graph
\* that is kicked off is computed or aborted, and a pool that is freed, paused or not, gets
\* rid of its workers, however these poll, sleep, or are paused.
CallsReturn == (pc[0] \notin {"idle", "freed"}) ~> (pc[0] \in {"idle", "freed"})
=============================================================================
