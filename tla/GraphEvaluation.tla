-------------------------- MODULE GraphEvaluation --------------------------
(***************************************************************************)
(* What ggml_graph_compute promises, whatever its threads do: the nodes of *)
(* the graph are computed one after the other, each piece of a node by one *)
(* thread and once, a matrix product converts its whole operand before the *)
(* first chunk of the product, and the call returns when every node up to  *)
(* the last, or to the one at which it was aborted, is complete.           *)
(***************************************************************************)
EXTENDS ComputeGraph

VARIABLES
  running,    \* a graph is being computed
  team,       \* by so many threads
  active,     \* the pieces being computed
  finished,   \* the pieces computed
  limit,      \* the nodes to compute: those before limit
  aborted     \* the abort callback has said so

evaluationVars == <<running, team, active, finished, limit, aborted>>

EvaluationInit ==
  /\ running = FALSE /\ team = 0
  /\ active = {} /\ finished = {}
  /\ limit = NNodes /\ aborted = FALSE

Start ==
  /\ ~running
  /\ running' = TRUE
  /\ team' \in 1 .. NThreads
  /\ finished' = {}
  /\ UNCHANGED <<active, limit, aborted>>

Begin(p) ==
  /\ running
  /\ p[1] < limit
  /\ p \notin active \union finished
  /\ \A q \in AllPieces(team) : Precedes(q, p) => q \in finished
  /\ active' = active \union {p}
  /\ UNCHANGED <<running, team, finished, limit, aborted>>

Finish(p) ==
  /\ p \in active
  /\ active' = active \ {p}
  /\ finished' = finished \union {p}
  /\ UNCHANGED <<running, team, limit, aborted>>

\* The callback is asked after a node: no later node has begun.
Abort(m) ==
  /\ running /\ ~aborted
  /\ \A p \in active \union finished : p[1] <= m
  /\ limit' = m + 1
  /\ aborted' = TRUE
  /\ UNCHANGED <<running, team, active, finished>>

Return ==
  /\ running
  /\ active = {}
  /\ \A p \in AllPieces(team) : p[1] < limit => p \in finished
  /\ running' = FALSE
  /\ limit' = NNodes /\ aborted' = FALSE
  /\ UNCHANGED <<team, active, finished>>

EvaluationNext ==
  \/ Start
  \/ \E p \in AllPieces(team) : Begin(p) \/ Finish(p)
  \/ \E m \in 0 .. NNodes - 1 : Abort(m)
  \/ Return

EvaluationSpec == EvaluationInit /\ [][EvaluationNext]_evaluationVars
=============================================================================
