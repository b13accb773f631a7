----------------------------- MODULE Pipelines -----------------------------
(***************************************************************************)
(* A pipeline of the canvas editor, its runs and their executors:          *)
(*                                                                         *)
(*   internal/pipelines/pipelines.go    the tables                         *)
(*   internal/pipelines/executor.go     the goroutine that walks a run     *)
(*   internal/web/pr13_handlers.go      save, start, roll back, delete     *)
(*                                                                         *)
(* A statement or a transaction is one step, so a save, a roll back or a   *)
(* deletion may come between any two statements of a run.  Nodes of a save *)
(* carry one created_at, and so do edges: ORDER BY created_at decides      *)
(* nothing among them, and "the first one" is any of them.                 *)
(***************************************************************************)
EXTENDS Integers, Sequences

CONSTANTS
  Runs,      \* ids of pipeline_runs rows
  NodeIds,   \* ids of nodes; the editor keeps them from one save to the next
  Canvases,  \* the graphs the editor may save
  None,      \* SQL NULL, no row, no goroutine
  MaxSteps,  \* maxSteps of Executor.Run
  MaxVersion \* bound on saves

\* A node by what its execution comes to: prompt, wait, handoff and notify nodes
\* are "action"; a condition evaluates to "true" or "false"; the configuration of
\* a "broken" node does not parse.
Kinds      == {"trigger", "action", "true", "false", "broken", "end"}
Conditions == {"true", "false", "default"}
Edge       == [from : NodeIds, to : NodeIds, cond : Conditions]
Graph      == [nodes : [NodeIds -> Kinds \cup {None}], edges : SUBSET Edge]

NodesOf(g) == {n \in NodeIds : g.nodes[n] # None}

\* ReplaceGraph refuses an edge to a node that is not on the canvas.
Accepted(g) == \A e \in g.edges : {e.from, e.to} \subseteq NodesOf(g)

EmptyGraph == [nodes |-> [n \in NodeIds |-> None], edges |-> {}]

ASSUME CanvasAssumption == Canvases \subseteq Graph
ASSUME NumberAssumption == MaxSteps \in Nat \ {0} /\ MaxVersion \in Nat

VARIABLES
  version, \* the pipelines row: its version, or None once it is deleted
  graph,   \* the pipeline_nodes and pipeline_edges rows
  rows,    \* the pipeline_runs rows
  steps,   \* per run its pipeline_run_steps; seq is the position
  job      \* per run, the local state of the handler and then of the executor

vars == <<version, graph, rows, steps, job>>

Errors   == {"no trigger", "config", "dangling", "max steps"}
Verdicts == {"none"} \cup Errors
Statuses == {"pending", "running", "succeeded", "failed"}
Stages   == {"stamped", "checked", "spawned", "fetching", "nodes", "edges", "walk", "finish"}

Row  == [status : Statuses, cur : NodeIds \cup {None}, version : Nat, error : Verdicts]
Step == [node : NodeIds, status : {"succeeded", "failed", "skipped"}]
Job  == [stage : Stages, version : Nat, graph : Graph, cur : NodeIds \cup {None},
         hops : Nat, verdict : Verdicts]

ASSUME NoneAssumption == None \notin Nat \cup NodeIds \cup Kinds \cup Row \cup Job

TypeOK ==
  /\ version \in Nat \cup {None}
  /\ graph \in Graph
  /\ rows \in [Runs -> Row \cup {None}]
  /\ steps \in [Runs -> Seq(Step)]
  /\ job \in [Runs -> Job \cup {None}]

At(r, stage) == job[r] # None /\ job[r].stage = stage

-----------------------------------------------------------------------------
(* The editor.  Create has left a row at version 1 with an empty graph.    *)

Init ==
  /\ version = 1
  /\ graph = EmptyGraph
  /\ rows = [r \in Runs |-> None]
  /\ steps = [r \in Runs |-> <<>>]
  /\ job = [r \in Runs |-> None]

\* Mutant: the old edges are not deleted.
ReplacedKeep(g) == [g EXCEPT !.edges = @ \cup graph.edges]

\* What the tables hold after the deletes and the inserts.
Replaced(g) == g

\* The steps of every run go with the nodes they point to, also of nodes that
\* are inserted again: pipeline_run_steps.node_id cascades.
Save(g) ==
  /\ version # None /\ version < MaxVersion
  /\ Accepted(g)
  /\ graph' = Replaced(g)
  /\ steps' = [r \in Runs |-> <<>>]
  /\ version' = version + 1
  /\ UNCHANGED <<rows, job>>

\* Nodes, edges, runs and steps cascade.
Delete ==
  /\ version # None
  /\ version' = None
  /\ graph' = EmptyGraph
  /\ rows' = [r \in Runs |-> None]
  /\ steps' = [r \in Runs |-> <<>>]
  /\ UNCHANGED job

-----------------------------------------------------------------------------
(* StartRun: Get, ListNodes, INSERT; then the handler starts the executor. *)

StartGet(r) ==
  /\ job[r] = None /\ rows[r] = None
  /\ version # None
  /\ job' = [job EXCEPT ![r] =
       [stage |-> "stamped", version |-> version, graph |-> EmptyGraph,
        cur |-> None, hops |-> 0, verdict |-> "none"]]
  /\ UNCHANGED <<version, graph, rows, steps>>

StartCheck(r) ==
  /\ At(r, "stamped")
  /\ job' = [job EXCEPT ![r] =
       IF NodesOf(graph) = {} THEN None ELSE [@ EXCEPT !.stage = "checked"]]
  /\ UNCHANGED <<version, graph, rows, steps>>

StartInsert(r) ==
  /\ At(r, "checked")
  /\ IF version = None
     THEN /\ job' = [job EXCEPT ![r] = None]
          /\ UNCHANGED rows
     ELSE /\ job' = [job EXCEPT ![r].stage = "spawned"]
          /\ rows' = [rows EXCEPT ![r] =
               [status |-> "pending", cur |-> None, version |-> job[r].version,
                error |-> "none"]]
  /\ UNCHANGED <<version, graph, steps>>

-----------------------------------------------------------------------------
(* Executor.Run: GetRun, then GetGraph in three statements.                *)

GetRun(r) ==
  /\ At(r, "spawned")
  /\ job' = [job EXCEPT ![r] =
       IF rows[r] # None /\ rows[r].status = "pending"
       THEN [@ EXCEPT !.stage = "fetching"] ELSE None]
  /\ UNCHANGED <<version, graph, rows, steps>>

GetPipeline(r) ==
  /\ At(r, "fetching")
  /\ job' = [job EXCEPT ![r] =
       IF version = None THEN None ELSE [@ EXCEPT !.stage = "nodes"]]
  /\ UNCHANGED <<version, graph, rows, steps>>

ListNodes(r) ==
  /\ At(r, "nodes")
  /\ job' = [job EXCEPT ![r].stage = "edges", ![r].graph.nodes = graph.nodes]
  /\ UNCHANGED <<version, graph, rows, steps>>

\* What is left of the walk when FinishRun is called.
Finishing(r, verdict) ==
  [job[r] EXCEPT !.stage = "finish", !.verdict = verdict,
                 !.graph = EmptyGraph, !.cur = None, !.hops = 0]

Triggers(r) == {n \in NodeIds : job[r].graph.nodes[n] = "trigger"}

ListEdges(r) ==
  /\ At(r, "edges")
  /\ \/ \E n \in Triggers(r) :
          job' = [job EXCEPT ![r].stage = "walk", ![r].graph.edges = graph.edges,
                             ![r].cur = n]
     \/ /\ Triggers(r) = {}
        /\ job' = [job EXCEPT ![r] = Finishing(r, "no trigger")]
  /\ UNCHANGED <<version, graph, rows, steps>>

-----------------------------------------------------------------------------
(* The walk.                                                               *)

Leaving(r, labels) ==
  {e \in job[r].graph.edges : e.from = job[r].cur /\ e.cond \in labels}

\* pickNextEdge: a condition takes its own label, then a default; any other node
\* a default, then any edge.
NextEdges(r) ==
  LET kind == job[r].graph.nodes[job[r].cur]
      first  == IF kind \in {"true", "false"} THEN {kind} ELSE {"default"}
      second == IF kind \in {"true", "false"} THEN {"default"} ELSE Conditions
  IN  IF Leaving(r, first) # {} THEN Leaving(r, first) ELSE Leaving(r, second)

\* The configuration of the node does not parse.
Broken(r) == job[r].graph.nodes[job[r].cur] = "broken"

\* Where the loop goes once the node at cur is done.
Onward(r) ==
  LET kind == job[r].graph.nodes[job[r].cur]
  IN  IF Broken(r) THEN {Finishing(r, "config")}
      ELSE IF kind = "end" \/ NextEdges(r) = {} THEN {Finishing(r, "none")}
      ELSE {IF job[r].graph.nodes[e.to] = None THEN Finishing(r, "dangling")
            ELSE IF job[r].hops + 1 >= MaxSteps THEN Finishing(r, "max steps")
            ELSE [job[r] EXCEPT !.cur = e.to, !.hops = @ + 1] : e \in NextEdges(r)}

\* Mutant: the status of the run is recorded with the step.
OutcomeOfRun(r) == rows[r].status

Outcome(r) == IF Broken(r) THEN "failed" ELSE "succeeded"

\* AppendStep, with both foreign keys.
Recordable(r) == rows[r] # None /\ graph.nodes[job[r].cur] # None

\* Mutant: AppendStep is repeated after it has been committed.
RecordTwice(r) ==
  /\ Recordable(r)
  /\ LET step == [node |-> job[r].cur, status |-> Outcome(r)]
     IN  steps' = [steps EXCEPT ![r] = @ \o <<step, step>>]
  /\ rows' = [rows EXCEPT ![r].cur = job[r].cur]

Record(r) ==
  /\ Recordable(r)
  /\ steps' = [steps EXCEPT ![r] = Append(@, [node |-> job[r].cur, status |-> Outcome(r)])]
  /\ rows' = [rows EXCEPT ![r].cur = job[r].cur]

\* A refused AppendStep is only logged.  It is refused for a foreign key, or by
\* SQLite when another writer commits between its SELECT and its INSERT.
Walk(r) ==
  /\ At(r, "walk")
  /\ \E next \in Onward(r) : job' = [job EXCEPT ![r] = next]
  /\ Record(r) \/ UNCHANGED <<rows, steps>>
  /\ UNCHANGED <<version, graph>>

\* Mutant: a graph without a trigger is an early return like any other.
FinishRunSilent(r) ==
  /\ At(r, "finish")
  /\ rows' = IF rows[r] = None \/ job[r].verdict = "no trigger" THEN rows
             ELSE [rows EXCEPT
                    ![r].status = IF job[r].verdict = "none" THEN "succeeded" ELSE "failed",
                    ![r].error = job[r].verdict]
  /\ job' = [job EXCEPT ![r] = None]
  /\ UNCHANGED <<version, graph, steps>>

FinishRun(r) ==
  /\ At(r, "finish")
  /\ rows' = IF rows[r] = None THEN rows
             ELSE [rows EXCEPT
                    ![r].status = IF job[r].verdict = "none" THEN "succeeded" ELSE "failed",
                    ![r].error = job[r].verdict]
  /\ job' = [job EXCEPT ![r] = None]
  /\ UNCHANGED <<version, graph, steps>>

\* The request or the five minutes of the executor are over.  Every later
\* statement fails, FinishRun(RunCancelled) among them: nothing more is written.
Expire(r) ==
  /\ job[r] # None
  /\ job' = [job EXCEPT ![r] = None]
  /\ UNCHANGED <<version, graph, rows, steps>>

-----------------------------------------------------------------------------

\* Mutant: the pointer stays where it is.
PreviousSame(s) == s[Len(s)].node

\* The step before the last, or NULL.
Previous(s) == IF Len(s) = 1 THEN None ELSE s[Len(s) - 1].node

\* One transaction, whatever the status and whether or not an executor is at
\* work.  A second roll back finds the same last step.
Rollback(r) ==
  /\ rows[r] # None /\ steps[r] # <<>>
  /\ steps' = [steps EXCEPT ![r][Len(steps[r])].status = "skipped"]
  /\ rows' = [rows EXCEPT ![r].status = "running", ![r].cur = Previous(steps[r]),
                          ![r].error = "none"]
  /\ UNCHANGED <<version, graph, job>>

Restart ==
  /\ job' = [r \in Runs |-> None]
  /\ UNCHANGED <<version, graph, rows, steps>>

-----------------------------------------------------------------------------

Start(r)   == StartGet(r) \/ StartCheck(r) \/ StartInsert(r)
Execute(r) == GetRun(r) \/ GetPipeline(r) \/ ListNodes(r) \/ ListEdges(r) \/ Walk(r) \/ FinishRun(r)

Next ==
  \/ \E g \in Canvases : Save(g)
  \/ Delete
  \/ Restart
  \/ \E r \in Runs : Start(r) \/ Execute(r) \/ Expire(r) \/ Rollback(r)

Spec == Init /\ [][Next]_vars

\* The runtime schedules the executor's goroutine.
Fairness == \A r \in Runs : WF_vars(Execute(r))

\* current_node_id is the node of the last step or, once that one is rolled back, of
\* the step before it, whatever an executor appends around the roll back; only a save,
\* which wipes the steps, leaves the pointer without them.
PointerOnTrail ==
  \A r \in Runs : rows[r] # None /\ steps[r] # <<>> =>
    LET n == Len(steps[r])
    IN  rows[r].cur = IF steps[r][n].status # "skipped" THEN steps[r][n].node
                      ELSE IF n > 1 THEN steps[r][n - 1].node ELSE None
=============================================================================
