---------------------------- MODULE MCPipelines ----------------------------
(***************************************************************************)
(* Pipelines with history variables, the promise that a run is a job, and  *)
(* the canvases TLC saves.                                                 *)
(***************************************************************************)
EXTENDS Pipelines, TLC

VARIABLES
  walked,  \* per run, the nodes executed since the last save or deletion
  refused, \* runs with an AppendStep refused since then
  torn,    \* runs whose nodes and edges a save came between
  cut      \* runs whose executor a restart or its deadline has ended

historyVars == <<vars, walked, refused, torn, cut>>

\* An executor is at work on the row of r.
Executing(r) == rows[r] # None /\ job[r] # None

NothingWalked == [r \in Runs |-> <<>>]

HistoryInit ==
  /\ Init
  /\ walked = NothingWalked
  /\ refused = {} /\ torn = {} /\ cut = {}

HistoryNext ==
  \/ /\ \E g \in Canvases : Save(g)
     /\ walked' = NothingWalked /\ refused' = {}
     /\ torn' = torn \cup {r \in Runs : At(r, "edges")}
     /\ UNCHANGED cut
  \/ /\ Delete
     /\ walked' = NothingWalked /\ refused' = {} /\ torn' = {}
     /\ UNCHANGED cut
  \/ /\ \E r \in Runs : Rollback(r) \/ Start(r)
     /\ UNCHANGED <<walked, refused, torn, cut>>
  \/ \E r \in Runs :
       /\ Execute(r)
       /\ IF At(r, "walk") /\ rows[r] # None
          THEN /\ walked' = [walked EXCEPT ![r] = Append(@, job[r].cur)]
               /\ refused' = IF steps' = steps THEN refused \cup {r} ELSE refused
          ELSE UNCHANGED <<walked, refused>>
       /\ UNCHANGED <<torn, cut>>
  \/ \E r \in Runs :
       /\ Expire(r)
       /\ cut' = IF Executing(r) THEN cut \cup {r} ELSE cut
       /\ UNCHANGED <<walked, refused, torn>>
  \/ /\ Restart
     /\ cut' = cut \cup {r \in Runs : Executing(r)}
     /\ UNCHANGED <<walked, refused, torn>>

HistorySpec     == HistoryInit /\ [][HistoryNext]_historyVars
FairHistorySpec == HistorySpec /\ Fairness

\* "Steps form a monotonic seq": the trail of a run is in the order of the walk.
\* Since the last save it lacks the nodes whose AppendStep was refused, and nothing
\* else; a roll back removes nothing.
TrailInOrder ==
  \A r \in Runs :
    LET trail == [i \in DOMAIN steps[r] |-> steps[r][i].node]
    IN  /\ \E f \in [DOMAIN trail -> DOMAIN walked[r]] :
             /\ \A i, j \in DOMAIN trail : i < j => f[i] < f[j]
             /\ \A i \in DOMAIN trail : trail[i] = walked[r][f[i]]
        /\ r \notin refused => trail = walked[r]

\* A run fails on a dangling edge only if a save came between its two reads of the
\* graph: the tables hold no such edge.
DanglingMeansTorn ==
  \A r \in Runs : rows[r] # None /\ rows[r].error = "dangling" => r \in torn

-----------------------------------------------------------------------------
Phase(r) ==
  IF rows[r] = None THEN "absent"
  ELSE IF job[r] # None THEN "open"
  ELSE IF rows[r].status \in {"succeeded", "failed"} THEN "settled" ELSE "abandoned"

RunJobs == INSTANCE Jobs
  WITH Works <- Runs, Reopenable <- Runs, phase <- [r \in Runs |-> Phase(r)]

\* "Future PRs can wire the executor" aside, a run is a job: whatever the user saves,
\* rolls back or deletes meanwhile, its executor comes to an end and leaves it
\* succeeded or failed, unless a restart or the deadline cuts it short.
RunsAreJobs == RunJobs!Spec

-----------------------------------------------------------------------------
CONSTANTS n1, n2, n3

Canvas(a, b, c, edges) ==
  [nodes |-> (n1 :> a @@ n2 :> b @@ n3 :> c), edges |-> edges]

To(a, b, label) == [from |-> a, to |-> b, cond |-> label]

\* A loop behind a condition that falls back to its default edge; an end that has an
\* edge; a node that does not parse; nothing.  A walk that takes its nodes from the
\* second canvas and its edges from the first meets a dangling edge.
MCCanvases ==
  { Canvas("trigger", "true", None,
           {To(n1, n2, "default"), To(n2, n1, "default"), To(n2, n2, "false")}),
    Canvas("trigger", None, "end", {To(n1, n3, "true"), To(n3, n1, "default")}),
    Canvas("action", "trigger", "broken", {To(n2, n3, "default")}),
    EmptyGraph }
=============================================================================
