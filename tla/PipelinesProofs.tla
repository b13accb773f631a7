-------------------------- MODULE PipelinesProofs --------------------------
(***************************************************************************)
(* Proofs about Pipelines and its history variables, for every set of      *)
(* runs, every set of canvases and every cap on the steps.                 *)
(***************************************************************************)
EXTENDS MCPipelines, TLAPS

LEMMA EmptyGraphIsGraph == EmptyGraph \in Graph
  BY DEF EmptyGraph, Graph

LEMMA BeforeLast ==
  ASSUME NEW S, NEW s \in Seq(S), s # <<>>, Len(s) # 1
  PROVE  s[Len(s) - 1] \in S /\ Len(s) - 1 \in 1..Len(s)
<1>1. Len(s) \in Nat /\ Len(s) # 0
  OBVIOUS
<1>2. Len(s) - 1 \in 1..Len(s)
  BY <1>1
<1> QED BY <1>2

LEMMA PreviousType ==
  ASSUME NEW s \in Seq(Step), s # <<>>
  PROVE  Previous(s) \in NodeIds \cup {None}
<1>1. CASE Len(s) = 1
  BY <1>1 DEF Previous
<1>2. CASE Len(s) # 1
  <2>1. s[Len(s) - 1] \in Step
    BY <1>2, BeforeLast
  <2> QED BY <1>2, <2>1 DEF Previous, Step
<1> QED BY <1>1, <1>2

\* The executor stands on a node while it walks.
WalkInv == \A r \in Runs : At(r, "walk") => job[r].cur \in NodeIds

TypeInv == TypeOK /\ WalkInv

\* What a step on the goroutine of one run has to show.
LEMMA JobStep ==
  ASSUME TypeInv, NEW r \in Runs, NEW j \in Job \cup {None},
         j # None /\ j.stage = "walk" => j.cur \in NodeIds,
         job' = [job EXCEPT ![r] = j]
  PROVE  job' \in [Runs -> Job \cup {None}] /\ WalkInv'
  BY DEF TypeInv, TypeOK, WalkInv, At

\* The walk leaves a well-formed job, whichever edge it takes.
LEMMA OnwardType ==
  ASSUME TypeOK, NEW r \in Runs, job[r] # None, NEW next \in Onward(r)
  PROVE  next \in Job /\ (next.stage = "walk" => next.cur \in NodeIds)
<1>1. job[r] \in Job
  BY DEF TypeOK
<1>2. \A v \in Verdicts : Finishing(r, v) \in Job /\ Finishing(r, v).stage = "finish"
  BY <1>1, EmptyGraphIsGraph DEF Finishing, Job, Stages
<1>3. ASSUME NEW e \in NextEdges(r)
      PROVE  /\ [job[r] EXCEPT !.cur = e.to, !.hops = @ + 1] \in Job
             /\ [job[r] EXCEPT !.cur = e.to, !.hops = @ + 1].cur \in NodeIds
  <2>1. e.to \in NodeIds
    BY <1>1 DEF NextEdges, Leaving, Job, Graph, Edge
  <2>2. PICK h \in Nat : h = job[r].hops + 1
    BY <1>1 DEF Job
  <2>3. [job[r] EXCEPT !.cur = e.to, !.hops = h] \in Job
    BY <1>1, <2>1 DEF Job
  <2>4. [job[r] EXCEPT !.cur = e.to, !.hops = h].cur = e.to
    BY <1>1 DEF Job
  <2> QED BY <2>1, <2>2, <2>3, <2>4
<1> QED BY <1>2, <1>3 DEF Onward, Verdicts, Errors

LEMMA TypeStep == TypeInv /\ [Next]_vars => TypeInv'
<1> SUFFICES ASSUME TypeInv, [Next]_vars PROVE TypeInv'
  OBVIOUS
<1>0. TypeOK
  BY DEF TypeInv
<1>1. ASSUME NEW g \in Canvases, Save(g) PROVE TypeInv'
  BY <1>1, CanvasAssumption DEF Save, Replaced, TypeInv, TypeOK, WalkInv, At
<1>2. CASE Delete
  BY <1>2, EmptyGraphIsGraph DEF Delete, TypeInv, TypeOK, WalkInv, At
<1>3. ASSUME NEW r \in Runs, StartGet(r) PROVE TypeInv'
  <2> DEFINE j == [stage |-> "stamped", version |-> version, graph |-> EmptyGraph,
                   cur |-> None, hops |-> 0, verdict |-> "none"]
  <2>1. j \in Job /\ j.stage # "walk"
    BY <1>0, <1>3, EmptyGraphIsGraph DEF StartGet, TypeOK, Job, Stages, Verdicts
  <2> QED BY <1>0, <1>3, <2>1, JobStep DEF StartGet, TypeInv, TypeOK
<1>4. ASSUME NEW r \in Runs, NEW stage \in Stages, stage # "walk", job[r] # None,
             job' = [job EXCEPT ![r] = [@ EXCEPT !.stage = stage]]
      PROVE  job' \in [Runs -> Job \cup {None}] /\ WalkInv'
  <2>1. job[r] \in Job
    BY <1>0, <1>4 DEF TypeOK
  <2>2. [job[r] EXCEPT !.stage = stage] \in Job /\ [job[r] EXCEPT !.stage = stage].stage # "walk"
    BY <1>4, <2>1 DEF Job
  <2> QED BY <1>0, <1>4, <2>2, JobStep DEF TypeOK
<1>5. ASSUME NEW r \in Runs, job' = [job EXCEPT ![r] = None]
      PROVE  job' \in [Runs -> Job \cup {None}] /\ WalkInv'
  BY <1>5, JobStep
<1>6. ASSUME NEW r \in Runs, StartCheck(r) PROVE TypeInv'
  BY <1>0, <1>4, <1>5, <1>6 DEF StartCheck, At, Stages, TypeInv, TypeOK
<1>7. ASSUME NEW r \in Runs, StartInsert(r) PROVE TypeInv'
  <2>1. job[r] \in Job
    BY <1>0, <1>7 DEF StartInsert, At, TypeOK
  <2>2. [status |-> "pending", cur |-> None, version |-> job[r].version, error |-> "none"] \in Row
    BY <2>1 DEF Job, Row, Statuses, Verdicts
  <2>3. job' \in [Runs -> Job \cup {None}] /\ WalkInv'
    BY <1>4, <1>5, <1>7 DEF StartInsert, At, Stages
  <2> QED BY <1>0, <1>7, <2>2, <2>3 DEF StartInsert, TypeInv, TypeOK
<1>8. ASSUME NEW r \in Runs, GetRun(r) PROVE TypeInv'
  BY <1>0, <1>4, <1>5, <1>8 DEF GetRun, At, Stages, TypeInv, TypeOK
<1>9. ASSUME NEW r \in Runs, GetPipeline(r) PROVE TypeInv'
  BY <1>0, <1>4, <1>5, <1>9 DEF GetPipeline, At, Stages, TypeInv, TypeOK
<1>10. ASSUME NEW r \in Runs, ListNodes(r) PROVE TypeInv'
  <2> DEFINE j == [job[r] EXCEPT !.stage = "edges", !.graph.nodes = graph.nodes]
  <2>1. job[r] \in Job
    BY <1>0, <1>10 DEF ListNodes, At, TypeOK
  <2>2. j \in Job /\ j.stage # "walk"
    BY <1>0, <2>1 DEF Job, Graph, Stages, TypeOK
  <2>3. job' = [job EXCEPT ![r] = j]
    BY <1>10 DEF ListNodes
  <2> QED BY <1>0, <1>10, <2>2, <2>3, JobStep DEF ListNodes, TypeInv, TypeOK
<1>11. ASSUME NEW r \in Runs, ListEdges(r) PROVE TypeInv'
  <2>1. job[r] \in Job
    BY <1>0, <1>11 DEF ListEdges, At, TypeOK
  <2>2. ASSUME NEW n \in Triggers(r),
               job' = [job EXCEPT ![r].stage = "walk", ![r].graph.edges = graph.edges,
                                  ![r].cur = n]
        PROVE  job' \in [Runs -> Job \cup {None}] /\ WalkInv'
    <3> DEFINE j == [job[r] EXCEPT !.stage = "walk", !.graph.edges = graph.edges, !.cur = n]
    <3>1. j \in Job /\ j.cur \in NodeIds
      BY <1>0, <2>1 DEF Job, Graph, Stages, TypeOK, Triggers
    <3>2. job' = [job EXCEPT ![r] = j]
      BY <2>2
    <3> QED BY <3>1, <3>2, JobStep
  <2>3. Finishing(r, "no trigger") \in Job /\ Finishing(r, "no trigger").stage # "walk"
    BY <2>1, EmptyGraphIsGraph DEF Finishing, Job, Stages, Verdicts, Errors
  <2>4. job' \in [Runs -> Job \cup {None}] /\ WalkInv'
    BY <1>11, <2>2, <2>3, JobStep DEF ListEdges
  <2> QED BY <1>0, <1>11, <2>4 DEF ListEdges, TypeInv, TypeOK
<1>12. ASSUME NEW r \in Runs, Walk(r) PROVE TypeInv'
  <2>1. PICK next \in Onward(r) : job' = [job EXCEPT ![r] = next]
    BY <1>12 DEF Walk
  <2>2. job' \in [Runs -> Job \cup {None}] /\ WalkInv'
    BY <1>0, <1>12, <2>1, OnwardType, JobStep DEF Walk, At
  <2>3. ASSUME Record(r)
        PROVE  rows' \in [Runs -> Row \cup {None}] /\ steps' \in [Runs -> Seq(Step)]
    <3>1. job[r].cur \in NodeIds
      BY <1>12 DEF Walk, TypeInv, WalkInv
    <3>2. [node |-> job[r].cur, status |-> Outcome(r)] \in Step
      BY <3>1 DEF Step, Outcome
    <3>3. rows[r] \in Row
      BY <1>0, <2>3 DEF Record, Recordable, TypeOK
    <3>4. [rows[r] EXCEPT !.cur = job[r].cur] \in Row
      BY <3>1, <3>3 DEF Row
    <3> QED BY <1>0, <2>3, <3>2, <3>4 DEF Record, TypeOK
  <2> QED BY <1>0, <1>12, <2>2, <2>3 DEF Walk, TypeInv, TypeOK
<1>13. ASSUME NEW r \in Runs, FinishRun(r) PROVE TypeInv'
  <2>1. job[r] \in Job
    BY <1>0, <1>13 DEF FinishRun, At, TypeOK
  <2>2. ASSUME rows[r] # None, NEW s \in Statuses, NEW e \in Verdicts
        PROVE  [rows[r] EXCEPT !.status = s, !.error = e] \in Row
    BY <1>0, <2>2 DEF TypeOK, Row
  <2>3. rows' \in [Runs -> Row \cup {None}]
    BY <1>0, <1>13, <2>1, <2>2 DEF FinishRun, TypeOK, Statuses, Job
  <2> QED BY <1>0, <1>5, <1>13, <2>3 DEF FinishRun, TypeInv, TypeOK
<1>14. ASSUME NEW r \in Runs, Expire(r) PROVE TypeInv'
  BY <1>0, <1>5, <1>14 DEF Expire, TypeInv, TypeOK
<1>15. ASSUME NEW r \in Runs, Rollback(r) PROVE TypeInv'
  <2> DEFINE n == Len(steps[r])
  <2>1. steps[r] \in Seq(Step) /\ steps[r] # <<>> /\ n \in 1..n /\ rows[r] \in Row
    BY <1>0, <1>15 DEF Rollback, TypeOK
  <2>2. steps[r][n] \in Step
    BY <2>1
  <2>3. [steps[r][n] EXCEPT !.status = "skipped"] \in Step
    BY <2>2 DEF Step
  <2>4. steps' \in [Runs -> Seq(Step)]
    BY <1>0, <1>15, <2>1, <2>3 DEF Rollback, TypeOK
  <2>5. Previous(steps[r]) \in NodeIds \cup {None}
    BY <2>1, PreviousType
  <2>6. [rows[r] EXCEPT !.status = "running", !.cur = Previous(steps[r]), !.error = "none"] \in Row
    BY <2>1, <2>5 DEF Row, Statuses, Verdicts
  <2>7. rows' \in [Runs -> Row \cup {None}]
    BY <1>0, <1>15, <2>6 DEF Rollback, TypeOK
  <2> QED BY <1>15, <2>4, <2>7 DEF Rollback, TypeInv, TypeOK, WalkInv, At
<1>16. CASE Restart
  BY <1>16 DEF Restart, TypeInv, TypeOK, WalkInv, At
<1>17. CASE UNCHANGED vars
  BY <1>17 DEF vars, TypeInv, TypeOK, WalkInv, At
<1> QED
  BY <1>1, <1>2, <1>3, <1>6, <1>7, <1>8, <1>9, <1>10, <1>11, <1>12, <1>13, <1>14, <1>15,
     <1>16, <1>17
  DEF Next, Start, Execute

LEMMA TypeInit == Init => TypeInv
  BY EmptyGraphIsGraph DEF Init, TypeInv, TypeOK, WalkInv, At

\* Every reachable state is well typed.
THEOREM PipelinesTypeCorrect == Spec => []TypeOK
<1>1. TypeInv => TypeOK
  BY DEF TypeInv
<1> QED BY TypeInit, TypeStep, <1>1, PTL DEF Spec

-----------------------------------------------------------------------------
(* The pointer of a run.  The proof needs that a run without a row has no  *)
(* steps, so that the insert of a new row cannot meet an old trail.        *)

OnTrail(row, s) ==
  row # None /\ s # <<>> =>
    row.cur = IF s[Len(s)].status # "skipped" THEN s[Len(s)].node
              ELSE IF Len(s) > 1 THEN s[Len(s) - 1].node ELSE None

RowInv(r) ==
  /\ OnTrail(rows[r], steps[r])
  /\ rows[r] = None => steps[r] = <<>>
  /\ At(r, "stamped") \/ At(r, "checked") => rows[r] = None

PointerInv == TypeInv /\ \A r \in Runs : RowInv(r)

LEMMA PointerWritten ==
  ASSUME NEW row \in Row, NEW n \in NodeIds \cup {None}
  PROVE  [row EXCEPT !.cur = n] # None /\ [row EXCEPT !.cur = n].cur = n
<1>1. [row EXCEPT !.cur = n] \in Row /\ [row EXCEPT !.cur = n].cur = n
  BY DEF Row
<1> QED BY <1>1, NoneAssumption

LEMMA RollbackRow ==
  ASSUME TypeOK, NEW r \in Runs, Rollback(r)
  PROVE  /\ rows'[r] # None
         /\ rows'[r].cur = Previous(steps[r])
         /\ rows'[r].status = "running"
         /\ rows'[r].error = "none"
<1>1. steps[r] \in Seq(Step) /\ steps[r] # <<>> /\ rows[r] \in Row
  BY DEF Rollback, TypeOK
<1>2. PICK prev \in NodeIds \cup {None} : prev = Previous(steps[r])
  BY <1>1, PreviousType
<1> DEFINE new == [rows[r] EXCEPT !.status = "running", !.cur = prev, !.error = "none"]
<1>3. new \in Row /\ new.cur = prev /\ new.status = "running" /\ new.error = "none"
  BY <1>1 DEF Row, Statuses, Verdicts
<1>4. rows'[r] = new
  BY <1>2 DEF Rollback, TypeOK
<1> HIDE DEF new
<1> QED BY <1>2, <1>3, <1>4, NoneAssumption

LEMMA PointerUntouched ==
  ASSUME NEW r \in Runs, RowInv(r), rows'[r] = rows[r], steps'[r] = steps[r],
         \/ job'[r] = job[r]
         \/ job'[r] = None
         \/ job'[r].stage \notin {"stamped", "checked"}
         \/ rows[r] = None
  PROVE  RowInv(r)'
  BY DEF RowInv, OnTrail, At

LEMMA FetchStage ==
  ASSUME NEW r \in Runs, job[r] \in Job, job \in [Runs -> Job \cup {None}],
         GetRun(r) \/ GetPipeline(r) \/ ListNodes(r) \/ ListEdges(r)
  PROVE  job'[r] = None \/ job'[r].stage \in {"fetching", "nodes", "edges", "walk", "finish"}
<1>1. CASE GetRun(r)
  BY <1>1 DEF GetRun, Job
<1>2. CASE GetPipeline(r)
  BY <1>2 DEF GetPipeline, Job
<1>3. CASE ListNodes(r)
  <2>1. job'[r].stage = "edges"
    BY <1>3 DEF ListNodes, Job
  <2> QED BY <2>1
<1>4. CASE ListEdges(r)
  <2>1. ASSUME NEW n, NEW g, job' = [job EXCEPT ![r].stage = "walk", ![r].graph.edges = g,
                                             ![r].cur = n]
        PROVE  job'[r].stage = "walk"
    BY <2>1 DEF Job
  <2>2. Finishing(r, "no trigger").stage = "finish"
    BY DEF Finishing, Job
  <2>3. job'[r].stage \in {"walk", "finish"}
    BY <1>4, <2>1, <2>2 DEF ListEdges
  <2> QED BY <2>3
<1> QED BY <1>1, <1>2, <1>3, <1>4

LEMMA OnwardStage ==
  ASSUME NEW r \in Runs, job[r] \in Job, job[r].stage = "walk", NEW next \in Onward(r)
  PROVE  next.stage \in {"walk", "finish"}
<1>1. ASSUME NEW v PROVE Finishing(r, v).stage = "finish"
  BY DEF Finishing, Job
<1>2. ASSUME NEW n PROVE [job[r] EXCEPT !.cur = n, !.hops = @ + 1].stage = "walk"
  BY DEF Job
<1> QED BY <1>1, <1>2 DEF Onward

LEMMA PointerStep == PointerInv /\ [Next]_vars => PointerInv'
<1> SUFFICES ASSUME PointerInv, [Next]_vars, NEW r \in Runs PROVE RowInv(r)'
  BY TypeStep DEF PointerInv
<1>0. TypeOK /\ TypeInv /\ RowInv(r)
  BY DEF PointerInv, TypeInv
<1>1. ASSUME NEW g \in Canvases, Save(g) PROVE RowInv(r)'
  BY <1>0, <1>1 DEF Save, RowInv, OnTrail, At
<1>2. CASE Delete
  BY <1>0, <1>2 DEF Delete, RowInv, OnTrail, At
<1>3. CASE Restart \/ UNCHANGED vars
  BY <1>0, <1>3, PointerUntouched DEF Restart, vars
<1>4. ASSUME NEW p \in Runs, p # r, Start(p) \/ Execute(p) \/ Expire(p) \/ Rollback(p)
      PROVE  RowInv(r)'
  <2>1. rows'[r] = rows[r] /\ steps'[r] = steps[r] /\ job'[r] = job[r]
    BY <1>0, <1>4
    DEF TypeOK, Start, StartGet, StartCheck, StartInsert, Execute, GetRun, GetPipeline, ListNodes,
        ListEdges, Walk, Record, FinishRun, Expire, Rollback
  <2> QED BY <1>0, <2>1, PointerUntouched
<1>5. CASE StartGet(r) \/ StartCheck(r)
  BY <1>0, <1>5, PointerUntouched DEF StartGet, StartCheck, TypeOK, RowInv
<1>6. CASE StartInsert(r)
  <2>1. CASE version = None
    BY <1>0, <1>6, <2>1, PointerUntouched DEF StartInsert, TypeOK
  <2>2. CASE version # None
    <3>1. steps'[r] = <<>>
      BY <1>0, <1>6 DEF StartInsert, RowInv
    <3>2. rows'[r] = [status |-> "pending", cur |-> None, version |-> job[r].version,
                      error |-> "none"]
      BY <1>0, <1>6, <2>2 DEF StartInsert, TypeOK
    <3>3. job'[r].stage = "spawned"
      BY <1>0, <1>6, <2>2 DEF StartInsert, TypeOK, At, Job
    <3> QED BY <3>1, <3>3 DEF RowInv, OnTrail, At
  <2> QED BY <2>1, <2>2
<1>7. CASE GetRun(r) \/ GetPipeline(r) \/ ListNodes(r) \/ ListEdges(r)
  <2>1. job[r] \in Job
    BY <1>0, <1>7 DEF GetRun, GetPipeline, ListNodes, ListEdges, At, TypeOK
  <2>2. job'[r] = None \/ job'[r].stage \in {"fetching", "nodes", "edges", "walk", "finish"}
    BY <1>0, <1>7, <2>1, FetchStage DEF TypeOK
  <2> QED BY <1>0, <1>7, <2>2, PointerUntouched DEF GetRun, GetPipeline, ListNodes, ListEdges
<1>8. CASE Walk(r)
  <2>1. PICK next \in Onward(r) : job' = [job EXCEPT ![r] = next]
    BY <1>8 DEF Walk
  <2>2. job[r] \in Job /\ job[r] # None /\ job[r].stage = "walk"
    BY <1>0, <1>8 DEF Walk, At, TypeOK
  <2>3. next.stage \in {"walk", "finish"}
    BY <2>2, OnwardStage
  <2>4. job'[r].stage \notin {"stamped", "checked"}
    BY <1>0, <2>1, <2>3 DEF TypeOK
  <2>5. CASE UNCHANGED <<rows, steps>>
    BY <1>0, <2>4, <2>5, PointerUntouched
  <2>6. CASE Record(r)
    <3> DEFINE step == [node |-> job[r].cur, status |-> Outcome(r)]
    <3>1. steps[r] \in Seq(Step) /\ rows[r] \in Row
      BY <1>0, <2>6 DEF TypeOK, Record, Recordable
    <3>2. step \in Step
      BY <1>0, <1>8 DEF Step, Outcome, Walk, TypeInv, WalkInv
    <3>3. steps'[r] = Append(steps[r], step)
      BY <1>0, <2>6 DEF Record, TypeOK
    <3>4. steps'[r] # <<>> /\ steps'[r][Len(steps'[r])] = step
      BY <3>1, <3>2, <3>3
    <3>5. rows'[r] # None /\ rows'[r].cur = job[r].cur
      BY <1>0, <1>8, <2>6, <3>1, PointerWritten DEF Record, TypeOK, Walk, TypeInv, WalkInv
    <3>6. step.status # "skipped"
      BY DEF Outcome
    <3>7. OnTrail(rows'[r], steps'[r])
      BY <3>4, <3>5, <3>6 DEF OnTrail
    <3> QED BY <2>4, <3>5, <3>7 DEF RowInv, At
  <2> QED BY <1>8, <2>5, <2>6 DEF Walk
<1>9. CASE FinishRun(r)
  <2>1. job'[r] = None /\ steps' = steps
    BY <1>0, <1>9 DEF FinishRun, TypeOK
  <2>2. CASE rows'[r] = rows[r]
    BY <1>0, <2>1, <2>2, PointerUntouched
  <2>3. CASE rows[r] # None
    <3>1. job[r].verdict \in Verdicts /\ rows[r] \in Row
      BY <1>0, <1>9, <2>3 DEF FinishRun, At, TypeOK, Job
    <3>2. PICK s \in Statuses :
            rows'[r] = [rows[r] EXCEPT !.status = s, !.error = job[r].verdict]
      BY <1>0, <1>9, <2>3 DEF FinishRun, TypeOK, Statuses
    <3>3. rows'[r] # None /\ rows'[r].cur = rows[r].cur
      <4> DEFINE new == [rows[r] EXCEPT !.status = s, !.error = job[r].verdict]
      <4>1. new \in Row /\ new.cur = rows[r].cur
        BY <3>1 DEF Row
      <4> HIDE DEF new
      <4>2. new # None
        BY <4>1, NoneAssumption
      <4> QED BY <3>2, <4>1, <4>2 DEF new
    <3> QED BY <1>0, <2>1, <2>3, <3>3 DEF RowInv, OnTrail, At
  <2> QED BY <1>0, <1>9, <2>2, <2>3 DEF FinishRun
<1>10. CASE Expire(r)
  BY <1>0, <1>10, PointerUntouched DEF Expire, TypeOK
<1>11. CASE Rollback(r)
  <2> DEFINE n == Len(steps[r])
  <2>1. steps[r] \in Seq(Step) /\ steps[r] # <<>> /\ n \in 1..n /\ rows[r] \in Row
    BY <1>0, <1>11 DEF Rollback, TypeOK
  <2>2. steps[r][n] \in Step
    BY <2>1
  <2>3. PICK last \in Step : last = [steps[r][n] EXCEPT !.status = "skipped"]
    BY <2>2 DEF Step
  <2>4. steps'[r] = [steps[r] EXCEPT ![n] = last]
    BY <1>0, <1>11, <2>3 DEF Rollback, TypeOK
  <2>5. last.status = "skipped"
    BY <2>2, <2>3 DEF Step
  <2>6. Len(steps'[r]) = n /\ steps'[r][n] = last /\ steps'[r] # <<>>
    BY <2>1, <2>4
  <2>7. n # 1 => steps'[r][n - 1] = steps[r][n - 1] /\ n > 1
    BY <2>1, <2>4, BeforeLast
  <2>8. rows'[r] # None /\ rows'[r].cur = Previous(steps[r])
    BY <1>0, <1>11, RollbackRow
  <2>9. OnTrail(rows'[r], steps'[r])
    BY <2>1, <2>5, <2>6, <2>7, <2>8 DEF OnTrail, Previous
  <2>10. job' = job /\ rows[r] # None
    BY <1>11 DEF Rollback
  <2> QED BY <1>0, <2>8, <2>9, <2>10 DEF RowInv, At
<1> QED
  BY <1>1, <1>2, <1>3, <1>4, <1>5, <1>6, <1>7, <1>8, <1>9, <1>10, <1>11
  DEF Next, Start, Execute

LEMMA PointerInit == Init => PointerInv
  BY TypeInit DEF Init, PointerInv, RowInv, OnTrail, At

\* current_node_id names the last step that is not rolled back, for every
\* interleaving of executors, roll backs, saves and restarts.
THEOREM PointerStaysOnTrail == Spec => []PointerOnTrail
<1>1. PointerInv => PointerOnTrail
  BY DEF PointerInv, RowInv, OnTrail, PointerOnTrail
<1> QED BY PointerInit, PointerStep, <1>1, PTL DEF Spec

-----------------------------------------------------------------------------
(* A dangling edge is the work of a save.                                  *)

SafeOf(r) ==
  /\ At(r, "stamped") \/ At(r, "checked") => rows[r] = None
  /\ rows[r] # None /\ r \notin torn =>
       /\ At(r, "edges") => job[r].graph.nodes = graph.nodes
       /\ At(r, "walk") => Accepted(job[r].graph)
       /\ At(r, "finish") => job[r].verdict # "dangling"
       /\ rows[r].error # "dangling"

TornInv ==
  /\ TypeInv
  /\ Accepted(graph)
  /\ version = None => \A r \in Runs : rows[r] = None
  /\ \A r \in Runs : SafeOf(r)

LEMMA HistoryIsStep == [HistoryNext]_historyVars => [Next]_vars
  BY DEF HistoryNext, historyVars, Next

LEMMA SafeElsewhere ==
  ASSUME NEW r \in Runs, SafeOf(r), job'[r] = job[r], rows'[r] = rows[r],
         graph' = graph, torn' = torn
  PROVE  SafeOf(r)'
  BY DEF SafeOf, At

LEMMA SafeWithoutJob ==
  ASSUME NEW r \in Runs, SafeOf(r), job'[r] = None, torn' = torn,
         rows'[r] = rows[r] \/ rows'[r].error # "dangling"
  PROVE  SafeOf(r)'
  BY DEF SafeOf, At

\* No edge of a graph that ReplaceGraph accepted dangles.
LEMMA OnwardSafe ==
  ASSUME NEW r \in Runs, job[r] \in Job, job[r].stage = "walk", NEW next \in Onward(r),
         Accepted(job[r].graph)
  PROVE  /\ next.stage = "walk" => next.graph = job[r].graph
         /\ next.stage = "finish" => next.verdict # "dangling"
<1>1. ASSUME NEW v PROVE Finishing(r, v).stage = "finish" /\ Finishing(r, v).verdict = v
  BY DEF Finishing, Job
<1>2. ASSUME NEW n
      PROVE  /\ [job[r] EXCEPT !.cur = n, !.hops = @ + 1].stage = "walk"
             /\ [job[r] EXCEPT !.cur = n, !.hops = @ + 1].graph = job[r].graph
  BY DEF Job
<1>3. ASSUME NEW e \in NextEdges(r) PROVE job[r].graph.nodes[e.to] # None
  BY DEF NextEdges, Leaving, Accepted, NodesOf
<1>4. CASE next \in {Finishing(r, "config"), Finishing(r, "none"), Finishing(r, "max steps")}
  BY <1>1, <1>4
<1>5. CASE \E n : next = [job[r] EXCEPT !.cur = n, !.hops = @ + 1]
  BY <1>2, <1>5
<1> QED BY <1>3, <1>4, <1>5 DEF Onward

LEMMA WalkKeepsError ==
  ASSUME TypeOK, WalkInv, NEW r \in Runs, Walk(r)
  PROVE  (rows[r] # None <=> rows'[r] # None) /\ rows'[r].error = rows[r].error
<1>1. CASE rows' = rows
  BY <1>1
<1>2. CASE Record(r)
  <2>1. rows[r] \in Row /\ rows[r] # None /\ job[r].cur \in NodeIds
    BY <1>2 DEF Record, Recordable, TypeOK, Walk, WalkInv
  <2>2. rows'[r] = [rows[r] EXCEPT !.cur = job[r].cur]
    BY <1>2 DEF Record, TypeOK
  <2> QED BY <2>1, <2>2, PointerWritten DEF Row
<1> QED BY <1>1, <1>2 DEF Walk

LEMMA TornStep == TornInv /\ [HistoryNext]_historyVars => TornInv'
<1> SUFFICES ASSUME TornInv, [HistoryNext]_historyVars PROVE TornInv'
  OBVIOUS
<1>0. TypeInv /\ TypeOK /\ TypeInv' /\ \A r \in Runs : SafeOf(r)
  BY TypeStep, HistoryIsStep DEF TornInv, TypeInv
<1>1. ASSUME NEW g \in Canvases, Save(g), torn' = torn \cup {r \in Runs : At(r, "edges")}
      PROVE  TornInv'
  <2>1. Accepted(graph)' /\ version' # None /\ rows' = rows /\ job' = job
    BY <1>0, <1>1, NoneAssumption, NumberAssumption DEF Save, Replaced, TypeOK, Accepted
  <2>2. ASSUME NEW r \in Runs PROVE SafeOf(r)'
    BY <1>0, <1>1, <2>1 DEF SafeOf, At
  <2> QED BY <1>0, <2>1, <2>2 DEF TornInv
<1>2. CASE Delete /\ torn' = {}
  <2>1. Accepted(graph)'
    BY <1>2 DEF Delete, Accepted, EmptyGraph
  <2>2. \A r \in Runs : rows'[r] = None
    BY <1>2 DEF Delete
  <2>3. ASSUME NEW r \in Runs PROVE SafeOf(r)'
    BY <2>2 DEF SafeOf
  <2> QED BY <1>0, <2>1, <2>2, <2>3 DEF TornInv
<1>3. CASE Restart /\ torn' = torn
  <2>1. ASSUME NEW r \in Runs PROVE SafeOf(r)'
    BY <1>0, <1>3, SafeWithoutJob DEF Restart
  <2> QED BY <1>0, <1>3, <2>1 DEF TornInv, Restart, Accepted, NodesOf
<1>4. CASE UNCHANGED historyVars
  BY <1>4 DEF historyVars, vars, TornInv, TypeInv, TypeOK, WalkInv, At, Accepted, NodesOf, SafeOf
<1>5. ASSUME NEW p \in Runs, Start(p) \/ Execute(p) \/ Expire(p) \/ Rollback(p), torn' = torn
      PROVE  TornInv'
  <2>1. /\ version' = version /\ graph' = graph
        /\ \A r \in Runs \ {p} : job'[r] = job[r] /\ rows'[r] = rows[r]
    BY <1>0, <1>5
    DEF TypeOK, Start, StartGet, StartCheck, StartInsert, Execute, GetRun, GetPipeline, ListNodes,
        ListEdges, Walk, Record, FinishRun, Expire, Rollback
  <2>2. version = None => rows'[p] = None
    BY <1>0, <1>5
    DEF TornInv, TypeOK, Start, StartGet, StartCheck, StartInsert, Execute, GetRun, GetPipeline,
        ListNodes, ListEdges, Walk, Record, Recordable, FinishRun, Expire, Rollback
  <2>3. SafeOf(p)'
    <3> USE <1>0
    <3>1. CASE StartGet(p) \/ StartCheck(p)
      BY <1>5, <3>1 DEF StartGet, StartCheck, TypeOK, SafeOf, At, Job
    <3>2. CASE StartInsert(p)
      BY <1>5, <3>2 DEF StartInsert, TypeOK, SafeOf, At, Job
    <3>3. CASE GetRun(p) \/ GetPipeline(p)
      BY <1>5, <3>3 DEF GetRun, GetPipeline, TypeOK, SafeOf, At, Job
    <3>4. CASE ListNodes(p)
      BY <1>5, <3>4 DEF ListNodes, TypeOK, SafeOf, At, Job
    <3>5. CASE ListEdges(p)
      <4>1. job[p] \in Job /\ job[p] # None /\ job[p].stage = "edges"
        BY <3>5 DEF ListEdges, At, TypeOK
      <4>2. CASE job' = [job EXCEPT ![p] = Finishing(p, "no trigger")]
        <5>1. job'[p].stage = "finish" /\ job'[p].verdict = "no trigger"
          BY <4>1, <4>2 DEF Finishing, Job, TypeOK
        <5> QED BY <1>5, <3>5, <5>1 DEF SafeOf, At, ListEdges
      <4>3. ASSUME NEW n, job' = [job EXCEPT ![p].stage = "walk", ![p].graph.edges = graph.edges,
                                             ![p].cur = n]
            PROVE  SafeOf(p)'
        <5>1. job'[p].stage = "walk" /\ job'[p].graph = [job[p].graph EXCEPT !.edges = graph.edges]
          BY <4>1, <4>3 DEF Job, TypeOK
        <5>2. rows' = rows
          BY <3>5 DEF ListEdges
        <5>3. ASSUME rows[p] # None, p \notin torn PROVE Accepted(job'[p].graph)
          <6>1. job[p].graph \in Graph /\ job[p].graph.nodes = graph.nodes
            BY <4>1, <5>3 DEF SafeOf, At, Job
          <6>2. job'[p].graph.nodes = graph.nodes /\ job'[p].graph.edges = graph.edges
            BY <5>1, <6>1 DEF Graph
          <6> QED BY <6>2 DEF TornInv, Accepted, NodesOf
        <5>4. rows[p] # None /\ p \notin torn => rows[p].error # "dangling"
          BY DEF SafeOf
        <5> QED BY <1>5, <5>1, <5>2, <5>3, <5>4 DEF SafeOf, At, Accepted, NodesOf
      <4> QED BY <3>5, <4>2, <4>3 DEF ListEdges
    <3>6. CASE Walk(p)
      <4>1. job[p] \in Job /\ job[p] # None /\ job[p].stage = "walk"
        BY <3>6 DEF Walk, At, TypeOK
      <4>2. PICK next \in Onward(p) : job'[p] = next
        BY <3>6 DEF Walk, TypeOK
      <4>3. next.stage \in {"walk", "finish"}
        BY <4>1, OnwardStage
      <4>4. rows[p] # None /\ p \notin torn =>
              /\ rows[p].error # "dangling"
              /\ next.stage = "walk" => Accepted(next.graph)
              /\ next.stage = "finish" => next.verdict # "dangling"
        BY <4>1, OnwardSafe DEF SafeOf, At
      <4>5. (rows[p] # None <=> rows'[p] # None) /\ rows'[p].error = rows[p].error
        BY <3>6, WalkKeepsError DEF TypeInv
      <4> QED BY <1>5, <4>2, <4>3, <4>4, <4>5 DEF SafeOf, At, Accepted, NodesOf
    <3>7. CASE FinishRun(p)
      <4>1. job'[p] = None
        BY <3>7 DEF FinishRun, TypeOK
      <4>2. CASE rows'[p] = rows[p]
        BY <1>5, <4>1, <4>2, SafeWithoutJob
      <4>3. CASE rows[p] # None
        <5>1. rows[p] \in Row
          BY <4>3 DEF TypeOK
        <5>2. p \notin torn => job[p].verdict # "dangling"
          BY <3>7, <4>3 DEF FinishRun, SafeOf, At
        <5>3. PICK s : rows'[p] = [rows[p] EXCEPT !.status = s, !.error = job[p].verdict]
          BY <3>7, <4>3 DEF FinishRun, TypeOK
        <5>4. rows'[p].error = job[p].verdict
          BY <5>1, <5>3 DEF Row
        <5> QED BY <1>5, <4>1, <5>2, <5>4 DEF SafeOf, At
      <4> QED BY <3>7, <4>2, <4>3 DEF FinishRun
    <3>8. CASE Expire(p)
      BY <1>5, <3>8, SafeWithoutJob DEF Expire, TypeOK
    <3>9. CASE Rollback(p)
      <4>1. job' = job /\ rows[p] # None
        BY <3>9 DEF Rollback
      <4>2. rows'[p].error = "none"
        BY <3>9, RollbackRow
      <4> QED BY <1>5, <3>9, <4>1, <4>2 DEF SafeOf, At, Rollback
    <3> QED BY <1>5, <3>1, <3>2, <3>3, <3>4, <3>5, <3>6, <3>7, <3>8, <3>9 DEF Start, Execute
  <2>4. \A r \in Runs : SafeOf(r)'
    BY <1>0, <1>5, <2>1, <2>3, SafeElsewhere
  <2> QED BY <1>0, <2>1, <2>2, <2>4 DEF TornInv, Accepted, NodesOf
<1> QED BY <1>1, <1>2, <1>3, <1>4, <1>5 DEF HistoryNext

LEMMA TornInit == HistoryInit => TornInv
  BY TypeInit, NoneAssumption
  DEF HistoryInit, Init, TornInv, SafeOf, At, Accepted, EmptyGraph

\* A run that failed on a dangling edge read its nodes before a save and its edges
\* after it: no other order of saves and reads can do that, on any canvas.
THEOREM OnlySavesDangle == HistorySpec => []DanglingMeansTorn
<1>1. TornInv => DanglingMeansTorn
  BY DEF TornInv, SafeOf, DanglingMeansTorn
<1> QED BY TornInit, TornStep, <1>1, PTL DEF HistorySpec

-----------------------------------------------------------------------------
(* A run is a job.  The invariant says that an executor at work has not    *)
(* settled its row, and that its GetRun finds what StartRun has inserted.  *)

LiveOf(r) ==
  rows[r] # None /\ job[r] # None =>
    /\ rows[r].status \in {"pending", "running"}
    /\ At(r, "spawned") => rows[r].status = "pending" /\ steps[r] = <<>>

LiveInv == TornInv /\ PointerInv /\ \A r \in Runs : LiveOf(r)

LEMMA WalkKeepsStatus ==
  ASSUME TypeOK, WalkInv, NEW r \in Runs, Walk(r)
  PROVE  rows'[r].status = rows[r].status
<1>1. CASE rows' = rows
  BY <1>1
<1>2. CASE Record(r)
  <2>1. rows[r] \in Row
    BY <1>2 DEF Record, Recordable, TypeOK
  <2>2. rows'[r] = [rows[r] EXCEPT !.cur = job[r].cur]
    BY <1>2 DEF Record, TypeOK
  <2> QED BY <2>1, <2>2 DEF Row
<1> QED BY <1>1, <1>2 DEF Walk

LEMMA LiveStep == LiveInv /\ [HistoryNext]_historyVars => LiveInv'
<1> SUFFICES ASSUME LiveInv, [HistoryNext]_historyVars, NEW r \in Runs PROVE LiveOf(r)'
  BY TornStep, PointerStep, HistoryIsStep DEF LiveInv
<1> USE HistoryIsStep
<1>0. TypeOK /\ WalkInv /\ LiveOf(r) /\ SafeOf(r) /\ RowInv(r)
  BY DEF LiveInv, TornInv, PointerInv, TypeInv
<1>1. CASE (\E g \in Canvases : Save(g)) \/ UNCHANGED vars
  BY <1>0, <1>1 DEF Save, vars, LiveOf, At
<1>2. CASE Delete \/ Restart
  BY <1>2 DEF Delete, Restart, LiveOf
<1>3. ASSUME NEW p \in Runs \ {r}, Start(p) \/ Execute(p) \/ Expire(p) \/ Rollback(p)
      PROVE  LiveOf(r)'
  <2>1. rows'[r] = rows[r] /\ steps'[r] = steps[r] /\ job'[r] = job[r]
    BY <1>0, <1>3
    DEF TypeOK, Start, StartGet, StartCheck, StartInsert, Execute, GetRun, GetPipeline, ListNodes,
        ListEdges, Walk, Record, FinishRun, Expire, Rollback
  <2> QED BY <1>0, <2>1 DEF LiveOf, At
<1>4. CASE StartGet(r) \/ StartCheck(r)
  BY <1>0, <1>4 DEF StartGet, StartCheck, TypeOK, SafeOf, LiveOf
<1>5. CASE StartInsert(r)
  <2>1. steps[r] = <<>> /\ rows[r] = None
    BY <1>0, <1>5 DEF StartInsert, RowInv
  <2>2. CASE version = None
    BY <1>0, <1>5, <2>1, <2>2 DEF StartInsert, LiveOf
  <2>3. CASE version # None
    <3>1. rows'[r].status = "pending" /\ steps'[r] = <<>>
      BY <1>0, <1>5, <2>1, <2>3 DEF StartInsert, TypeOK
    <3> QED BY <3>1 DEF LiveOf
  <2> QED BY <2>2, <2>3
<1>6. CASE GetRun(r) \/ GetPipeline(r) \/ ListNodes(r) \/ ListEdges(r)
  <2>1. rows' = rows /\ job[r] \in Job /\ job[r] # None
    BY <1>0, <1>6 DEF GetRun, GetPipeline, ListNodes, ListEdges, At, TypeOK
  <2>2. job'[r] = None \/ job'[r].stage \in {"fetching", "nodes", "edges", "walk", "finish"}
    BY <1>0, <1>6, <2>1, FetchStage DEF TypeOK
  <2> QED BY <1>0, <2>1, <2>2 DEF LiveOf, At
<1>7. CASE Walk(r)
  <2>1. PICK next \in Onward(r) : job' = [job EXCEPT ![r] = next]
    BY <1>7 DEF Walk
  <2>2. job[r] \in Job /\ job[r] # None /\ job[r].stage = "walk"
    BY <1>0, <1>7 DEF Walk, At, TypeOK
  <2>3. job'[r].stage \in {"walk", "finish"}
    BY <1>0, <2>1, <2>2, OnwardStage DEF TypeOK
  <2> QED BY <1>0, <1>7, <2>2, <2>3, WalkKeepsStatus, WalkKeepsError DEF LiveOf, At
<1>8. CASE FinishRun(r) \/ Expire(r)
  BY <1>0, <1>8 DEF FinishRun, Expire, TypeOK, LiveOf
<1>9. CASE Rollback(r)
  <2>1. job' = job /\ rows[r] # None /\ steps[r] # <<>>
    BY <1>9 DEF Rollback
  <2>2. rows'[r].status = "running"
    BY <1>0, <1>9, RollbackRow
  <2> QED BY <1>0, <2>1, <2>2 DEF LiveOf, At
<1> QED
  BY <1>1, <1>2, <1>3, <1>4, <1>5, <1>6, <1>7, <1>8, <1>9 DEF Next, Start, Execute

\* The phases after a step that writes one row, in the words of Jobs.
LEMMA MoveOne ==
  ASSUME NEW S \in SUBSET Runs, NEW to,
         \A r \in Runs : Phase(r)' = IF r \in S THEN to ELSE Phase(r)
  PROVE  RunJobs!Move(S, to)
  BY DEF RunJobs!Move

LEMMA PhaseKept ==
  ASSUME NEW r \in Runs, rows'[r] = rows[r], job'[r] = job[r]
  PROVE  Phase(r)' = Phase(r)
  BY DEF Phase

LEMMA StageWritten ==
  ASSUME NEW j \in Job, NEW stage \in Stages
  PROVE  [j EXCEPT !.stage = stage] # None
<1>1. [j EXCEPT !.stage = stage] \in Job
  BY DEF Job
<1> QED BY <1>1, NoneAssumption

\* While its row exists, an executor does not give up before the walk.
LEMMA FetchGoesOn ==
  ASSUME LiveInv, NEW r \in Runs,
         GetRun(r) \/ GetPipeline(r) \/ ListNodes(r) \/ ListEdges(r)
  PROVE  job'[r] # None \/ rows[r] = None
<1>0. TypeOK /\ WalkInv /\ LiveOf(r) /\ (version = None => rows[r] = None)
  BY DEF LiveInv, TornInv, TypeInv
<1>1. job[r] \in Job
  BY <1>0 DEF GetRun, GetPipeline, ListNodes, ListEdges, At, TypeOK
<1>2. CASE GetRun(r)
  BY <1>0, <1>1, <1>2, StageWritten DEF GetRun, LiveOf, At, TypeOK, Stages
<1>3. CASE GetPipeline(r)
  BY <1>0, <1>1, <1>3, StageWritten DEF GetPipeline, TypeOK, Stages
<1>4. CASE ListNodes(r)
  <2> DEFINE j == [job[r] EXCEPT !.stage = "edges", !.graph.nodes = graph.nodes]
  <2>1. j \in Job
    BY <1>0, <1>1 DEF Job, Graph, Stages, TypeOK
  <2>2. job'[r] = j
    BY <1>0, <1>4 DEF ListNodes, TypeOK
  <2> HIDE DEF j
  <2> QED BY <2>1, <2>2, NoneAssumption
<1>5. CASE ListEdges(r)
  <2>1. Finishing(r, "no trigger") \in Job
    BY <1>1, EmptyGraphIsGraph DEF Finishing, Job, Stages, Verdicts, Errors
  <2>2. ASSUME NEW n \in Triggers(r),
               job' = [job EXCEPT ![r].stage = "walk", ![r].graph.edges = graph.edges,
                                  ![r].cur = n]
        PROVE  job'[r] \in Job
    <3> DEFINE j == [job[r] EXCEPT !.stage = "walk", !.graph.edges = graph.edges, !.cur = n]
    <3>1. j \in Job
      BY <1>0, <1>1 DEF Job, Graph, Stages, TypeOK, Triggers
    <3>2. job'[r] = j
      BY <1>0, <2>2 DEF TypeOK
    <3> QED BY <3>1, <3>2
  <2>3. job'[r] \in Job
    BY <1>0, <1>5, <2>1, <2>2 DEF ListEdges, TypeOK
  <2> QED BY <2>3, NoneAssumption
<1> QED BY <1>2, <1>3, <1>4, <1>5

LEMMA JobSimulation ==
  LiveInv /\ LiveInv' /\ [HistoryNext]_historyVars
    => [RunJobs!Next]_<<[r \in Runs |-> Phase(r)], cut>>
<1> DEFINE phases == [r \in Runs |-> Phase(r)]
           Stutter == UNCHANGED <<phases, cut>>
<1> SUFFICES ASSUME LiveInv, LiveInv', [HistoryNext]_historyVars
             PROVE  RunJobs!Next \/ Stutter
  OBVIOUS
<1>0. /\ TypeOK /\ WalkInv
      /\ \A r \in Runs : LiveOf(r) /\ SafeOf(r) /\ RowInv(r)
  BY DEF LiveInv, TornInv, PointerInv, TypeInv
<1>1. ASSUME \E g \in Canvases : Save(g), cut' = cut PROVE Stutter
  BY <1>1, PhaseKept DEF Save
<1>2. CASE UNCHANGED historyVars
  BY <1>2, PhaseKept DEF historyVars, vars
<1>3. ASSUME Delete, cut' = cut PROVE RunJobs!Next
  <2>1. RunJobs!Erase(Runs)
    BY <1>3, MoveOne DEF RunJobs!Erase, Delete, Phase
  <2> QED BY <2>1 DEF RunJobs!Next
<1>4. ASSUME Restart, cut' = cut \cup {r \in Runs : Executing(r)} PROVE RunJobs!Next
  <2> DEFINE S == {r \in Runs : Executing(r)}
  <2>1. \A r \in S : phases[r] = "open"
    BY DEF Executing, Phase
  <2>2. ASSUME NEW r \in Runs PROVE Phase(r)' = IF r \in S THEN "abandoned" ELSE Phase(r)
    BY <1>0, <1>4 DEF Restart, Executing, Phase, LiveOf
  <2>3. RunJobs!CutShort(S)
    BY <1>4, <2>1, <2>2, MoveOne DEF RunJobs!CutShort
  <2> QED BY <2>3 DEF RunJobs!Next
<1>5. ASSUME NEW p \in Runs, Start(p) \/ Execute(p) \/ Expire(p) \/ Rollback(p)
      PROVE  \A r \in Runs \ {p} : Phase(r)' = Phase(r)
  <2>1. \A r \in Runs \ {p} : rows'[r] = rows[r] /\ job'[r] = job[r]
    BY <1>0, <1>5
    DEF TypeOK, Start, StartGet, StartCheck, StartInsert, Execute, GetRun, GetPipeline, ListNodes,
        ListEdges, Walk, Record, FinishRun, Expire, Rollback
  <2> QED BY <2>1, PhaseKept
<1>6. ASSUME NEW p \in Runs, Start(p), cut' = cut PROVE RunJobs!Next \/ Stutter
  <2>1. Phase(p) = "absent"
    BY <1>0, <1>6 DEF Start, StartGet, StartCheck, StartInsert, SafeOf, Phase
  <2>2. CASE Phase(p)' = "absent"
    BY <1>5, <1>6, <2>1, <2>2
  <2>3. CASE Phase(p)' = "open"
    <3>1. RunJobs!Open(p)
      BY <1>5, <1>6, <2>1, <2>3, MoveOne DEF RunJobs!Open
    <3> QED BY <3>1 DEF RunJobs!Next
  <2>4. Phase(p)' \in {"absent", "open"}
    <3>1. CASE rows' = rows
      BY <2>1, <3>1 DEF Phase
    <3>2. CASE StartInsert(p) /\ version # None
      <4>1. job[p] \in Job /\ job'[p] = [job[p] EXCEPT !.stage = "spawned"]
        BY <1>0, <3>2 DEF StartInsert, At, TypeOK
      <4>2. job'[p] # None
        BY <4>1, StageWritten DEF Stages
      <4> QED BY <4>2 DEF Phase
    <3> QED BY <1>6, <3>1, <3>2 DEF Start, StartGet, StartCheck, StartInsert
  <2> QED BY <2>2, <2>3, <2>4
<1>7. ASSUME NEW p \in Runs, Execute(p), cut' = cut PROVE RunJobs!Next \/ Stutter
  <2>1. CASE FinishRun(p)
    <3>1. job'[p] = None /\ job[p] # None
      BY <1>0, <2>1 DEF FinishRun, At, TypeOK
    <3>2. CASE rows[p] = None
      <4>1. Phase(p)' = Phase(p)
        BY <1>0, <2>1, <3>2 DEF FinishRun, Phase
      <4> QED BY <1>5, <1>7, <4>1
    <3>3. CASE rows[p] # None
      <4>1. rows[p] \in Row
        BY <1>0, <3>3 DEF TypeOK
      <4>2. PICK s \in {"succeeded", "failed"} :
              rows'[p] = [rows[p] EXCEPT !.status = s, !.error = job[p].verdict]
        BY <1>0, <2>1, <3>3 DEF FinishRun, TypeOK
      <4>3. rows'[p].status = s
        BY <4>1, <4>2 DEF Row
      <4>4. Phase(p) = "open" /\ Phase(p)' \in {"settled", "absent"}
        BY <3>1, <3>3, <4>3 DEF Phase
      <4>5. CASE Phase(p)' = "settled"
        <5>1. RunJobs!Settle(p)
          BY <1>5, <1>7, <4>4, <4>5, MoveOne DEF RunJobs!Settle
        <5> QED BY <5>1 DEF RunJobs!Next
      <4>6. CASE Phase(p)' = "absent"
        <5>1. RunJobs!Erase({p})
          BY <1>5, <1>7, <4>6, MoveOne DEF RunJobs!Erase
        <5> QED BY <5>1 DEF RunJobs!Next
      <4> QED BY <4>4, <4>5, <4>6
    <3> QED BY <3>2, <3>3
  <2>2. CASE Walk(p)
    <3>1. job[p] \in Job /\ job[p] # None /\ job[p].stage = "walk"
      BY <1>0, <2>2 DEF Walk, At, TypeOK
    <3>2. PICK next \in Onward(p) : job'[p] = next
      BY <1>0, <2>2 DEF Walk, TypeOK
    <3>3. job'[p] # None
      BY <1>0, <3>1, <3>2, OnwardType, NoneAssumption
    <3>4. rows[p] # None <=> rows'[p] # None
      BY <1>0, <2>2, WalkKeepsError
    <3>5. Phase(p)' = Phase(p)
      BY <3>1, <3>3, <3>4 DEF Phase
    <3> QED BY <1>5, <1>7, <3>5
  <2>3. CASE GetRun(p) \/ GetPipeline(p) \/ ListNodes(p) \/ ListEdges(p)
    <3>1. job[p] \in Job /\ job[p] # None /\ rows' = rows
      BY <1>0, <2>3 DEF GetRun, GetPipeline, ListNodes, ListEdges, At, TypeOK
    <3>2. job'[p] # None \/ rows[p] = None
      BY <2>3, FetchGoesOn DEF LiveInv
    <3>3. Phase(p)' = Phase(p)
      BY <3>1, <3>2 DEF Phase
    <3> QED BY <1>5, <1>7, <3>3
  <2> QED BY <1>7, <2>1, <2>2, <2>3 DEF Execute
<1>8. ASSUME NEW p \in Runs, Expire(p), cut' = IF Executing(p) THEN cut \cup {p} ELSE cut
      PROVE  RunJobs!Next \/ Stutter
  <2>1. job[p] # None /\ job'[p] = None /\ rows' = rows
    BY <1>0, <1>8 DEF Expire, TypeOK
  <2>2. CASE rows[p] = None
    <3>1. Phase(p)' = Phase(p)
      BY <2>1, <2>2 DEF Phase
    <3> QED BY <1>5, <1>8, <2>2, <3>1 DEF Executing
  <2>3. CASE rows[p] # None
    <3>1. Phase(p) = "open" /\ Phase(p)' = "abandoned"
      BY <1>0, <2>1, <2>3 DEF Phase, LiveOf
    <3>2. RunJobs!CutShort({p})
      BY <1>5, <1>8, <2>1, <2>3, <3>1, MoveOne DEF RunJobs!CutShort, Executing
    <3> QED BY <3>2 DEF RunJobs!Next
  <2> QED BY <2>2, <2>3
<1>9. ASSUME NEW p \in Runs, Rollback(p), cut' = cut PROVE RunJobs!Next \/ Stutter
  <2>1. rows[p] \in Row /\ job' = job /\ rows[p] # None
    BY <1>0, <1>9 DEF Rollback, TypeOK
  <2>2. rows'[p] # None /\ rows'[p].status = "running"
    BY <1>0, <1>9, RollbackRow
  <2>3. CASE Phase(p)' = Phase(p)
    BY <1>5, <1>9, <2>3
  <2>4. CASE Phase(p) = "settled" /\ Phase(p)' = "abandoned"
    <3>1. RunJobs!Reopen(p)
      BY <1>5, <1>9, <2>4, MoveOne DEF RunJobs!Reopen
    <3> QED BY <3>1 DEF RunJobs!Next
  <2> QED BY <2>1, <2>2, <2>3, <2>4 DEF Phase
<1> QED
  BY <1>1, <1>2, <1>3, <1>4, <1>6, <1>7, <1>8, <1>9 DEF HistoryNext

LEMMA LiveInit == HistoryInit => LiveInv /\ RunJobs!Init
<1> SUFFICES ASSUME HistoryInit PROVE LiveInv /\ RunJobs!Init
  OBVIOUS
<1>1. TornInv /\ PointerInv
  BY TornInit, PointerInit DEF HistoryInit
<1>2. \A r \in Runs : rows[r] = None /\ cut = {}
  BY DEF HistoryInit, Init
<1> QED BY <1>1, <1>2 DEF HistoryInit, LiveInv, LiveOf, RunJobs!Init, Phase

\* Every step of the pipelines is a step of a job or none: whatever the users save,
\* roll back and delete, an open run is settled by its executor or cut short.
THEOREM RunsImplementJobs == HistorySpec => RunJobs!SafeSpec
<1>1. HistorySpec => []LiveInv
  BY LiveInit, LiveStep, PTL DEF HistorySpec
<1>2. HistoryInit => RunJobs!Init
  BY LiveInit
<1> QED BY <1>1, <1>2, JobSimulation, PTL DEF HistorySpec, RunJobs!SafeSpec

-----------------------------------------------------------------------------
(* The trail of a run lies in its walk, in order.                          *)

\* The nodes of the steps s are found in the walk w, in the same order.
Embeds(s, w) ==
  \E f \in [1..Len(s) -> 1..Len(w)] :
    /\ \A i, j \in 1..Len(s) : i < j => f[i] < f[j]
    /\ \A i \in 1..Len(s) : s[i].node = w[f[i]]

\* The steps s are the walk w, node for node.
Tracks(s, w) == Len(s) = Len(w) /\ \A i \in 1..Len(s) : s[i].node = w[i]

TrailOf(r) ==
  /\ Embeds(steps[r], walked[r])
  /\ r \notin refused => Tracks(steps[r], walked[r])

TrailInv ==
  /\ TypeInv
  /\ walked \in [Runs -> Seq(NodeIds)]
  /\ \A r \in Runs : TrailOf(r)

LEMMA EmptyTrail == Embeds(<<>>, <<>>) /\ Tracks(<<>>, <<>>)
<1>1. Len(<<>>) = 0 /\ 1..0 = {}
  OBVIOUS
<1>2. PICK f : f \in [{} -> {}]
  <2>1. [i \in {} |-> i] \in [{} -> {}]
    OBVIOUS
  <2> QED BY <2>1
<1>3. Embeds(<<>>, <<>>)
  BY <1>1, <1>2 DEF Embeds
<1>4. Tracks(<<>>, <<>>)
  BY <1>1 DEF Tracks
<1> QED BY <1>3, <1>4

\* A node that is walked and recorded.
LEMMA Recorded ==
  ASSUME NEW s \in Seq(Step), NEW w \in Seq(NodeIds), NEW x \in Step
  PROVE  /\ Embeds(s, w) => Embeds(Append(s, x), Append(w, x.node))
         /\ Tracks(s, w) => Tracks(Append(s, x), Append(w, x.node))
<1> DEFINE n == Len(s)
           m == Len(w)
           S == Append(s, x)
           W == Append(w, x.node)
<1>1. n \in Nat /\ m \in Nat
  OBVIOUS
<1>2. /\ Len(S) = n + 1 /\ S[n + 1] = x
      /\ \A i \in 1..n : S[i] = s[i]
  OBVIOUS
<1>3. /\ Len(W) = m + 1 /\ W[m + 1] = x.node
      /\ \A i \in 1..m : W[i] = w[i]
  BY DEF Step
<1> HIDE DEF S, W, n, m
<1>4. ASSUME Embeds(s, w) PROVE Embeds(S, W)
  <2>1. PICK f \in [1..n -> 1..m] :
          /\ \A i, j \in 1..n : i < j => f[i] < f[j]
          /\ \A i \in 1..n : s[i].node = w[f[i]]
    BY <1>4 DEF Embeds, n, m
  <2> DEFINE g == [i \in 1..n + 1 |-> IF i = n + 1 THEN m + 1 ELSE f[i]]
  <2>2. \A i \in 1..n + 1 : i # n + 1 => i \in 1..n
    BY <1>1
  <2>3. \A i \in 1..n : f[i] \in 1..m
    OBVIOUS
  <2>4. g \in [1..n + 1 -> 1..m + 1]
    BY <1>1, <2>2, <2>3
  <2>5. \A i \in 1..n + 1 : g[i] = IF i = n + 1 THEN m + 1 ELSE f[i]
    OBVIOUS
  <2> HIDE DEF g
  <2>6. ASSUME NEW i \in 1..n + 1, NEW j \in 1..n + 1, i < j PROVE g[i] < g[j]
    <3>1. i \in 1..n /\ g[i] = f[i] /\ f[i] \in 1..m
      BY <1>1, <2>3, <2>5, <2>6
    <3>2. CASE j = n + 1
      BY <1>1, <2>5, <3>1, <3>2
    <3>3. CASE j # n + 1
      BY <2>1, <2>2, <2>5, <2>6, <3>1, <3>3
    <3> QED BY <3>2, <3>3
  <2>7. ASSUME NEW i \in 1..n + 1 PROVE S[i].node = W[g[i]]
    <3>1. CASE i = n + 1
      BY <1>2, <1>3, <2>5, <3>1
    <3>2. CASE i # n + 1
      BY <1>2, <1>3, <2>1, <2>2, <2>3, <2>5, <3>2
    <3> QED BY <3>1, <3>2
  <2> QED BY <1>2, <1>3, <2>4, <2>6, <2>7 DEF Embeds
<1>5. ASSUME Tracks(s, w) PROVE Tracks(S, W)
  BY <1>1, <1>2, <1>3, <1>5 DEF Tracks, n, m
<1> QED BY <1>4, <1>5 DEF S, W

\* A node that is walked, its AppendStep refused.
LEMMA NotRecorded ==
  ASSUME NEW s \in Seq(Step), NEW w \in Seq(NodeIds), NEW n \in NodeIds, Embeds(s, w)
  PROVE  Embeds(s, Append(w, n))
<1>1. PICK f \in [1..Len(s) -> 1..Len(w)] :
        /\ \A i, j \in 1..Len(s) : i < j => f[i] < f[j]
        /\ \A i \in 1..Len(s) : s[i].node = w[f[i]]
  BY DEF Embeds
<1>2. /\ Len(w) \in Nat /\ Len(Append(w, n)) = Len(w) + 1
      /\ \A i \in 1..Len(w) : Append(w, n)[i] = w[i]
  OBVIOUS
<1>3. f \in [1..Len(s) -> 1..Len(Append(w, n))]
  BY <1>2
<1> QED BY <1>1, <1>2, <1>3 DEF Embeds

\* A roll back changes the status of a step, not its node.
LEMMA SameNodes ==
  ASSUME NEW s \in Seq(Step), NEW t \in Seq(Step), NEW w \in Seq(NodeIds), Len(t) = Len(s),
         \A i \in 1..Len(s) : t[i].node = s[i].node
  PROVE  /\ Embeds(s, w) => Embeds(t, w)
         /\ Tracks(s, w) => Tracks(t, w)
<1>1. ASSUME Embeds(s, w) PROVE Embeds(t, w)
  <2>1. PICK f \in [1..Len(s) -> 1..Len(w)] :
          /\ \A i, j \in 1..Len(s) : i < j => f[i] < f[j]
          /\ \A i \in 1..Len(s) : s[i].node = w[f[i]]
    BY <1>1 DEF Embeds
  <2>2. f \in [1..Len(t) -> 1..Len(w)]
    OBVIOUS
  <2> QED BY <2>1, <2>2 DEF Embeds
<1> QED BY <1>1 DEF Tracks

LEMMA RollbackKeepsNodes ==
  ASSUME TypeOK, NEW r \in Runs, Rollback(r)
  PROVE  /\ Len(steps'[r]) = Len(steps[r])
         /\ \A i \in 1..Len(steps[r]) : steps'[r][i].node = steps[r][i].node
         /\ \A p \in Runs \ {r} : steps'[p] = steps[p]
<1> DEFINE n == Len(steps[r])
<1>1. steps[r] \in Seq(Step) /\ n \in 1..n /\ steps[r][n] \in Step
  BY DEF Rollback, TypeOK
<1> DEFINE last == [steps[r][n] EXCEPT !.status = "skipped"]
<1>2. last.node = steps[r][n].node
  BY <1>1 DEF Step
<1>3. steps'[r] = [steps[r] EXCEPT ![n] = last]
  BY DEF Rollback, TypeOK
<1> HIDE DEF last
<1>4. Len(steps'[r]) = n
  BY <1>1, <1>3
<1>5. \A i \in 1..n : steps'[r][i].node = steps[r][i].node
  BY <1>1, <1>2, <1>3
<1>6. \A p \in Runs \ {r} : steps'[p] = steps[p]
  BY DEF Rollback, TypeOK
<1> QED BY <1>4, <1>5, <1>6

\* Only a walk, a save, a deletion and a roll back touch the steps.
LEMMA TrailKept ==
  ASSUME NEW r \in Runs,
         Start(r) \/ Expire(r)
           \/ GetRun(r) \/ GetPipeline(r) \/ ListNodes(r) \/ ListEdges(r) \/ FinishRun(r)
  PROVE  steps' = steps
  BY DEF Start, StartGet, StartCheck, StartInsert, Expire, GetRun, GetPipeline, ListNodes,
         ListEdges, FinishRun

LEMMA WalkKeepsTrail ==
  ASSUME TrailInv, NEW r \in Runs, Walk(r),
         IF rows[r] # None
         THEN /\ walked' = [walked EXCEPT ![r] = Append(@, job[r].cur)]
              /\ refused' = IF steps' = steps THEN refused \cup {r} ELSE refused
         ELSE UNCHANGED <<walked, refused>>
  PROVE  /\ walked' \in [Runs -> Seq(NodeIds)]
         /\ \A p \in Runs : TrailOf(p)'
<1>1. /\ steps \in [Runs -> Seq(Step)] /\ walked \in [Runs -> Seq(NodeIds)]
      /\ job[r].cur \in NodeIds
      /\ \A p \in Runs : TrailOf(p)
  BY DEF TrailInv, TypeInv, TypeOK, WalkInv, Walk
<1>2. CASE rows[r] = None
  BY <1>1, <1>2 DEF Walk, Record, Recordable, TrailOf
<1>3. CASE rows[r] # None
  <2>1. walked' = [walked EXCEPT ![r] = Append(@, job[r].cur)]
    BY <1>3
  <2>2. Append(walked[r], job[r].cur) \in Seq(NodeIds)
    BY <1>1
  <2>3. /\ walked' \in [Runs -> Seq(NodeIds)]
        /\ walked'[r] = Append(walked[r], job[r].cur)
        /\ \A p \in Runs \ {r} : walked'[p] = walked[p]
    BY <1>1, <2>1, <2>2
  <2>4. \A p \in Runs \ {r} : p \notin refused' => p \notin refused
    BY <1>3
  <2>5. CASE Record(r)
    <3>1. PICK x \in Step : x.node = job[r].cur /\ steps' = [steps EXCEPT ![r] = Append(@, x)]
      <4> DEFINE x == [node |-> job[r].cur, status |-> Outcome(r)]
      <4>1. x \in Step /\ x.node = job[r].cur
        BY <1>1 DEF Step, Outcome
      <4>2. steps' = [steps EXCEPT ![r] = Append(@, x)]
        BY <2>5 DEF Record
      <4> QED BY <4>1, <4>2
    <3>2. /\ steps'[r] = Append(steps[r], x)
          /\ \A p \in Runs \ {r} : steps'[p] = steps[p]
      BY <1>1, <3>1
    <3>3. steps' # steps
      <4>1. Len(steps'[r]) = Len(steps[r]) + 1 /\ Len(steps[r]) \in Nat
        BY <1>1, <3>2
      <4> QED BY <4>1
    <3>4. refused' = refused
      BY <1>3, <3>3
    <3>5. TrailOf(r)'
      BY <1>1, <2>3, <3>1, <3>2, <3>4, Recorded DEF TrailOf
    <3>6. ASSUME NEW p \in Runs \ {r} PROVE TrailOf(p)'
      BY <1>1, <2>3, <2>4, <3>2 DEF TrailOf
    <3> QED BY <2>3, <3>5, <3>6
  <2>6. CASE steps' = steps
    <3>1. r \in refused'
      BY <1>3, <2>6
    <3>2. TrailOf(r)'
      BY <1>1, <2>3, <2>6, <3>1, NotRecorded DEF TrailOf
    <3>3. ASSUME NEW p \in Runs \ {r} PROVE TrailOf(p)'
      BY <1>1, <2>3, <2>4, <2>6 DEF TrailOf
    <3> QED BY <2>3, <3>2, <3>3
  <2> QED BY <2>5, <2>6 DEF Walk
<1> QED BY <1>2, <1>3

LEMMA TrailStep == TrailInv /\ [HistoryNext]_historyVars => TrailInv'
<1> SUFFICES ASSUME TrailInv, [HistoryNext]_historyVars
             PROVE  /\ walked' \in [Runs -> Seq(NodeIds)]
                    /\ \A r \in Runs : TrailOf(r)'
  BY TypeStep, HistoryIsStep DEF TrailInv
<1>0. /\ TypeOK /\ steps \in [Runs -> Seq(Step)] /\ walked \in [Runs -> Seq(NodeIds)]
      /\ \A r \in Runs : TrailOf(r)
  BY DEF TrailInv, TypeInv, TypeOK
<1>1. ASSUME steps' = steps, walked' = walked, refused' = refused
      PROVE  walked' \in [Runs -> Seq(NodeIds)] /\ \A r \in Runs : TrailOf(r)'
  BY <1>0, <1>1 DEF TrailOf
<1>2. ASSUME steps' = [r \in Runs |-> <<>>], walked' = NothingWalked
      PROVE  walked' \in [Runs -> Seq(NodeIds)] /\ \A r \in Runs : TrailOf(r)'
  BY <1>2, EmptyTrail DEF NothingWalked, TrailOf
<1>3. ASSUME NEW r \in Runs, Rollback(r), walked' = walked, refused' = refused
      PROVE  walked' \in [Runs -> Seq(NodeIds)] /\ \A p \in Runs : TrailOf(p)'
  <2>1. steps' \in [Runs -> Seq(Step)]
    BY <1>3, TypeStep, HistoryIsStep DEF TrailInv, TypeInv, TypeOK
  <2>2. /\ Len(steps'[r]) = Len(steps[r])
        /\ \A i \in 1..Len(steps[r]) : steps'[r][i].node = steps[r][i].node
        /\ \A p \in Runs \ {r} : steps'[p] = steps[p]
    BY <1>0, <1>3, RollbackKeepsNodes
  <2>3. TrailOf(r)'
    BY <1>0, <1>3, <2>1, <2>2, SameNodes DEF TrailOf
  <2>4. ASSUME NEW p \in Runs \ {r} PROVE TrailOf(p)'
    BY <1>0, <1>3, <2>2 DEF TrailOf
  <2> QED BY <1>0, <1>3, <2>3, <2>4
<1>4. ASSUME NEW r \in Runs, Execute(r),
             IF At(r, "walk") /\ rows[r] # None
             THEN /\ walked' = [walked EXCEPT ![r] = Append(@, job[r].cur)]
                  /\ refused' = IF steps' = steps THEN refused \cup {r} ELSE refused
             ELSE UNCHANGED <<walked, refused>>
      PROVE  walked' \in [Runs -> Seq(NodeIds)] /\ \A p \in Runs : TrailOf(p)'
  <2>1. CASE Walk(r)
    BY <1>4, <2>1, WalkKeepsTrail DEF Walk
  <2>2. CASE GetRun(r) \/ GetPipeline(r) \/ ListNodes(r) \/ ListEdges(r) \/ FinishRun(r)
    <3>1. ~At(r, "walk")
      BY <2>2 DEF GetRun, GetPipeline, ListNodes, ListEdges, FinishRun, At
    <3> QED BY <1>1, <1>4, <2>2, <3>1, TrailKept
  <2> QED BY <1>4, <2>1, <2>2 DEF Execute
<1>5. CASE UNCHANGED historyVars
  BY <1>1, <1>5 DEF historyVars, vars
<1>6. CASE /\ \E g \in Canvases : Save(g)
           /\ walked' = NothingWalked /\ refused' = {}
  BY <1>2, <1>6 DEF Save
<1>7. CASE Delete /\ walked' = NothingWalked /\ refused' = {}
  BY <1>2, <1>7 DEF Delete
<1>8. CASE (\E r \in Runs : Rollback(r) \/ Start(r)) /\ UNCHANGED <<walked, refused>>
  BY <1>1, <1>3, <1>8, TrailKept
<1>9. CASE Restart /\ UNCHANGED <<walked, refused>>
  BY <1>1, <1>9 DEF Restart
<1>10. CASE (\E r \in Runs : Expire(r)) /\ UNCHANGED <<walked, refused>>
  BY <1>1, <1>10, TrailKept
<1> QED
  BY <1>4, <1>5, <1>6, <1>7, <1>8, <1>9, <1>10 DEF HistoryNext

LEMMA TrailInit == HistoryInit => TrailInv
<1> SUFFICES ASSUME HistoryInit PROVE TrailInv
  OBVIOUS
<1>1. TypeInv
  BY TypeInit DEF HistoryInit
<1> QED BY <1>1, EmptyTrail DEF HistoryInit, Init, NothingWalked, TrailInv, TrailOf

\* The trail of a run follows its walk: whatever is rolled back, saved or refused
\* meanwhile, the steps are nodes of the walk in its order, and all of them unless an
\* AppendStep was refused.
THEOREM TrailFollowsWalk == HistorySpec => []TrailInOrder
<1>1. TrailInv => TrailInOrder
  <2> SUFFICES ASSUME TrailInv, NEW r \in Runs
               PROVE  LET trail == [i \in DOMAIN steps[r] |-> steps[r][i].node]
                      IN  /\ \E f \in [DOMAIN trail -> DOMAIN walked[r]] :
                               /\ \A i, j \in DOMAIN trail : i < j => f[i] < f[j]
                               /\ \A i \in DOMAIN trail : trail[i] = walked[r][f[i]]
                          /\ r \notin refused => trail = walked[r]
    BY DEF TrailInOrder
  <2> DEFINE trail == [i \in DOMAIN steps[r] |-> steps[r][i].node]
  <2>1. steps[r] \in Seq(Step) /\ walked[r] \in Seq(NodeIds) /\ TrailOf(r)
    BY DEF TrailInv, TypeInv, TypeOK
  <2>2. DOMAIN steps[r] = 1..Len(steps[r]) /\ DOMAIN walked[r] = 1..Len(walked[r])
    BY <2>1
  <2>3. PICK f \in [1..Len(steps[r]) -> 1..Len(walked[r])] :
          /\ \A i, j \in 1..Len(steps[r]) : i < j => f[i] < f[j]
          /\ \A i \in 1..Len(steps[r]) : steps[r][i].node = walked[r][f[i]]
    BY <2>1 DEF TrailOf, Embeds
  <2>4. ASSUME r \notin refused PROVE trail = walked[r]
    <3>1. Tracks(steps[r], walked[r])
      BY <2>1, <2>4 DEF TrailOf
    <3>2. walked[r] = [i \in 1..Len(walked[r]) |-> walked[r][i]]
      BY <2>1
    <3> QED BY <2>1, <2>2, <3>1, <3>2 DEF Tracks
  <2>5. /\ DOMAIN trail = 1..Len(steps[r])
        /\ \A i \in 1..Len(steps[r]) : trail[i] = steps[r][i].node
    BY <2>2
  <2> HIDE DEF trail
  <2>6. \A i \in 1..Len(steps[r]) : trail[i] = walked[r][f[i]]
    BY <2>3, <2>5
  <2>7. /\ f \in [DOMAIN trail -> DOMAIN walked[r]]
        /\ \A i, j \in DOMAIN trail : i < j => f[i] < f[j]
        /\ \A i \in DOMAIN trail : trail[i] = walked[r][f[i]]
    BY <2>2, <2>3, <2>5, <2>6
  <2> QED BY <2>4, <2>7 DEF trail
<1> QED BY TrailInit, TrailStep, <1>1, PTL DEF HistorySpec
=============================================================================
