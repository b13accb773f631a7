--------------------------- MODULE RotationProofs ---------------------------
(***************************************************************************)
(* What rotate promises of the handoff chain, for any number of tasks,     *)
(* keys, goroutines and sessions: the safety properties of MCRotation and  *)
(* MCFollowUp.                                                             *)
(*                                                                         *)
(* The first half says, action by action, what a step makes of the job and *)
(* of the session it works on (the lemmas ...Gives).  The invariants of    *)
(* the second half are proved from those facts and never look into an      *)
(* action again.                                                           *)
(***************************************************************************)
EXTENDS MCRotation, MCFollowUp, TLAPS

Pcs == {"idle"} \cup StartSteps \cup CallSteps \cup RotateSteps

-----------------------------------------------------------------------------
(* The base invariant: what the locals of a call are at each statement.    *)

\* The statements at which rotate has picked a key, and has inserted the new session.
KeyedSteps == {"open", "create", "mark_new", "attach", "link"}
NewSteps   == {"create", "attach", "link"}

\* The session of a call exists, and belongs to the call's task.
DyingExists(w) ==
  /\ job[w].task \in Tasks
  /\ job[w].dying \in Sessions
  /\ sess[job[w].dying] # None
  /\ sess[job[w].dying].task = job[w].task

\* The session rotate opens is a younger one, of the same task, on the picked key.
NewExists(w) ==
  /\ job[w].new \in Sessions
  /\ job[w].dying < job[w].new
  /\ sess[job[w].new] # None
  /\ sess[job[w].new].task = job[w].task
  /\ sess[job[w].new].key = job[w].key

Shape(w) ==
  /\ job[w].pc = "idle" => job[w] = IdleJob
  /\ job[w].pc = "s_open" => job[w].task \in Tasks /\ job[w].key \in Keys
  /\ job[w].pc \in StartSteps => job[w].op = "start"
  /\ job[w].pc = "f_send" => job[w].op = "follow"
  /\ job[w].pc \in {"y_get", "y_replace", "y_status"} => job[w].op = "sync"
  /\ job[w].pc = "r_get" => job[w].op = "resume"
  /\ job[w].pc \notin {"idle", "s_open"} => DyingExists(w)
  /\ job[w].pc \in HoldSteps => job[w].hand \in HandoffIds
  /\ job[w].pc \in KeyedSteps => job[w].key \in Keys
  /\ job[w].pc \in NewSteps => NewExists(w)
  /\ job[w].pc = "link" => sess[job[w].new].devin
  /\ job[w].pc \in {"y_replace", "y_status"} => job[w].remote \in RemoteStatuses

\* Session ids are handed out in order, and rows are never deleted.
Dense == \A r, s \in Sessions : r < s /\ sess[s] # None => sess[r] # None

\* A rotation between its INSERT of a handoff and the link or the DELETE has that row
\* to itself.
Held ==
  /\ \A w \in Jobs :
       job[w].pc \in HoldSteps =>
         /\ handoffs[job[w].hand] # None
         /\ handoffs[job[w].hand].from = job[w].dying
         /\ handoffs[job[w].hand].to = None
  /\ \A v, w \in Jobs :
       job[v].pc \in HoldSteps /\ job[w].pc \in HoldSteps /\ job[v].hand = job[w].hand
         => v = w

Base == TypeOK /\ Dense /\ Held /\ \A w \in Jobs : Shape(w)

-----------------------------------------------------------------------------
(* What a step does, in the words the invariants use.                      *)

\* Only goroutine w moves.
Only(w) == /\ job' \in [Jobs -> Job]
           /\ \A v \in Jobs \ {w} : job'[v] = job[v]

KeepsCall(w) == /\ job'[w].op = job[w].op
                /\ job'[w].task = job[w].task
                /\ job'[w].hand = job[w].hand

KeepsRow(w) == job'[w].dying = job[w].dying /\ job'[w].seen = job[w].seen

KeepsNew(w) == /\ job'[w].key = job[w].key
               /\ job'[w].new = job[w].new
               /\ job'[w].remote = job[w].remote

\* w goes from one statement to another, and its locals stay.
Walks(w, p, q) ==
  /\ Only(w) /\ KeepsCall(w) /\ KeepsRow(w) /\ KeepsNew(w)
  /\ job[w].pc = p /\ job'[w].pc = q

\* w's call is over.
Ends(w, p) == Only(w) /\ job[w].pc = p /\ job'[w] = IdleJob

\* The other rows of the sessions table.
OtherRows(s) == /\ sess' \in [Sessions -> Session \cup {None}]
                /\ \A r \in Sessions \ {s} : sess'[r] = sess[r]

\* The row of session s has status st now.
StatusSet(s, st) ==
  /\ OtherRows(s)
  /\ sess'[s] # None /\ sess'[s] \in Session
  /\ sess'[s].status = st
  /\ sess'[s].task = sess[s].task /\ sess'[s].key = sess[s].key
  /\ sess'[s].devin = sess[s].devin

\* The next session id is taken, for this task and key.
RowInserted(s, t, k) ==
  /\ OtherRows(s)
  /\ s \in Sessions /\ sess[s] = None
  /\ \A r \in Sessions : r < s => sess[r] # None
  /\ sess'[s] # None /\ sess'[s] \in Session
  /\ sess'[s].status = "creating" /\ sess'[s].task = t /\ sess'[s].key = k
  /\ ~sess'[s].devin

\* Session s has its Devin id.
RowAttached(s) ==
  /\ OtherRows(s)
  /\ sess'[s] # None /\ sess'[s] \in Session
  /\ sess'[s].status = "running" /\ sess'[s].devin
  /\ sess'[s].task = sess[s].task /\ sess'[s].key = sess[s].key

LEMMA NotNull ==
  /\ \A r \in Session : r # None
  /\ \A r \in Handoff : r # None
  /\ None \notin Sessions /\ None \notin Tasks /\ None \notin Keys
  /\ None \notin TaskStatuses
<1>1. Sessions \subseteq Nat
  BY BoundAssumption DEF Sessions
<1> QED
  BY <1>1, NoneAssumption, Zenon

LEMMA GotoGives ==
  ASSUME job \in [Jobs -> Job], NEW w \in Jobs, NEW p, NEW q \in Pcs,
         At(w, p), Goto(w, q)
  PROVE  Walks(w, p, q)
<1>1. job' \in [Jobs -> Job]
  BY DEF Goto, Job, Pcs
<1>2. job'[w] = [job[w] EXCEPT !.pc = q] /\ \A v \in Jobs \ {w} : job'[v] = job[v]
  BY DEF Goto
<1>3. job[w] \in Job
  OBVIOUS
<1> QED
  BY <1>1, <1>2, <1>3 DEF Walks, Only, KeepsCall, KeepsRow, KeepsNew, At, Job

LEMMA ReturnGives ==
  ASSUME job \in [Jobs -> Job], NEW w \in Jobs, NEW p, At(w, p), Return(w)
  PROVE  Ends(w, p)
<1>1. IdleJob \in Job
  BY DEF IdleJob, CallJob, Job
<1> QED
  BY <1>1 DEF Ends, Only, At, Return

LEMMA GiveUpGives ==
  ASSUME job \in [Jobs -> Job], NEW w \in Jobs, NEW p, At(w, p), GiveUp(w)
  PROVE  \/ job[w].op = "start" /\ Walks(w, p, "s_pause")
         \/ job[w].op # "start" /\ Ends(w, p)
<1>1. CASE job[w].op = "start"
  <2>1. "s_pause" \in Pcs
    BY DEF Pcs, StartSteps
  <2> QED
    BY <1>1, <2>1, GotoGives DEF GiveUp
<1>2. CASE job[w].op # "start"
  BY <1>2, ReturnGives DEF GiveUp
<1> QED
  BY <1>1, <1>2

LEMMA SetSessionGives ==
  ASSUME sess \in [Sessions -> Session \cup {None}], NEW s \in Sessions, sess[s] # None,
         NEW st \in Statuses, SetSession(s, st)
  PROVE  StatusSet(s, st)
<1>1. /\ sess'[s] = [sess[s] EXCEPT !.status = st]
      /\ \A r \in Sessions \ {s} : sess'[r] = sess[r]
  BY DEF SetSession
<1>2. sess[s] \in Session
  OBVIOUS
<1>3. sess'[s] \in Session /\ sess'[s].status = st /\ sess'[s].task = sess[s].task
      /\ sess'[s].key = sess[s].key /\ sess'[s].devin = sess[s].devin
  BY <1>1, <1>2 DEF Session
<1>4. sess'[s] # None
  BY <1>3, NotNull
<1>5. sess' \in [Sessions -> Session \cup {None}]
  BY <1>3 DEF SetSession
<1> QED
  BY <1>1, <1>3, <1>4, <1>5 DEF StatusSet, OtherRows

LEMMA InsertGives ==
  ASSUME sess \in [Sessions -> Session \cup {None}], NEW s \in FreeSessions,
         \A r \in FreeSessions : s <= r, NEW t \in Tasks, NEW k \in Keys, Insert(s, t, k)
  PROVE  RowInserted(s, t, k)
<1>1. s \in Sessions /\ sess[s] = None /\ s \in Int
  BY BoundAssumption DEF FreeSessions, Sessions
<1>2. ASSUME NEW r \in Sessions, r < s PROVE sess[r] # None
  <2>1. r \in Int
    BY BoundAssumption DEF Sessions
  <2>2. ~(s <= r)
    BY <1>1, <1>2, <2>1
  <2>3. r \notin FreeSessions
    BY <2>2, Zenon
  <2> QED
    BY <2>3 DEF FreeSessions
<1>3. /\ sess'[s] = [task |-> t, key |-> k, status |-> "creating", devin |-> FALSE]
      /\ \A r \in Sessions \ {s} : sess'[r] = sess[r]
  BY <1>1 DEF Insert
<1>4. sess'[s] \in Session
  BY <1>3 DEF Session, Statuses, Live
<1>5. sess' \in [Sessions -> Session \cup {None}]
  BY <1>1, <1>3, <1>4 DEF Insert
<1>6. /\ sess'[s].status = "creating" /\ sess'[s].task = t /\ sess'[s].key = k
      /\ ~sess'[s].devin
  BY <1>3
<1>7. sess'[s] # None
  BY <1>4, NotNull, Zenon
<1>8. \A r \in Sessions : r < s => sess[r] # None
  BY <1>2
<1> QED
  BY <1>1, <1>3, <1>4, <1>5, <1>6, <1>7, <1>8, Zenon
  DEF OtherRows, RowInserted

LEMMA AttachedGives ==
  ASSUME sess \in [Sessions -> Session \cup {None}], NEW s \in Sessions, sess[s] # None,
         sess' = [sess EXCEPT ![s] = Attached(@)]
  PROVE  RowAttached(s)
<1>1. /\ sess'[s] = Attached(sess[s])
      /\ \A r \in Sessions \ {s} : sess'[r] = sess[r]
  OBVIOUS
<1> DEFINE row == sess[s]
<1>2. row \in Session
  OBVIOUS
<1>3. PICK yes : yes = TRUE
  OBVIOUS
<1>4. Attached(row) = [row EXCEPT !.devin = yes, !.status = "running"]
  BY <1>3 DEF Attached
<1>5. /\ Attached(row) \in Session
      /\ Attached(row).status = "running" /\ Attached(row).devin = yes
      /\ Attached(row).task = row.task /\ Attached(row).key = row.key
  <2> HIDE DEF row
  <2>1. yes \in BOOLEAN
    BY <1>3
  <2> QED
    BY <1>2, <1>4, <2>1 DEF Session, Statuses, Live
<1>6. sess' \in [Sessions -> Session \cup {None}]
  BY <1>5
<1> QED
  BY <1>1, <1>3, <1>5, <1>6, NotNull DEF RowAttached, OtherRows

-----------------------------------------------------------------------------
(* The effect of each action.                                              *)

\* The other rows of the handoffs table.
OtherHandoffs(h) == /\ handoffs' \in [HandoffIds -> Handoff \cup {None}]
                    /\ \A g \in HandoffIds \ {h} : handoffs'[g] = handoffs[g]

LEMMA JobsTyped ==
  ASSUME Base
  PROVE  /\ job \in [Jobs -> Job]
         /\ sess \in [Sessions -> Session \cup {None}]
         /\ handoffs \in [HandoffIds -> Handoff \cup {None}]
         /\ \A w \in Jobs : Shape(w) /\ job[w] \in Job
<1>1. job \in [Jobs -> Job]
  BY DEF Base, TypeOK
<1> QED
  BY <1>1 DEF Base, TypeOK

LEMMA BeginGives ==
  ASSUME Base, NEW w \in Jobs, NEW r \in Job, Begin(w, r)
  PROVE  Only(w) /\ job[w].pc = "idle" /\ job'[w] = r
  BY JobsTyped DEF Begin, Only, At

LEMMA StartTaskGives ==
  ASSUME Base, NEW w \in Jobs, NEW t \in Tasks, NEW k \in Keys, StartTask(w, t, k)
  PROVE  /\ Only(w) /\ UNCHANGED <<sess, handoffs>>
         /\ job[w].pc = "idle" /\ job'[w].pc = "s_open" /\ job'[w].op = "start"
         /\ job'[w].task = t /\ job'[w].key = k
         /\ job'[w].dying = None /\ job'[w].new = None
<1> DEFINE r == CallJob("s_open", "start", t, None, None, k)
<1>1. r = [pc |-> "s_open", op |-> "start", task |-> t, dying |-> None, seen |-> None,
           key |-> k, new |-> None, hand |-> None, remote |-> None]
  BY DEF CallJob
<1>2. r \in Job
  BY <1>1 DEF Job, Ops, CallOps, StartSteps
<1>3. Begin(w, r) /\ UNCHANGED <<sess, handoffs>>
  BY DEF StartTask
<1>4. Only(w) /\ job[w].pc = "idle" /\ job'[w] = r
  <2> HIDE DEF r
  <2> QED
    BY <1>2, <1>3, BeginGives
<1> HIDE DEF r
<1> QED
  BY <1>1, <1>3, <1>4

LEMMA OnSessionGives ==
  ASSUME Base, NEW w \in Jobs, NEW s \in Sessions, NEW op \in CallOps,
         NEW p \in {"f_send", "y_get", "r_get", "stamp"}, OnSession(w, s, op, p)
  PROVE  /\ Only(w) /\ UNCHANGED <<sess, handoffs>>
         /\ job[w].pc = "idle" /\ job'[w].pc = p /\ job'[w].op = op
         /\ sess[s] # None /\ sess[s] \in Session
         /\ job'[w].task = sess[s].task /\ job'[w].dying = s
         /\ job'[w].seen = sess[s].status /\ job'[w].new = None
<1> DEFINE r == CallJob(p, op, sess[s].task, s, sess[s].status, None)
<1>1. r = [pc |-> p, op |-> op, task |-> sess[s].task, dying |-> s,
           seen |-> sess[s].status, key |-> None, new |-> None, hand |-> None,
           remote |-> None]
  BY DEF CallJob
<1>2. Begin(w, r) /\ UNCHANGED <<sess, handoffs>> /\ sess[s] # None
  BY DEF OnSession
<1>3. sess[s] \in Session
  BY <1>2, JobsTyped
<1>4. r \in Job
  BY <1>1, <1>3 DEF Job, Session, Ops, CallSteps, RotateSteps
<1>5. Only(w) /\ job[w].pc = "idle" /\ job'[w] = r
  <2> HIDE DEF r
  <2> QED
    BY <1>2, <1>4, BeginGives
<1> HIDE DEF r
<1> QED
  BY <1>1, <1>2, <1>3, <1>5

LEMMA StartOpenGives ==
  ASSUME Base, NEW w \in Jobs, StartOpen(w)
  PROVE  \E s \in Sessions :
           /\ RowInserted(s, job[w].task, job[w].key) /\ handoffs' = handoffs
           /\ Only(w) /\ KeepsCall(w) /\ KeepsNew(w)
           /\ job[w].pc = "s_open" /\ job'[w].pc = "s_create"
           /\ job'[w].dying = s /\ job'[w].seen = "creating"
<1>1. PICK s \in FreeSessions :
        /\ \A r \in FreeSessions : s <= r
        /\ Insert(s, job[w].task, job[w].key)
        /\ job' = [job EXCEPT ![w].pc = "s_create", ![w].dying = s,
                              ![w].seen = "creating"]
  BY DEF StartOpen
<1>2. job[w].pc = "s_open" /\ handoffs' = handoffs
  BY DEF StartOpen, At
<1>3. job[w] \in Job /\ job[w].task \in Tasks /\ job[w].key \in Keys
  BY <1>2, JobsTyped DEF Shape
<1>4. RowInserted(s, job[w].task, job[w].key)
  BY <1>1, <1>3, JobsTyped, InsertGives
<1>5. s \in Sessions
  BY DEF FreeSessions
<1>6. /\ job'[w] = [job[w] EXCEPT !.pc = "s_create", !.dying = s, !.seen = "creating"]
      /\ \A v \in Jobs \ {w} : job'[v] = job[v]
  BY <1>1, JobsTyped
<1>7. job'[w] \in Job
  BY <1>3, <1>5, <1>6 DEF Job, StartSteps, Statuses, Live
<1>8. job' \in [Jobs -> Job]
  BY <1>1, <1>7, JobsTyped
<1>9. /\ Only(w) /\ KeepsCall(w) /\ KeepsNew(w)
      /\ job'[w].pc = "s_create" /\ job'[w].dying = s /\ job'[w].seen = "creating"
  BY <1>3, <1>6, <1>8 DEF Only, KeepsCall, KeepsNew, Job
<1> QED
  BY <1>2, <1>4, <1>5, <1>9

LEMMA StartCreatedGives ==
  ASSUME Base, NEW w \in Jobs, StartCreated(w)
  PROVE  Walks(w, "s_create", "s_attach") /\ UNCHANGED <<sess, handoffs>>
<1>1. At(w, "s_create") /\ Goto(w, "s_attach") /\ UNCHANGED <<sess, handoffs>>
  BY DEF StartCreated
<1>2. "s_attach" \in Pcs
  BY DEF Pcs, StartSteps, CallSteps, RotateSteps
<1> QED
  BY <1>1, <1>2, JobsTyped, GotoGives, Zenon

LEMMA StartRefusedGives ==
  ASSUME Base, NEW w \in Jobs, StartRefused(w)
  PROVE  Walks(w, "s_create", "s_fail") /\ StatusSet(job[w].dying, "failed")
         /\ handoffs' = handoffs
<1>1. /\ At(w, "s_create") /\ Goto(w, "s_fail") /\ handoffs' = handoffs
      /\ SetSession(job[w].dying, "failed")
  BY DEF StartRefused
<1>2. "s_fail" \in Pcs
  BY DEF Pcs, StartSteps, CallSteps, RotateSteps
<1>3. job[w].dying \in Sessions /\ sess[job[w].dying] # None
      /\ "failed" \in Statuses
  BY <1>1, JobsTyped DEF At, Shape, DyingExists, Statuses, Live
<1>4. Walks(w, "s_create", "s_fail")
  BY <1>1, <1>2, JobsTyped, GotoGives, Zenon
<1> QED
  BY <1>1, <1>3, <1>4, JobsTyped, SetSessionGives

LEMMA StartExhaustedGives ==
  ASSUME Base, NEW w \in Jobs, StartExhausted(w)
  PROVE  Walks(w, "s_create", "s_run") /\ StatusSet(job[w].dying, "quota_exhausted")
         /\ handoffs' = handoffs
<1>1. /\ At(w, "s_create") /\ Goto(w, "s_run") /\ handoffs' = handoffs
      /\ SetSession(job[w].dying, "quota_exhausted")
  BY DEF StartExhausted
<1>2. "s_run" \in Pcs
  BY DEF Pcs, StartSteps, CallSteps, RotateSteps
<1>3. job[w].dying \in Sessions /\ sess[job[w].dying] # None
      /\ "quota_exhausted" \in Statuses
  BY <1>1, JobsTyped DEF At, Shape, DyingExists, Statuses, Live
<1>4. Walks(w, "s_create", "s_run")
  BY <1>1, <1>2, JobsTyped, GotoGives, Zenon
<1> QED
  BY <1>1, <1>3, <1>4, JobsTyped, SetSessionGives

LEMMA StartFailGives ==
  ASSUME Base, NEW w \in Jobs, StartFail(w)
  PROVE  Ends(w, "s_fail") /\ UNCHANGED <<sess, handoffs>>
<1>1. At(w, "s_fail") /\ Return(w) /\ UNCHANGED <<sess, handoffs>>
  BY DEF StartFail
<1> QED
  BY <1>1, JobsTyped, ReturnGives, Zenon

LEMMA StartRotateGives ==
  ASSUME Base, NEW w \in Jobs, StartRotate(w)
  PROVE  Walks(w, "s_run", "stamp") /\ UNCHANGED <<sess, handoffs>>
<1>1. At(w, "s_run") /\ Goto(w, "stamp") /\ UNCHANGED <<sess, handoffs>>
  BY DEF StartRotate
<1>2. "stamp" \in Pcs
  BY DEF Pcs, StartSteps, CallSteps, RotateSteps
<1> QED
  BY <1>1, <1>2, JobsTyped, GotoGives, Zenon

LEMMA StartAttachGives ==
  ASSUME Base, NEW w \in Jobs, StartAttach(w)
  PROVE  Walks(w, "s_attach", "s_task") /\ RowAttached(job[w].dying)
         /\ handoffs' = handoffs
<1>1. /\ At(w, "s_attach") /\ Goto(w, "s_task") /\ handoffs' = handoffs
      /\ sess' = [sess EXCEPT ![job[w].dying] = Attached(@)]
  BY DEF StartAttach
<1>2. "s_task" \in Pcs
  BY DEF Pcs, StartSteps, CallSteps, RotateSteps
<1>3. job[w].dying \in Sessions /\ sess[job[w].dying] # None
  BY <1>1, JobsTyped DEF At, Shape, DyingExists
<1>4. Walks(w, "s_attach", "s_task")
  BY <1>1, <1>2, JobsTyped, GotoGives, Zenon
<1> QED
  BY <1>1, <1>3, <1>4, JobsTyped, AttachedGives

LEMMA StartRunningGives ==
  ASSUME Base, NEW w \in Jobs, StartRunning(w)
  PROVE  Ends(w, "s_task") /\ UNCHANGED <<sess, handoffs>>
<1>1. At(w, "s_task") /\ Return(w) /\ UNCHANGED <<sess, handoffs>>
  BY DEF StartRunning
<1> QED
  BY <1>1, JobsTyped, ReturnGives, Zenon

LEMMA StartPauseGives ==
  ASSUME Base, NEW w \in Jobs, StartPause(w)
  PROVE  Ends(w, "s_pause") /\ UNCHANGED <<sess, handoffs>>
<1>1. At(w, "s_pause") /\ Return(w) /\ UNCHANGED <<sess, handoffs>>
  BY DEF StartPause
<1> QED
  BY <1>1, JobsTyped, ReturnGives, Zenon

LEMMA FollowUpOverGives ==
  ASSUME Base, NEW w \in Jobs, FollowUpOver(w)
  PROVE  Ends(w, "f_send") /\ UNCHANGED <<sess, handoffs>>
<1>1. At(w, "f_send") /\ Return(w) /\ UNCHANGED <<sess, handoffs>>
  BY DEF FollowUpOver
<1> QED
  BY <1>1, JobsTyped, ReturnGives, Zenon

LEMMA FollowUpExhaustedGives ==
  ASSUME Base, NEW w \in Jobs, FollowUpExhausted(w)
  PROVE  Walks(w, "f_send", "stamp") /\ UNCHANGED <<sess, handoffs>>
<1>1. At(w, "f_send") /\ Goto(w, "stamp") /\ UNCHANGED <<sess, handoffs>>
  BY DEF FollowUpExhausted
<1>2. "stamp" \in Pcs
  BY DEF Pcs, StartSteps, CallSteps, RotateSteps
<1> QED
  BY <1>1, <1>2, JobsTyped, GotoGives, Zenon

LEMMA SyncFailedGives ==
  ASSUME Base, NEW w \in Jobs, SyncFailed(w)
  PROVE  Ends(w, "y_get") /\ UNCHANGED <<sess, handoffs>>
<1>1. At(w, "y_get") /\ Return(w) /\ UNCHANGED <<sess, handoffs>>
  BY DEF SyncFailed
<1> QED
  BY <1>1, JobsTyped, ReturnGives, Zenon

LEMMA SyncExhaustedGives ==
  ASSUME Base, NEW w \in Jobs, SyncExhausted(w)
  PROVE  Walks(w, "y_get", "stamp") /\ UNCHANGED <<sess, handoffs>>
<1>1. At(w, "y_get") /\ Goto(w, "stamp") /\ UNCHANGED <<sess, handoffs>>
  BY DEF SyncExhausted
<1>2. "stamp" \in Pcs
  BY DEF Pcs, StartSteps, CallSteps, RotateSteps
<1> QED
  BY <1>1, <1>2, JobsTyped, GotoGives, Zenon

LEMMA SyncAnsweredGives ==
  ASSUME Base, NEW w \in Jobs, NEW r \in RemoteStatuses, SyncAnswered(w, r)
  PROVE  /\ Only(w) /\ KeepsCall(w) /\ KeepsRow(w) /\ job'[w].new = job[w].new
         /\ job[w].pc = "y_get" /\ job'[w].pc = "y_replace"
         /\ job'[w].remote = r
         /\ UNCHANGED <<sess, handoffs>>
<1>1. /\ job[w].pc = "y_get" /\ UNCHANGED <<sess, handoffs>>
      /\ job' = [job EXCEPT ![w].pc = "y_replace", ![w].remote = r]
  BY DEF SyncAnswered, At
<1>2. job[w] \in Job
  BY JobsTyped
<1>3. /\ job'[w] = [job[w] EXCEPT !.pc = "y_replace", !.remote = r]
      /\ \A v \in Jobs \ {w} : job'[v] = job[v]
  BY <1>1, JobsTyped
<1>4. job'[w] \in Job
  BY <1>2, <1>3 DEF Job, CallSteps
<1>5. job' \in [Jobs -> Job]
  BY <1>1, <1>4, JobsTyped
<1> QED
  BY <1>1, <1>2, <1>3, <1>5 DEF Only, KeepsCall, KeepsRow, KeepsNew, Job

LEMMA SyncReplaceGives ==
  ASSUME Base, NEW w \in Jobs, SyncReplace(w)
  PROVE  Walks(w, "y_replace", "y_status") /\ UNCHANGED <<sess, handoffs>>
<1>1. At(w, "y_replace") /\ Goto(w, "y_status") /\ UNCHANGED <<sess, handoffs>>
  BY DEF SyncReplace
<1>2. "y_status" \in Pcs
  BY DEF Pcs, StartSteps, CallSteps, RotateSteps
<1> QED
  BY <1>1, <1>2, JobsTyped, GotoGives, Zenon

LEMMA SyncStatusGives ==
  ASSUME Base, NEW w \in Jobs, SyncStatus(w)
  PROVE  /\ Ends(w, "y_status") /\ handoffs' = handoffs
         /\ \/ sess' = sess
            \/ /\ job[w].remote \in Statuses \ {"creating", "handoff_done"}
               /\ StatusSet(job[w].dying, job[w].remote)
<1>1. At(w, "y_status") /\ Return(w) /\ handoffs' = handoffs
  BY DEF SyncStatus
<1>2. Ends(w, "y_status")
  BY <1>1, JobsTyped, ReturnGives
<1>3. CASE job[w].remote = ""
  BY <1>1, <1>2, <1>3 DEF SyncStatus
<1>4. CASE job[w].remote # ""
  <2>1. SetSession(job[w].dying, job[w].remote)
    BY <1>4 DEF SyncStatus
  <2>2. job[w].remote \in RemoteStatuses
    BY <1>1, JobsTyped DEF At, Shape
  <2>3. job[w].remote \in Statuses \ {"creating", "handoff_done"}
    BY <1>4, <2>2, RemoteAssumption DEF RemoteAnswers, Statuses, Live
  <2>4. job[w].dying \in Sessions /\ sess[job[w].dying] # None
    BY <1>1, JobsTyped DEF At, Shape, DyingExists
  <2>5. StatusSet(job[w].dying, job[w].remote)
    BY <2>1, <2>3, <2>4, JobsTyped, SetSessionGives
  <2> QED
    BY <1>1, <1>2, <2>3, <2>5
<1> QED
  BY <1>3, <1>4

LEMMA ResumeReadGives ==
  ASSUME Base, NEW w \in Jobs, ResumeRead(w)
  PROVE  /\ Only(w) /\ KeepsCall(w) /\ KeepsNew(w) /\ job'[w].dying = job[w].dying
         /\ job[w].pc = "r_get" /\ job'[w].pc = "stamp"
         /\ job'[w].seen = sess[job[w].dying].status
         /\ UNCHANGED <<sess, handoffs>>
<1>1. /\ job[w].pc = "r_get" /\ UNCHANGED <<sess, handoffs>>
      /\ job' = [job EXCEPT ![w].pc = "stamp", ![w].seen = sess[job[w].dying].status]
  BY DEF ResumeRead, At
<1>2. job[w] \in Job /\ sess[job[w].dying] \in Session
  <2>1. job[w].dying \in Sessions /\ sess[job[w].dying] # None
    BY <1>1, JobsTyped DEF Shape, DyingExists
  <2> QED
    BY <2>1, JobsTyped
<1>3. /\ job'[w] = [job[w] EXCEPT !.pc = "stamp", !.seen = sess[job[w].dying].status]
      /\ \A v \in Jobs \ {w} : job'[v] = job[v]
  BY <1>1, JobsTyped
<1>4. job'[w] \in Job
  BY <1>2, <1>3 DEF Job, RotateSteps, Session
<1>5. job' \in [Jobs -> Job]
  BY <1>1, <1>4, JobsTyped
<1> QED
  BY <1>1, <1>2, <1>3, <1>5 DEF Only, KeepsCall, KeepsRow, KeepsNew, Job

LEMMA AlreadyRotatedGives ==
  ASSUME Base, NEW w \in Jobs, AlreadyRotated(w)
  PROVE  /\ job[w].seen = "handoff_done" /\ UNCHANGED <<sess, handoffs>>
         /\ \/ job[w].op = "start" /\ Walks(w, "stamp", "s_pause")
            \/ job[w].op # "start" /\ Ends(w, "stamp")
<1>1. /\ At(w, "stamp") /\ job[w].seen = "handoff_done" /\ GiveUp(w)
      /\ UNCHANGED <<sess, handoffs>>
  BY DEF AlreadyRotated
<1> QED
  BY <1>1, JobsTyped, GiveUpGives

LEMMA StampGives ==
  ASSUME Base, NEW w \in Jobs, Stamp(w)
  PROVE  /\ job[w].seen # "handoff_done" /\ handoffs' = handoffs
         /\ \/ /\ Manual(w) /\ Walks(w, "stamp", "handoff")
               /\ StatusSet(job[w].dying, "handoff_pending")
            \/ /\ ~Manual(w) /\ Walks(w, "stamp", "mark")
               /\ StatusSet(job[w].dying, "quota_exhausted")
<1>1. At(w, "stamp") /\ job[w].seen # "handoff_done" /\ handoffs' = handoffs
  BY DEF Stamp
<1>2. /\ "handoff_pending" \in Statuses /\ "quota_exhausted" \in Statuses
      /\ "handoff" \in Pcs /\ "mark" \in Pcs
  BY DEF Statuses, Live, Pcs, RotateSteps
<1>3. job[w].dying \in Sessions /\ sess[job[w].dying] # None
  BY <1>1, JobsTyped DEF At, Shape, DyingExists
<1>4. CASE Manual(w)
  <2>1. SetSession(job[w].dying, "handoff_pending") /\ Goto(w, "handoff")
    BY <1>4 DEF Stamp
  <2>2. Walks(w, "stamp", "handoff")
    BY <1>1, <1>2, <2>1, JobsTyped, GotoGives, Zenon
  <2>3. StatusSet(job[w].dying, "handoff_pending")
    BY <1>2, <1>3, <2>1, JobsTyped, SetSessionGives
  <2> QED
    BY <1>1, <1>4, <2>2, <2>3
<1>5. CASE ~Manual(w)
  <2>1. SetSession(job[w].dying, "quota_exhausted") /\ Goto(w, "mark")
    BY <1>5 DEF Stamp
  <2>2. Walks(w, "stamp", "mark")
    BY <1>1, <1>2, <2>1, JobsTyped, GotoGives, Zenon
  <2>3. StatusSet(job[w].dying, "quota_exhausted")
    BY <1>2, <1>3, <2>1, JobsTyped, SetSessionGives
  <2> QED
    BY <1>1, <1>5, <2>2, <2>3
<1> QED
  BY <1>4, <1>5

LEMMA MarkDyingGives ==
  ASSUME Base, NEW w \in Jobs, MarkDying(w)
  PROVE  Walks(w, "mark", "handoff") /\ UNCHANGED <<sess, handoffs>>
<1>1. At(w, "mark") /\ Goto(w, "handoff") /\ UNCHANGED <<sess, handoffs>>
  BY DEF MarkDying
<1>2. "handoff" \in Pcs
  BY DEF Pcs, StartSteps, CallSteps, RotateSteps
<1> QED
  BY <1>1, <1>2, JobsTyped, GotoGives, Zenon

LEMMA CreateHandoffGives ==
  ASSUME Base, NEW w \in Jobs, CreateHandoff(w)
  PROVE  /\ sess' = sess
         /\ \E h \in HandoffIds :
              /\ handoffs[h] = None /\ OtherHandoffs(h)
              /\ handoffs'[h] = NewHandoff(w) /\ handoffs'[h] \in Handoff
              /\ Only(w) /\ KeepsRow(w) /\ KeepsNew(w)
              /\ job[w].pc = "handoff" /\ job'[w].pc = "pick"
              /\ job'[w].op = job[w].op /\ job'[w].task = job[w].task
              /\ job'[w].hand = h
<1>1. PICK h \in FreeHandoffs :
        /\ handoffs' = [handoffs EXCEPT ![h] = NewHandoff(w)]
        /\ job' = [job EXCEPT ![w].pc = "pick", ![w].hand = h]
  BY DEF CreateHandoff
<1>2. job[w].pc = "handoff" /\ sess' = sess
  BY DEF CreateHandoff, At
<1>3. h \in HandoffIds /\ handoffs[h] = None
  BY DEF FreeHandoffs
<1>4. job[w] \in Job /\ job[w].dying \in Sessions
  BY <1>2, JobsTyped DEF Shape, DyingExists
<1>5. NewHandoff(w) \in Handoff
  BY <1>4 DEF NewHandoff, Handoff, Transcript
<1>6. handoffs'[h] = NewHandoff(w) /\ OtherHandoffs(h)
  BY <1>1, <1>3, <1>5, JobsTyped DEF OtherHandoffs
<1>7. /\ job'[w] = [job[w] EXCEPT !.pc = "pick", !.hand = h]
      /\ \A v \in Jobs \ {w} : job'[v] = job[v]
  BY <1>1, JobsTyped
<1>8. job'[w] \in Job
  BY <1>3, <1>4, <1>7 DEF Job, RotateSteps
<1>9. job' \in [Jobs -> Job]
  BY <1>1, <1>8, JobsTyped
<1>10. /\ Only(w) /\ KeepsRow(w) /\ KeepsNew(w)
      /\ job'[w].pc = "pick" /\ job'[w].hand = h
      /\ job'[w].op = job[w].op /\ job'[w].task = job[w].task
  BY <1>4, <1>7, <1>9 DEF Only, KeepsRow, KeepsNew, Job
<1> QED
  BY <1>2, <1>3, <1>5, <1>6, <1>10

LEMMA PickKeyGives ==
  ASSUME Base, NEW w \in Jobs, NEW k \in Keys, PickKey(w, k)
  PROVE  /\ Only(w) /\ KeepsCall(w) /\ KeepsRow(w) /\ job'[w].new = job[w].new
         /\ job[w].pc = "pick" /\ job'[w].pc = "open"
         /\ job'[w].key = k
         /\ UNCHANGED <<sess, handoffs>>
<1>1. /\ job[w].pc = "pick" /\ UNCHANGED <<sess, handoffs>>
      /\ job' = [job EXCEPT ![w].pc = "open", ![w].key = k]
  BY DEF PickKey, At
<1>2. job[w] \in Job
  BY JobsTyped
<1>3. /\ job'[w] = [job[w] EXCEPT !.pc = "open", !.key = k]
      /\ \A v \in Jobs \ {w} : job'[v] = job[v]
  BY <1>1, JobsTyped
<1>4. job'[w] \in Job
  BY <1>2, <1>3 DEF Job, RotateSteps
<1>5. job' \in [Jobs -> Job]
  BY <1>1, <1>4, JobsTyped
<1> QED
  BY <1>1, <1>2, <1>3, <1>5 DEF Only, KeepsCall, KeepsRow, KeepsNew, Job

LEMMA NoActiveKeyGives ==
  ASSUME Base, NEW w \in Jobs, NoActiveKey(w)
  PROVE  Walks(w, "pick", "cleanup") /\ UNCHANGED <<sess, handoffs>>
<1>1. At(w, "pick") /\ Goto(w, "cleanup") /\ UNCHANGED <<sess, handoffs>>
  BY DEF NoActiveKey
<1>2. "cleanup" \in Pcs
  BY DEF Pcs, StartSteps, CallSteps, RotateSteps
<1> QED
  BY <1>1, <1>2, JobsTyped, GotoGives, Zenon

LEMMA OpenReplacementGives ==
  ASSUME Base, NEW w \in Jobs, OpenReplacement(w)
  PROVE  \E s \in Sessions :
           /\ RowInserted(s, job[w].task, job[w].key) /\ handoffs' = handoffs
           /\ Only(w) /\ KeepsCall(w) /\ KeepsRow(w)
           /\ job[w].pc = "open" /\ job'[w].pc = "create"
           /\ job'[w].key = job[w].key /\ job'[w].new = s
<1>1. PICK s \in FreeSessions :
        /\ \A r \in FreeSessions : s <= r
        /\ Insert(s, job[w].task, job[w].key)
        /\ job' = [job EXCEPT ![w].pc = "create", ![w].new = s]
  BY DEF OpenReplacement
<1>2. job[w].pc = "open" /\ handoffs' = handoffs
  BY DEF OpenReplacement, At
<1>3. job[w] \in Job /\ job[w].task \in Tasks /\ job[w].key \in Keys
  BY <1>2, JobsTyped DEF Shape, DyingExists, KeyedSteps
<1>4. RowInserted(s, job[w].task, job[w].key)
  BY <1>1, <1>3, JobsTyped, InsertGives
<1>5. s \in Sessions
  BY DEF FreeSessions
<1>6. /\ job'[w] = [job[w] EXCEPT !.pc = "create", !.new = s]
      /\ \A v \in Jobs \ {w} : job'[v] = job[v]
  BY <1>1, JobsTyped
<1>7. job'[w] \in Job
  BY <1>3, <1>5, <1>6 DEF Job, RotateSteps
<1>8. job' \in [Jobs -> Job]
  BY <1>1, <1>7, JobsTyped
<1>9. /\ Only(w) /\ KeepsCall(w) /\ KeepsRow(w)
      /\ job'[w].pc = "create" /\ job'[w].new = s /\ job'[w].key = job[w].key
  BY <1>3, <1>6, <1>8 DEF Only, KeepsCall, KeepsRow, Job
<1> QED
  BY <1>2, <1>4, <1>5, <1>9

LEMMA CreatedGives ==
  ASSUME Base, NEW w \in Jobs, Created(w)
  PROVE  Walks(w, "create", "attach") /\ UNCHANGED <<sess, handoffs>>
<1>1. At(w, "create") /\ Goto(w, "attach") /\ UNCHANGED <<sess, handoffs>>
  BY DEF Created
<1>2. "attach" \in Pcs
  BY DEF Pcs, StartSteps, CallSteps, RotateSteps
<1> QED
  BY <1>1, <1>2, JobsTyped, GotoGives, Zenon

LEMMA CreateFailedGives ==
  ASSUME Base, NEW w \in Jobs, NEW next \in {"mark_new", "cleanup"}, CreateFailed(w, next)
  PROVE  Walks(w, "create", next) /\ StatusSet(job[w].new, "failed")
         /\ handoffs' = handoffs
<1>1. /\ At(w, "create") /\ Goto(w, next) /\ handoffs' = handoffs
      /\ SetSession(job[w].new, "failed")
  BY DEF CreateFailed
<1>2. next \in Pcs
  BY DEF Pcs, StartSteps, CallSteps, RotateSteps
<1>3. job[w].new \in Sessions /\ sess[job[w].new] # None
      /\ "failed" \in Statuses
  BY <1>1, JobsTyped DEF At, Shape, NewExists, NewSteps, Statuses, Live
<1>4. Walks(w, "create", next)
  BY <1>1, <1>2, JobsTyped, GotoGives, Zenon
<1> QED
  BY <1>1, <1>3, <1>4, JobsTyped, SetSessionGives

LEMMA MarkNewGives ==
  ASSUME Base, NEW w \in Jobs, MarkNew(w)
  PROVE  Walks(w, "mark_new", "cleanup") /\ UNCHANGED <<sess, handoffs>>
<1>1. At(w, "mark_new") /\ Goto(w, "cleanup") /\ UNCHANGED <<sess, handoffs>>
  BY DEF MarkNew
<1>2. "cleanup" \in Pcs
  BY DEF Pcs, StartSteps, CallSteps, RotateSteps
<1> QED
  BY <1>1, <1>2, JobsTyped, GotoGives, Zenon

LEMMA CleanupGives ==
  ASSUME Base, NEW w \in Jobs, Cleanup(w)
  PROVE  /\ sess' = sess
         /\ OtherHandoffs(job[w].hand) /\ handoffs'[job[w].hand] = None
         /\ \/ job[w].op = "start" /\ Walks(w, "cleanup", "s_pause")
            \/ job[w].op # "start" /\ Ends(w, "cleanup")
<1>1. At(w, "cleanup") /\ Remove(w) /\ GiveUp(w) /\ sess' = sess
  BY DEF Cleanup
<1>2. job[w].hand \in HandoffIds
  BY <1>1, JobsTyped DEF At, Shape, HoldSteps
<1>3. OtherHandoffs(job[w].hand) /\ handoffs'[job[w].hand] = None
  BY <1>1, <1>2, JobsTyped DEF Remove, OtherHandoffs
<1> QED
  BY <1>1, <1>3, JobsTyped, GiveUpGives

LEMMA AttachGives ==
  ASSUME Base, NEW w \in Jobs, Attach(w)
  PROVE  Walks(w, "attach", "link") /\ RowAttached(job[w].new)
         /\ handoffs' = handoffs
<1>1. /\ At(w, "attach") /\ Goto(w, "link") /\ handoffs' = handoffs
      /\ sess' = [sess EXCEPT ![job[w].new] = Attached(@)]
  BY DEF Attach
<1>2. "link" \in Pcs
  BY DEF Pcs, StartSteps, CallSteps, RotateSteps
<1>3. job[w].new \in Sessions /\ sess[job[w].new] # None
  BY <1>1, JobsTyped DEF At, Shape, NewExists, NewSteps
<1>4. Walks(w, "attach", "link")
  BY <1>1, <1>2, JobsTyped, GotoGives, Zenon
<1> QED
  BY <1>1, <1>3, <1>4, JobsTyped, AttachedGives

LEMMA LinkGives ==
  ASSUME Base, NEW w \in Jobs, Link(w)
  PROVE  /\ Walks(w, "link", "done") /\ sess' = sess
         /\ OtherHandoffs(job[w].hand)
         /\ handoffs'[job[w].hand] # None
         /\ handoffs'[job[w].hand].from = job[w].dying
         /\ handoffs'[job[w].hand].to = job[w].new
         /\ handoffs'[job[w].hand].text = handoffs[job[w].hand].text
<1>1. At(w, "link") /\ LinkTo(w) /\ Goto(w, "done") /\ sess' = sess
  BY DEF Link
<1>2. job[w].hand \in HandoffIds /\ job[w].new \in Sessions
  BY <1>1, JobsTyped DEF At, Shape, HoldSteps, NewSteps, NewExists
<1>3. handoffs[job[w].hand] # None /\ handoffs[job[w].hand].from = job[w].dying
  BY <1>1 DEF Base, Held, At, HoldSteps
<1>4. handoffs[job[w].hand] \in Handoff
  BY <1>2, <1>3, JobsTyped
<1>5. /\ handoffs'[job[w].hand] = [handoffs[job[w].hand] EXCEPT !.to = job[w].new]
      /\ \A g \in HandoffIds \ {job[w].hand} : handoffs'[g] = handoffs[g]
  BY <1>1, <1>2, JobsTyped DEF LinkTo
<1>6. /\ handoffs'[job[w].hand] \in Handoff
      /\ handoffs'[job[w].hand].from = job[w].dying
      /\ handoffs'[job[w].hand].to = job[w].new
      /\ handoffs'[job[w].hand].text = handoffs[job[w].hand].text
  BY <1>2, <1>3, <1>4, <1>5 DEF Handoff
<1>7. handoffs' \in [HandoffIds -> Handoff \cup {None}]
  BY <1>1, <1>6, JobsTyped DEF LinkTo
<1>8. "done" \in Pcs
  BY DEF Pcs, RotateSteps
<1>9. Walks(w, "link", "done")
  BY <1>1, <1>8, JobsTyped, GotoGives
<1> QED
  BY <1>1, <1>5, <1>6, <1>7, <1>9, NotNull DEF OtherHandoffs

LEMMA HandoffDoneGives ==
  ASSUME Base, NEW w \in Jobs, HandoffDone(w)
  PROVE  Walks(w, "done", "settle") /\ StatusSet(job[w].dying, "handoff_done")
         /\ handoffs' = handoffs
<1>1. /\ At(w, "done") /\ Goto(w, "settle") /\ handoffs' = handoffs
      /\ SetSession(job[w].dying, "handoff_done")
  BY DEF HandoffDone
<1>2. "settle" \in Pcs
  BY DEF Pcs, StartSteps, CallSteps, RotateSteps
<1>3. job[w].dying \in Sessions /\ sess[job[w].dying] # None
      /\ "handoff_done" \in Statuses
  BY <1>1, JobsTyped DEF At, Shape, DyingExists, Statuses, Live
<1>4. Walks(w, "done", "settle")
  BY <1>1, <1>2, JobsTyped, GotoGives, Zenon
<1> QED
  BY <1>1, <1>3, <1>4, JobsTyped, SetSessionGives

LEMMA SettleGives ==
  ASSUME Base, NEW w \in Jobs, Settle(w)
  PROVE  Ends(w, "settle") /\ UNCHANGED <<sess, handoffs>>
<1>1. At(w, "settle") /\ Return(w) /\ UNCHANGED <<sess, handoffs>>
  BY DEF Settle
<1> QED
  BY <1>1, JobsTyped, ReturnGives, Zenon

LEMMA AbortGives ==
  ASSUME Base, NEW w \in Jobs, Abort(w)
  PROVE  /\ MayAbort /\ UNCHANGED <<sess, handoffs>>
         /\ \/ /\ Only(w) /\ KeepsRow(w) /\ KeepsNew(w)
               /\ job[w].pc \in HoldSteps /\ job'[w].pc = "cleanup"
               /\ job'[w].op = "aborted"
               /\ job'[w].task = job[w].task /\ job'[w].hand = job[w].hand
            \/ job[w].pc \notin HoldSteps /\ Ends(w, job[w].pc)
<1>1. MayAbort /\ UNCHANGED <<sess, handoffs>>
  BY DEF Abort
<1>2. CASE job[w].pc \in HoldSteps
  <2>1. job' = [job EXCEPT ![w].pc = "cleanup", ![w].op = "aborted"]
    BY <1>2 DEF Abort
  <2>2. job[w] \in Job
    BY JobsTyped
  <2>3. /\ job'[w] = [job[w] EXCEPT !.pc = "cleanup", !.op = "aborted"]
        /\ \A v \in Jobs \ {w} : job'[v] = job[v]
    BY <2>1, JobsTyped
  <2>4. job'[w] \in Job
    BY <2>2, <2>3 DEF Job, RotateSteps, Ops
  <2>5. job' \in [Jobs -> Job]
    BY <2>1, <2>4, JobsTyped
  <2> QED
    BY <1>1, <1>2, <2>2, <2>3, <2>5 DEF Only, KeepsRow, KeepsNew, Job
<1>3. CASE job[w].pc \notin HoldSteps
  BY <1>1, <1>3, JobsTyped, ReturnGives DEF Abort, At
<1> QED
  BY <1>2, <1>3

-----------------------------------------------------------------------------
(* The base invariant is kept.                                             *)

\* Rows are never deleted, and keep their task, their key and their Devin id.
Grows ==
  \A s \in Sessions :
    sess[s] # None =>
      /\ sess'[s] # None
      /\ sess'[s].task = sess[s].task /\ sess'[s].key = sess[s].key
      /\ sess[s].devin => sess'[s].devin

\* All that a step does to the sessions table.
RowStep ==
  \/ sess' = sess
  \/ \E s \in Sessions :
       sess[s] # None /\ (RowAttached(s) \/ \E st \in Statuses : StatusSet(s, st))
  \/ \E s \in Sessions : \E t \in Tasks, k \in Keys : RowInserted(s, t, k)

LEMMA RowStepGives ==
  ASSUME Base, RowStep
  PROVE  /\ sess' \in [Sessions -> Session \cup {None}]
         /\ Dense' /\ Grows
<1>1. Sessions \subseteq Int
  BY BoundAssumption DEF Sessions
<1>2. CASE sess' = sess
  BY <1>2, JobsTyped DEF Base, Dense, Grows
<1>3. ASSUME NEW s \in Sessions, sess[s] # None,
             RowAttached(s) \/ \E st \in Statuses : StatusSet(s, st)
      PROVE  /\ sess' \in [Sessions -> Session \cup {None}]
             /\ Dense' /\ Grows
  BY <1>3 DEF Base, Dense, Grows, RowAttached, StatusSet, OtherRows
<1>4. ASSUME NEW s \in Sessions, NEW t \in Tasks, NEW k \in Keys, RowInserted(s, t, k)
      PROVE  /\ sess' \in [Sessions -> Session \cup {None}]
             /\ Dense' /\ Grows
  <2>1. Dense'
    <3> SUFFICES ASSUME NEW q \in Sessions, NEW r \in Sessions, q < r, sess'[r] # None
                 PROVE  sess'[q] # None
      BY DEF Dense
    <3>1. CASE r = s
      BY <1>4, <3>1, <1>1 DEF RowInserted, OtherRows
    <3>2. CASE r # s
      BY <1>4, <3>2, <1>1 DEF Base, Dense, RowInserted, OtherRows
    <3> QED
      BY <3>1, <3>2
  <2> QED
    BY <1>4, <2>1 DEF Grows, RowInserted, OtherRows
<1> QED
  BY <1>2, <1>3, <1>4 DEF RowStep

LEMMA ShapeStays ==
  ASSUME Base, Grows, NEW v \in Jobs, job'[v] = job[v]
  PROVE  Shape(v)'
<1>1. Shape(v)
  BY JobsTyped
<1>2. CASE job[v].pc \notin {"idle", "s_open"}
  BY <1>1, <1>2 DEF Shape, DyingExists, NewExists, NewSteps, Grows
<1>3. CASE job[v].pc \in {"idle", "s_open"}
  BY <1>1, <1>3 DEF Shape, StartSteps, CallSteps, HoldSteps, KeyedSteps, NewSteps
<1> QED
  BY <1>2, <1>3

-----------------------------------------------------------------------------
(* The kinds of steps a goroutine takes.                                   *)

\* From one statement to the next, no row of the two tables changed.
PlainEdges == {
  <<"s_create", "s_attach">>, <<"s_run", "stamp">>, <<"f_send", "stamp">>,
  <<"y_get", "stamp">>, <<"y_replace", "y_status">>, <<"mark", "handoff">>,
  <<"pick", "cleanup">>, <<"create", "attach">>, <<"mark_new", "cleanup">>}

Plain(w) ==
  /\ UNCHANGED <<sess, handoffs>>
  /\ \E p, q \in Pcs :
       /\ <<p, q>> \in PlainEdges /\ Walks(w, p, q)
       /\ p = "mark" => usable' = usable \ {sess[job[w].dying].key}
       /\ p = "f_send" => job[w].dying \in unsent'

\* The statements that write the status of the call's session.
StatusEdges == {
  <<"s_create", "s_fail", "failed">>, <<"s_create", "s_run", "quota_exhausted">>,
  <<"stamp", "mark", "quota_exhausted">>, <<"stamp", "handoff", "handoff_pending">>,
  <<"done", "settle", "handoff_done">>}

Stamps(w) ==
  /\ handoffs' = handoffs
  /\ \E p, q \in Pcs, st \in Statuses :
       /\ <<p, q, st>> \in StatusEdges /\ Walks(w, p, q) /\ StatusSet(job[w].dying, st)
       /\ p = "stamp" => job[w].seen # "handoff_done" /\ (q = "handoff" <=> Manual(w))

\* The replacement could not be created.
Refused(w) ==
  /\ handoffs' = handoffs
  /\ \E q \in {"mark_new", "cleanup"} :
       Walks(w, "create", q) /\ StatusSet(job[w].new, "failed")

\* A Devin id arrived: for StartTask's session, for the replacement.
Attaches(w) ==
  /\ handoffs' = handoffs
  /\ \/ Walks(w, "s_attach", "s_task") /\ RowAttached(job[w].dying)
     \/ Walks(w, "attach", "link") /\ RowAttached(job[w].new)

\* The statements a call returns from, when it is not cut short.
EndSteps == {"s_fail", "s_task", "s_pause", "f_send", "y_get", "y_status", "stamp",
             "settle"}

\* The call is over; a sync's last statement is the status.
Over(w) ==
  /\ handoffs' = handoffs
  /\ \E p \in Pcs \ HoldSteps :
       /\ Ends(w, p)
       /\ MayAbort \/ p \in EndSteps
       /\ \/ sess' = sess
          \/ \E st \in Statuses \ {"creating", "handoff_done"} :
               p = "y_status" /\ StatusSet(job[w].dying, st)

\* rotate returned an error to StartTask at its first line.
Pauses(w) ==
  /\ UNCHANGED <<sess, handoffs>>
  /\ job[w].op = "start" /\ Walks(w, "stamp", "s_pause")

\* The context was cancelled while a handoff row was held.
Aborts(w) ==
  /\ MayAbort /\ UNCHANGED <<sess, handoffs>>
  /\ Only(w) /\ KeepsRow(w) /\ KeepsNew(w)
  /\ job[w].pc \in HoldSteps /\ job'[w].pc = "cleanup" /\ job'[w].op = "aborted"
  /\ job'[w].task = job[w].task /\ job'[w].hand = job[w].hand

\* A call on a session begins.
Begins(w) ==
  \E s \in Sessions, op \in CallOps, p \in {"f_send", "y_get", "r_get", "stamp"} :
    /\ OnSession(w, s, op, p)
    /\ <<op, p>> \in {<<"follow", "f_send">>, <<"sync", "y_get">>, <<"manual", "stamp">>,
                      <<"resume", "r_get">>}
    /\ op = "manual" => sess[s].status \in Rotatable

\* The kinds that only touch what is the call's own; the rest are named actions.
Small(w) == Plain(w) \/ Stamps(w) \/ Refused(w) \/ Attaches(w) \/ Over(w) \/ Pauses(w)
            \/ Aborts(w) \/ Begins(w)

Sets(w) ==
  \/ \E t \in Tasks, k \in Keys : StartTask(w, t, k)
  \/ StartOpen(w) \/ ResumeRead(w) \/ OpenReplacement(w)
  \/ \E r \in RemoteStatuses : SyncAnswered(w, r)
  \/ \E k \in Keys : PickKey(w, k)

Hands(w) == CreateHandoff(w) \/ Link(w) \/ Cleanup(w)

\* One goroutine moves.
Moving(w) == Call(w) \/ Step(w) \/ Abort(w)

LEMMA StartKinds ==
  ASSUME Base, NEW w \in Jobs, StartStep(w)
  PROVE  Small(w) \/ Sets(w)
<1>1. CASE StartCreated(w) \/ StartRotate(w)
  BY <1>1, StartCreatedGives, StartRotateGives
  DEF Small, Plain, PlainEdges, Pcs, StartSteps, RotateSteps
<1>2. CASE StartRefused(w) \/ StartExhausted(w)
  BY <1>2, StartRefusedGives, StartExhaustedGives
  DEF Small, Stamps, StatusEdges, Pcs, StartSteps, Statuses
<1>3. CASE StartFail(w) \/ StartRunning(w) \/ StartPause(w)
  BY <1>3, StartFailGives, StartRunningGives, StartPauseGives
  DEF Small, Over, EndSteps, Pcs, StartSteps, HoldSteps
<1>4. CASE StartAttach(w)
  BY <1>4, StartAttachGives DEF Small, Attaches
<1> QED
  BY <1>1, <1>2, <1>3, <1>4 DEF StartStep, Sets

LEMMA CallKinds ==
  ASSUME Base, NEW w \in Jobs, CallStep(w)
  PROVE  Small(w) \/ Sets(w)
<1>1. CASE FollowUpExhausted(w)
  <2>1. job[w].dying \in unsent'
    BY <1>1 DEF FollowUpExhausted
  <2> QED
    BY <1>1, <2>1, FollowUpExhaustedGives
    DEF Small, Plain, PlainEdges, Pcs, CallSteps, RotateSteps
<1>2. CASE SyncExhausted(w) \/ SyncReplace(w)
  BY <1>2, SyncExhaustedGives, SyncReplaceGives
  DEF Small, Plain, PlainEdges, Pcs, CallSteps, RotateSteps
<1>3. CASE FollowUpOver(w) \/ SyncFailed(w)
  BY <1>3, FollowUpOverGives, SyncFailedGives
  DEF Small, Over, EndSteps, Pcs, CallSteps, HoldSteps
<1>4. CASE SyncStatus(w)
  BY <1>4, SyncStatusGives DEF Small, Over, EndSteps, Pcs, CallSteps, HoldSteps
<1> QED
  BY <1>1, <1>2, <1>3, <1>4 DEF CallStep, Sets

LEMMA RotateKinds ==
  ASSUME Base, NEW w \in Jobs, RotateStep(w)
  PROVE  Small(w) \/ Sets(w) \/ Hands(w)
<1>1. CASE AlreadyRotated(w)
  BY <1>1, AlreadyRotatedGives
  DEF Small, Pauses, Over, EndSteps, Pcs, RotateSteps, HoldSteps
<1>2. CASE Stamp(w)
  BY <1>2, StampGives DEF Small, Stamps, StatusEdges, Pcs, RotateSteps, Statuses, Live
<1>3. CASE MarkDying(w)
  <2>1. usable' = usable \ {sess[job[w].dying].key}
    BY <1>3 DEF MarkDying
  <2> QED
    BY <1>3, <2>1, MarkDyingGives DEF Small, Plain, PlainEdges, Pcs, RotateSteps
<1>4. CASE NoActiveKey(w) \/ Created(w) \/ MarkNew(w)
  BY <1>4, NoActiveKeyGives, CreatedGives, MarkNewGives
  DEF Small, Plain, PlainEdges, Pcs, RotateSteps
<1>5. ASSUME NEW next \in {"mark_new", "cleanup"}, CreateFailed(w, next)
      PROVE  Refused(w)
  BY <1>5, CreateFailedGives DEF Refused
<1>6. CASE Attach(w)
  BY <1>6, AttachGives DEF Small, Attaches
<1>7. CASE HandoffDone(w)
  BY <1>7, HandoffDoneGives DEF Small, Stamps, StatusEdges, Pcs, RotateSteps, Statuses
<1>8. CASE Settle(w)
  BY <1>8, SettleGives DEF Small, Over, EndSteps, Pcs, RotateSteps, HoldSteps
<1> QED
  BY <1>1, <1>2, <1>3, <1>4, <1>5, <1>6, <1>7, <1>8 DEF RotateStep, Small, Sets, Hands

LEMMA MovingKinds ==
  ASSUME Base, NEW w \in Jobs, Moving(w)
  PROVE  Small(w) \/ Sets(w) \/ Hands(w)
<1>1. CASE Call(w)
  BY <1>1 DEF Call, SendFollowUp, SyncSession, ForceRotate, ResumeSession, CallOps,
     Small, Begins, Sets
<1>2. CASE Abort(w)
  BY <1>2, AbortGives, JobsTyped DEF Abort, Small, Aborts, Over, Job, Pcs
<1> QED
  BY <1>1, <1>2, StartKinds, CallKinds, RotateKinds DEF Moving, Step

-----------------------------------------------------------------------------
(* The base invariant.                                                     *)

\* Statement q wants nothing of the locals that statement p has not given.
Fits(w, p, q) ==
  /\ p \notin {"idle", "s_open"} /\ q \notin {"idle", "s_open", "link"} \cup CallSteps
  /\ q \in StartSteps => job[w].op = "start"
  /\ q \in HoldSteps => p \in HoldSteps
  /\ q \in KeyedSteps => p \in KeyedSteps
  /\ q \in NewSteps => p \in NewSteps

LEMMA WalkShape ==
  ASSUME Base, Grows, NEW w \in Jobs, NEW p, NEW q, Walks(w, p, q),
         Fits(w, p, q) \/ (p = "y_replace" /\ q = "y_status")
  PROVE  Shape(w)'
<1>1. Shape(w) /\ job[w].pc = p /\ job'[w].pc = q
  BY JobsTyped DEF Walks
<1>2. DyingExists(w)'
  BY <1>1 DEF Shape, Fits, DyingExists, Grows, Walks, KeepsCall, KeepsRow
<1>3. CASE Fits(w, p, q)
  <2>1. q \in NewSteps => NewExists(w)'
    BY <1>1, <1>3 DEF Shape, Fits, NewExists, DyingExists, Grows, Walks, KeepsCall,
       KeepsRow, KeepsNew
  <2>2. /\ q \in StartSteps => job'[w].op = "start"
        /\ q \in HoldSteps => job'[w].hand \in HandoffIds
        /\ q \in KeyedSteps => job'[w].key \in Keys
    BY <1>1, <1>3 DEF Shape, Fits, Walks, KeepsCall, KeepsNew
  <2>3. q \notin {"idle", "s_open", "link"} \cup CallSteps
    BY <1>3 DEF Fits
  <2> QED
    BY <1>1, <1>2, <2>1, <2>2, <2>3 DEF Shape, CallSteps
<1>4. CASE p = "y_replace" /\ q = "y_status"
  BY <1>1, <1>2, <1>4 DEF Shape, Walks, KeepsCall, KeepsNew, StartSteps, CallSteps,
     HoldSteps, KeyedSteps, NewSteps
<1> QED
  BY <1>3, <1>4

\* What the base invariant needs of a step of goroutine w.
Moves(w) == Only(w) /\ RowStep /\ Shape(w)'

LEMMA WalkMoves ==
  ASSUME Base, RowStep, NEW w \in Jobs, NEW p, NEW q, Walks(w, p, q),
         Fits(w, p, q) \/ (p = "y_replace" /\ q = "y_status")
  PROVE  Moves(w)
<1>1. Grows
  BY RowStepGives
<1>2. Shape(w)'
  BY <1>1, WalkShape
<1> QED
  BY <1>2 DEF Moves, Walks

LEMMA PlainMoves ==
  ASSUME Base, NEW w \in Jobs, Plain(w)
  PROVE  Moves(w)
<1>1. PICK p, q \in Pcs : Walks(w, p, q) /\ <<p, q>> \in PlainEdges
  BY DEF Plain
<1>2. Shape(w) /\ job[w].pc = p
  BY <1>1, JobsTyped DEF Walks
<1>3. Fits(w, p, q) \/ (p = "y_replace" /\ q = "y_status")
  BY <1>1, <1>2 DEF PlainEdges, Shape, Fits, StartSteps, CallSteps, HoldSteps,
     KeyedSteps, NewSteps
<1>4. RowStep
  BY DEF Plain, RowStep
<1> QED
  BY <1>1, <1>3, <1>4, WalkMoves

LEMMA PausesMoves ==
  ASSUME Base, NEW w \in Jobs, Pauses(w)
  PROVE  Moves(w)
<1>1. Fits(w, "stamp", "s_pause") /\ RowStep
  BY DEF Pauses, Fits, RowStep, CallSteps, HoldSteps, KeyedSteps, NewSteps
<1>2. Walks(w, "stamp", "s_pause")
  BY DEF Pauses
<1> QED
  BY <1>1, <1>2, WalkMoves

LEMMA StampsMoves ==
  ASSUME Base, NEW w \in Jobs, Stamps(w)
  PROVE  Moves(w)
<1>1. PICK p, q \in Pcs, st \in Statuses :
        <<p, q, st>> \in StatusEdges /\ Walks(w, p, q) /\ StatusSet(job[w].dying, st)
  BY DEF Stamps
<1>2. Fits(w, p, q)
  BY <1>1, JobsTyped DEF Walks, StatusEdges, Shape, Fits, StartSteps, CallSteps,
     HoldSteps, KeyedSteps, NewSteps
<1>3. DyingExists(w)
  BY <1>1, JobsTyped DEF Walks, StatusEdges, Shape
<1>4. RowStep
  BY <1>1, <1>3 DEF DyingExists, RowStep
<1> QED
  BY <1>1, <1>2, <1>4, WalkMoves

LEMMA RefusedMoves ==
  ASSUME Base, NEW w \in Jobs, Refused(w)
  PROVE  Moves(w)
<1>1. PICK q \in {"mark_new", "cleanup"} :
        Walks(w, "create", q) /\ StatusSet(job[w].new, "failed")
  BY DEF Refused
<1>2. NewExists(w) /\ Fits(w, "create", q)
  BY <1>1, JobsTyped DEF Walks, Shape, Fits, StartSteps, CallSteps, HoldSteps,
     KeyedSteps, NewSteps
<1>3. RowStep
  BY <1>1, <1>2 DEF NewExists, RowStep, Statuses
<1> QED
  BY <1>1, <1>2, <1>3, WalkMoves

LEMMA AttachesMoves ==
  ASSUME Base, NEW w \in Jobs, Attaches(w)
  PROVE  Moves(w)
<1>1. CASE Walks(w, "s_attach", "s_task") /\ RowAttached(job[w].dying)
  <2>1. DyingExists(w) /\ Fits(w, "s_attach", "s_task")
    BY <1>1, JobsTyped DEF Walks, Shape, Fits, StartSteps, CallSteps, HoldSteps,
       KeyedSteps, NewSteps
  <2>2. RowStep
    BY <1>1, <2>1 DEF DyingExists, RowStep
  <2> QED
    BY <1>1, <2>1, <2>2, WalkMoves
<1>2. CASE Walks(w, "attach", "link") /\ RowAttached(job[w].new)
  <2>1. Shape(w) /\ DyingExists(w) /\ NewExists(w)
    BY <1>2, JobsTyped DEF Shape, Walks, NewSteps
  <2>2. RowStep
    BY <1>2, <2>1 DEF NewExists, RowStep
  <2>3. DyingExists(w)' /\ NewExists(w)'
    BY <1>2, <2>1, <2>2, RowStepGives
    DEF DyingExists, NewExists, Grows, Walks, KeepsCall, KeepsRow, KeepsNew
  <2>4. Shape(w)'
    BY <1>2, <2>1, <2>3 DEF Shape, Walks, KeepsCall, KeepsNew, RowAttached, StartSteps,
       CallSteps, HoldSteps, KeyedSteps, NewSteps
  <2> QED
    BY <1>2, <2>2, <2>4 DEF Moves, Walks
<1> QED
  BY <1>1, <1>2 DEF Attaches

LEMMA OverMoves ==
  ASSUME Base, NEW w \in Jobs, Over(w)
  PROVE  Moves(w)
<1>1. PICK p \in Pcs :
        /\ Ends(w, p)
        /\ \/ sess' = sess
           \/ \E st \in Statuses : p = "y_status" /\ StatusSet(job[w].dying, st)
  BY DEF Over
<1>2. job'[w] = IdleJob /\ job'[w].pc = "idle" /\ Only(w) /\ job[w].pc = p
  BY <1>1 DEF Ends, IdleJob, CallJob
<1>3. Shape(w)'
  BY <1>2 DEF Shape, StartSteps, CallSteps, HoldSteps, KeyedSteps, NewSteps
<1>4. RowStep
  BY <1>1, <1>2, JobsTyped DEF Shape, DyingExists, RowStep
<1> QED
  BY <1>2, <1>3, <1>4 DEF Moves

LEMMA AbortsMoves ==
  ASSUME Base, NEW w \in Jobs, Aborts(w)
  PROVE  Moves(w)
<1>1. Shape(w) /\ DyingExists(w) /\ job[w].hand \in HandoffIds
  BY JobsTyped DEF Aborts, Shape, HoldSteps
<1>2. DyingExists(w)' /\ job'[w].hand \in HandoffIds
  BY <1>1 DEF Aborts, DyingExists, KeepsRow
<1> QED
  BY <1>2 DEF Aborts, Moves, RowStep, Shape, StartSteps, CallSteps, HoldSteps,
     KeyedSteps, NewSteps

LEMMA BeginsMoves ==
  ASSUME Base, NEW w \in Jobs, Begins(w)
  PROVE  Moves(w)
<1>1. PICK s \in Sessions, op \in CallOps, p \in {"f_send", "y_get", "r_get", "stamp"} :
        /\ OnSession(w, s, op, p)
        /\ <<op, p>> \in {<<"follow", "f_send">>, <<"sync", "y_get">>,
                          <<"manual", "stamp">>, <<"resume", "r_get">>}
  BY DEF Begins
<1>2. /\ Only(w) /\ sess' = sess /\ job'[w].pc = p /\ job'[w].op = op
      /\ sess[s] # None /\ sess[s] \in Session
      /\ job'[w].task = sess[s].task /\ job'[w].dying = s
  BY <1>1, OnSessionGives
<1>3. DyingExists(w)'
  BY <1>2 DEF DyingExists, Session
<1> QED
  BY <1>1, <1>2, <1>3
  DEF Moves, RowStep, Shape, StartSteps, CallSteps, HoldSteps, KeyedSteps, NewSteps

LEMMA SetsMoves ==
  ASSUME Base, NEW w \in Jobs, Sets(w)
  PROVE  Moves(w)
<1>1. ASSUME NEW t \in Tasks, NEW k \in Keys, StartTask(w, t, k)
      PROVE  Moves(w)
  BY <1>1, StartTaskGives
  DEF Moves, RowStep, Shape, StartSteps, CallSteps, HoldSteps, KeyedSteps, NewSteps
<1>2. CASE StartOpen(w)
  <2>1. PICK s \in Sessions :
          /\ RowInserted(s, job[w].task, job[w].key)
          /\ Only(w) /\ KeepsCall(w)
          /\ job[w].pc = "s_open" /\ job'[w].pc = "s_create" /\ job'[w].dying = s
    BY <1>2, StartOpenGives
  <2>2. job[w].op = "start" /\ job[w].task \in Tasks /\ job[w].key \in Keys
    BY <2>1, JobsTyped DEF Shape, StartSteps
  <2>3. Shape(w)'
    BY <2>1, <2>2 DEF Shape, DyingExists, RowInserted, KeepsCall, StartSteps, CallSteps,
       HoldSteps, KeyedSteps, NewSteps
  <2> QED
    BY <2>1, <2>2, <2>3 DEF Moves, RowStep
<1>3. CASE ResumeRead(w)
  <2>1. Shape(w) /\ job[w].pc = "r_get" /\ job'[w].pc = "stamp"
        /\ Only(w) /\ KeepsCall(w) /\ job'[w].dying = job[w].dying /\ sess' = sess
    BY <1>3, JobsTyped, ResumeReadGives
  <2>2. Shape(w)'
    BY <2>1 DEF Shape, DyingExists, KeepsCall, StartSteps, CallSteps,
       HoldSteps, KeyedSteps, NewSteps
  <2> QED
    BY <2>1, <2>2 DEF Moves, RowStep
<1>4. CASE OpenReplacement(w)
  <2>1. PICK s \in Sessions :
          /\ RowInserted(s, job[w].task, job[w].key)
          /\ Only(w) /\ KeepsCall(w) /\ KeepsRow(w)
          /\ job[w].pc = "open" /\ job'[w].pc = "create"
          /\ job'[w].key = job[w].key /\ job'[w].new = s
    BY <1>4, OpenReplacementGives
  <2>2. Shape(w) /\ DyingExists(w) /\ job[w].key \in Keys
    BY <2>1, JobsTyped DEF Shape, KeyedSteps
  <2>3. RowStep
    BY <2>1, <2>2 DEF RowStep, DyingExists
  <2>4. job[w].dying < s
    <3>1. job[w].dying \in Int /\ s \in Int /\ job[w].dying # s
      BY <2>1, <2>2, BoundAssumption DEF DyingExists, RowInserted, Sessions
    <3>2. ~(s < job[w].dying)
      BY <2>1, <2>2 DEF Base, Dense, DyingExists, RowInserted
    <3> QED
      BY <3>1, <3>2
  <2>5. DyingExists(w)'
    BY <2>1, <2>2, <2>3, RowStepGives DEF DyingExists, Grows, KeepsCall, KeepsRow
  <2>6. NewExists(w)'
    BY <2>1, <2>4 DEF NewExists, RowInserted, KeepsCall, KeepsRow
  <2>7. Shape(w)'
    BY <2>1, <2>2, <2>5, <2>6 DEF Shape, KeepsCall, StartSteps, CallSteps,
       HoldSteps, KeyedSteps, NewSteps
  <2> QED
    BY <2>1, <2>3, <2>7 DEF Moves
<1>5. ASSUME NEW r \in RemoteStatuses, SyncAnswered(w, r)
      PROVE  Moves(w)
  <2>1. Shape(w) /\ job[w].pc = "y_get" /\ job'[w].pc = "y_replace"
        /\ Only(w) /\ KeepsCall(w) /\ KeepsRow(w) /\ job'[w].remote = r /\ sess' = sess
    BY <1>5, JobsTyped, SyncAnsweredGives
  <2>2. Shape(w)'
    BY <2>1 DEF Shape, DyingExists, KeepsCall, KeepsRow, StartSteps, CallSteps,
       HoldSteps, KeyedSteps, NewSteps
  <2> QED
    BY <2>1, <2>2 DEF Moves, RowStep
<1>6. ASSUME NEW k \in Keys, PickKey(w, k)
      PROVE  Moves(w)
  <2>1. Shape(w) /\ job[w].pc = "pick" /\ job'[w].pc = "open"
        /\ Only(w) /\ KeepsCall(w) /\ KeepsRow(w) /\ job'[w].key = k /\ sess' = sess
    BY <1>6, JobsTyped, PickKeyGives
  <2>2. Shape(w)'
    BY <2>1 DEF Shape, DyingExists, KeepsCall, KeepsRow, StartSteps, CallSteps,
       HoldSteps, KeyedSteps, NewSteps
  <2> QED
    BY <2>1, <2>2 DEF Moves, RowStep
<1> QED
  BY <1>1, <1>2, <1>3, <1>4, <1>5, <1>6 DEF Sets

LEMMA HandsMoves ==
  ASSUME Base, NEW w \in Jobs, Hands(w)
  PROVE  Moves(w)
<1>1. sess' = sess /\ Grows
  BY CreateHandoffGives, LinkGives, CleanupGives, RowStepGives DEF Hands, RowStep
<1>2. CASE CreateHandoff(w)
  <2>1. PICK h \in HandoffIds :
          /\ Only(w) /\ KeepsRow(w)
          /\ job[w].pc = "handoff" /\ job'[w].pc = "pick"
          /\ job'[w].op = job[w].op /\ job'[w].task = job[w].task /\ job'[w].hand = h
    BY <1>2, CreateHandoffGives
  <2>2. Shape(w)'
    BY <1>1, <2>1, JobsTyped DEF Shape, DyingExists, KeepsRow, StartSteps, CallSteps,
       HoldSteps, KeyedSteps, NewSteps
  <2> QED
    BY <1>1, <2>1, <2>2 DEF Moves, RowStep
<1>3. CASE Link(w)
  <2>1. Walks(w, "link", "done") /\ Fits(w, "link", "done")
    BY <1>3, LinkGives
    DEF Fits, StartSteps, CallSteps, HoldSteps, KeyedSteps, NewSteps
  <2> QED
    BY <1>1, <2>1, WalkMoves DEF RowStep
<1>4. CASE Cleanup(w)
  <2>1. CASE job[w].op = "start" /\ Walks(w, "cleanup", "s_pause")
    <3>1. Fits(w, "cleanup", "s_pause")
      BY <2>1 DEF Fits, StartSteps, CallSteps, HoldSteps, KeyedSteps, NewSteps
    <3> QED
      BY <1>1, <2>1, <3>1, WalkMoves DEF RowStep
  <2>2. CASE Ends(w, "cleanup")
    <3>1. job'[w] = IdleJob /\ job'[w].pc = "idle"
      BY <2>2 DEF Ends, IdleJob, CallJob
    <3>2. Shape(w)'
      BY <3>1 DEF Shape, StartSteps, CallSteps, HoldSteps, KeyedSteps, NewSteps
    <3> QED
      BY <1>1, <2>2, <3>2 DEF Moves, Ends, RowStep
  <2> QED
    BY <1>4, <2>1, <2>2, CleanupGives
<1> QED
  BY <1>2, <1>3, <1>4 DEF Hands

LEMMA MovingMoves ==
  ASSUME Base, NEW w \in Jobs, Moving(w)
  PROVE  Moves(w)
  BY MovingKinds, PlainMoves, PausesMoves, StampsMoves, RefusedMoves, AttachesMoves,
     OverMoves, AbortsMoves, BeginsMoves, SetsMoves, HandsMoves DEF Small

\* A step that leaves the handoffs table alone, and what its rotations hold of it.
Keeping(w) ==
  /\ Only(w) /\ handoffs' = handoffs
  /\ job'[w].pc \in HoldSteps <=> job[w].pc \in HoldSteps
  /\ job[w].pc \in HoldSteps =>
       job'[w].hand = job[w].hand /\ job'[w].dying = job[w].dying
  /\ job'[w].pc # "done"
  /\ job'[w].pc \in NewSteps =>
       \/ job[w].pc \in NewSteps /\ job'[w].new = job[w].new
       \/ sess[job'[w].new] = None

LEMMA SmallKeeps ==
  ASSUME Base, NEW w \in Jobs, Small(w)
  PROVE  Keeping(w)
<1>1. CASE Plain(w)
  BY <1>1 DEF Plain, PlainEdges, Keeping, Walks, KeepsCall, KeepsRow, KeepsNew, HoldSteps,
     NewSteps
<1>2. CASE Stamps(w)
  BY <1>2 DEF Stamps, StatusEdges, Keeping, Walks, KeepsCall, KeepsRow, HoldSteps,
     NewSteps
<1>3. CASE Refused(w)
  BY <1>3 DEF Refused, Keeping, Walks, KeepsCall, KeepsRow, HoldSteps, NewSteps
<1>4. CASE Attaches(w)
  BY <1>4 DEF Attaches, Keeping, Walks, KeepsCall, KeepsRow, KeepsNew, HoldSteps, NewSteps
<1>5. CASE Over(w)
  <2>1. IdleJob.pc = "idle"
    BY DEF IdleJob, CallJob
  <2> QED
    BY <1>5, <2>1 DEF Over, Keeping, Ends, HoldSteps, NewSteps
<1>6. CASE Pauses(w) \/ Aborts(w)
  BY <1>6 DEF Pauses, Aborts, Keeping, Walks, KeepsCall, KeepsRow, HoldSteps, NewSteps
<1>7. CASE Begins(w)
  BY <1>7, OnSessionGives DEF Begins, Keeping, HoldSteps, NewSteps
<1> QED
  BY <1>1, <1>2, <1>3, <1>4, <1>5, <1>6, <1>7 DEF Small

LEMMA SetsKeeps ==
  ASSUME Base, NEW w \in Jobs, Sets(w)
  PROVE  Keeping(w)
<1>1. CASE \E t \in Tasks, k \in Keys : StartTask(w, t, k)
  BY <1>1, StartTaskGives DEF Keeping, HoldSteps, NewSteps
<1>2. CASE StartOpen(w)
  BY <1>2, StartOpenGives DEF Keeping, HoldSteps, NewSteps
<1>3. CASE ResumeRead(w)
  BY <1>3, ResumeReadGives DEF Keeping, HoldSteps, NewSteps
<1>4. CASE OpenReplacement(w)
  BY <1>4, OpenReplacementGives DEF Keeping, KeepsCall, KeepsRow, RowInserted, HoldSteps,
     NewSteps
<1>5. CASE \E r \in RemoteStatuses : SyncAnswered(w, r)
  BY <1>5, SyncAnsweredGives DEF Keeping, HoldSteps, NewSteps
<1>6. CASE \E k \in Keys : PickKey(w, k)
  BY <1>6, PickKeyGives DEF Keeping, KeepsCall, KeepsRow, HoldSteps, NewSteps
<1> QED
  BY <1>1, <1>2, <1>3, <1>4, <1>5, <1>6 DEF Sets

LEMMA KeepingHeld ==
  ASSUME Base, NEW w \in Jobs, Keeping(w)
  PROVE  Held'
  BY DEF Base, Held, Keeping, Only

LEMMA CreateHeld ==
  ASSUME Base, NEW w \in Jobs, CreateHandoff(w)
  PROVE  Held'
<1>1. PICK h \in HandoffIds :
        /\ handoffs[h] = None /\ OtherHandoffs(h)
        /\ handoffs'[h] = NewHandoff(w) /\ handoffs'[h] \in Handoff
        /\ Only(w) /\ KeepsRow(w)
        /\ job[w].pc = "handoff" /\ job'[w].pc = "pick" /\ job'[w].hand = h
  BY CreateHandoffGives
<1>2. handoffs'[h] # None /\ handoffs'[h].from = job'[w].dying /\ handoffs'[h].to = None
  BY <1>1, NotNull DEF NewHandoff, KeepsRow
<1>3. \A v \in Jobs : job[v].pc \in HoldSteps => job[v].hand \in HandoffIds \ {h}
  BY <1>1, JobsTyped DEF Base, Held, Shape
<1>4. \A v \in Jobs \ {w} :
        /\ job'[v] = job[v]
        /\ job[v].pc \in HoldSteps => handoffs'[job[v].hand] = handoffs[job[v].hand]
  BY <1>1, <1>3 DEF Only, OtherHandoffs
<1> QED
  BY <1>1, <1>2, <1>3, <1>4 DEF Base, Held

\* w lets go of its row; nobody else has it.
LEMMA ReleaseHeld ==
  ASSUME Base, NEW w \in Jobs, Only(w), job[w].pc \in HoldSteps,
         job'[w].pc \notin HoldSteps, OtherHandoffs(job[w].hand)
  PROVE  Held'
<1>1. \A v \in Jobs \ {w} :
        job[v].pc \in HoldSteps => job[v].hand \in HandoffIds \ {job[w].hand}
  BY JobsTyped DEF Base, Held, Shape
<1>2. \A v \in Jobs \ {w} :
        /\ job'[v] = job[v]
        /\ job[v].pc \in HoldSteps => handoffs'[job[v].hand] = handoffs[job[v].hand]
  BY <1>1 DEF Only, OtherHandoffs
<1> QED
  BY <1>2 DEF Base, Held

LEMMA CleanupReleases ==
  ASSUME Base, NEW w \in Jobs, Cleanup(w)
  PROVE  Only(w) /\ job[w].pc = "cleanup" /\ job'[w].pc \in {"idle", "s_pause"}
<1>1. IdleJob.pc = "idle"
  BY DEF IdleJob, CallJob
<1> QED
  BY <1>1, CleanupGives DEF Walks, Ends

LEMMA HandsHeld ==
  ASSUME Base, NEW w \in Jobs, Hands(w)
  PROVE  Held' /\ handoffs' \in [HandoffIds -> Handoff \cup {None}]
<1>1. CASE CreateHandoff(w)
  BY <1>1, CreateHeld, CreateHandoffGives DEF OtherHandoffs
<1>2. CASE Link(w)
  <2>1. Only(w) /\ job[w].pc = "link" /\ job'[w].pc = "done" /\ OtherHandoffs(job[w].hand)
    BY <1>2, LinkGives DEF Walks
  <2>2. Held'
    BY <2>1, ReleaseHeld DEF HoldSteps
  <2> QED
    BY <2>1, <2>2 DEF OtherHandoffs
<1>3. CASE Cleanup(w)
  <2>1. Only(w) /\ job[w].pc = "cleanup" /\ job'[w].pc \in {"idle", "s_pause"}
        /\ OtherHandoffs(job[w].hand)
    BY <1>3, CleanupGives, CleanupReleases
  <2>2. Held'
    BY <2>1, ReleaseHeld DEF HoldSteps
  <2> QED
    BY <2>1, <2>2 DEF OtherHandoffs
<1> QED
  BY <1>1, <1>2, <1>3 DEF Hands

\* What the steps do to the other three variables.
LEMMA RestMoves ==
  ASSUME [Next]_vars
  PROVE  /\ \/ tasks' = tasks
            \/ \E t : \E st \in TaskStatuses : SetTask(t, st)
         /\ \/ unsent' = unsent
            \/ \E w \in Jobs : At(w, "f_send") /\ unsent' = unsent \cup {job[w].dying}
            \/ \E w \in Jobs : unsent' = unsent \ {job[w].dying}
         /\ \/ usable' = usable
            \/ \E k \in Keys : MayLift /\ usable' = usable \cup {k}
            \/ \E k : usable' = usable \ {k}
<1> DEFINE TasksMove == \E t : \E st \in TaskStatuses : SetTask(t, st)
           UnsentMove == \/ \E w \in Jobs : At(w, "f_send")
                                            /\ unsent' = unsent \cup {job[w].dying}
                         \/ \E w \in Jobs : unsent' = unsent \ {job[w].dying}
           UsableMove == \/ \E k \in Keys : MayLift /\ usable' = usable \cup {k}
                         \/ \E k : usable' = usable \ {k}
           Rest == /\ tasks' = tasks \/ TasksMove
                   /\ unsent' = unsent \/ UnsentMove
                   /\ usable' = usable \/ UsableMove
<1>1. CASE UNCHANGED vars
  BY <1>1 DEF vars
<1>2. ASSUME NEW w \in Jobs, Call(w)
      PROVE  Rest
  BY <1>2 DEF Call, StartTask, NewTask, SendFollowUp, SyncSession, ForceRotate,
     ResumeSession, OnSession, TaskStatuses
<1>3. ASSUME NEW w \in Jobs, StartStep(w)
      PROVE  Rest
  BY <1>3 DEF StartStep, StartOpen, StartCreated, StartRefused, StartExhausted, StartFail,
     StartRotate, StartAttach, StartRunning, StartPause, TaskStatuses
<1>4. ASSUME NEW w \in Jobs, CallStep(w)
      PROVE  Rest
  BY <1>4 DEF CallStep, FollowUpOver, FollowUpExhausted, SyncFailed, SyncExhausted,
     SyncAnswered, SyncReplace, SyncStatus, ResumeRead
<1>5. ASSUME NEW w \in Jobs, RotateStep(w)
      PROVE  Rest
  BY <1>5 DEF RotateStep, AlreadyRotated, Stamp, MarkDying, CreateHandoff, PickKey,
     NoActiveKey, OpenReplacement, Created, CreateFailed, MarkNew, Cleanup, Attach, Link,
     HandoffDone, Settle, TaskStatuses
<1>6. ASSUME NEW w \in Jobs, Abort(w)
      PROVE  Rest
  BY <1>6 DEF Abort
<1>7. CASE Restart \/ \E k \in Keys : KeyLifted(k) \/ KeyLost(k)
  BY <1>7 DEF Restart, KeyLifted, KeyLost
<1> QED
  BY <1>1, <1>2, <1>3, <1>4, <1>5, <1>6, <1>7 DEF Next, Step

LEMMA RestTyped ==
  ASSUME Base, [Next]_vars
  PROVE  /\ tasks' \in [Tasks -> TaskStatuses \cup {None}]
         /\ unsent' \subseteq Sessions
         /\ usable' \subseteq Keys
<1>1. \A w \in Jobs : At(w, "f_send") => job[w].dying \in Sessions
  BY JobsTyped DEF At, Shape, DyingExists
<1> QED
  BY <1>1, RestMoves DEF Base, TypeOK, SetTask

\* The base invariant is inductive.
LEMMA BaseKept ==
  ASSUME Base, [Next]_vars
  PROVE  Base'
<1>1. ASSUME job' \in [Jobs -> Job], sess' \in [Sessions -> Session \cup {None}],
             handoffs' \in [HandoffIds -> Handoff \cup {None}], Dense', Held',
             \A w \in Jobs : Shape(w)'
      PROVE  Base'
  BY <1>1, RestTyped DEF Base, TypeOK
<1>2. ASSUME NEW w \in Jobs, Moving(w)
      PROVE  Base'
  <2>1. Moves(w)
    BY <1>2, MovingMoves
  <2>2. sess' \in [Sessions -> Session \cup {None}] /\ Dense' /\ Grows
    BY <2>1, RowStepGives DEF Moves
  <2>3. \A v \in Jobs : Shape(v)'
    BY <2>1, <2>2, ShapeStays DEF Moves, Only
  <2>4. Held' /\ handoffs' \in [HandoffIds -> Handoff \cup {None}]
    <3>1. CASE Keeping(w)
      BY <3>1, KeepingHeld, JobsTyped DEF Keeping
    <3> QED
      BY <1>2, <3>1, MovingKinds, SmallKeeps, SetsKeeps, HandsHeld
  <2> QED
    BY <1>1, <2>1, <2>2, <2>3, <2>4 DEF Moves, Only
<1>3. CASE Restart
  <2>1. job' = [w \in Jobs |-> IdleJob] /\ UNCHANGED <<sess, handoffs>>
    BY <1>3 DEF Restart
  <2>2. IdleJob \in Job /\ IdleJob.pc = "idle"
    BY DEF IdleJob, CallJob, Job
  <2>3. \A w \in Jobs : Shape(w)'
    BY <2>1, <2>2 DEF Shape, StartSteps, CallSteps, HoldSteps, KeyedSteps, NewSteps
  <2>4. Dense' /\ Held'
    BY <2>1, <2>2 DEF Base, Dense, Held, HoldSteps
  <2> QED
    BY <1>1, <2>1, <2>2, <2>3, <2>4, JobsTyped
<1>4. CASE UNCHANGED <<sess, handoffs, job>>
  <2>1. Grows
    BY <1>4 DEF Grows
  <2>2. Dense' /\ Held' /\ \A w \in Jobs : Shape(w)'
    BY <1>4, <2>1, ShapeStays DEF Base, Dense, Held
  <2> QED
    BY <1>1, <1>4, <2>2, JobsTyped
<1> QED
  BY <1>2, <1>3, <1>4 DEF Next, Moving, KeyLifted, KeyLost, vars

LEMMA BaseInit ==
  ASSUME Init
  PROVE  Base
<1>1. IdleJob \in Job /\ IdleJob.pc = "idle"
  BY DEF IdleJob, CallJob, Job
<1>2. job \in [Jobs -> Job] /\ \A w \in Jobs : job[w].pc = "idle" /\ job[w] = IdleJob
  BY <1>1 DEF Init
<1>3. TypeOK
  BY <1>2 DEF Init, TypeOK
<1>4. Dense /\ Held
  BY <1>2 DEF Init, Dense, Held, HoldSteps
<1>5. \A w \in Jobs : Shape(w)
  BY <1>2 DEF Shape, StartSteps, CallSteps, HoldSteps, KeyedSteps, NewSteps
<1> QED
  BY <1>3, <1>4, <1>5 DEF Base

-----------------------------------------------------------------------------
(* The chain of handoffs.                                                  *)

\* The replacement sessions under way are apart from each other, and no linked handoff
\* leads to one of them.
NewApart ==
  /\ \A w \in Jobs, h \in HandoffIds :
       job[w].pc \in NewSteps /\ Linked(h) => handoffs[h].to # job[w].new
  /\ \A v, w \in Jobs :
       job[v].pc \in NewSteps /\ job[w].pc \in NewSteps /\ job[v].new = job[w].new
         => v = w

\* A rotation that is about to write handoff_done has linked its handoff.
DoneLinked ==
  \A w \in Jobs :
    job[w].pc = "done" =>
      \E h \in HandoffIds : Linked(h) /\ handoffs[h].from = job[w].dying

ChainInv == Base /\ LinkedChain /\ NewApart /\ DoneLinked

\* The linked handoffs are the same before and after.
SameLinks ==
  \A h \in HandoffIds : /\ Linked(h)' <=> Linked(h)
                        /\ Linked(h) => handoffs'[h] = handoffs[h]

\* No goroutine gets to "done", and a replacement session is the old one or a fresh one.
SameNews ==
  \A v \in Jobs :
    /\ job'[v].pc = "done" => job'[v] = job[v]
    /\ job'[v].pc \in NewSteps =>
         \/ job[v].pc \in NewSteps /\ job'[v].new = job[v].new
         \/ /\ sess[job'[v].new] = None
            /\ \A u \in Jobs \ {v} : job'[u] = job[u]

LEMMA LinksStay ==
  ASSUME Base, [Next]_vars, ~\E w \in Jobs : Link(w)
  PROVE  SameLinks /\ SameNews
<1>1. ASSUME NEW w \in Jobs, Keeping(w)
      PROVE  SameLinks /\ SameNews
  BY <1>1 DEF SameLinks, SameNews, Linked, Keeping, Only
<1>2. ASSUME NEW w \in Jobs, CreateHandoff(w)
      PROVE  SameLinks /\ SameNews
  <2>1. PICK h \in HandoffIds :
          /\ handoffs[h] = None /\ OtherHandoffs(h) /\ handoffs'[h] = NewHandoff(w)
          /\ Only(w) /\ job'[w].pc = "pick"
    BY <1>2, CreateHandoffGives
  <2>2. handoffs'[h].to = None
    BY <2>1 DEF NewHandoff
  <2> QED
    BY <2>1, <2>2 DEF SameLinks, SameNews, Linked, OtherHandoffs, Only, NewSteps
<1>3. ASSUME NEW w \in Jobs, Cleanup(w)
      PROVE  SameLinks /\ SameNews
  <2>1. /\ Only(w) /\ job[w].pc = "cleanup" /\ job'[w].pc \in {"idle", "s_pause"}
        /\ OtherHandoffs(job[w].hand) /\ handoffs'[job[w].hand] = None
    BY <1>3, CleanupGives, CleanupReleases
  <2>2. ~Linked(job[w].hand)
    BY <2>1 DEF Base, Held, HoldSteps, Linked
  <2> QED
    BY <2>1, <2>2 DEF SameLinks, SameNews, Linked, OtherHandoffs, Only, NewSteps
<1>4. CASE Restart
  <2>1. IdleJob.pc = "idle"
    BY DEF IdleJob, CallJob
  <2> QED
    BY <1>4, <2>1 DEF Restart, SameLinks, SameNews, Linked, NewSteps
<1>5. CASE UNCHANGED <<sess, handoffs, job>>
  BY <1>5 DEF SameLinks, SameNews, Linked
<1>6. ASSUME NEW w \in Jobs, Moving(w)
      PROVE  SameLinks /\ SameNews
  BY <1>1, <1>2, <1>3, <1>6, MovingKinds, SmallKeeps, SetsKeeps DEF Hands
<1> QED
  BY <1>4, <1>5, <1>6 DEF Next, Moving, KeyLifted, KeyLost, vars

\* Only HandoffDone writes handoff_done.
LEMMA DoneOnly ==
  ASSUME Base, [Next]_vars, NEW s \in Sessions, sess'[s] # None,
         sess'[s].status = "handoff_done"
  PROVE  \/ sess[s] # None /\ sess[s].status = "handoff_done"
         \/ \E w \in Jobs : job[w].pc = "done" /\ job[w].dying = s
<1> DEFINE Old == \/ sess[s] # None /\ sess[s].status = "handoff_done"
                  \/ \E w \in Jobs : job[w].pc = "done" /\ job[w].dying = s
<1>1. ASSUME NEW w \in Jobs, Small(w)
      PROVE  Old
  <2>1. CASE Plain(w) \/ Pauses(w) \/ Aborts(w)
    BY <2>1 DEF Plain, Pauses, Aborts
  <2>2. CASE Stamps(w)
    BY <2>2 DEF Stamps, StatusEdges, StatusSet, OtherRows, Walks
  <2>3. CASE Refused(w)
    BY <2>3 DEF Refused, StatusSet, OtherRows
  <2>4. CASE Attaches(w)
    BY <2>4 DEF Attaches, RowAttached, OtherRows
  <2>5. CASE Over(w)
    BY <2>5 DEF Over, StatusSet, OtherRows
  <2>6. CASE Begins(w)
    BY <2>6 DEF Begins, OnSession
  <2> QED
    BY <1>1, <2>1, <2>2, <2>3, <2>4, <2>5, <2>6 DEF Small
<1>2. ASSUME NEW w \in Jobs, StartOpen(w) \/ OpenReplacement(w)
      PROVE  Old
  BY <1>2, StartOpenGives, OpenReplacementGives DEF RowInserted, OtherRows
<1>3. ASSUME NEW w \in Jobs, Sets(w)
      PROVE  Old
  <2>1. StartOpen(w) \/ OpenReplacement(w) \/ sess' = sess
    BY <1>3 DEF Sets, StartTask, ResumeRead, SyncAnswered, PickKey
  <2> QED
    BY <1>2, <2>1
<1>4. ASSUME NEW w \in Jobs, Hands(w)
      PROVE  Old
  BY <1>4, CreateHandoffGives, LinkGives, CleanupGives DEF Hands
<1>5. CASE sess' = sess
  BY <1>5
<1> QED
  BY <1>1, <1>3, <1>4, <1>5, MovingKinds
  DEF Next, Moving, Restart, KeyLifted, KeyLost, vars

LEMMA GrowsAlways ==
  ASSUME Base, [Next]_vars
  PROVE  Grows
<1>1. ASSUME NEW w \in Jobs, Moving(w)
      PROVE  Grows
  BY <1>1, MovingMoves, RowStepGives DEF Moves
<1>2. CASE sess' = sess
  BY <1>2 DEF Grows
<1> QED
  BY <1>1, <1>2 DEF Next, Moving, Restart, KeyLifted, KeyLost, vars

\* What Link adds to the chain: the row it held.
LEMMA LinkAdds ==
  ASSUME Base, NEW w \in Jobs, Link(w)
  PROVE  /\ sess' = sess /\ Only(w)
         /\ job[w].pc = "link" /\ job'[w].pc = "done" /\ job'[w].dying = job[w].dying
         /\ DyingExists(w) /\ NewExists(w) /\ sess[job[w].new].devin
         /\ \E h \in HandoffIds :
              /\ h = job[w].hand /\ ~Linked(h) /\ Linked(h)'
              /\ handoffs'[h].from = job[w].dying /\ handoffs'[h].to = job[w].new
              /\ \A g \in HandoffIds \ {h} : handoffs'[g] = handoffs[g]
<1> DEFINE h == job[w].hand
<1>1. Shape(w) /\ job[w].pc = "link"
  BY JobsTyped, LinkGives DEF Walks
<1>2. DyingExists(w) /\ NewExists(w) /\ sess[job[w].new].devin /\ h \in HandoffIds
  BY <1>1 DEF Shape, HoldSteps, NewSteps
<1>3. handoffs[h].to = None
  BY <1>1 DEF Base, Held, HoldSteps
<1>4. job[w].new # None
  BY <1>2, NotNull DEF NewExists
<1>5. /\ Walks(w, "link", "done") /\ sess' = sess /\ OtherHandoffs(h)
      /\ handoffs'[h] # None
      /\ handoffs'[h].from = job[w].dying /\ handoffs'[h].to = job[w].new
  BY LinkGives
<1>6. Only(w) /\ job'[w].pc = "done" /\ job'[w].dying = job[w].dying
  BY <1>5 DEF Walks, KeepsRow
<1>7. \A g \in HandoffIds \ {h} : handoffs'[g] = handoffs[g]
  BY <1>5 DEF OtherHandoffs
<1> QED
  BY <1>1, <1>2, <1>3, <1>4, <1>5, <1>6, <1>7 DEF Linked

LEMMA ChainKept ==
  ASSUME ChainInv, [Next]_vars
  PROVE  ChainInv'
<1>1. Base /\ Base' /\ Grows
  BY BaseKept, GrowsAlways DEF ChainInv
<1>2. handoffs \in [HandoffIds -> Handoff \cup {None}]
  BY <1>1, JobsTyped
<1>3. ASSUME NEW w \in Jobs, Link(w)
      PROVE  LinkedChain' /\ NewApart' /\ DoneLinked'
  <2>1. /\ sess' = sess /\ Only(w)
        /\ job[w].pc = "link" /\ job'[w].pc = "done" /\ job'[w].dying = job[w].dying
        /\ DyingExists(w) /\ NewExists(w) /\ sess[job[w].new].devin
    BY <1>1, <1>3, LinkAdds
  <2>2. PICK h \in HandoffIds :
          /\ ~Linked(h) /\ Linked(h)'
          /\ handoffs'[h].from = job[w].dying /\ handoffs'[h].to = job[w].new
          /\ \A g \in HandoffIds \ {h} : handoffs'[g] = handoffs[g]
    BY <1>1, <1>3, LinkAdds
  <2>3. \A g \in HandoffIds \ {h} : Linked(g)' <=> Linked(g)
    BY <2>2 DEF Linked
  <2>4. ChainForward'
    BY <2>1, <2>2, <2>3 DEF ChainInv, LinkedChain, ChainForward, DyingExists, NewExists
  <2>5. OneParent'
    BY <2>1, <2>2, <2>3 DEF ChainInv, LinkedChain, OneParent, NewApart, NewSteps
  <2>6. HandedOffHasSuccessor'
    BY <2>1, <2>2, <2>3 DEF ChainInv, LinkedChain, HandedOffHasSuccessor
  <2>7. NewApart'
    BY <2>1, <2>2, <2>3 DEF ChainInv, NewApart, Only, NewSteps
  <2>8. DoneLinked'
    <3>1. \A v \in Jobs \ {w} : job'[v] = job[v]
      BY <2>1 DEF Only
    <3>2. \A g \in HandoffIds : Linked(g) => Linked(g)' /\ handoffs'[g] = handoffs[g]
      BY <2>1, <2>2, <2>3
    <3>3. ASSUME NEW v \in Jobs, job'[v].pc = "done"
          PROVE  \E g \in HandoffIds : Linked(g)' /\ handoffs'[g].from = job'[v].dying
      <4>1. CASE v = w
        BY <2>1, <2>2, <4>1
      <4>2. CASE v # w
        <5>1. PICK g \in HandoffIds : Linked(g) /\ handoffs[g].from = job[v].dying
          BY <3>1, <3>3, <4>2 DEF ChainInv, DoneLinked
        <5> QED
          BY <3>1, <3>2, <4>2, <5>1
      <4> QED
        BY <4>1, <4>2
    <3> QED
      BY <3>3 DEF DoneLinked
  <2> QED
    BY <2>4, <2>5, <2>6, <2>7, <2>8 DEF LinkedChain
<1>4. CASE ~\E w \in Jobs : Link(w)
  <2>1. SameLinks /\ SameNews
    BY <1>1, <1>4, LinksStay
  <2>2. ChainForward'
    <3>1. \A h \in HandoffIds : Linked(h) => handoffs[h] \in Handoff
      BY <1>2 DEF Linked
    <3>2. \A h \in HandoffIds :
            Linked(h) => handoffs[h].from \in Sessions /\ handoffs[h].to \in Sessions
      BY <3>1 DEF Linked, Handoff
    <3> QED
      BY <1>1, <2>1, <3>2 DEF ChainInv, LinkedChain, ChainForward, SameLinks, Grows
  <2>3. OneParent'
    BY <2>1 DEF ChainInv, LinkedChain, OneParent, SameLinks
  <2>4. HandedOffHasSuccessor'
    <3> SUFFICES ASSUME NEW s \in Sessions, sess'[s] # None,
                        sess'[s].status = "handoff_done"
                 PROVE  \E h \in HandoffIds : Linked(h)' /\ handoffs'[h].from = s
      BY DEF HandedOffHasSuccessor
    <3>1. \E h \in HandoffIds : Linked(h) /\ handoffs[h].from = s
      BY <1>1, DoneOnly DEF ChainInv, LinkedChain, HandedOffHasSuccessor, DoneLinked
    <3> QED
      BY <2>1, <3>1 DEF SameLinks
  <2>5. NewApart'
    <3>1. \A w \in Jobs : job[w].pc \in NewSteps => sess[job[w].new] # None
      BY <1>1, JobsTyped DEF Shape, NewExists
    <3>2. \A h \in HandoffIds : Linked(h) => sess[handoffs[h].to] # None
      BY DEF ChainInv, LinkedChain, ChainForward
    <3> QED
      BY <2>1, <3>1, <3>2 DEF ChainInv, NewApart, SameLinks, SameNews
  <2>6. DoneLinked'
    BY <2>1 DEF ChainInv, DoneLinked, SameLinks, SameNews
  <2> QED
    BY <1>1, <2>2, <2>3, <2>4, <2>5, <2>6 DEF ChainInv, LinkedChain
<1> QED
  BY <1>1, <1>3, <1>4 DEF ChainInv

LEMMA ChainInit ==
  ASSUME Init
  PROVE  ChainInv
<1>1. \A w \in Jobs : job[w].pc = "idle"
  BY DEF Init, IdleJob, CallJob
<1>2. \A h \in HandoffIds : ~Linked(h)
  BY DEF Init, Linked
<1>3. \A s \in Sessions : sess[s] = None
  BY DEF Init
<1>4. LinkedChain
  BY <1>2, <1>3 DEF LinkedChain, ChainForward, OneParent, HandedOffHasSuccessor
<1> QED
  BY <1>1, <1>4, BaseInit DEF ChainInv, NewApart, DoneLinked, NewSteps

\* The tables and the locals of every call keep their types: every status word is one
\* the schema knows, and every reference is an id or NULL.
THEOREM TypeCorrect == Spec => []TypeOK
<1>1. Base => TypeOK
  BY DEF Base
<1> QED
  BY <1>1, BaseInit, BaseKept, PTL DEF Spec

\* The linked handoffs of a task are a chain (LinkedChain), for any number of sessions and
\* overlapping calls, through crash, cancellation, refusal and quota.
THEOREM ChainSound == Spec => []LinkedChain
<1>1. ChainInv => LinkedChain
  BY DEF ChainInv
<1> QED
  BY <1>1, ChainInit, ChainKept, PTL DEF Spec

-----------------------------------------------------------------------------
(* The refinement of Chains.                                               *)

TaskOf(s) == IF sess[s] = None THEN None ELSE sess[s].task
Links == {<<handoffs[h].from, handoffs[h].to>> : h \in {g \in HandoffIds : Linked(g)}}

\* What the other rows say of the chain.
SameRow(s) == /\ TaskOf(s)' = TaskOf(s)
              /\ Opened(s)' <=> Opened(s)
              /\ HandedOff(s)' <=> HandedOff(s)

LEMMA OthersSame ==
  ASSUME NEW s \in Sessions, OtherRows(s)
  PROVE  \A r \in Sessions \ {s} : SameRow(r)
  BY DEF OtherRows, SameRow, TaskOf, Opened, HandedOff

LEMMA LinksSame ==
  ASSUME SameLinks
  PROVE  Links' = Links
<1>1. \A h \in HandoffIds : Linked(h)' <=> Linked(h)
  BY DEF SameLinks
<1>2. \A h \in HandoffIds : Linked(h) => handoffs'[h] = handoffs[h]
  BY DEF SameLinks
<1> QED
  BY <1>1, <1>2 DEF Links

ChainStep == TaskChains!Next \/ UNCHANGED TaskChains!chainVars

\* The four variables of Chains in terms of the rows.
LEMMA InsertImplements ==
  ASSUME NEW s \in Sessions, NEW t \in Tasks, NEW k \in Keys, RowInserted(s, t, k),
         Links' = Links
  PROVE  ChainStep
<1>1. \A r \in Sessions \ {s} : SameRow(r)
  BY OthersSame DEF RowInserted
<1>2. TaskOf(s) = None /\ TaskOf(s)' = t
  BY DEF TaskOf, RowInserted
<1>3. (Opened(s)' <=> Opened(s)) /\ (HandedOff(s)' <=> HandedOff(s))
  BY DEF Opened, HandedOff, RowInserted
<1>4. TaskChains!Insert(s, t)
  BY <1>1, <1>2, <1>3 DEF TaskChains!Insert, SameRow, TaskOf, Links
<1> QED
  BY <1>4 DEF ChainStep, TaskChains!Next

LEMMA AttachImplements ==
  ASSUME Base, NEW s \in Sessions, sess[s] # None, RowAttached(s), Links' = Links
  PROVE  ChainStep
<1>1. \A r \in Sessions \ {s} : SameRow(r)
  BY OthersSame DEF RowAttached
<1>2. TaskOf(s)' = TaskOf(s) /\ TaskOf(s) = sess[s].task
  BY DEF TaskOf, RowAttached
<1>3. Opened(s)' /\ ~HandedOff(s)'
  BY DEF Opened, HandedOff, RowAttached
<1>4. {r \in Sessions : Opened(r)}' = {r \in Sessions : Opened(r)} \cup {s}
  BY <1>1, <1>3 DEF SameRow
<1>5. {r \in Sessions : HandedOff(r)}' = {r \in Sessions : HandedOff(r)} \ {s}
  BY <1>1, <1>3 DEF SameRow
<1>6. TaskOf(s) # None
  BY <1>2, JobsTyped, NotNull DEF Session
<1>7. TaskChains!Open(s)
  BY <1>1, <1>2, <1>4, <1>5, <1>6 DEF TaskChains!Open, SameRow, TaskOf, Links
<1> QED
  BY <1>7 DEF ChainStep, TaskChains!Next

LEMMA StatusImplements ==
  ASSUME NEW s \in Sessions, NEW st \in Statuses, sess[s] # None, StatusSet(s, st),
         Links' = Links,
         HandedOff(s)' => \E l \in Links : l[1] = s
  PROVE  ChainStep
<1>1. \A r \in Sessions \ {s} : SameRow(r)
  BY OthersSame DEF StatusSet
<1>2. /\ TaskOf(s)' = TaskOf(s)
      /\ Opened(s)' <=> Opened(s)
  BY DEF TaskOf, Opened, StatusSet
<1>3. {r \in Sessions : Opened(r)}' = {r \in Sessions : Opened(r)}
  BY <1>1, <1>2 DEF SameRow
<1>4. CASE HandedOff(s)'
  <2>1. {r \in Sessions : HandedOff(r)}' = {r \in Sessions : HandedOff(r)} \cup {s}
    BY <1>1, <1>4 DEF SameRow
  <2>2. TaskChains!Mark(s)
    BY <1>1, <1>2, <1>3, <1>4, <2>1 DEF TaskChains!Mark, SameRow, TaskOf, Links
  <2> QED
    BY <2>2 DEF ChainStep, TaskChains!Next
<1>5. CASE ~HandedOff(s)'
  <2>1. {r \in Sessions : HandedOff(r)}' = {r \in Sessions : HandedOff(r)} \ {s}
    BY <1>1, <1>5 DEF SameRow
  <2>2. TaskChains!Unmark(s)
    BY <1>1, <1>2, <1>3, <2>1 DEF TaskChains!Unmark, SameRow, TaskOf, Links
  <2> QED
    BY <2>2 DEF ChainStep, TaskChains!Next
<1> QED
  BY <1>4, <1>5

LEMMA LinkImplements ==
  ASSUME ChainInv, NEW w \in Jobs, Link(w)
  PROVE  ChainStep
<1>0. PICK old \in Sessions, new \in Sessions : old = job[w].dying /\ new = job[w].new
  BY LinkAdds DEF ChainInv, DyingExists, NewExists
<1>1. /\ sess' = sess /\ job[w].pc = "link"
      /\ DyingExists(w) /\ NewExists(w) /\ sess[new].devin
  BY <1>0, LinkAdds DEF ChainInv
<1>2. PICK h \in HandoffIds :
        /\ ~Linked(h) /\ Linked(h)'
        /\ handoffs'[h].from = old /\ handoffs'[h].to = new
        /\ \A g \in HandoffIds \ {h} : handoffs'[g] = handoffs[g]
  BY <1>0, LinkAdds DEF ChainInv
<1>3. Links' = Links \cup {<<old, new>>}
  <2>1. \A g \in HandoffIds \ {h} : Linked(g)' <=> Linked(g)
    BY <1>2 DEF Linked
  <2> QED
    BY <1>2, <2>1 DEF Links
<1>4. \A l \in Links : l[2] # new
  BY <1>0, <1>1 DEF Links, ChainInv, NewApart, NewSteps
<1>5. old < new
  BY <1>0, <1>1 DEF DyingExists, NewExists
<1>6. TaskOf(old) # None /\ TaskOf(new) = TaskOf(old) /\ Opened(new)
  BY <1>0, <1>1, NotNull DEF DyingExists, NewExists, TaskOf, Opened
<1>7. \A r \in Sessions : SameRow(r)
  BY <1>1 DEF SameRow, TaskOf, Opened, HandedOff
<1>8. TaskChains!Continue(old, new)
  BY <1>3, <1>4, <1>5, <1>6, <1>7 DEF TaskChains!Continue, SameRow, TaskOf, Links
<1> QED
  BY <1>8 DEF ChainStep, TaskChains!Next

\* Every step appends to the chains, opens or marks a session, or leaves them alone.
LEMMA ChainSimulation ==
  ASSUME ChainInv, [Next]_vars
  PROVE  ChainStep
<1>1. CASE \E w \in Jobs : Link(w)
  BY <1>1, LinkImplements
<1>2. CASE ~\E w \in Jobs : Link(w)
  <2>1. SameLinks /\ Links' = Links
    BY <1>2, LinksStay, LinksSame DEF ChainInv
  <2>2. RowStep
    <3>1. ASSUME NEW w \in Jobs, Moving(w)
          PROVE  RowStep
      BY <3>1, MovingMoves DEF Moves, ChainInv
    <3> QED
      BY <3>1 DEF Next, Moving, Restart, KeyLifted, KeyLost, vars, RowStep
  <2>3. CASE sess' = sess
    BY <2>1, <2>3
    DEF ChainStep, TaskChains!chainVars, TaskOf, Opened, HandedOff, Links
  <2>4. ASSUME NEW s \in Sessions, sess[s] # None, RowAttached(s)
        PROVE  ChainStep
    BY <2>1, <2>4, AttachImplements DEF ChainInv
  <2>5. ASSUME NEW s \in Sessions, sess[s] # None, NEW st \in Statuses, StatusSet(s, st)
        PROVE  ChainStep
    <3>1. ASSUME HandedOff(s)' PROVE \E l \in Links : l[1] = s
      <4>1. \/ sess[s] # None /\ sess[s].status = "handoff_done"
            \/ \E w \in Jobs : job[w].pc = "done" /\ job[w].dying = s
        BY <3>1, DoneOnly DEF ChainInv, HandedOff
      <4>2. PICK h \in HandoffIds : Linked(h) /\ handoffs[h].from = s
        BY <4>1 DEF ChainInv, LinkedChain, HandedOffHasSuccessor, DoneLinked
      <4>3. <<handoffs[h].from, handoffs[h].to>> \in Links
        BY <4>2 DEF Links
      <4> QED
        BY <4>2, <4>3
    <3> QED
      BY <2>1, <2>5, <3>1, StatusImplements
  <2>6. ASSUME NEW s \in Sessions, NEW t \in Tasks, NEW k \in Keys, RowInserted(s, t, k)
        PROVE  ChainStep
    BY <2>1, <2>6, InsertImplements
  <2> QED
    BY <2>2, <2>3, <2>4, <2>5, <2>6 DEF RowStep
<1> QED
  BY <1>1, <1>2

\* Rotations implement Chains: through every interleaving of calls, cancelled contexts,
\* refreshes and restarts the linked handoffs are an append-only chain.
THEOREM RotationImplementsChains == Spec => ChainsGrow
<1>1. ASSUME Init PROVE TaskChains!Init
  <2>1. \A s \in Sessions : sess[s] = None
    BY <1>1 DEF Init
  <2>2. \A h \in HandoffIds : ~Linked(h)
    BY <1>1 DEF Init, Linked
  <2> QED
    BY <2>1, <2>2 DEF TaskChains!Init, Opened, HandedOff
<1>2. ChainInv /\ [Next]_vars => [TaskChains!Next]_(TaskChains!chainVars)
  BY ChainSimulation DEF ChainStep
<1> QED
  BY <1>1, <1>2, ChainInit, ChainKept, PTL DEF Spec, ChainsGrow, TaskChains!Spec

-----------------------------------------------------------------------------
(* Who owns a handoff row.                                                 *)

OwnedInv == Base /\ UnlinkedOwned

LEMMA HeldIsUnlinked ==
  ASSUME Base
  PROVE  HeldUnlinked
  BY DEF Base, Held, HeldUnlinked, Holds, Linked

LEMMA OwnedKept ==
  ASSUME OwnedInv, [HistoryNext]_<<vars, orphaned, unguarded>>
  PROVE  OwnedInv'
<1>1. Base /\ Base' /\ UnlinkedOwned
  BY BaseKept DEF OwnedInv, HistoryNext, vars
<1>2. ASSUME NEW h \in HandoffIds, h \notin orphaned', handoffs'[h] # None, ~Linked(h)'
      PROVE  \E w \in Jobs : Holds(w, h)'
  <2>1. h \notin orphaned
    BY <1>2 DEF HistoryNext
  <2>2. ASSUME handoffs'[h] = handoffs[h]
        PROVE  \E w \in Jobs : Holds(w, h)
    BY <1>1, <1>2, <2>1, <2>2 DEF UnlinkedOwned, Linked
  <2>3. ASSUME NEW w \in Jobs, Keeping(w)
        PROVE  \E v \in Jobs : Holds(v, h)'
    <3>1. PICK v \in Jobs : Holds(v, h)
      BY <2>2, <2>3 DEF Keeping
    <3> QED
      BY <2>3, <3>1 DEF Keeping, Only, Holds
  <2>4. ASSUME NEW w \in Jobs, CreateHandoff(w)
        PROVE  \E v \in Jobs : Holds(v, h)'
    <3>1. PICK g \in HandoffIds :
            /\ handoffs[g] = None /\ OtherHandoffs(g) /\ Only(w)
            /\ job[w].pc = "handoff" /\ job'[w].pc = "pick" /\ job'[w].hand = g
      BY <1>1, <2>4, CreateHandoffGives
    <3>2. CASE h = g
      BY <3>1, <3>2 DEF Holds, HoldSteps
    <3>3. CASE h # g
      <4>1. PICK v \in Jobs : Holds(v, h)
        BY <2>2, <3>1, <3>3 DEF OtherHandoffs
      <4> QED
        BY <3>1, <4>1 DEF Only, Holds, HoldSteps
    <3> QED
      BY <3>2, <3>3
  <2>5. ASSUME NEW w \in Jobs, Link(w) \/ Cleanup(w)
        PROVE  \E v \in Jobs : Holds(v, h)'
    <3>1. /\ Only(w) /\ OtherHandoffs(job[w].hand)
          /\ handoffs'[job[w].hand] = None \/ handoffs'[job[w].hand].to # None
      <4>1. CASE Link(w)
        BY <1>1, <4>1, LinkAdds, LinkGives DEF Linked
      <4>2. CASE Cleanup(w)
        BY <1>1, <4>2, CleanupGives, CleanupReleases
      <4> QED
        BY <2>5, <4>1, <4>2
    <3>2. h # job[w].hand
      BY <1>2, <3>1 DEF Linked
    <3>3. PICK v \in Jobs : Holds(v, h)
      BY <2>2, <3>1, <3>2 DEF OtherHandoffs
    <3> QED
      BY <3>1, <3>2, <3>3 DEF Only, Holds
  <2>6. ASSUME NEW w \in Jobs, Moving(w)
        PROVE  \E v \in Jobs : Holds(v, h)'
    BY <1>1, <2>3, <2>4, <2>5, <2>6, MovingKinds, SmallKeeps, SetsKeeps DEF Hands
  <2>7. CASE Restart /\ HistoryNext
    <3>1. \A w \in Jobs : ~Holds(w, h)
      BY <1>2, <2>7 DEF HistoryNext
    <3> QED
      BY <2>2, <2>7, <3>1 DEF Restart
  <2>8. CASE UNCHANGED <<sess, handoffs, job>>
    BY <2>2, <2>8 DEF Holds
  <2> QED
    BY <2>6, <2>7, <2>8 DEF HistoryNext, Next, Moving, KeyLifted, KeyLost, vars
<1> QED
  BY <1>1, <1>2 DEF OwnedInv, Base, UnlinkedOwned, Held, Holds

\* Whatever calls overlap, are cancelled or die with the process: an unlinked handoff
\* row that no crash has orphaned belongs to one rotation, which still will link it or
\* delete it, and nobody else has linked or deleted that row before.
THEOREM OwnedSound == HistorySpec => []HandoffOwned
<1>1. HistoryInit => OwnedInv
  <2> SUFFICES ASSUME HistoryInit PROVE OwnedInv
    OBVIOUS
  <2>1. Base
    BY BaseInit DEF HistoryInit
  <2> QED
    BY <2>1 DEF HistoryInit, Init, OwnedInv, UnlinkedOwned
<1>2. OwnedInv /\ [HistoryNext]_historyVars => OwnedInv'
  BY OwnedKept DEF historyVars
<1>3. OwnedInv => HandoffOwned
  BY HeldIsUnlinked DEF OwnedInv, HandoffOwned
<1> QED
  BY <1>1, <1>2, <1>3, PTL DEF HistorySpec

-----------------------------------------------------------------------------
(* Double handoffs.                                                        *)

\* No two calls have session s in hand.
Alone(s) ==
  \A v, w \in Jobs : v # w /\ job[w].dying = s => job[v].dying # s /\ ~Opening(v, s)

\* Whatever call still has the handed-off session s in hand is behind its last write,
\* will read the row again, or has read handoff_done and will be turned away.
Late(w, s) ==
  /\ ~Opening(w, s)
  /\ job[w].dying = s =>
       \/ job[w].pc \in {"settle", "r_get", "s_pause"}
       \/ /\ job[w].pc \in {"f_send", "y_get", "y_replace", "y_status", "stamp"}
          /\ job[w].seen = "handoff_done"

Closed(s) == /\ sess[s] # None /\ sess[s].status = "handoff_done"
             /\ \A w \in Jobs : Late(w, s)

Closing(s) == \E w \in Jobs : job[w].pc = "done" /\ job[w].dying = s

\* A session that has been handed off is closed, or about to be.
HandedOnce ==
  \A h \in HandoffIds :
    Linked(h) /\ handoffs[h].from \notin unguarded =>
      Closing(handoffs[h].from) \/ Closed(handoffs[h].from)

DoubleInv ==
  /\ Base /\ HandedOnce /\ DoubleIsExplained
  /\ \A s \in Sessions \ unguarded : Alone(s)

LEMMA LinkedFrom ==
  ASSUME Base, NEW h \in HandoffIds, Linked(h)
  PROVE  handoffs[h].from \in Sessions
<1>1. handoffs[h] \in Handoff
  BY JobsTyped DEF Linked
<1> QED
  BY <1>1 DEF Handoff

\* A closed session stays closed, unless a refresh writes over handoff_done.
LEMMA ClosedStays ==
  ASSUME Base, NEW s \in Sessions, Closed(s), NEW w \in Jobs, Moving(w), ~Reopened(s)
  PROVE  Closed(s)'
<1>1. Late(w, s) /\ sess[s] # None /\ sess[s].status = "handoff_done"
  BY DEF Closed
<1>2. SUFFICES /\ sess'[s] # None /\ sess'[s].status = "handoff_done"
               /\ Late(w, s)' /\ Only(w)
  BY DEF Closed, Late, Opening, Only
<1>3. Only(w)
  BY MovingMoves DEF Moves
<1>4. s # None
  BY NotNull
<1>5. CASE Plain(w)
  BY <1>1, <1>3, <1>5 DEF Plain, PlainEdges, Late, Opening, Walks, KeepsRow, KeepsNew
<1>6. CASE Stamps(w)
  <2>1. PICK p, q \in Pcs, st \in Statuses :
          /\ <<p, q, st>> \in StatusEdges /\ Walks(w, p, q)
          /\ StatusSet(job[w].dying, st)
          /\ p = "stamp" => job[w].seen # "handoff_done"
    BY <1>6 DEF Stamps
  <2>2. job[w].dying # s
    BY <1>1, <2>1 DEF Late, Walks, StatusEdges
  <2> QED
    BY <1>1, <1>3, <2>1, <2>2 DEF StatusEdges, StatusSet, OtherRows, Late, Opening, Walks,
       KeepsRow, KeepsNew
<1>7. CASE Refused(w)
  <2>1. job[w].new # s
    BY <1>1, <1>7 DEF Refused, Late, Opening, Walks
  <2> QED
    BY <1>1, <1>3, <1>7, <2>1 DEF Refused, StatusSet, OtherRows, Late, Opening, Walks,
       KeepsRow, KeepsNew
<1>8. CASE Attaches(w)
  BY <1>1, <1>3, <1>8 DEF Attaches, RowAttached, OtherRows, Late, Opening, Walks,
     KeepsRow, KeepsNew
<1>9. CASE Over(w)
  <2>1. PICK p \in Pcs :
          /\ Ends(w, p)
          /\ \/ sess' = sess
             \/ \E st \in Statuses \ {"creating", "handoff_done"} :
                  p = "y_status" /\ StatusSet(job[w].dying, st)
    BY <1>9 DEF Over
  <2>2. sess'[s] = sess[s]
    <3>1. CASE sess' = sess
      BY <3>1
    <3>2. CASE job[w].dying # s
      BY <2>1, <3>2 DEF StatusSet, OtherRows
    <3>3. CASE p = "y_status" /\ job[w].dying = s
      BY <1>1, <2>1, <3>3 DEF Reopened, At, Ends
    <3> QED
      BY <2>1, <3>1, <3>2, <3>3
  <2>3. job'[w].dying = None /\ job'[w].new = None
    BY <2>1 DEF Ends, IdleJob, CallJob
  <2> QED
    BY <1>1, <1>3, <1>4, <2>2, <2>3 DEF Late, Opening
<1>10. CASE Pauses(w) \/ Aborts(w)
  BY <1>1, <1>3, <1>10 DEF Pauses, Aborts, Late, Opening, Walks, KeepsRow, KeepsNew,
     HoldSteps
<1>11. CASE Begins(w)
  <2>1. PICK r \in Sessions, op \in CallOps, p \in {"f_send", "y_get", "r_get", "stamp"} :
          /\ OnSession(w, r, op, p)
          /\ <<op, p>> \in {<<"follow", "f_send">>, <<"sync", "y_get">>,
                            <<"manual", "stamp">>, <<"resume", "r_get">>}
          /\ op = "manual" => sess[r].status \in Rotatable
    BY <1>11 DEF Begins
  <2>2. /\ sess' = sess /\ job'[w].pc = p /\ job'[w].dying = r
        /\ job'[w].seen = sess[r].status /\ job'[w].new = None
    BY <2>1, OnSessionGives
  <2> QED
    BY <1>1, <1>3, <2>1, <2>2 DEF Late, Opening, Rotatable, Live
<1>12. CASE Sets(w)
  <2>1. CASE \E t \in Tasks, k \in Keys : StartTask(w, t, k)
    BY <1>1, <1>3, <1>4, <2>1, StartTaskGives DEF Late, Opening
  <2>2. CASE StartOpen(w)
    BY <1>1, <1>3, <2>2, StartOpenGives DEF Late, Opening, RowInserted, OtherRows,
       KeepsNew
  <2>3. CASE ResumeRead(w)
    BY <1>1, <1>3, <2>3, ResumeReadGives DEF Late, Opening, KeepsNew
  <2>4. CASE OpenReplacement(w)
    BY <1>1, <1>3, <2>4, OpenReplacementGives DEF Late, Opening, RowInserted, OtherRows,
       KeepsRow
  <2>5. CASE \E r \in RemoteStatuses : SyncAnswered(w, r)
    BY <1>1, <1>3, <2>5, SyncAnsweredGives DEF Late, Opening, KeepsRow
  <2>6. CASE \E k \in Keys : PickKey(w, k)
    BY <1>1, <1>3, <2>6, PickKeyGives DEF Late, Opening, KeepsRow
  <2> QED
    BY <1>12, <2>1, <2>2, <2>3, <2>4, <2>5, <2>6 DEF Sets
<1>13. CASE Hands(w)
  <2>1. CASE CreateHandoff(w)
    BY <1>1, <1>3, <2>1, CreateHandoffGives DEF Late, Opening, KeepsRow, KeepsNew
  <2>2. CASE Link(w)
    BY <1>1, <1>3, <2>2, LinkGives DEF Late, Opening, Walks, KeepsRow, KeepsNew
  <2>3. CASE Cleanup(w)
    <3>1. IdleJob.dying = None /\ IdleJob.new = None
      BY DEF IdleJob, CallJob
    <3> QED
      BY <1>1, <1>3, <1>4, <2>3, <3>1, CleanupGives DEF Late, Opening, Walks, Ends,
         KeepsRow, KeepsNew
  <2> QED
    BY <1>13, <2>1, <2>2, <2>3 DEF Hands
<1> QED
  BY <1>5, <1>6, <1>7, <1>8, <1>9, <1>10, <1>11, <1>12, <1>13, MovingKinds DEF Small

\* What a step of the rotation at "done" leaves, if it is not cut short.
LEMMA ClosingCloses ==
  ASSUME Base, NEW s \in Sessions, NEW w \in Jobs, Moving(w), job[w].pc = "done",
         job[w].dying = s, job'[w].pc \in {"done", "settle"}
  PROVE  /\ job'[w].pc = "settle" /\ job'[w].dying = s
         /\ sess'[s] # None /\ sess'[s].status = "handoff_done"
<1>1. CASE Stamps(w)
  BY <1>1 DEF Stamps, StatusEdges, Walks, KeepsRow, StatusSet
<1>2. CASE Small(w) /\ ~Stamps(w)
  <2>1. Small(w) /\ ~Stamps(w) => ~Plain(w) /\ ~Refused(w) /\ ~Attaches(w) /\ ~Pauses(w)
    BY DEF Plain, PlainEdges, Refused, Attaches, Pauses, Walks
  <2>2. ~Over(w)
    BY DEF Over, Ends, IdleJob, CallJob
  <2>3. ~Aborts(w) /\ ~Begins(w)
    BY OnSessionGives DEF Aborts, Begins, HoldSteps
  <2> QED
    BY <1>2, <2>1, <2>2, <2>3 DEF Small
<1>3. CASE Sets(w)
  BY <1>3 DEF Sets, StartTask, Begin, StartOpen, ResumeRead, OpenReplacement,
     SyncAnswered, PickKey, At
<1>4. CASE Hands(w)
  BY <1>4 DEF Hands, CreateHandoff, Link, Cleanup, At
<1> QED
  BY <1>1, <1>2, <1>3, <1>4, MovingKinds

LEMMA DoubleKept ==
  ASSUME DoubleInv, [HistoryNext]_<<vars, orphaned, unguarded>>
  PROVE  DoubleInv'
<1>1. Base /\ Base' /\ [Next]_vars
  BY BaseKept DEF DoubleInv, HistoryNext, vars
<1>2. CASE UNCHANGED <<vars, orphaned, unguarded>>
  <2>1. /\ HandedOnce' /\ DoubleIsExplained'
    BY <1>2 DEF DoubleInv, HandedOnce, DoubleIsExplained, Closing, Closed, Late, Opening,
       Linked, vars
  <2>2. \A s \in Sessions \ unguarded' : Alone(s)'
    BY <1>2 DEF DoubleInv, Alone, Opening, vars
  <2> QED
    BY <1>1, <2>1, <2>2 DEF DoubleInv
<1>3. CASE HistoryNext
  <2>1. ASSUME NEW s \in Sessions, s \notin unguarded'
        PROVE  /\ s \notin unguarded /\ Alone(s) /\ Alone(s)'
               /\ ~CutShort(s) /\ ~Reopened(s)
    BY <1>3, <2>1 DEF HistoryNext, Shared, Alone, DoubleInv
  <2>2. ASSUME NEW h \in HandoffIds, Linked(h), handoffs[h].from \notin unguarded'
        PROVE  \E s \in Sessions : s = handoffs[h].from /\ (Closing(s)' \/ Closed(s)')
    <3>0. PICK s \in Sessions : s = handoffs[h].from
      BY <1>1, <2>2, LinkedFrom
    <3>1. /\ s \notin unguarded /\ Alone(s) /\ Alone(s)' /\ ~CutShort(s) /\ ~Reopened(s)
      BY <2>1, <2>2, <3>0
    <3>2. Closing(s) \/ Closed(s)
      BY <2>2, <3>0, <3>1 DEF DoubleInv, HandedOnce
    <3>3. ASSUME Closed(s)
          PROVE  Closed(s)'
      <4>1. ASSUME NEW w \in Jobs, Moving(w)
            PROVE  Closed(s)'
        BY <1>1, <3>1, <3>3, <4>1, ClosedStays
      <4>2. CASE Restart
        <5>1. IdleJob.dying = None /\ IdleJob.new = None /\ s # None
          BY NotNull DEF IdleJob, CallJob
        <5> QED
          BY <3>3, <4>2, <5>1 DEF Restart, Closed, Late, Opening
      <4>3. CASE UNCHANGED <<sess, handoffs, job>>
        BY <3>3, <4>3 DEF Closed, Late, Opening
      <4> QED
        BY <1>1, <4>1, <4>2, <4>3 DEF Next, Moving, KeyLifted, KeyLost, vars
    <3>4. ASSUME Closing(s)
          PROVE  Closing(s)' \/ Closed(s)'
      <4>1. PICK u \in Jobs : job[u].pc = "done" /\ job[u].dying = s
        BY <3>4 DEF Closing
      <4>2. job'[u].pc \in {"done", "settle"}
        BY <3>1, <4>1 DEF CutShort, At
      <4>3. CASE job'[u] = job[u]
        BY <4>1, <4>3 DEF Closing
      <4>4. CASE Moving(u)
        <5>1. /\ job'[u].pc = "settle" /\ job'[u].dying = s
              /\ sess'[s] # None /\ sess'[s].status = "handoff_done"
          BY <1>1, <4>1, <4>2, <4>4, ClosingCloses
        <5>2. \A w \in Jobs : Late(w, s)'
          BY <3>1, <5>1 DEF Late, Alone, Opening
        <5> QED
          BY <5>1, <5>2 DEF Closed
      <4>5. CASE job'[u] # job[u] /\ ~Moving(u)
        <5>1. \A w \in Jobs : Moving(w) => w = u
          BY <1>1, <4>5, MovingMoves DEF Moves, Only
        <5>2. Restart
          BY <1>1, <4>5, <5>1 DEF Next, Moving, KeyLifted, KeyLost, vars
        <5> QED
          BY <4>2, <5>2 DEF Restart, IdleJob, CallJob
      <4> QED
        BY <4>3, <4>4, <4>5
    <3> QED
      BY <3>0, <3>2, <3>3, <3>4
  <2>3. CASE ~\E w \in Jobs : Link(w)
    <3>1. SameLinks
      BY <1>1, <2>3, LinksStay
    <3>2. HandedOnce'
      BY <2>2, <3>1 DEF HandedOnce, SameLinks
    <3>3. DoubleIsExplained'
      BY <1>3, <3>1 DEF DoubleInv, DoubleIsExplained, SameLinks, HistoryNext
    <3> QED
      BY <1>1, <2>1, <3>2, <3>3 DEF DoubleInv
  <2>4. ASSUME NEW w \in Jobs, Link(w)
        PROVE  DoubleInv'
    <3>1. PICK s \in Sessions :
            /\ job[w].dying = s /\ job'[w].dying = s
            /\ job[w].pc = "link" /\ job'[w].pc = "done"
      BY <1>1, <2>4, LinkAdds DEF DyingExists
    <3>2. PICK h \in HandoffIds :
            /\ ~Linked(h) /\ Linked(h)' /\ handoffs'[h].from = s
            /\ \A g \in HandoffIds \ {h} : handoffs'[g] = handoffs[g]
      BY <1>1, <2>4, <3>1, LinkAdds
    <3>3. \A g \in HandoffIds \ {h} : Linked(g)' <=> Linked(g)
      BY <3>2 DEF Linked
    <3>4. HandedOnce'
      <4>1. Closing(s)'
        BY <3>1 DEF Closing
      <4> QED
        BY <2>2, <3>2, <3>3, <4>1 DEF HandedOnce
    <3>5. ASSUME NEW g \in HandoffIds \ {h}, Linked(g), handoffs[g].from = s,
                 s \notin unguarded'
          PROVE  FALSE
      <4>1. s \notin unguarded /\ Alone(s)
        BY <2>1, <3>1, <3>5
      <4>2. Closing(s) \/ Closed(s)
        BY <3>5, <4>1 DEF DoubleInv, HandedOnce
      <4>3. CASE Closing(s)
        BY <3>1, <4>1, <4>3 DEF Closing, Alone
      <4>4. CASE Closed(s)
        BY <3>1, <4>4 DEF Closed, Late
      <4> QED
        BY <4>2, <4>3, <4>4
    <3>6. DoubleIsExplained'
      <4>1. unguarded \subseteq unguarded'
        BY <1>3 DEF HistoryNext
      <4> QED
        BY <3>2, <3>3, <3>5, <4>1 DEF DoubleInv, DoubleIsExplained
    <3> QED
      BY <1>1, <2>1, <3>4, <3>6 DEF DoubleInv
  <2> QED
    BY <2>3, <2>4
<1> QED
  BY <1>2, <1>3

\* ErrAlreadyRotated keeps a session from being handed off twice, whatever fails, with
\* the exceptions that DoubleIsExplained names and no other.
THEOREM DoubleSound == HistorySpec => []DoubleIsExplained
<1>1. HistoryInit => DoubleInv
  <2> SUFFICES ASSUME HistoryInit PROVE DoubleInv
    OBVIOUS
  <2>1. Base /\ \A h \in HandoffIds : ~Linked(h)
    BY BaseInit DEF HistoryInit, Init, Linked
  <2>2. ASSUME NEW s \in Sessions PROVE Alone(s)
    <3>1. \A w \in Jobs : job[w].dying = None /\ s # None
      BY NotNull DEF HistoryInit, Init, IdleJob, CallJob
    <3> QED
      BY <3>1 DEF Alone
  <2> QED
    BY <2>1, <2>2 DEF DoubleInv, HandedOnce, DoubleIsExplained
<1>2. DoubleInv /\ [HistoryNext]_historyVars => DoubleInv'
  BY DoubleKept DEF historyVars
<1>3. DoubleInv => DoubleIsExplained
  BY DEF DoubleInv
<1> QED
  BY <1>1, <1>2, <1>3, PTL DEF HistorySpec

-----------------------------------------------------------------------------
(* The replacement's key.                                                  *)

\* The statements at which rotate has picked a key that it has yet to use or link.
AwaySteps == {"open", "create", "attach", "link"}

\* From the bench of the dying key on, Pick cannot see it; a key that was picked is
\* another one.
Apart(w) ==
  /\ job[w].pc \in {"handoff", "pick"} => sess[job[w].dying].key \notin usable
  /\ job[w].pc \in AwaySteps => job[w].key # sess[job[w].dying].key

Switches(w) == Leaving(w) /\ w \notin lifted => Apart(w)

KeyInv == Base /\ \A w \in Jobs : Switches(w)

\* What the history keeps of the rotations that may still open their replacement.
Noted ==
  \A w \in Jobs : Leaving(w)' /\ w \notin lifted' => w \notin lifted /\ ~LiftedUnder(w)

\* No call puts a key back.
LEMMA MovingUses ==
  ASSUME NEW w \in Jobs, Moving(w)
  PROVE  usable' \subseteq usable
<1>1. CASE Call(w)
  BY <1>1 DEF Call, StartTask, SendFollowUp, SyncSession, ForceRotate, ResumeSession,
     OnSession
<1>2. CASE StartStep(w)
  BY <1>2 DEF StartStep, StartOpen, StartCreated, StartRefused, StartExhausted, StartFail,
     StartRotate, StartAttach, StartRunning, StartPause
<1>3. CASE CallStep(w)
  BY <1>3 DEF CallStep, FollowUpOver, FollowUpExhausted, SyncFailed, SyncExhausted,
     SyncAnswered, SyncReplace, SyncStatus, ResumeRead
<1>4. CASE RotateStep(w)
  BY <1>4 DEF RotateStep, AlreadyRotated, Stamp, MarkDying, CreateHandoff, PickKey,
     NoActiveKey, OpenReplacement, Created, CreateFailed, MarkNew, Cleanup, Attach, Link,
     HandoffDone, Settle
<1>5. CASE Abort(w)
  BY <1>5 DEF Abort
<1> QED
  BY <1>1, <1>2, <1>3, <1>4, <1>5 DEF Moving, Step

\* A lift leaves a rotation that has picked alone, and is noted of one that has not.
LEMMA SwitchesStays ==
  ASSUME KeyInv, Grows, Noted, NEW v \in Jobs, job'[v] = job[v]
  PROVE  Switches(v)'
<1> SUFFICES ASSUME Leaving(v)', v \notin lifted'
             PROVE  Apart(v)'
  BY DEF Switches
<1>1. Shape(v) /\ Leaving(v) /\ v \notin lifted /\ ~LiftedUnder(v)
  BY JobsTyped DEF KeyInv, Noted, Leaving
<1>2. Apart(v)
  BY <1>1 DEF KeyInv, Switches
<1>3. DyingExists(v)
  BY <1>1 DEF Shape, Leaving
<1>4. sess'[job[v].dying].key = sess[job[v].dying].key
  BY <1>3 DEF DyingExists, Grows
<1> QED
  BY <1>1, <1>2, <1>4 DEF Apart, LiftedUnder

LEMMA SwitchesWalks ==
  ASSUME KeyInv, Grows, Noted, NEW w \in Jobs, Moving(w)
  PROVE  Switches(w)'
<1>1. Shape(w) /\ Switches(w)
  BY JobsTyped DEF KeyInv
<1>2. DyingExists(w) => sess'[job[w].dying].key = sess[job[w].dying].key
  BY DEF DyingExists, Grows
<1>3. Base /\ usable' \subseteq usable
  BY MovingUses DEF KeyInv
<1>n. Leaving(w)' /\ w \notin lifted' => w \notin lifted
  BY DEF Noted
<1>4. CASE Plain(w)
  BY <1>1, <1>2, <1>n, <1>4 DEF Plain, PlainEdges, Switches, Apart, Leaving, Shape, Walks, KeepsCall, KeepsRow,
     KeepsNew, AwaySteps
<1>5. CASE Stamps(w)
  BY <1>5 DEF Stamps, StatusEdges, Switches, Apart, Leaving, Manual, Walks, KeepsCall, AwaySteps
<1>6. CASE Refused(w) \/ Attaches(w)
  BY <1>1, <1>2, <1>n, <1>6 DEF Refused, Attaches, Switches, Apart, Leaving, Shape, Walks, KeepsCall, KeepsRow,
     KeepsNew, AwaySteps
<1>7. CASE Over(w) \/ Pauses(w) \/ Aborts(w) \/ Begins(w)
  <2>1. IdleJob.pc = "idle"
    BY DEF IdleJob, CallJob
  <2>2. job'[w].pc \in {"idle", "s_pause", "cleanup", "f_send", "y_get", "r_get", "stamp"}
    BY <1>3, <1>7, <2>1, OnSessionGives DEF Over, Ends, Pauses, Walks, Aborts, Begins
  <2> QED
    BY <2>2 DEF Switches, Apart, Leaving, AwaySteps
<1>8. CASE Sets(w)
  <2>1. ASSUME NEW k \in Keys, PickKey(w, k)
        PROVE  Switches(w)'
    <3>1. k \in usable
      BY <2>1 DEF PickKey, Pickable
    <3> QED
      BY <1>1, <1>2, <1>n, <1>3, <2>1, <3>1, PickKeyGives
      DEF Switches, Apart, Leaving, Shape, KeepsCall, KeepsRow, AwaySteps
  <2>2. CASE OpenReplacement(w)
    BY <1>1, <1>2, <1>n, <1>3, <2>2, OpenReplacementGives
    DEF Switches, Apart, Leaving, Shape, KeepsCall, KeepsRow, AwaySteps
  <2>3. ASSUME NEW t \in Tasks, NEW k \in Keys, StartTask(w, t, k)
        PROVE  Switches(w)'
    BY <1>3, <2>3, StartTaskGives DEF Switches, Apart, Leaving, AwaySteps
  <2>4. ASSUME NEW r \in RemoteStatuses, SyncAnswered(w, r)
        PROVE  Switches(w)'
    BY <1>3, <2>4, SyncAnsweredGives DEF Switches, Apart, Leaving, AwaySteps
  <2>5. CASE StartOpen(w) \/ ResumeRead(w)
    BY <1>3, <2>5, StartOpenGives, ResumeReadGives DEF Switches, Apart, Leaving, AwaySteps
  <2> QED
    BY <1>8, <2>1, <2>2, <2>3, <2>4, <2>5 DEF Sets
<1>9. CASE CreateHandoff(w)
  BY <1>1, <1>2, <1>n, <1>3, <1>9, CreateHandoffGives DEF Switches, Apart, Leaving, Shape, KeepsRow, AwaySteps
<1>10. CASE Link(w) \/ Cleanup(w)
  <2>1. job'[w].pc \in {"done", "idle", "s_pause"}
    BY <1>3, <1>10, LinkGives, CleanupReleases DEF Walks
  <2> QED
    BY <2>1 DEF Switches, Apart, Leaving, AwaySteps
<1> QED
  BY <1>3, <1>4, <1>5, <1>6, <1>7, <1>8, <1>9, <1>10, MovingKinds DEF Small, Hands

\* A rotation that ran into a quota opens the replacement on another key than the
\* exhausted one, however many calls pick and bench keys and whatever sweeps and checks
\* put back in between, unless they put the dying key back between MarkExhausted and
\* this rotation's Pick: until then the key is out of Pick's sight.
THEOREM KeySound == CacheSpec => []QuotaChangesKey
<1>1. ASSUME CacheInit PROVE KeyInv
  BY <1>1, BaseInit DEF CacheInit, KeyInv, Switches, Leaving, Init, IdleJob, CallJob
<1>2. ASSUME KeyInv, [CacheNext]_cacheVars PROVE KeyInv'
  <2>1. Base /\ Base' /\ Grows /\ [Next]_vars
    BY <1>2, BaseKept, GrowsAlways DEF KeyInv, CacheNext, cacheVars, vars
  <2>2. CASE UNCHANGED cacheVars
    BY <1>2, <2>1, <2>2 DEF KeyInv, Switches, Leaving, Apart, cacheVars, vars
  <2>3. CASE CacheNext
    <3>1. Noted
      BY <2>3 DEF CacheNext, Noted
    <3>2. ASSUME NEW w \in Jobs, Moving(w), NEW v \in Jobs
          PROVE  Switches(v)'
      BY <1>2, <2>1, <3>1, <3>2, SwitchesStays, SwitchesWalks, MovingMoves DEF Moves, Only
    <3>3. ASSUME Restart, NEW v \in Jobs
          PROVE  Switches(v)'
      BY <3>3 DEF Restart, Switches, Leaving, IdleJob, CallJob
    <3>4. ASSUME job' = job, NEW v \in Jobs
          PROVE  Switches(v)'
      BY <1>2, <2>1, <3>1, <3>4, SwitchesStays
    <3>5. ASSUME NEW v \in Jobs
          PROVE  Switches(v)'
      BY <2>3, <3>2, <3>3, <3>4 DEF CacheNext, Next, Moving, KeyLifted, KeyLost
    <3> QED
      BY <2>1, <3>5 DEF KeyInv
  <2> QED
    BY <1>2, <2>2, <2>3
<1>3. KeyInv => QuotaChangesKey
  <2>1. ASSUME KeyInv, NEW w \in Jobs \ lifted, Leaving(w),
               job[w].pc \in {"create", "attach", "link"}
        PROVE  sess[job[w].new].key # sess[job[w].dying].key
    <3>1. NewExists(w) /\ Switches(w)
      BY <2>1, JobsTyped DEF KeyInv, Shape, NewSteps
    <3> QED
      BY <2>1, <3>1 DEF Switches, Apart, NewExists, AwaySteps
  <2> QED
    BY <2>1 DEF QuotaChangesKey
<1> QED
  BY <1>1, <1>2, <1>3, PTL DEF CacheSpec

-----------------------------------------------------------------------------
(* The text of a follow-up.                                                *)

\* The text is in the cache until the handoff row is written, and in that row after;
\* or a sync has dropped it.
Carries(w) ==
  w \notin wiped =>
    /\ Caching(w) => job[w].dying \in unsent
    /\ Carrying(w) => handoffs[job[w].hand].text

CacheInv == Base /\ \A w \in Jobs : Carries(w)

\* What a sync drops from the cache under a follow-up is remembered.
Remembers ==
  \A w \in Jobs :
    (Caching(w) \/ Carrying(w))' /\ w \notin wiped' => w \notin wiped /\ ~WipedUnder(w)

LEMMA OthersHold ==
  ASSUME Base, NEW w \in Jobs, Moving(w), NEW v \in Jobs \ {w}, job[v].pc \in HoldSteps
  PROVE  handoffs'[job[v].hand] = handoffs[job[v].hand]
<1>1. job[v].hand \in HandoffIds /\ handoffs[job[v].hand] # None
  BY JobsTyped DEF Base, Held, Shape
<1>2. ASSUME NEW h \in HandoffIds, OtherHandoffs(h), job[v].hand # h
      PROVE  handoffs'[job[v].hand] = handoffs[job[v].hand]
  BY <1>1, <1>2 DEF OtherHandoffs
<1>3. CASE CreateHandoff(w)
  BY <1>1, <1>2, <1>3, CreateHandoffGives
<1>4. CASE Link(w) \/ Cleanup(w)
  <2>1. job[w].pc \in HoldSteps /\ OtherHandoffs(job[w].hand)
    BY <1>4, LinkGives, CleanupGives, CleanupReleases DEF Walks, HoldSteps
  <2>2. job[w].hand \in HandoffIds /\ job[v].hand # job[w].hand
    BY <2>1, JobsTyped DEF Base, Held, Shape
  <2> QED
    BY <1>2, <2>1, <2>2
<1>5. CASE Small(w) \/ Sets(w)
  BY <1>5, SmallKeeps, SetsKeeps DEF Keeping
<1> QED
  BY <1>3, <1>4, <1>5, MovingKinds DEF Hands

LEMMA CarriesWalks ==
  ASSUME CacheInv, Remembers, NEW w \in Jobs, Moving(w)
  PROVE  Carries(w)'
<1>1. Base /\ Shape(w) /\ Carries(w)
  BY JobsTyped DEF CacheInv
<1>2. CASE Plain(w)
  BY <1>1, <1>2 DEF Plain, PlainEdges, Carries, Remembers, Caching, Carrying, WipedUnder, Shape, Walks, KeepsCall,
     KeepsRow, StartSteps, HoldSteps
<1>3. CASE Stamps(w)
  BY <1>1, <1>3 DEF Stamps, StatusEdges, Carries, Remembers, Caching, Carrying, WipedUnder, Walks, KeepsCall, KeepsRow,
     HoldSteps
<1>4. CASE Refused(w) \/ Attaches(w)
  BY <1>1, <1>4 DEF Refused, Attaches, Carries, Remembers, Caching, Carrying, WipedUnder, Walks, KeepsCall, KeepsRow,
     HoldSteps
<1>5. CASE Over(w) \/ Pauses(w) \/ Aborts(w) \/ Begins(w)
  <2>1. IdleJob.pc = "idle"
    BY DEF IdleJob, CallJob
  <2>2. job'[w].pc \in {"idle", "s_pause", "f_send", "y_get", "r_get"}
        \/ job'[w].op \in {"aborted", "manual"}
    BY <1>1, <1>5, <2>1, OnSessionGives DEF Over, Ends, Pauses, Walks, Aborts, Begins
  <2> QED
    BY <2>2 DEF Carries, Caching, Carrying, HoldSteps
<1>6. CASE Sets(w)
  <2>1. ASSUME NEW k \in Keys, PickKey(w, k)
        PROVE  Carries(w)'
    <3>1. handoffs' = handoffs
      BY <2>1 DEF PickKey
    <3> QED
      BY <1>1, <2>1, <3>1, PickKeyGives
      DEF Carries, Remembers, Caching, Carrying, WipedUnder, KeepsCall, KeepsRow, HoldSteps
  <2>2. CASE OpenReplacement(w)
    BY <1>1, <2>2, OpenReplacementGives
    DEF Carries, Remembers, Caching, Carrying, WipedUnder, KeepsCall, KeepsRow, HoldSteps
  <2>3. ASSUME NEW t \in Tasks, NEW k \in Keys, StartTask(w, t, k)
        PROVE  Carries(w)'
    BY <1>1, <2>3, StartTaskGives DEF Carries, Caching, Carrying, HoldSteps
  <2>4. ASSUME NEW r \in RemoteStatuses, SyncAnswered(w, r)
        PROVE  Carries(w)'
    BY <1>1, <2>4, SyncAnsweredGives DEF Carries, Caching, Carrying, HoldSteps
  <2>5. CASE StartOpen(w) \/ ResumeRead(w)
    BY <1>1, <2>5, StartOpenGives, ResumeReadGives
    DEF Carries, Remembers, Caching, Carrying, WipedUnder, Shape, KeepsCall, HoldSteps
  <2> QED
    BY <1>6, <2>1, <2>2, <2>3, <2>4, <2>5 DEF Sets
<1>7. CASE CreateHandoff(w)
  <2>1. PICK h \in HandoffIds :
          /\ handoffs'[h] = NewHandoff(w) /\ KeepsRow(w)
          /\ job[w].pc = "handoff" /\ job'[w].pc = "pick"
          /\ job'[w].op = job[w].op /\ job'[w].hand = h
    BY <1>1, <1>7, CreateHandoffGives
  <2>2. handoffs'[h].text = (job[w].dying \in unsent)
    BY <2>1 DEF NewHandoff, Transcript
  <2> QED
    BY <1>1, <2>1, <2>2 DEF Carries, Remembers, Caching, Carrying, WipedUnder, KeepsRow
<1>8. CASE Link(w) \/ Cleanup(w)
  <2>1. job'[w].pc \in {"done", "idle", "s_pause"}
    BY <1>1, <1>8, LinkGives, CleanupReleases DEF Walks
  <2> QED
    BY <2>1 DEF Carries, Caching, Carrying, HoldSteps
<1> QED
  BY <1>1, <1>2, <1>3, <1>4, <1>5, <1>6, <1>7, <1>8, MovingKinds DEF Small, Hands

LEMMA CarriesStays ==
  ASSUME CacheInv, Remembers, NEW v \in Jobs, job'[v] = job[v],
         Carrying(v) => handoffs'[job[v].hand] = handoffs[job[v].hand]
  PROVE  Carries(v)'
<1>1. Carries(v)
  BY DEF CacheInv
<1> QED
  BY <1>1 DEF Carries, Remembers, Caching, Carrying, WipedUnder

LEMMA CacheKept ==
  ASSUME CacheInv, [CacheNext]_cacheVars
  PROVE  CacheInv'
<1>1. Base /\ Base' /\ [Next]_vars
  BY BaseKept DEF CacheInv, CacheNext, cacheVars, vars
<1>2. CASE UNCHANGED cacheVars
  BY <1>1, <1>2 DEF CacheInv, Carries, Caching, Carrying, cacheVars, vars
<1>3. CASE CacheNext
  <2>1. Remembers
    BY <1>3 DEF CacheNext, Remembers
  <2>2. ASSUME NEW w \in Jobs, Moving(w), NEW v \in Jobs \ {w}
        PROVE  Carries(v)'
    <3>1. job'[v] = job[v]
      BY <1>1, <2>2, MovingMoves DEF Moves, Only
    <3>2. Carrying(v) => handoffs'[job[v].hand] = handoffs[job[v].hand]
      BY <1>1, <2>2, OthersHold DEF Carrying
    <3> QED
      BY <2>1, <3>1, <3>2, CarriesStays
  <2>3. ASSUME Restart, NEW v \in Jobs
        PROVE  Carries(v)'
    BY <2>3 DEF Restart, Carries, Caching, Carrying, IdleJob, CallJob, HoldSteps
  <2>4. ASSUME UNCHANGED <<handoffs, job>>, NEW v \in Jobs
        PROVE  Carries(v)'
    BY <2>1, <2>4, CarriesStays
  <2>5. ASSUME NEW v \in Jobs
        PROVE  Carries(v)'
    BY <1>3, <2>1, <2>2, <2>3, <2>4, CarriesWalks
    DEF CacheNext, Next, Moving, KeyLifted, KeyLost
  <2> QED
    BY <1>1, <2>5 DEF CacheInv
<1> QED
  BY <1>2, <1>3

\* The handoff of a follow-up that ran into the quota carries the text Devin never got,
\* through every interleaving of calls, crash and cancellation, unless a sync of the
\* session has replaced the cache between the follow-up's write and its handoff row.
THEOREM TextSound == CacheSpec => []FollowUpCarried
<1>1. ASSUME CacheInit PROVE CacheInv
  BY <1>1, BaseInit DEF CacheInit, CacheInv, Carries, Caching, Carrying, Init, IdleJob,
     CallJob, HoldSteps
<1>2. CacheInv /\ [CacheNext]_cacheVars => CacheInv'
  BY CacheKept
<1>3. CacheInv => FollowUpCarried
  BY DEF CacheInv, Carries, FollowUpCarried
<1> QED
  BY <1>1, <1>2, <1>3, PTL DEF CacheSpec

-----------------------------------------------------------------------------
(* No row is forgotten.                                                    *)

\* A step of w that leaves session s in status creating leaves it a call that opens it.
Minds(w, s) ==
  \/ Opening(w, s)'
  \/ /\ sess[s] # None /\ sess[s].status = "creating"
     /\ ~Opening(w, s)

LEMMA MovingMinds ==
  ASSUME Base, ~MayAbort, NEW w \in Jobs, Moving(w), NEW s \in Sessions,
         sess'[s] # None, sess'[s].status = "creating"
  PROVE  Minds(w, s)
<1>1. Shape(w) /\ s # None
  BY JobsTyped, NotNull
<1>2. CASE Plain(w)
  BY <1>2 DEF Plain, PlainEdges, Minds, Opening, Walks, KeepsRow, KeepsNew
<1>3. CASE Stamps(w)
  BY <1>3 DEF Stamps, StatusEdges, Minds, Opening, Walks, StatusSet, OtherRows
<1>4. CASE Refused(w)
  BY <1>4 DEF Refused, Minds, Opening, Walks, StatusSet, OtherRows
<1>5. CASE Attaches(w)
  BY <1>5 DEF Attaches, Minds, Opening, Walks, RowAttached, OtherRows
<1>6. CASE Over(w)
  BY <1>6 DEF Over, Minds, Opening, Ends, EndSteps, StatusSet, OtherRows
<1>7. CASE Pauses(w) \/ Aborts(w)
  BY <1>7 DEF Pauses, Aborts, Minds, Opening, Walks
<1>8. CASE Begins(w)
  BY <1>8, OnSessionGives DEF Begins, Minds, Opening, OnSession
<1>9. CASE Sets(w)
  <2>1. CASE StartOpen(w)
    BY <2>1, StartOpenGives DEF Minds, Opening, RowInserted, OtherRows
  <2>2. CASE OpenReplacement(w)
    BY <2>2, OpenReplacementGives DEF Minds, Opening, RowInserted, OtherRows
  <2>3. CASE ~StartOpen(w) /\ ~OpenReplacement(w)
    <3>1. sess' = sess /\ job[w].pc \in {"idle", "r_get", "y_get", "pick"}
      BY <1>9, <2>3 DEF Sets, StartTask, Begin, ResumeRead, SyncAnswered, PickKey, At
    <3> QED
      BY <3>1 DEF Minds, Opening
  <2> QED
    BY <2>1, <2>2, <2>3
<1>10. CASE Hands(w)
  <2>1. sess' = sess /\ job[w].pc \in {"handoff", "link", "cleanup"}
    BY <1>10 DEF Hands, CreateHandoff, Link, Cleanup, At
  <2> QED
    BY <2>1 DEF Minds, Opening
<1> QED
  BY <1>2, <1>3, <1>4, <1>5, <1>6, <1>7, <1>8, <1>9, <1>10, MovingKinds DEF Small

\* w is StartTask, on task t.
Starting(w, t) == job[w].op = "start" /\ job[w].task = t

\* A step of w that leaves task t pending leaves it its StartTask.
Starts(w, t) == Starting(w, t)' \/ (tasks[t] = "pending" /\ ~Starting(w, t))

\* StartTask returns, or hands over to the rotation, when it has written the task.
LEMMA MovingStarts ==
  ASSUME Base, ~MayAbort, NEW w \in Jobs, Moving(w), NEW t \in Tasks,
         tasks'[t] = "pending"
  PROVE  Starts(w, t)
<1>1. /\ job[w].pc = "idle" => ~Starting(w, t)
      /\ job[w].pc \in {"f_send", "y_get", "y_replace", "y_status", "r_get"} =>
           job[w].op # "start"
      /\ job[w].pc \notin {"idle", "s_open"} => job[w].task \in Tasks
  BY JobsTyped, NotNull DEF Shape, DyingExists, Starting, IdleJob, CallJob
<1>2. ASSUME job'[w].op = job[w].op, job'[w].task = job[w].task, tasks' = tasks
      PROVE  Starts(w, t)
  BY <1>2 DEF Starts, Starting
<1>3. ASSUME job[w].op # "start", tasks' = tasks
      PROVE  Starts(w, t)
  BY <1>3 DEF Starts, Starting
<1>4. ASSUME NEW st \in {"running", "paused", "failed"}, SetTask(job[w].task, st),
             job[w].pc \notin {"idle", "s_open"}
      PROVE  Starts(w, t)
  BY <1>1, <1>4, JobsTyped DEF Base, TypeOK, Starts, Starting, SetTask
<1>5. CASE Call(w)
  <2>1. ASSUME NEW u \in Tasks, NEW k \in Keys, StartTask(w, u, k)
        PROVE  Starts(w, t)
    <3>1. /\ job[w].pc = "idle"
          /\ job'[w].op = "start" /\ job'[w].task = u
      BY <2>1, StartTaskGives
    <3>2. t # u => tasks'[t] = tasks[t]
      BY <2>1 DEF StartTask, NewTask, SetTask, Base, TypeOK
    <3> QED
      BY <1>1, <3>1, <3>2 DEF Starts, Starting
  <2>2. ASSUME NEW s \in Sessions, NEW op, NEW p, OnSession(w, s, op, p)
        PROVE  Starts(w, t)
    BY <1>1, <2>2 DEF OnSession, Begin, At, Starts
  <2> QED
    BY <1>5, <2>1, <2>2 DEF Call, SendFollowUp, SyncSession, ForceRotate, ResumeSession
<1>6. CASE StartStep(w)
  <2>1. CASE StartFail(w) \/ StartRotate(w) \/ StartRunning(w) \/ StartPause(w)
    BY <1>4, <2>1 DEF StartFail, StartRotate, StartRunning, StartPause, At
  <2>2. CASE StartOpen(w)
    BY <1>2, <2>2, StartOpenGives DEF StartOpen, KeepsCall
  <2>3. CASE StartCreated(w) \/ StartRefused(w) \/ StartExhausted(w) \/ StartAttach(w)
    <3>1. tasks' = tasks
      BY <2>3 DEF StartCreated, StartRefused, StartExhausted, StartAttach
    <3> QED
      BY <1>2, <2>3, <3>1, StartCreatedGives, StartRefusedGives, StartExhaustedGives,
         StartAttachGives DEF Walks, KeepsCall
  <2> QED
    BY <1>6, <2>1, <2>2, <2>3 DEF StartStep
<1>7. CASE CallStep(w)
  BY <1>1, <1>3, <1>7 DEF CallStep, FollowUpOver, FollowUpExhausted, SyncFailed,
     SyncExhausted, SyncAnswered, SyncReplace, SyncStatus, ResumeRead, At
<1>8. CASE RotateStep(w)
  <2>1. CASE NoActiveKey(w) \/ Settle(w)
    BY <1>4, <2>1 DEF NoActiveKey, Settle, At
  <2>2. CASE AlreadyRotated(w) \/ Cleanup(w)
    <3>1. tasks' = tasks
      BY <2>2 DEF AlreadyRotated, Cleanup
    <3> QED
      BY <1>2, <1>3, <2>2, <3>1, AlreadyRotatedGives, CleanupGives DEF Walks, KeepsCall
  <2>3. CASE CreateHandoff(w)
    BY <1>2, <2>3, CreateHandoffGives DEF CreateHandoff
  <2>4. ASSUME NEW k \in Keys, PickKey(w, k)
        PROVE  Starts(w, t)
    BY <1>2, <2>4, PickKeyGives DEF PickKey, KeepsCall
  <2>5. CASE OpenReplacement(w)
    BY <1>2, <2>5, OpenReplacementGives DEF OpenReplacement, KeepsCall
  <2>6. ASSUME NEW next \in {"mark_new", "cleanup"}, CreateFailed(w, next)
        PROVE  Starts(w, t)
    BY <1>2, <2>6, CreateFailedGives DEF CreateFailed, Walks, KeepsCall
  <2>7. CASE Stamp(w) \/ MarkDying(w) \/ Created(w) \/ MarkNew(w) \/ Attach(w)
             \/ Link(w) \/ HandoffDone(w)
    <3>1. tasks' = tasks
      BY <2>7 DEF Stamp, MarkDying, Created, MarkNew, Attach, Link, HandoffDone
    <3> QED
      BY <1>2, <2>7, <3>1, StampGives, MarkDyingGives, CreatedGives, MarkNewGives,
         AttachGives, LinkGives, HandoffDoneGives DEF Walks, KeepsCall
  <2> QED
    BY <1>8, <2>1, <2>2, <2>3, <2>4, <2>5, <2>6, <2>7 DEF RotateStep
<1>9. ~Abort(w)
  BY DEF Abort
<1> QED
  BY <1>5, <1>6, <1>7, <1>8, <1>9 DEF Moving, Step

LEMMA ForgottenKept ==
  ASSUME ~MayAbort, ~MayRestart, Base, NothingForgotten, [Next]_vars
  PROVE  NothingForgotten'
<1>1. ASSUME NEW w \in Jobs, Moving(w)
      PROVE  CreatingOwned' /\ PendingOwned'
  <2>1. \A v \in Jobs \ {w} : job'[v] = job[v]
    BY <1>1, MovingMoves DEF Moves, Only
  <2>2. ASSUME NEW s \in Sessions, sess'[s] # None, sess'[s].status = "creating"
        PROVE  \E v \in Jobs : Opening(v, s)'
    <3>1. Minds(w, s)
      BY <1>1, <2>2, MovingMinds
    <3>2. ASSUME sess[s] # None, sess[s].status = "creating", ~Opening(w, s)
          PROVE  \E v \in Jobs : Opening(v, s)'
      <4>1. PICK v \in Jobs : Opening(v, s)
        BY <3>2 DEF NothingForgotten, CreatingOwned
      <4> QED
        BY <2>1, <3>2, <4>1 DEF Opening
    <3> QED
      BY <3>1, <3>2 DEF Minds
  <2>3. ASSUME NEW t \in Tasks, tasks'[t] = "pending"
        PROVE  \E v \in Jobs : Starting(v, t)'
    <3>1. Starts(w, t)
      BY <1>1, <2>3, MovingStarts
    <3>2. ASSUME tasks[t] = "pending", ~Starting(w, t)
          PROVE  \E v \in Jobs : Starting(v, t)'
      <4>1. PICK v \in Jobs : Starting(v, t)
        BY <3>2 DEF NothingForgotten, PendingOwned, Starting
      <4> QED
        BY <2>1, <3>2, <4>1 DEF Starting
    <3> QED
      BY <3>1, <3>2 DEF Starts
  <2> QED
    BY <2>2, <2>3 DEF CreatingOwned, PendingOwned, Starting
<1>2. CASE UNCHANGED <<tasks, sess, job>>
  BY <1>2 DEF NothingForgotten, CreatingOwned, PendingOwned, Opening
<1> QED
  BY <1>1, <1>2 DEF Next, Moving, Restart, KeyLifted, KeyLost, vars, NothingForgotten

\* No error path of StartTask or rotate forgets the row it inserted: as long as calls
\* run to their end, a session in status creating has a call that opens it, and a
\* pending task its StartTask, whatever calls overlap and whatever Devin answers.
THEOREM ForgottenSound ==
  ASSUME ~MayAbort, ~MayRestart
  PROVE  Spec => []NothingForgotten
<1>1. ASSUME Init PROVE Base /\ NothingForgotten
  <2>1. /\ \A s \in Sessions : sess[s] = None
        /\ \A t \in Tasks : tasks[t] = None
    BY <1>1 DEF Init
  <2> QED
    BY <1>1, <2>1, BaseInit, NotNull
    DEF NothingForgotten, CreatingOwned, PendingOwned, TaskStatuses
<1>2. Base /\ NothingForgotten /\ [Next]_vars => (Base /\ NothingForgotten)'
  BY BaseKept, ForgottenKept
<1> QED
  BY <1>1, <1>2, PTL DEF Spec
=============================================================================
