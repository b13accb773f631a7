------------------------------ MODULE Rotation ------------------------------
(***************************************************************************)
(* Starting a task, following up, polling, and rotating a session to       *)
(* another key (internal/manager: StartTask, SendFollowUp, SyncSession,    *)
(* ForceRotate, ResumeSession and the rotate they share), over the tasks,  *)
(* sessions and handoffs tables.                                           *)
(*                                                                         *)
(* A job is one goroutine inside one of these calls: an HTTP handler, the  *)
(* poller, a schedule.  Its record is the call's local variables, job.pc   *)
(* the statement it is about to run.  One step is one SQL statement, or    *)
(* one answer of the Devin API together with the statement that follows.   *)
(* Keys are only usable or not: KeyPool says how they change.              *)
(***************************************************************************)
EXTENDS Integers, FiniteSets

CONSTANTS
  Tasks,          \* ids of tasks rows
  Keys,           \* ids of keys rows
  Jobs,           \* goroutines
  RemoteStatuses, \* statuses a GetSession answer may map to; "" leaves it alone
  None,           \* SQL NULL, and an unset local variable
  Calls,          \* bound: the calls that are made
  MaxSessions,    \* bound on the sessions table
  MayAbort,       \* a request context may be cancelled or time out
  MayRestart,     \* the process may be killed and started again
  MayLift         \* benched keys may become usable again

TaskStatuses == {"pending", "running", "paused", "failed"}

Sessions   == 1 .. MaxSessions
HandoffIds == 1 .. MaxSessions
Live       == {"creating", "running", "blocked", "handoff_pending"}
Statuses   == Live \cup {"completed", "failed", "quota_exhausted", "handoff_done"}
Rotatable  == Live \cup {"quota_exhausted"}
CallOps    == {"start", "follow", "sync", "manual", "resume"}

\* What statusFromDevin makes of Devin's status words.
RemoteAnswers == {"running", "blocked", "completed", "failed", ""}

ASSUME RemoteAssumption == RemoteStatuses \subseteq RemoteAnswers
ASSUME BoundAssumption == MaxSessions \in Nat /\ Calls \subseteq CallOps
ASSUME SwitchAssumption ==
  MayAbort \in BOOLEAN /\ MayRestart \in BOOLEAN /\ MayLift \in BOOLEAN

VARIABLES
  tasks,    \* the status column of each tasks row, or None
  sess,     \* the sessions table: a row, or None
  handoffs, \* the handoffs table: a row, or None
  unsent,   \* sessions whose message cache holds a user text Devin never got
  usable,   \* keys Pick would choose from
  job       \* what each goroutine is doing

vars == <<tasks, sess, handoffs, unsent, usable, job>>

Ops == CallOps \cup {"aborted"}
StartSteps  == {"s_open", "s_create", "s_fail", "s_run", "s_attach", "s_task", "s_pause"}
CallSteps   == {"f_send", "y_get", "y_replace", "y_status", "r_get"}
RotateSteps == {"stamp", "mark", "handoff", "pick", "open", "create", "mark_new",
                "cleanup", "attach", "link", "done", "settle"}
\* From the INSERT of the handoff row to the UPDATE that links it, or the
\* deferred DELETE.
HoldSteps == {"pick", "open", "create", "mark_new", "cleanup", "attach", "link"}

\* A call about to run statement pc, with the arguments it was made with.
CallJob(pc, op, task, dying, seen, key) ==
  [pc |-> pc, op |-> op, task |-> task, dying |-> dying, seen |-> seen, key |-> key,
   new |-> None, hand |-> None, remote |-> None]

IdleJob == CallJob("idle", None, None, None, None, None)

Session == [task : Tasks, key : Keys, status : Statuses, devin : BOOLEAN]
Handoff == [from : Sessions, to : Sessions \cup {None}, text : BOOLEAN]
Job == [pc     : {"idle"} \cup StartSteps \cup CallSteps \cup RotateSteps,
        op     : Ops \cup {None},
        task   : Tasks \cup {None},
        dying  : Sessions \cup {None},
        seen   : Statuses \cup {None},
        key    : Keys \cup {None},
        new    : Sessions \cup {None},
        hand   : HandoffIds \cup {None},
        remote : RemoteStatuses \cup {None}]

ASSUME NoneAssumption ==
  None \notin (Tasks \cup Keys \cup Nat) \cup TaskStatuses \cup Session \cup Handoff

TypeOK ==
  /\ tasks \in [Tasks -> TaskStatuses \cup {None}]
  /\ sess \in [Sessions -> Session \cup {None}]
  /\ handoffs \in [HandoffIds -> Handoff \cup {None}]
  /\ unsent \subseteq Sessions
  /\ usable \subseteq Keys
  /\ job \in [Jobs -> Job]

Init ==
  /\ tasks = [t \in Tasks |-> None]
  /\ sess = [s \in Sessions |-> None]
  /\ handoffs = [h \in HandoffIds |-> None]
  /\ unsent = {}
  /\ usable = Keys
  /\ job = [w \in Jobs |-> IdleJob]

-----------------------------------------------------------------------------
(* Helpers.                                                                *)

At(w, pc)  == job[w].pc = pc
Goto(w, pc) == job' = [job EXCEPT ![w].pc = pc]
Return(w)  == job' = [job EXCEPT ![w] = IdleJob]

SetSession(s, status) == sess' = [sess EXCEPT ![s].status = status]
SetTask(t, status)    == tasks' = [tasks EXCEPT ![t] = status]

FreeSessions == {s \in Sessions : sess[s] = None}
FreeHandoffs == {h \in HandoffIds : handoffs[h] = None}

\* Bound: a call starts only while a fresh session id is left for every call.
Room == Cardinality(FreeSessions) > Cardinality({w \in Jobs : ~At(w, "idle")})

\* A call begins with these local variables.
Begin(w, locals) ==
  /\ At(w, "idle") /\ Room /\ locals.op \in Calls
  /\ job' = [job EXCEPT ![w] = locals]

\* sessions.Create: a fresh row in status creating, without a Devin id.
Insert(s, t, k) ==
  sess' = [sess EXCEPT ![s] =
             [task |-> t, key |-> k, status |-> "creating", devin |-> FALSE]]

\* Mutant: a status the CHECK constraint does not know.
AttachedOpen(r) == [r EXCEPT !.devin = TRUE, !.status = "open"]

\* AttachDevinSessionID.
Attached(r) == [r EXCEPT !.devin = TRUE, !.status = "running"]

-----------------------------------------------------------------------------
(* StartTask.                                                              *)

\* Pick: its order among the usable keys is left open.
Pickable(k) == k \in usable

\* PickWithPreference.
Picked(k, preferred) == IF Pickable(preferred) THEN k = preferred ELSE Pickable(k)

NewTask(t) == tasks[t] = None /\ SetTask(t, "pending")

\* Pick a key, with or without a preferred one, and insert the pending task.
StartTask(w, t, k) ==
  /\ \E preferred \in Keys \cup {None} : Picked(k, preferred)
  /\ NewTask(t)
  /\ Begin(w, CallJob("s_open", "start", t, None, None, k))
  /\ UNCHANGED <<sess, handoffs, unsent, usable>>

StartOpen(w) ==
  /\ At(w, "s_open")
  /\ \E s \in FreeSessions :
       /\ \A r \in FreeSessions : s <= r
       /\ Insert(s, job[w].task, job[w].key)
       /\ job' = [job EXCEPT ![w].pc = "s_create", ![w].dying = s, ![w].seen = "creating"]
  /\ UNCHANGED <<tasks, handoffs, unsent, usable>>

\* The answer to CreateSession.
StartCreated(w) ==
  /\ At(w, "s_create")
  /\ Goto(w, "s_attach")
  /\ UNCHANGED <<tasks, sess, handoffs, unsent, usable>>

StartRefused(w) ==
  /\ At(w, "s_create")
  /\ SetSession(job[w].dying, "failed")
  /\ Goto(w, "s_fail")
  /\ UNCHANGED <<tasks, handoffs, unsent, usable>>

StartExhausted(w) ==
  /\ At(w, "s_create")
  /\ SetSession(job[w].dying, "quota_exhausted")
  /\ Goto(w, "s_run")
  /\ UNCHANGED <<tasks, handoffs, unsent, usable>>

StartFail(w) ==
  /\ At(w, "s_fail")
  /\ SetTask(job[w].task, "failed")
  /\ Return(w)
  /\ UNCHANGED <<sess, handoffs, unsent, usable>>

\* First-try quota: the task runs on while its first session is rotated.
StartRotate(w) ==
  /\ At(w, "s_run")
  /\ SetTask(job[w].task, "running")
  /\ Goto(w, "stamp")
  /\ UNCHANGED <<sess, handoffs, unsent, usable>>

StartAttach(w) ==
  /\ At(w, "s_attach")
  /\ sess' = [sess EXCEPT ![job[w].dying] = Attached(@)]
  /\ Goto(w, "s_task")
  /\ UNCHANGED <<tasks, handoffs, unsent, usable>>

StartRunning(w) ==
  /\ At(w, "s_task")
  /\ SetTask(job[w].task, "running")
  /\ Return(w)
  /\ UNCHANGED <<sess, handoffs, unsent, usable>>

StartPause(w) ==
  /\ At(w, "s_pause")
  /\ SetTask(job[w].task, "paused")
  /\ Return(w)
  /\ UNCHANGED <<sess, handoffs, unsent, usable>>

StartStep(w) ==
  \/ StartOpen(w) \/ StartCreated(w) \/ StartRefused(w) \/ StartExhausted(w)
  \/ StartFail(w) \/ StartRotate(w) \/ StartAttach(w) \/ StartRunning(w)
  \/ StartPause(w)

-----------------------------------------------------------------------------
(* SendFollowUp, SyncSession, ForceRotate, ResumeSession.  Each reads the  *)
(* session row once and works with that copy from then on.                 *)

\* A call on session s whose row is read now.
OnSession(w, s, op, pc) ==
  /\ sess[s] # None
  /\ Begin(w, CallJob(pc, op, sess[s].task, s, sess[s].status, None))
  /\ UNCHANGED <<tasks, sess, handoffs, unsent, usable>>

SendFollowUp(w, s) ==
  sess[s] # None /\ sess[s].devin /\ OnSession(w, s, "follow", "f_send")

\* Sent, or refused for another reason than quota: nothing more to do.
FollowUpOver(w) ==
  /\ At(w, "f_send")
  /\ Return(w)
  /\ UNCHANGED <<tasks, sess, handoffs, unsent, usable>>

\* Mutant: the text is not cached before the rotation.
FollowUpNotCached(w) ==
  At(w, "f_send") /\ Goto(w, "stamp") /\ UNCHANGED <<tasks, sess, handoffs, unsent, usable>>

\* Quota: the text goes into the cache, then the session is rotated.
FollowUpExhausted(w) ==
  /\ At(w, "f_send")
  /\ unsent' = unsent \cup {job[w].dying}
  /\ Goto(w, "stamp")
  /\ UNCHANGED <<tasks, sess, handoffs, usable>>

\* The poller's turn for an active session, or the refresh button on any.
SyncSession(w, s) ==
  sess[s] # None /\ sess[s].devin /\ OnSession(w, s, "sync", "y_get")

SyncFailed(w) ==
  /\ At(w, "y_get")
  /\ Return(w)
  /\ UNCHANGED <<tasks, sess, handoffs, unsent, usable>>

SyncExhausted(w) ==
  /\ At(w, "y_get")
  /\ Goto(w, "stamp")
  /\ UNCHANGED <<tasks, sess, handoffs, unsent, usable>>

SyncAnswered(w, r) ==
  /\ At(w, "y_get")
  /\ job' = [job EXCEPT ![w].pc = "y_replace", ![w].remote = r]
  /\ UNCHANGED <<tasks, sess, handoffs, unsent, usable>>

\* ReplaceMessages: the cache becomes what Devin has.
SyncReplace(w) ==
  /\ At(w, "y_replace")
  /\ unsent' = unsent \ {job[w].dying}
  /\ Goto(w, "y_status")
  /\ UNCHANGED <<tasks, sess, handoffs, usable>>

SyncStatus(w) ==
  /\ At(w, "y_status")
  /\ IF job[w].remote = "" THEN UNCHANGED sess ELSE SetSession(job[w].dying, job[w].remote)
  /\ Return(w)
  /\ UNCHANGED <<tasks, handoffs, unsent, usable>>

ForceRotate(w, s) ==
  /\ sess[s] # None /\ sess[s].status \in Rotatable
  /\ OnSession(w, s, "manual", "stamp")

\* A call that is opening session s on Devin's side.
Opening(w, s) ==
  \/ job[w].dying = s /\ job[w].pc \in {"s_create", "s_attach"}
  \/ job[w].new = s /\ job[w].pc \in {"create", "attach"}

\* DiagnoseSession recommends a handoff; its other recommendation is a
\* SendFollowUp.  A creating session has to be five minutes old, longer than
\* any call lasts.
ResumeSession(w, s) ==
  /\ sess[s] # None /\ sess[s].status \in {"failed", "quota_exhausted", "creating"}
  /\ sess[s].status = "creating" => ~\E v \in Jobs : Opening(v, s)
  /\ OnSession(w, s, "resume", "r_get")

\* The second read of the row.
ResumeRead(w) ==
  /\ At(w, "r_get")
  /\ job' = [job EXCEPT ![w].pc = "stamp", ![w].seen = sess[job[w].dying].status]
  /\ UNCHANGED <<tasks, sess, handoffs, unsent, usable>>

CallStep(w) ==
  \/ FollowUpOver(w) \/ FollowUpExhausted(w)
  \/ SyncFailed(w) \/ SyncExhausted(w) \/ SyncReplace(w) \/ SyncStatus(w)
  \/ \E r \in RemoteStatuses : SyncAnswered(w, r)
  \/ ResumeRead(w)

-----------------------------------------------------------------------------
(* rotate.                                                                 *)

Manual(w) == job[w].op = "manual"

\* StartTask pauses its task when rotate fails; the other callers only log.
GiveUp(w) == IF job[w].op = "start" THEN Goto(w, "s_pause") ELSE Return(w)

\* The guard looks at the copy of the row the caller read.
AlreadyRotated(w) ==
  /\ At(w, "stamp")
  /\ job[w].seen = "handoff_done"
  /\ GiveUp(w)
  /\ UNCHANGED <<tasks, sess, handoffs, unsent, usable>>

\* Mutant: the guard looks at no status.
StampUnguarded(w) ==
  /\ At(w, "stamp")
  /\ SetSession(job[w].dying, IF Manual(w) THEN "handoff_pending" ELSE "quota_exhausted")
  /\ Goto(w, IF Manual(w) THEN "handoff" ELSE "mark")
  /\ UNCHANGED <<tasks, handoffs, unsent, usable>>

Stamp(w) ==
  /\ At(w, "stamp")
  /\ job[w].seen # "handoff_done"
  /\ SetSession(job[w].dying, IF Manual(w) THEN "handoff_pending" ELSE "quota_exhausted")
  /\ Goto(w, IF Manual(w) THEN "handoff" ELSE "mark")
  /\ UNCHANGED <<tasks, handoffs, unsent, usable>>

\* Mutant: the exhausted key is not benched.
MarkDyingSkipped(w) ==
  At(w, "mark") /\ Goto(w, "handoff") /\ UNCHANGED <<tasks, sess, handoffs, unsent, usable>>

MarkDying(w) ==
  /\ At(w, "mark")
  /\ usable' = usable \ {sess[job[w].dying].key}
  /\ Goto(w, "handoff")
  /\ UNCHANGED <<tasks, sess, handoffs, unsent>>

\* The markdown has every cached message: whether the undelivered one is among them.
Transcript(w) == job[w].dying \in unsent

\* The statements on the handoffs table.
NewHandoff(w) == [from |-> job[w].dying, to |-> None, text |-> Transcript(w)]
LinkTo(w)     == handoffs' = [handoffs EXCEPT ![job[w].hand].to = job[w].new]
Remove(w)     == handoffs' = [handoffs EXCEPT ![job[w].hand] = None]

\* The cache is read and the row inserted.
CreateHandoff(w) ==
  /\ At(w, "handoff")
  /\ \E h \in FreeHandoffs :
       /\ \A g \in FreeHandoffs : h <= g
       /\ handoffs' = [handoffs EXCEPT ![h] = NewHandoff(w)]
       /\ job' = [job EXCEPT ![w].pc = "pick", ![w].hand = h]
  /\ UNCHANGED <<tasks, sess, unsent, usable>>

PickKey(w, k) ==
  /\ At(w, "pick")
  /\ Pickable(k)
  /\ job' = [job EXCEPT ![w].pc = "open", ![w].key = k]
  /\ UNCHANGED <<tasks, sess, handoffs, unsent, usable>>

NoActiveKey(w) ==
  /\ At(w, "pick")
  /\ usable = {}
  /\ SetTask(job[w].task, "paused")
  /\ Goto(w, "cleanup")
  /\ UNCHANGED <<sess, handoffs, unsent, usable>>

OpenReplacement(w) ==
  /\ At(w, "open")
  /\ \E s \in FreeSessions :
       /\ \A r \in FreeSessions : s <= r
       /\ Insert(s, job[w].task, job[w].key)
       /\ job' = [job EXCEPT ![w].pc = "create", ![w].new = s]
  /\ UNCHANGED <<tasks, handoffs, unsent, usable>>

Created(w) ==
  /\ At(w, "create")
  /\ Goto(w, "attach")
  /\ UNCHANGED <<tasks, sess, handoffs, unsent, usable>>

\* Mutant: the refused session is left in status creating.
CreateFailedSilent(w, next) ==
  At(w, "create") /\ Goto(w, next) /\ UNCHANGED <<tasks, sess, handoffs, unsent, usable>>

\* next is mark_new for a quota answer, cleanup for any other error.
CreateFailed(w, next) ==
  /\ At(w, "create")
  /\ SetSession(job[w].new, "failed")
  /\ Goto(w, next)
  /\ UNCHANGED <<tasks, handoffs, unsent, usable>>

MarkNew(w) ==
  /\ At(w, "mark_new")
  /\ usable' = usable \ {job[w].key}
  /\ Goto(w, "cleanup")
  /\ UNCHANGED <<tasks, sess, handoffs, unsent>>

\* Mutant: the cleanup runs on the cancelled context and deletes nothing.
CleanupCancelled(w) ==
  At(w, "cleanup") /\ GiveUp(w) /\ UNCHANGED <<tasks, sess, handoffs, unsent, usable>>

\* The deferred DELETE of an unlinked handoff; it runs on a context of its own.
Cleanup(w) ==
  /\ At(w, "cleanup")
  /\ Remove(w)
  /\ GiveUp(w)
  /\ UNCHANGED <<tasks, sess, unsent, usable>>

\* Mutant: the old session is closed without linking the handoff.
AttachUnlinked(w) ==
  /\ At(w, "attach")
  /\ sess' = [sess EXCEPT ![job[w].new] = Attached(@)]
  /\ Goto(w, "done")
  /\ UNCHANGED <<tasks, handoffs, unsent, usable>>

Attach(w) ==
  /\ At(w, "attach")
  /\ sess' = [sess EXCEPT ![job[w].new] = Attached(@)]
  /\ Goto(w, "link")
  /\ UNCHANGED <<tasks, handoffs, unsent, usable>>

\* Mutant: linkedOK is not set, the deferred cleanup still runs.
LinkUnflagged(w) ==
  /\ At(w, "link")
  /\ LinkTo(w)
  /\ Goto(w, "cleanup")
  /\ UNCHANGED <<tasks, sess, unsent, usable>>

Link(w) ==
  /\ At(w, "link")
  /\ LinkTo(w)
  /\ Goto(w, "done")
  /\ UNCHANGED <<tasks, sess, unsent, usable>>

HandoffDone(w) ==
  /\ At(w, "done")
  /\ SetSession(job[w].dying, "handoff_done")
  /\ Goto(w, "settle")
  /\ UNCHANGED <<tasks, handoffs, unsent, usable>>

Settle(w) ==
  /\ At(w, "settle")
  /\ SetTask(job[w].task, "running")
  /\ Return(w)
  /\ UNCHANGED <<sess, handoffs, unsent, usable>>

RotateStep(w) ==
  \/ AlreadyRotated(w) \/ Stamp(w) \/ MarkDying(w) \/ CreateHandoff(w)
  \/ NoActiveKey(w) \/ \E k \in Keys : PickKey(w, k)
  \/ OpenReplacement(w) \/ Created(w)
  \/ \E next \in {"mark_new", "cleanup"} : CreateFailed(w, next)
  \/ MarkNew(w) \/ Cleanup(w) \/ Attach(w) \/ Link(w) \/ HandoffDone(w) \/ Settle(w)

-----------------------------------------------------------------------------
(* The environment.                                                        *)

\* The call's context is cancelled (the browser went away) or times out: every
\* statement left fails, except the deferred DELETE.
Abort(w) ==
  /\ MayAbort
  /\ ~At(w, "idle") /\ ~At(w, "cleanup")
  /\ IF job[w].pc \in HoldSteps
     THEN job' = [job EXCEPT ![w].pc = "cleanup", ![w].op = "aborted"]
     ELSE Return(w)
  /\ UNCHANGED <<tasks, sess, handoffs, unsent, usable>>

Restart ==
  /\ MayRestart
  /\ job' = [w \in Jobs |-> IdleJob]
  /\ UNCHANGED <<tasks, sess, handoffs, unsent, usable>>

\* The reactivator or a checker makes a key usable again; a checker benches it.
KeyLifted(k) ==
  /\ MayLift
  /\ usable' = usable \cup {k}
  /\ UNCHANGED <<tasks, sess, handoffs, unsent, job>>

KeyLost(k) ==
  /\ usable' = usable \ {k}
  /\ UNCHANGED <<tasks, sess, handoffs, unsent, job>>

-----------------------------------------------------------------------------
Call(w) ==
  \/ \E t \in Tasks, k \in Keys : StartTask(w, t, k)
  \/ \E s \in Sessions : SendFollowUp(w, s) \/ SyncSession(w, s)
                         \/ ForceRotate(w, s) \/ ResumeSession(w, s)

Step(w) == StartStep(w) \/ CallStep(w) \/ RotateStep(w)

Next ==
  \/ \E w \in Jobs : Call(w) \/ Step(w) \/ Abort(w)
  \/ Restart
  \/ \E k \in Keys : KeyLifted(k) \/ KeyLost(k)

Spec == Init /\ [][Next]_vars

\* A goroutine that is inside a call keeps running.  Nobody has to make a call.
Fairness == \A w \in Jobs : WF_vars(Step(w))
-----------------------------------------------------------------------------
(* Properties.                                                             *)

Linked(h) == handoffs[h] # None /\ handoffs[h].to # None
Holds(w, h) == job[w].hand = h /\ job[w].pc \in HoldSteps

\* A linked handoff leads to a session of the same task that was opened on Devin's
\* side, and that was created after the one it came from.
ChainForward ==
  \A h \in HandoffIds :
    Linked(h) => LET old == handoffs[h].from
                     new == handoffs[h].to
                 IN /\ sess[old] # None /\ sess[new] # None
                    /\ sess[new].devin
                    /\ sess[new].task = sess[old].task
                    /\ old < new

OneParent ==
  \A g, h \in HandoffIds : Linked(g) /\ Linked(h) /\ handoffs[g].to = handoffs[h].to => g = h

HandedOffHasSuccessor ==
  \A s \in Sessions :
    sess[s] # None /\ sess[s].status = "handoff_done"
      => \E h \in HandoffIds : Linked(h) /\ handoffs[h].from = s

\* The linked handoffs of a task are a chain that a reader can follow, whatever calls
\* overlap and wherever the process dies: they lead forward to opened sessions of the
\* same task, no session is the target of two (GetForSession assumes it), and a
\* session marked handoff_done has a successor.
LinkedChain == ChainForward /\ OneParent /\ HandedOffHasSuccessor

\* A session in status creating has a call at work on it, unless calls are cut
\* short: no error path of StartTask or rotate forgets the row it inserted.
CreatingOwned ==
  \A s \in Sessions :
    sess[s] # None /\ sess[s].status = "creating" => \E w \in Jobs : Opening(w, s)

\* "If anything fails after the local task is inserted, the task is left in
\* state 'failed'" (StartTask): a pending task has a StartTask at work on it.
PendingOwned ==
  \A t \in Tasks :
    tasks[t] = "pending" => \E w \in Jobs : job[w].op = "start" /\ job[w].task = t

\* The two together: no path through the calls forgets a row.
NothingForgotten == CreatingOwned /\ PendingOwned

\* Every handoff row is eventually linked or removed.
HandoffsSettle ==
  \A h \in HandoffIds : (handoffs[h] # None /\ ~Linked(h)) ~> (handoffs[h] = None \/ Linked(h))
=============================================================================
