----------------------------- MODULE Scheduler -----------------------------
(***************************************************************************)
(* Recurring and one-off tasks: the schedules table                        *)
(* (internal/schedules), the loop that fires due rows (internal/scheduler) *)
(* and the pages that create, toggle, delete and "run now"                 *)
(* (internal/web/schedules.go).                                            *)
(*                                                                         *)
(* Each SQL statement is one step; a statement that only looks up columns  *)
(* nothing ever changes (Claim's and MarkRan's Get) is folded into the     *)
(* UPDATE after it.  Time is in abstract ticks.  What a firing does to     *)
(* tasks and sessions is StartTask, in module Rotation.                    *)
(***************************************************************************)
EXTENDS LocalTime, FiniteSets

CONSTANTS
  Schedules,   \* ids of rows: fresh UUIDs, never reused
  TickRuns,    \* goroutines of ProcessDue, at least one per schedule
  ManualRuns,  \* goroutines of "run now"
  Togglers,    \* requests inside the toggle handler
  None,        \* SQL NULL, an idle goroutine
  Gone,        \* a deleted row
  Kinds,       \* the kinds of schedules created
  Interval,    \* interval_seconds, in ticks
  Slot,        \* ticks between two times a cron schedule matches
  Day,         \* 24 hours, in ticks
  DailyAt,     \* the time of day of a daily schedule
  Zone,        \* the local clock of the process: see LocalTime
  Far,         \* the 1000 days a one-off is pushed ahead
  FireTimes,   \* the fire_at values of one-offs
  MaxTime,     \* bound on the clock
  MayRestart   \* the process may be killed and started again

Runs == TickRuns \cup ManualRuns

AllKinds == {"interval", "daily", "cron", "oneoff"}

Row     == [kind : AllKinds, enabled : BOOLEAN, next : Int]
Pass    == [at : 0 .. MaxTime, due : SUBSET Schedules]
Request == [sched : Schedules, to : BOOLEAN]

ASSUME KindAssumption == Kinds \subseteq AllKinds
ASSUME NoneAssumption ==
  /\ None # Gone
  /\ {None, Gone} \cap Schedules = {} /\ {None, Gone} \cap Row = {}
  /\ None \notin Pass /\ None \notin Request
ASSUME TimeAssumption ==
  /\ {Interval, Slot, Day} \subseteq Nat \ {0}
  /\ MaxTime \in Nat /\ Far \in Nat /\ Far > MaxTime
  /\ FireTimes \subseteq Nat
\* A clock is set forward by a day at most.
ASSUME ClockAssumption ==
  /\ DailyAt \in 0 .. Day - 1
  /\ Zone \in [at : Int, before : Int, after : Int]
  /\ Zone.after - Zone.before <= Day
ASSUME RunsAssumption == TickRuns \cap ManualRuns = {}
ASSUME SwitchAssumption == MayRestart \in BOOLEAN

VARIABLES
  now,    \* the clock
  rows,   \* the schedules table: a row, None before Create, Gone after Delete
  tick,   \* the pass of ProcessDue under way: its time and the rows left, or None
  run,    \* per goroutine: the schedule it is firing, or None
  toggle  \* per request: the schedule and the value it is going to write, or None

vars == <<now, rows, tick, run, toggle>>

TypeOK ==
  /\ now \in 0 .. MaxTime
  /\ rows \in [Schedules -> Row \cup {None, Gone}]
  /\ tick \in Pass \cup {None}
  /\ run \in [Runs -> Schedules \cup {None}]
  /\ toggle \in [Togglers -> Request \cup {None}]

Init ==
  /\ now = 0
  /\ rows = [s \in Schedules |-> None]
  /\ tick = None
  /\ run = [f \in Runs |-> None]
  /\ toggle = [u \in Togglers |-> None]

Present(s) == rows[s] \notin {None, Gone}

-----------------------------------------------------------------------------
(* ComputeNextRunFull.                                                     *)

\* Cron.Next: the first matching minute strictly after t.
NextSlot(t) == Slot * (t \div Slot + 1)

\* For a new row: the anchor is the zero time.
FirstRuns(kind, fireAt) ==
  CASE kind = "interval" -> {now + Interval}
    [] kind = "daily"    -> DailyRuns(Zone, Day, DailyAt, now)
    [] kind = "cron"     -> {NextSlot(now)}
    [] kind = "oneoff"   -> {fireAt}

\* Mutant: a slot need not be strictly later.
NextRunsSlotStart(kind, t) ==
  CASE kind = "interval" -> {t + Interval}
    [] kind = "daily"    -> DailyRuns(Zone, Day, DailyAt, t)
    [] kind = "cron"     -> {Slot * (t \div Slot)}
    [] kind = "oneoff"   -> {t + Far}

\* After a firing: the anchor is the time t itself.
NextRuns(kind, t) ==
  CASE kind = "interval" -> {t + Interval}
    [] kind = "daily"    -> DailyRuns(Zone, Day, DailyAt, t)
    [] kind = "cron"     -> {NextSlot(t)}
    [] kind = "oneoff"   -> {t + Far}

-----------------------------------------------------------------------------
(* The clock and the pages.                                                *)

Clock ==
  /\ now < MaxTime
  /\ now' = now + 1
  /\ UNCHANGED <<rows, tick, run, toggle>>

Create(s, kind, fireAt) ==
  /\ rows[s] = None
  /\ \E next \in FirstRuns(kind, fireAt) :
       rows' = [rows EXCEPT ![s] = [kind |-> kind, enabled |-> TRUE, next |-> next]]
  /\ UNCHANGED <<now, tick, run, toggle>>

Delete(s) ==
  /\ Present(s)
  /\ rows' = [rows EXCEPT ![s] = Gone]
  /\ UNCHANGED <<now, tick, run, toggle>>

\* The handler reads the row, then writes the opposite of what it read.
ToggleRead(u, s) ==
  /\ toggle[u] = None
  /\ Present(s)
  /\ toggle' = [toggle EXCEPT ![u] = [sched |-> s, to |-> ~rows[s].enabled]]
  /\ UNCHANGED <<now, rows, tick, run>>

SetEnabled(u) ==
  /\ toggle[u] # None
  /\ LET s == toggle[u].sched
     IN  rows' = IF Present(s) THEN [rows EXCEPT ![s].enabled = toggle[u].to] ELSE rows
  /\ toggle' = [toggle EXCEPT ![u] = None]
  /\ UNCHANGED <<now, tick, run>>

\* "Run now" starts a goroutine for any row, due or not, enabled or not.
RunNow(f, s) ==
  /\ f \in ManualRuns /\ run[f] = None
  /\ Present(s)
  /\ run' = [run EXCEPT ![f] = s]
  /\ UNCHANGED <<now, rows, tick, toggle>>

-----------------------------------------------------------------------------
(* ProcessDue.                                                             *)

IsDue(s, t) == Present(s) /\ rows[s].enabled /\ rows[s].next <= t

\* DueBefore.
TickStart ==
  /\ tick = None
  /\ tick' = [at |-> now, due |-> {s \in Schedules : IsDue(s, now)}]
  /\ UNCHANGED <<now, rows, run, toggle>>

Handled(s) == tick' = [tick EXCEPT !.due = @ \ {s}]

\* Mutant: the row is checked but not moved on, that is left to MarkRan.
ClaimWonUnmoved(s, f) ==
  /\ tick # None /\ s \in tick.due
  /\ IsDue(s, tick.at)
  /\ f \in TickRuns /\ run[f] = None
  /\ run' = [run EXCEPT ![f] = s]
  /\ Handled(s)
  /\ UNCHANGED <<now, rows, toggle>>

\* Claim: the conditional UPDATE decides, not the row DueBefore returned.  The
\* order of the claims of a pass is left open.
ClaimWon(s, f) ==
  /\ tick # None /\ s \in tick.due
  /\ IsDue(s, tick.at)
  /\ f \in TickRuns /\ run[f] = None
  /\ \E next \in NextRuns(rows[s].kind, tick.at) :
       rows' = [rows EXCEPT ![s].next = next]
  /\ run' = [run EXCEPT ![f] = s]
  /\ Handled(s)
  /\ UNCHANGED <<now, toggle>>

ClaimLost(s) ==
  /\ tick # None /\ s \in tick.due
  /\ ~IsDue(s, tick.at)
  /\ Handled(s)
  /\ UNCHANGED <<now, rows, run, toggle>>

\* Mutant: the pass does not wait for its goroutines.
PassOverEarly ==
  /\ tick # None /\ tick.due = {}
  /\ tick' = None
  /\ UNCHANGED <<now, rows, run, toggle>>

\* wg.Wait.
PassOver ==
  /\ tick # None /\ tick.due = {}
  /\ \A f \in TickRuns : run[f] = None
  /\ tick' = None
  /\ UNCHANGED <<now, rows, run, toggle>>

-----------------------------------------------------------------------------
(* fire and runScheduleAsync, once StartScheduledTask has returned.        *)

\* Mutant: a one-off is only disabled.
RanNotPushed(r, next) ==
  [r EXCEPT !.next = IF r.kind = "oneoff" THEN @ ELSE next,
            !.enabled = @ /\ r.kind # "oneoff"]

\* MarkRan's UPDATE, after success and after failure alike.
Ran(r, next) == [r EXCEPT !.next = next, !.enabled = @ /\ r.kind # "oneoff"]

MarkRan(f) ==
  /\ run[f] # None
  /\ LET s == run[f]
     IN  IF Present(s)
         THEN \E next \in NextRuns(rows[s].kind, now) :
                rows' = [rows EXCEPT ![s] = Ran(rows[s], next)]
         ELSE UNCHANGED rows
  /\ run' = [run EXCEPT ![f] = None]
  /\ UNCHANGED <<now, tick, toggle>>

\* The call has used up its two minutes, and MarkRan fails on the same context.
MarkRanFailed(f) ==
  /\ run[f] # None
  /\ run' = [run EXCEPT ![f] = None]
  /\ UNCHANGED <<now, rows, tick, toggle>>

Restart ==
  /\ MayRestart
  /\ tick' = None
  /\ run' = [f \in Runs |-> None]
  /\ toggle' = [u \in Togglers |-> None]
  /\ UNCHANGED <<now, rows>>

-----------------------------------------------------------------------------
Pages ==
  \/ \E s \in Schedules : \/ \E kind \in Kinds, t \in FireTimes : Create(s, kind, t)
                          \/ Delete(s)
  \/ \E s \in Schedules, u \in Togglers : ToggleRead(u, s)
  \/ \E u \in Togglers : SetEnabled(u)
  \/ \E s \in Schedules, f \in ManualRuns : RunNow(f, s)

Claim(s) == ClaimLost(s) \/ \E f \in TickRuns : ClaimWon(s, f)
Finish(f) == MarkRan(f) \/ MarkRanFailed(f)

Work ==
  \/ Clock \/ Pages \/ TickStart \/ PassOver
  \/ \E s \in Schedules : Claim(s)
  \/ \E f \in Runs : Finish(f)

Next == Work \/ Restart

Spec == Init /\ [][Next]_vars

\* Time passes, the loop runs on and every Devin call returns within its two minutes.
Fairness ==
  /\ WF_vars(Clock) /\ WF_vars(TickStart) /\ WF_vars(PassOver)
  /\ \A s \in Schedules : WF_vars(Claim(s))
  /\ \A f \in Runs : WF_vars(Finish(f))
-----------------------------------------------------------------------------
(* Properties.                                                             *)

\* The scheduler never has two firings of one schedule in flight, however long
\* a firing takes and however short the interval is (ProcessDue's claim and its
\* wait for the goroutines of a pass).
OneTickFiring ==
  \A f, g \in TickRuns : run[f] # None /\ run[f] = run[g] => f = g

\* A slow, failed or timed-out firing of one schedule does not keep the others
\* (or itself) from firing: a due row does not stay due.
DueIsHandled == \A s \in Schedules : IsDue(s, now) ~> ~IsDue(s, now)
=============================================================================
