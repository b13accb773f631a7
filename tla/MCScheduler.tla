---------------------------- MODULE MCScheduler ----------------------------
(***************************************************************************)
(* Scheduler with history variables: when ProcessDue claimed each          *)
(* schedule, and which one-offs MarkRan has recorded as run.               *)
(***************************************************************************)
EXTENDS Scheduler

CONSTANT MaxRestarts \* bound: liveness is about the time after the last restart

ASSUME RestartsAssumption == MaxRestarts \in Nat

\* The clock is set back at 1: the first date has an hour more than 24, the tick at 1.
MCZone == [at |-> 1, before |-> 1, after |-> 0]

VARIABLES
  claims,  \* per schedule: the times of the passes that claimed it
  ran,     \* one-offs MarkRan has written
  restarts \* restarts so far

historyVars == <<vars, claims, ran, restarts>>

\* The schedule a step of the loop starts to fire.
StartedBy(s, f) == f \in TickRuns /\ run[f] = None /\ run'[f] = s

HistoryInit ==
  Init /\ claims = [s \in Schedules |-> {}] /\ ran = {} /\ restarts = 0

HistoryNext ==
  /\ \/ Work /\ UNCHANGED restarts
     \/ Restart /\ restarts < MaxRestarts /\ restarts' = restarts + 1
  /\ claims' = [s \in Schedules |->
       IF \E f \in TickRuns : StartedBy(s, f) THEN claims[s] \cup {tick.at} ELSE claims[s]]
  /\ ran' = ran \cup {s \in Schedules : /\ Present(s) /\ rows[s].kind = "oneoff"
                                       /\ \E f \in Runs : run[f] = s /\ MarkRan(f)}

HistorySpec     == HistoryInit /\ [][HistoryNext]_historyVars
FairHistorySpec == HistorySpec /\ Fairness

\* The dates on which the clock is set back, from the one it shows afterwards to the one
\* it showed before.
LongDates == (Zone.at + Zone.after) \div Day .. (Zone.at - 1 + Zone.before) \div Day

\* What is left of such a date 24 hours after its DailyAt.
ExtraHours(t) ==
  \E date \in LongDates :
    t \in (date + 1) * Day + DailyAt - Zone.before .. (date + 1) * Day - Zone.after - 1

\* next_run_at never falls back to a time the loop has already claimed, whatever
\* a late MarkRan, a crash between claim and MarkRan, or a manual run writes: no
\* slot is fired by two passes ("so we don't replay-storm the same task", Claim). The
\* exception is a daily schedule claimed in the extra hours of a date whose clock is set
\* back, 24 hours after its time of that day: its next run may not be later, and then it
\* is fired pass after pass.
NextAfterClaim ==
  \A s \in Schedules : Present(s) =>
    \A t \in claims[s] :
      t < rows[s].next \/ (rows[s].kind = "daily" /\ ExtraHours(t))

OneoffOnce ==
  \A s \in Schedules :
    Present(s) /\ rows[s].kind = "oneoff" => \A t, u \in claims[s] : t = u

OneoffRetired ==
  [][\A s \in ran :
       Present(s) /\ rows[s].kind = "oneoff" => claims'[s] = claims[s]]_historyVars

\* "One-off schedules disable themselves once fired so the scheduler never picks them
\* up again" (MarkRan): the loop fires one at most once, through crashes before MarkRan
\* and users who enable it again, and not at all after a manual run, whatever pass was
\* under way.
OneoffFinal == []OneoffOnce /\ OneoffRetired
=============================================================================
