------------------------------ MODULE KeyPool ------------------------------
(***************************************************************************)
(* The pool of Devin API keys and everything that writes a key's state:    *)
(*                                                                         *)
(*   internal/keys/cooldown.go        MarkQuotaExhausted, Reactivate       *)
(*   internal/keys/keys.go            Create, Delete, ApplyCheckOutcome    *)
(*   internal/manager/checker.go      the hourly sweep and "check now"     *)
(*   internal/manager/reactivator.go  the sweep that lifts cooldowns       *)
(*                                                                         *)
(* Each SQL statement (or transaction) is one step.  MarkQuotaExhausted    *)
(* and the checker read a row, do something else, and write the row later: *)
(* each is a read action and a write action, and any other goroutine may   *)
(* run in between.                                                         *)
(***************************************************************************)
EXTENDS Integers, FiniteSets

CONSTANTS
  Keys,               \* ids of key rows; an id is a fresh UUID, never reused
  Markers,            \* goroutines inside MarkQuotaExhausted
  Checkers,           \* goroutines inside checkOne / CheckAllKeys
  Outcomes,           \* the answers a Validate probe may get
  None,               \* SQL NULL, and an idle goroutine
  DailyCooldown,      \* dailyCooldown, in ticks
  WeeklyCooldown,     \* weeklyCooldown, in ticks
  DailyCyclesPerWeek, \* dailyCyclesPerWeek
  MaxLag,             \* bound: ticks between a goroutine's read and its write
  MaxCycles,          \* bound on daily_cycles_used_this_week
  Horizon,            \* bound: no new read starts after this time
  MaxTime             \* bound on the clock

Transient == {"rate_limited", "network_error", "api_error"}
Answers   == {"valid", "unauthorized", "quota_exhausted"} \cup Transient
Cooldowns == {"cooldown_daily", "cooldown_weekly"}
States    == {"active", "dead"} \cup Cooldowns

ASSUME NoneAssumption == None \notin Nat
ASSUME OutcomeAssumption == Outcomes \subseteq Answers
ASSUME NumberAssumption ==
  /\ DailyCooldown \in Nat /\ WeeklyCooldown \in Nat
  /\ DailyCooldown <= WeeklyCooldown
  /\ DailyCyclesPerWeek \in Nat
  /\ MaxLag \in Nat /\ MaxCycles \in Nat /\ Horizon \in Nat /\ MaxTime \in Nat

VARIABLES
  now,    \* the clock every r.now() reads
  rows,   \* the keys table
  opened, \* keys referenced by a sessions row (a foreign key without cascade)
  mark,   \* per marker: the row it read and when, or None
  seen    \* per checker and key: the state it read and when, or None

vars == <<now, rows, opened, mark, seen>>

Times == Nat \cup {None}
Row   == [state : States \cup {"unborn", "deleted"}, until : Times,
          cycles : Nat, weekReset : Times]
Marking == [key : Keys, row : Row, at : Nat]
Sighting == [state : States, at : Nat]

TypeOK ==
  /\ now \in Nat
  /\ rows \in [Keys -> Row]
  /\ opened \subseteq Keys
  /\ mark \in [Markers -> Marking \cup {None}]
  /\ seen \in [Checkers -> [Keys -> Sighting \cup {None}]]

Present(k) == rows[k].state \in States

\* What a timer column means to a query "... IS NOT NULL AND ... <= now".
Expired(t) == t # None /\ t <= now

-----------------------------------------------------------------------------
(* The rows table and the clock.                                           *)

Unborn == [state |-> "unborn", until |-> None, cycles |-> 0, weekReset |-> None]

Init ==
  /\ now = 0
  /\ rows = [k \in Keys |-> Unborn]
  /\ opened = {}
  /\ mark = [w \in Markers |-> None]
  /\ seen = [c \in Checkers |-> [k \in Keys |-> None]]

\* A read and its write are seconds apart, a cooldown is a day: time does not
\* run more than MaxLag past an unfinished read.
Tick ==
  /\ now < MaxTime
  /\ \A w \in Markers : mark[w] # None => now < mark[w].at + MaxLag
  /\ \A c \in Checkers, k \in Keys :
       seen[c][k] # None => now < seen[c][k].at + MaxLag
  /\ now' = now + 1
  /\ UNCHANGED <<rows, opened, mark, seen>>

Create(k) ==
  /\ rows[k].state = "unborn"
  /\ rows' = [rows EXCEPT ![k].state = "active"]
  /\ UNCHANGED <<now, opened, mark, seen>>

\* Mutant: the sessions foreign key cascades.
DeletableCascade(k) == Present(k)

\* DELETE FROM keys fails on the sessions foreign key once a session exists.
Deletable(k) == Present(k) /\ k \notin opened

Delete(k) ==
  /\ Deletable(k)
  /\ rows' = [rows EXCEPT ![k].state = "deleted"]
  /\ UNCHANGED <<now, opened, mark, seen>>

\* The key was active when Pick chose it; since then it may have been benched,
\* so all the INSERT into sessions still needs is the row itself.
OpenSession(k) ==
  /\ Present(k) /\ k \notin opened
  /\ opened' = opened \cup {k}
  /\ UNCHANGED <<now, rows, mark, seen>>

-----------------------------------------------------------------------------
(* MarkQuotaExhausted: Get, then UPDATE.  Only the keys of sessions are    *)
(* ever marked.                                                            *)

MarkRead(w, k) ==
  /\ mark[w] = None
  /\ now <= Horizon
  /\ k \in opened
  /\ rows[k].state \in States \ {"dead"}
  /\ rows[k].cycles < MaxCycles
  /\ mark' = [mark EXCEPT ![w] = [key |-> k, row |-> rows[k], at |-> now]]
  /\ UNCHANGED <<now, rows, opened, seen>>

Escalates(r) ==
  r.state = "cooldown_weekly" \/ r.cycles + 1 > DailyCyclesPerWeek

\* Mutants: the cooldown subtracted; added to the old timer; week_reset_at only
\* carried over.
ExhaustedBackwards(r, at) ==
  [state |-> "cooldown_daily", until |-> at - DailyCooldown,
   cycles |-> r.cycles + 1, weekReset |-> r.weekReset]
ExhaustedStacked(r, at) ==
  [state |-> IF Escalates(r) THEN "cooldown_weekly" ELSE "cooldown_daily",
   until |-> (IF r.until = None THEN at ELSE r.until)
             + (IF Escalates(r) THEN WeeklyCooldown ELSE DailyCooldown),
   cycles |-> r.cycles + 1, weekReset |-> r.weekReset]
ExhaustedNoReset(r, at) ==
  [state |-> IF Escalates(r) THEN "cooldown_weekly" ELSE "cooldown_daily",
   until |-> at + WeeklyCooldown, cycles |-> r.cycles + 1, weekReset |-> r.weekReset]

\* The UPDATE's values, computed from the row as it was read.
Exhausted(r, at) ==
  [state     |-> IF Escalates(r) THEN "cooldown_weekly" ELSE "cooldown_daily",
   until     |-> at + (IF Escalates(r) THEN WeeklyCooldown ELSE DailyCooldown),
   cycles    |-> r.cycles + 1,
   weekReset |-> IF Escalates(r) THEN at + WeeklyCooldown ELSE r.weekReset]

MarkWrite(w) ==
  /\ mark[w] # None
  /\ LET k == mark[w].key
     IN  rows' = IF Present(k)
                 THEN [rows EXCEPT ![k] = Exhausted(mark[w].row, mark[w].at)]
                 ELSE rows
  /\ mark' = [mark EXCEPT ![w] = None]
  /\ UNCHANGED <<now, opened, seen>>

-----------------------------------------------------------------------------
(* The checker: read the rows, probe each key over the network, write each *)
(* outcome.                                                                *)

Idle(c) == \A k \in Keys : seen[c][k] = None

Sight(ks) ==
  [k \in Keys |-> IF k \in ks /\ Present(k)
                  THEN [state |-> rows[k].state, at |-> now] ELSE None]

\* CheckKey on one key, CheckAllKeys on all of them.
CheckRead(c, ks) ==
  /\ Idle(c)
  /\ now <= Horizon
  /\ seen' = [seen EXCEPT ![c] = Sight(ks)]
  /\ UNCHANGED <<now, rows, opened, mark>>

\* mapCheckOutcome: the state and the cooldown_until that will be written.
Checked(current, outcome) ==
  CASE outcome = "valid"           -> [state |-> "active", until |-> None]
    [] outcome = "unauthorized"    -> [state |-> "dead",   until |-> None]
    [] outcome = "quota_exhausted" -> [state |-> "cooldown_daily",
                                       until |-> now + DailyCooldown]
    [] outcome \in Transient       -> [state |-> current,  until |-> None]

\* ApplyCheckOutcome: one UPDATE, whatever the row has become meanwhile.
CheckWrite(c, k, outcome) ==
  /\ seen[c][k] # None
  /\ LET o == Checked(seen[c][k].state, outcome)
     IN  rows' = IF Present(k)
                 THEN [rows EXCEPT ![k].state = o.state, ![k].until = o.until]
                 ELSE rows
  /\ seen' = [seen EXCEPT ![c][k] = None]
  /\ UNCHANGED <<now, opened, mark>>

-----------------------------------------------------------------------------
(* Reactivate: one transaction over the whole table.                       *)

\* Mutant: the daily query reads week_reset_at.
DailyUpByWeek(r) == r.state = "cooldown_daily" /\ Expired(r.weekReset)

DailyUp(r)  == r.state = "cooldown_daily" /\ Expired(r.until)
WeeklyUp(r) == r.state = "cooldown_weekly" /\ Expired(r.weekReset)

\* Mutant: a daily refill restarts the counter.
LiftedFresh(r) ==
  IF DailyUp(r) \/ WeeklyUp(r)
  THEN [state |-> "active", until |-> None, cycles |-> 0, weekReset |-> None]
  ELSE r

Lifted(r) ==
  IF DailyUp(r) THEN [r EXCEPT !.state = "active", !.until = None]
  ELSE IF WeeklyUp(r)
       THEN [state |-> "active", until |-> None, cycles |-> 0, weekReset |-> None]
       ELSE r

Reactivate ==
  /\ \E k \in Keys : DailyUp(rows[k]) \/ WeeklyUp(rows[k])
  /\ rows' = [k \in Keys |-> Lifted(rows[k])]
  /\ UNCHANGED <<now, opened, mark, seen>>

\* The process ends: the database stays, the goroutines do not.
Restart ==
  /\ mark' = [w \in Markers |-> None]
  /\ seen' = [c \in Checkers |-> [k \in Keys |-> None]]
  /\ UNCHANGED <<now, rows, opened>>

-----------------------------------------------------------------------------
Next ==
  \/ Tick
  \/ \E k \in Keys : Create(k) \/ Delete(k) \/ OpenSession(k)
  \/ \E w \in Markers : MarkWrite(w) \/ \E k \in Keys : MarkRead(w, k)
  \/ \E c \in Checkers : \/ CheckRead(c, Keys)
                         \/ \E k \in Keys : CheckRead(c, {k})
  \/ \E c \in Checkers, k \in Keys, o \in Outcomes : CheckWrite(c, k, o)
  \/ Reactivate
  \/ Restart

\* Time passes, the reactivator's ticker fires, and a goroutine that has read
\* a row gets to its write.  Users, quota signals and probes are not fair.
Fairness ==
  /\ WF_vars(Tick)
  /\ WF_vars(Reactivate)
  /\ \A w \in Markers : WF_vars(MarkWrite(w))
  /\ \A c \in Checkers :
       WF_vars(\E k \in Keys, o \in Outcomes : CheckWrite(c, k, o))

Spec     == Init /\ [][Next]_vars
FairSpec == Spec /\ Fairness
-----------------------------------------------------------------------------
(* Properties.                                                             *)

ActiveUntimed ==
  \A k \in Keys : rows[k].state \in {"active", "dead"} => rows[k].until = None

TimersBounded ==
  \A k \in Keys :
    LET r == rows[k] IN
    /\ r.until # None => r.until <= now + WeeklyCooldown
    /\ r.weekReset # None => r.weekReset <= now + WeeklyCooldown
    /\ r.state = "cooldown_daily" /\ r.until # None => r.until <= now + DailyCooldown

\* Whichever of the markers, the checkers and the reactivator wrote a row last, and
\* however old the row it had read: a key that is active or dead carries no cooldown
\* timer (so Pick's second condition, cooldown_until <= now, can never hide an active
\* key), and no key is benched for longer than its cooldown counted from this moment,
\* a day on cooldown_daily, a week at most.
TimersSane == ActiveUntimed /\ TimersBounded

\* A key cannot be deleted under a goroutine that is about to write its quota
\* mark: the sessions foreign key makes MarkQuotaExhausted's "no row updated"
\* branch unreachable.
MarkedKeyExists == \A w \in Markers : mark[w] # None => Present(mark[w].key)

\* "Cooldowns automatically lift when their timer expires" (reactivator.go):
\* once quota signals stop, every key leaves its cooldown.
CooldownsLift ==
  \A k \in Keys : rows[k].state \in Cooldowns ~> rows[k].state \notin Cooldowns
=============================================================================
