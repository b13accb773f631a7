-------------------------- MODULE SchedulerProofs --------------------------
(***************************************************************************)
(* Scheduler for any set of schedules, any number of firings, page         *)
(* requests and crashes, and any intervals; then what its firings are      *)
(* given: when a schedule runs next, in any calendar whose dates come back *)
(* within the search, and which key a task is started on, with any number  *)
(* of keys and starts.                                                     *)
(***************************************************************************)
EXTENDS MCScheduler, MCAlgorithms, FiniteSetTheorems, WellFoundedInduction, TLAPS

\* Quotient and rest of integers; the provers are given no more of \div and %.
LEMMA DivBounds ==
  ASSUME NEW m \in Nat \ {0}, NEW t \in Int
  PROVE  /\ t \div m \in Int /\ t % m \in 0..m - 1
         /\ m * (t \div m) <= t /\ t < m * (t \div m) + m
BY Z3

\* A quotient is the largest number whose multiple is not beyond.
LEMMA DivLargest ==
  ASSUME NEW m \in Nat \ {0}, NEW t \in Int, NEW q \in Int, m * q <= t
  PROVE  q <= t \div m
<1>1. PICK p : p = t \div m
  OBVIOUS
<1>2. p \in Int /\ m * q < m * p + m
  BY <1>1, DivBounds
<1>3. m * p + m = m * (p + 1)
  BY <1>2, Z3
<1>4. q < p + 1
  BY <1>2, <1>3, Z3
<1> QED
  BY <1>1, <1>2, <1>4

-----------------------------------------------------------------------------
(* When a schedule is due next.                                            *)

\* A cron schedule is due strictly later than the time it is computed from.
LEMMA NextSlotLater ==
  ASSUME NEW t \in Nat
  PROVE  NextSlot(t) \in Nat /\ NextSlot(t) > t
<1>1. PICK q : q = t \div Slot
  OBVIOUS
<1>2. Slot \in Nat \ {0} /\ t \in Int
  BY TimeAssumption
<1>3. q \in Int /\ t < Slot * q + Slot
  BY <1>1, <1>2, DivBounds
<1>4. Slot * (q + 1) = Slot * q + Slot /\ Slot * q \in Int
  BY <1>2, <1>3, Z3
<1>5. Slot * q + Slot \in Nat /\ Slot * q + Slot > t
  BY <1>2, <1>3, <1>4
<1>6. NextSlot(t) = Slot * q + Slot
  BY <1>1, <1>4 DEF NextSlot
<1> QED
  BY <1>5, <1>6

\* time.Date answers with one of the two offsets, and with the one in force if the
\* other is not.
LEMMA InstantShown ==
  ASSUME NEW wall \in Int, NEW v \in InstantsOf(Zone, wall)
  PROVE  LET first == wall - Zone.before
             second == wall - Zone.after
             never == first >= Zone.at /\ second < Zone.at
         IN  /\ v \in Int
             /\ \/ v = first /\ (first < Zone.at \/ never \/ first = second)
                \/ v = second /\ (second >= Zone.at \/ never \/ first = second)
<1>1. Zone.at \in Int /\ Zone.before \in Int /\ Zone.after \in Int
  BY ClockAssumption
<1>2. PICK first, second : first = wall - Zone.before /\ second = wall - Zone.after
  OBVIOUS
<1>3. first \in Int /\ second \in Int
  BY <1>1, <1>2
<1>4. /\ Local(Zone, first) = wall <=> first < Zone.at \/ first = second
      /\ Local(Zone, second) = wall <=> second >= Zone.at \/ first = second
  BY <1>1, <1>2, <1>3 DEF Local, Offset
<1>5. v \in {first, second}
  BY <1>2 DEF InstantsOf
<1>6. Local(Zone, v) = wall \/ (Local(Zone, first) # wall /\ Local(Zone, second) # wall)
  BY <1>2 DEF InstantsOf
<1>7. /\ v \in Int
      /\ \/ v = first /\ (first < Zone.at \/ (first >= Zone.at /\ second < Zone.at) \/ first = second)
         \/ v = second /\ (second >= Zone.at \/ (first >= Zone.at /\ second < Zone.at) \/ first = second)
  BY <1>1, <1>3, <1>4, <1>5, <1>6
<1> QED
  BY <1>2, <1>7

\* A daily schedule is due later than any time up to the one it is computed from, but
\* for the extra hours of a date whose clock is set back.
LEMMA DailyLater ==
  ASSUME NEW t \in Int, NEW next \in DailyRuns(Zone, Day, DailyAt, t)
  PROVE  /\ next \in Int
         /\ \A u \in Int : u <= t => u < next \/ ExtraHours(u)
<1>1. PICK at, old, new : at = Zone.at /\ old = Zone.before /\ new = Zone.after
  OBVIOUS
<1>2. /\ at \in Int /\ old \in Int /\ new \in Int /\ new - old <= Day
      /\ Day \in Nat \ {0} /\ DailyAt \in Int /\ 0 <= DailyAt /\ DailyAt < Day
  BY <1>1, TimeAssumption, ClockAssumption
<1>3. PICK here : here = Local(Zone, t)
  OBVIOUS
<1>4. here \in Int /\ here = IF t < at THEN t + old ELSE t + new
  BY <1>1, <1>2, <1>3 DEF Local, Offset
<1>5. PICK date : date = here \div Day
  OBVIOUS
<1>6. date \in Int /\ Day * date <= here /\ here < Day * date + Day
  BY <1>2, <1>4, <1>5, DivBounds
<1>7. PICK midnight : midnight = date * Day
  OBVIOUS
<1>8. /\ midnight \in Int /\ midnight = Day * date /\ (date + 1) * Day = midnight + Day
      /\ midnight <= here /\ here < midnight + Day
  BY <1>2, <1>6, <1>7, Z3
<1>9. PICK wall : wall = midnight + DailyAt
  OBVIOUS
<1>10. wall \in Int
  BY <1>2, <1>8, <1>9
<1>11. PICK v \in InstantsOf(Zone, wall) : next = IF v <= t THEN v + Day ELSE v
  BY <1>3, <1>5, <1>7, <1>9 DEF DailyRuns
<1>12. PICK first, second : first = wall - old /\ second = wall - new
  OBVIOUS
<1>13. /\ v \in Int
       /\ \/ v = first /\ (first < at \/ (first >= at /\ second < at) \/ first = second)
          \/ v = second /\ (second >= at \/ (first >= at /\ second < at) \/ first = second)
  BY <1>1, <1>10, <1>12, InstantShown
<1>14. next \in Int
  BY <1>2, <1>11, <1>13
<1>15. ASSUME NEW u \in Int, u <= t, ~(u < next) PROVE ExtraHours(u)
  <2>1. next = v + Day /\ v + Day <= u /\ v + Day <= t
    BY <1>2, <1>11, <1>13, <1>14, <1>15
  <2>2. t >= at
    BY <1>2, <1>4, <1>8, <1>9, <1>12, <1>13, <2>1
  <2>3. v = first /\ first < at
    BY <1>2, <1>4, <1>8, <1>9, <1>12, <1>13, <2>1, <2>2
  <2>4. date <= (at - 1 + old) \div Day
    <3>1. Day * date <= at - 1 + old
      BY <1>2, <1>8, <1>9, <1>12, <2>3
    <3> QED
      BY <1>2, <1>6, <3>1, DivLargest
  <2>5. (at + new) \div Day <= date
    <3>1. PICK q : q = (at + new) \div Day
      OBVIOUS
    <3>2. q \in Int /\ Day * q <= at + new
      BY <1>2, <3>1, DivBounds
    <3>3. Day * q <= here
      BY <1>2, <1>4, <2>2, <3>2, Z3
    <3> QED
      BY <1>2, <1>4, <1>5, <3>1, <3>2, <3>3, DivLargest
  <2>6. (at - 1 + old) \div Day \in Int /\ (at + new) \div Day \in Int
    BY <1>2, DivBounds
  <2>7. date \in LongDates
    BY <1>1, <1>6, <2>4, <2>5, <2>6 DEF LongDates
  <2>8. u \in midnight + Day + DailyAt - old .. midnight + Day - new - 1
    BY <1>2, <1>4, <1>8, <1>9, <1>12, <1>15, <2>1, <2>2, <2>3
  <2>9. u \in (date + 1) * Day + DailyAt - Zone.before .. (date + 1) * Day - Zone.after - 1
    <3>1. PICK next_midnight \in Int : next_midnight = midnight + Day
      BY <1>2, <1>8
    <3>2. u \in next_midnight + DailyAt - old .. next_midnight - new - 1
      BY <1>2, <1>8, <2>8, <3>1
    <3>3. next_midnight = (date + 1) * Day
      BY <1>8, <3>1
    <3> QED
      BY <1>1, <3>2, <3>3
  <2> QED
    BY <2>7, <2>9 DEF ExtraHours
<1> QED
  BY <1>14, <1>15

\* After a firing at t a schedule is due later than any time up to t, a daily one but for
\* the extra hours, and a one-off never again.
LEMMA NextRunsLater ==
  ASSUME NEW t \in Nat, NEW kind \in AllKinds, NEW next \in NextRuns(kind, t)
  PROVE  /\ next \in Int
         /\ \A u \in Int : u <= t => u < next \/ (kind = "daily" /\ ExtraHours(u))
         /\ kind = "oneoff" => next > MaxTime
<1>1. CASE kind = "daily"
  BY <1>1, DailyLater DEF NextRuns
<1>2. CASE kind # "daily"
  <2>1. next \in Int /\ t < next /\ (kind = "oneoff" => next > MaxTime)
    BY <1>2, NextSlotLater, TimeAssumption DEF NextRuns, AllKinds
  <2> QED
    BY <1>2, <2>1
<1> QED
  BY <1>1, <1>2

LEMMA FirstRunsInt ==
  ASSUME now \in Nat, NEW kind \in Kinds, NEW t \in FireTimes, NEW next \in FirstRuns(kind, t)
  PROVE  next \in Int
<1>1. CASE kind = "daily"
  BY <1>1, DailyLater DEF FirstRuns
<1>2. CASE kind # "daily"
  BY <1>2, NextSlotLater, TimeAssumption, KindAssumption DEF FirstRuns, AllKinds
<1> QED
  BY <1>1, <1>2

LEMMA RanRow ==
  ASSUME NEW r \in Row, NEW next \in Int
  PROVE  Ran(r, next) \in Row /\ Ran(r, next).kind = r.kind /\ Ran(r, next).next = next
<1> DEFINE on == r.enabled /\ r.kind # "oneoff"
<1>1. on \in BOOLEAN
  BY DEF Row
<1> HIDE DEF on
<1>2. Ran(r, next) = [[r EXCEPT !.next = next] EXCEPT !.enabled = on]
  BY DEF Ran, Row, on
<1> QED
  BY <1>1, <1>2 DEF Row

-----------------------------------------------------------------------------
(* Types, and the one pass at a time.                                      *)

\* What the loop's own goroutines fire belongs to the pass under way and has been
\* taken off its list; no two of them fire the same schedule.
PassInv ==
  /\ \A f \in TickRuns : run[f] # None => tick # None /\ run[f] \notin tick.due
  /\ OneTickFiring

LEMMA InitType == Init => TypeOK /\ PassInv
  BY NoneAssumption, TimeAssumption
  DEF Init, TypeOK, PassInv, OneTickFiring, Runs

LEMMA StepType == TypeOK /\ PassInv /\ [Next]_vars => TypeOK' /\ PassInv'
<1> SUFFICES ASSUME TypeOK, PassInv, [Next]_vars PROVE TypeOK' /\ PassInv'
  OBVIOUS
<1> USE NoneAssumption, TimeAssumption, RunsAssumption
        DEF TypeOK, PassInv, OneTickFiring, Runs, Row, Pass, Request, Present
<1>1. CASE Clock
  BY <1>1 DEF Clock
<1>2. ASSUME NEW s \in Schedules, NEW kind \in Kinds, NEW t \in FireTimes, Create(s, kind, t)
      PROVE  TypeOK' /\ PassInv'
  <2>1. PICK next \in FirstRuns(kind, t) :
          rows' = [rows EXCEPT ![s] = [kind |-> kind, enabled |-> TRUE, next |-> next]]
    BY <1>2 DEF Create
  <2>2. next \in Int
    BY <2>1, FirstRunsInt
  <2> QED
    BY <1>2, <2>1, <2>2, KindAssumption DEF Create
<1>3. ASSUME NEW s \in Schedules, Delete(s) PROVE TypeOK' /\ PassInv'
  BY <1>3 DEF Delete
<1>4. ASSUME NEW s \in Schedules, NEW u \in Togglers, ToggleRead(u, s)
      PROVE  TypeOK' /\ PassInv'
  <2>1. rows[s] \in Row
    BY <1>4 DEF ToggleRead
  <2> QED
    BY <1>4, <2>1 DEF ToggleRead
<1>5. ASSUME NEW u \in Togglers, SetEnabled(u) PROVE TypeOK' /\ PassInv'
  <2>1. toggle[u].sched \in Schedules /\ toggle[u].to \in BOOLEAN
    BY <1>5 DEF SetEnabled
  <2>2. rows' \in [Schedules -> Row \cup {None, Gone}]
    BY <1>5, <2>1 DEF SetEnabled
  <2> QED
    BY <1>5, <2>2 DEF SetEnabled
<1>6. ASSUME NEW s \in Schedules, NEW f \in ManualRuns, RunNow(f, s)
      PROVE  TypeOK' /\ PassInv'
  BY <1>6 DEF RunNow
<1>7. CASE TickStart
  BY <1>7 DEF TickStart
<1>8. CASE PassOver
  BY <1>8 DEF PassOver
<1>9. ASSUME NEW s \in Schedules, NEW f \in TickRuns, ClaimWon(s, f)
      PROVE  TypeOK' /\ PassInv'
  <2>1. rows[s] \in Row /\ tick.at \in Nat
    BY <1>9 DEF ClaimWon, IsDue
  <2>2. PICK next \in NextRuns(rows[s].kind, tick.at) :
          rows' = [rows EXCEPT ![s].next = next]
    BY <1>9 DEF ClaimWon
  <2>3. rows' \in [Schedules -> Row \cup {None, Gone}]
    <3>1. next \in Int
      BY <2>1, <2>2, NextRunsLater
    <3> QED
      BY <2>1, <2>2, <3>1
  <2>4. tick' \in Pass /\ tick'.due = tick.due \ {s}
    BY <1>9 DEF ClaimWon, Handled
  <2>5. tick' # None
    BY <1>9, <2>4 DEF ClaimWon, Handled
  <2> QED
    BY <1>9, <2>3, <2>4, <2>5 DEF ClaimWon
<1>10. ASSUME NEW s \in Schedules, ClaimLost(s) PROVE TypeOK' /\ PassInv'
  BY <1>10 DEF ClaimLost, Handled
<1>11. ASSUME NEW f \in Runs, MarkRan(f) PROVE TypeOK' /\ PassInv'
  <2>1. run[f] \in Schedules
    BY <1>11 DEF MarkRan
  <2>2. ASSUME Present(run[f]) PROVE rows' \in [Schedules -> Row \cup {None, Gone}]
    <3>1. rows[run[f]] \in Row
      BY <2>1, <2>2
    <3>2. PICK next \in NextRuns(rows[run[f]].kind, now) :
            rows' = [rows EXCEPT ![run[f]] = Ran(rows[run[f]], next)]
      BY <1>11, <2>2 DEF MarkRan
    <3>3. PICK s, row : s = run[f] /\ row = Ran(rows[run[f]], next)
      OBVIOUS
    <3>4. next \in Int
      BY <3>1, <3>2, NextRunsLater
    <3>5. row \in Row
      BY <3>1, <3>3, <3>4, RanRow
    <3>6. rows' = [rows EXCEPT ![s] = row]
      BY <3>2, <3>3
    <3>7. rows \in [Schedules -> Row \cup {None, Gone}]
      OBVIOUS
    <3> HIDE DEF TypeOK, Row
    <3> QED
      BY <3>5, <3>6, <3>7
  <2>3. rows' \in [Schedules -> Row \cup {None, Gone}]
    BY <1>11, <2>2 DEF MarkRan
  <2> QED
    BY <1>11, <2>3 DEF MarkRan
<1>12. ASSUME NEW f \in Runs, MarkRanFailed(f) PROVE TypeOK' /\ PassInv'
  BY <1>12 DEF MarkRanFailed
<1>13. CASE Restart
  BY <1>13 DEF Restart
<1>14. CASE UNCHANGED vars
  BY <1>14 DEF vars
<1> QED
  BY <1>1, <1>2, <1>3, <1>4, <1>5, <1>6, <1>7, <1>8, <1>9, <1>10, <1>11, <1>12,
     <1>13, <1>14 DEF Next, Work, Pages, Claim, Finish

\* Types, for any number of schedules, firings and requests.
THEOREM SchedulerTypeCorrect == Spec => []TypeOK
  BY InitType, StepType, PTL DEF Spec

\* ProcessDue never has two firings of one schedule in flight, whatever the
\* intervals and however long firings take.
THEOREM OneFiringAtATime == Spec => []OneTickFiring
<1>1. PassInv => OneTickFiring
  BY DEF PassInv
<1> QED
  BY <1>1, InitType, StepType, PTL DEF Spec

-----------------------------------------------------------------------------
(* What was claimed, and what is due next.                                 *)

\* What a step may do to a row that exists: keep its kind and its time, move the
\* time by a MarkRan or by a claim, or delete it.
RowStep(s) ==
  \/ rows[s] = None
  \/ rows'[s] = Gone
  \/ /\ Present(s) /\ rows'[s].kind = rows[s].kind
     /\ \/ rows'[s].next = rows[s].next
        \/ rows'[s].next \in NextRuns(rows[s].kind, now)
        \/ \E f \in TickRuns : ClaimWon(s, f)

\* The step of a row, that it never returns to None, and the firings that begin.
StepShape ==
  /\ \A s \in Schedules : RowStep(s) /\ (rows[s] # None => rows'[s] # None)
  /\ \A s \in Schedules, f \in Runs :
       run'[f] = s => run[f] = s \/ Present(s)
  /\ \A s \in Schedules, f \in TickRuns : StartedBy(s, f) => ClaimWon(s, f)
  /\ now' \in Nat /\ now <= now'
  /\ tick' # None => tick'.at = now \/ (tick # None /\ tick'.at = tick.at)

LEMMA NextShape == TypeOK /\ Next => StepShape
<1> SUFFICES ASSUME TypeOK, Next PROVE StepShape
  OBVIOUS
<1> USE NoneAssumption, TimeAssumption, RunsAssumption
        DEF StepShape, RowStep, Present, StartedBy, TypeOK, Runs, Row, Pass, Request
<1>1. CASE Clock
  BY <1>1 DEF Clock
<1>2. ASSUME NEW s \in Schedules, NEW kind \in Kinds, NEW t \in FireTimes, Create(s, kind, t)
      PROVE  StepShape
  BY <1>2 DEF Create
<1>3. ASSUME NEW s \in Schedules, Delete(s) PROVE StepShape
  BY <1>3 DEF Delete
<1>4. ASSUME NEW s \in Schedules, NEW u \in Togglers, ToggleRead(u, s) PROVE StepShape
  BY <1>4 DEF ToggleRead
<1>5. ASSUME NEW u \in Togglers, SetEnabled(u) PROVE StepShape
  BY <1>5 DEF SetEnabled
<1>6. ASSUME NEW s \in Schedules, NEW f \in ManualRuns, RunNow(f, s) PROVE StepShape
  BY <1>6 DEF RunNow
<1>7. CASE TickStart
  BY <1>7 DEF TickStart
<1>8. CASE PassOver
  BY <1>8 DEF PassOver
<1>9. ASSUME NEW s \in Schedules, NEW f \in TickRuns, ClaimWon(s, f) PROVE StepShape
  <2>1. rows[s] \in Row
    BY <1>9 DEF ClaimWon, IsDue
  <2>2. PICK next : rows' = [rows EXCEPT ![s].next = next] /\ next \in Int
    <3>1. PICK next \in NextRuns(rows[s].kind, tick.at) : rows' = [rows EXCEPT ![s].next = next]
      BY <1>9 DEF ClaimWon
    <3>2. tick.at \in Nat
      BY <1>9 DEF ClaimWon
    <3> QED
      BY <2>1, <3>1, <3>2, NextRunsLater
  <2>3. rows'[s] # None /\ rows'[s].kind = rows[s].kind
    BY <2>1, <2>2, <1>9 DEF ClaimWon
  <2>4. \A r \in Schedules : RowStep(r) /\ (rows[r] # None => rows'[r] # None)
    BY <1>9, <2>1, <2>2, <2>3
  <2>5. \A r \in Schedules, g \in Runs : run'[g] = r => run[g] = r \/ Present(r)
    BY <1>9 DEF ClaimWon, IsDue
  <2>6. \A r \in Schedules, g \in TickRuns : StartedBy(r, g) => ClaimWon(r, g)
    <3> SUFFICES ASSUME NEW r \in Schedules, NEW g \in TickRuns, StartedBy(r, g)
                 PROVE  g = f /\ r = s
      BY <1>9
    <3> QED
      BY <1>9 DEF ClaimWon
  <2>7. tick' # None => tick'.at = tick.at
    BY <1>9 DEF ClaimWon, Handled
  <2>8. now' = now /\ tick # None
    BY <1>9 DEF ClaimWon
  <2> QED
    BY <2>4, <2>5, <2>6, <2>7, <2>8
<1>10. ASSUME NEW s \in Schedules, ClaimLost(s) PROVE StepShape
  <2>1. tick' # None => tick'.at = tick.at
    BY <1>10 DEF ClaimLost, Handled
  <2> QED
    BY <1>10, <2>1 DEF ClaimLost
<1>11. ASSUME NEW f \in Runs, MarkRan(f) PROVE StepShape
  <2>1. run[f] \in Schedules
    BY <1>11 DEF MarkRan
  <2>2. ASSUME Present(run[f])
        PROVE  \E row : /\ rows' = [rows EXCEPT ![run[f]] = row]
                        /\ row \in Row /\ row.kind = rows[run[f]].kind
                        /\ row.next \in NextRuns(rows[run[f]].kind, now)
    <3>1. rows[run[f]] \in Row
      BY <2>1, <2>2
    <3>2. PICK next \in NextRuns(rows[run[f]].kind, now) :
            rows' = [rows EXCEPT ![run[f]] = Ran(rows[run[f]], next)]
      BY <1>11, <2>2 DEF MarkRan
    <3>3. next \in Int
      BY <3>1, <3>2, NextRunsLater
    <3>4. PICK row : row = Ran(rows[run[f]], next)
      OBVIOUS
    <3>5. row \in Row /\ row.kind = rows[run[f]].kind /\ row.next = next
      BY <3>1, <3>3, <3>4, RanRow
    <3>6. rows' = [rows EXCEPT ![run[f]] = row]
      BY <3>2, <3>4
    <3> QED
      BY <3>2, <3>5, <3>6
  <2>3. \A r \in Schedules : RowStep(r) /\ (rows[r] # None => rows'[r] # None)
    <3>1. CASE Present(run[f])
      BY <2>1, <2>2, <3>1
    <3>2. CASE ~Present(run[f])
      BY <1>11, <3>2 DEF MarkRan
    <3> QED
      BY <3>1, <3>2
  <2> QED
    BY <1>11, <2>3 DEF MarkRan
<1>12. ASSUME NEW f \in Runs, MarkRanFailed(f) PROVE StepShape
  BY <1>12 DEF MarkRanFailed
<1>13. CASE Restart
  BY <1>13 DEF Restart
<1> QED
  BY <1>1, <1>2, <1>3, <1>4, <1>5, <1>6, <1>7, <1>8, <1>9, <1>10, <1>11, <1>12,
     <1>13 DEF Next, Work, Pages, Claim, Finish

\* Next to the two properties: claims lie in the past, what was claimed or run
\* has been created, and a one-off that was is pushed past the end of time.
ClaimInv ==
  /\ claims \in [Schedules -> SUBSET Nat] /\ ran \subseteq Schedules
  /\ tick # None => tick.at <= now
  /\ \A s \in Schedules : \A t \in claims[s] : t <= now /\ (tick # None => t <= tick.at)
  /\ \A s \in Schedules :
       rows[s] = None => claims[s] = {} /\ s \notin ran /\ \A f \in Runs : run[f] # s
  /\ \A s \in Schedules :
       Present(s) /\ rows[s].kind = "oneoff" /\ (claims[s] # {} \/ s \in ran)
         => rows[s].next > MaxTime
  /\ NextAfterClaim
  /\ OneoffOnce

HistoryInv == TypeOK /\ PassInv /\ ClaimInv

LEMMA InitHistory == HistoryInit => HistoryInv
  BY InitType, NoneAssumption
  DEF HistoryInit, HistoryInv, ClaimInv, NextAfterClaim, OneoffOnce, Init, Present

\* A claim is of a due row, and moves it past the time of the pass.
LEMMA ClaimMoves ==
  ASSUME TypeOK, NEW s \in Schedules, NEW f \in TickRuns, ClaimWon(s, f)
  PROVE  /\ tick.at \in Nat /\ tick.at <= MaxTime /\ rows[s] \in Row /\ Present(s)
         /\ rows[s].next <= tick.at
         /\ rows'[s].kind = rows[s].kind
         /\ rows'[s].next \in NextRuns(rows[s].kind, tick.at)
<1>1. rows[s] \in Row /\ tick.at \in Nat /\ tick.at <= MaxTime
  BY TimeAssumption DEF ClaimWon, IsDue, Present, TypeOK, Pass
<1>2. PICK next \in NextRuns(rows[s].kind, tick.at) : rows' = [rows EXCEPT ![s].next = next]
  BY DEF ClaimWon
<1>3. rows'[s] = [rows[s] EXCEPT !.next = next]
  BY <1>2 DEF TypeOK
<1>4. rows'[s].next = next /\ rows'[s].kind = rows[s].kind
  BY <1>1, <1>3 DEF Row
<1> QED
  BY <1>1, <1>2, <1>4 DEF ClaimWon, IsDue

\* MarkRan moves the row it has run, if that is still there.
LEMMA RanMoves ==
  ASSUME TypeOK, NEW f \in Runs, MarkRan(f), rows'[run[f]] \notin {None, Gone}
  PROVE  /\ run[f] \in Schedules /\ rows[run[f]] \in Row
         /\ rows'[run[f]].kind = rows[run[f]].kind
         /\ rows'[run[f]].next \in NextRuns(rows[run[f]].kind, now)
<1>1. run[f] \in Schedules
  BY DEF MarkRan, TypeOK, Runs
<1>2. Present(run[f])
  BY <1>1 DEF MarkRan, TypeOK, Present
<1>3. rows[run[f]] \in Row
  BY <1>1, <1>2 DEF TypeOK, Present
<1>4. PICK next \in NextRuns(rows[run[f]].kind, now) :
        rows' = [rows EXCEPT ![run[f]] = Ran(rows[run[f]], next)]
  BY <1>2 DEF MarkRan
<1>5. rows'[run[f]] = Ran(rows[run[f]], next)
  BY <1>1, <1>4 DEF TypeOK
<1>6. next \in Int
  BY <1>3, <1>4, TimeAssumption, NextRunsLater DEF TypeOK, Row
<1>7. rows'[run[f]].next = next /\ rows'[run[f]].kind = rows[run[f]].kind
  BY <1>3, <1>5, <1>6, RanRow
<1> QED
  BY <1>1, <1>3, <1>4, <1>7

LEMMA StepHistory == HistoryInv /\ [HistoryNext]_historyVars => HistoryInv'
<1>1. ASSUME HistoryInv, UNCHANGED historyVars PROVE HistoryInv'
  BY <1>1 DEF historyVars, vars, HistoryInv, TypeOK, PassInv, OneTickFiring, ClaimInv,
     NextAfterClaim, OneoffOnce, Present
<1>2. ASSUME HistoryInv, HistoryNext PROVE HistoryInv'
  <2>1. TypeOK /\ ClaimInv /\ Next /\ now \in Nat /\ now <= MaxTime
    BY <1>2, TimeAssumption DEF HistoryInv, HistoryNext, Next, TypeOK
  <2>2. TypeOK' /\ PassInv'
    BY <1>2, StepType DEF HistoryInv, HistoryNext, Next
  <2>3. StepShape
    BY <2>1, NextShape
  <2>4. ASSUME NEW s \in Schedules
        PROVE  \/ claims'[s] = claims[s]
               \/ /\ claims'[s] = claims[s] \cup {tick.at}
                  /\ \E f \in TickRuns : ClaimWon(s, f)
    BY <1>2, <2>3 DEF HistoryNext, StepShape, StartedBy
  <2>5. ASSUME NEW s \in ran'
        PROVE  s \in ran \/ (s \in Schedules /\ \E f \in Runs : run[f] = s /\ MarkRan(f))
    BY <1>2 DEF HistoryNext
  <2>6. claims' \in [Schedules -> SUBSET Nat] /\ ran' \subseteq Schedules
    <3>1. \A s \in Schedules : claims'[s] \in SUBSET Nat
      BY <2>1, <2>4, ClaimMoves DEF ClaimInv
    <3> QED
      BY <1>2, <2>1, <3>1 DEF HistoryNext, ClaimInv
  <2>7. tick' # None => tick'.at <= now'
    <3>1. tick # None => tick.at \in Nat /\ tick.at <= now
      BY <2>1, TimeAssumption DEF ClaimInv, TypeOK, Pass
    <3> QED
      BY <2>1, <2>3, <3>1 DEF StepShape
  <2>8. ASSUME NEW s \in Schedules, NEW t \in claims'[s]
        PROVE  t <= now' /\ (tick' # None => t <= tick'.at)
    <3>1. CASE t \in claims[s]
      <4>1. t \in Nat /\ t <= now /\ (tick # None => t <= tick.at)
        BY <2>1, <3>1 DEF ClaimInv
      <4> QED
        BY <2>1, <2>3, <4>1 DEF StepShape
    <3>2. CASE t = tick.at /\ \E f \in TickRuns : ClaimWon(s, f)
      <4>1. t \in Nat /\ t <= now /\ now' = now
        BY <2>1, <3>2, ClaimMoves DEF ClaimInv, ClaimWon
      <4>2. tick' # None => tick'.at = tick.at
        BY <2>1, <3>2 DEF ClaimWon, Handled, TypeOK, Pass
      <4> QED
        BY <3>2, <4>1, <4>2
    <3> QED
      BY <2>4, <3>1, <3>2
  <2>9. ASSUME NEW s \in Schedules, rows'[s] = None
        PROVE  claims'[s] = {} /\ s \notin ran' /\ \A f \in Runs : run'[f] # s
    <3>1. rows[s] = None
      BY <2>3, <2>9 DEF StepShape
    <3>2. claims[s] = {} /\ s \notin ran /\ \A f \in Runs : run[f] # s
      BY <2>1, <3>1 DEF ClaimInv
    <3>3. ~Present(s)
      BY <3>1 DEF Present
    <3>4. claims'[s] = {}
      BY <2>1, <2>4, <3>2, <3>3, ClaimMoves
    <3> QED
      BY <2>3, <2>5, <3>2, <3>3, <3>4 DEF StepShape
  <2>10. ASSUME NEW s \in Schedules, Present(s)', rows[s] = None
         PROVE  claims'[s] = {} /\ s \notin ran'
    <3>1. claims[s] = {} /\ s \notin ran /\ \A f \in Runs : run[f] # s
      BY <2>1, <2>10 DEF ClaimInv
    <3>2. ~Present(s)
      BY <2>10 DEF Present
    <3> QED
      BY <2>1, <2>4, <2>5, <3>1, <3>2, ClaimMoves
  <2>11. ASSUME NEW s \in Schedules, Present(s)', NEW t \in claims'[s]
         PROVE  t < rows'[s].next \/ (rows'[s].kind = "daily" /\ ExtraHours(t))
    <3>1. rows[s] # None
      BY <2>10, <2>11
    <3>2. CASE \E f \in TickRuns : ClaimWon(s, f)
      <4>1. /\ tick.at \in Nat /\ rows[s] \in Row /\ rows'[s].kind = rows[s].kind
            /\ rows'[s].next \in NextRuns(rows[s].kind, tick.at)
        BY <2>1, <3>2, ClaimMoves
      <4>2. tick # None
        BY <3>2 DEF ClaimWon
      <4>3. t = tick.at \/ t \in claims[s]
        BY <2>4
      <4>4. t \in claims[s] => t \in Nat /\ t <= tick.at
        BY <2>1, <4>2 DEF ClaimInv
      <4>5. t \in Int /\ t <= tick.at
        BY <4>1, <4>3, <4>4
      <4> QED
        BY <4>1, <4>5, NextRunsLater DEF Row
    <3>3. CASE ~\E f \in TickRuns : ClaimWon(s, f)
      <4>1. t \in claims[s]
        BY <2>4, <3>3
      <4>2. t \in Int /\ t <= now
        BY <2>1, <4>1 DEF ClaimInv
      <4>3. Present(s) /\ rows'[s].kind = rows[s].kind
            /\ (\/ rows'[s].next = rows[s].next
                \/ rows'[s].next \in NextRuns(rows[s].kind, now))
        BY <2>3, <2>11, <3>1, <3>3 DEF StepShape, RowStep, Present
      <4>4. rows[s] \in Row
        BY <2>1, <4>3 DEF TypeOK, Present
      <4>5. CASE rows'[s].next = rows[s].next
        BY <2>1, <4>1, <4>3, <4>5 DEF ClaimInv, NextAfterClaim
      <4>6. CASE rows'[s].next \in NextRuns(rows[s].kind, now)
        BY <2>1, <4>2, <4>3, <4>4, <4>6, NextRunsLater DEF Row
      <4> QED
        BY <4>3, <4>5, <4>6
    <3> QED
      BY <3>2, <3>3
  <2>12. ASSUME NEW s \in Schedules, Present(s)', rows'[s].kind = "oneoff",
                claims'[s] # {} \/ s \in ran'
         PROVE  rows'[s].next > MaxTime
    <3>1. rows[s] # None
      BY <2>10, <2>12
    <3>2. /\ Present(s) /\ rows[s].kind = "oneoff"
          /\ \/ rows'[s].next = rows[s].next
             \/ rows'[s].next \in NextRuns(rows[s].kind, now)
             \/ \E f \in TickRuns : ClaimWon(s, f)
      BY <2>3, <2>12, <3>1 DEF StepShape, RowStep, Present
    <3>3. \A t \in Nat : \A next \in NextRuns("oneoff", t) : next > MaxTime
      BY NextRunsLater DEF AllKinds
    <3>4. CASE \E f \in TickRuns : ClaimWon(s, f)
      BY <2>1, <3>2, <3>3, <3>4, ClaimMoves
    <3>5. CASE \E f \in Runs : run[f] = s /\ MarkRan(f)
      BY <2>1, <2>12, <3>3, <3>5, RanMoves DEF Present
    <3>6. CASE claims[s] # {} \/ s \in ran
      BY <2>1, <3>2, <3>3, <3>4, <3>6 DEF ClaimInv
    <3> QED
      BY <2>4, <2>5, <2>12, <3>4, <3>5, <3>6
  <2>13. ASSUME NEW s \in Schedules, Present(s)', rows'[s].kind = "oneoff",
                NEW t \in claims'[s], NEW u \in claims'[s]
         PROVE  t = u
    <3>1. rows[s] # None
      BY <2>10, <2>13
    <3>2. Present(s) /\ rows[s].kind = "oneoff"
      BY <2>3, <2>13, <3>1 DEF StepShape, RowStep, Present
    <3>3. CASE \E f \in TickRuns : ClaimWon(s, f)
      <4>1. rows[s] \in Row /\ rows[s].next <= tick.at /\ tick.at <= MaxTime /\ tick.at \in Nat
        BY <2>1, <3>3, ClaimMoves
      <4>2. claims[s] = {}
        BY <2>1, <3>2, <4>1, TimeAssumption DEF ClaimInv, Row
      <4> QED
        BY <2>4, <2>13, <4>2
    <3>4. CASE claims'[s] = claims[s]
      BY <2>1, <2>13, <3>2, <3>4 DEF ClaimInv, OneoffOnce
    <3> QED
      BY <2>4, <3>3, <3>4
  <2> QED
    BY <2>2, <2>6, <2>7, <2>8, <2>9, <2>11, <2>12, <2>13
    DEF HistoryInv, ClaimInv, NextAfterClaim, OneoffOnce
<1> QED
  BY <1>1, <1>2

\* No slot is claimed twice, with any local clock and whatever crashes, late MarkRans,
\* manual runs and toggles come between: next_run_at never returns to a time a pass has
\* claimed, but for a daily schedule claimed in the extra hours of a date whose clock is
\* set back.
THEOREM NoSlotTwice == HistorySpec => []NextAfterClaim
<1>1. HistoryInv => NextAfterClaim
  BY DEF HistoryInv, ClaimInv
<1> QED
  BY <1>1, InitHistory, StepHistory, PTL DEF HistorySpec

\* Half of it: the claims of a one-off are one.
LEMMA OneoffAtMostOnce == HistorySpec => []OneoffOnce
<1>1. HistoryInv => OneoffOnce
  BY DEF HistoryInv, ClaimInv
<1> QED
  BY <1>1, InitHistory, StepHistory, PTL DEF HistorySpec

\* The other half: a run one-off is not claimed.
LEMMA OneoffStaysRetired == HistorySpec => OneoffRetired
<1>1. HistoryInv /\ [HistoryNext]_historyVars
        => [\A s \in ran : Present(s) /\ rows[s].kind = "oneoff"
                              => claims'[s] = claims[s]]_historyVars
  <2> SUFFICES ASSUME HistoryInv, HistoryNext, NEW s \in ran, Present(s), rows[s].kind = "oneoff"
               PROVE  claims'[s] = claims[s]
    OBVIOUS
  <2>1. TypeOK /\ ClaimInv /\ StepShape /\ s \in Schedules
    BY NextShape DEF HistoryInv, HistoryNext, Next, ClaimInv
  <2>2. rows[s].next > MaxTime
    BY <2>1 DEF ClaimInv
  <2>3. ASSUME NEW f \in TickRuns, ClaimWon(s, f) PROVE FALSE
    BY <2>1, <2>2, <2>3, ClaimMoves, TimeAssumption DEF Row
  <2> QED
    BY <2>1, <2>3 DEF HistoryNext, StepShape
<1> QED
  BY <1>1, InitHistory, StepHistory, PTL DEF HistorySpec, OneoffRetired

\* A one-off is fired by the loop at most once, and never again after it has been run,
\* by the loop or by hand.
THEOREM OneoffStaysFinal == HistorySpec => OneoffFinal
  BY OneoffAtMostOnce, OneoffStaysRetired, PTL DEF OneoffFinal

-----------------------------------------------------------------------------

(* Least elements and division.                                            *)

\* A set of natural numbers has a least element.
LEMMA Least ==
  ASSUME NEW S, S \subseteq Nat, S # {}
  PROVE  \E m \in S : \A n \in S : m <= n
<1>1. PICK m \in S : \A n \in S : <<n, m>> \notin OpToRel(<, Nat)
  BY NatLessThanWellFounded, WFMin
<1>2. \A n \in S : ~(n < m)
  BY <1>1 DEF OpToRel
<1> QED
  BY <1>2

\* A set of integers with a lower bound has a least element, which Min returns.
LEMMA MinLeast ==
  ASSUME NEW S, S \subseteq Int, S # {}, NEW low \in Int, \A n \in S : low <= n
  PROVE  Min(S) \in S /\ \A n \in S : Min(S) <= n
<1> DEFINE T == {n - low : n \in S}
<1>1. T \subseteq Nat /\ T # {}
  <2>1. \A n \in S : n \in Int /\ low <= n
    OBVIOUS
  <2>2. \A n \in S : n - low \in Nat
    BY <2>1
  <2> QED
    BY <2>2
<1> HIDE DEF T
<1>2. PICK k \in T : \A n \in T : k <= n
  BY <1>1, Least
<1>3. PICK m \in S : k = m - low
  BY <1>2 DEF T
<1>4. \A n \in S : m <= n
  <2> TAKE n \in S
  <2>1. n - low \in T
    BY DEF T
  <2> QED
    BY <1>2, <1>3, <2>1
<1> QED
  BY <1>4 DEF Min

\* The least element of a singleton.
LEMMA MinOfOne ==
  ASSUME NEW x \in Int
  PROVE  Min({x}) = x
BY DEF Min

\* A number given as a multiple and a rest has that quotient and that rest.
LEMMA DivOf ==
  ASSUME NEW m \in Nat \ {0}, NEW q \in Int, NEW r \in 0..m - 1
  PROVE  (m * q + r) \div m = q /\ (m * q + r) % m = r
BY Z3

\* Of two multiples the smaller one is smaller by one multiple at least.
LEMMA Multiples ==
  ASSUME NEW m \in Nat \ {0}, NEW q \in Int, NEW r \in Int, m * q < m * r
  PROVE  m * q + m <= m * r
<1>1. q < r
  BY Z3
<1> QED
  BY <1>1, Z3

\* A number is its multiple and its rest.
LEMMA DivRest ==
  ASSUME NEW m \in Nat \ {0}, NEW t \in Int
  PROVE  t = m * (t \div m) + (t % m)
<1> DEFINE q == t \div m
           r == t - m * q
<1>1. q \in Int /\ m * q \in Int /\ r \in 0..m - 1
  BY DivBounds
<1>2. t = m * q + r
  BY <1>1
<1> HIDE DEF q, r
<1>3. t % m = r
  <2>1. (m * q + r) % m = r
    BY <1>1, DivOf
  <2> QED
    BY <1>2, <2>1
<1> QED
  BY <1>2, <1>3 DEF q

\* The same, with names for both.
LEMMA DivParts ==
  ASSUME NEW m \in Nat \ {0}, NEW t \in Int
  PROVE  \E q \in Int, r \in 0..m - 1 :
           m * q \in Int /\ t = m * q + r /\ t \div m = q /\ t % m = r
<1>1. t \div m \in Int /\ t % m \in 0..m - 1 /\ t = m * (t \div m) + (t % m)
  BY DivBounds, DivRest
<1>2. m * (t \div m) \in Int
  BY <1>1, Z3
<1> QED
  BY <1>1, <1>2

-----------------------------------------------------------------------------
(* Daily schedules: the local clock.                                       *)

\* Hours and days have a length.
LEMMA Lengths ==
  /\ HourLen \in Nat \ {0} /\ DayLen \in Nat \ {0} /\ HourLen <= DayLen
  /\ DayLen = HourLen * DayHours /\ HourLen = MinuteLen * HourMinutes
  /\ MinuteLen \in Nat \ {0} /\ HourMinutes \in Nat \ {0} /\ DayHours \in Nat \ {0}
<1>1. MinuteLen \in Nat \ {0} /\ HourMinutes \in Nat \ {0} /\ DayHours \in Nat \ {0}
  BY CalendarAssumption
<1>2. \A m, n \in Nat \ {0} : m * n \in Nat \ {0} /\ m <= m * n
  BY Z3
<1> QED
  BY <1>1, <1>2 DEF HourLen, DayLen

\* A zone whose clock is changed at a full hour, by an hour or not at all.
HourZone(z) ==
  /\ \E k \in Int : z.at = HourLen * k
  /\ z.before \in {0, HourLen} /\ z.after \in {0, HourLen}

\* Where the clock shows a time at one instant only, time.Date returns that one.
LEMMA OneInstant ==
  ASSUME NEW z, NEW w, NEW x \in {w - z.before, w - z.after}, Local(z, x) = w,
         \A y \in {w - z.before, w - z.after} : Local(z, y) = w => y = x
  PROVE  InstantsOf(z, w) = {x}
<1> DEFINE shown == {t \in {w - z.before, w - z.after} : Local(z, t) = w}
<1>1. shown = {x}
  OBVIOUS
<1> QED
  BY <1>1 DEF InstantsOf

\* Within a day the clock shows a time once.
LEMMA OnceADay ==
  ASSUME NEW moment \in Int, NEW m \in 0..DayLen - 1, NEW o \in Int,
         NEW r \in moment + 1..moment + DayLen, (r + o) % DayLen = m
  PROVE  Min({t \in moment + 1..moment + DayLen : (t + o) % DayLen = m}) = r
<1> DEFINE S == {t \in moment + 1..moment + DayLen : (t + o) % DayLen = m}
<1>0. DayLen \in Nat \ {0} /\ r \in Int
  BY Lengths
<1>1. ASSUME NEW t \in S PROVE t = r
  <2> DEFINE p == (t + o) \div DayLen
             q == (r + o) \div DayLen
  <2>1. t \in moment + 1..moment + DayLen /\ t \in Int /\ (t + o) % DayLen = m
    BY <1>0, <1>1
  <2>2. /\ p \in Int /\ q \in Int /\ DayLen * p \in Int /\ DayLen * q \in Int
        /\ t + o = DayLen * p + m /\ r + o = DayLen * q + m
    BY <1>0, <2>1, DivBounds, DivRest
  <2> HIDE DEF p, q
  <2>3. t - r < DayLen /\ r - t < DayLen
    BY <1>0, <2>1
  <2>4. ~(DayLen * p < DayLen * q) /\ ~(DayLen * q < DayLen * p)
    BY <1>0, <2>1, <2>2, <2>3, Multiples
  <2> QED
    BY <1>0, <2>1, <2>2, <2>4
<1>2. S = {r}
  BY <1>0, <1>1
<1> HIDE DEF S
<1>3. Min(S) = r
  BY <1>0, <1>2, MinOfOne
<1> QED
  BY <1>3 DEF S

\* Days begin, and the clock is changed, at full hours.
LEMMA FullHours ==
  ASSUME NEW z, HourZone(z), NEW q \in Int, DayLen * q > z.at
  PROVE  DayLen * q >= z.at + HourLen
<1>1. PICK k \in Int : z.at = HourLen * k
  BY DEF HourZone
<1>2. DayLen * q = HourLen * (DayHours * q) /\ DayHours * q \in Int
  BY Lengths, Z3
<1>3. HourLen * k < HourLen * (DayHours * q) /\ HourLen * k \in Int
  BY <1>1, <1>2, Lengths, Z3
<1>4. HourLen * k + HourLen <= HourLen * (DayHours * q)
  BY <1>2, <1>3, Lengths, Multiples
<1> QED
  BY <1>1, <1>2, <1>3, <1>4, Lengths, Z3

\* The same of a day that begins a day or more before the change.
LEMMA FullHoursBefore ==
  ASSUME NEW z, HourZone(z), NEW q \in Int, DayLen * q + DayLen < z.at + HourLen
  PROVE  DayLen * q + DayLen <= z.at
<1>1. PICK k \in Int : z.at = HourLen * k
  BY DEF HourZone
<1>2. /\ DayLen * q + DayLen = HourLen * (DayHours * (q + 1)) /\ DayHours * (q + 1) \in Int
      /\ HourLen * (DayHours * (q + 1)) \in Int
  BY Lengths, Z3
<1>3. HourLen * k \in Int
  BY <1>1, Lengths, Z3
<1>4. HourLen * k < HourLen * (DayHours * (q + 1)) =>
        HourLen * k + HourLen <= HourLen * (DayHours * (q + 1))
  BY <1>2, Lengths, Multiples
<1> QED
  BY <1>1, <1>2, <1>3, <1>4, Lengths, Z3

\* The day a tick lies in.
LEMMA DayBounds ==
  ASSUME NEW x \in Int, NEW q, q = x \div DayLen
  PROVE  /\ q \in Int /\ DayLen * q \in Int
         /\ DayLen * q <= x /\ x < DayLen * q + DayLen
<1>1. DayLen \in Nat \ {0}
  BY Lengths
<1>2. q \in Int /\ DayLen * q <= x /\ x < DayLen * q + DayLen
  BY <1>1, DivBounds
<1>3. DayLen * q \in Int
  BY <1>1, <1>2, Z3
<1> QED
  BY <1>2, <1>3

\* A tick between the bounds of a day lies in that day.
LEMMA SameDay ==
  ASSUME NEW q \in Int, NEW x \in Int, DayLen * q <= x, x < DayLen * q + DayLen
  PROVE  x \div DayLen = q
<1>1. DayLen \in Nat \ {0} /\ DayLen * q \in Int
  BY Lengths, Z3
<1>2. x - DayLen * q \in 0..DayLen - 1
  BY <1>1
<1>3. (DayLen * q + (x - DayLen * q)) \div DayLen = q
  BY <1>1, <1>2, DivOf
<1>4. DayLen * q + (x - DayLen * q) = x
  BY <1>1
<1> QED
  BY <1>3, <1>4

\* When the clock is changed before the first tick of the local day of a moment, that day
\* begins where the clock after the change says.
LEMMA DuskBound ==
  ASSUME NEW z, HourZone(z), NEW moment \in Int,
         NEW T, T = {t \in moment - 2 * DayLen..moment :
                       Local(z, t) \div DayLen = Local(z, moment) \div DayLen}
  PROVE  /\ Min(T) \in Int /\ Min(T) <= moment
         /\ z.at < Min(T) => Min(T) <= DayLen * (Local(z, moment) \div DayLen) - z.after
<1> DEFINE q == Local(z, moment) \div DayLen
<1>0. /\ DayLen \in Nat \ {0} /\ HourLen \in Int /\ z.at \in Int
      /\ z.before \in Int /\ z.after \in Int
  <2>1. DayLen \in Nat \ {0} /\ HourLen \in Int
    BY Lengths
  <2>2. \A k \in Int : HourLen * k \in Int
    BY <2>1, Z3
  <2> QED
    BY <2>1, <2>2 DEF HourZone
<1>1. Local(z, moment) \in Int
  BY <1>0 DEF Local, Offset
<1>2. /\ q \in Int /\ DayLen * q \in Int
      /\ DayLen * q <= Local(z, moment) /\ Local(z, moment) < DayLen * q + DayLen
  BY <1>1, DayBounds
<1>3. moment \in T /\ T \subseteq Int /\ \A t \in T : moment - 2 * DayLen <= t /\ t <= moment
  BY <1>0
<1>4. moment - 2 * DayLen \in Int
  BY <1>0
<1>5. Min(T) \in T /\ \A t \in T : Min(T) <= t
  BY <1>3, <1>4, MinLeast
<1>6. Min(T) \in Int /\ Min(T) <= moment /\ moment - 2 * DayLen <= Min(T)
  BY <1>3, <1>5
<1>7. ASSUME z.at < Min(T), ~(Min(T) <= DayLen * q - z.after)
      PROVE  FALSE
  <2> DEFINE first == DayLen * q - z.after
             u == IF first < z.at THEN z.at ELSE first
  <2>1. Local(z, moment) = moment + z.after /\ first \in Int
    BY <1>0, <1>2, <1>6, <1>7 DEF Local, Offset
  <2>2. u \in Int /\ u < Min(T) /\ first <= u /\ z.at <= u
    BY <1>0, <1>6, <1>7, <2>1
  <2>3. u <= moment /\ moment - DayLen < u
    BY <1>0, <1>2, <1>6, <2>1, <2>2
  <2>4. Local(z, u) = u + z.after
    BY <1>0, <2>2 DEF Local, Offset
  <2>5. DayLen * q <= Local(z, u) /\ Local(z, u) < DayLen * q + DayLen /\ Local(z, u) \in Int
    BY <1>0, <1>2, <2>1, <2>2, <2>3, <2>4
  <2> HIDE DEF u, q
  <2>6. Local(z, u) \div DayLen = q
    BY <1>2, <2>5, SameDay
  <2>7. u \in moment - 2 * DayLen..moment
    BY <1>0, <2>2, <2>3
  <2>8. u \in T
    BY <2>6, <2>7 DEF q
  <2> QED
    BY <1>5, <1>6, <2>2, <2>8
<1> QED
  BY <1>6, <1>7

\* A daily schedule runs at its time on the local clock: ComputeNextRunFull takes one of
\* two instants, and where the offset at dusk and a day ahead agree, that is the only one
\* at which the clock shows the time within a day from now.
LEMMA DailyOnClock ==
  ASSUME NEW z, HourZone(z), NEW moment \in Int, NEW m \in 0..DayLen - 1,
         NEW s, s.at = m, NEW r \in DailyNext(s, z, moment)
  PROVE  OnTheClock(m, z, moment, r)
<1> DEFINE here == Offset(z, moment)
           q == Local(z, moment) \div DayLen
           w == DayLen * q + m
           T == {t \in moment - 2 * DayLen..moment :
                   Local(z, t) \div DayLen = Local(z, moment) \div DayLen}
           dusk == Min(T) - 1
\* Numbers, for the provers.
<1>0. /\ DayLen \in Nat \ {0} /\ HourLen \in Nat \ {0} /\ HourLen <= DayLen /\ z.at \in Int
      /\ z.before \in {0, HourLen} /\ z.after \in {0, HourLen}
  <2>1. DayLen \in Nat \ {0} /\ HourLen \in Nat \ {0} /\ HourLen <= DayLen
    BY Lengths
  <2>2. \A k \in Int : HourLen * k \in Int
    BY <2>1, Z3
  <2> QED
    BY <2>1, <2>2 DEF HourZone
<1>1. /\ here \in {0, HourLen} /\ here \in {z.before, z.after}
      /\ moment < z.at => here = z.before
      /\ moment >= z.at => here = z.after
      /\ Local(z, moment) = moment + here
  BY <1>0 DEF Offset, Local
<1>2. PICK t \in InstantsOf(z, w) : r = IF t <= moment THEN t + DayLen ELSE t
  <2>1. w = q * DayLen + s.at
    <3>1. q \in Int
      BY <1>0, <1>1, DivBounds
    <3> QED
      BY <1>0, <3>1, Z3
  <2> QED
    BY <2>1 DEF DailyNext, DailyRuns
<1>3. PICK o \in {z.before, z.after} : t = w - o
  BY <1>2 DEF InstantsOf
<1>4. o \in Int /\ here \in Int
  BY <1>0, <1>1, <1>3
<1>5. /\ q \in Int /\ DayLen * q \in Int /\ w \in Int /\ t \in Int /\ r \in Int
      /\ DayLen * q <= moment + here /\ moment + here < DayLen * q + DayLen
      /\ (r + o) % DayLen = m
      /\ o = here => r \in moment + 1..moment + DayLen
  <2>1. q = (moment + here) \div DayLen
    BY <1>1
  <2>2. w = DayLen * q + m /\ r = IF t <= moment THEN t + DayLen ELSE t
    BY <1>2
  <2> HIDE DEF q, w, here
  <2>3. /\ q \in Int /\ DayLen * q \in Int
        /\ DayLen * q <= moment + here /\ moment + here < DayLen * q + DayLen
    BY <1>4, <2>1, DayBounds
  <2>4. t = DayLen * q + m - o /\ w \in Int
    BY <1>3, <1>4, <2>2, <2>3
  <2>5. t \in Int /\ r \in Int /\ DayLen * (q + 1) = DayLen * q + DayLen
    BY <1>0, <1>4, <2>2, <2>3, <2>4, Z3
  <2>6. (r + o) % DayLen = m
    <3>1. CASE t <= moment
      <4>1. r + o = DayLen * (q + 1) + m /\ q + 1 \in Int
        BY <1>0, <1>4, <2>2, <2>3, <2>4, <2>5, <3>1
      <4> QED
        BY <1>0, <4>1, DivOf
    <3>2. CASE ~(t <= moment)
      <4>1. r + o = DayLen * q + m
        BY <1>0, <1>4, <2>2, <2>3, <2>4, <2>5, <3>2
      <4> QED
        BY <1>0, <2>3, <4>1, DivOf
    <3> QED
      BY <3>1, <3>2
  <2>7. o = here => r \in moment + 1..moment + DayLen
    BY <1>0, <1>4, <2>2, <2>3, <2>4, <2>5
  <2> QED
    BY <2>3, <2>4, <2>5, <2>6, <2>7
<1>6. /\ dusk \in Int /\ dusk < moment
      /\ z.at <= dusk => dusk < DayLen * q - z.after
  <2>1. /\ Min(T) \in Int /\ Min(T) <= moment
        /\ z.at < Min(T) => Min(T) <= DayLen * q - z.after
    BY DuskBound
  <2> HIDE DEF q, T
  <2> QED
    BY <1>0, <1>5, <2>1
<1> HIDE DEF here, dusk
\* Which instant it is, when the wall clock shows w at one of the two only.
<1>7. ASSUME NEW p \in {z.before, z.after}, Local(z, w - p) = w,
             NEW other, {z.before, z.after} = {p, other},
             other # p => Local(z, w - other) # w
      PROVE  o = p
  <2>1. \A y \in {w - z.before, w - z.after} : Local(z, y) = w => y = w - p
    BY <1>7
  <2>2. InstantsOf(z, w) = {w - p}
    BY <1>7, <2>1, OneInstant
  <2> HIDE DEF w
  <2> QED
    BY <1>0, <1>2, <1>3, <1>5, <1>7, <2>2
<1> HIDE DEF q, w
<1>8. DayLen * q + m = w
  BY DEF w
<1>9. /\ DayLen * q > z.at => DayLen * q >= z.at + HourLen
      /\ DayLen * q + DayLen < z.at + HourLen => DayLen * q + DayLen <= z.at
  BY <1>5, FullHours, FullHoursBefore
<1>10. CASE Offset(z, dusk) = Offset(z, moment + DayLen)
  <2>1. o = here /\ Offset(z, r) = o
    <3>1. CASE z.before = z.after
      BY <1>1, <1>3, <3>1 DEF Offset
    <3>2. CASE z.at <= dusk
      <4>1. here = z.after /\ z.at < DayLen * q - z.after /\ z.at < w - z.after
        BY <1>0, <1>1, <1>5, <1>6, <1>8, <3>2
      <4>2. Local(z, w - z.after) = w
        BY <1>0, <1>5, <4>1 DEF Local, Offset
      <4>3. z.before # z.after => Local(z, w - z.before) # w
        BY <1>0, <1>5, <1>8, <1>9, <4>1 DEF Local, Offset
      <4>4. o = z.after
        BY <1>7, <4>2, <4>3
      <4>5. r \in moment + 1..moment + DayLen
        BY <1>5, <4>1, <4>4
      <4>6. r >= z.at
        BY <1>0, <1>5, <1>6, <3>2, <4>5
      <4> QED
        BY <1>0, <1>5, <4>1, <4>4, <4>6 DEF Offset
    <3>3. CASE moment + DayLen < z.at
      <4>1. here = z.before /\ w - z.before < z.at
        BY <1>0, <1>1, <1>5, <1>8, <3>3
      <4>2. Local(z, w - z.before) = w
        BY <1>0, <1>5, <4>1 DEF Local, Offset
      <4>3. z.before # z.after => Local(z, w - z.after) # w
        BY <1>0, <1>5, <1>8, <1>9, <3>3, <4>1 DEF Local, Offset
      <4>4. o = z.before
        BY <1>7, <4>2, <4>3
      <4>5. r \in moment + 1..moment + DayLen
        BY <1>5, <4>1, <4>4
      <4>6. r < z.at
        BY <1>0, <1>5, <3>3, <4>5
      <4> QED
        BY <1>0, <1>5, <4>1, <4>4, <4>6 DEF Offset
    <3>4. z.before = z.after \/ z.at <= dusk \/ moment + DayLen < z.at
      BY <1>0, <1>6, <1>10 DEF Offset
    <3> QED
      BY <3>1, <3>2, <3>3, <3>4
  <2>2. r \in moment + 1..moment + DayLen
    BY <1>5, <2>1
  <2>3. Min({y \in moment + 1..moment + DayLen : (y + o) % DayLen = m}) = r
    BY <1>4, <1>5, <2>2, OnceADay
  <2> QED
    BY <1>10, <2>1, <2>3 DEF OnTheClock, dusk
<1>11. CASE Offset(z, dusk) # Offset(z, moment + DayLen)
  <2>1. (r + z.before) % DayLen = m \/ (r + z.after) % DayLen = m
    BY <1>3, <1>5
  <2>2. ASSUME r <= moment
        PROVE  z.at \in r - DayLen + 1..moment /\ moment - r < z.before - z.after
    <3>1. t <= moment /\ r = t + DayLen
      BY <1>2, <1>5, <2>2
    <3>2. o = HourLen /\ here = 0
      BY <1>0, <1>1, <1>3, <1>5, <1>8, <2>2, <3>1
    <3>3. CASE moment < z.at
      <4>1. z.before = 0 /\ z.after = HourLen /\ w < z.at
        BY <1>0, <1>1, <1>3, <1>5, <2>2, <3>1, <3>2, <3>3
      <4>2. Local(z, w - z.before) = w
        BY <1>0, <1>5, <4>1 DEF Local, Offset
      <4>3. Local(z, w - z.after) # w
        BY <1>0, <1>5, <4>1 DEF Local, Offset
      <4> QED
        BY <1>0, <1>7, <3>2, <4>1, <4>2, <4>3
    <3>4. CASE z.at <= moment
      <4>1. z.after = 0 /\ z.before = HourLen
        BY <1>0, <1>1, <1>3, <3>2, <3>4
      <4>2. ASSUME z.at <= t PROVE FALSE
        <5>1. Local(z, w - z.after) = w
          BY <1>0, <1>3, <1>5, <3>2, <4>1, <4>2 DEF Local, Offset
        <5>2. Local(z, w - z.before) # w
          BY <1>0, <1>3, <1>5, <3>2, <4>1, <4>2 DEF Local, Offset
        <5> QED
          BY <1>0, <1>7, <3>2, <4>1, <5>1, <5>2
      <4>3. moment - r < HourLen
        BY <1>0, <1>3, <1>5, <1>8, <3>1, <3>2
      <4> QED
        BY <1>0, <1>5, <3>1, <3>4, <4>1, <4>2, <4>3
    <3> QED
      BY <1>0, <3>3, <3>4
  <2> QED
    BY <1>11, <2>1, <2>2 DEF OnTheClock, dusk
<1> QED
  BY <1>10, <1>11

-----------------------------------------------------------------------------
(* Cron schedules: what is parsed, and the search.                         *)

\* Parsed expressions: a field is a sequence of pieces, some of which are no numbers.
CronPiece == [base : {<<>>} \cup {<<n>> : n \in Nat} \cup {<<a, b>> : a, b \in Nat},
           step : Nat \cup {Missing}]
Field == Seq(CronPiece \cup {Missing})
Expression == [minute : Field, hour : Field, dom : Field, month : Field, dow : Field]

\* A piece that parses has a low end, a high end and a step.
LEMMA PieceRange ==
  ASSUME NEW p \in CronPiece, NEW min \in Nat, NEW max \in Nat
  PROVE  /\ Low(p, min) \in Nat /\ High(p, max) \in Nat
         /\ Stride(p) \in Nat
<1>1. Stride(p) \in Nat
  BY DEF CronPiece, Stride
<1>2. CASE p.base = <<>>
  BY <1>1, <1>2 DEF Low, High
<1>3. ASSUME NEW n \in Nat, p.base = <<n>>
      PROVE  Low(p, min) \in Nat /\ High(p, max) \in Nat
  BY <1>3 DEF Low, High
<1>4. ASSUME NEW a \in Nat, NEW b \in Nat, p.base = <<a, b>>
      PROVE  Low(p, min) \in Nat /\ High(p, max) \in Nat
  BY <1>4 DEF Low, High
<1> QED
  BY <1>1, <1>2, <1>3, <1>4 DEF CronPiece

\* The values a piece sets are those at whole steps from its low end.
LEMMA StepsFrom ==
  ASSUME NEW low \in Nat, NEW step \in Nat \ {0}, NEW v \in Nat, v >= low
  PROVE  (v - low) % step = 0 <=> \E k \in 0..v : v = low + k * step
<1>1. ASSUME (v - low) % step = 0
      PROVE  \E k \in 0..v : v = low + k * step
  <2> DEFINE k == (v - low) \div step
  <2>1. k \in Int /\ v - low = step * k + ((v - low) % step)
    BY DivBounds, DivRest
  <2> HIDE DEF k
  <2>2. v = low + k * step
    BY <1>1, <2>1, Z3
  <2>3. k >= 0 /\ k <= v
    BY <2>1, <2>2, Z3
  <2>4. k \in 0..v
    BY <2>1, <2>3
  <2> QED
    BY <2>2, <2>4
<1>2. ASSUME NEW k \in 0..v, v = low + k * step
      PROVE  (v - low) % step = 0
  <2>1. v - low = step * k + 0 /\ k \in Int /\ 0 \in 0..step - 1
    BY <1>2, Z3
  <2> QED
    BY <2>1, DivOf
<1> QED
  BY <1>1, <1>2

\* The values parseField sets are the values the field names.
LEMMA FieldNames ==
  ASSUME NEW field \in Field, NEW min \in Nat, NEW max \in Nat, FieldOK(field, min, max),
         NEW v \in min..max
  PROVE  v \in FieldValues(field, min, max) <=> Names(field, min, max, v)
<1>1. ASSUME NEW i \in DOMAIN field
      PROVE  /\ field[i] \in CronPiece /\ Stride(field[i]) \in Nat \ {0}
             /\ Low(field[i], min) \in Nat /\ High(field[i], max) \in Nat
  <2>1. PieceOK(field[i], min, max) /\ field[i] \in CronPiece \cup {Missing}
    BY DEF FieldOK, Field
  <2>2. field[i] \in CronPiece
    BY <2>1 DEF PieceOK
  <2>3. Stride(field[i]) > 0
    BY <2>1 DEF PieceOK
  <2> QED
    BY <2>2, <2>3, PieceRange
<1>2. ASSUME NEW i \in DOMAIN field
      PROVE  v \in PieceValues(field[i], min, max) <=>
               \E k \in 0..v : /\ v = Low(field[i], min) + k * Stride(field[i])
                               /\ v <= High(field[i], max)
  <2> DEFINE low == Low(field[i], min)
             step == Stride(field[i])
             high == High(field[i], max)
  <2>1. low \in Nat /\ step \in Nat \ {0} /\ high \in Nat /\ v \in Nat
    BY <1>1
  <2>2. v \in PieceValues(field[i], min, max) <=> v \in low..high /\ (v - low) % step = 0
    BY DEF PieceValues
  <2> HIDE DEF low, step, high
  <2>3. CASE v >= low
    <3>1. (v - low) % step = 0 <=> \E k \in 0..v : v = low + k * step
      BY <2>1, <2>3, StepsFrom
    <3>2. v \in low..high <=> v <= high
      BY <2>1, <2>3
    <3> QED
      BY <2>2, <3>1, <3>2 DEF low, step, high
  <2>4. CASE v < low
    <3>1. \A k \in 0..v : v # low + k * step
      BY <2>1, <2>4, Z3
    <3>2. v \notin low..high
      BY <2>1, <2>4
    <3> QED
      BY <2>2, <3>1, <3>2 DEF low, step
  <2> QED
    BY <2>1, <2>3, <2>4
<1>3. v \in FieldValues(field, min, max) <=>
        \E i \in DOMAIN field : v \in PieceValues(field[i], min, max)
  BY DEF FieldValues
<1> QED
  BY <1>2, <1>3 DEF Names

\* The field "*" names every value.
LEMMA StarNames ==
  ASSUME NEW min \in Nat, NEW max \in Nat, NEW v \in min..max
  PROVE  Names(Star, min, max, v)
<1>1. 1 \in DOMAIN Star /\ Star[1] = [base |-> <<>>, step |-> Missing]
  BY DEF Star
<1>2. Low(Star[1], min) = min /\ High(Star[1], max) = max /\ Stride(Star[1]) = 1
  BY <1>1 DEF Low, High, Stride
<1>3. v - min \in 0..v /\ v = min + (v - min) * 1 /\ v <= max
  OBVIOUS
<1> QED
  BY <1>1, <1>2, <1>3 DEF Names

\* Minute, hour, date and weekday of a time given as a day and a tick of that day.
LEMMA FieldsOfTime ==
  ASSUME NEW d \in Nat, NEW x \in 0..DayLen - 1, NEW t, t = DayLen * d + x
  PROVE  /\ t \in Nat /\ t \div DayLen = d
         /\ MinuteOf(t) = (x \div MinuteLen) % HourMinutes /\ t % MinuteLen = x % MinuteLen
         /\ HourOf(t) = x \div HourLen /\ MinuteOf(t) \in 0..HourMinutes - 1
         /\ HourOf(t) \in 0..DayHours - 1
         /\ DateOf(t) = OnDay(d) /\ WeekdayOf(t) = d % WeekDays
<1>0. /\ HourLen \in Nat \ {0} /\ DayLen \in Nat \ {0} /\ x \in Nat
      /\ MinuteLen \in Nat \ {0} /\ HourMinutes \in Nat \ {0} /\ DayHours \in Nat \ {0}
      /\ DayLen = HourLen * DayHours /\ HourLen = MinuteLen * HourMinutes
  BY Lengths
<1>1. t \in Nat
  BY <1>0, Z3
<1>2. t \div DayLen = d
  BY <1>0, DivOf
<1>3. /\ t \div HourLen = DayHours * d + (x \div HourLen)
      /\ x \div HourLen \in Int /\ x \div HourLen \in 0..DayHours - 1
  <2>1. PICK h \in Int, y \in 0..HourLen - 1 :
          HourLen * h \in Int /\ x = HourLen * h + y /\ x \div HourLen = h
    BY <1>0, DivParts
  <2>2. t = HourLen * (DayHours * d + h) + y /\ DayHours * d + h \in Int
    BY <1>0, <2>1, Z3
  <2>3. (HourLen * (DayHours * d + h) + y) \div HourLen = DayHours * d + h
    BY <1>0, <2>1, <2>2, DivOf
  <2>4. h >= 0
    BY <1>0, <2>1, Z3
  <2>5. ~(h >= DayHours)
    BY <1>0, <2>1, Z3
  <2>6. h \in 0..DayHours - 1
    BY <1>0, <2>1, <2>4, <2>5
  <2> QED
    BY <2>1, <2>2, <2>3, <2>6
<1>4. HourOf(t) = x \div HourLen
  <2>1. PICK h \in 0..DayHours - 1 : h = x \div HourLen
    BY <1>3
  <2>2. d \in Int
    OBVIOUS
  <2>3. (DayHours * d + h) \div DayHours = d /\ (DayHours * d + h) % DayHours = h
    BY <1>0, <2>2, DivOf
  <2> QED
    BY <1>3, <2>1, <2>3 DEF HourOf
<1>5. /\ t \div MinuteLen = HourMinutes * (DayHours * d) + (x \div MinuteLen)
      /\ t % MinuteLen = x % MinuteLen /\ x \div MinuteLen \in Int
  <2>1. PICK n \in Int, y \in 0..MinuteLen - 1 :
          x = MinuteLen * n + y /\ x \div MinuteLen = n /\ x % MinuteLen = y
    BY <1>0, DivParts
  <2> DEFINE k == HourMinutes * (DayHours * d) + n
  <2>2. t = MinuteLen * k + y /\ k \in Int
    BY <1>0, <2>1, Z3
  <2> HIDE DEF k
  <2>3. (MinuteLen * k + y) \div MinuteLen = k /\ (MinuteLen * k + y) % MinuteLen = y
    BY <1>0, <2>1, <2>2, DivOf
  <2> QED
    BY <2>1, <2>2, <2>3 DEF k
<1>6. MinuteOf(t) = (x \div MinuteLen) % HourMinutes /\ MinuteOf(t) \in 0..HourMinutes - 1
  <2>1. PICK u \in Int, v \in 0..HourMinutes - 1 :
          /\ HourMinutes * u \in Int /\ x \div MinuteLen = HourMinutes * u + v
          /\ (x \div MinuteLen) \div HourMinutes = u /\ (x \div MinuteLen) % HourMinutes = v
    BY <1>0, <1>5, DivParts
  <2> DEFINE w == DayHours * d + u
  <2>2. t \div MinuteLen = HourMinutes * w + v /\ w \in Int
    BY <1>0, <1>5, <2>1, Z3
  <2> HIDE DEF w
  <2>3. (HourMinutes * w + v) \div HourMinutes = w /\ (HourMinutes * w + v) % HourMinutes = v
    BY <1>0, <2>1, <2>2, DivOf
  <2> QED
    BY <2>1, <2>2, <2>3 DEF MinuteOf
<1>7. DateOf(t) = OnDay(d) /\ WeekdayOf(t) = d % WeekDays
  BY <1>2 DEF DateOf, OnDay, WeekdayOf
<1> QED
  BY <1>1, <1>2, <1>3, <1>4, <1>5, <1>6, <1>7

\* Every time is given that way.
LEMMA TimeParts ==
  ASSUME NEW t \in Nat
  PROVE  \E d \in Nat, x \in 0..DayLen - 1 : t = DayLen * d + x
<1>1. DayLen \in Nat \ {0}
  BY Lengths
<1>2. PICK d \in Int, x \in 0..DayLen - 1 :
        DayLen * d \in Int /\ t = DayLen * d + x /\ t \div DayLen = d /\ t % DayLen = x
  BY <1>1, DivParts
<1>3. d >= 0
  BY <1>1, <1>2, Z3
<1> QED
  BY <1>2, <1>3

\* The calendar repeats; every day has a date and a weekday.
LEMMA DayOfCalendar ==
  ASSUME NEW d \in Nat
  PROVE  /\ OnDay(d).dom \in 1..LastDom /\ OnDay(d).month \in 1..LastMonth
         /\ d % WeekDays \in 0..WeekDays - 1
<1> DEFINE L == Len(Calendar)
           i == (d % L) + 1
           D == [dom : 1..LastDom, month : 1..LastMonth]
<1>1. /\ Calendar \in Seq(D) /\ L \in Nat \ {0}
      /\ WeekDays \in Nat \ {0} /\ d \in Int
  BY CalendarAssumption DEF D
<1> HIDE DEF D
<1>2. Calendar \in [1..L -> D]
  BY <1>1
<1> HIDE DEF L
<1>3. PICK p \in Int, r \in 0..L - 1 :
        L * p \in Int /\ d = L * p + r /\ d \div L = p /\ d % L = r
  BY <1>1, DivParts
<1>4. PICK q \in Int, v \in 0..WeekDays - 1 :
        /\ WeekDays * q \in Int /\ d = WeekDays * q + v
        /\ d \div WeekDays = q /\ d % WeekDays = v
  BY <1>1, DivParts
<1>5. i \in 1..L
  BY <1>1, <1>3
<1> HIDE DEF i
<1>6. Calendar[i] \in [dom : 1..LastDom, month : 1..LastMonth]
  BY <1>2, <1>5 DEF D
<1>7. OnDay(d) = Calendar[i]
  BY DEF OnDay, i, L
<1> QED
  BY <1>4, <1>6, <1>7

\* What the parsed expression holds of a time is what the expression says of it.
LEMMA MatchSays ==
  ASSUME NEW e \in Expression, WellFormed(e), NEW t \in Nat, t % MinuteLen = 0
  PROVE  Match(ParseCron(e), t) <=> Says(e, t)
<1>1. PICK d \in Nat, x \in 0..DayLen - 1 : t = DayLen * d + x
  BY TimeParts
<1>2. /\ MinuteOf(t) \in 0..HourMinutes - 1 /\ HourOf(t) \in 0..DayHours - 1
      /\ DateOf(t).dom \in 1..LastDom /\ DateOf(t).month \in 1..LastMonth
      /\ WeekdayOf(t) \in 0..WeekDays - 1
  BY <1>1, FieldsOfTime, DayOfCalendar
<1>3. /\ HourMinutes \in Nat \ {0} /\ DayHours \in Nat \ {0} /\ LastDom \in Nat \ {0}
      /\ LastMonth \in Nat \ {0} /\ WeekDays \in Nat \ {0}
  BY CalendarAssumption
<1>4. /\ e.minute \in Field /\ e.hour \in Field /\ e.dom \in Field /\ e.month \in Field
      /\ e.dow \in Field
  BY DEF Expression
<1>5. HourMinutes - 1 \in Nat /\ DayHours - 1 \in Nat /\ 0 \in Nat /\ 1 \in Nat
  BY <1>3
<1> DEFINE c == ParseCron(e)
<1>6. /\ c.minute = FieldValues(e.minute, 0, HourMinutes - 1)
      /\ c.hour = FieldValues(e.hour, 0, DayHours - 1)
      /\ c.dom = FieldValues(e.dom, 1, LastDom)
      /\ c.month = FieldValues(e.month, 1, LastMonth)
      /\ c.dow = FoldSunday(FieldValues(e.dow, 0, WeekDays))
      /\ c.domSet = (e.dom # Star) /\ c.dowSet = (e.dow # Star)
  BY DEF ParseCron
<1>7. MinuteOf(t) \in c.minute <=> Names(e.minute, 0, HourMinutes - 1, MinuteOf(t))
  <2>1. FieldOK(e.minute, 0, HourMinutes - 1)
    BY DEF WellFormed
  <2> QED
    BY <1>2, <1>4, <1>5, <1>6, <2>1, FieldNames
<1>8. HourOf(t) \in c.hour <=> Names(e.hour, 0, DayHours - 1, HourOf(t))
  <2>1. FieldOK(e.hour, 0, DayHours - 1)
    BY DEF WellFormed
  <2> QED
    BY <1>2, <1>4, <1>5, <1>6, <2>1, FieldNames
<1>9. DateOf(t).month \in c.month <=> Names(e.month, 1, LastMonth, DateOf(t).month)
  <2>1. FieldOK(e.month, 1, LastMonth)
    BY DEF WellFormed
  <2> QED
    BY <1>2, <1>3, <1>4, <1>5, <1>6, <2>1, FieldNames
<1>10. DateOf(t).dom \in c.dom <=> Names(e.dom, 1, LastDom, DateOf(t).dom)
  <2>1. FieldOK(e.dom, 1, LastDom)
    BY DEF WellFormed
  <2> QED
    BY <1>2, <1>3, <1>4, <1>5, <1>6, <2>1, FieldNames
\* Sunday is 0 and the number of weekdays.
<1>11. WeekdayOf(t) \in c.dow <=>
         \/ Names(e.dow, 0, WeekDays, WeekdayOf(t))
         \/ WeekdayOf(t) = 0 /\ Names(e.dow, 0, WeekDays, WeekDays)
  <2> DEFINE named == FieldValues(e.dow, 0, WeekDays)
  <2>1. FieldOK(e.dow, 0, WeekDays)
    BY DEF WellFormed
  <2>2. \A v \in 0..WeekDays : v \in named <=> Names(e.dow, 0, WeekDays, v)
    BY <1>3, <1>4, <1>5, <2>1, FieldNames
  <2>3. /\ WeekdayOf(t) \in 0..WeekDays /\ WeekDays \in 0..WeekDays
        /\ WeekdayOf(t) # WeekDays
    BY <1>2, <1>3
  <2> HIDE DEF named
  <2>4. WeekdayOf(t) \in FoldSunday(named) <=>
          WeekdayOf(t) \in named \/ (WeekdayOf(t) = 0 /\ WeekDays \in named)
    BY <2>3 DEF FoldSunday
  <2> QED
    BY <1>6, <2>2, <2>3, <2>4 DEF named
<1>12. DayMatches(c, t) <=> NamesDay(e, t)
  <2>1. e.dom = Star => Names(e.dom, 1, LastDom, DateOf(t).dom)
    BY <1>2, <1>3, <1>5, StarNames
  <2>2. e.dow = Star => Names(e.dow, 0, WeekDays, WeekdayOf(t))
    <3>1. WeekdayOf(t) \in 0..WeekDays
      BY <1>2, <1>3
    <3> QED
      BY <1>3, <1>5, <3>1, StarNames
  <2> DEFINE dom == Names(e.dom, 1, LastDom, DateOf(t).dom)
             dow == \/ Names(e.dow, 0, WeekDays, WeekdayOf(t))
                    \/ WeekdayOf(t) = 0 /\ Names(e.dow, 0, WeekDays, WeekDays)
  <2>3. DayMatches(c, t) <=>
          (e.dom # Star /\ dom) \/ (e.dow # Star /\ dow) \/ (e.dom = Star /\ e.dow = Star)
    BY <1>6, <1>10, <1>11 DEF DayMatches
  <2>4. NamesDay(e, t) <=>
          IF e.dom = Star \/ e.dow = Star THEN dom /\ dow ELSE dom \/ dow
    BY DEF NamesDay
  <2>5. (e.dom = Star => dom) /\ (e.dow = Star => dow)
    BY <2>1, <2>2
  <2> HIDE DEF dom, dow
  <2> QED
    BY <2>3, <2>4, <2>5
<1> HIDE DEF c
<1>13. Match(c, t) <=> /\ MinuteOf(t) \in c.minute /\ HourOf(t) \in c.hour
                       /\ DateOf(t).month \in c.month /\ DayMatches(c, t)
  BY DEF Match
<1>14. Says(e, t) <=> /\ Names(e.minute, 0, HourMinutes - 1, MinuteOf(t))
                      /\ Names(e.hour, 0, DayHours - 1, HourOf(t))
                      /\ Names(e.month, 1, LastMonth, DateOf(t).month)
                      /\ NamesDay(e, t)
  BY DEF Says
<1> QED
  BY <1>7, <1>8, <1>9, <1>12, <1>13, <1>14 DEF c

\* A time said is said again among the minutes that are tried: on a day of the same date,
\* or of the same month and weekday.
LEMMA SaidAgain ==
  ASSUME NEW e \in Expression, NEW t \in Nat, Says(e, t), NEW first \in Nat,
         t < (WeekDays + 1) * Cycle + DayLen, first <= Cycle
  PROVE  \E u \in Nat : /\ first <= u /\ u < first + SearchLimit * MinuteLen
                        /\ Says(e, u)
<1>1. PICK d \in Nat, x \in 0..DayLen - 1 : t = DayLen * d + x
  BY TimeParts
<1>2. PICK from \in Nat, y \in 0..DayLen - 1 : first = DayLen * from + y
  BY TimeParts
<1> DEFINE L == Len(Calendar)
<1>3. /\ DayLen \in Nat \ {0} /\ MinuteLen \in Nat \ {0} /\ WeekDays \in Nat \ {0}
      /\ SearchLimit \in Nat \ {0} /\ L \in Nat \ {0}
      /\ Cycle = L * DayLen
  BY Lengths, CalendarAssumption DEF Cycle
<1> HIDE DEF L
<1>4. from \in 0..L /\ d \in 0..(WeekDays + 1) * L
  <2>1. ~(from > L)
    BY <1>2, <1>3, Z3
  <2>2. /\ (WeekDays + 1) * L \in Nat
        /\ (WeekDays + 1) * Cycle = DayLen * ((WeekDays + 1) * L)
    BY <1>3, Z3
  <2>3. DayLen * d < DayLen * ((WeekDays + 1) * L) + DayLen
    BY <1>1, <1>3, <2>2, Z3
  <2>4. ~(d > (WeekDays + 1) * L)
    <3> DEFINE n == (WeekDays + 1) * L
    <3>1. n \in Nat
      BY <2>2
    <3> HIDE DEF n
    <3>2. SUFFICES ASSUME d > n, DayLen * d < DayLen * n + DayLen PROVE FALSE
      BY <2>3 DEF n
    <3> QED
      BY <1>3, <3>1, <3>2, Z3
  <2> QED
    BY <1>3, <2>1, <2>2, <2>4
<1>5. ASSUME NEW c \in from + 1..from + SearchDays
      PROVE  /\ c \in Nat /\ DayLen * c + x \in Nat /\ first <= DayLen * c + x
             /\ DayLen * c + x < first + SearchLimit * MinuteLen
  <2> DEFINE all == SearchLimit * MinuteLen
             n == all \div DayLen
  <2>1. all \in Int
    BY <1>3, Z3
  <2> HIDE DEF all
  <2>2. n \in Int /\ DayLen * n <= all /\ SearchDays = n - 1
    BY <1>3, <2>1, DivBounds DEF SearchDays, all
  <2> HIDE DEF n
  <2>3. c \in Nat /\ c >= from + 1 /\ c <= from + n - 1
    BY <2>2
  <2>4. DayLen * c + x \in Nat /\ DayLen * (from + 1) <= DayLen * c
    BY <1>3, <2>3, Z3
  <2>5. DayLen * c + DayLen <= DayLen * from + DayLen * n
    BY <1>3, <2>2, <2>3, Z3
  <2>6. DayLen * (from + 1) = DayLen * from + DayLen /\ DayLen * from \in Int /\ DayLen * n \in Int
        /\ DayLen * c \in Int
    BY <1>3, <2>2, <2>3, Z3
  <2> QED
    BY <1>2, <1>3, <2>1, <2>2, <2>3, <2>4, <2>5, <2>6 DEF all
<1>6. ASSUME NEW c \in Nat, OnDay(c).month = OnDay(d).month,
             \/ OnDay(c).dom = OnDay(d).dom /\ c % WeekDays = d % WeekDays
             \/ OnDay(c).dom = OnDay(d).dom /\ (e.dow = Star \/
                  (e.dom # Star /\ Names(e.dom, 1, LastDom, OnDay(d).dom)))
             \/ c % WeekDays = d % WeekDays /\ (e.dom = Star \/
                  (e.dow # Star /\ ~Names(e.dom, 1, LastDom, OnDay(d).dom)))
      PROVE  Says(e, DayLen * c + x)
  <2> DEFINE u == DayLen * c + x
  <2>1. /\ MinuteOf(u) = MinuteOf(t) /\ HourOf(u) = HourOf(t)
        /\ u % MinuteLen = t % MinuteLen
        /\ DateOf(u) = OnDay(c) /\ WeekdayOf(u) = c % WeekDays
        /\ DateOf(t) = OnDay(d) /\ WeekdayOf(t) = d % WeekDays
    <3>1. /\ MinuteOf(t) = (x \div MinuteLen) % HourMinutes /\ t % MinuteLen = x % MinuteLen
          /\ HourOf(t) = x \div HourLen /\ DateOf(t) = OnDay(d) /\ WeekdayOf(t) = d % WeekDays
      BY <1>1, FieldsOfTime
    <3>2. /\ MinuteOf(u) = (x \div MinuteLen) % HourMinutes /\ u % MinuteLen = x % MinuteLen
          /\ HourOf(u) = x \div HourLen /\ DateOf(u) = OnDay(c) /\ WeekdayOf(u) = c % WeekDays
      BY FieldsOfTime
    <3> QED
      BY <3>1, <3>2
  <2>2. /\ OnDay(c).dom \in 1..LastDom /\ c % WeekDays \in 0..WeekDays
    BY <1>3, DayOfCalendar
  <2>3. /\ e.dom = Star => Names(e.dom, 1, LastDom, OnDay(c).dom)
        /\ e.dow = Star => Names(e.dow, 0, WeekDays, c % WeekDays)
    BY <1>3, <2>2, CalendarAssumption, StarNames
  <2>4. NamesDay(e, t)
    BY DEF Says
  <2> DEFINE Dom(v) == Names(e.dom, 1, LastDom, v)
             Dow(v) == Names(e.dow, 0, WeekDays, v) \/ (v = 0 /\ Names(e.dow, 0, WeekDays, WeekDays))
  <2>5. IF e.dom = Star \/ e.dow = Star THEN Dom(OnDay(d).dom) /\ Dow(d % WeekDays)
        ELSE Dom(OnDay(d).dom) \/ Dow(d % WeekDays)
    BY <2>1, <2>4 DEF NamesDay
  <2>6. NamesDay(e, u) <=>
          IF e.dom = Star \/ e.dow = Star THEN Dom(OnDay(c).dom) /\ Dow(c % WeekDays)
          ELSE Dom(OnDay(c).dom) \/ Dow(c % WeekDays)
    BY <2>1 DEF NamesDay
  <2>7. (e.dom = Star => Dom(OnDay(c).dom)) /\ (e.dow = Star => Dow(c % WeekDays))
    BY <2>3
  <2>8. \/ OnDay(c).dom = OnDay(d).dom /\ c % WeekDays = d % WeekDays
        \/ OnDay(c).dom = OnDay(d).dom /\ (e.dow = Star \/ (e.dom # Star /\ Dom(OnDay(d).dom)))
        \/ c % WeekDays = d % WeekDays /\ (e.dom = Star \/ (e.dow # Star /\ ~Dom(OnDay(d).dom)))
    BY <1>6
  <2> HIDE DEF Dom, Dow, u
  <2>9. NamesDay(e, u)
    BY <2>5, <2>6, <2>7, <2>8
  <2>10. Says(e, u)
    BY <1>6, <2>1, <2>9 DEF Says
  <2> QED
    BY <2>10 DEF u
<1>7. CASE e.dow = Star \/ (e.dom # Star /\ Names(e.dom, 1, LastDom, OnDay(d).dom))
  <2>1. PICK c \in from + 1..from + SearchDays : OnDay(c) = OnDay(d)
    BY <1>4, SearchAssumption DEF L
  <2>2. c \in Nat
    BY <1>5
  <2>3. Says(e, DayLen * c + x)
    BY <1>6, <1>7, <2>1, <2>2
  <2> QED
    BY <1>5, <2>3
<1>8. CASE ~(e.dow = Star \/ (e.dom # Star /\ Names(e.dom, 1, LastDom, OnDay(d).dom)))
  <2>1. PICK c \in from + 1..from + SearchDays :
          OnDay(c).month = OnDay(d).month /\ c % WeekDays = d % WeekDays
    BY <1>4, SearchAssumption DEF L
  <2>2. c \in Nat
    BY <1>5
  <2>3. Says(e, DayLen * c + x)
    BY <1>6, <1>8, <2>1, <2>2
  <2> QED
    BY <1>5, <2>3
<1> QED
  BY <1>7, <1>8

\* The minute after a time, from which the search goes on, is within the cycle.
LEMMA FirstMinute ==
  ASSUME NEW moment \in 0..Cycle - 1
  PROVE  \E k \in Nat : /\ k = moment \div MinuteLen
                        /\ MinuteLen * k \in Nat /\ MinuteLen * k <= moment
                        /\ moment < MinuteLen * k + MinuteLen
                        /\ (k + 1) * MinuteLen = MinuteLen * k + MinuteLen
                        /\ MinuteLen * k + MinuteLen <= Cycle
<1> DEFINE n == HourMinutes * (DayHours * Len(Calendar))
<1>1. /\ MinuteLen \in Nat \ {0} /\ HourMinutes \in Nat \ {0} /\ DayHours \in Nat \ {0}
      /\ Len(Calendar) \in Nat
  BY CalendarAssumption
<1>2. n \in Int /\ Cycle = MinuteLen * n /\ MinuteLen * n \in Int
  BY <1>1, Z3 DEF Cycle, DayLen, HourLen
<1> HIDE DEF n
<1>3. PICK k \in Int, y \in 0..MinuteLen - 1 :
        MinuteLen * k \in Int /\ moment = MinuteLen * k + y /\ moment \div MinuteLen = k
  BY <1>1, <1>2, DivParts
<1>4. k >= 0
  BY <1>1, <1>2, <1>3, Z3
<1>5. MinuteLen * k >= 0 /\ (k + 1) * MinuteLen = MinuteLen * k + MinuteLen
  BY <1>1, <1>3, <1>4, Z3
<1>6. MinuteLen * k <= moment /\ moment < MinuteLen * k + MinuteLen
  BY <1>1, <1>2, <1>3
<1>7. MinuteLen * k < MinuteLen * n
  BY <1>2, <1>3, <1>6
<1>8. MinuteLen * k + MinuteLen <= MinuteLen * n
  BY <1>1, <1>2, <1>3, <1>7, Multiples
<1>9. k \in Nat /\ MinuteLen * k \in Nat
  BY <1>3, <1>4, <1>5
<1> QED
  BY <1>2, <1>3, <1>5, <1>6, <1>8, <1>9

\* The full minutes after a time are the ones the search tries, one by one.
LEMMA MinutesAfter ==
  ASSUME NEW k \in Nat, NEW moment \in Nat, MinuteLen * k <= moment,
         NEW t \in Nat, t > moment, t % MinuteLen = 0
  PROVE  \E j \in Nat : t = MinuteLen * k + MinuteLen + j * MinuteLen
<1>1. MinuteLen \in Nat \ {0}
  BY CalendarAssumption
<1>2. PICK q \in Int, y \in 0..MinuteLen - 1 :
        MinuteLen * q \in Int /\ t = MinuteLen * q + y /\ t \div MinuteLen = q /\ t % MinuteLen = y
  BY <1>1, DivParts
<1>3. t = MinuteLen * q
  BY <1>2
<1>4. q > k
  BY <1>1, <1>2, <1>3, Z3
<1>5. q - k - 1 \in Nat
  BY <1>2, <1>4
<1>6. t = MinuteLen * k + MinuteLen + (q - k - 1) * MinuteLen
  BY <1>1, <1>2, <1>3, Z3
<1> QED
  BY <1>5, <1>6

\* What the search tries are full minutes.
LEMMA MinuteOn ==
  ASSUME NEW k \in Nat, NEW j \in Nat
  PROVE  /\ MinuteLen * k + MinuteLen + j * MinuteLen \in Nat
         /\ (MinuteLen * k + MinuteLen + j * MinuteLen) % MinuteLen = 0
<1>1. MinuteLen \in Nat \ {0} /\ 0 \in 0..MinuteLen - 1
  BY CalendarAssumption
<1>2. /\ MinuteLen * k + MinuteLen + j * MinuteLen \in Nat
      /\ MinuteLen * k + MinuteLen + j * MinuteLen = MinuteLen * (k + 1 + j) + 0
      /\ k + 1 + j \in Int
  BY <1>1, Z3
<1>3. /\ (MinuteLen * (k + 1 + j) + 0) \div MinuteLen = k + 1 + j
      /\ (MinuteLen * (k + 1 + j) + 0) % MinuteLen = 0
  BY <1>1, <1>2, DivOf
<1> QED
  BY <1>2, <1>3

\* Cron.Next returns the first time after now that the expression says, and nothing only
\* when it says none for a whole cycle of years: what it says later, it says among the
\* minutes that are tried.
LEMMA CronSaid ==
  ASSUME NEW s, s.expr \in Expression, WellFormed(s.expr), NEW moment \in 0..Cycle - 1
  PROVE  FirstSaid(s.expr, moment, CronRunNext(s, moment))
<1> DEFINE e == s.expr
           c == ParseCron(e)
           said == {t \in moment + 1..moment + WeekDays * Cycle : Says(e, t)}
<1>1. PICK k \in Nat : /\ k = moment \div MinuteLen
                       /\ MinuteLen * k \in Nat /\ MinuteLen * k <= moment
                       /\ moment < MinuteLen * k + MinuteLen
                       /\ (k + 1) * MinuteLen = MinuteLen * k + MinuteLen
                       /\ MinuteLen * k + MinuteLen <= Cycle
  BY FirstMinute
<1> DEFINE first == MinuteLen * k + MinuteLen
           found == {i \in 0..SearchLimit - 1 : Match(c, first + i * MinuteLen)}
<1>2. /\ MinuteLen \in Nat \ {0} /\ WeekDays \in Nat \ {0} /\ SearchLimit \in Nat \ {0}
      /\ DayLen \in Nat \ {0} /\ Len(Calendar) \in Nat
  BY CalendarAssumption, Lengths
<1>3. Cycle \in Nat /\ WeekDays * Cycle \in Nat /\ (WeekDays + 1) * Cycle = WeekDays * Cycle + Cycle
  <2>1. Cycle \in Nat
    BY <1>2, Z3 DEF Cycle
  <2> QED
    BY <1>2, <2>1, Z3
<1>4. first \in Nat /\ moment \in Nat /\ moment < first /\ first <= Cycle
  BY <1>1, <1>2, <1>3
<1>5. CronNext(c, moment) = IF found = {} THEN Missing ELSE first + Min(found) * MinuteLen
  BY <1>1 DEF CronNext
<1>6. CronRunNext(s, moment) = LET next == CronNext(c, moment)
                            IN  IF next = Missing THEN moment + HourLen ELSE next
  BY DEF CronRunNext
<1>7. e \in Expression /\ WellFormed(e)
  OBVIOUS
<1> HIDE DEF e, c
<1>8. ASSUME NEW i \in 0..SearchLimit - 1
      PROVE  i \in found <=> Says(e, first + i * MinuteLen)
  <2>1. i \in Nat
    BY <1>2
  <2>2. first + i * MinuteLen \in Nat /\ (first + i * MinuteLen) % MinuteLen = 0
    BY <2>1, MinuteOn
  <2>3. Match(c, first + i * MinuteLen) <=> Says(e, first + i * MinuteLen)
    BY <1>7, <2>2, MatchSays DEF c
  <2> QED
    BY <2>3
<1>9. ASSUME NEW t \in Nat, t > moment, Says(e, t)
      PROVE  \E j \in Nat : t = first + j * MinuteLen
  <2>1. t % MinuteLen = 0
    BY <1>9 DEF Says
  <2> QED
    BY <1>1, <1>4, <1>9, <2>1, MinutesAfter
<1>10. CASE found # {}
  <2> DEFINE i0 == Min(found)
             t0 == first + i0 * MinuteLen
  <2>1. i0 \in found /\ \A i \in found : i0 <= i
    <3>1. found \subseteq Int /\ 0 \in Int /\ \A i \in found : 0 <= i
      BY <1>2
    <3> HIDE DEF found
    <3> QED
      BY <1>10, <3>1, MinLeast
  <2>2. i0 \in 0..SearchLimit - 1
    BY <2>1
  <2> HIDE DEF i0
  <2>3. Says(e, t0)
    BY <1>8, <2>1, <2>2
  <2> HIDE DEF found, first
  <2>4. /\ i0 * MinuteLen \in Nat /\ i0 * MinuteLen + MinuteLen <= SearchLimit * MinuteLen
        /\ SearchLimit * MinuteLen \in Nat
    BY <1>2, <2>2, Z3
  <2>5. t0 \in said
    <3>1. SearchLimit * MinuteLen <= WeekDays * Cycle
      BY SearchAssumption
    <3>2. first = MinuteLen * k + MinuteLen
      BY DEF first
    <3>3. t0 \in moment + 1..moment + WeekDays * Cycle
      BY <1>1, <1>2, <1>3, <1>4, <2>4, <3>1, <3>2
    <3> QED
      BY <2>3, <3>3
  <2>6. ASSUME NEW t \in said PROVE t0 <= t
    <3>1. t \in Nat /\ t > moment /\ Says(e, t)
      BY <1>3, <1>4
    <3>2. PICK j \in Nat : t = first + j * MinuteLen
      BY <1>9, <3>1
    <3>3. j <= SearchLimit - 1 => j \in found
      BY <1>2, <1>8, <3>1, <3>2
    <3>4. i0 <= j
      BY <1>2, <2>1, <2>2, <3>3
    <3>5. i0 * MinuteLen <= j * MinuteLen /\ j * MinuteLen \in Nat
      BY <1>2, <2>2, <3>4, Z3
    <3> QED
      BY <1>4, <2>4, <3>2, <3>5
  <2>7. t0 \in Int /\ said \subseteq Int /\ moment \in Int /\ \A t \in said : moment <= t
    BY <1>3, <1>4, <2>4
  <2> HIDE DEF t0, said
  <2>8. Min(said) \in said /\ \A t \in said : Min(said) <= t
    BY <2>5, <2>7, MinLeast
  <2>9. Min(said) = t0
    <3> DEFINE m == Min(said)
    <3>1. m \in said
      BY <2>8
    <3>2. m <= t0
      BY <2>5, <2>8
    <3> HIDE DEF m
    <3>3. t0 <= m /\ m \in Int
      BY <2>6, <2>7, <3>1
    <3>4. m = t0
      BY <2>7, <3>2, <3>3
    <3> QED
      BY <3>4 DEF m
  <2>10. CronNext(c, moment) = t0 /\ t0 # Missing
    BY <1>5, <1>10, <2>7, CalendarAssumption DEF t0, i0
  <2>11. CronRunNext(s, moment) = t0
    BY <1>6, <2>10
  <2> QED
    BY <2>5, <2>9, <2>11 DEF FirstSaid, said, e
<1>11. CASE found = {}
  <2>1. ASSUME NEW t \in said PROVE FALSE
    <3>1. t \in Nat /\ Says(e, t) /\ t < (WeekDays + 1) * Cycle + DayLen
      BY <1>2, <1>3, <1>4
    <3>2. PICK u \in Nat : first <= u /\ u < first + SearchLimit * MinuteLen /\ Says(e, u)
      BY <1>4, <1>7, <3>1, SaidAgain
    <3>3. u > moment
      BY <1>4, <3>2
    <3>4. PICK j \in Nat : u = first + j * MinuteLen
      BY <1>9, <3>2, <3>3
    <3> HIDE DEF first
    <3>5. j * MinuteLen < SearchLimit * MinuteLen
      BY <1>2, <1>4, <3>2, <3>4, Z3
    <3>6. j < SearchLimit
      BY <1>2, <3>4, <3>5, Z3
    <3>7. j \in 0..SearchLimit - 1
      BY <1>2, <3>6
    <3>8. j \in found
      BY <1>8, <3>2, <3>4, <3>7
    <3> QED
      BY <1>11, <3>8
  <2>2. said = {}
    BY <2>1
  <2> HIDE DEF said
  <2>3. CronRunNext(s, moment) = moment + HourLen
    BY <1>5, <1>6, <1>11
  <2> QED
    BY <2>2, <2>3 DEF FirstSaid, said, e
<1> QED
  BY <1>10, <1>11

-----------------------------------------------------------------------------
(* The calls of ComputeNextRunFull.                                        *)

\* What the expressions a cron schedule is created with are made of.
LEMMA DayExprTypes ==
  ASSUME NEW e \in DayExprs \cup TimeExprs
  PROVE  e \in Expression
<1>1. \A n \in Nat : Once(n) \in CronPiece /\ Every(n) \in CronPiece
  BY DEF Once, Every, CronPiece
<1>2. \A n, m \in Nat : Span(n, m) \in CronPiece
  BY DEF Span, CronPiece
<1>3. [base |-> <<>>, step |-> Missing] \in CronPiece
  BY DEF CronPiece
<1> DEFINE Q == CronPiece \cup {Missing}
<1>4. \A p \in Q : <<p>> \in Seq(Q)
  OBVIOUS
<1>5. \A p, q \in Q : <<p, q>> \in Seq(Q)
  OBVIOUS
<1>6. LastDom \in Nat
  BY CalendarAssumption
<1>7. /\ Once(0) \in Q /\ Once(1) \in Q /\ Once(2) \in Q /\ Once(3) \in Q /\ Once(4) \in Q
      /\ Once(LastDom + 1) \in Q /\ Once(WeekDays) \in Q /\ Every(0) \in Q /\ Every(1) \in Q
      /\ Every(2) \in Q /\ Span(1, 2) \in Q /\ Span(2, 1) \in Q /\ Span(0, 5) \in Q
      /\ Missing \in Q
  <2>1. LastDom + 1 \in Nat /\ WeekDays \in Nat
    BY CalendarAssumption
  <2> QED
    BY <1>1, <1>2, <2>1
<1>8. All \in Field
  BY <1>3, <1>4 DEF All, Star, Field
<1> HIDE DEF Q
<1>9. DayFields \subseteq Field
  BY <1>4, <1>7, <1>8 DEF DayFields, Field, Q
<1>10. WeekdayFields \subseteq Field
  BY <1>4, <1>7, <1>8 DEF WeekdayFields, Field, Q
<1>11. TimeFields \subseteq Field
  BY <1>4, <1>5, <1>7, <1>8 DEF TimeFields, Field, Q
<1>12. <<Once(0)>> \in Field /\ <<Once(1)>> \in Field /\ <<Once(2)>> \in Field
  BY <1>4, <1>7 DEF Field, Q
<1>13. \A minute, hour, dom, month, dow \in Field : Expr(minute, hour, dom, month, dow) \in Expression
  BY DEF Expr, Expression
<1>14. CASE e \in DayExprs
  <2>1. PICK dom \in DayFields, month \in {All, <<Once(2)>>}, dow \in WeekdayFields :
          e = Expr(<<Once(1)>>, <<Once(0)>>, dom, month, dow)
    BY <1>14 DEF DayExprs
  <2>2. dom \in Field /\ month \in Field /\ dow \in Field
    BY <1>8, <1>9, <1>10, <1>12
  <2> QED
    BY <1>12, <1>13, <2>1, <2>2
<1>15. CASE e \in TimeExprs
  <2>1. PICK minute \in TimeFields, hour \in TimeFields, dow \in {All, <<Once(1)>>} :
          e = Expr(minute, hour, All, All, dow)
    BY <1>15 DEF TimeExprs
  <2>2. minute \in Field /\ hour \in Field /\ dow \in Field
    BY <1>8, <1>11, <1>12
  <2> QED
    BY <1>8, <1>13, <2>1, <2>2
<1> QED
  BY <1>14, <1>15

\* The cron schedules of the instance.
LEMMA CronCall ==
  ASSUME NEW s \in Crons
  PROVE  s.kind = "cron" /\ s.expr \in Expression /\ WellFormed(s.expr)
<1>1. PICK e \in DayExprs \cup TimeExprs :
        WellFormed(e) /\ s = [Schedule("cron") EXCEPT !.expr = e]
  BY DEF Crons
<1>2. s.kind = "cron" /\ s.expr = e
  BY <1>1 DEF Schedule
<1> QED
  BY <1>1, <1>2, DayExprTypes

\* The daily schedules and the zones of the instance.
LEMMA DailyCall ==
  ASSUME NEW s \in Dailies, NEW z \in Zones
  PROVE  s.kind = "daily" /\ s.at \in 0..DayLen - 1 /\ HourZone(z)
<1>1. PICK m \in 0..DayHours * HourMinutes - 1 :
        s = [Schedule("daily") EXCEPT !.at = m * MinuteLen]
  BY DEF Dailies
<1>2. s.kind = "daily" /\ s.at = m * MinuteLen
  BY <1>1 DEF Schedule
<1>3. m * MinuteLen \in 0..DayLen - 1
  <2>1. /\ MinuteLen \in Nat \ {0} /\ HourMinutes \in Nat \ {0} /\ DayHours \in Nat \ {0}
        /\ DayLen = HourLen * DayHours /\ HourLen = MinuteLen * HourMinutes
    BY Lengths
  <2>2. /\ DayHours * HourMinutes \in Nat
        /\ DayLen = (DayHours * HourMinutes) * MinuteLen /\ DayLen \in Nat
    BY <2>1, Z3
  <2> DEFINE n == DayHours * HourMinutes
  <2> HIDE DEF n
  <2>3. m \in Nat /\ m < n /\ n \in Nat /\ DayLen = n * MinuteLen
    BY <2>2 DEF n
  <2>4. m * MinuteLen \in Nat /\ m * MinuteLen < n * MinuteLen
    BY <2>1, <2>3, Z3
  <2> QED
    BY <2>2, <2>3, <2>4
<1>4. PICK h \in 0..DayHours, b \in 0..1, a \in 0..1 :
        z = [at |-> DayLen + h * HourLen, before |-> b * HourLen, after |-> a * HourLen]
  BY DEF Zones
<1>5. HourZone(z)
  <2>1. HourLen \in Nat \ {0} /\ DayHours \in Nat \ {0} /\ DayLen = HourLen * DayHours
    BY Lengths
  <2>2. DayLen + h * HourLen = HourLen * (DayHours + h) /\ DayHours + h \in Int
    BY <2>1, Z3
  <2>3. b * HourLen \in {0, HourLen} /\ a * HourLen \in {0, HourLen}
    BY <2>1, Z3
  <2> QED
    BY <1>4, <2>2, <2>3 DEF HourZone
<1> QED
  BY <1>2, <1>3, <1>5

\* A call of ComputeNextRunFull has an input of the instance, and once it has returned,
\* one of the results the code allows.
NextRunInv ==
  call.fn = "ComputeNextRunFull" =>
    /\ call = [fn |-> "ComputeNextRunFull", input |-> call.input, result |-> call.result]
    /\ call.input \in NextRunCalls
    /\ call.result # Missing =>
         call.result \in ComputeNextRun(call.input.schedule, call.input.zone, call.input.now,
                                        call.input.anchor)

\* It is an invariant of the calls.
LEMMA NextRunInvariant == CallSpec => []NextRunInv
<1>1. CallInit => NextRunInv
  <2> SUFFICES ASSUME CallInit PROVE NextRunInv
    OBVIOUS
  <2>1. CASE call.fn # "ComputeNextRunFull"
    BY <2>1 DEF NextRunInv
  <2>2. CASE call.fn = "ComputeNextRunFull"
    <3>1. PICK in \in NextRunCalls :
            call = [fn |-> "ComputeNextRunFull", input |-> in, result |-> Missing]
      BY <2>2 DEF CallInit, Calling
    <3>2. call.input = in /\ call.result = Missing /\ call.fn = "ComputeNextRunFull"
      BY <3>1
    <3> QED
      BY <3>1, <3>2 DEF NextRunInv
  <2> QED
    BY <2>1, <2>2
<1>2. NextRunInv /\ [CallNext]_call => NextRunInv'
  <2> SUFFICES ASSUME NextRunInv, [CallNext]_call PROVE NextRunInv'
    OBVIOUS
  <2>1. CASE ReturnNextRun
    <3>1. PICK t \in ComputeNextRun(call.input.schedule, call.input.zone, call.input.now,
                                    call.input.anchor) :
            call' = [call EXCEPT !.result = t]
      BY <2>1 DEF ReturnNextRun
    <3>2. call = [fn |-> "ComputeNextRunFull", input |-> call.input, result |-> call.result]
          /\ call.input \in NextRunCalls
      BY <2>1 DEF ReturnNextRun, NextRunInv
    <3>3. PICK in \in NextRunCalls : in = call.input
      BY <3>2
    <3>4. call' = [fn |-> "ComputeNextRunFull", input |-> in, result |-> t]
      BY <3>1, <3>2, <3>3
    <3>5. call'.input = in /\ call'.result = t
      BY <3>4
    <3>6. t \in ComputeNextRun(in.schedule, in.zone, in.now, in.anchor)
      BY <3>1, <3>3
    <3> QED
      BY <3>4, <3>5, <3>6 DEF NextRunInv
  <2>2. CASE FillCell \/ WalkOn \/ ScanOn
    <3>1. call.fn = "unifiedDiff" /\ \E next : call' = [call EXCEPT !.result = next]
      BY <2>2 DEF FillCell, WalkOn, ScanOn
    <3>2. call'.fn = call.fn
      BY <3>1
    <3> QED
      BY <3>1, <3>2 DEF NextRunInv
  <2>3. CASE NextStart
    <3>1. call.fn = "StartTask" /\ call'.fn = call.fn
      BY <2>3 DEF NextStart
    <3> QED
      BY <3>1 DEF NextRunInv
  <2>4. CASE UNCHANGED call
    BY <2>4 DEF NextRunInv
  <2> QED
    BY <2>1, <2>2, <2>3, <2>4 DEF CallNext
<1> QED
  BY <1>1, <1>2, PTL DEF CallSpec

\* An input of the instance is of the kind its schedule is of.
LEMMA CallKinds ==
  ASSUME NEW in \in NextRunCalls
  PROVE  /\ in.schedule.kind = "cron" => in.schedule \in Crons /\ in.now \in 0..Cycle - 1
         /\ in.schedule.kind = "daily" =>
              in.schedule \in Dailies /\ in.zone \in Zones /\ in.now \in Int
<1>1. CASE \E s \in Crons, moment \in Nows :
             in = [schedule |-> s, zone |-> Plain, now |-> moment, anchor |-> moment]
  <2>1. PICK s \in Crons, moment \in Nows :
          in = [schedule |-> s, zone |-> Plain, now |-> moment, anchor |-> moment]
    BY <1>1
  <2>2. in.schedule = s /\ in.now = moment /\ s.kind = "cron"
    BY <2>1, CronCall
  <2> QED
    BY <2>2 DEF Nows
<1>2. CASE \E s \in Dailies, z \in Zones, moment \in DayLen..4 * DayLen :
             in = [schedule |-> s, zone |-> z, now |-> moment, anchor |-> moment]
  <2>1. PICK s \in Dailies, z \in Zones, moment \in DayLen..4 * DayLen :
          in = [schedule |-> s, zone |-> z, now |-> moment, anchor |-> moment]
    BY <1>2
  <2>2. in.schedule = s /\ in.now = moment /\ in.zone = z /\ s.kind = "daily"
    BY <2>1, DailyCall
  <2>3. moment \in Int
    BY Lengths
  <2> QED
    BY <2>2, <2>3
<1>3. CASE \E s \in Intervals \cup {Schedule("oneoff")}, moment \in 0..2,
              anchor \in {Missing, 0, 1, 2} :
             in = [schedule |-> s, zone |-> Plain, now |-> moment, anchor |-> anchor]
  <2>1. PICK s \in Intervals \cup {Schedule("oneoff")} : in.schedule = s
    BY <1>3
  <2>2. s.kind \in {"interval", "oneoff"}
    BY DEF Intervals, Schedule
  <2> QED
    BY <2>1, <2>2
<1> QED
  BY <1>1, <1>2, <1>3 DEF NextRunCalls

\* A cron schedule runs next at the first time its expression names, an hour later if it
\* names no date of the calendar: the day rules of ParseCron and Match agree with the
\* grammar, and the search neither skips a minute nor stops too early.
THEOREM CronNextFirstHolds == CallSpec => []CronNextFirst
<1>1. NextRunInv => CronNextFirst
  <2> SUFFICES ASSUME NextRunInv, RunComputed("cron")
               PROVE  FirstSaid(call.input.schedule.expr, call.input.now, call.result)
    BY DEF CronNextFirst
  <2>1. /\ call.input \in NextRunCalls /\ call.input.schedule.kind = "cron"
        /\ call.result \in ComputeNextRun(call.input.schedule, call.input.zone, call.input.now,
                                          call.input.anchor)
    BY DEF NextRunInv, RunComputed
  <2>2. PICK s \in Crons : s = call.input.schedule /\ call.input.now \in 0..Cycle - 1
    BY <2>1, CallKinds
  <2>3. call.result = CronRunNext(s, call.input.now)
    BY <2>1, <2>2 DEF ComputeNextRun
  <2>4. FirstSaid(s.expr, call.input.now, CronRunNext(s, call.input.now))
    BY <2>2, CronCall, CronSaid
  <2> QED
    BY <2>2, <2>3, <2>4
<1> QED
  BY <1>1, NextRunInvariant, PTL

\* A daily schedule stays at its hour and minute on the local clock, in any zone whose
\* clock is changed at a full hour, and its next run lies in the past only in the hours a
\* long day repeats.
THEOREM DailyOnTheClockHolds == CallSpec => []DailyOnTheClock
<1>1. NextRunInv => DailyOnTheClock
  <2> SUFFICES ASSUME NextRunInv, RunComputed("daily")
               PROVE  OnTheClock(call.input.schedule.at, call.input.zone, call.input.now,
                                 call.result)
    BY DEF DailyOnTheClock
  <2>1. /\ call.input \in NextRunCalls /\ call.input.schedule.kind = "daily"
        /\ call.result \in ComputeNextRun(call.input.schedule, call.input.zone, call.input.now,
                                          call.input.anchor)
    BY DEF NextRunInv, RunComputed
  <2>2. PICK s \in Dailies, z \in Zones :
          s = call.input.schedule /\ z = call.input.zone /\ call.input.now \in Int
    BY <2>1, CallKinds
  <2>3. call.result \in DailyNext(s, z, call.input.now)
    BY <2>1, <2>2 DEF ComputeNextRun
  <2>4. s.at \in 0..DayLen - 1 /\ HourZone(z)
    BY DailyCall
  <2>5. OnTheClock(s.at, z, call.input.now, call.result)
    BY <2>2, <2>3, <2>4, DailyOnClock
  <2> QED
    BY <2>2, <2>5
<1> QED
  BY <1>1, NextRunInvariant, PTL

-----------------------------------------------------------------------------
(* The keys that a series of starts picks.                                 *)

\* The rows of the picker's table.
Stamps == Nat \cup {Missing}
Plans == {"trial", "free", "paid"}
States == {"active", "quota_exhausted"}
PoolRow == [plan : Plans, state : States, cooldown : Stamps, used : Stamps]
PoolTable == [1..PoolSize -> PoolRow]

\* The four places of the order of the picks.
LEMMA SortKeyPlaces ==
  ASSUME NEW table \in PoolTable, NEW k \in 1..PoolSize
  PROVE  /\ SortKey(table, k)[1] \in Nat /\ SortKey(table, k)[1] = Rank(table[k].plan)
         /\ SortKey(table, k)[2] \in Nat
         /\ SortKey(table, k)[2] = (IF table[k].used = Missing THEN 0 ELSE 1)
         /\ SortKey(table, k)[3] \in Nat
         /\ SortKey(table, k)[3] = (IF table[k].used = Missing THEN 0 ELSE table[k].used)
         /\ SortKey(table, k)[4] = k
<1>1. table[k].used \in Stamps
  BY DEF PoolTable, PoolRow
<1>2. Rank(table[k].plan) \in Nat
  BY DEF Rank
<1> QED
  BY <1>1, <1>2 DEF SortKey, Stamps

\* Before on tuples of four numbers, place by place.
LEMMA BeforeByPlace ==
  ASSUME NEW u, NEW v
  PROVE  Before(u, v) <=>
           \/ u[1] < v[1]
           \/ u[1] = v[1] /\ u[2] < v[2]
           \/ u[1] = v[1] /\ u[2] = v[2] /\ u[3] < v[3]
           \/ u[1] = v[1] /\ u[2] = v[2] /\ u[3] = v[3] /\ u[4] < v[4]
  BY DEF Before

\* Of two keys only one comes before the other.
LEMMA BeforeOneWay ==
  ASSUME NEW u, NEW v, \A i \in 1..4 : u[i] \in Int /\ v[i] \in Int, Before(u, v)
  PROVE  ~Before(v, u)
  BY BeforeByPlace

\* Among keys one comes before all others: the picks are never undecided.
LEMMA FirstInOrder ==
  ASSUME NEW table \in PoolTable, PoolSize \in Nat, NEW S, S \subseteq 1..PoolSize, S # {}
  PROVE  \E k \in S : \A l \in S \ {k} : Before(SortKey(table, k), SortKey(table, l))
<1> DEFINE At(k, i) == SortKey(table, k)[i]
<1>1. \A k \in S : \A i \in 1..4 : At(k, i) \in Nat
  <2> TAKE k \in S
  <2>1. k \in 1..PoolSize /\ k \in Nat
    OBVIOUS
  <2> QED
    BY <2>1, SortKeyPlaces
<1>2. \A k \in S : At(k, 4) = k
  BY SortKeyPlaces
<1> HIDE DEF At
<1>3. ASSUME NEW T, T \subseteq S, T # {}, NEW i \in 1..4
      PROVE  \E k \in T : \A l \in T : At(k, i) <= At(l, i)
  <2> DEFINE V == {At(k, i) : k \in T}
  <2>1. V \subseteq Nat /\ V # {}
    BY <1>1, <1>3
  <2> HIDE DEF V
  <2>2. PICK m \in V : \A n \in V : m <= n
    BY <2>1, Least
  <2> QED
    BY <2>2 DEF V
<1>4. \E k \in S : \A l \in S : At(k, 1) <= At(l, 1)
  <2>1. 1 \in 1..4
    OBVIOUS
  <2> QED
    BY <1>3, <2>1
<1>5. PICK k1 \in S : \A l \in S : At(k1, 1) <= At(l, 1)
  BY <1>4
<1>6. PICK k2 \in S : /\ At(k2, 1) = At(k1, 1)
                     /\ \A l \in S : At(l, 1) = At(k1, 1) => At(k2, 2) <= At(l, 2)
  <2> DEFINE T == {l \in S : At(l, 1) = At(k1, 1)}
  <2>1. T \subseteq S /\ T # {} /\ 2 \in 1..4
    OBVIOUS
  <2>2. \E k \in T : \A l \in T : At(k, 2) <= At(l, 2)
    BY ONLY <1>3, <2>1
  <2> QED
    BY <2>2
<1>7. PICK k3 \in S : /\ At(k3, 1) = At(k1, 1) /\ At(k3, 2) = At(k2, 2)
                     /\ \A l \in S : At(l, 1) = At(k1, 1) /\ At(l, 2) = At(k2, 2) =>
                          At(k3, 3) <= At(l, 3)
  <2> DEFINE T == {l \in S : At(l, 1) = At(k1, 1) /\ At(l, 2) = At(k2, 2)}
  <2>1. T \subseteq S /\ T # {} /\ 3 \in 1..4
    BY <1>6
  <2>2. \E k \in T : \A l \in T : At(k, 3) <= At(l, 3)
    BY ONLY <1>3, <2>1
  <2> QED
    BY <2>2
<1>8. PICK k \in S : /\ At(k, 1) = At(k1, 1) /\ At(k, 2) = At(k2, 2) /\ At(k, 3) = At(k3, 3)
                    /\ \A l \in S : /\ At(l, 1) = At(k1, 1) /\ At(l, 2) = At(k2, 2)
                                    /\ At(l, 3) = At(k3, 3)
                                    => At(k, 4) <= At(l, 4)
  <2> DEFINE T == {l \in S : /\ At(l, 1) = At(k1, 1) /\ At(l, 2) = At(k2, 2)
                            /\ At(l, 3) = At(k3, 3)}
  <2>1. T \subseteq S /\ T # {} /\ 4 \in 1..4
    BY <1>7
  <2>2. \E k \in T : \A l \in T : At(k, 4) <= At(l, 4)
    BY ONLY <1>3, <2>1
  <2> QED
    BY <2>2
<1>9. ASSUME NEW l \in S \ {k}
      PROVE  Before(SortKey(table, k), SortKey(table, l))
  <2>1. k \in S
    OBVIOUS
  <2>2. /\ \A i \in 1..4 : At(k, i) \in Nat /\ At(l, i) \in Nat
        /\ At(k, 4) = k /\ At(l, 4) = l
    BY <1>1, <1>2, <2>1
  <2>3. /\ At(k, 1) <= At(l, 1)
        /\ At(l, 1) = At(k, 1) => At(k, 2) <= At(l, 2)
        /\ At(l, 1) = At(k, 1) /\ At(l, 2) = At(k, 2) => At(k, 3) <= At(l, 3)
        /\ At(l, 1) = At(k, 1) /\ At(l, 2) = At(k, 2) /\ At(l, 3) = At(k, 3) =>
             At(k, 4) <= At(l, 4)
    BY <1>5, <1>6, <1>7, <1>8
  <2>4. \/ At(k, 1) < At(l, 1)
        \/ At(k, 1) = At(l, 1) /\ At(k, 2) < At(l, 2)
        \/ At(k, 1) = At(l, 1) /\ At(k, 2) = At(l, 2) /\ At(k, 3) < At(l, 3)
        \/ At(k, 1) = At(l, 1) /\ At(k, 2) = At(l, 2) /\ At(k, 3) = At(l, 3)
             /\ At(k, 4) < At(l, 4)
    BY <2>2, <2>3
  <2> QED
    BY <2>4, BeforeByPlace DEF At
<1> QED
  BY <1>9

\* Pick returns the usable key that comes before all other usable ones.
LEMMA PickIsFirst ==
  ASSUME NEW table \in PoolTable, PoolSize \in Nat, NEW t
  PROVE  /\ Pick(table, t) = Missing => \A k \in 1..PoolSize : ~Usable(table[k], t)
         /\ Pick(table, t) # Missing =>
              /\ Pick(table, t) \in 1..PoolSize /\ Usable(table[Pick(table, t)], t)
              /\ \A l \in 1..PoolSize : Usable(table[l], t) /\ l # Pick(table, t) =>
                   Before(SortKey(table, Pick(table, t)), SortKey(table, l))
<1> DEFINE usable == {k \in 1..PoolSize : Usable(table[k], t)}
           First(k) == \A l \in usable \ {k} : Before(SortKey(table, k), SortKey(table, l))
<1>1. Pick(table, t) = IF usable = {} THEN Missing ELSE CHOOSE k \in usable : First(k)
  BY DEF Pick, PoolTable
<1>2. CASE usable = {}
  BY <1>1, <1>2
<1>3. CASE usable # {}
  <2>1. \E k \in usable : First(k)
    BY <1>3, FirstInOrder
  <2>2. Pick(table, t) \in usable /\ First(Pick(table, t))
    BY <1>1, <1>3, <2>1
  <2>3. Pick(table, t) # Missing
    BY <2>2, CalendarAssumption
  <2> QED
    BY <2>2, <2>3
<1> QED
  BY <1>2, <1>3

\* A start stamps the key it picked and changes nothing else of the table.
LEMMA AfterStartTable ==
  ASSUME NEW table \in PoolTable, NEW k \in 1..PoolSize \cup {Missing}, NEW failing,
         NEW t \in Nat
  PROVE  /\ AfterStart(table, k, failing, t) \in PoolTable
         /\ \A l \in 1..PoolSize :
              LET row == AfterStart(table, k, failing, t)[l]
              IN  /\ row.plan = table[l].plan /\ row.state = table[l].state
                  /\ row.cooldown = table[l].cooldown
                  /\ row.used = IF l = k /\ k \notin failing THEN t ELSE table[l].used
<1>1. CASE k = Missing \/ k \in failing
  <2>1. AfterStart(table, k, failing, t) = table
    BY <1>1 DEF AfterStart
  <2>2. \A l \in 1..PoolSize : l # Missing
    BY CalendarAssumption
  <2> QED
    BY <1>1, <2>1, <2>2
<1>2. CASE k # Missing /\ k \notin failing
  <2>1. k \in 1..PoolSize /\ t \in Stamps
    BY <1>2 DEF Stamps
  <2>2. AfterStart(table, k, failing, t) = [table EXCEPT ![k].used = t]
    BY <1>2 DEF AfterStart, MarkUsed
  <2> QED
    BY <1>2, <2>1, <2>2 DEF PoolTable, PoolRow
<1> QED
  BY <1>1, <1>2

\* A sequence with one more element.
LEMMA AppendFacts ==
  ASSUME NEW S, NEW s \in Seq(S), NEW x \in S
  PROVE  /\ Append(s, x) \in Seq(S) /\ Len(Append(s, x)) = Len(s) + 1
         /\ DOMAIN Append(s, x) = 1..Len(s) + 1 /\ DOMAIN s = 1..Len(s)
         /\ Append(s, x)[Len(s) + 1] = x
         /\ \A i \in 1..Len(s) : Append(s, x)[i] = s[i]
  OBVIOUS

\* The table and the picks of a series of starts: a stamp is from before the first start
\* or from the last start that picked the key, and a key whose session could not be
\* created is still the pick of the table it left behind.
SeriesInv(in, pool) ==
  LET n == Len(pool.picks)
  IN  /\ in.rows \in PoolTable /\ pool.table \in PoolTable
      /\ pool.picks \in Seq(1..PoolSize \cup {Missing})
      /\ in.preferred \in 1..PoolSize \cup {Missing}
      /\ \A k \in 1..PoolSize :
           /\ in.rows[k].used # Missing => in.rows[k].used < StartsFrom
           /\ pool.table[k].plan = in.rows[k].plan
           /\ pool.table[k].state = in.rows[k].state
           /\ pool.table[k].cooldown = in.rows[k].cooldown
           /\ \/ pool.table[k].used = in.rows[k].used
              \/ \E i \in 1..n : pool.picks[i] = k /\ pool.table[k].used = StartsFrom + i - 1
      /\ \A i \in 1..n : \A k \in 1..PoolSize :
           k = pool.picks[i] /\ k \notin in.failing =>
             pool.table[k].used # Missing /\ pool.table[k].used >= StartsFrom + i - 1
      /\ n >= 2 /\ pool.picks[n] \in in.failing =>
           pool.picks[n] = Pick(pool.table, StartsFrom + n - 1)

\* One more start keeps the invariant and the promise: a key picked before and again now
\* carries the stamp of the earlier start, so any key of its plan that was usable since
\* and was not picked in between would have come first.
LEMMA SeriesStep ==
  ASSUME NEW in, NEW pool, SeriesInv(in, pool), TakesTurns(in, pool.picks),
         NEW preferred, preferred = IF Len(pool.picks) = 0 THEN in.preferred ELSE Missing,
         NEW next,
         next = StartTask(pool, preferred, in.failing, StartsFrom + Len(pool.picks))
  PROVE  SeriesInv(in, next) /\ TakesTurns(in, next.picks)
<1> DEFINE n == Len(pool.picks)
           t == StartsFrom + n
           k == PickWithPreference(pool.table, preferred, t)
           Up(l, i) == Usable(in.rows[l], StartsFrom + i - 1)
<1>1. n \in Nat /\ t \in Nat /\ t = StartsFrom + n /\ StartsFrom \in Nat
  BY DEF SeriesInv, StartsFrom
<1>2. PoolSize \in Nat
  BY InputsAssumption
<1>3. n = 0 \/ (preferred = Missing /\ k = Pick(pool.table, t))
  BY DEF PickWithPreference
<1>4. k \in 1..PoolSize \cup {Missing}
  <2>1. Pick(pool.table, t) \in 1..PoolSize \cup {Missing}
    BY <1>2, PickIsFirst DEF SeriesInv
  <2> QED
    BY <2>1 DEF PickWithPreference, SeriesInv
<1> HIDE DEF k
<1>5. /\ next.picks = Append(pool.picks, k)
      /\ next.table = AfterStart(pool.table, k, in.failing, t)
  BY DEF StartTask, k
<1>6. /\ next.picks \in Seq(1..PoolSize \cup {Missing}) /\ Len(next.picks) = n + 1
      /\ DOMAIN next.picks = 1..n + 1 /\ DOMAIN pool.picks = 1..n
      /\ next.picks[n + 1] = k
      /\ \A i \in 1..n : next.picks[i] = pool.picks[i]
  <2>1. pool.picks \in Seq(1..PoolSize \cup {Missing})
    BY DEF SeriesInv
  <2> QED
    BY ONLY <1>4, <1>5, <2>1, AppendFacts DEF n
<1>7. \A l \in 1..PoolSize, i \in Int :
        Usable(pool.table[l], StartsFrom + i - 1) = Up(l, i)
  BY DEF Usable, SeriesInv
<1> HIDE DEF n, t, Up
<1>8. /\ next.table \in PoolTable
      /\ \A l \in 1..PoolSize :
           /\ next.table[l].plan = pool.table[l].plan
           /\ next.table[l].state = pool.table[l].state
           /\ next.table[l].cooldown = pool.table[l].cooldown
           /\ next.table[l].used =
                IF l = k /\ k \notin in.failing THEN t ELSE pool.table[l].used
  <2>1. pool.table \in PoolTable
    BY DEF SeriesInv
  <2> QED
    BY <1>1, <1>4, <1>5, <2>1, AfterStartTable
\* What Pick says of the new start, when it is not the first.
<1>9. ASSUME n >= 1
      PROVE  /\ k = Missing => \A l \in 1..PoolSize : ~Up(l, n + 1)
             /\ k # Missing =>
                  /\ k \in 1..PoolSize /\ Up(k, n + 1)
                  /\ \A l \in 1..PoolSize : Up(l, n + 1) /\ l # k =>
                       Before(SortKey(pool.table, k), SortKey(pool.table, l))
  <2>1. k = Pick(pool.table, t) /\ t = StartsFrom + (n + 1) - 1 /\ n + 1 \in Int
    BY <1>1, <1>3, <1>9
  <2>2. pool.table \in PoolTable
    BY DEF SeriesInv
  <2>3. \A l \in 1..PoolSize : Usable(pool.table[l], t) = Up(l, n + 1)
    BY <1>7, <2>1
  <2> QED
    BY <1>2, <2>1, <2>2, <2>3, PickIsFirst
<1>10. SeriesInv(in, next)
  <2>1. ASSUME NEW l \in 1..PoolSize
        PROVE  \/ next.table[l].used = in.rows[l].used
               \/ \E i \in 1..n + 1 :
                    next.picks[i] = l /\ next.table[l].used = StartsFrom + i - 1
    <3>1. CASE l = k /\ k \notin in.failing
      <4>1. n + 1 \in 1..n + 1 /\ next.table[l].used = StartsFrom + (n + 1) - 1
        BY <1>1, <1>8, <3>1
      <4> QED
        BY <1>6, <3>1, <4>1
    <3>2. CASE ~(l = k /\ k \notin in.failing)
      <4>1. next.table[l].used = pool.table[l].used
        BY <1>8, <3>2
      <4>2. \/ pool.table[l].used = in.rows[l].used
            \/ \E i \in 1..n : pool.picks[i] = l /\ pool.table[l].used = StartsFrom + i - 1
        BY DEF SeriesInv, n
      <4> QED
        BY <1>1, <1>6, <4>1, <4>2
    <3> QED
      BY <3>1, <3>2
  <2>2. ASSUME NEW i \in 1..n + 1, NEW l \in 1..PoolSize, l = next.picks[i], l \notin in.failing
        PROVE  next.table[l].used # Missing /\ next.table[l].used >= StartsFrom + i - 1
    <3>1. CASE l = k
      <4>1. next.table[l].used = t
        BY <1>8, <2>2, <3>1
      <4>2. t # Missing
        BY <1>1, CalendarAssumption
      <4> QED
        BY <1>1, <4>1, <4>2
    <3>2. CASE l # k
      <4>1. i \in 1..n /\ pool.picks[i] = l
        BY <1>1, <1>6, <2>2, <3>2
      <4>2. next.table[l].used = pool.table[l].used
        BY <1>8, <3>2
      <4> QED
        BY <2>2, <4>1, <4>2 DEF SeriesInv, n
    <3> QED
      BY <3>1, <3>2
  <2>3. ASSUME n + 1 >= 2, k \in in.failing
        PROVE  k = Pick(next.table, StartsFrom + (n + 1) - 1)
    <3>1. next.table = pool.table
      BY <1>5, <2>3 DEF AfterStart
    <3>2. n # 0 /\ t = StartsFrom + (n + 1) - 1
      BY <1>1, <2>3
    <3> QED
      BY <1>3, <3>1, <3>2
  <2>4. /\ in.rows \in PoolTable /\ in.preferred \in 1..PoolSize \cup {Missing}
        /\ \A l \in 1..PoolSize :
             /\ in.rows[l].used # Missing => in.rows[l].used < StartsFrom
             /\ pool.table[l].plan = in.rows[l].plan
             /\ pool.table[l].state = in.rows[l].state
             /\ pool.table[l].cooldown = in.rows[l].cooldown
    BY DEF SeriesInv
  <2> QED
    BY <1>6, <1>8, <2>1, <2>2, <2>3, <2>4 DEF SeriesInv
<1>11. ASSUME n >= 1
       PROVE  IF k = Missing THEN \A l \in 1..PoolSize : ~Up(l, n + 1)
              ELSE /\ Up(k, n + 1)
                   /\ \A l \in 1..PoolSize :
                        Up(l, n + 1) => Rank(in.rows[k].plan) <= Rank(in.rows[l].plan)
  <2>1. ASSUME k # Missing, NEW l \in 1..PoolSize, Up(l, n + 1)
        PROVE  Rank(in.rows[k].plan) <= Rank(in.rows[l].plan)
    <3>1. k \in 1..PoolSize
      BY <1>4, <2>1
    <3>2. in.rows[k].plan = pool.table[k].plan /\ in.rows[l].plan = pool.table[l].plan
      BY <3>1 DEF SeriesInv
    <3>3. /\ SortKey(pool.table, k)[1] = Rank(in.rows[k].plan)
          /\ SortKey(pool.table, l)[1] = Rank(in.rows[l].plan)
          /\ SortKey(pool.table, k)[1] \in Nat /\ SortKey(pool.table, l)[1] \in Nat
      BY <3>1, <3>2, SortKeyPlaces DEF SeriesInv
    <3>4. l = k \/ Before(SortKey(pool.table, k), SortKey(pool.table, l))
      BY <1>9, <1>11, <2>1
    <3> QED
      BY <3>3, <3>4, BeforeByPlace
  <2> QED
    BY <1>9, <1>11, <2>1
<1>12. ASSUME NEW i \in 1..n, pool.picks[i] # Missing, pool.picks[i] = k, k \notin in.failing,
              NEW l \in 1..PoolSize \ {k}, in.rows[l].plan = in.rows[k].plan, Up(l, i)
       PROVE  \E m \in i + 1..n : pool.picks[m] = l
  <2> SUFFICES ASSUME \A m \in i + 1..n : pool.picks[m] # l PROVE FALSE
    OBVIOUS
  <2> DEFINE was == pool.table[l].used
             got == pool.table[k].used
  <2>1. k \in 1..PoolSize /\ n >= 1 /\ i \in Nat
    BY <1>1, <1>4, <1>12
  <2>2. was \in Stamps /\ got \in Nat /\ got >= StartsFrom + i - 1 /\ got # Missing
    <3>1. was \in Stamps /\ got \in Stamps
      BY <2>1 DEF SeriesInv, PoolTable, PoolRow
    <3>2. got # Missing /\ got >= StartsFrom + i - 1
      BY <1>12, <2>1 DEF SeriesInv, n
    <3> QED
      BY <3>1, <3>2 DEF Stamps
  <2>3. was = Missing \/ (was \in Nat /\ was < StartsFrom + i - 1)
    <3>1. CASE was = in.rows[l].used
      <4>1. in.rows[l].used # Missing => in.rows[l].used < StartsFrom
        BY DEF SeriesInv
      <4> QED
        BY <1>1, <2>1, <2>2, <3>1, <4>1 DEF Stamps
    <3>2. CASE was # in.rows[l].used
      <4>1. PICK m \in 1..n : pool.picks[m] = l /\ was = StartsFrom + m - 1
        BY <3>2 DEF SeriesInv, n
      <4>2. m # i /\ m \notin i + 1..n
        BY <1>12, <4>1
      <4> QED
        BY <1>1, <2>1, <4>1, <4>2
    <3> QED
      BY <3>1, <3>2
  <2>4. Up(l, n + 1)
    <3>1. in.rows[l].cooldown \in Stamps
      BY DEF SeriesInv, PoolTable, PoolRow
    <3> QED
      BY <1>1, <1>12, <2>1, <3>1 DEF Up, Usable, Stamps
  <2>5. Before(SortKey(pool.table, k), SortKey(pool.table, l))
    BY <1>9, <1>12, <2>1, <2>4, CalendarAssumption
  <2>6. pool.table \in PoolTable /\ pool.table[l].plan = pool.table[k].plan
    BY <1>12, <2>1 DEF SeriesInv
  <2>7. /\ SortKey(pool.table, k)[1] = SortKey(pool.table, l)[1]
        /\ SortKey(pool.table, k)[1] \in Nat
        /\ SortKey(pool.table, k)[2] = 1 /\ SortKey(pool.table, k)[3] = got
        /\ SortKey(pool.table, l)[2] = (IF was = Missing THEN 0 ELSE 1)
        /\ SortKey(pool.table, l)[3] = (IF was = Missing THEN 0 ELSE was)
    <3> HIDE DEF was, got
    <3>1. got = pool.table[k].used /\ was = pool.table[l].used
      BY DEF got, was
    <3> QED
      BY <2>1, <2>2, <2>6, <3>1, SortKeyPlaces
  <2> HIDE DEF was, got
  <2>8. CASE was = Missing
    BY <2>5, <2>7, <2>8, BeforeByPlace
  <2>9. CASE was # Missing
    <3>1. was \in Nat /\ got \in Nat /\ was < got
      BY <1>1, <2>1, <2>2, <2>3, <2>9
    <3> QED
      BY <2>5, <2>7, <2>9, <3>1, BeforeByPlace
  <2> QED
    BY <2>8, <2>9
<1>13. ASSUME n >= 2, pool.picks[n] \in in.failing
       PROVE  k = pool.picks[n] \/ ~Up(k, n)
  <2> DEFINE p == pool.picks[n]
  <2> SUFFICES ASSUME k # p, Up(k, n) PROVE FALSE
    OBVIOUS
  <2>0. n \in Int /\ n >= 1
    BY <1>1, <1>13
  <2>1. pool.table \in PoolTable
    BY DEF SeriesInv
  <2>2. p = Pick(pool.table, StartsFrom + n - 1)
    BY <1>13 DEF SeriesInv, n
  <2>3. ASSUME NEW l \in 1..PoolSize, Up(l, n)
        PROVE  p # Missing /\ p \in 1..PoolSize /\ Up(p, n)
    <3>1. Usable(pool.table[l], StartsFrom + n - 1)
      BY <1>1, <1>7, <2>3
    <3>2. p # Missing /\ p \in 1..PoolSize /\ Usable(pool.table[p], StartsFrom + n - 1)
      BY <1>2, <2>1, <2>2, <3>1, PickIsFirst
    <3> HIDE DEF p
    <3> QED
      BY <1>7, <2>0, <3>2
  <2>4. \A l \in 1..PoolSize : Up(l, n) => Up(l, n + 1)
    <3> TAKE l \in 1..PoolSize
    <3> DEFINE over == in.rows[l].cooldown
    <3>1. over = Missing \/ over \in Nat
      BY DEF SeriesInv, PoolTable, PoolRow, Stamps
    <3>2. \A i \in Int : Up(l, i) <=> /\ in.rows[l].state = "active"
                                  /\ (over = Missing \/ over <= StartsFrom + i - 1)
      BY DEF Up, Usable
    <3>3. n \in Int /\ n + 1 \in Int
      BY <1>1
    <3> HIDE DEF over
    <3>4. over <= StartsFrom + n - 1 /\ over # Missing => over <= StartsFrom + (n + 1) - 1
      BY <1>1, <3>1
    <3> QED
      BY <3>2, <3>3, <3>4
  <2>5. k # Missing /\ k \in 1..PoolSize
    <3>1. \E l \in 1..PoolSize : Up(l, n)
      <4>1. CASE k = Missing
        <5>1. p # Missing
          BY <4>1
        <5>2. p \in 1..PoolSize /\ Usable(pool.table[p], StartsFrom + n - 1)
          <6> HIDE DEF p
          <6> QED
            BY <1>2, <2>1, <2>2, <5>1, PickIsFirst
        <5>3. Up(p, n)
          <6> HIDE DEF p
          <6> QED
            BY <1>7, <2>0, <5>2
        <5> QED
          BY <5>2, <5>3
      <4> QED
        BY <1>4, <4>1
    <3> QED
      BY <1>4, <1>9, <2>0, <2>4, <3>1
  <2>6. p # Missing /\ p \in 1..PoolSize /\ Up(p, n) /\ Up(p, n + 1)
    BY <2>3, <2>4, <2>5
  <2>7. Before(SortKey(pool.table, k), SortKey(pool.table, p))
    BY <1>9, <2>0, <2>5, <2>6
  <2>8. Before(SortKey(pool.table, p), SortKey(pool.table, k))
    <3>1. Up(k, n) = Usable(pool.table[k], StartsFrom + n - 1)
      BY <1>7, <2>0, <2>5
    <3>2. Usable(pool.table[k], StartsFrom + n - 1)
      BY <3>1
    <3> HIDE DEF p
    <3> QED
      BY <1>2, <2>1, <2>2, <2>5, <2>6, <3>2, PickIsFirst
  <2>9. \A j \in 1..4 : SortKey(pool.table, p)[j] \in Int /\ SortKey(pool.table, k)[j] \in Int
    <3> HIDE DEF p
    <3> QED
      BY <1>2, <2>1, <2>5, <2>6, SortKeyPlaces
  <2> QED
    BY <2>7, <2>8, <2>9, BeforeOneWay
<1>14. TakesTurns(in, next.picks)
  <2> USE DEF Up
  <2>1. DOMAIN in.rows = 1..PoolSize
    BY DEF SeriesInv, PoolTable
  <2>2. ASSUME NEW i \in 2..n + 1
        PROVE  IF next.picks[i] = Missing THEN \A l \in DOMAIN in.rows : ~Up(l, i)
               ELSE /\ Up(next.picks[i], i)
                    /\ \A l \in DOMAIN in.rows : Up(l, i) =>
                         Rank(in.rows[next.picks[i]].plan) <= Rank(in.rows[l].plan)
    <3>1. CASE i = n + 1
      BY <1>1, <1>6, <1>11, <2>1, <3>1
    <3>2. CASE i # n + 1
      <4>1. i \in 2..n /\ i \in 1..n
        BY <1>1, <3>2
      <4>2. next.picks[i] = pool.picks[i]
        BY <1>6, <4>1
      <4> QED
        BY <4>1, <4>2 DEF TakesTurns, n
    <3> QED
      BY <3>1, <3>2
  <2>3. \A i, j \in DOMAIN pool.picks :
          i < j /\ pool.picks[i] # Missing /\ pool.picks[i] = pool.picks[j]
            /\ pool.picks[i] \notin in.failing =>
            \A l \in DOMAIN in.rows \ {pool.picks[i]} :
              in.rows[l].plan = in.rows[pool.picks[i]].plan /\ Up(l, i) =>
                \E m \in i + 1..j - 1 : pool.picks[m] = l
    BY DEF TakesTurns
  <2>4. \A i, j \in DOMAIN next.picks :
          /\ i < j /\ next.picks[i] # Missing /\ next.picks[i] = next.picks[j]
          /\ next.picks[i] \notin in.failing
          => \A l \in DOMAIN in.rows \ {next.picks[i]} :
               in.rows[l].plan = in.rows[next.picks[i]].plan /\ Up(l, i) =>
                 \E m \in i + 1..j - 1 : next.picks[m] = l
    <3> SUFFICES ASSUME NEW i \in DOMAIN next.picks, NEW j \in DOMAIN next.picks, i < j,
                        next.picks[i] # Missing, next.picks[i] = next.picks[j],
                        next.picks[i] \notin in.failing,
                        NEW l \in DOMAIN in.rows \ {next.picks[i]},
                        in.rows[l].plan = in.rows[next.picks[i]].plan, Up(l, i)
                 PROVE  \E m \in i + 1..j - 1 : next.picks[m] = l
      OBVIOUS
    <3>1. i \in 1..n + 1 /\ j \in 1..n + 1
      BY <1>6
    <3>2. i \in 1..n
      BY <1>1, <3>1
    <3>3. i \in 1..n /\ next.picks[i] = pool.picks[i]
      BY <1>6, <3>2
    <3>4. CASE j = n + 1
      <4>1. k = next.picks[j] /\ k = next.picks[i] /\ k = pool.picks[i]
        BY <1>6, <3>3, <3>4
      <4>2. PICK m \in i + 1..n : pool.picks[m] = l
        BY <1>12, <2>1, <3>3, <4>1
      <4>3. m \in i + 1..j - 1 /\ m \in 1..n
        BY <1>1, <3>3, <3>4
      <4> QED
        BY <1>6, <4>2, <4>3
    <3>5. CASE j # n + 1
      <4>1. j \in 1..n
        BY <1>1, <3>1, <3>5
      <4>2. next.picks[j] = pool.picks[j] /\ DOMAIN pool.picks = 1..n
        BY <1>6, <4>1
      <4>3. PICK m \in i + 1..j - 1 : pool.picks[m] = l
        <5>1. /\ i \in DOMAIN pool.picks /\ j \in DOMAIN pool.picks /\ i < j
              /\ pool.picks[i] # Missing /\ pool.picks[i] = pool.picks[j]
              /\ pool.picks[i] \notin in.failing
              /\ l \in DOMAIN in.rows \ {pool.picks[i]}
              /\ in.rows[l].plan = in.rows[pool.picks[i]].plan
          BY <3>3, <4>1, <4>2
        <5> HIDE DEF Up
        <5> QED
          BY <2>3, <5>1
      <4>4. m \in 1..n
        BY <1>1, <3>3, <4>1
      <4> QED
        BY <1>6, <4>3, <4>4
    <3> QED
      BY <3>4, <3>5
  <2>5. ASSUME NEW i \in 2..n, next.picks[i] \in in.failing
        PROVE  next.picks[i + 1] = next.picks[i] \/ ~Up(next.picks[i + 1], i)
    <3>0. i \in 1..n
      BY <1>1
    <3>1. next.picks[i] = pool.picks[i]
      BY <1>6, <3>0
    <3>2. CASE i = n
      BY <1>1, <1>6, <1>13, <2>5, <3>1, <3>2
    <3>3. CASE i # n
      <4>1. i \in 2..n - 1 /\ i + 1 \in 1..n
        BY <1>1, <3>3
      <4>2. next.picks[i + 1] = pool.picks[i + 1]
        BY <1>6, <4>1
      <4> QED
        BY <2>5, <3>1, <4>1, <4>2 DEF TakesTurns, n
    <3> QED
      BY <3>2, <3>3
  <2>6. Len(next.picks) = n + 1 /\ Len(next.picks) - 1 = n /\ DOMAIN next.picks = 1..n + 1
    BY <1>1, <1>6
  <2>7. \A i \in 2..Len(next.picks) :
          IF next.picks[i] = Missing THEN \A l \in DOMAIN in.rows : ~Up(l, i)
          ELSE /\ Up(next.picks[i], i)
               /\ \A l \in DOMAIN in.rows : Up(l, i) =>
                    Rank(in.rows[next.picks[i]].plan) <= Rank(in.rows[l].plan)
    BY <2>2, <2>6
  <2>8. \A i \in 2..Len(next.picks) - 1 : next.picks[i] \in in.failing =>
          next.picks[i + 1] = next.picks[i] \/ ~Up(next.picks[i + 1], i)
    BY <2>5, <2>6
  <2> QED
    BY <2>4, <2>7, <2>8 DEF TakesTurns
<1> QED
  BY <1>10, <1>14

\* The series of starts of a state.
TurnsInv ==
  call.fn = "StartTask" =>
    /\ call = [fn |-> "StartTask", input |-> call.input, result |-> call.result]
    /\ SeriesInv(call.input, call.result) /\ TakesTurns(call.input, call.result.picks)

\* Every table of the instance is one the invariant starts from.
LEMMA SeriesStart ==
  ASSUME NEW table \in [1..PoolSize -> KeyRows], NEW failing, NEW preferred \in {Missing, 1},
         NEW in, in = [rows |-> table, failing |-> failing, preferred |-> preferred],
         NEW pool, pool = [table |-> table, picks |-> <<>>]
  PROVE  SeriesInv(in, pool) /\ TakesTurns(in, pool.picks)
<1>1. KeyRows \subseteq PoolRow /\ \A r \in KeyRows : r.used # Missing => r.used < StartsFrom
  <2> DEFINE Good(r) == r \in PoolRow /\ (r.used # Missing => r.used < StartsFrom)
  <2>1. ASSUME NEW plan \in Plans, NEW state \in States, NEW cooldown \in Stamps,
               NEW used \in {Missing, 1, 2}
        PROVE  Good(KeyRow(plan, state, cooldown, used))
    <3>1. KeyRow(plan, state, cooldown, used).used = used /\ used \in Stamps
      BY DEF KeyRow, Stamps
    <3>2. used # Missing => used < StartsFrom
      BY DEF StartsFrom
    <3> QED
      BY <3>1, <3>2 DEF KeyRow, PoolRow
  <2>2. /\ Missing \in Stamps /\ 2 \in Stamps /\ StartsFrom + 2 \in Stamps
        /\ {"trial", "free", "paid"} \subseteq Plans
        /\ {"active", "quota_exhausted"} \subseteq States
    BY DEF Stamps, StartsFrom, Plans, States
  <2> HIDE DEF Good
  <2>3. \A plan \in {"trial", "paid"}, used \in {Missing, 1, 2} :
          Good(KeyRow(plan, "active", Missing, used))
    <3> TAKE plan \in {"trial", "paid"}, used \in {Missing, 1, 2}
    <3> QED
      BY <2>1, <2>2
  <2>4. /\ Good(KeyRow("trial", "active", StartsFrom + 2, 1))
        /\ Good(KeyRow("free", "active", 2, 2))
        /\ Good(KeyRow("free", "active", Missing, Missing))
        /\ Good(KeyRow("trial", "quota_exhausted", Missing, Missing))
    <3>1. 1 \in {Missing, 1, 2} /\ 2 \in {Missing, 1, 2} /\ Missing \in {Missing, 1, 2}
      OBVIOUS
    <3> QED
      BY <2>1, <2>2, <3>1
  <2>5. \A r \in KeyRows : Good(r)
    BY <2>3, <2>4 DEF KeyRows
  <2> QED
    BY <2>5 DEF Good
<1>2. table \in PoolTable /\ \A k \in 1..PoolSize : table[k].used # Missing => table[k].used < StartsFrom
  BY <1>1 DEF PoolTable
<1>3. preferred \in 1..PoolSize \cup {Missing}
  BY InputsAssumption
<1>4. /\ in.rows = table /\ in.preferred = preferred /\ in.failing = failing
      /\ pool.table = table /\ pool.picks = <<>>
  OBVIOUS
<1>5. Len(pool.picks) = 0 /\ DOMAIN pool.picks = {} /\ pool.picks \in Seq(1..PoolSize \cup {Missing})
  BY <1>4
<1>6. SeriesInv(in, pool)
  BY <1>2, <1>3, <1>4, <1>5 DEF SeriesInv
<1>7. TakesTurns(in, pool.picks)
  BY <1>5 DEF TakesTurns
<1> QED
  BY <1>6, <1>7

\* Starts take turns over the keys of a plan, plan by plan: of two starts on one key every
\* other usable key of its plan was picked in between, whatever cooldowns end meanwhile
\* and whatever keys refuse.
THEOREM StartsTakeTurnsHolds == CallSpec => []StartsTakeTurns
<1>1. CallInit => TurnsInv
  <2> SUFFICES ASSUME CallInit PROVE TurnsInv
    OBVIOUS
  <2>1. CASE call.fn # "StartTask"
    BY <2>1 DEF TurnsInv
  <2>2. CASE call.fn = "StartTask"
    <3>1. PICK table \in [1..PoolSize -> KeyRows], failing \in SUBSET (1..PoolSize),
               preferred \in {Missing, 1} :
            call = [fn |-> "StartTask",
                    input |-> [rows |-> table, failing |-> failing, preferred |-> preferred],
                    result |-> [table |-> table, picks |-> <<>>]]
      BY <2>2 DEF CallInit, Calling
    <3>2. /\ call.input = [rows |-> table, failing |-> failing, preferred |-> preferred]
          /\ call.result = [table |-> table, picks |-> <<>>]
      BY <3>1
    <3>3. SeriesInv(call.input, call.result) /\ TakesTurns(call.input, call.result.picks)
      BY <3>2, SeriesStart
    <3>4. call = [fn |-> "StartTask", input |-> call.input, result |-> call.result]
      BY <3>1
    <3> QED
      BY <3>3, <3>4 DEF TurnsInv
  <2> QED
    BY <2>1, <2>2
<1>2. TurnsInv /\ [CallNext]_call => TurnsInv'
  <2> SUFFICES ASSUME TurnsInv, [CallNext]_call PROVE TurnsInv'
    OBVIOUS
  <2>1. CASE ReturnNextRun
    <3>1. call.fn = "ComputeNextRunFull" /\ call'.fn = call.fn
      BY <2>1 DEF ReturnNextRun
    <3> QED
      BY <3>1 DEF TurnsInv
  <2>2. CASE FillCell \/ WalkOn \/ ScanOn
    <3>1. call.fn = "unifiedDiff" /\ \E next : call' = [call EXCEPT !.result = next]
      BY <2>2 DEF FillCell, WalkOn, ScanOn
    <3>2. call'.fn = call.fn
      BY <3>1
    <3> QED
      BY <3>1, <3>2 DEF TurnsInv
  <2>3. CASE NextStart
    <3> DEFINE started == Len(call.result.picks)
               preferred == IF started = 0 THEN call.input.preferred ELSE Missing
               next == StartTask(call.result, preferred, call.input.failing,
                                 StartsFrom + started)
    <3>1. call' = [call EXCEPT !.result = next] /\ call.fn = "StartTask"
      BY <2>3 DEF NextStart
    <3>2. SeriesInv(call.input, next) /\ TakesTurns(call.input, next.picks)
      BY <3>1, SeriesStep DEF TurnsInv
    <3>3. PICK result : result = next
      OBVIOUS
    <3>4. PICK in : in = call.input
      OBVIOUS
    <3>5. call' = [fn |-> "StartTask", input |-> in, result |-> result]
      BY <2>3, <3>1, <3>3, <3>4 DEF TurnsInv
    <3>6. call'.input = in /\ call'.result = result /\ call'.fn = "StartTask"
      BY <3>5
    <3> QED
      BY <3>2, <3>3, <3>4, <3>5, <3>6 DEF TurnsInv
  <2>4. CASE UNCHANGED call
    BY <2>4 DEF TurnsInv
  <2> QED
    BY <2>1, <2>2, <2>3, <2>4 DEF CallNext
<1>3. TurnsInv => StartsTakeTurns
  BY DEF TurnsInv, StartsTakeTurns
<1> QED
  BY <1>1, <1>2, <1>3, PTL DEF CallSpec
=============================================================================
