--------------------------- MODULE MCAlgorithms ---------------------------
(***************************************************************************)
(* Calls of the pure functions: every call with every input of the         *)
(* instance, and its result; unifiedDiff iteration by iteration, and of    *)
(* StartTask a series of calls on one table. The properties compare the    *)
(* result with a definition that does not search, scan or order.           *)
(***************************************************************************)
EXTENDS Recurrence, TextDiff

INSTANCE KeyPicker

CONSTANTS
  Lines,     \* what a line of a file can be
  MaxLines,  \* bound: lines of a file
  Context,   \* unchanged lines around a change (3 in the code)
  PoolSize,  \* keys in the table of the picker
  StartCount \* bound: sessions started one after another

ASSUME InputsAssumption == {MaxLines, Context, PoolSize, StartCount} \subseteq Nat \ {0}

VARIABLE call \* [fn, input, result]: result is Missing until ComputeNextRunFull returns

(***************************************************************************)
(* Inputs: expressions that differ in the day fields, where the code's     *)
(* rules are, or in the time fields; every tick of the calendar's cycle.   *)
(***************************************************************************)
Days(month, last) == [d \in 1..last |-> [dom |-> d, month |-> month]]
\* Two years of two months; the second has a third day in leap years and never a fourth.
MiniCalendar == Days(1, 4) \o Days(2, 2) \o Days(1, 4) \o Days(2, 3)

All        == Star
Once(n)    == [base |-> <<n>>, step |-> Missing]
Span(a, b) == [base |-> <<a, b>>, step |-> Missing]
Every(n)   == [base |-> <<>>, step |-> n]

Expr(minute, hour, dom, month, dow) ==
  [minute |-> minute, hour |-> hour, dom |-> dom, month |-> month, dow |-> dow]

DayFields ==
  {All, <<Every(1)>>, <<Once(3)>>, <<Once(4)>>, <<Once(LastDom + 1)>>, <<Span(1, 2)>>,
   <<Span(2, 1)>>}
WeekdayFields == {All, <<Once(0)>>, <<Once(WeekDays)>>, <<Once(1)>>, <<Missing>>}
DayExprs ==
  {Expr(<<Once(1)>>, <<Once(0)>>, dom, month, dow) :
     dom \in DayFields, month \in {All, <<Once(2)>>}, dow \in WeekdayFields}
TimeFields == {All, <<Once(1)>>, <<Every(2)>>, <<Every(0)>>, <<Once(0), Once(1)>>, <<Span(0, 5)>>}
TimeExprs ==
  {Expr(minute, hour, All, All, dow) :
     minute \in TimeFields, hour \in TimeFields, dow \in {All, <<Once(1)>>}}

Cycle  == Len(Calendar) * DayLen
Nows   == 0..Cycle - 1
\* The days that lie whole among the minutes Cron.Next tries.
SearchDays == (SearchLimit * MinuteLen) \div DayLen - 1
OnDay(d)   == Calendar[(d % Len(Calendar)) + 1]

\* The search looks far enough ahead, and no further than the calendar repeats: it
\* comes to a day of any date and to a day of any month and weekday. (Five years do,
\* except between a leap day and the next when they are eight years apart: in 2096.)
ASSUME SearchAssumption ==
  /\ SearchLimit * MinuteLen <= WeekDays * Cycle
  /\ \A from \in 0..Len(Calendar), d \in 0..(WeekDays + 1) * Len(Calendar) :
       /\ \E c \in from + 1..from + SearchDays : OnDay(c) = OnDay(d)
       /\ \E c \in from + 1..from + SearchDays :
            OnDay(c).month = OnDay(d).month /\ c % WeekDays = d % WeekDays

Zones  == {[at |-> DayLen + h * HourLen, before |-> b * HourLen, after |-> a * HourLen] :
             h \in 0..DayHours, b \in 0..1, a \in 0..1}
Plain  == [at |-> 0, before |-> 0, after |-> 0]

Schedule(kind) ==
  [kind |-> kind, interval |-> 0, at |-> 0, expr |-> Expr(All, All, All, All, All),
   fireAt |-> DayLen]
Intervals == {[Schedule("interval") EXCEPT !.interval = n] : n \in {MinuteLen, HourLen}}
Dailies   == {[Schedule("daily") EXCEPT !.at = m * MinuteLen] :
                m \in 0..DayHours * HourMinutes - 1}
\* Create stores what its Validate accepts: an interval of a minute or more, and an
\* expression ParseCron can read.
Crons     == {[Schedule("cron") EXCEPT !.expr = e] :
                e \in {f \in DayExprs \cup TimeExprs : WellFormed(f)}}

NextRunCalls ==
  {[schedule |-> s, zone |-> Plain, now |-> now, anchor |-> now] : s \in Crons, now \in Nows}
  \cup
  {[schedule |-> s, zone |-> z, now |-> now, anchor |-> now] :
     s \in Dailies, z \in Zones, now \in DayLen..4 * DayLen}
  \cup
  {[schedule |-> s, zone |-> Plain, now |-> now, anchor |-> anchor] :
     s \in Intervals \cup {Schedule("oneoff")}, now \in 0..2, anchor \in {Missing, 0, 1, 2}}

Files == UNION {[1..n -> Lines] : n \in 1..MaxLines}

\* Starts begin at time 3: the stamps in the table are earlier, a cooldown is over or
\* ends while the sessions are being started.
StartsFrom == 3
KeyRow(plan, state, cooldown, used) ==
  [plan |-> plan, state |-> state, cooldown |-> cooldown, used |-> used]
KeyRows ==
  {KeyRow(plan, "active", Missing, used) : plan \in {"trial", "paid"}, used \in {Missing, 1, 2}}
  \cup {KeyRow("trial", "active", StartsFrom + 2, 1), KeyRow("free", "active", 2, 2),
        KeyRow("free", "active", Missing, Missing), KeyRow("trial", "quota_exhausted", Missing, Missing)}

Calling(fn, input) == call = [fn |-> fn, input |-> input, result |-> Missing]

CallInit ==
  \/ \E in \in NextRunCalls : in.anchor \in {Missing, in.now} /\ Calling("ComputeNextRunFull", in)
  \/ \E a, b \in Files :
       call = [fn |-> "unifiedDiff", input |-> [a |-> a, b |-> b], result |-> DiffStart(a, b)]
  \/ \E rows \in [1..PoolSize -> KeyRows], failing \in SUBSET (1..PoolSize),
        preferred \in {Missing, 1} :
       call = [fn |-> "StartTask",
               input |-> [rows |-> rows, failing |-> failing, preferred |-> preferred],
               result |-> [table |-> rows, picks |-> <<>>]]

ReturnNextRun ==
  /\ call.fn = "ComputeNextRunFull" /\ call.result = Missing
  /\ \E t \in ComputeNextRun(call.input.schedule, call.input.zone, call.input.now,
                             call.input.anchor) :
       call' = [call EXCEPT !.result = t]

\* The loops of unifiedDiff, one after the other.
FillCell ==
  /\ call.fn = "unifiedDiff" /\ ~TableFull(call.result)
  /\ call' = [call EXCEPT !.result = Fill(@, call.input.a, call.input.b)]

WalkOn ==
  /\ call.fn = "unifiedDiff" /\ TableFull(call.result)
  /\ ~Walked(call.result, call.input.a, call.input.b)
  /\ call' = [call EXCEPT !.result = Walk(@, call.input.a, call.input.b)]

ScanOn ==
  /\ call.fn = "unifiedDiff" /\ TableFull(call.result)
  /\ Walked(call.result, call.input.a, call.input.b) /\ ~Scanned(call.result)
  /\ call' = [call EXCEPT !.result = ScanOp(@, Context)]

\* One start after another, a tick apart; the first one has a preferred key.
NextStart ==
  /\ call.fn = "StartTask" /\ Len(call.result.picks) < StartCount
  /\ LET started == Len(call.result.picks)
     IN  call' = [call EXCEPT !.result =
           StartTask(@, IF started = 0 THEN call.input.preferred ELSE Missing,
                     call.input.failing, StartsFrom + started)]

CallNext == ReturnNextRun \/ FillCell \/ WalkOn \/ ScanOn \/ NextStart

CallSpec == CallInit /\ [][CallNext]_call

RunComputed(kind) ==
  call.fn = "ComputeNextRunFull" /\ call.result # Missing /\ call.input.schedule.kind = kind

(***************************************************************************)
(* What a cron expression says, from cron.go's description of the grammar. *)
(***************************************************************************)
Names(field, min, max, v) ==
  \E i \in DOMAIN field : \E k \in 0..v :
    LET p == field[i] IN v = Low(p, min) + k * Stride(p) /\ v <= High(p, max)

NamesDay(e, t) ==
  LET dom == Names(e.dom, 1, LastDom, DateOf(t).dom)
      dow == \/ Names(e.dow, 0, WeekDays, WeekdayOf(t))
             \/ WeekdayOf(t) = 0 /\ Names(e.dow, 0, WeekDays, WeekDays)
  IN  IF Star \in {e.dom, e.dow} THEN dom /\ dow ELSE dom \/ dow

Says(e, t) ==
  /\ t % MinuteLen = 0
  /\ Names(e.minute, 0, HourMinutes - 1, MinuteOf(t))
  /\ Names(e.hour, 0, DayHours - 1, HourOf(t))
  /\ Names(e.month, 1, LastMonth, DateOf(t).month)
  /\ NamesDay(e, t)

\* "Next returns the next time strictly after `after` at which the expression matches":
\* the first such time of a whole cycle of years, so the search limit is long enough
\* for a leap day, and an hour later (so every hour from then on) when the expression
\* names a date no year has.
FirstSaid(e, now, r) ==
  LET said == {t \in now + 1..now + WeekDays * Cycle : Says(e, t)}
  IN  r = IF said = {} THEN now + HourLen ELSE Min(said)

CronNextFirst ==
  RunComputed("cron") =>
    FirstSaid(call.input.schedule.expr, call.input.now, call.result)

\* A daily schedule runs at its hour and minute on the local clock, at the first such
\* time after now, unless the clock is changed between last midnight and a day from now:
\* then the run is at that time by the clock before or after the change, and not later
\* than now only inside the hours a long day repeats (next_run_at then stays due, and
\* every pass of the loop fires the schedule again, until they are over).
OnTheClock(at, z, now, r) ==
  LET dusk == Min({t \in now - 2 * DayLen..now :
                     Local(z, t) \div DayLen = Local(z, now) \div DayLen}) - 1
      ShowsAt(t, offset) == (t + offset) % DayLen = at
  IN  IF Offset(z, dusk) = Offset(z, now + DayLen)
        THEN r = Min({t \in now + 1..now + DayLen : ShowsAt(t, Offset(z, r))})
        ELSE /\ ShowsAt(r, z.before) \/ ShowsAt(r, z.after)
             /\ r <= now => z.at \in r - DayLen + 1..now /\ now - r < z.before - z.after

DailyOnTheClock ==
  RunComputed("daily") =>
    OnTheClock(call.input.schedule.at, call.input.zone, call.input.now, call.result)

(***************************************************************************)
(* What a unified diff says: the files agree between the hunks and each    *)
(* hunk is the piece of each file its header points at.                    *)
(***************************************************************************)
\* Lines of the old and of the new file among the first n of a list of operations.
OldCount(ops, n) == Cardinality({x \in 1..n : ops[x].kind # "add"})
NewCount(ops, n) == Cardinality({x \in 1..n : ops[x].kind # "del"})

\* The hunk is the piece of each file that its header points at, line by line.
PieceOf(h, a, b) ==
  LET n == Len(h.lines)
  IN  /\ h.aLen = OldCount(h.lines, n) /\ h.bLen = NewCount(h.lines, n)
      /\ \A x \in 1..n :
           LET op  == h.lines[x]
               old == h.aStart + OldCount(h.lines, x - 1)
               new == h.bStart + NewCount(h.lines, x - 1)
           IN  /\ op.kind # "add" => old \in DOMAIN a /\ op.line = a[old]
               /\ op.kind # "del" => new \in DOMAIN b /\ op.line = b[new]

\* The first line of a hunk in each file, and the line after its last one.
StartOf(h) == <<h.aStart, h.bStart>>
EndOf(h)   == <<h.aStart + h.aLen, h.bStart + h.bLen>>

\* The part in front of hunk k, which begins where the hunk before it ends.
GapFrom(hunks, k)     == IF k = 1 THEN <<1, 1>> ELSE EndOf(hunks[k - 1])
GapTo(hunks, k, a, b) ==
  IF k > Len(hunks) THEN <<Len(a) + 1, Len(b) + 1>> ELSE StartOf(hunks[k])

\* Line by line, the files agree from one place to another.
Agree(from, to, a, b) ==
  LET gap == to[1] - from[1]
  IN  /\ gap >= 0 /\ to[2] - from[2] = gap
      /\ \A x \in 0..gap - 1 :
           /\ from[1] + x \in DOMAIN a /\ from[2] + x \in DOMAIN b
           /\ a[from[1] + x] = b[from[2] + x]

\* The files agree before, between and after the hunks.
AgreeAround(hunks, a, b) ==
  \A k \in 1..Len(hunks) + 1 : Agree(GapFrom(hunks, k), GapTo(hunks, k, a, b), a, b)

\* The subsequences of a file, by the lines that are chosen.
Selections == [n \in 1..MaxLines |->
  {f \in UNION {[1..k -> 1..n] : k \in 0..n} : \A x, y \in DOMAIN f : x < y => f[x] < f[y]}]
Subsequences(file) == {[x \in DOMAIN f |-> file[f[x]]] : f \in Selections[Len(file)]}

\* The lines deleted and added are as few as the longest common subsequence leaves.
Changes(hunks) == UNION {{k} \X Changed(hunks[k].lines) : k \in DOMAIN hunks}
Shortest(hunks, a, b) ==
  \A s \in Subsequences(a) \cap Subsequences(b) :
    Cardinality(Changes(hunks)) <= Len(a) + Len(b) - 2 * Len(s)

\* Unchanged lines in front of a hunk's first change.
Leading(ops) == Min(Changed(ops)) - 1

\* "`context` is the number of unchanged lines on either side of each hunk", less only
\* at an end of the files, or in front of a hunk when the hunk before closed within
\* 3 * context unchanged lines: the ones trimmed off its end are not shown again.
\* Changes within 2 * context lines of each other share a hunk.
LeadKept(hunks, k) ==
  LET lead == Leading(hunks[k].lines)
      gap  == hunks[k].aStart - GapFrom(hunks, k)[1]
  IN  /\ lead <= Context
      /\ lead < Context => IF k = 1 THEN hunks[k].aStart = 1 ELSE Context + gap + lead < 3 * Context
      /\ k > 1 => Context + gap + lead >= 2 * Context

TrailKept(hunks, k, a, b) ==
  LET trail == Trailing(hunks[k].lines)
  IN  /\ trail < 2 * Context
      /\ trail # Context => GapTo(hunks, k + 1, a, b) = GapFrom(hunks, k + 1)
      /\ trail < Context => k = Len(hunks)

Faithful(hunks, a, b) ==
  /\ (hunks = <<>>) = (a = b)
  /\ \A k \in DOMAIN hunks :
       PieceOf(hunks[k], a, b) /\ LeadKept(hunks, k) /\ TrailKept(hunks, k, a, b)
  /\ AgreeAround(hunks, a, b) /\ Shortest(hunks, a, b)

\* The diff shown between two versions of an artifact turns the left one into the right
\* one, taken with its line numbers and lengths; it says nothing of equal files only, is
\* as short as can be and shows its context: the scan that opens, extends, trims and
\* closes hunks and counts the lines of both sides never loses step with either file.
DiffFaithful ==
  LET d == call.result
      a == call.input.a
      b == call.input.b
  IN  call.fn = "unifiedDiff" /\ TableFull(d) /\ Walked(d, a, b) /\ Scanned(d) =>
        Faithful(d.scan.hunks, a, b)

(***************************************************************************)
(* What Pick promises over a series of starts.                             *)
(***************************************************************************)
\* "Trials are spent first ... Paid keys are spent last", and within a plan "a simple
\* round-robin so we don't burn one trial faster than the others": of two starts on the
\* same key, every key of that plan that could be used all the while got one in
\* between. The exception is a key whose sessions cannot be created: it keeps its turn
\* until a key of a better place becomes usable, and the others wait.
TakesTurns(in, picks) ==
  LET rows == in.rows
      Up(k, i) == Usable(rows[k], StartsFrom + i - 1)
  IN  /\ \A i \in 2..Len(picks) :
           IF picks[i] = Missing THEN \A k \in DOMAIN rows : ~Up(k, i)
           ELSE /\ Up(picks[i], i)
                /\ \A k \in DOMAIN rows :
                     Up(k, i) => Rank(rows[picks[i]].plan) <= Rank(rows[k].plan)
      /\ \A i, j \in DOMAIN picks :
           i < j /\ picks[i] # Missing /\ picks[i] = picks[j] /\ picks[i] \notin in.failing =>
             \A k \in DOMAIN rows \ {picks[i]} :
               rows[k].plan = rows[picks[i]].plan /\ Up(k, i) =>
                 \E m \in i + 1..j - 1 : picks[m] = k
      /\ \A i \in 2..Len(picks) - 1 :
           picks[i] \in in.failing => picks[i + 1] = picks[i] \/ ~Up(picks[i + 1], i)

StartsTakeTurns == call.fn = "StartTask" => TakesTurns(call.input, call.result.picks)
=============================================================================
