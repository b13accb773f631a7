----------------------------- MODULE Recurrence -----------------------------
(***************************************************************************)
(* When a schedule runs next: cron expressions (schedules/cron.go) and     *)
(* ComputeNextRunFull (schedules/schedules.go), as operators on times.     *)
(*                                                                         *)
(* A time is a number of ticks since the start of the calendar, whose days *)
(* are given by CONSTANTS so that a small instance has short months, a leap*)
(* day and a date that no year has. An expression is kept as its fields    *)
(* and a field as its pieces, already split at the commas: what is checked *)
(* is what the pieces denote, not how their text is scanned.               *)
(***************************************************************************)
EXTENDS LocalTime, Sequences, FiniteSetsExt

CONSTANTS
  MinuteLen,   \* ticks in a minute: more than one, for Truncate to matter
  HourMinutes, \* minutes in an hour
  DayHours,    \* hours in a day
  WeekDays,    \* days in a week; Sunday is 0, and also WeekDays
  Calendar,    \* the days of one cycle of years: [dom |-> , month |-> ]
  LastDom,     \* the largest day of the month a field may name
  LastMonth,   \* the largest month
  SearchLimit, \* minutes Cron.Next looks ahead (five years)
  FarAhead,    \* what a fired one-off is pushed back by (1000 days)
  Missing      \* a missing step, a piece that is no number, no result

ASSUME CalendarAssumption ==
  /\ {MinuteLen, HourMinutes, DayHours, WeekDays, LastDom, LastMonth} \subseteq Nat \ {0}
  /\ {SearchLimit, FarAhead} \subseteq Nat \ {0}
  /\ Calendar \in Seq([dom : 1..LastDom, month : 1..LastMonth]) /\ Calendar # <<>>
  /\ Missing \notin Int

HourLen == MinuteLen * HourMinutes
DayLen  == HourLen * DayHours

MinuteOf(t)  == (t \div MinuteLen) % HourMinutes
HourOf(t)    == (t \div HourLen) % DayHours
DateOf(t)    == Calendar[((t \div DayLen) % Len(Calendar)) + 1]
WeekdayOf(t) == (t \div DayLen) % WeekDays

(***************************************************************************)
(* Cron expressions.                                                       *)
(***************************************************************************)
Star == <<[base |-> <<>>, step |-> Missing]>> \* the field "*"

\* One piece of a field: "*", "N" or "N-M", each with or without "/S".
Low(p, min)  == IF p.base = <<>> THEN min ELSE p.base[1]
High(p, max) == IF p.base = <<>> THEN max ELSE p.base[Len(p.base)]
Stride(p)    == IF p.step = Missing THEN 1 ELSE p.step

PieceOK(p, min, max) == p # Missing /\ Stride(p) > 0 /\ Low(p, min) <= High(p, max)

\* parseField: the values set by "for v := lo; v <= hi; v += step", those outside
\* the field's range dropped by fieldSet.set without an error.
PieceValues(p, min, max) ==
  {v \in min..max :
     v \in Low(p, min)..High(p, max) /\ (v - Low(p, min)) % Stride(p) = 0}

FieldValues(pieces, min, max) ==
  UNION {PieceValues(pieces[i], min, max) : i \in DOMAIN pieces}

FieldOK(pieces, min, max) ==
  /\ \A i \in DOMAIN pieces : PieceOK(pieces[i], min, max)
  /\ FieldValues(pieces, min, max) # {}

WellFormed(e) ==
  /\ FieldOK(e.minute, 0, HourMinutes - 1)
  /\ FieldOK(e.hour, 0, DayHours - 1)
  /\ FieldOK(e.dom, 1, LastDom)
  /\ FieldOK(e.month, 1, LastMonth)
  /\ FieldOK(e.dow, 0, WeekDays)

\* "Normalise day-of-week 7 -> 0", then bit 7 is cleared.
FoldSunday(days) == (days \cup (IF WeekDays \in days THEN {0} ELSE {})) \ {WeekDays}

ParseCron(e) ==
  [minute |-> FieldValues(e.minute, 0, HourMinutes - 1),
   hour   |-> FieldValues(e.hour, 0, DayHours - 1),
   dom    |-> FieldValues(e.dom, 1, LastDom),
   month  |-> FieldValues(e.month, 1, LastMonth),
   dow    |-> FoldSunday(FieldValues(e.dow, 0, WeekDays)),
   domSet |-> e.dom # Star,
   dowSet |-> e.dow # Star]

\* Mutant: both day fields have to match, as in a reading of the five fields as a filter.
DayMatchesBoth(c, t) ==
  (c.domSet => DateOf(t).dom \in c.dom) /\ (c.dowSet => WeekdayOf(t) \in c.dow)

DayMatches(c, t) ==
  \/ c.domSet /\ DateOf(t).dom \in c.dom
  \/ c.dowSet /\ WeekdayOf(t) \in c.dow
  \/ ~c.domSet /\ ~c.dowSet

Match(c, t) ==
  /\ MinuteOf(t) \in c.minute
  /\ HourOf(t) \in c.hour
  /\ DateOf(t).month \in c.month
  /\ DayMatches(c, t)

\* Cron.Next: minute by minute from the minute after "after", at most SearchLimit.
CronNext(c, after) ==
  LET first == (after \div MinuteLen + 1) * MinuteLen
      found == {i \in 0..SearchLimit - 1 : Match(c, first + i * MinuteLen)}
  IN  IF found = {} THEN Missing ELSE first + Min(found) * MinuteLen

(***************************************************************************)
(* ComputeNextRunFull, per kind. A schedule holds the parameters of every  *)
(* kind and "anchor" is Missing on Create and now in Claim and MarkRan. The   *)
(* result is a set, for the daily kind leaves a choice to the library.     *)
(***************************************************************************)
IntervalNext(s, now, anchor) ==
  LET length == IF s.interval <= 0 THEN MinuteLen ELSE s.interval
      next   == anchor + length
  IN  IF anchor = Missing \/ next < now THEN now + length ELSE next

\* Mutant: hour and minute are read as UTC.
DailyNextUTC(s, zone, now) ==
  LET t == (now \div DayLen) * DayLen + s.at IN {IF t <= now THEN t + DayLen ELSE t}

DailyNext(s, zone, now) == DailyRuns(zone, DayLen, s.at, now)

CronRunNext(s, now) ==
  LET next == CronNext(ParseCron(s.expr), now)
  IN  IF ~WellFormed(s.expr) \/ next = Missing THEN now + HourLen ELSE next

OneoffNext(s, now, anchor) == IF anchor # Missing THEN now + FarAhead ELSE s.fireAt

ComputeNextRun(s, zone, now, anchor) ==
  CASE s.kind = "interval" -> {IntervalNext(s, now, anchor)}
    [] s.kind = "daily"    -> DailyNext(s, zone, now)
    [] s.kind = "cron"     -> {CronRunNext(s, now)}
    [] s.kind = "oneoff"   -> {OneoffNext(s, now, anchor)}
=============================================================================
