----------------------------- MODULE LocalTime -----------------------------
(***************************************************************************)
(* Local time and the next run of a daily schedule: a zone whose offset    *)
(* changes once, at the instant "at".  An instant is a tick, and "day" the *)
(* number of ticks in 24 hours.                                            *)
(***************************************************************************)
EXTENDS Integers

Offset(zone, t) == IF t < zone.at THEN zone.before ELSE zone.after
Local(zone, t)  == t + Offset(zone, t)

\* time.Date: the instants the wall clock shows "wall" at. Where the clock shows it
\* twice or never the library promises one of the two offsets and not which.
InstantsOf(zone, wall) ==
  LET both  == {wall - zone.before, wall - zone.after}
      shown == {t \in both : Local(zone, t) = wall}
  IN  IF shown = {} THEN both ELSE shown

\* The daily branch of ComputeNextRunFull: today's date at the time of day "at", or 24
\* hours later if that is not after now. On a date whose clock is set back, 24 hours
\* later may be the same date, and need not be after now either.
DailyRuns(zone, day, at, now) ==
  LET today == (Local(zone, now) \div day) * day
  IN  {IF t <= now THEN t + day ELSE t : t \in InstantsOf(zone, today + at)}
=============================================================================
