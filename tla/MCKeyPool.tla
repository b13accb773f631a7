----------------------------- MODULE MCKeyPool -----------------------------
(***************************************************************************)
(* KeyPool with history variables: who benched each key, for a probe may   *)
(* write over what a mark wrote; and a count for the rule the cooldowns    *)
(* exist for, "two daily refills, then weekly wait" (the comment on        *)
(* Reactivate).                                                            *)
(***************************************************************************)
EXTENDS KeyPool

VARIABLES
  bench,  \* per key on cooldown, what wrote its row last: "mark", "verdict" or
          \* "transient"; "none" of the other keys
  refills \* per key: daily benches of marks that were lifted since its last weekly one

historyVars == <<vars, bench, refills>>

\* A quota mark, a transient answer to a probe or any other answer writes the row.
WrittenBy(k) ==
  IF \E w \in Markers : MarkWrite(w) /\ mark[w].key = k THEN "mark"
  ELSE IF \E c \in Checkers, o \in Outcomes \cap Transient : CheckWrite(c, k, o)
       THEN "transient"
  ELSE IF \E c \in Checkers, o \in Outcomes : CheckWrite(c, k, o) THEN "verdict"
  ELSE bench[k]

\* A daily bench that a mark has started.
MarkBenched(k) == rows[k].state = "cooldown_daily" /\ bench[k] = "mark"

\* What a step of Reactivate does to the count.
Refilled(k) ==
  IF MarkBenched(k) /\ DailyUp(rows[k]) THEN refills[k] + 1
  ELSE IF WeeklyUp(rows[k]) THEN 0 ELSE refills[k]

HistoryInit ==
  Init /\ bench = [k \in Keys |-> "none"] /\ refills = [k \in Keys |-> 0]
HistoryNext ==
  /\ Next
  /\ bench' = [k \in Keys |-> IF rows'[k].state \in Cooldowns THEN WrittenBy(k) ELSE "none"]
  /\ refills' = [k \in Keys |-> IF Reactivate THEN Refilled(k) ELSE refills[k]]

HistorySpec     == HistoryInit /\ [][HistoryNext]_historyVars
FairHistorySpec == HistorySpec /\ Fairness

\* Without the timer Reactivate's query for its state reads (cooldown_until for a daily
\* bench, week_reset_at for a weekly one) a key is never selected.
Stranded(k) ==
  \/ rows[k].state = "cooldown_daily" /\ rows[k].until = None
  \/ rows[k].state = "cooldown_weekly" /\ rows[k].weekReset = None

\* A key on cooldown has its timer, however marks, probes and lifts overlap and however
\* old the rows are they write back. The one writer that strands a key is the default
\* branch of mapCheckOutcome, for a transient answer to a probe.
CooldownHasTimer == \A k \in Keys : Stranded(k) => bench[k] = "transient"

DailyWithinBudget ==
  \A k \in Keys : MarkBenched(k) => rows[k].cycles <= DailyCyclesPerWeek

RefillsPerWeek == \A k \in Keys : refills[k] <= DailyCyclesPerWeek

\* "The third quota event in a week forces the longer wait" (cooldown.go): no mark puts
\* a key whose counter has passed the weekly allowance on a daily bench, and however
\* many marks overlap and overwrite each other's increment, and whatever probes write in
\* between, a key is handed back to the picker after the daily bench of a mark at most
\* twice between two weekly ones, as long as the reads that go stale are younger than
\* half a daily bench. A bench that a probe's answer has written is not counted here,
\* for ApplyCheckOutcome does not count it either.
WeeklyAllowance == DailyWithinBudget /\ RefillsPerWeek

\* "Cooldowns automatically lift when their timer expires" (reactivator.go): once quota
\* signals stop, every key leaves its cooldown, through stale writes, deletes and
\* restarts, unless a transient answer has stranded it.
CooldownsEnd ==
  \A k \in Keys :
    rows[k].state \in Cooldowns ~> rows[k].state \notin Cooldowns \/ Stranded(k)
=============================================================================
