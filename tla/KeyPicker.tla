----------------------------- MODULE KeyPicker -----------------------------
(***************************************************************************)
(* Which key a new session is started on (keys/picker.go, keys/sticky.go), *)
(* as operators on the table of keys. Rotation leaves the order of Pick    *)
(* open; here it is Pick's ORDER BY, and StartTask's use of it.            *)
(*                                                                         *)
(* Keys are 1..N in the order of created_at. A row has the plan, the state,*)
(* cooldown_until and last_used_at; Missing is the SQL NULL.                  *)
(***************************************************************************)
EXTENDS Integers, Sequences, FiniteSets

CONSTANT Missing

\* CASE plan_type ... ELSE 3 END: a key whose plan is unknown comes last.
Rank(plan) ==
  CASE plan = "trial" -> 0 [] plan = "free" -> 1 [] plan = "paid" -> 2 [] OTHER -> 3

Usable(row, now) == row.state = "active" /\ (row.cooldown = Missing \/ row.cooldown <= now)

\* Mutant: keys that were never used come last in their plan.
SortKeyNullsLast(rows, k) ==
  LET row == rows[k]
  IN  <<Rank(row.plan),
        IF row.used = Missing THEN 1 ELSE 0,
        IF row.used = Missing THEN 0 ELSE row.used,
        k>>

\* The order of the picks, as a tuple compared from the left: plan, never used first,
\* oldest use, oldest key.
SortKey(rows, k) ==
  LET row == rows[k]
  IN  <<Rank(row.plan),
        IF row.used = Missing THEN 0 ELSE 1,
        IF row.used = Missing THEN 0 ELSE row.used,
        k>>

Before(u, v) ==
  \E i \in 1..4 : u[i] < v[i] /\ \A j \in 1..i - 1 : u[j] = v[j]

\* Pick, with Missing for ErrNoActiveKey.
Pick(rows, now) ==
  LET usable == {k \in DOMAIN rows : Usable(rows[k], now)}
  IN  IF usable = {} THEN Missing
      ELSE CHOOSE k \in usable :
             \A l \in usable \ {k} : Before(SortKey(rows, k), SortKey(rows, l))

\* PickWithPreference: the preferred key while it is usable, else the normal pick.
PickWithPreference(rows, preferred, now) ==
  IF preferred # Missing /\ Usable(rows[preferred], now) THEN preferred ELSE Pick(rows, now)

MarkUsed(rows, k, now) == [rows EXCEPT ![k].used = now]

\* StartTask stamps the key it picked after the remote session exists: a key the
\* create call fails on, for another reason than the quota, keeps its old stamp.
AfterStart(rows, k, failing, now) ==
  IF k = Missing \/ k \in failing THEN rows ELSE MarkUsed(rows, k, now)

\* StartTask, on the table and the keys picked so far.
StartTask(pool, preferred, failing, now) ==
  LET k == PickWithPreference(pool.table, preferred, now)
  IN  [table |-> AfterStart(pool.table, k, failing, now), picks |-> Append(pool.picks, k)]
=============================================================================
