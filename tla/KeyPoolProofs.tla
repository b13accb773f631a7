--------------------------- MODULE KeyPoolProofs ---------------------------
(***************************************************************************)
(* Proofs about KeyPool, for every set of keys, of concurrent markers and  *)
(* checkers, every outcome set and every cooldown length.                  *)
(***************************************************************************)
EXTENDS MCKeyPool, TLAPS

(***************************************************************************)
(* What the row-level operators return.                                    *)
(***************************************************************************)

\* The row MarkQuotaExhausted writes is a benched row, whatever row it read.
LEMMA ExhaustedRow ==
  ASSUME NEW r \in Row, NEW at \in Nat
  PROVE  /\ Exhausted(r, at) \in Row
         /\ Exhausted(r, at).state \in Cooldowns
         /\ Exhausted(r, at).until \in Nat
         /\ Exhausted(r, at).state = "cooldown_weekly"
              => Exhausted(r, at).weekReset \in Nat
BY NumberAssumption DEF Exhausted, Row, Cooldowns, States, Times

\* The two columns mapCheckOutcome decides: an active or dead verdict always
\* comes with a cleared timer.
LEMMA CheckedPair ==
  ASSUME NEW s \in States, NEW o \in Outcomes, now \in Nat
  PROVE  /\ Checked(s, o).state \in States
         /\ Checked(s, o).until \in Times
         /\ Checked(s, o).state \in {"active", "dead"} => Checked(s, o).until = None
<1>1. CASE o = "valid"
  BY <1>1 DEF Checked, States, Times
<1>2. CASE o = "unauthorized"
  BY <1>2 DEF Checked, States, Times
<1>3. CASE o = "quota_exhausted"
  BY <1>3, NumberAssumption DEF Checked, States, Cooldowns, Times
<1>4. CASE o \in Transient
  <2>1. o # "valid" /\ o # "unauthorized" /\ o # "quota_exhausted"
    BY <1>4 DEF Transient
  <2>2. Checked(s, o) = [state |-> s, until |-> None]
    BY <1>4, <2>1 DEF Checked
  <2> QED BY <2>2 DEF Times
<1> QED BY <1>1, <1>2, <1>3, <1>4, OutcomeAssumption DEF Answers

\* Reactivate rewrites a row either into an active row without timers or not at
\* all.
LEMMA LiftedRow ==
  ASSUME NEW r \in Row
  PROVE  /\ Lifted(r) \in Row
         /\ Lifted(r) = r \/ (Lifted(r).state = "active" /\ Lifted(r).until = None)
BY DEF Lifted, Row, Cooldowns, States, Times

(***************************************************************************)
(* Type correctness.                                                       *)
(***************************************************************************)

LEMMA TypeInit == Init => TypeOK
BY DEF Init, TypeOK, Unborn, Row, Times

LEMMA TypeStep == TypeOK /\ [Next]_vars => TypeOK'
<1> SUFFICES ASSUME TypeOK, [Next]_vars PROVE TypeOK'
  OBVIOUS
<1> USE DEF TypeOK
<1>1. CASE Tick
  BY <1>1 DEF Tick
<1>2. ASSUME NEW k \in Keys, Create(k) PROVE TypeOK'
  BY <1>2 DEF Create, Row, States, Cooldowns
<1>3. ASSUME NEW k \in Keys, Delete(k) PROVE TypeOK'
  BY <1>3 DEF Delete, Row
<1>4. ASSUME NEW k \in Keys, OpenSession(k) PROVE TypeOK'
  BY <1>4 DEF OpenSession
<1>5. ASSUME NEW w \in Markers, NEW k \in Keys, MarkRead(w, k) PROVE TypeOK'
  <2>1. [key |-> k, row |-> rows[k], at |-> now] \in Marking
    BY DEF Marking
  <2> QED BY <1>5, <2>1 DEF MarkRead
<1>6. ASSUME NEW w \in Markers, MarkWrite(w) PROVE TypeOK'
  <2>1. mark[w] \in Marking
    BY <1>6 DEF MarkWrite
  <2>2. mark[w].row \in Row /\ mark[w].at \in Nat
    BY <2>1 DEF Marking
  <2>3. Exhausted(mark[w].row, mark[w].at) \in Row
    BY <2>2, ExhaustedRow
  <2>4. rows' \in [Keys -> Row]
    BY <1>6, <2>3 DEF MarkWrite
  <2> QED BY <1>6, <2>4 DEF MarkWrite
<1>7. ASSUME NEW c \in Checkers, NEW ks \in SUBSET Keys, CheckRead(c, ks) PROVE TypeOK'
  <2>1. Sight(ks) \in [Keys -> Sighting \cup {None}]
    BY DEF Sight, Sighting, Present, States
  <2> QED BY <1>7, <2>1 DEF CheckRead
<1>8. ASSUME NEW c \in Checkers, NEW k \in Keys, NEW o \in Outcomes, CheckWrite(c, k, o)
      PROVE TypeOK'
  <2>1. seen[c][k].state \in States
    BY <1>8 DEF CheckWrite, Sighting
  <2>2. /\ Checked(seen[c][k].state, o).state \in States
        /\ Checked(seen[c][k].state, o).until \in Times
    BY <2>1, CheckedPair
  <2>3. rows' \in [Keys -> Row]
    BY <1>8, <2>2 DEF CheckWrite, Row
  <2> QED BY <1>8, <2>3 DEF CheckWrite
<1>9. CASE Reactivate
  BY <1>9, LiftedRow DEF Reactivate
<1>10. CASE Restart
  BY <1>10 DEF Restart
<1>11. CASE UNCHANGED vars
  BY <1>11 DEF vars
<1> QED
  BY <1>1, <1>2, <1>3, <1>4, <1>5, <1>6, <1>7, <1>8, <1>9, <1>10, <1>11 DEF Next

\* Every reachable state is well typed: in particular the row a marker carries
\* from its Get to its UPDATE is a row the table could hold.
THEOREM TypeCorrect == Spec => []TypeOK
<1> QED BY TypeInit, TypeStep, PTL DEF Spec

(***************************************************************************)
(* Timers.  ActiveUntimed says nothing of a row before its Create, whose   *)
(* INSERT leaves cooldown_until NULL; the inductive invariant does.        *)
(***************************************************************************)

TimerInv ==
  /\ TypeOK
  /\ ActiveUntimed
  /\ \A k \in Keys : rows[k].state = "unborn" => rows[k].until = None

LEMMA TimerInvInit == Init => TimerInv
<1> SUFFICES ASSUME Init PROVE TimerInv
  OBVIOUS
<1>1. TypeOK
  BY TypeInit
<1>2. \A k \in Keys : rows[k].state = "unborn" /\ rows[k].until = None
  BY DEF Init, Unborn
<1> QED BY <1>1, <1>2 DEF TimerInv, ActiveUntimed

LEMMA TimerInvStep == TimerInv /\ [Next]_vars => TimerInv'
<1> SUFFICES ASSUME TimerInv, [Next]_vars PROVE TimerInv'
  OBVIOUS
<1>0. TypeOK /\ TypeOK'
  BY TypeStep DEF TimerInv
<1> DEFINE Ok(r) == r.state \in {"active", "dead", "unborn"} => r.until = None
<1>a. \A k \in Keys : Ok(rows[k])
  BY DEF TimerInv, ActiveUntimed
<1> SUFFICES ASSUME NEW j \in Keys PROVE Ok(rows'[j])
  BY <1>0 DEF TimerInv, ActiveUntimed
<1>b. rows \in [Keys -> Row] /\ rows[j] \in Row
  BY <1>0 DEF TypeOK
<1>1. CASE UNCHANGED rows
  BY <1>1, <1>a
<1>2. ASSUME NEW k \in Keys, Create(k) PROVE Ok(rows'[j])
  BY <1>2, <1>a, <1>b DEF Create, Row
<1>3. ASSUME NEW k \in Keys, Delete(k) PROVE Ok(rows'[j])
  BY <1>3, <1>a, <1>b DEF Delete, Row
<1>4. ASSUME NEW w \in Markers, MarkWrite(w) PROVE Ok(rows'[j])
  <2>1. mark[w].row \in Row /\ mark[w].at \in Nat
    BY <1>0, <1>4 DEF TypeOK, Marking, MarkWrite
  <2>2. Exhausted(mark[w].row, mark[w].at).state \in Cooldowns
    BY <2>1, ExhaustedRow
  <2>3. Ok(Exhausted(mark[w].row, mark[w].at))
    BY <2>2 DEF Cooldowns
  <2> QED BY <1>4, <1>a, <1>b, <2>3 DEF MarkWrite
<1>5. ASSUME NEW c \in Checkers, NEW k \in Keys, NEW o \in Outcomes, CheckWrite(c, k, o)
      PROVE Ok(rows'[j])
  <2> DEFINE v == Checked(seen[c][k].state, o)
  <2>1. seen[c][k].state \in States /\ now \in Nat
    BY <1>0, <1>5 DEF TypeOK, CheckWrite, Sighting
  <2>2. v.state \in States /\ (v.state \in {"active", "dead"} => v.until = None)
    BY <2>1, CheckedPair
  <2>3. v.state # "unborn"
    BY <2>2 DEF States, Cooldowns
  <2>4. rows' = IF Present(k)
                THEN [rows EXCEPT ![k].state = v.state, ![k].until = v.until] ELSE rows
    BY <1>5 DEF CheckWrite
  <2> HIDE DEF v
  <2> QED BY <1>a, <1>b, <2>2, <2>3, <2>4 DEF Row
<1>6. CASE Reactivate
  BY <1>6, <1>a, <1>b, LiftedRow DEF Reactivate
<1> QED
  BY <1>1, <1>2, <1>3, <1>4, <1>5, <1>6
  DEF Next, vars, Tick, OpenSession, MarkRead, CheckRead, Restart

(***************************************************************************)
(* No timer reaches further than its cooldown.  The times a marker carries *)
(* from its read lie in the past, and the week_reset_at it carries is one  *)
(* that the table could hold.                                              *)
(***************************************************************************)

Bounded(r, t) ==
  /\ r.until # None => r.until <= t + WeeklyCooldown
  /\ r.weekReset # None => r.weekReset <= t + WeeklyCooldown
  /\ r.state = "cooldown_daily" /\ r.until # None => r.until <= t + DailyCooldown

BoundInv ==
  /\ TypeOK
  /\ \A k \in Keys : Bounded(rows[k], now)
  /\ \A w \in Markers :
       mark[w] # None => mark[w].at <= now /\ Bounded(mark[w].row, now)

LEMMA BoundInvInit == Init => BoundInv
BY TypeInit DEF Init, BoundInv, Bounded, Unborn

\* A bound only moves away as time passes.
LEMMA BoundedLater ==
  ASSUME NEW r \in Row, NEW t \in Nat, NEW u \in Nat, t <= u, Bounded(r, t)
  PROVE  Bounded(r, u)
<1>1. WeeklyCooldown \in Nat /\ DailyCooldown \in Nat
  BY NumberAssumption
<1>2. (r.until # None => r.until \in Nat) /\ (r.weekReset # None => r.weekReset \in Nat)
  BY DEF Row, Times
<1> QED BY <1>1, <1>2 DEF Bounded

\* A bench computed from an old row ends within its cooldown all the same.
LEMMA ExhaustedBounded ==
  ASSUME NEW r \in Row, NEW at \in Nat, NEW t \in Nat, at <= t, Bounded(r, t)
  PROVE  Bounded(Exhausted(r, at), t)
<1>1. /\ WeeklyCooldown \in Nat /\ DailyCooldown \in Nat
      /\ DailyCooldown <= WeeklyCooldown
  BY NumberAssumption
<1>2. CASE Escalates(r)
  <2>1. /\ Exhausted(r, at).state = "cooldown_weekly"
        /\ Exhausted(r, at).until = at + WeeklyCooldown
        /\ Exhausted(r, at).weekReset = at + WeeklyCooldown
    BY <1>2 DEF Exhausted
  <2> QED BY <1>1, <2>1 DEF Bounded
<1>3. CASE ~Escalates(r)
  <2>1. /\ Exhausted(r, at).until = at + DailyCooldown
        /\ Exhausted(r, at).weekReset = r.weekReset
    BY <1>3 DEF Exhausted
  <2> QED BY <1>1, <2>1 DEF Bounded
<1> QED BY <1>2, <1>3

\* A probe's verdict clears the timer or starts a daily one.
LEMMA CheckedBounded ==
  ASSUME NEW s \in States, NEW o \in Outcomes, now \in Nat
  PROVE  /\ Checked(s, o).until # None => Checked(s, o).until = now + DailyCooldown
         /\ Checked(s, o).until \in Times
<1>1. CASE o = "quota_exhausted"
  BY <1>1, CheckedPair DEF Checked
<1>2. CASE o = "valid"
  BY <1>2, CheckedPair DEF Checked
<1>3. CASE o = "unauthorized"
  BY <1>3, CheckedPair DEF Checked
<1>4. CASE o \in Transient
  <2>1. o # "valid" /\ o # "unauthorized" /\ o # "quota_exhausted"
    BY <1>4 DEF Transient
  <2>2. Checked(s, o) = [state |-> s, until |-> None]
    BY <1>4, <2>1 DEF Checked
  <2> QED BY <2>2 DEF Times
<1> QED BY <1>1, <1>2, <1>3, <1>4, OutcomeAssumption DEF Answers

LEMMA BoundInvStep == BoundInv /\ [Next]_vars => BoundInv'
<1> SUFFICES ASSUME BoundInv, [Next]_vars PROVE BoundInv'
  OBVIOUS
<1>0. TypeOK /\ TypeOK'
  BY TypeStep DEF BoundInv
<1>t. /\ rows \in [Keys -> Row] /\ now \in Nat /\ now' \in Nat
      /\ mark \in [Markers -> Marking \cup {None}]
      /\ \A w \in Markers : mark[w] # None => mark[w].at \in Nat /\ mark[w].row \in Row
  BY <1>0 DEF TypeOK, Marking
<1>a. \A k \in Keys : Bounded(rows[k], now)
  BY DEF BoundInv
<1>b. \A w \in Markers : mark[w] # None => mark[w].at <= now /\ Bounded(mark[w].row, now)
  BY DEF BoundInv
\* Steps that leave the clock alone, one half of the invariant each.
<1>r. ASSUME now' = now, mark' = mark, \A k \in Keys : Bounded(rows'[k], now)
      PROVE  BoundInv'
  BY <1>r, <1>0, <1>b DEF BoundInv, Bounded
<1>m. ASSUME now' = now, rows' = rows,
             \A w \in Markers : mark'[w] # None => mark'[w].at <= now /\ Bounded(mark'[w].row, now)
      PROVE  BoundInv'
  BY <1>m, <1>0, <1>a DEF BoundInv, Bounded
<1>1. CASE Tick
  <2>1. now <= now' /\ rows' = rows /\ mark' = mark
    BY <1>1, <1>t DEF Tick
  <2>2. \A k \in Keys : Bounded(rows[k], now')
    BY <2>1, <1>t, <1>a, BoundedLater
  <2>3. \A w \in Markers : mark[w] # None => mark[w].at <= now' /\ Bounded(mark[w].row, now')
    <3> SUFFICES ASSUME NEW w \in Markers, mark[w] # None
                 PROVE  mark[w].at <= now' /\ Bounded(mark[w].row, now')
      OBVIOUS
    <3>1. Bounded(mark[w].row, now')
      BY <2>1, <1>t, <1>b, BoundedLater
    <3>2. mark[w].at <= now'
      BY <2>1, <1>t, <1>b
    <3> QED BY <3>1, <3>2
  <2> QED BY <1>0, <2>1, <2>2, <2>3 DEF BoundInv, Bounded
<1>2. ASSUME NEW k \in Keys, Create(k) PROVE BoundInv'
  <2>1. \A j \in Keys : Bounded(rows'[j], now)
    BY <1>2, <1>a, <1>t DEF Create, Bounded, Row
  <2> QED BY <1>2, <1>r, <2>1 DEF Create
<1>3. ASSUME NEW k \in Keys, Delete(k) PROVE BoundInv'
  <2>1. \A j \in Keys : Bounded(rows'[j], now)
    BY <1>3, <1>a, <1>t DEF Delete, Bounded, Row
  <2> QED BY <1>3, <1>r, <2>1 DEF Delete
<1>4. ASSUME NEW k \in Keys, OpenSession(k) PROVE BoundInv'
  BY <1>4, <1>r, <1>a DEF OpenSession
<1>5. ASSUME NEW w \in Markers, NEW k \in Keys, MarkRead(w, k) PROVE BoundInv'
  <2>1. mark' = [mark EXCEPT ![w] = [key |-> k, row |-> rows[k], at |-> now]]
    BY <1>5 DEF MarkRead
  <2>2. \A v \in Markers : mark'[v] # None => mark'[v].at <= now /\ Bounded(mark'[v].row, now)
    BY <2>1, <1>a, <1>b, <1>t
  <2> QED BY <1>5, <1>m, <2>2 DEF MarkRead
<1>6. ASSUME NEW w \in Markers, MarkWrite(w) PROVE BoundInv'
  <2>1. Bounded(Exhausted(mark[w].row, mark[w].at), now)
    BY <1>6, <1>b, <1>t, ExhaustedBounded DEF MarkWrite
  <2>2. \A k \in Keys : Bounded(rows'[k], now)
    BY <1>6, <2>1, <1>a, <1>t DEF MarkWrite
  <2>3. \A v \in Markers : mark'[v] # None => mark'[v] = mark[v]
    BY <1>6, <1>t DEF MarkWrite
  <2> QED BY <1>6, <1>0, <1>b, <2>2, <2>3 DEF MarkWrite, BoundInv, Bounded
<1>7. ASSUME NEW c \in Checkers, NEW ks \in SUBSET Keys, CheckRead(c, ks) PROVE BoundInv'
  BY <1>7, <1>r, <1>a DEF CheckRead
<1>8. ASSUME NEW c \in Checkers, NEW k \in Keys, NEW o \in Outcomes, CheckWrite(c, k, o)
      PROVE BoundInv'
  <2> DEFINE v == Checked(seen[c][k].state, o)
  <2>1. seen[c][k].state \in States
    BY <1>0, <1>8 DEF TypeOK, CheckWrite, Sighting
  <2>2. (v.until # None => v.until = now + DailyCooldown) /\ v.until \in Times
    BY <2>1, <1>t, CheckedBounded
  <2>3. rows' = IF Present(k)
                THEN [rows EXCEPT ![k].state = v.state, ![k].until = v.until] ELSE rows
    BY <1>8 DEF CheckWrite
  <2> HIDE DEF v
  <2>4. \A j \in Keys : Bounded(rows'[j], now)
    <3> SUFFICES ASSUME NEW j \in Keys PROVE Bounded(rows'[j], now)
      OBVIOUS
    <3>1. rows[j] \in Row /\ Bounded(rows[j], now)
      BY <1>t, <1>a
    <3>2. CASE rows'[j] = rows[j]
      BY <3>1, <3>2
    <3>3. CASE rows'[j] # rows[j]
      <4>1. rows'[j].until = v.until /\ rows'[j].weekReset = rows[j].weekReset
        BY <3>3, <2>3, <1>t DEF Row
      <4> QED BY <3>1, <4>1, <2>2, <1>t, NumberAssumption DEF Bounded
    <3> QED BY <3>2, <3>3
  <2> QED BY <1>8, <1>r, <2>4 DEF CheckWrite
<1>9. CASE Reactivate
  <2>1. \A k \in Keys : Bounded(Lifted(rows[k]), now)
    BY <1>a, <1>t DEF Lifted, Bounded, Row
  <2> QED BY <1>9, <1>r, <2>1 DEF Reactivate
<1>10. CASE Restart
  BY <1>10, <1>m DEF Restart
<1>11. CASE UNCHANGED vars
  BY <1>11, <1>m, <1>b DEF vars
<1> QED
  BY <1>1, <1>2, <1>3, <1>4, <1>5, <1>6, <1>7, <1>8, <1>9, <1>10, <1>11 DEF Next

\* However reads and writes of markers, checkers and the reactivator interleave, an
\* active or dead key never carries a cooldown timer, and no bench reaches further
\* than its cooldown from now.
THEOREM TimersStaySane == Spec => []TimersSane
<1>1. TimerInv => ActiveUntimed
  BY DEF TimerInv
<1>2. BoundInv => TimersBounded
  BY DEF BoundInv, Bounded, TimersBounded
<1> QED
  BY TimerInvInit, TimerInvStep, BoundInvInit, BoundInvStep, <1>1, <1>2, PTL
  DEF Spec, TimersSane

(***************************************************************************)
(* A marked key exists.                                                    *)
(***************************************************************************)

\* A marker only takes keys with a session, and such a key stays in the table:
\* the second conjunct is the foreign key, the first carries it to the marker.
HeldInv ==
  /\ TypeOK
  /\ \A w \in Markers : mark[w] # None => mark[w].key \in opened
  /\ \A k \in opened : Present(k)

LEMMA HeldInvInit == Init => HeldInv
BY TypeInit DEF Init, HeldInv

LEMMA HeldInvStep == HeldInv /\ [Next]_vars => HeldInv'
<1> SUFFICES ASSUME HeldInv, [Next]_vars PROVE HeldInv'
  OBVIOUS
<1>0. TypeOK /\ TypeOK'
  BY TypeStep DEF HeldInv
<1>h. /\ \A w \in Markers : mark[w] # None => mark[w].key \in opened
      /\ \A k \in opened : Present(k)
  BY DEF HeldInv
<1>t. rows \in [Keys -> Row] /\ opened \subseteq Keys
  BY <1>0 DEF TypeOK
<1>k. ASSUME UNCHANGED <<opened, mark>>,
             \A k \in Keys : Present(k) => Present(k)' \/ k \notin opened
      PROVE  HeldInv'
  BY <1>k, <1>0, <1>h, <1>t DEF HeldInv
<1>1. CASE Tick \/ Restart \/ UNCHANGED vars
  BY <1>1, <1>0, <1>h DEF Tick, Restart, vars, HeldInv, Present
<1>2. ASSUME NEW k \in Keys, Create(k) PROVE HeldInv'
  <2>1. \A j \in Keys : Present(j) => Present(j)'
    BY <1>2, <1>t DEF Create, Present, States, Row
  <2> QED BY <1>2, <1>k, <2>1 DEF Create
<1>3. ASSUME NEW k \in Keys, Delete(k) PROVE HeldInv'
  <2>1. \A j \in Keys : Present(j) => Present(j)' \/ j \notin opened
    BY <1>3, <1>t DEF Delete, Deletable, Present
  <2> QED BY <1>3, <1>k, <2>1 DEF Delete
<1>4. ASSUME NEW k \in Keys, OpenSession(k) PROVE HeldInv'
  BY <1>4, <1>0, <1>h DEF OpenSession, HeldInv, Present
<1>5. ASSUME NEW w \in Markers, NEW k \in Keys, MarkRead(w, k) PROVE HeldInv'
  <2>1. mark' = [mark EXCEPT ![w] = [key |-> k, row |-> rows[k], at |-> now]]
    BY <1>5 DEF MarkRead
  <2>2. \A v \in Markers : mark'[v] # None => mark'[v].key \in opened
    BY <1>5, <1>0, <1>h, <2>1 DEF MarkRead, TypeOK
  <2> QED BY <1>5, <1>0, <1>h, <2>2 DEF MarkRead, HeldInv, Present
<1>6. ASSUME NEW w \in Markers, MarkWrite(w) PROVE HeldInv'
  <2>1. Exhausted(mark[w].row, mark[w].at).state \in States
    BY <1>0, <1>6, ExhaustedRow DEF TypeOK, Marking, MarkWrite, States
  <2>2. \A j \in Keys : Present(j) => Present(j)'
    BY <1>6, <1>t, <2>1 DEF MarkWrite, Present
  <2>3. \A v \in Markers : mark'[v] # None => mark'[v].key \in opened'
    BY <1>6, <1>0, <1>h DEF MarkWrite, TypeOK
  <2> QED BY <1>6, <1>0, <1>h, <1>t, <2>2, <2>3 DEF MarkWrite, HeldInv
<1>7. ASSUME NEW c \in Checkers, NEW ks \in SUBSET Keys, CheckRead(c, ks) PROVE HeldInv'
  BY <1>7, <1>0, <1>h DEF CheckRead, HeldInv, Present
<1>8. ASSUME NEW c \in Checkers, NEW k \in Keys, NEW o \in Outcomes, CheckWrite(c, k, o)
      PROVE HeldInv'
  <2> DEFINE v == Checked(seen[c][k].state, o)
  <2>1. seen[c][k].state \in States /\ now \in Nat
    BY <1>0, <1>8 DEF TypeOK, CheckWrite, Sighting
  <2>2. v.state \in States
    BY <2>1, CheckedPair
  <2>3. rows' = IF Present(k)
                THEN [rows EXCEPT ![k].state = v.state, ![k].until = v.until] ELSE rows
    BY <1>8 DEF CheckWrite
  <2> HIDE DEF v
  <2>4. \A j \in Keys : Present(j) => Present(j)'
    BY <1>t, <2>2, <2>3 DEF Present, Row
  <2> QED BY <1>8, <1>k, <2>4 DEF CheckWrite
<1>9. CASE Reactivate
  <2>1. \A j \in Keys : Present(j) => Present(j)'
    BY <1>9, <1>t, LiftedRow DEF Reactivate, Present, States
  <2> QED BY <1>9, <1>k, <2>1 DEF Reactivate
<1> QED
  BY <1>1, <1>2, <1>3, <1>4, <1>5, <1>6, <1>7, <1>8, <1>9 DEF Next

\* MarkQuotaExhausted's UPDATE always finds its row: the sessions foreign key
\* keeps the key from being deleted between the Get and the UPDATE.
THEOREM MarkedKeyAlwaysExists == Spec => []MarkedKeyExists
<1>1. HeldInv => MarkedKeyExists
  BY DEF HeldInv, MarkedKeyExists
<1> QED BY HeldInvInit, HeldInvStep, <1>1, PTL DEF Spec

(***************************************************************************)
(* When does a cooldown keep its timer?  The history says who wrote a row  *)
(* last, so the step is split on the answer, not on the action.            *)
(***************************************************************************)

\* A step of the history is a step of the pool.
LEMMA HistoryStep ==
  ASSUME TypeOK, [HistoryNext]_historyVars
  PROVE  TypeOK' /\ [Next]_vars
BY TypeStep DEF HistoryNext, historyVars, vars

\* The row that a quota mark leaves behind, if the key is still there.
LEMMA MarkedRow ==
  ASSUME TypeOK, NEW w \in Markers, MarkWrite(w)
  PROVE  LET k == mark[w].key
             x == Exhausted(mark[w].row, mark[w].at)
         IN  /\ k \in Keys /\ mark[w].row \in Row /\ mark[w].at \in Nat
             /\ \A j \in Keys \ {k} : rows'[j] = rows[j]
             /\ \/ rows'[k] = x
                \/ rows'[k] = rows[k] /\ rows[k].state \notin States
<1>1. mark[w] \in Marking /\ rows \in [Keys -> Row]
  BY DEF MarkWrite, TypeOK
<1>2. mark[w].key \in Keys /\ mark[w].row \in Row /\ mark[w].at \in Nat
  BY <1>1 DEF Marking
<1> DEFINE k == mark[w].key
           x == Exhausted(mark[w].row, mark[w].at)
<1>3. rows' = IF Present(k) THEN [rows EXCEPT ![k] = x] ELSE rows
  BY DEF MarkWrite
<1>4. k \in Keys
  BY <1>2
<1> HIDE DEF k, x
<1>5. /\ \A j \in Keys \ {k} : rows'[j] = rows[j]
      /\ rows'[k] = x \/ (rows'[k] = rows[k] /\ rows[k].state \notin States)
  BY <1>1, <1>3, <1>4 DEF Present
<1> QED BY <1>2, <1>5 DEF k, x

\* The row that a probe leaves behind: a decisive answer never benches without a timer.
LEMMA CheckedRow ==
  ASSUME TypeOK, NEW c \in Checkers, NEW k \in Keys, NEW o \in Outcomes, CheckWrite(c, k, o)
  PROVE  /\ \A j \in Keys \ {k} : rows'[j] = rows[j]
         /\ rows'[k].cycles = rows[k].cycles
         /\ rows[k].state \notin States => rows'[k] = rows[k]
         /\ rows[k].state \in States /\ o \notin Transient =>
              /\ rows'[k].state # "cooldown_weekly"
              /\ rows'[k].state = "cooldown_daily" => rows'[k].until \in Nat
<1> DEFINE v == Checked(seen[c][k].state, o)
<1>1. rows \in [Keys -> Row] /\ now \in Nat
  BY DEF TypeOK
<1>2. o \notin Transient => /\ v.state # "cooldown_weekly"
                            /\ v.state = "cooldown_daily" => v.until \in Nat
  <2> SUFFICES ASSUME o \notin Transient
               PROVE  /\ v.state # "cooldown_weekly"
                      /\ v.state = "cooldown_daily" => v.until \in Nat
    OBVIOUS
  <2>1. o \in {"valid", "unauthorized", "quota_exhausted"}
    BY OutcomeAssumption DEF Answers
  <2> QED BY <1>1, <2>1, NumberAssumption DEF Checked
<1>3. rows' = IF Present(k)
              THEN [rows EXCEPT ![k].state = v.state, ![k].until = v.until] ELSE rows
  BY DEF CheckWrite
<1> HIDE DEF v
<1> QED BY <1>1, <1>2, <1>3 DEF Present, Row

\* What is left of a row that neither a mark nor a probe has written in the step.
LEMMA UnwrittenRow ==
  ASSUME TypeOK, [Next]_vars, NEW j \in Keys,
         ~ \E w \in Markers : MarkWrite(w) /\ mark[w].key = j,
         ~ \E c \in Checkers, o \in Outcomes : CheckWrite(c, j, o)
  PROVE  rows'[j] = rows[j] \/ rows'[j].state \in {"active", "deleted"}
<1>1. rows \in [Keys -> Row]
  BY DEF TypeOK
<1>2. ASSUME NEW k \in Keys, Create(k) \/ Delete(k)
      PROVE  rows'[j] = rows[j] \/ rows'[j].state \in {"active", "deleted"}
  BY <1>1, <1>2 DEF Create, Delete, Row
<1>3. ASSUME NEW w \in Markers, MarkWrite(w) PROVE rows'[j] = rows[j]
  <2>1. mark[w].key # j
    BY <1>3
  <2>2. \A i \in Keys \ {mark[w].key} : rows'[i] = rows[i]
    BY <1>3, MarkedRow
  <2> QED BY <2>1, <2>2
<1>4. ASSUME NEW c \in Checkers, NEW k \in Keys, NEW o \in Outcomes, CheckWrite(c, k, o)
      PROVE  rows'[j] = rows[j]
  <2>1. k # j
    BY <1>4
  <2>2. \A i \in Keys \ {k} : rows'[i] = rows[i]
    BY <1>4, CheckedRow
  <2> QED BY <2>1, <2>2
<1>5. CASE Reactivate
  BY <1>1, <1>5, LiftedRow DEF Reactivate
<1>6. CASE UNCHANGED rows
  BY <1>6
<1> QED
  BY <1>2, <1>3, <1>4, <1>5, <1>6
  DEF Next, vars, Tick, OpenSession, MarkRead, CheckRead, Restart

LEMMA CooldownTimerStep ==
  ASSUME TypeOK, CooldownHasTimer, [HistoryNext]_historyVars
  PROVE  CooldownHasTimer'
<1>0. TypeOK' /\ [Next]_vars
  BY HistoryStep
<1>1. CASE UNCHANGED historyVars
  BY <1>1 DEF historyVars, vars, CooldownHasTimer, Stranded
<1>2. ASSUME HistoryNext, NEW j \in Keys, Stranded(j)' PROVE bench'[j] = "transient"
  <2>1. bench'[j] = WrittenBy(j)
    BY <1>2 DEF HistoryNext, Stranded, Cooldowns
  <2>2. ASSUME NEW w \in Markers, MarkWrite(w), mark[w].key = j PROVE FALSE
    <3> DEFINE x == Exhausted(mark[w].row, mark[w].at)
    <3>1. /\ mark[w].row \in Row /\ mark[w].at \in Nat
          /\ rows'[j] = x \/ (rows'[j] = rows[j] /\ rows[j].state \notin States)
      BY <2>2, MarkedRow
    <3>2. /\ x.state \in Cooldowns /\ x.until \in Nat
          /\ x.state = "cooldown_weekly" => x.weekReset \in Nat
      BY <3>1, ExhaustedRow
    <3> HIDE DEF x
    <3> QED BY <1>2, <3>1, <3>2, NoneAssumption DEF Stranded, States, Cooldowns
  <2>3. ASSUME NEW c \in Checkers, NEW o \in Outcomes, CheckWrite(c, j, o), o \notin Transient
        PROVE  FALSE
    <3>1. /\ rows[j].state \notin States => rows'[j] = rows[j]
          /\ rows[j].state \in States /\ o \notin Transient =>
               /\ rows'[j].state # "cooldown_weekly"
               /\ rows'[j].state = "cooldown_daily" => rows'[j].until \in Nat
      BY <2>3, CheckedRow
    <3> QED BY <1>2, <2>3, <3>1, NoneAssumption DEF Stranded, States, Cooldowns
  <2>4. CASE \E c \in Checkers, o \in Outcomes \cap Transient : CheckWrite(c, j, o)
    BY <2>1, <2>2, <2>4 DEF WrittenBy
  <2>5. CASE ~ \E c \in Checkers, o \in Outcomes : CheckWrite(c, j, o)
    <3>1. bench'[j] = bench[j]
      BY <2>1, <2>2, <2>5 DEF WrittenBy
    <3>2. rows'[j] = rows[j] \/ rows'[j].state \in {"active", "deleted"}
      BY <1>0, <2>2, <2>5, UnwrittenRow
    <3>3. Stranded(j)
      BY <1>2, <3>2 DEF Stranded
    <3> QED BY <3>1, <3>3 DEF CooldownHasTimer
  <2> QED BY <2>3, <2>4, <2>5
<1> QED BY <1>1, <1>2 DEF CooldownHasTimer

\* Whatever quota marks, probes, lifts and deletes overlap, with any answer to a probe
\* and however old the row that is written back: a key that is on cooldown without the
\* timer the reactivator looks for got there by the default branch of mapCheckOutcome,
\* a transient answer, and by nothing else; any later mark or decisive answer mends it.
THEOREM CooldownKeepsTimer == HistorySpec => []CooldownHasTimer
<1>1. HistoryInit => TypeOK /\ CooldownHasTimer
  BY TypeInit DEF HistoryInit, Init, CooldownHasTimer, Stranded, Unborn
<1>2. TypeOK /\ CooldownHasTimer /\ [HistoryNext]_historyVars
        => TypeOK' /\ CooldownHasTimer'
  BY HistoryStep, CooldownTimerStep
<1> QED BY <1>1, <1>2, PTL DEF HistorySpec

(***************************************************************************)
(* The weekly allowance.                                                   *)
(***************************************************************************)

\* The counter covers the daily benches that were lifted, and the one under way.
Allowed(k) ==
  /\ refills[k] <= DailyCyclesPerWeek
  /\ refills[k] <= rows[k].cycles
  /\ MarkBenched(k) =>
       refills[k] + 1 <= rows[k].cycles /\ rows[k].cycles <= DailyCyclesPerWeek

\* The row a marker has read may be stale, but not by a daily bench that was lifted: if
\* the bench of its key can end before the marker's write is due, the marker has read
\* the row with that bench counted.
Counted(w) ==
  LET k == mark[w].key
      r == mark[w].row
  IN  /\ mark[w].at <= now /\ now <= mark[w].at + MaxLag
      /\ refills[k] <= r.cycles
      /\ MarkBenched(k) /\ rows[k].until \in Nat /\ rows[k].until <= mark[w].at + MaxLag
           => refills[k] + 1 <= r.cycles

AllowanceInv ==
  /\ TypeOK
  /\ refills \in [Keys -> Nat]
  /\ \A k \in Keys : Allowed(k)
  /\ \A w \in Markers : mark[w] # None => Counted(w)

LEMMA AllowanceTyped ==
  ASSUME TypeOK, NEW w \in Markers, mark[w] # None
  PROVE  mark[w].key \in Keys /\ mark[w].row \in Row /\ mark[w].at \in Nat
<1>1. mark[w] \in Marking
  BY DEF TypeOK
<1> QED BY <1>1 DEF Marking

\* Only a mark benches a key for a day that counts: the bench a probe writes, or one
\* that is left as it was, is not a new one.
LEMMA BenchKept ==
  ASSUME TypeOK, HistoryNext, NEW j \in Keys, MarkBenched(j)',
         ~ \E w \in Markers : MarkWrite(w) /\ mark[w].key = j
  PROVE  MarkBenched(j) /\ rows'[j] = rows[j]
<1>1. bench'[j] = WrittenBy(j) /\ bench'[j] = "mark"
  BY DEF HistoryNext, MarkBenched, Cooldowns
<1>2. ~ \E c \in Checkers, o \in Outcomes : CheckWrite(c, j, o)
  <2>1. CASE \E c \in Checkers, o \in Outcomes \cap Transient : CheckWrite(c, j, o)
    BY <1>1, <2>1 DEF WrittenBy
  <2>2. CASE ~ \E c \in Checkers, o \in Outcomes \cap Transient : CheckWrite(c, j, o)
    BY <1>1, <2>2 DEF WrittenBy
  <2> QED BY <2>1, <2>2
<1>3. bench'[j] = bench[j]
  BY <1>1, <1>2 DEF WrittenBy
<1>4. rows'[j] = rows[j] \/ rows'[j].state \in {"active", "deleted"}
  BY <1>2, UnwrittenRow DEF HistoryNext
<1> QED BY <1>1, <1>3, <1>4 DEF MarkBenched

\* A step that starts no daily bench, lifts none and resets no counter.
LEMMA AllowanceQuiet ==
  ASSUME AllowanceInv, TypeOK', UNCHANGED <<now, refills>>,
         \A j \in Keys : rows'[j].cycles = rows[j].cycles,
         \A j \in Keys : MarkBenched(j)' => MarkBenched(j) /\ rows'[j] = rows[j],
         \A w \in Markers : mark'[w] \in {mark[w], None}
  PROVE  AllowanceInv'
<1>1. \A j \in Keys : Allowed(j)'
  BY DEF AllowanceInv, Allowed
<1>2. ASSUME NEW w \in Markers, mark'[w] # None PROVE Counted(w)'
  <2>1. mark'[w] = mark[w] /\ Counted(w) /\ mark[w].key \in Keys
    BY <1>2, AllowanceTyped DEF AllowanceInv
  <2> QED BY <2>1 DEF Counted
<1> QED BY <1>1, <1>2 DEF AllowanceInv

\* Reactivate counts the daily benches of marks it lifts, and starts anew with a weekly
\* one.
LEMMA AllowanceLift ==
  ASSUME AllowanceInv, TypeOK', Reactivate, HistoryNext
  PROVE  AllowanceInv'
<1>1. /\ now \in Nat /\ refills \in [Keys -> Nat] /\ rows \in [Keys -> Row]
      /\ DailyCyclesPerWeek \in Nat /\ MaxLag \in Nat
  BY NumberAssumption DEF AllowanceInv, TypeOK
<1>2. /\ now' = now /\ mark' = mark /\ \A k \in Keys : rows'[k] = Lifted(rows[k])
      /\ refills' = [k \in Keys |-> Refilled(k)]
  BY DEF Reactivate, HistoryNext
<1>b. ASSUME NEW j \in Keys, MarkBenched(j)' PROVE MarkBenched(j) /\ rows'[j] = rows[j]
  <2>1. ~ \E w \in Markers : MarkWrite(w) /\ mark[w].key = j
    BY <1>2 DEF MarkWrite, AllowanceInv, TypeOK
  <2> QED BY <1>b, <2>1, BenchKept DEF AllowanceInv
<1>3. ASSUME NEW k \in Keys
      PROVE  /\ refills'[k] \in Nat /\ Allowed(k)'
             /\ \/ /\ rows'[k] = rows[k] /\ refills'[k] = refills[k]
                \/ rows'[k].state = "active" /\ refills'[k] = refills[k]
                \/ rows'[k].state = "active" /\ refills'[k] = 0
                \/ /\ rows'[k].state = "active" /\ refills'[k] = refills[k] + 1
                   /\ MarkBenched(k) /\ rows[k].until \in Nat /\ rows[k].until <= now
  <2>1. /\ Allowed(k) /\ rows[k] \in Row /\ refills'[k] = Refilled(k)
        /\ MarkBenched(k)' => MarkBenched(k) /\ rows'[k] = rows[k]
    BY <1>1, <1>2, <1>b DEF AllowanceInv
  <2>2. CASE DailyUp(rows[k])
    <3>1. /\ rows'[k].state = "active" /\ rows'[k].cycles = rows[k].cycles
          /\ rows[k].until \in Nat /\ rows[k].until <= now
      BY <1>2, <2>1, <2>2 DEF Lifted, DailyUp, Expired, Row, Times
    <3>2. refills'[k] = IF MarkBenched(k) THEN refills[k] + 1 ELSE refills[k]
      BY <2>1, <2>2 DEF Refilled, WeeklyUp, DailyUp
    <3>3. ~MarkBenched(k)'
      BY <3>1 DEF MarkBenched
    <3> QED BY <1>1, <2>1, <3>1, <3>2, <3>3 DEF Allowed, Row
  <2>3. CASE ~DailyUp(rows[k]) /\ WeeklyUp(rows[k])
    <3>1. rows'[k].state = "active" /\ rows'[k].cycles = 0 /\ refills'[k] = 0
      <4>1. Lifted(rows[k]) = [state |-> "active", until |-> None, cycles |-> 0,
                               weekReset |-> None]
        BY <2>3 DEF Lifted
      <4>2. Refilled(k) = 0
        BY <2>3 DEF Refilled
      <4> QED BY <1>2, <2>1, <4>1, <4>2
    <3>2. ~MarkBenched(k)'
      BY <3>1 DEF MarkBenched
    <3> QED BY <1>1, <3>1, <3>2 DEF Allowed
  <2>4. CASE ~DailyUp(rows[k]) /\ ~WeeklyUp(rows[k])
    <3>1. rows'[k] = rows[k] /\ refills'[k] = refills[k]
      BY <1>2, <2>1, <2>4 DEF Lifted, Refilled
    <3> QED BY <1>1, <2>1, <3>1 DEF Allowed
  <2> QED BY <2>2, <2>3, <2>4
<1>4. ASSUME NEW w \in Markers, mark[w] # None PROVE Counted(w)'
  <2>1. PICK k \in Keys : k = mark[w].key
    BY <1>4, AllowanceTyped DEF AllowanceInv
  <2>2. Counted(w) /\ mark[w].row.cycles \in Nat /\ mark[w].at \in Nat
    BY <1>4, AllowanceTyped DEF AllowanceInv, Row
  <2>3. PICK c \in Nat, f \in Nat, g \in Nat :
          c = mark[w].row.cycles /\ f = refills[k] /\ g = refills'[k]
    BY <1>1, <1>3, <2>2
  <2>4. /\ mark[w].at <= now /\ now <= mark[w].at + MaxLag /\ f <= c
        /\ MarkBenched(k) /\ rows[k].until \in Nat /\ rows[k].until <= mark[w].at + MaxLag
             => f + 1 <= c
    BY <2>1, <2>2, <2>3 DEF Counted
  <2>5. g <= c
    BY <1>1, <1>3, <2>2, <2>3, <2>4
  <2>6. MarkBenched(k)' => MarkBenched(k) /\ rows'[k] = rows[k] /\ g = f
    <3>1. rows'[k].state = "active" => ~MarkBenched(k)'
      BY DEF MarkBenched
    <3> QED BY <1>3, <1>b, <2>3, <3>1
  <2>7. mark'[w] = mark[w]
    BY <1>2
  <2>8. /\ mark'[w].at <= now' /\ now' <= mark'[w].at + MaxLag /\ g <= c
        /\ MarkBenched(k)' /\ rows'[k].until \in Nat
             /\ rows'[k].until <= mark'[w].at + MaxLag => g + 1 <= c
    BY <1>2, <2>4, <2>5, <2>6, <2>7
  <2> QED BY <2>1, <2>3, <2>7, <2>8 DEF Counted
<1>5. refills' \in [Keys -> Nat]
  BY <1>2, <1>3
<1> QED BY <1>2, <1>3, <1>4, <1>5 DEF AllowanceInv

\* The write of a quota mark.  The bench it starts outlasts every read under way.
LEMMA AllowanceMark ==
  ASSUME 2 * MaxLag < DailyCooldown, AllowanceInv, TypeOK', UNCHANGED refills,
         HistoryNext, NEW w \in Markers, MarkWrite(w)
  PROVE  AllowanceInv'
<1> DEFINE k == mark[w].key
           x == Exhausted(mark[w].row, mark[w].at)
<1>1. /\ now \in Nat /\ refills \in [Keys -> Nat] /\ rows \in [Keys -> Row]
      /\ DailyCyclesPerWeek \in Nat /\ MaxLag \in Nat
      /\ DailyCooldown \in Nat /\ WeeklyCooldown \in Nat
      /\ mark \in [Markers -> Marking \cup {None}]
  BY NumberAssumption DEF AllowanceInv, TypeOK
<1>2. k \in Keys /\ mark[w].row \in Row /\ mark[w].at \in Nat /\ Counted(w) /\ Allowed(k)
  BY AllowanceTyped DEF AllowanceInv, MarkWrite
<1>3. /\ x.cycles = mark[w].row.cycles + 1
      /\ x.state = "cooldown_daily" =>
           x.cycles <= DailyCyclesPerWeek /\ x.until = mark[w].at + DailyCooldown
  BY <1>1, <1>2 DEF Exhausted, Escalates, Row
<1>4. /\ now' = now /\ mark'[w] = None
      /\ \A v \in Markers \ {w} : mark'[v] = mark[v]
  BY <1>1 DEF MarkWrite
<1>5. refills[k] \in Nat /\ mark[w].row.cycles \in Nat
  BY <1>1, <1>2 DEF Row
<1>6. /\ \A j \in Keys \ {k} : rows'[j] = rows[j]
      /\ rows'[k] = x \/ (rows'[k] = rows[k] /\ rows[k].state \notin States)
  BY MarkedRow DEF AllowanceInv
<1>7. ASSUME NEW j \in Keys, j # k, MarkBenched(j)' PROVE MarkBenched(j)
  <2>1. \A v \in Markers : MarkWrite(v) => v = w
    BY <1>1, <1>4 DEF MarkWrite
  <2>2. ~ \E v \in Markers : MarkWrite(v) /\ mark[v].key = j
    BY <1>7, <2>1
  <2> QED BY <1>7, <2>2, BenchKept DEF AllowanceInv
<1> HIDE DEF k, x
<1>8. ASSUME NEW j \in Keys
      PROVE  \/ j = k /\ rows'[j] = x
             \/ rows'[j] = rows[j] /\ (MarkBenched(j)' => MarkBenched(j))
  <2>1. CASE j = k /\ rows'[j] # x
    <3>1. rows'[j] = rows[j] /\ rows'[j].state # "cooldown_daily"
      BY <1>6, <2>1 DEF States, Cooldowns
    <3> QED BY <3>1 DEF MarkBenched
  <2> QED BY <1>6, <1>7, <2>1
<1>9. ASSUME NEW j \in Keys PROVE Allowed(j)'
  <2>1. CASE rows'[j] = rows[j] /\ (MarkBenched(j)' => MarkBenched(j))
    BY <2>1 DEF AllowanceInv, Allowed
  <2>2. CASE j = k /\ rows'[j] = x
    <3>1. refills[k] <= mark[w].row.cycles /\ refills[k] <= DailyCyclesPerWeek
      BY <1>2 DEF Counted, Allowed, k
    <3>2. MarkBenched(j)' => x.state = "cooldown_daily"
      BY <2>2 DEF MarkBenched
    <3> QED BY <1>1, <1>3, <1>5, <2>2, <3>1, <3>2 DEF Allowed
  <2> QED BY <1>8, <2>1, <2>2
<1>10. ASSUME NEW v \in Markers, mark'[v] # None PROVE Counted(v)'
  <2>1. v # w /\ mark'[v] = mark[v] /\ Counted(v)
    BY <1>4, <1>10 DEF AllowanceInv
  <2>2. PICK j \in Keys : j = mark[v].key
    BY <1>4, <1>10, <2>1, AllowanceTyped DEF AllowanceInv
  <2>3. mark[v].at \in Nat
    BY <1>4, <1>10, <2>1, AllowanceTyped DEF AllowanceInv
  <2>4. CASE rows'[j] = rows[j] /\ (MarkBenched(j)' => MarkBenched(j))
    BY <1>4, <2>1, <2>2, <2>4 DEF Counted
  <2>5. CASE rows'[j] = x
    <3>1. x.state = "cooldown_daily" => x.until > mark[v].at + MaxLag
      BY <1>1, <1>2, <1>3, <2>1, <2>3 DEF Counted
    <3>2. x.state = "cooldown_daily" => ~(x.until <= mark[v].at + MaxLag)
      BY <1>1, <1>2, <1>3, <2>3, <3>1
    <3>3. MarkBenched(j)' => x.state = "cooldown_daily"
      BY <2>5 DEF MarkBenched
    <3> QED BY <1>4, <2>1, <2>2, <2>5, <3>2, <3>3 DEF Counted
  <2> QED BY <1>8, <2>4, <2>5
<1> QED BY <1>4, <1>9, <1>10 DEF AllowanceInv

LEMMA AllowanceStep ==
  ASSUME 2 * MaxLag < DailyCooldown, AllowanceInv, [HistoryNext]_historyVars
  PROVE  AllowanceInv'
<1>1. TypeOK /\ TypeOK' /\ [Next]_vars
  BY HistoryStep DEF AllowanceInv
<1>2. /\ now \in Nat /\ refills \in [Keys -> Nat] /\ rows \in [Keys -> Row]
      /\ mark \in [Markers -> Marking \cup {None}] /\ MaxLag \in Nat
  BY <1>1, NumberAssumption DEF AllowanceInv, TypeOK
<1>3. CASE UNCHANGED historyVars
  BY <1>1, <1>3, AllowanceQuiet DEF historyVars, vars, MarkBenched
<1> SUFFICES ASSUME HistoryNext PROVE AllowanceInv'
  BY <1>3
<1>4. CASE Reactivate
  BY <1>1, <1>4, AllowanceLift
<1> SUFFICES ASSUME ~Reactivate PROVE AllowanceInv'
  BY <1>4
<1>5. refills' = refills
  BY <1>2 DEF HistoryNext
<1>6. CASE \E w \in Markers : MarkWrite(w)
  BY <1>1, <1>5, <1>6, AllowanceMark
<1> SUFFICES ASSUME ~ \E w \in Markers : MarkWrite(w) PROVE AllowanceInv'
  BY <1>6
<1>7. \A j \in Keys : MarkBenched(j)' => MarkBenched(j) /\ rows'[j] = rows[j]
  BY <1>1, BenchKept
<1>8. ASSUME now' = now, \A j \in Keys : rows'[j].cycles = rows[j].cycles,
             \A w \in Markers : mark'[w] \in {mark[w], None}
      PROVE  AllowanceInv'
  BY <1>1, <1>5, <1>7, <1>8, AllowanceQuiet
<1>9. CASE Tick
  <2>1. \A w \in Markers : mark[w] # None => mark[w].at \in Nat
    BY <1>1, AllowanceTyped
  <2>2. rows' = rows /\ mark' = mark /\ \A k \in Keys : MarkBenched(k)' => MarkBenched(k)
    BY <1>7, <1>9 DEF Tick
  <2>3. \A k \in Keys : Allowed(k)'
    BY <1>5, <2>2 DEF AllowanceInv, Allowed
  <2>4. ASSUME NEW w \in Markers, mark[w] # None PROVE Counted(w)'
    <3>1. Counted(w) /\ mark[w].key \in Keys /\ mark[w].at \in Nat
      BY <1>1, <2>4, AllowanceTyped DEF AllowanceInv
    <3>2. mark[w].at <= now' /\ now' <= mark[w].at + MaxLag
      BY <1>2, <1>9, <2>4, <3>1 DEF Tick, Counted
    <3> QED BY <1>5, <2>2, <3>1, <3>2 DEF Counted
  <2> QED BY <1>1, <1>2, <1>5, <2>2, <2>3, <2>4 DEF AllowanceInv
<1>10. CASE \E k \in Keys : Create(k) \/ Delete(k)
  BY <1>2, <1>8, <1>10 DEF Create, Delete, Row
<1>11. CASE \E c \in Checkers, k \in Keys, o \in Outcomes : CheckWrite(c, k, o)
  <2>1. PICK c \in Checkers, k \in Keys, o \in Outcomes : CheckWrite(c, k, o)
    BY <1>11
  <2>2. now' = now /\ mark' = mark
    BY <2>1 DEF CheckWrite
  <2>3. (\A j \in Keys \ {k} : rows'[j] = rows[j]) /\ rows'[k].cycles = rows[k].cycles
    BY <1>1, <2>1, CheckedRow
  <2> QED BY <1>8, <2>2, <2>3
<1>12. CASE \E w \in Markers, k \in Keys : MarkRead(w, k)
  <2>1. PICK w \in Markers, k \in Keys : MarkRead(w, k)
    BY <1>12
  <2>2. /\ mark'[w] = [key |-> k, row |-> rows[k], at |-> now]
        /\ \A v \in Markers \ {w} : mark'[v] = mark[v]
        /\ rows' = rows /\ now' = now
    BY <1>2, <2>1 DEF MarkRead
  <2>3. mark'[w].key = k /\ mark'[w].row = rows[k] /\ mark'[w].at = now
    BY <2>2
  <2>4. Counted(w)'
    BY <1>2, <1>5, <1>7, <2>2, <2>3 DEF AllowanceInv, Allowed, Counted
  <2>5. ASSUME NEW v \in Markers, mark'[v] # None PROVE Counted(v)'
    <3>1. CASE v # w
      <4>1. mark'[v] = mark[v] /\ Counted(v) /\ mark[v].key \in Keys
        BY <1>1, <2>2, <2>5, <3>1, AllowanceTyped DEF AllowanceInv
      <4> QED BY <1>5, <1>7, <2>2, <4>1 DEF Counted
    <3> QED BY <2>4, <3>1
  <2>6. \A j \in Keys : Allowed(j)'
    BY <1>5, <1>7, <2>2 DEF AllowanceInv, Allowed
  <2> QED BY <1>1, <1>2, <1>5, <2>5, <2>6 DEF AllowanceInv
<1>13. CASE \/ \E k \in Keys : OpenSession(k)
            \/ \E c \in Checkers : \E ks : CheckRead(c, ks)
            \/ Restart
  BY <1>2, <1>8, <1>13 DEF OpenSession, CheckRead, Restart
<1> QED BY <1>9, <1>10, <1>11, <1>12, <1>13 DEF Next, HistoryNext

\* "The third quota event in a week forces the longer wait": whatever quota marks, probes
\* with any answer and reactivations overlap, no mark benches a key for a day beyond its
\* allowance, and no key is handed back after the daily bench of a mark more often than
\* the allowance between two weekly benches.  The hypothesis is needed: a marker may
\* overwrite the count of a bench already lifted if a read can be half a bench old.
THEOREM AllowanceSound ==
  ASSUME 2 * MaxLag < DailyCooldown
  PROVE  HistorySpec => []WeeklyAllowance
<1>1. ASSUME HistoryInit PROVE AllowanceInv
  <2>1. TypeOK /\ DailyCyclesPerWeek \in Nat
    BY <1>1, TypeInit, NumberAssumption DEF HistoryInit
  <2> QED BY <1>1, <2>1 DEF HistoryInit, Init, Unborn, AllowanceInv, Allowed, MarkBenched
<1>2. AllowanceInv /\ [HistoryNext]_historyVars => AllowanceInv'
  BY AllowanceStep
<1>3. AllowanceInv => WeeklyAllowance
  BY DEF AllowanceInv, Allowed, WeeklyAllowance, DailyWithinBudget, RefillsPerWeek
<1> QED BY <1>1, <1>2, <1>3, PTL DEF HistorySpec
=============================================================================
