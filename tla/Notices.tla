------------------------------- MODULE Notices -------------------------------
(***************************************************************************)
(* The notification log and the pages that toast it.                       *)
(*                                                                         *)
(*   internal/notifications/notifications.go   Append, Since, MaxID        *)
(*   internal/web/schedules.go                 GET /events/since           *)
(*   internal/web/templates/layout.html        poll(), in every open page  *)
(*                                                                         *)
(* Ids are AUTOINCREMENT and nothing is ever deleted: a row's id is its    *)
(* place in the log.  All pages of a browser share one cursor in           *)
(* localStorage.  The event stream toasts as well, without touching the    *)
(* cursor; EventBus has it.                                                *)
(***************************************************************************)
EXTENDS Integers, Sequences, FiniteSets

CONSTANTS
  Events,     \* what happens in the program and is worth a notification
  Tabs,       \* open pages
  Limit,      \* rows in one answer of /events/since
  None,       \* no poll under way
  MaxFailures \* bound on failed writes, lost answers and restarts

ASSUME LimitAssumption   == Limit \in Nat \ {0}
ASSUME FailureAssumption == MaxFailures \in Nat

VARIABLES
  log,     \* notification_events: each row, the events it tells of
  lost,    \* events no row was written for
  cursor,  \* devinmgr.lastEventId
  poll,    \* per page, its request to /events/since
  toasted, \* ids of the rows a poll has toasted
  failures \* how many there have been

pageVars  == <<cursor, poll, toasted>>
storeVars == <<log, lost>>
noticeVars == <<storeVars, pageVars, failures>>

\* after: the cursor as the page read it; the answer has the rows after + 1 .. upto
\* and last_id.
Poll == [pc : {"since", "max", "answer"}, after : Nat, upto : Nat, last : Nat]

ASSUME NoneAssumption == None \notin Poll

NoticesTypeOK ==
  /\ log \in Seq(SUBSET Events)
  /\ lost \subseteq Events
  /\ cursor \in 0 .. Len(log)
  /\ poll \in [Tabs -> Poll \cup {None}]
  /\ toasted \subseteq DOMAIN log
  /\ failures \in 0 .. MaxFailures

NoticesInit ==
  /\ log = <<>> /\ lost = {}
  /\ cursor = 0
  /\ poll = [t \in Tabs |-> None]
  /\ toasted = {}
  /\ failures = 0

At(t, pc) == poll[t] # None /\ poll[t].pc = pc

Fails == failures < MaxFailures /\ failures' = failures + 1

-----------------------------------------------------------------------------
(* The log.                                                                *)

Given == lost \cup UNION {log[i] : i \in DOMAIN log}

\* Repo.Append, as the manager and the scheduler call it.
AppendRow(e) ==
  /\ log' = Append(log, {e})
  /\ UNCHANGED <<lost, pageVars, failures>>

\* Its context is cancelled: a warning is logged.
AppendFails(e) ==
  /\ Fails
  /\ lost' = lost \cup {e}
  /\ UNCHANGED <<log, pageVars>>

-----------------------------------------------------------------------------
(* The pages and the endpoint.                                             *)

\* The interval fires; a page whose last poll is still out is as good as two pages.
StartPoll(t) ==
  /\ poll[t] = None
  /\ poll' = [poll EXCEPT ![t] = [pc |-> "since", after |-> cursor, upto |-> cursor, last |-> 0]]
  /\ UNCHANGED <<storeVars, cursor, toasted, failures>>

\* The last row of the answer: the next Limit ones in order.
Page(after) == IF after + Limit < Len(log) THEN after + Limit ELSE Len(log)

\* A page of rows, or a second query when there is none.
Since(t) ==
  /\ At(t, "since")
  /\ LET after == poll[t].after
         upto  == Page(after)
     IN  poll' = [poll EXCEPT ![t] =
                    IF upto > after
                    THEN [@ EXCEPT !.pc = "answer", !.upto = upto, !.last = upto]
                    ELSE [@ EXCEPT !.pc = "max"]]
  /\ UNCHANGED <<storeVars, cursor, toasted, failures>>

\* Mutant: a time instead of an id.
HighestTime == Len(log) + 1000

Highest == Len(log)

MaxID(t) ==
  /\ At(t, "max")
  /\ poll' = [poll EXCEPT ![t] = [@ EXCEPT !.pc = "answer", !.last = Highest]]
  /\ UNCHANGED <<storeVars, cursor, toasted, failures>>

\* What the page shows: nothing when it had no cursor yet.
Shown(t) == IF poll[t].after > 0 THEN poll[t].after + 1 .. poll[t].upto ELSE {}

\* Mutant: last_id is taken for the cursor whatever the answer holds.
MovedToLast(t) == poll[t].last

\* The cursor follows the rows of the answer; without a cursor, last_id.
Moved(t) ==
  IF poll[t].after = 0
  THEN IF poll[t].last > 0 THEN poll[t].last ELSE cursor
  ELSE IF poll[t].upto > poll[t].after THEN poll[t].upto ELSE cursor

\* The loop over the answer runs without a break.
Handle(t) ==
  /\ At(t, "answer")
  /\ toasted' = toasted \cup Shown(t)
  /\ cursor' = Moved(t)
  /\ poll' = [poll EXCEPT ![t] = None]
  /\ UNCHANGED <<storeVars, failures>>

\* The page is closed or left, the server is down, the answer is an error.
Drop(t) ==
  /\ Fails
  /\ poll[t] # None
  /\ poll' = [poll EXCEPT ![t] = None]
  /\ UNCHANGED <<storeVars, cursor, toasted>>

Browse(t) == StartPoll(t) \/ Since(t) \/ MaxID(t) \/ Handle(t)
=============================================================================
