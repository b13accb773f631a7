------------------------------- MODULE Batcher -------------------------------
(***************************************************************************)
(* internal/notifications/batch.go: the buffer in front of the log that    *)
(* turns a burst of events into one summary.  Callers are free to use it   *)
(* or the log; a Threshold of 0 switches it off.                           *)
(*                                                                         *)
(* The mutex is held for as long as rows are being written.  Time is the   *)
(* armed timer, callbacks that have fired and wait for the mutex, and      *)
(* whether the first event in the buffer is older than Window.             *)
(***************************************************************************)
EXTENDS Notices

CONSTANTS
  Threshold, \* events that make a burst
  HardCap    \* events the buffer takes at most

ASSUME BatchAssumption == Threshold \in Nat /\ HardCap \in Nat \ {0}

VARIABLES
  pending, \* the buffer
  aged,    \* its first event is older than Window
  timer,   \* the quiet-period timer is armed
  fired,   \* its callbacks that wait for the mutex
  writing  \* the rows that the holder of the mutex is writing

bufferVars == <<pending, aged, timer, fired, writing>>
vars == <<noticeVars, bufferVars>>

TypeOK ==
  /\ NoticesTypeOK
  /\ pending \in Seq(Events)
  /\ aged \in BOOLEAN /\ timer \in BOOLEAN
  /\ fired \in Nat
  /\ writing \in Seq(SUBSET Events)

Init ==
  /\ NoticesInit
  /\ pending = <<>> /\ aged = FALSE
  /\ timer = FALSE /\ fired = 0
  /\ writing = <<>>

Members(seq) == {seq[i] : i \in DOMAIN seq}
Singles(seq) == [i \in DOMAIN seq |-> {seq[i]}]

Buffered == Members(pending) \cup UNION Members(writing)

New(e) == e \notin Given \cup Buffered

Unlocked == writing = <<>>

-----------------------------------------------------------------------------
\* A summary when the buffer is full, or reaches the threshold inside the window.
Summarises(buffer, old) ==
  \/ Len(buffer) >= HardCap
  \/ Len(buffer) >= Threshold /\ ~old

\* The buffer is taken over, its timer stopped; a callback that has already fired is
\* not.
Take(rows) ==
  /\ pending' = <<>> /\ aged' = FALSE /\ timer' = FALSE
  /\ writing' = rows

\* Mutant: the quiet period is armed for the first event only, and stopped by the next.
ArmFirst(buffer) == Len(buffer) = 1

\* scheduleFlushLocked: the old timer is stopped, a new one armed.
Arm(buffer) == TRUE

\* Mutant: a summary leaves the buffer as it is.
SummaryKeeps(buffer) ==
  /\ pending' = buffer /\ UNCHANGED aged /\ timer' = FALSE
  /\ writing' = <<Members(buffer)>>

\* flushSummary.
Summary(buffer) == Take(<<Members(buffer)>>)

\* Batcher.Append.
Submit(e) ==
  /\ Threshold > 0
  /\ Unlocked
  /\ LET buffer == Append(pending, e)
         old    == pending # <<>> /\ aged
     IN  IF Summarises(buffer, old)
         THEN Summary(buffer)
         ELSE /\ pending' = buffer /\ aged' = old
              /\ timer' = Arm(buffer)
              /\ UNCHANGED writing
  /\ UNCHANGED <<noticeVars, fired>>

\* Two minutes since the first event.
Age ==
  /\ pending # <<>> /\ ~aged
  /\ aged' = TRUE
  /\ UNCHANGED <<noticeVars, pending, timer, fired, writing>>

Fire ==
  /\ timer
  /\ timer' = FALSE
  /\ fired' = fired + 1
  /\ UNCHANGED <<noticeVars, pending, aged, writing>>

\* flushIndividualLocked: nothing to do, or one row per event.
FlushIndividual ==
  /\ Unlocked
  /\ IF pending = <<>> THEN UNCHANGED <<pending, aged, timer, writing>>
                       ELSE Take(Singles(pending))
  /\ UNCHANGED noticeVars

Callback == fired > 0 /\ fired' = fired - 1 /\ FlushIndividual

\* Batcher.Flush, by whoever shuts down.
Flush == pending # <<>> /\ FlushIndividual /\ UNCHANGED fired

WriteRow ==
  /\ writing # <<>>
  /\ log' = Append(log, Head(writing))
  /\ writing' = Tail(writing)
  /\ UNCHANGED <<lost, pageVars, failures, pending, aged, timer, fired>>

\* The first error ends the loop; the events of the rows not yet written are gone.
Dropped == UNION Members(writing)

WriteFails ==
  /\ Fails
  /\ writing # <<>>
  /\ lost' = lost \cup Dropped
  /\ writing' = <<>>
  /\ UNCHANGED <<log, pageVars, pending, aged, timer, fired>>

\* The process dies with its buffer; requests to it fail.
Restart ==
  /\ Fails
  /\ lost' = lost \cup Buffered
  /\ pending' = <<>> /\ aged' = FALSE /\ timer' = FALSE /\ fired' = 0 /\ writing' = <<>>
  /\ poll' = [t \in Tabs |-> None]
  /\ UNCHANGED <<log, cursor, toasted>>

-----------------------------------------------------------------------------
Happens(e) ==
  /\ New(e)
  /\ \/ Submit(e)
     \/ AppendRow(e) /\ UNCHANGED bufferVars
     \/ AppendFails(e) /\ UNCHANGED bufferVars

Visit(t) == (Browse(t) \/ Drop(t)) /\ UNCHANGED bufferVars

Next ==
  \/ \E e \in Events : Happens(e)
  \/ \E t \in Tabs : Visit(t)
  \/ Age \/ Fire \/ Callback \/ Flush
  \/ WriteRow \/ WriteFails \/ Restart

Spec == Init /\ [][Next]_vars

\* The timers of the batcher and of open pages fire, and calls under way return.
Fairness ==
  /\ WF_vars(Fire) /\ WF_vars(Callback) /\ WF_vars(WriteRow)
  /\ \A t \in Tabs : WF_vars(Browse(t) /\ UNCHANGED bufferVars)

FairSpec == Spec /\ Fairness
=============================================================================
