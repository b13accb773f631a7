------------------------------ MODULE MCBatcher ------------------------------
(***************************************************************************)
(* Batcher and Notices with history variables, and what a user may rely on.*)
(***************************************************************************)
EXTENDS Batcher

VARIABLES
  skipped, \* ids of the rows a page without a cursor took for backlog
  again,   \* ids of the rows toasted twice
  overlap  \* two polls have been out at once

historyVars == <<vars, skipped, again, overlap>>

HistoryInit == Init /\ skipped = {} /\ again = {} /\ overlap = FALSE

Out == {t \in Tabs : poll[t] # None}

HistoryNext ==
  \/ \E t \in Tabs :
       /\ Visit(t)
       /\ overlap' = (overlap \/ (At(t, "since")' /\ Out # {} /\ poll[t] = None))
       /\ IF At(t, "answer") /\ UNCHANGED failures
          THEN /\ again' = again \cup (toasted \cap Shown(t))
               /\ skipped' = IF poll[t].after = 0 THEN skipped \cup 1 .. poll[t].last
                                                  ELSE skipped
          ELSE UNCHANGED <<again, skipped>>
  \/ /\ \/ \E e \in Events : Happens(e)
        \/ Age \/ Fire \/ Callback \/ Flush
        \/ WriteRow \/ WriteFails \/ Restart
     /\ UNCHANGED <<skipped, again, overlap>>

HistorySpec     == HistoryInit /\ [][HistoryNext]_historyVars
FairHistorySpec == HistorySpec /\ Fairness

\* No event is told of twice, none is lost except by a failed write or a restart, and
\* none stays in the buffer without a timer or a callback that will empty it.
Conserved ==
  /\ \A i, j \in DOMAIN log : i # j => log[i] \cap log[j] = {}
  /\ Given \cap Buffered = {}
  /\ lost \cap UNION Members(log) = {}
  /\ pending # <<>> => timer \/ fired > 0

\* The cursor passes over nothing: every row it has left behind was toasted, or was
\* there when a page without a cursor loaded.  And polls toast nothing twice, unless two
\* were out at once.
CursorSound ==
  /\ 1 .. cursor \subseteq toasted \cup skipped
  /\ again # {} => overlap

\* An event that is buffered or logged is toasted, was backlog, or is lost.
Rows(e) == {i \in DOMAIN log : e \in log[i]}

EventsSurface ==
  \A e \in Events :
    (e \in Buffered \cup Given) ~> (e \in lost \/ Rows(e) \cap (toasted \cup skipped) # {})
=============================================================================
