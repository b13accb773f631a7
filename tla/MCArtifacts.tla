---------------------------- MODULE MCArtifacts ----------------------------
(***************************************************************************)
(* Artifacts with history variables: which downloads were cut short, and   *)
(* which rows a retention sweep has ever selected.                         *)
(***************************************************************************)
EXTENDS Artifacts

VARIABLES
  cut,    \* rows whose goroutine a restart or its deadline has ended
  exposed \* rows that were in a sweep's batch

historyVars == <<vars, cut, exposed>>

\* Somebody is going to finish the download of a.
Owned(a) == fetch[a] # None \/ \E j \in Syncs : sync[j] # None /\ sync[j].id = a

HistoryInit == Init /\ cut = {} /\ exposed = {}

HistoryNext ==
  /\ \/ Work /\ UNCHANGED cut
     \/ \E a \in Ids : Expire(a) /\ cut' = cut \cup {a}
     \/ Restart /\ cut' = cut \cup {a \in Ids : Owned(a)}
  /\ exposed' = exposed \cup UNION {sweep'[p].batch : p \in {q \in Sweeps : sweep'[q] # None}}

HistorySpec     == HistoryInit /\ [][HistoryNext]_historyVars
FairHistorySpec == HistorySpec /\ Fairness

Unfinished(a) == Is(a, "pending") \/ Is(a, "downloading")

ReadyIsWhole ==
  \A a \in Ids \ exposed : Is(a, "ready") => a \in files

\* "A crash mid-download doesn't leave a half-written artifact pretending to be
\* ready" (Fetch): a ready row leads to a complete file until a sweep selects it.  No
\* file leaks: one under its final name has a row, after crashes, refused removals and
\* overlapping sweeps too.  And a URL of a session has one row, however many syncs of
\* it overlap.
TableMatchesDisk == ReadyIsWhole /\ FileHasRow /\ OneRowPerURL

\* A row is not forgotten: it is finished, or a goroutine is at work on it, unless
\* a restart or the deadline cut its download short.
UnfinishedOwned == \A a \in Ids \ cut : Unfinished(a) => Owned(a)

Phase(a) ==
  IF ~Exists(a) THEN "absent"
  ELSE IF ~Unfinished(a) THEN "settled"
  ELSE IF Owned(a) THEN "open" ELSE "abandoned"

DownloadJobs == INSTANCE Jobs
  WITH Works <- Ids, Reopenable <- {}, phase <- [a \in Ids |-> Phase(a)]

\* A row is a job from its INSERT on: it is downloaded or marked failed, unless a
\* restart or the deadline cuts its download short, and no row is taken up twice.
DownloadsAreJobs == DownloadJobs!Spec
=============================================================================
