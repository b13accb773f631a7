-------------------------- MODULE ArtifactsProofs --------------------------
(***************************************************************************)
(* Proofs about Artifacts and its history variables, for every set of ids, *)
(* URLs, concurrent syncs and sweeps; then about the diff between two      *)
(* versions, for any lines, lengths and context.                           *)
(***************************************************************************)
EXTENDS MCArtifacts, MCAlgorithms, FiniteSetTheorems, WellFoundedInduction, TLAPS

(***************************************************************************)
(* The inductive invariant: who may touch a row.  A row is in the hands of *)
(* its sync, then of its goroutine, and only then, once it is ready, of    *)
(* sweeps; so a row is never deleted under a download, and a file is never *)
(* renamed into place behind a sweep's back.                               *)
(***************************************************************************)

BusyInv == inflight = {a \in Ids : fetch[a] # None}

SyncInv ==
  \A j \in Syncs : sync[j] # None /\ sync[j].id # None =>
    /\ Is(sync[j].id, "pending") /\ fetch[sync[j].id] = None
    /\ \A i \in Syncs \ {j} : sync[i] # None => sync[i].id # sync[j].id

FetchInv == \A a \in Ids : fetch[a] # None => Unfinished(a)

SweepInv ==
  \A p \in Sweeps : sweep[p] # None =>
    /\ sweep[p].removed \subseteq sweep[p].batch
    /\ sweep[p].removed \cap files = {}
    /\ \A a \in sweep[p].batch : rows[a] # None /\ (Exists(a) => rows[a].status = "ready")

Inv == TypeOK /\ BusyInv /\ SyncInv /\ FetchInv /\ SweepInv /\ FileHasRow /\ OneRowPerURL

LEMMA InvInit == Init => Inv
  BY NoneAssumption, LimitAssumption
  DEF Init, Inv, TypeOK, BusyInv, SyncInv, FetchInv, SweepInv, FileHasRow, OneRowPerURL, Exists

\* A row in a sweep's batch belongs to no sync and to no goroutine.
LEMMA BatchIdle ==
  ASSUME Inv, NEW p \in Sweeps, sweep[p] # None, NEW a \in sweep[p].batch
  PROVE  /\ a \in Ids
         /\ fetch[a] = None
         /\ \A j \in Syncs : sync[j] # None => sync[j].id # a
<1>1. a \in Ids /\ (Exists(a) => rows[a].status = "ready")
  BY DEF Inv, TypeOK, Sweep, SweepInv
<1>2. fetch[a] = None
  BY <1>1 DEF Inv, FetchInv, Unfinished, Is
<1>3. ASSUME NEW j \in Syncs, sync[j] # None, sync[j].id = a PROVE FALSE
  BY <1>1, <1>3, NoneAssumption DEF Inv, SyncInv, Is
<1> QED BY <1>1, <1>2, <1>3

LEMMA InvStep == Inv /\ [Next]_vars => Inv'
<1> SUFFICES ASSUME Inv, [Next]_vars PROVE Inv'
  OBVIOUS
<1> USE NoneAssumption, LimitAssumption
    DEF Inv, TypeOK, BusyInv, SyncInv, FetchInv, SweepInv, FileHasRow, OneRowPerURL,
        Exists, Is, Unfinished, Row, Sync, Sweep, Stages, Status
<1>1. ASSUME NEW j \in Syncs, NEW u \in URLs, SyncLookup(j, u) PROVE Inv'
  BY <1>1 DEF SyncLookup
<1>2. ASSUME NEW j \in Syncs, NEW a \in Ids, SyncInsert(j, a) PROVE Inv'
  <2>1. PICK b \in BOOLEAN : b = FALSE
    OBVIOUS
  <2>2. rows' = [rows EXCEPT ![a] = [url |-> sync[j].url, status |-> "pending",
                                     pinned |-> b, old |-> b]]
    BY <1>2, <2>1, Zenon DEF SyncInsert
  <2>3. /\ sync[j] # None /\ sync[j].id = None /\ rows[a] = None
        /\ ~HasRow(sync[j].url)
        /\ sync' = [sync EXCEPT ![j].id = a]
        /\ UNCHANGED <<parts, files, inflight, fetch, sweep, cancels>>
    BY <1>2 DEF SyncInsert, Insertable
  <2> HIDE <1>2
  <2>4. TypeOK'
    BY <2>2, <2>3
  <2>5. SyncInv'
    BY <2>2, <2>3
  <2>6. BusyInv' /\ FetchInv' /\ SweepInv' /\ FileHasRow' /\ OneRowPerURL'
    BY <2>2, <2>3 DEF HasRow
  <2> QED BY <2>4, <2>5, <2>6
<1>3. ASSUME NEW j \in Syncs, SyncRefused(j) PROVE Inv'
  BY <1>3 DEF SyncRefused
<1>4. ASSUME NEW j \in Syncs, Enqueue(j) PROVE Inv'
  BY <1>4 DEF Enqueue
<1>5. ASSUME NEW a \in Ids, MarkDownloading(a) PROVE Inv'
  BY <1>5 DEF MarkDownloading, Stage, Mark
<1>6. ASSUME NEW a \in Ids, GetRefused(a) \/ Get(a) \/ Copy(a) PROVE Inv'
  BY <1>6 DEF GetRefused, Get, Copy, Stage
<1>7. ASSUME NEW a \in Ids, NEW from \in {"copy", "rename"}, DropPart(a, from) PROVE Inv'
  BY <1>7 DEF DropPart, Stage
<1>8. ASSUME NEW a \in Ids, Rename(a) PROVE Inv'
  BY <1>8, BatchIdle DEF Rename, Stage
<1>9. ASSUME NEW a \in Ids, MarkReady(a) \/ MarkFailed(a) PROVE Inv'
  <2>1. PICK status \in {"ready", "failed"} :
          /\ fetch[a] \in {"ready", "fail"} /\ fetch' = [fetch EXCEPT ![a] = None]
          /\ inflight' = inflight \ {a} /\ rows' = [rows EXCEPT ![a].status = status]
          /\ UNCHANGED <<parts, files, sync, sweep, cancels>>
    BY <1>9 DEF MarkReady, MarkFailed, Finish, Stage, Mark
  <2> HIDE <1>9
  <2>2. TypeOK'
    BY <2>1
  <2>3. BusyInv' /\ FetchInv'
    BY <2>1
  <2>4. SyncInv'
    BY <2>1
  <2>5. SweepInv'
    BY <2>1
  <2>6. FileHasRow' /\ OneRowPerURL'
    BY <2>1
  <2> QED BY <2>2, <2>3, <2>4, <2>5, <2>6
<1>10. ASSUME NEW a \in Ids, Expire(a) PROVE Inv'
  BY <1>10 DEF Expire, Finish, Stage
<1>11. ASSUME NEW a \in Ids, Age(a) PROVE Inv'
  <2>1. PICK b \in BOOLEAN : b = TRUE
    OBVIOUS
  <2>2. rows' = [rows EXCEPT ![a].old = b]
    BY <1>11, <2>1, Zenon DEF Age
  <2>3. /\ Exists(a) /\ fetch[a] = None
        /\ UNCHANGED <<parts, files, inflight, fetch, sync, sweep, cancels>>
    BY <1>11 DEF Age
  <2> HIDE <1>11
  <2> QED BY <2>2, <2>3
<1>12. ASSUME NEW a \in Ids, NEW b \in BOOLEAN, SetPinned(a, b) PROVE Inv'
  BY <1>12 DEF SetPinned
<1>13. ASSUME NEW p \in Sweeps, SweepScan(p) PROVE Inv'
  BY <1>13 DEF SweepScan, Candidates
<1>14. ASSUME NEW p \in Sweeps, NEW a \in Ids, SweepRemove(p, a) PROVE Inv'
  BY <1>14 DEF SweepRemove
<1>15. ASSUME NEW p \in Sweeps, NEW a \in Ids, SweepSkip(p, a) PROVE Inv'
  BY <1>15 DEF SweepSkip
<1>16. ASSUME NEW p \in Sweeps, NEW a \in Ids, SweepDelete(p, a) PROVE Inv'
  BY <1>16, BatchIdle DEF SweepDelete
<1>17. ASSUME NEW p \in Sweeps, SweepCancel(p) PROVE Inv'
  <2>1. PICK b \in BOOLEAN : b = TRUE
    OBVIOUS
  <2>2. sweep' = [sweep EXCEPT ![p].cancelled = b]
    BY <1>17, <2>1, Zenon DEF SweepCancel
  <2>3. /\ sweep[p] # None /\ cancels' \in 0 .. MaxCancels
        /\ UNCHANGED <<rows, parts, files, inflight, fetch, sync>>
    BY <1>17 DEF SweepCancel
  <2> HIDE <1>17
  <2> QED BY <2>2, <2>3
<1>18. ASSUME NEW p \in Sweeps, SweepOver(p) PROVE Inv'
  BY <1>18 DEF SweepOver
<1>19. CASE Restart
  BY <1>19 DEF Restart
<1>20. CASE UNCHANGED vars
  BY <1>20 DEF vars
<1> QED
  BY <1>1, <1>2, <1>3, <1>4, <1>5, <1>6, <1>7, <1>8, <1>9, <1>10, <1>11, <1>12, <1>13,
     <1>14, <1>15, <1>16, <1>17, <1>18, <1>19, <1>20
  DEF Next, Work, Register, Download, Sweeping

\* Every reachable state is well typed.
THEOREM ArtifactsTypeCorrect == Spec => []TypeOK
<1>1. Inv => TypeOK
  BY DEF Inv
<1> QED BY InvInit, InvStep, <1>1, PTL DEF Spec

(***************************************************************************)
(* The history variables.                                                  *)
(***************************************************************************)

\* A goroutine about to write "ready" has renamed its file into place, and what
\* a sweep holds is exposed.
HistoryInv ==
  /\ Inv
  /\ ReadyIsWhole
  /\ UnfinishedOwned
  /\ \A a \in Ids : fetch[a] = "ready" => a \in files
  /\ \A p \in Sweeps : sweep[p] # None => sweep[p].batch \subseteq exposed

LEMMA HistoryInvInit == HistoryInit => HistoryInv
  BY InvInit, NoneAssumption
  DEF HistoryInit, HistoryInv, Init, ReadyIsWhole, UnfinishedOwned, Unfinished, Is, Exists, Stages

\* Only a sweep removes a file, and only one of its batch.
LEMMA FilesStep ==
  ASSUME Inv, [Next]_vars, NEW a \in files
  PROVE  a \in files' \/ \E p \in Sweeps : sweep[p] # None /\ a \in sweep[p].batch
<1>1. ASSUME NEW p \in Sweeps, NEW b \in Ids, SweepRemove(p, b)
      PROVE  a \in files' \/ a \in sweep[p].batch
  BY <1>1 DEF SweepRemove
<1>2. CASE \E p \in Sweeps, b \in Ids : SweepRemove(p, b)
  BY <1>1, <1>2 DEF SweepRemove
<1>3. CASE ~ \E p \in Sweeps, b \in Ids : SweepRemove(p, b)
  BY <1>3
  DEF Next, vars, Work, Register, Download, Sweeping, SyncLookup, SyncInsert, SyncRefused,
      Enqueue, MarkDownloading, GetRefused, Get, Copy, DropPart, Rename, MarkReady,
      MarkFailed, Expire, Age, SetPinned, SweepScan, SweepSkip, SweepDelete, SweepCancel,
      SweepOver, Restart
<1> QED BY <1>2, <1>3

\* A goroutine that is about to write "ready" keeps its file.
LEMMA FetchedStep ==
  ASSUME Inv, [Next]_vars, NEW a \in Ids, fetch[a] # None, a \in files
  PROVE  a \in files'
  BY FilesStep, BatchIdle

LEMMA RenamedStep ==
  ASSUME Inv, [Next]_vars, NEW a \in Ids, fetch'[a] = "ready", fetch[a] # "ready"
  PROVE  a \in files'
<1> USE NoneAssumption DEF Inv, TypeOK, Stages
<1>1. CASE \E b \in Ids : Rename(b)
  BY <1>1 DEF Rename, Stage
<1>2. CASE ~ \E b \in Ids : Rename(b)
  BY <1>2
  DEF Next, vars, Work, Register, Download, Sweeping, SyncLookup, SyncInsert, SyncRefused,
      Enqueue, MarkDownloading, GetRefused, Get, Copy, DropPart, MarkReady, Stage, Finish,
      MarkFailed, Expire, Age, SetPinned, SweepScan, SweepSkip, SweepDelete, SweepCancel,
      SweepRemove, SweepOver, Restart
<1> QED BY <1>1, <1>2

\* Only MarkReady makes a row ready.
LEMMA ReadyRowStep ==
  ASSUME Inv, [Next]_vars, NEW a \in Ids, Is(a, "ready")'
  PROVE  Is(a, "ready") \/ fetch[a] = "ready"
<1> USE NoneAssumption DEF Inv, TypeOK, Row, Sync, Is, Exists
<1>1. ASSUME NEW b \in Ids, MarkReady(b) PROVE Is(a, "ready") \/ fetch[a] = "ready"
  BY <1>1 DEF MarkReady, Finish, Stage, Mark
<1>2. ASSUME NEW j \in Syncs, NEW b \in Ids, SyncInsert(j, b) PROVE Is(a, "ready")
  BY <1>2 DEF SyncInsert
<1>3. ASSUME NEW b \in Ids, MarkDownloading(b) \/ MarkFailed(b) PROVE Is(a, "ready")
  BY <1>3 DEF MarkDownloading, MarkFailed, Finish, Stage, Stages, Mark, FetchInv, Unfinished
<1>4. ASSUME NEW b \in Ids, Age(b) PROVE Is(a, "ready")
  BY <1>4 DEF Age
<1>5. ASSUME NEW b \in Ids, NEW v \in BOOLEAN, SetPinned(b, v) PROVE Is(a, "ready")
  BY <1>5 DEF SetPinned
<1>6. ASSUME NEW p \in Sweeps, NEW b \in Ids, SweepDelete(p, b) PROVE Is(a, "ready")
  BY <1>6 DEF SweepDelete
<1>7. CASE UNCHANGED rows
  BY <1>7
<1> QED
  BY <1>1, <1>2, <1>3, <1>4, <1>5, <1>6, <1>7
  DEF Next, vars, Work, Register, Download, Sweeping, SyncLookup, SyncRefused, Enqueue,
      GetRefused, Get, Copy, DropPart, Rename, Expire, SweepScan, SweepRemove, SweepSkip,
      SweepCancel, SweepOver, Restart

\* A download is handed on or finished, or it ends in Expire or Restart.
LEMMA OwnedStep ==
  ASSUME Inv, [Work]_vars, NEW a \in Ids, Unfinished(a)', Unfinished(a) => Owned(a)
  PROVE  Owned(a)'
<1> USE NoneAssumption DEF Inv, TypeOK, Row, Sync, Unfinished, Is, Exists, Owned
<1>1. ASSUME NEW j \in Syncs, NEW b \in Ids, SyncInsert(j, b) PROVE Owned(a)'
  BY <1>1 DEF SyncInsert
<1>2. ASSUME NEW j \in Syncs, Enqueue(j) PROVE Owned(a)'
  <2>1. Owned(a)
    BY <1>2 DEF Enqueue
  <2>2. fetch[a] # None => fetch'[a] # None
    BY <1>2 DEF Enqueue, Stages
  <2>3. sync[j].id = a => fetch[a] # None \/ fetch'[a] = "mark"
    BY <1>2 DEF Enqueue, BusyInv
  <2>4. ASSUME NEW i \in Syncs \ {j}, sync[i] # None, sync[i].id = a PROVE Owned(a)'
    BY <1>2, <2>4 DEF Enqueue
  <2> QED BY <2>1, <2>2, <2>3, <2>4 DEF Stages
<1>3. ASSUME NEW j \in Syncs, SyncRefused(j) \/ \E u \in URLs : SyncLookup(j, u)
      PROVE  Owned(a)'
  BY <1>3 DEF SyncRefused, SyncLookup
<1>4. ASSUME NEW b \in Ids, MarkReady(b) \/ MarkFailed(b) PROVE Owned(a)'
  BY <1>4 DEF MarkReady, MarkFailed, Finish, Stage, Stages, Mark, FetchInv
<1>5. ASSUME NEW b \in Ids, MarkDownloading(b) PROVE Owned(a)'
  BY <1>5 DEF MarkDownloading, Stage, Stages, Mark, FetchInv
<1>6. ASSUME NEW b \in Ids,
             GetRefused(b) \/ Get(b) \/ Copy(b) \/ Rename(b)
               \/ \E from \in {"copy", "rename"} : DropPart(b, from)
      PROVE  Owned(a)'
  BY <1>6 DEF GetRefused, Get, Copy, DropPart, Rename, Stage, Stages
<1>7. ASSUME NEW b \in Ids, Age(b) \/ \E v \in BOOLEAN : SetPinned(b, v) PROVE Owned(a)'
  BY <1>7 DEF Age, SetPinned
<1>8. ASSUME NEW p \in Sweeps, Sweeping(p) PROVE Owned(a)'
  BY <1>8
  DEF Sweeping, SweepScan, SweepCancel, SweepOver, SweepRemove, SweepSkip, SweepDelete
<1>9. CASE UNCHANGED vars
  BY <1>9 DEF vars
<1> QED
  BY <1>1, <1>2, <1>3, <1>4, <1>5, <1>6, <1>7, <1>8, <1>9 DEF Work, Register, Download

LEMMA HistoryInvStep == HistoryInv /\ [HistoryNext]_historyVars => HistoryInv'
<1> SUFFICES ASSUME HistoryInv, [HistoryNext]_historyVars PROVE HistoryInv'
  OBVIOUS
<1>1. Inv /\ [Next]_vars
  BY DEF HistoryInv, HistoryNext, historyVars, Next
<1>2. Inv'
  BY <1>1, InvStep
<1>3. exposed \subseteq exposed' /\ cut \subseteq cut'
  BY DEF HistoryNext, historyVars
<1>4. \A p \in Sweeps : sweep'[p] # None => sweep'[p].batch \subseteq exposed'
  BY DEF HistoryInv, HistoryNext, historyVars, vars
<1>5. \A a \in Ids : fetch'[a] = "ready" => a \in files'
  BY <1>1, FetchedStep, RenamedStep, NoneAssumption DEF HistoryInv, Stages
<1>6. ASSUME NEW a \in Ids \ exposed', Is(a, "ready")' PROVE a \in files'
  <2>1. a \in files
    BY <1>1, <1>3, <1>6, ReadyRowStep DEF HistoryInv, ReadyIsWhole
  <2>2. ~ \E p \in Sweeps : sweep[p] # None /\ a \in sweep[p].batch
    BY <1>3, <1>6 DEF HistoryInv
  <2> QED BY <1>1, <2>1, <2>2, FilesStep
<1>7. ASSUME NEW a \in Ids \ cut', Unfinished(a)' PROVE Owned(a)'
  <2>1. Unfinished(a) => Owned(a)
    BY <1>3, <1>7 DEF HistoryInv, UnfinishedOwned
  <2>2. CASE [Work]_vars
    BY <1>1, <1>7, <2>1, <2>2, OwnedStep
  <2>3. ASSUME NEW b \in Ids, Expire(b), cut' = cut \cup {b} PROVE Owned(a)'
    BY <1>1, <1>7, <2>1, <2>3
    DEF Expire, Finish, Stage, Unfinished, Is, Exists, Owned, Inv, TypeOK
  <2>4. CASE Restart /\ cut' = cut \cup {b \in Ids : Owned(b)}
    BY <1>7, <2>1, <2>4 DEF Restart, Unfinished, Is, Exists
  <2> QED BY <2>2, <2>3, <2>4 DEF HistoryNext, historyVars
<1> QED
  BY <1>2, <1>4, <1>5, <1>6, <1>7 DEF HistoryInv, ReadyIsWhole, UnfinishedOwned

\* Whatever removals are refused, whichever syncs and sweeps overlap and wherever the
\* process dies: a row that says "ready" leads to a complete file until a sweep selects
\* it, no file stays under a final name without its row, and a URL has one row.
THEOREM TableStaysTrue == HistorySpec => []TableMatchesDisk
<1>1. HistoryInv => TableMatchesDisk
  BY DEF HistoryInv, Inv, TableMatchesDisk
<1> QED BY HistoryInvInit, HistoryInvStep, <1>1, PTL DEF HistorySpec

\* Only a restart or the deadline leaves a row unfinished with nobody at work.
THEOREM DownloadsAreOwned == HistorySpec => []UnfinishedOwned
<1>1. HistoryInv => UnfinishedOwned
  BY DEF HistoryInv
<1> QED BY HistoryInvInit, HistoryInvStep, <1>1, PTL DEF HistorySpec

-----------------------------------------------------------------------------
(* A row is a job.                                                         *)

\* The phases after a step that moves the rows in S, in the words of Jobs.
LEMMA MoveRows ==
  ASSUME NEW S \in SUBSET Ids, NEW to,
         \A a \in Ids : Phase(a)' = IF a \in S THEN to ELSE Phase(a)
  PROVE  DownloadJobs!Move(S, to)
  BY DEF DownloadJobs!Move

\* A phase depends on existence, on the status and on who is at work.
LEMMA PhaseKept ==
  ASSUME NEW a \in Ids, Exists(a)' <=> Exists(a),
         Exists(a) => rows'[a].status = rows[a].status,
         Owned(a)' <=> Owned(a)
  PROVE  Phase(a)' = Phase(a)
  BY DEF Phase, Unfinished, Is

\* A goroutine has its row to itself.
LEMMA FetchAlone ==
  ASSUME Inv, NEW a \in Ids, fetch[a] # None
  PROVE  Phase(a) = "open" /\ \A j \in Syncs : sync[j] # None => sync[j].id # a
<1>1. Unfinished(a) /\ Owned(a)
  BY DEF Inv, FetchInv, Owned
<1>2. ASSUME NEW j \in Syncs, sync[j] # None, sync[j].id = a PROVE FALSE
  BY <1>2, NoneAssumption DEF Inv, SyncInv
<1> QED BY <1>1, <1>2 DEF Phase, Unfinished, Is

LEMMA OwnedUnfinished ==
  ASSUME Inv, NEW a \in Ids, Owned(a)
  PROVE  Phase(a) = "open"
  BY NoneAssumption DEF Inv, SyncInv, FetchInv, Owned, Phase, Unfinished, Is

LEMMA DownloadSimulation ==
  Inv /\ Inv' /\ [HistoryNext]_historyVars
    => [DownloadJobs!Next]_<<[a \in Ids |-> Phase(a)], cut>>
<1> DEFINE phases == [a \in Ids |-> Phase(a)]
           Stutter == UNCHANGED <<phases, cut>>
<1> SUFFICES ASSUME Inv, Inv', [HistoryNext]_historyVars
             PROVE  DownloadJobs!Next \/ Stutter
  OBVIOUS
<1> USE NoneAssumption DEF Inv, TypeOK
<1>1. CASE Restart /\ cut' = cut \cup {a \in Ids : Owned(a)}
  <2> DEFINE S == {a \in Ids : Owned(a)}
  <2>1. \A a \in S : Phase(a) = "open"
    BY OwnedUnfinished
  <2>2. ASSUME NEW a \in Ids PROVE Phase(a)' = IF a \in S THEN "abandoned" ELSE Phase(a)
    BY <1>1, <2>1 DEF Restart, Phase, Unfinished, Is, Exists, Owned
  <2>3. DownloadJobs!CutShort(S)
    BY <1>1, <2>1, <2>2, MoveRows DEF DownloadJobs!CutShort
  <2> QED BY <2>3 DEF DownloadJobs!Next
<1>2. ASSUME NEW a \in Ids, Expire(a), cut' = cut \cup {a} PROVE DownloadJobs!Next
  <2>1. fetch[a] # None /\ rows' = rows /\ sync' = sync /\ fetch' = [fetch EXCEPT ![a] = None]
    BY <1>2 DEF Expire, Finish, Stage, Stages
  <2>2. Phase(a) = "open" /\ Phase(a)' = "abandoned"
    BY <2>1, FetchAlone DEF Phase, Unfinished, Is, Exists, Owned
  <2>3. \A b \in Ids \ {a} : Phase(b)' = Phase(b)
    BY <2>1, PhaseKept DEF Exists, Owned
  <2>4. DownloadJobs!CutShort({a})
    BY <1>2, <2>2, <2>3, MoveRows DEF DownloadJobs!CutShort
  <2> QED BY <2>4 DEF DownloadJobs!Next
<1>3. ASSUME NEW j \in Syncs, NEW a \in Ids, SyncInsert(j, a), cut' = cut
      PROVE  DownloadJobs!Next
  <2>1. rows'[a].status = "pending" /\ rows'[a] \in Row
    <3>1. PICK b \in BOOLEAN : b = FALSE
      OBVIOUS
    <3>2. rows' = [rows EXCEPT ![a] = [url |-> sync[j].url, status |-> "pending",
                                       pinned |-> b, old |-> b]]
      BY <1>3, <3>1, Zenon DEF SyncInsert
    <3>3. sync[j].url \in URLs
      BY <1>3 DEF SyncInsert, Sync
    <3> QED BY <3>2, <3>3 DEF Row, Status
  <2>2. rows[a] = None /\ sync'[j].id = a /\ sync'[j] # None
    BY <1>3 DEF SyncInsert, Sync
  <2>3. Phase(a) = "absent" /\ Phase(a)' = "open"
    BY <2>1, <2>2 DEF Phase, Unfinished, Is, Exists, Owned
  <2>4. \A b \in Ids \ {a} : Phase(b)' = Phase(b)
    BY <1>3, PhaseKept DEF SyncInsert, Sync, Exists, Owned
  <2>5. DownloadJobs!Open(a)
    BY <1>3, <2>3, <2>4, MoveRows DEF DownloadJobs!Open
  <2> QED BY <2>5 DEF DownloadJobs!Next
<1>4. ASSUME NEW j \in Syncs, Enqueue(j), cut' = cut PROVE Stutter
  <2>1. PICK a \in Ids : sync[j] # None /\ sync[j].id = a
    BY <1>4 DEF Enqueue, Sync
  <2>2. Is(a, "pending") /\ fetch[a] = None /\ a \notin inflight
    BY <2>1 DEF SyncInv, BusyInv
  <2>3. fetch' = [fetch EXCEPT ![a] = "mark"] /\ sync' = [sync EXCEPT ![j] = None] /\ rows' = rows
    BY <1>4, <2>1, <2>2 DEF Enqueue
  <2>4. Owned(a) /\ Owned(a)'
    BY <2>1, <2>3 DEF Owned, Stages
  <2>5. \A b \in Ids \ {a} : Owned(b)' <=> Owned(b)
    BY <2>1, <2>3 DEF Owned
  <2> QED BY <1>4, <2>3, <2>4, <2>5, PhaseKept DEF Exists
<1>5. ASSUME NEW a \in Ids, MarkReady(a) \/ MarkFailed(a), cut' = cut PROVE DownloadJobs!Next
  <2>1. fetch[a] # None /\ rows'[a].status \in {"ready", "failed"} /\ Exists(a)'
    <3>1. fetch[a] # None
      BY <1>5 DEF MarkReady, MarkFailed, Finish, Stage, Stages
    <3>2. rows[a] \in Row
      BY <3>1 DEF FetchInv, Unfinished, Is, Exists
    <3>3. PICK s \in {"ready", "failed"} : rows'[a] = [rows[a] EXCEPT !.status = s]
      BY <1>5 DEF MarkReady, MarkFailed, Mark
    <3>4. rows'[a] \in Row /\ rows'[a].status = s
      BY <3>2, <3>3 DEF Row, Status
    <3> QED BY <3>1, <3>4 DEF Exists
  <2>2. Phase(a) = "open" /\ Phase(a)' = "settled"
    BY <2>1, FetchAlone DEF Phase, Unfinished, Is
  <2>3. \A b \in Ids \ {a} : Phase(b)' = Phase(b)
    BY <1>5, PhaseKept DEF MarkReady, MarkFailed, Finish, Stage, Mark, Exists, Owned
  <2>4. DownloadJobs!Settle(a)
    BY <1>5, <2>2, <2>3, MoveRows DEF DownloadJobs!Settle
  <2> QED BY <2>4 DEF DownloadJobs!Next
<1>6. ASSUME NEW p \in Sweeps, NEW a \in Ids, SweepDelete(p, a), rows' # rows, cut' = cut
      PROVE  DownloadJobs!Next
  <2>1. rows' = [rows EXCEPT ![a] = Gone] /\ fetch' = fetch /\ sync' = sync
    BY <1>6 DEF SweepDelete
  <2>2. Phase(a)' = "absent"
    BY <2>1 DEF Phase, Exists
  <2>3. \A b \in Ids \ {a} : Phase(b)' = Phase(b)
    BY <2>1, PhaseKept DEF Exists, Owned
  <2>4. DownloadJobs!Erase({a})
    BY <1>6, <2>2, <2>3, MoveRows DEF DownloadJobs!Erase
  <2> QED BY <2>4 DEF DownloadJobs!Next
<1>7. ASSUME UNCHANGED <<rows, fetch, sync, cut>> PROVE Stutter
  BY <1>7, PhaseKept DEF Exists, Owned
<1>8. ASSUME NEW j \in Syncs, SyncRefused(j) \/ \E u \in URLs : SyncLookup(j, u), cut' = cut
      PROVE  Stutter
  BY <1>8, PhaseKept DEF SyncRefused, SyncLookup, Exists, Owned
<1>9. ASSUME NEW a \in Ids, cut' = cut,
             MarkDownloading(a) \/ GetRefused(a) \/ Get(a) \/ Copy(a) \/ Rename(a)
               \/ \E from \in {"copy", "rename"} : DropPart(a, from)
      PROVE  Stutter
  <2>1. fetch[a] # None /\ sync' = sync
    BY <1>9 DEF MarkDownloading, GetRefused, Get, Copy, Rename, DropPart, Stage, Stages
  <2>2. PICK stage \in Stages : fetch' = [fetch EXCEPT ![a] = stage]
    BY <1>9 DEF MarkDownloading, GetRefused, Get, Copy, Rename, DropPart, Stage, Stages
  <2>3. \A b \in Ids : Owned(b)' <=> Owned(b)
    BY <2>1, <2>2 DEF Owned
  <2>4. CASE rows' = rows
    BY <1>9, <2>3, <2>4, PhaseKept DEF Exists
  <2>5. CASE MarkDownloading(a)
    <3>1. rows[a] \in Row /\ Unfinished(a)
      BY <2>1 DEF FetchInv, Unfinished, Is, Exists
    <3>2. rows'[a] = [rows[a] EXCEPT !.status = "downloading"]
      BY <2>5 DEF MarkDownloading, Mark
    <3>3. rows'[a] \in Row /\ rows'[a].status = "downloading"
      BY <3>1, <3>2 DEF Row, Status
    <3>4. Phase(a) = "open" /\ Phase(a)' = "open"
      BY <2>1, <2>3, <3>1, <3>3 DEF Phase, Unfinished, Is, Exists, Owned
    <3>5. \A b \in Ids \ {a} : Phase(b)' = Phase(b)
      BY <2>3, <2>5, PhaseKept DEF MarkDownloading, Mark, Exists
    <3> QED BY <1>9, <3>4, <3>5
  <2> QED BY <1>9, <2>4, <2>5 DEF GetRefused, Get, Copy, Rename, DropPart
<1>10. ASSUME NEW a \in Ids, Age(a) \/ \E b \in BOOLEAN : SetPinned(a, b), cut' = cut
       PROVE  Stutter
  <2>1. Exists(a) /\ rows[a] \in Row /\ fetch' = fetch /\ sync' = sync
    BY <1>10 DEF Age, SetPinned, Exists
  <2>2. PICK b \in BOOLEAN : \/ rows' = [rows EXCEPT ![a].old = b]
                            \/ rows' = [rows EXCEPT ![a].pinned = b]
    BY <1>10, Zenon DEF Age, SetPinned
  <2>3. rows'[a] \in Row /\ rows'[a].status = rows[a].status
    BY <2>1, <2>2 DEF Row
  <2>4. \A c \in Ids \ {a} : rows'[c] = rows[c]
    BY <2>2
  <2> QED BY <1>10, <2>1, <2>3, <2>4, PhaseKept DEF Exists, Owned
<1> QED
  BY <1>1, <1>2, <1>3, <1>4, <1>5, <1>6, <1>7, <1>8, <1>9, <1>10
  DEF HistoryNext, historyVars, vars, Work, Register, Download, Sweeping, SweepScan, SweepRemove,
      SweepSkip, SweepDelete, SweepCancel, SweepOver

\* Every step is a step of a job or none: a row is settled by its goroutine, cut short
\* by a restart or the deadline, or erased by a sweep, and nothing reopens it.
THEOREM DownloadsImplementJobs == HistorySpec => DownloadJobs!SafeSpec
<1>1. HistorySpec => []Inv
  <2>1. HistoryInit => Inv
    BY InvInit DEF HistoryInit
  <2>2. [HistoryNext]_historyVars => [Next]_vars
    BY DEF HistoryNext, historyVars, Next
  <2> QED BY <2>1, <2>2, InvStep, PTL DEF HistorySpec
<1>2. HistoryInit => DownloadJobs!Init
  BY NoneAssumption DEF HistoryInit, Init, DownloadJobs!Init, Phase, Exists
<1> QED BY <1>1, <1>2, DownloadSimulation, PTL DEF HistorySpec, DownloadJobs!SafeSpec

-----------------------------------------------------------------------------
(* The diff that is shown of two versions.  Its loops leave a table none   *)
(* of whose cells is below the longest common subsequence (TableInv), a    *)
(* list that takes both files up line by line and has as many equal lines  *)
(* as the table's first cell (WalkInv), and hunks, each the piece its      *)
(* header points at, between which the files agree (ScanInv).              *)

\* A common subsequence of length k of the lines from x and y on: the lines it takes.
Matching(a, b, x, y, k, f, g) ==
  /\ f \in [1..k -> x..Len(a)] /\ g \in [1..k -> y..Len(b)]
  /\ \A r, s \in 1..k : r < s => f[r] < f[s] /\ g[r] < g[s]
  /\ \A r \in 1..k : a[f[r]] = b[g[r]]

\* None is longer than dp[x][y].
LongestAt(dp, a, b, x, y) ==
  \A k \in Nat : \A f, g : Matching(a, b, x, y, k, f, g) => k <= dp[x][y]

Table(n, m) == [1..n + 1 -> [1..m + 1 -> Nat]]

Filled(d, x, y) == x > d.row \/ (x = d.row /\ y > d.col)

\* The cells below and right of the next one hold what they should.
TableInv(d, a, b) ==
  /\ d.dp \in Table(Len(a), Len(b)) /\ d.row \in 0..Len(a) /\ d.col \in 1..Len(b)
  /\ \A x \in 1..Len(a) + 1 : d.dp[x][Len(b) + 1] = 0
  /\ \A y \in 1..Len(b) + 1 : d.dp[Len(a) + 1][y] = 0
  /\ \A x \in 1..Len(a), y \in 1..Len(b) :
       Filled(d, x, y) => d.dp[x][y] = Cell(d.dp, a, b, x, y) /\ LongestAt(d.dp, a, b, x, y)

\* The first line a common subsequence takes is the least of them.
LEMMA MatchingFrom ==
  ASSUME NEW a, NEW b, NEW x \in Nat, NEW y \in Nat, NEW k \in Nat, NEW f, NEW g,
         Len(a) \in Nat, Len(b) \in Nat, Matching(a, b, x, y, k, f, g), k >= 1
  PROVE  /\ f[1] \in x..Len(a) /\ g[1] \in y..Len(b) /\ a[f[1]] = b[g[1]]
         /\ \A r \in 1..k : f[r] \in f[1]..Len(a) /\ g[r] \in g[1]..Len(b)
<1>1. 1 \in 1..k
  OBVIOUS
<1>2. f[1] \in x..Len(a) /\ g[1] \in y..Len(b) /\ a[f[1]] = b[g[1]]
  BY <1>1 DEF Matching
<1>3. ASSUME NEW r \in 1..k
      PROVE  f[r] \in f[1]..Len(a) /\ g[r] \in g[1]..Len(b)
  <2>1. f[r] \in x..Len(a) /\ g[r] \in y..Len(b)
    BY DEF Matching
  <2>2. r = 1 \/ (f[1] < f[r] /\ g[1] < g[r])
    <3>1. r = 1 \/ 1 < r
      OBVIOUS
    <3> QED
      BY <1>1, <3>1 DEF Matching
  <2> QED
    BY <1>2, <2>1, <2>2
<1> QED
  BY <1>2, <1>3

\* Without its first line it is one of the lines behind.
LEMMA MatchingRest ==
  ASSUME NEW a, NEW b, NEW x \in Nat, NEW y \in Nat, NEW k \in Nat, NEW f, NEW g,
         Len(a) \in Nat, Len(b) \in Nat, Matching(a, b, x, y, k, f, g), k >= 1
  PROVE  \E u, v : Matching(a, b, x + 1, y + 1, k - 1, u, v)
<1> DEFINE u == [r \in 1..k - 1 |-> f[r + 1]]
           v == [r \in 1..k - 1 |-> g[r + 1]]
<1>1. \A r \in 1..k - 1 : r + 1 \in 1..k
  OBVIOUS
<1>2. ASSUME NEW r \in 1..k - 1
      PROVE  u[r] \in x + 1..Len(a) /\ v[r] \in y + 1..Len(b)
  <2>1. 1 \in 1..k /\ r + 1 \in 1..k /\ 1 < r + 1
    BY <1>1
  <2>2. f[1] < f[r + 1] /\ g[1] < g[r + 1]
    BY <2>1 DEF Matching
  <2>3. /\ f[1] \in x..Len(a) /\ g[1] \in y..Len(b)
        /\ f[r + 1] \in x..Len(a) /\ g[r + 1] \in y..Len(b)
    BY <2>1 DEF Matching
  <2> QED
    BY <2>2, <2>3
<1>3. \A r, s \in 1..k - 1 : r < s => u[r] < u[s] /\ v[r] < v[s]
  <2> TAKE r, s \in 1..k - 1
  <2>1. r < s => r + 1 < s + 1
    OBVIOUS
  <2> QED
    BY <1>1, <2>1 DEF Matching
<1>4. \A r \in 1..k - 1 : a[u[r]] = b[v[r]]
  BY <1>1 DEF Matching
<1>5. u \in [1..k - 1 -> x + 1..Len(a)] /\ v \in [1..k - 1 -> y + 1..Len(b)]
  BY <1>2
<1> HIDE DEF u, v
<1>6. Matching(a, b, x + 1, y + 1, k - 1, u, v)
  BY <1>3, <1>4, <1>5 DEF Matching
<1> QED
  BY <1>6

\* One that does not begin at a line is one of the lines after it.
LEMMA MatchingDown ==
  ASSUME NEW a, NEW b, NEW x \in Nat, NEW y \in Nat, NEW k \in Nat, NEW f, NEW g,
         Len(a) \in Nat, Len(b) \in Nat, Matching(a, b, x, y, k, f, g), k >= 1
  PROVE  /\ f[1] # x => Matching(a, b, x + 1, y, k, f, g)
         /\ g[1] # y => Matching(a, b, x, y + 1, k, f, g)
<1>1. /\ f[1] \in x..Len(a) /\ g[1] \in y..Len(b)
      /\ \A r \in 1..k : f[r] \in f[1]..Len(a) /\ g[r] \in g[1]..Len(b)
  BY MatchingFrom
<1>2. f \in [1..k -> x..Len(a)] /\ g \in [1..k -> y..Len(b)]
  BY DEF Matching
<1>3. f[1] # x => f \in [1..k -> x + 1..Len(a)]
  <2>1. f[1] # x => \A r \in 1..k : f[r] \in x + 1..Len(a)
    BY <1>1
  <2> QED
    BY <1>2, <2>1
<1>4. g[1] # y => g \in [1..k -> y + 1..Len(b)]
  <2>1. g[1] # y => \A r \in 1..k : g[r] \in y + 1..Len(b)
    BY <1>1
  <2> QED
    BY <1>2, <2>1
<1> QED
  BY <1>2, <1>3, <1>4 DEF Matching

\* A cell is the longest when its three neighbours are.
LEMMA CellLongest ==
  ASSUME NEW a, NEW b, Len(a) \in Nat, Len(b) \in Nat, NEW dp \in Table(Len(a), Len(b)),
         NEW x \in 1..Len(a), NEW y \in 1..Len(b), dp[x][y] = Cell(dp, a, b, x, y),
         LongestAt(dp, a, b, x + 1, y + 1), LongestAt(dp, a, b, x + 1, y),
         LongestAt(dp, a, b, x, y + 1)
  PROVE  LongestAt(dp, a, b, x, y)
<1> SUFFICES ASSUME NEW k \in Nat, NEW f, NEW g, Matching(a, b, x, y, k, f, g)
             PROVE  k <= dp[x][y]
  BY DEF LongestAt
<1>1. /\ x \in Nat /\ y \in Nat /\ x + 1 \in 1..Len(a) + 1 /\ y + 1 \in 1..Len(b) + 1
      /\ x \in 1..Len(a) + 1 /\ y \in 1..Len(b) + 1
  OBVIOUS
<1>2. /\ dp[x][y] \in Nat /\ dp[x + 1][y] \in Nat /\ dp[x][y + 1] \in Nat
      /\ dp[x + 1][y + 1] \in Nat
  BY <1>1 DEF Table
<1>3. CASE k = 0
  BY <1>2, <1>3
<1>4. CASE k >= 1 /\ a[x] = b[y]
  <2>1. PICK u, v : Matching(a, b, x + 1, y + 1, k - 1, u, v)
    BY <1>1, <1>4, MatchingRest
  <2>2. k - 1 \in Nat
    BY <1>4
  <2>3. k - 1 <= dp[x + 1][y + 1]
    BY <2>1, <2>2 DEF LongestAt
  <2>4. dp[x][y] = dp[x + 1][y + 1] + 1
    BY <1>4 DEF Cell
  <2> QED
    BY <1>2, <2>3, <2>4
<1>5. CASE k >= 1 /\ a[x] # b[y]
  <2>1. f[1] # x \/ g[1] # y
    <3>1. k >= 1 /\ Matching(a, b, x, y, k, f, g)
      BY <1>5
    <3>2. a[f[1]] = b[g[1]]
      BY <1>1, <3>1, MatchingFrom
    <3> QED
      BY <1>5, <3>2
  <2>2. Matching(a, b, x + 1, y, k, f, g) \/ Matching(a, b, x, y + 1, k, f, g)
    BY <1>1, <1>5, <2>1, MatchingDown
  <2>3. k <= dp[x + 1][y] \/ k <= dp[x][y + 1]
    BY <2>2 DEF LongestAt
  <2>4. dp[x][y] = IF dp[x + 1][y] >= dp[x][y + 1] THEN dp[x + 1][y] ELSE dp[x][y + 1]
    BY <1>5 DEF Cell
  <2> QED
    BY <1>2, <2>3, <2>4
<1> QED
  BY <1>3, <1>4, <1>5

\* Beyond the last line of a file nothing is common.
LEMMA BorderLongest ==
  ASSUME NEW a, NEW b, Len(a) \in Nat, Len(b) \in Nat, NEW dp \in Table(Len(a), Len(b)),
         NEW x \in 1..Len(a) + 1, NEW y \in 1..Len(b) + 1, x = Len(a) + 1 \/ y = Len(b) + 1
  PROVE  LongestAt(dp, a, b, x, y)
<1> SUFFICES ASSUME NEW k \in Nat, NEW f, NEW g, Matching(a, b, x, y, k, f, g)
             PROVE  k <= dp[x][y]
  BY DEF LongestAt
<1>1. dp[x][y] \in Nat /\ x \in Nat /\ y \in Nat
  BY DEF Table
<1>2. ASSUME k >= 1 PROVE FALSE
  <2>1. f[1] \in x..Len(a) /\ g[1] \in y..Len(b)
    BY <1>1, <1>2, MatchingFrom
  <2> QED
    BY <1>1, <2>1
<1> QED
  BY <1>1, <1>2

\* Reading a cell.
LEMMA TableRead ==
  ASSUME NEW n \in Nat, NEW m \in Nat, NEW dp \in Table(n, m),
         NEW x \in 1..n + 1, NEW y \in 1..m + 1
  PROVE  dp[x][y] \in Nat
<1>1. dp[x] \in [1..m + 1 -> Nat]
  BY DEF Table
<1> QED
  BY <1>1

\* The table before its first cell is filled, and with one cell more.
LEMMA TableStart ==
  ASSUME NEW a \in Seq(Lines) \ {<<>>}, NEW b \in Seq(Lines) \ {<<>>}
  PROVE  TableInv(DiffStart(a, b), a, b)
<1>1. Len(a) \in Nat /\ Len(b) \in Nat /\ Len(a) >= 1 /\ Len(b) >= 1
  OBVIOUS
<1> DEFINE d == DiffStart(a, b)
<1>2. /\ d.dp = [x \in 1..Len(a) + 1 |-> [y \in 1..Len(b) + 1 |-> 0]]
      /\ d.row = Len(a) /\ d.col = Len(b)
  BY DEF DiffStart
<1> HIDE DEF d
<1>3. /\ d.dp \in Table(Len(a), Len(b))
      /\ \A x \in 1..Len(a) + 1, y \in 1..Len(b) + 1 : d.dp[x][y] = 0
  BY <1>2 DEF Table
<1>4. \A x \in 1..Len(a), y \in 1..Len(b) : ~Filled(d, x, y)
  BY <1>1, <1>2 DEF Filled
<1>5. Len(a) + 1 \in 1..Len(a) + 1 /\ Len(b) + 1 \in 1..Len(b) + 1
  BY <1>1
<1> QED
  BY <1>1, <1>2, <1>3, <1>4, <1>5 DEF TableInv, d

LEMMA TableStep ==
  ASSUME NEW a, NEW b, Len(a) \in Nat, Len(b) \in Nat, NEW d, TableInv(d, a, b),
         ~TableFull(d), NEW e,
         e.dp = [d.dp EXCEPT ![d.row][d.col] = Cell(d.dp, a, b, d.row, d.col)],
         e.row = IF d.col = 1 THEN d.row - 1 ELSE d.row,
         e.col = IF d.col = 1 THEN Len(b) ELSE d.col - 1
  PROVE  TableInv(e, a, b)
<1> DEFINE n == Len(a)
           m == Len(b)
           i == d.row
           j == d.col
           c == Cell(d.dp, a, b, i, j)
<1>1. /\ d.dp \in Table(n, m) /\ i \in 1..n /\ j \in 1..m /\ n \in Nat /\ m \in Nat
      /\ \A x \in 1..n + 1 : d.dp[x][m + 1] = 0
      /\ \A y \in 1..m + 1 : d.dp[n + 1][y] = 0
      /\ \A x \in 1..n, y \in 1..m :
           Filled(d, x, y) => d.dp[x][y] = Cell(d.dp, a, b, x, y) /\ LongestAt(d.dp, a, b, x, y)
  BY DEF TableInv, TableFull
<1>2. \A x, y : Filled(d, x, y) <=> x > i \/ (x = i /\ y > j)
  BY DEF Filled
<1>3. \A x, y : Filled(e, x, y) <=> x > e.row \/ (x = e.row /\ y > e.col)
  BY DEF Filled
<1>4. e.dp = [d.dp EXCEPT ![i][j] = c]
  OBVIOUS
<1>5. c \in Nat
  <2>1. /\ i + 1 \in 1..n + 1 /\ j + 1 \in 1..m + 1 /\ i \in 1..n + 1 /\ j \in 1..m + 1
    BY <1>1
  <2>2. /\ d.dp[i + 1][j + 1] \in Nat /\ d.dp[i + 1][j] \in Nat /\ d.dp[i][j + 1] \in Nat
    BY <1>1, <2>1, TableRead
  <2> QED
    BY <2>2 DEF Cell
<1>6. /\ e.row = IF j = 1 THEN i - 1 ELSE i
      /\ e.col = IF j = 1 THEN m ELSE j - 1
  OBVIOUS
<1> HIDE DEF n, m, i, j, c
<1>7. /\ e.dp \in Table(n, m)
      /\ \A x \in 1..n + 1, y \in 1..m + 1 :
           e.dp[x][y] = IF x = i /\ y = j THEN c ELSE d.dp[x][y]
  <2>1. i \in 1..n + 1 /\ j \in 1..m + 1
    BY <1>1
  <2>2. d.dp \in [1..n + 1 -> [1..m + 1 -> Nat]]
    BY <1>1 DEF Table
  <2>3. PICK r : r = [d.dp[i] EXCEPT ![j] = c]
    OBVIOUS
  <2>4. /\ r \in [1..m + 1 -> Nat]
        /\ \A y \in 1..m + 1 : r[y] = IF y = j THEN c ELSE d.dp[i][y]
    BY <1>5, <2>1, <2>2, <2>3
  <2>5. e.dp = [d.dp EXCEPT ![i] = r]
    BY <1>4, <2>3
  <2>6. /\ e.dp \in [1..n + 1 -> [1..m + 1 -> Nat]]
        /\ \A x \in 1..n + 1 : e.dp[x] = IF x = i THEN r ELSE d.dp[x]
    BY <2>1, <2>2, <2>4, <2>5
  <2> QED
    BY <2>4, <2>6 DEF Table
<1>8. ASSUME NEW x \in 1..n + 1, NEW y \in 1..m + 1
      PROVE  e.dp[x][y] = IF x = i /\ y = j THEN c ELSE d.dp[x][y]
  BY <1>7
<1>9. e.row \in 0..n /\ e.col \in 1..m
  BY <1>1, <1>6
<1>10. \A x \in 1..n, y \in 1..m : Filled(e, x, y) <=> Filled(d, x, y) \/ (x = i /\ y = j)
  BY <1>1, <1>2, <1>3, <1>6
<1>11. /\ \A x \in 1..n + 1 : e.dp[x][m + 1] = 0
       /\ \A y \in 1..m + 1 : e.dp[n + 1][y] = 0
  <2>1. n + 1 \in 1..n + 1 /\ m + 1 \in 1..m + 1 /\ n + 1 # i /\ m + 1 # j
    BY <1>1
  <2> QED
    BY <1>1, <1>8, <2>1
<1>12. ASSUME NEW x \in 1..n, NEW y \in 1..m, Filled(e, x, y)
       PROVE  /\ e.dp[x][y] = Cell(e.dp, a, b, x, y)
              /\ e.dp[x + 1][y + 1] = d.dp[x + 1][y + 1] /\ e.dp[x + 1][y] = d.dp[x + 1][y]
              /\ e.dp[x][y + 1] = d.dp[x][y + 1]
  <2>1. ~(x + 1 = i) /\ (x = i => y >= j) /\ ~(x = i /\ y + 1 = j)
    BY <1>1, <1>2, <1>10, <1>12
  <2>2. /\ x + 1 \in 1..n + 1 /\ y + 1 \in 1..m + 1 /\ x \in 1..n + 1 /\ y \in 1..m + 1
    BY <1>1
  <2>3. /\ e.dp[x + 1][y + 1] = d.dp[x + 1][y + 1] /\ e.dp[x + 1][y] = d.dp[x + 1][y]
        /\ e.dp[x][y + 1] = d.dp[x][y + 1]
    BY <1>8, <2>1, <2>2
  <2>4. Cell(e.dp, a, b, x, y) = Cell(d.dp, a, b, x, y)
    BY <2>3 DEF Cell
  <2>5. e.dp[x][y] = Cell(d.dp, a, b, x, y)
    <3>1. CASE x = i /\ y = j
      BY <1>8, <2>2, <3>1 DEF c
    <3>2. CASE ~(x = i /\ y = j)
      BY <1>1, <1>8, <1>10, <1>12, <2>2, <3>2
    <3> QED
      BY <3>1, <3>2
  <2> QED
    BY <2>3, <2>4, <2>5
\* What was proved of the filled cells, and of the borders, stays.
<1>13. ASSUME NEW x \in 1..n + 1, NEW y \in 1..m + 1,
              x = n + 1 \/ y = m + 1 \/ Filled(d, x, y)
       PROVE  LongestAt(e.dp, a, b, x, y)
  <2>1. CASE x = n + 1 \/ y = m + 1
    BY <1>1, <1>7, <2>1, BorderLongest DEF n, m
  <2>2. CASE ~(x = n + 1 \/ y = m + 1)
    <3>1. x \in 1..n /\ y \in 1..m /\ Filled(d, x, y) /\ ~(x = i /\ y = j)
      BY <1>1, <1>2, <1>13, <2>2
    <3>2. LongestAt(d.dp, a, b, x, y) /\ e.dp[x][y] = d.dp[x][y]
      BY <1>1, <1>8, <3>1
    <3> QED
      BY <3>2 DEF LongestAt
  <2> QED
    BY <2>1, <2>2
<1>14. ASSUME NEW x \in 1..n, NEW y \in 1..m, Filled(e, x, y)
       PROVE  LongestAt(e.dp, a, b, x, y)
  <2>0. x \in 1..n + 1 /\ y \in 1..m + 1 /\ x + 1 \in 1..n + 1 /\ y + 1 \in 1..m + 1
    BY <1>1
  <2>1. CASE Filled(d, x, y)
    BY <1>13, <2>0, <2>1
  <2>2. CASE ~Filled(d, x, y)
    <3>1. x = i /\ y = j
      BY <1>10, <1>14, <2>2
    <3>2. /\ x + 1 = n + 1 \/ y + 1 = m + 1 \/ Filled(d, x + 1, y + 1)
          /\ x + 1 = n + 1 \/ y = m + 1 \/ Filled(d, x + 1, y)
          /\ x = n + 1 \/ y + 1 = m + 1 \/ Filled(d, x, y + 1)
      BY <1>1, <1>2, <3>1
    <3>3. /\ LongestAt(e.dp, a, b, x + 1, y + 1) /\ LongestAt(e.dp, a, b, x + 1, y)
          /\ LongestAt(e.dp, a, b, x, y + 1)
      BY <1>13, <2>0, <3>2
    <3>4. e.dp[x][y] = Cell(e.dp, a, b, x, y)
      BY <1>12, <1>14
    <3> QED
      BY <1>1, <1>7, <3>3, <3>4, CellLongest DEF n, m
  <2> QED
    BY <2>1, <2>2
<1> QED
  BY <1>7, <1>9, <1>11, <1>12, <1>14 DEF TableInv, n, m

Operations == [kind : {"equal", "del", "add"}, line : Lines]

\* Every operation of the list is on the next line of the files it takes up.
Listed(ops, a, b) ==
  \A q \in 1..Len(ops) :
    /\ ops[q].kind # "add" =>
         1 + OldCount(ops, q - 1) \in 1..Len(a) /\ ops[q].line = a[1 + OldCount(ops, q - 1)]
    /\ ops[q].kind # "del" =>
         1 + NewCount(ops, q - 1) \in 1..Len(b) /\ ops[q].line = b[1 + NewCount(ops, q - 1)]

\* The lines taken up so far, the equal ones among them once, are as many as the walk
\* can make common of a longest common subsequence.
WalkInv(d, a, b) ==
  /\ d.ops \in Seq(Operations) /\ Listed(d.ops, a, b)
  /\ d.i \in 1..Len(a) + 1 /\ d.i = 1 + OldCount(d.ops, Len(d.ops))
  /\ d.j \in 1..Len(b) + 1 /\ d.j = 1 + NewCount(d.ops, Len(d.ops))
  /\ Len(d.ops) <= (d.i - 1) + (d.j - 1)
  /\ IF TableFull(d)
       THEN (d.i - 1) + (d.j - 1) - Len(d.ops) + d.dp[d.i][d.j] = d.dp[1][1]
       ELSE d.ops = <<>>

\* How many lines of each file the operations of a list take up.
LEMMA CountStart == \A ops : OldCount(ops, 0) = 0 /\ NewCount(ops, 0) = 0
<1> TAKE ops
<1>1. {x \in 1..0 : ops[x].kind # "add"} = {} /\ {x \in 1..0 : ops[x].kind # "del"} = {}
  OBVIOUS
<1> QED
  BY <1>1, FS_EmptySet DEF OldCount, NewCount

\* One operation more.
LEMMA CountNext ==
  ASSUME NEW ops, NEW q \in Nat
  PROVE  /\ OldCount(ops, q) \in Nat /\ NewCount(ops, q) \in Nat
         /\ OldCount(ops, q + 1) = OldCount(ops, q) + OldLines(ops[q + 1])
         /\ NewCount(ops, q + 1) = NewCount(ops, q) + NewLines(ops[q + 1])
<1>1. IsFiniteSet(1..q)
  BY FS_Interval
<1>2. \A x : x \in 1..q + 1 <=> x \in 1..q \/ x = q + 1
  OBVIOUS
<1>3. q + 1 \notin 1..q
  OBVIOUS
<1>4. ASSUME NEW S, NEW T, NEW kind, S = {x \in 1..q : ops[x].kind # kind},
             T = {x \in 1..q + 1 : ops[x].kind # kind}
      PROVE  /\ Cardinality(S) \in Nat
             /\ Cardinality(T) = Cardinality(S) + IF ops[q + 1].kind = kind THEN 0 ELSE 1
  <2>1. IsFiniteSet(S)
    <3>1. S \in SUBSET (1..q)
      BY <1>4
    <3> QED
      BY <1>1, <3>1, FS_Subset
  <2>2. Cardinality(S) \in Nat
    BY <2>1, FS_CardinalityType
  <2>3. CASE ops[q + 1].kind = kind
    <3>1. T = S
      BY <1>2, <1>4, <2>3
    <3> QED
      BY <2>2, <2>3, <3>1
  <2>4. CASE ops[q + 1].kind # kind
    <3>1. T = S \cup {q + 1} /\ q + 1 \notin S
      BY <1>2, <1>3, <1>4, <2>4
    <3>2. Cardinality(T) = Cardinality(S) + 1
      BY <2>1, <3>1, FS_AddElement
    <3> QED
      BY <2>2, <2>4, <3>2
  <2> QED
    BY <2>2, <2>3, <2>4
<1>5. /\ OldCount(ops, q) \in Nat
      /\ OldCount(ops, q + 1) = OldCount(ops, q) + OldLines(ops[q + 1])
  BY <1>4 DEF OldCount, OldLines
<1>6. /\ NewCount(ops, q) \in Nat
      /\ NewCount(ops, q + 1) = NewCount(ops, q) + NewLines(ops[q + 1])
  BY <1>4 DEF NewCount, NewLines
<1> QED
  BY <1>5, <1>6

\* Only the operations counted matter.
LEMMA CountSame ==
  ASSUME NEW o, NEW p, NEW q \in Nat, \A x \in 1..q : o[x] = p[x]
  PROVE  OldCount(o, q) = OldCount(p, q) /\ NewCount(o, q) = NewCount(p, q)
<1>1. /\ {x \in 1..q : o[x].kind # "add"} = {x \in 1..q : p[x].kind # "add"}
      /\ {x \in 1..q : o[x].kind # "del"} = {x \in 1..q : p[x].kind # "del"}
  OBVIOUS
<1> QED
  BY <1>1 DEF OldCount, NewCount

\* An equal line counts on both sides.
LEMMA CountEqual ==
  ASSUME NEW ops, NEW k \in Nat, NEW l \in Nat, k <= l,
         \A x \in k + 1..l : ops[x].kind = "equal"
  PROVE  /\ OldCount(ops, l) = OldCount(ops, k) + (l - k)
         /\ NewCount(ops, l) = NewCount(ops, k) + (l - k)
<1>1. /\ IsFiniteSet(k + 1..l) /\ Cardinality(k + 1..l) = l - k
      /\ IsFiniteSet(1..k)
  <2>1. /\ IsFiniteSet(k + 1..l) /\ IsFiniteSet(1..k)
        /\ Cardinality(k + 1..l) = IF k + 1 > l THEN 0 ELSE l - (k + 1) + 1
    BY FS_Interval
  <2> QED
    BY <2>1
<1>2. \A x : x \in 1..l <=> x \in 1..k \/ x \in k + 1..l
  OBVIOUS
<1>3. ASSUME NEW S, NEW T, NEW kind, kind # "equal", S = {x \in 1..k : ops[x].kind # kind},
             T = {x \in 1..l : ops[x].kind # kind}
      PROVE  Cardinality(T) = Cardinality(S) + (l - k)
  <2>1. IsFiniteSet(S)
    <3>1. S \in SUBSET (1..k)
      BY <1>3
    <3> QED
      BY <1>1, <3>1, FS_Subset
  <2>2. S \cap (k + 1..l) = {}
    BY <1>3
  <2>3. T = S \cup (k + 1..l)
    BY <1>2, <1>3
  <2>4. Cardinality(S) \in Nat /\ Cardinality({}) = 0
    BY <2>1, FS_CardinalityType, FS_EmptySet
  <2>5. Cardinality(T) = Cardinality(S) + Cardinality(k + 1..l) - Cardinality(S \cap (k + 1..l))
    BY <1>1, <2>1, <2>3, FS_Union
  <2>6. Cardinality(S \cap (k + 1..l)) = 0
    BY <2>2, <2>4
  <2>7. PICK c \in Nat : c = Cardinality(S)
    BY <2>4
  <2>8. Cardinality(T) = c + (l - k) - 0
    BY <1>1, <2>5, <2>6, <2>7
  <2> QED
    BY <2>7, <2>8
<1> QED
  BY <1>3 DEF OldCount, NewCount

\* One operation more at the end of a list.
LEMMA ListedNext ==
  ASSUME NEW a, NEW b, Len(a) \in Nat, Len(b) \in Nat,
         NEW ops \in Seq(Operations), NEW op \in Operations, Listed(ops, a, b),
         NEW i \in Nat, NEW j \in Nat,
         i = 1 + OldCount(ops, Len(ops)), j = 1 + NewCount(ops, Len(ops)),
         op.kind # "add" => i \in 1..Len(a) /\ op.line = a[i],
         op.kind # "del" => j \in 1..Len(b) /\ op.line = b[j]
  PROVE  LET next == Append(ops, op)
         IN  /\ next \in Seq(Operations) /\ Len(next) = Len(ops) + 1 /\ Listed(next, a, b)
             /\ 1 + OldCount(next, Len(next)) = i + OldLines(op)
             /\ 1 + NewCount(next, Len(next)) = j + NewLines(op)
<1>1. PICK next : next = Append(ops, op)
  OBVIOUS
<1>2. PICK l \in Nat : l = Len(ops)
  OBVIOUS
<1>3. /\ next \in Seq(Operations) /\ Len(next) = l + 1
      /\ \A x \in 1..l : next[x] = ops[x]
      /\ next[l + 1] = op
  BY <1>1, <1>2
<1>4. ASSUME NEW q \in 1..l + 1
      PROVE  /\ OldCount(next, q - 1) = OldCount(ops, q - 1)
             /\ NewCount(next, q - 1) = NewCount(ops, q - 1)
  <2>1. q - 1 \in Nat /\ \A x \in 1..q - 1 : next[x] = ops[x]
    BY <1>3
  <2> QED
    BY <2>1, CountSame
<1>5. OldCount(next, l) = OldCount(ops, l) /\ NewCount(next, l) = NewCount(ops, l)
  <2>1. l + 1 \in 1..l + 1 /\ (l + 1) - 1 = l
    BY <1>2
  <2> QED
    BY <1>4, <2>1
<1>6. /\ OldCount(next, l) \in Nat /\ NewCount(next, l) \in Nat
      /\ OldCount(next, l + 1) = OldCount(next, l) + OldLines(next[l + 1])
      /\ NewCount(next, l + 1) = NewCount(next, l) + NewLines(next[l + 1])
  BY CountNext
<1>7. OldLines(op) \in 0..1 /\ NewLines(op) \in 0..1
  BY DEF OldLines, NewLines
<1>8. /\ 1 + OldCount(next, Len(next)) = i + OldLines(op)
      /\ 1 + NewCount(next, Len(next)) = j + NewLines(op)
  BY <1>2, <1>3, <1>5, <1>6, <1>7
<1>9. ASSUME NEW q \in 1..Len(next)
      PROVE  /\ next[q].kind # "add" => /\ 1 + OldCount(next, q - 1) \in 1..Len(a)
                                        /\ next[q].line = a[1 + OldCount(next, q - 1)]
             /\ next[q].kind # "del" => /\ 1 + NewCount(next, q - 1) \in 1..Len(b)
                                        /\ next[q].line = b[1 + NewCount(next, q - 1)]
  <2>1. CASE q = l + 1
    <3>1. next[q] = op /\ q - 1 = l
      BY <1>3, <2>1
    <3>2. i = 1 + OldCount(next, q - 1) /\ j = 1 + NewCount(next, q - 1)
      BY <1>2, <1>5, <3>1
    <3> QED
      BY <3>1, <3>2
  <2>2. CASE q # l + 1
    <3>1. q \in 1..l /\ q \in 1..l + 1
      BY <1>3, <2>2
    <3>2. next[q] = ops[q]
      BY <1>3, <3>1
    <3> QED
      BY <1>2, <1>4, <3>1, <3>2 DEF Listed
  <2> QED
    BY <2>1, <2>2
<1>10. Listed(next, a, b)
  BY <1>9 DEF Listed
<1> QED
  BY <1>1, <1>2, <1>3, <1>8, <1>10

\* The list is empty until the table is full.
LEMMA WalkBegins ==
  ASSUME NEW a \in Seq(Lines) \ {<<>>}, NEW b \in Seq(Lines) \ {<<>>}
  PROVE  WalkInv(DiffStart(a, b), a, b)
<1> DEFINE d == DiffStart(a, b)
<1>1. d.row = Len(a) /\ d.ops = <<>> /\ d.i = 1 /\ d.j = 1
  BY DEF DiffStart
<1>2. Len(a) \in Nat \ {0} /\ Len(b) \in Nat
  OBVIOUS
<1>3. Listed(<<>>, a, b)
  BY DEF Listed
<1>4. ~TableFull(d)
  BY <1>1, <1>2 DEF TableFull
<1> HIDE DEF d
<1>5. d.ops \in Seq(Operations) /\ Len(d.ops) = 0
  BY <1>1
<1>6. WalkInv(d, a, b)
  BY <1>1, <1>2, <1>3, <1>4, <1>5, CountStart DEF WalkInv
<1> QED
  BY <1>6 DEF d

\* The table does not disturb the walk, which begins when it is full.
LEMMA WalkWaits ==
  ASSUME NEW a, NEW b, NEW d, WalkInv(d, a, b), ~TableFull(d), TableInv(d, a, b), NEW e,
         TableInv(e, a, b), e.ops = d.ops, e.i = d.i, e.j = d.j, Len(a) \in Nat, Len(b) \in Nat
  PROVE  WalkInv(e, a, b)
<1>1. d.ops = <<>> /\ d.i = 1 /\ d.j = 1 /\ Len(d.ops) = 0
  BY CountStart DEF WalkInv
<1>2. e.dp[1][1] \in Nat
  <2>1. 1 \in 1..Len(a) + 1 /\ 1 \in 1..Len(b) + 1 /\ e.dp \in Table(Len(a), Len(b))
    BY DEF TableInv
  <2> QED
    BY <2>1, TableRead
<1>3. (e.i - 1) + (e.j - 1) - Len(e.ops) + e.dp[e.i][e.j] = e.dp[1][1]
  BY <1>1, <1>2
<1>4. e.ops = <<>>
  BY <1>1
<1> QED
  BY <1>3, <1>4 DEF WalkInv

\* An operation that the table chooses keeps a longest common subsequence in reach.
LEMMA WalkGoes ==
  ASSUME NEW a \in Seq(Lines), NEW b \in Seq(Lines), NEW d, TableInv(d, a, b),
         WalkInv(d, a, b), TableFull(d), ~Walked(d, a, b),
         NEW kind, kind = NextKind(d, a, b),
         NEW op, op = Op(kind, IF kind = "add" THEN b[d.j] ELSE a[d.i]),
         NEW e, e.dp = d.dp, e.row = d.row, e.ops = Append(d.ops, op),
         e.i = d.i + OldLines(op), e.j = d.j + NewLines(op)
  PROVE  WalkInv(e, a, b)
<1>1. PICK n \in Nat, m \in Nat : n = Len(a) /\ m = Len(b)
  OBVIOUS
<1>2. PICK i \in 1..n + 1, j \in 1..m + 1 : i = d.i /\ j = d.j
  BY <1>1 DEF WalkInv
<1>3. i \in 1..n \/ j \in 1..m
  BY <1>1, <1>2 DEF Walked
<1>4. PICK ops \in Seq(Operations) : ops = d.ops
  BY DEF WalkInv
<1>5. PICK dp : dp = d.dp
  OBVIOUS
<1>6. /\ dp \in Table(n, m)
      /\ \A x \in 1..n + 1 : dp[x][m + 1] = 0
      /\ \A y \in 1..m + 1 : dp[n + 1][y] = 0
      /\ \A x \in 1..n, y \in 1..m : dp[x][y] = Cell(dp, a, b, x, y)
  BY <1>1, <1>5 DEF TableInv, TableFull, Filled
<1>7. kind = IF i > n THEN "add" ELSE IF j > m THEN "del"
             ELSE IF a[i] = b[j] THEN "equal"
             ELSE IF dp[i + 1][j] >= dp[i][j + 1] THEN "del" ELSE "add"
  BY <1>1, <1>2, <1>5 DEF NextKind
<1>8. kind \in {"equal", "del", "add"}
  BY <1>7
<1>9. /\ kind # "add" => i \in 1..n
      /\ kind # "del" => j \in 1..m
      /\ kind = "equal" => a[i] = b[j]
  BY <1>3, <1>7
<1>10. op = [kind |-> kind, line |-> IF kind = "add" THEN b[j] ELSE a[i]]
  BY <1>2 DEF Op
<1>11. op.kind = kind /\ op.line = IF kind = "add" THEN b[j] ELSE a[i]
  BY <1>10
<1>12. op.line \in Lines
  BY <1>1, <1>9, <1>11
<1>13. op \in Operations
  BY <1>8, <1>10, <1>11, <1>12 DEF Operations
<1>14. /\ op.kind # "add" => i \in 1..Len(a) /\ op.line = a[i]
       /\ op.kind # "del" => j \in 1..Len(b) /\ op.line = b[j]
  BY <1>1, <1>8, <1>9, <1>11
<1>15. PICK next : next = Append(ops, op)
  OBVIOUS
<1>16. /\ next \in Seq(Operations) /\ Len(next) = Len(ops) + 1 /\ Listed(next, a, b)
       /\ 1 + OldCount(next, Len(next)) = i + OldLines(op)
       /\ 1 + NewCount(next, Len(next)) = j + NewLines(op)
  <2>1. /\ i = 1 + OldCount(ops, Len(ops)) /\ j = 1 + NewCount(ops, Len(ops))
        /\ Listed(ops, a, b) /\ i \in Nat /\ j \in Nat /\ Len(a) \in Nat /\ Len(b) \in Nat
    BY <1>1, <1>2, <1>4 DEF WalkInv
  <2>2. LET t == Append(ops, op)
        IN  /\ t \in Seq(Operations) /\ Len(t) = Len(ops) + 1 /\ Listed(t, a, b)
            /\ 1 + OldCount(t, Len(t)) = i + OldLines(op)
            /\ 1 + NewCount(t, Len(t)) = j + NewLines(op)
    BY <1>13, <1>14, <2>1, ListedNext
  <2> QED
    BY <1>15, <2>2
<1>17. PICK u \in Int, v \in Int : u = i + OldLines(op) /\ v = j + NewLines(op)
  BY DEF OldLines, NewLines
<1>18. /\ kind = "equal" => u = i + 1 /\ v = j + 1
       /\ kind = "del" => u = i + 1 /\ v = j
       /\ kind = "add" => u = i /\ v = j + 1
  BY <1>11, <1>17 DEF OldLines, NewLines
<1>19. u \in 1..n + 1 /\ v \in 1..m + 1 /\ u >= i /\ v >= j /\ u + v >= i + j + 1
  BY <1>8, <1>9, <1>18
<1>20. Len(ops) \in Nat /\ Len(ops) <= (i - 1) + (j - 1)
  BY <1>2, <1>4 DEF WalkInv
<1>21. (i - 1) + (j - 1) - Len(ops) + dp[i][j] = dp[1][1]
  BY <1>2, <1>4, <1>5 DEF WalkInv
\* Of an equal line one less can be made common from here on; of a change no less.
<1>22. dp[i][j] = dp[u][v] + IF kind = "equal" THEN 1 ELSE 0
  <2>0. dp[u][v] \in Nat
    BY <1>6, <1>19, TableRead
  <2>1. CASE i \in 1..n /\ j \in 1..m
    <3>1. dp[i][j] = IF a[i] = b[j] THEN dp[i + 1][j + 1] + 1
                     ELSE IF dp[i + 1][j] >= dp[i][j + 1] THEN dp[i + 1][j] ELSE dp[i][j + 1]
      BY <1>6, <2>1 DEF Cell
    <3>2. kind = IF a[i] = b[j] THEN "equal"
                 ELSE IF dp[i + 1][j] >= dp[i][j + 1] THEN "del" ELSE "add"
      BY <1>7, <2>1
    <3> QED
      BY <1>18, <2>0, <3>1, <3>2
  <2>2. CASE ~(i \in 1..n)
    <3>1. i = n + 1 /\ kind = "add" /\ u = n + 1
      BY <1>7, <1>18, <2>2
    <3>2. dp[i][j] = 0 /\ dp[u][v] = 0
      BY <1>6, <1>19, <3>1
    <3> QED
      BY <3>1, <3>2
  <2>3. CASE i \in 1..n /\ ~(j \in 1..m)
    <3>1. j = m + 1 /\ kind = "del" /\ v = m + 1
      BY <1>7, <1>18, <2>3
    <3>2. dp[i][j] = 0 /\ dp[u][v] = 0
      BY <1>6, <1>19, <3>1
    <3> QED
      BY <3>1, <3>2
  <2> QED
    BY <2>1, <2>2, <2>3
<1>23. (u - 1) + (v - 1) - (Len(ops) + 1) + dp[u][v] = dp[1][1]
  <2>1. PICK c \in Nat : c = dp[u][v]
    BY <1>6, <1>19, TableRead
  <2>2. PICK l \in Nat : l = Len(ops)
    BY <1>20
  <2>3. (i - 1) + (j - 1) - l + (c + IF kind = "equal" THEN 1 ELSE 0) = dp[1][1]
    BY <1>21, <1>22, <2>1, <2>2
  <2>4. (u - 1) + (v - 1) - (l + 1) + c = dp[1][1]
    BY <1>8, <1>18, <2>3
  <2> QED
    BY <2>1, <2>2, <2>4
<1>24. /\ e.ops = next /\ e.i = u /\ e.j = v /\ e.dp = dp /\ TableFull(e)
  BY <1>2, <1>4, <1>5, <1>15, <1>17 DEF TableFull
<1>25. /\ e.i \in 1..Len(a) + 1 /\ e.j \in 1..Len(b) + 1
       /\ Len(e.ops) <= (e.i - 1) + (e.j - 1)
       /\ (e.i - 1) + (e.j - 1) - Len(e.ops) + e.dp[e.i][e.j] = e.dp[1][1]
  <2>1. Len(e.ops) = Len(ops) + 1
    BY <1>16, <1>24
  <2>2. Len(e.ops) <= (u - 1) + (v - 1)
    BY <1>19, <1>20, <2>1
  <2>3. (u - 1) + (v - 1) - Len(e.ops) + dp[u][v] = dp[1][1]
    BY <1>23, <2>1
  <2> QED
    BY <1>1, <1>19, <1>24, <2>2, <2>3
<1> QED
  BY <1>16, <1>17, <1>24, <1>25 DEF WalkInv

Hunks == [aStart : Nat, aLen : Nat, bStart : Nat, bLen : Nat, lines : Seq(Operations)]
Scans == [hunks : Seq(Hunks), open : BOOLEAN, pending : Seq(Operations), aLine : Nat, bLine : Nat]

\* A list has a first and a last change.
Spanned(ops) ==
  LET changed == Changed(ops)
  IN  /\ changed # {} /\ Min(changed) \in changed /\ Max(changed) \in changed
      /\ \A x \in changed : Min(changed) <= x /\ x <= Max(changed)

\* A member that bounds a set is its least or greatest.
LEMMA MinMax ==
  ASSUME NEW S \in SUBSET Int, NEW m \in S
  PROVE  /\ (\A y \in S : m <= y) => Min(S) = m
         /\ (\A y \in S : y <= m) => Max(S) = m
<1>1. ASSUME \A y \in S : m <= y PROVE Min(S) = m
  <2>1. \A x \in S : (\A y \in S : x <= y) => x = m
    BY <1>1
  <2> QED
    BY <1>1, <2>1 DEF Min
<1>2. ASSUME \A y \in S : y <= m PROVE Max(S) = m
  <2>1. \A x \in S : (\A y \in S : x >= y) => x = m
    BY <1>2
  <2>2. \A y \in S : m >= y
    BY <1>2
  <2> QED
    BY <2>1, <2>2 DEF Max
<1> QED
  BY <1>1, <1>2

\* What an operation at the end of a list changes.
LEMMA AppendOp ==
  ASSUME NEW ops \in Seq(Operations), NEW op \in Operations
  PROVE  LET next == Append(ops, op)
         IN  /\ next \in Seq(Operations) /\ Len(next) = Len(ops) + 1
             /\ \A x \in 1..Len(ops) : next[x] = ops[x]
             /\ next[Len(ops) + 1] = op
             /\ Changed(next) = IF op.kind = "equal" THEN Changed(ops)
                                ELSE Changed(ops) \cup {Len(ops) + 1}
             /\ Changed(ops) \in SUBSET (1..Len(ops))
<1>0. PICK next : next = Append(ops, op)
  OBVIOUS
<1>1. /\ next \in Seq(Operations) /\ Len(next) = Len(ops) + 1
      /\ \A x \in 1..Len(ops) : next[x] = ops[x]
      /\ next[Len(ops) + 1] = op
  BY <1>0
<1>2. DOMAIN next = 1..Len(ops) + 1 /\ DOMAIN ops = 1..Len(ops)
  BY <1>1
<1>3. Changed(ops) = {x \in 1..Len(ops) : ops[x].kind # "equal"}
  BY <1>2 DEF Changed
<1>4. Changed(next) = {x \in 1..Len(ops) + 1 : next[x].kind # "equal"}
  BY <1>2 DEF Changed
<1>5. \A x : x \in 1..Len(ops) + 1 <=> x \in 1..Len(ops) \/ x = Len(ops) + 1
  OBVIOUS
<1>6. Len(ops) + 1 \notin 1..Len(ops)
  OBVIOUS
<1> QED
  BY <1>0, <1>1, <1>3, <1>4, <1>5, <1>6

\* What it does to the unchanged lines in front of the first change and after the last.
LEMMA AppendSpanned ==
  ASSUME NEW ops \in Seq(Operations), NEW op \in Operations, NEW next, next = Append(ops, op)
  PROVE  /\ Spanned(ops) => /\ Spanned(next) /\ Leading(next) = Leading(ops)
                            /\ Trailing(next) = IF op.kind = "equal" THEN Trailing(ops) + 1 ELSE 0
         /\ Changed(ops) = {} /\ op.kind # "equal" =>
              Spanned(next) /\ Leading(next) = Len(ops) /\ Trailing(next) = 0
<1>1. PICK l \in Nat : l = Len(ops)
  OBVIOUS
<1>2. PICK S, T : S = Changed(ops) /\ T = Changed(next)
  OBVIOUS
<1>3. /\ T = IF op.kind = "equal" THEN S ELSE S \cup {l + 1}
      /\ S \in SUBSET (1..l) /\ Len(next) = l + 1
  <2>1. LET t == Append(ops, op)
        IN  /\ t \in Seq(Operations) /\ Len(t) = Len(ops) + 1
            /\ \A x \in 1..Len(ops) : t[x] = ops[x]
            /\ t[Len(ops) + 1] = op
            /\ Changed(t) = IF op.kind = "equal" THEN Changed(ops)
                            ELSE Changed(ops) \cup {Len(ops) + 1}
            /\ Changed(ops) \in SUBSET (1..Len(ops))
    BY AppendOp
  <2> QED
    BY <1>1, <1>2, <2>1
<1>4. S \in SUBSET Int /\ T \in SUBSET Int
  BY <1>3
<1>5. ASSUME Spanned(ops)
      PROVE  /\ Spanned(next) /\ Leading(next) = Leading(ops)
             /\ Trailing(next) = IF op.kind = "equal" THEN Trailing(ops) + 1 ELSE 0
  <2>1. PICK p \in S, q \in S : p = Min(S) /\ q = Max(S) /\ \A x \in S : p <= x /\ x <= q
    BY <1>2, <1>5 DEF Spanned
  <2>2. p \in 1..l /\ q \in 1..l /\ p \in T /\ q \in T
    BY <1>3, <2>1
  <2>3. \A y \in T : p <= y
    BY <1>3, <2>1, <2>2
  <2>4. Min(T) = p
    BY <1>4, <2>2, <2>3, MinMax
  <2>5. Max(T) = IF op.kind = "equal" THEN q ELSE l + 1
    <3>1. CASE op.kind = "equal"
      BY <1>3, <2>1, <3>1
    <3>2. CASE op.kind # "equal"
      <4>1. l + 1 \in T /\ \A y \in T : y <= l + 1
        BY <1>3, <3>2
      <4>2. Max(T) = l + 1
        BY <1>4, <4>1, MinMax
      <4> QED
        BY <3>2, <4>2
    <3> QED
      BY <3>1, <3>2
  <2>6. Spanned(next)
    <3>1. PICK r : r = Max(T)
      OBVIOUS
    <3>2. r \in T /\ \A y \in T : y <= r
      <4>1. CASE op.kind = "equal"
        BY <1>3, <2>1, <2>5, <3>1, <4>1
      <4>2. CASE op.kind # "equal"
        <5>1. r = l + 1 /\ T = S \cup {l + 1}
          BY <1>3, <2>5, <3>1, <4>2
        <5>2. \A y \in S : y <= l + 1
          BY <1>3
        <5> QED
          BY <5>1, <5>2
      <4> QED
        BY <4>1, <4>2
    <3>3. T # {} /\ Min(T) \in T /\ Max(T) \in T /\ \A x \in T : Min(T) <= x /\ x <= Max(T)
      BY <2>2, <2>3, <2>4, <3>1, <3>2
    <3> QED
      BY <1>2, <3>3 DEF Spanned
  <2>7. Leading(next) = Leading(ops)
    BY <1>2, <2>1, <2>4 DEF Leading
  <2>8. Trailing(ops) = l - q /\ Trailing(next) = (l + 1) - Max(T)
    <3>1. S # {} /\ T # {}
      BY <2>2
    <3> QED
      BY <1>1, <1>2, <1>3, <2>1, <3>1 DEF Trailing
  <2> QED
    BY <2>2, <2>5, <2>6, <2>7, <2>8
<1>6. ASSUME Changed(ops) = {}, op.kind # "equal"
      PROVE  Spanned(next) /\ Leading(next) = Len(ops) /\ Trailing(next) = 0
  <2>1. T = {l + 1}
    BY <1>2, <1>3, <1>6
  <2>2. l + 1 \in T /\ \A y \in T : l + 1 <= y /\ y <= l + 1
    BY <2>1
  <2>3. Min(T) = l + 1 /\ Max(T) = l + 1
    BY <1>4, <2>2, MinMax
  <2>4. Spanned(next)
    BY <1>2, <2>2, <2>3 DEF Spanned
  <2>5. Leading(next) = l /\ Trailing(next) = 0
    BY <1>2, <1>3, <2>1, <2>3 DEF Leading, Trailing
  <2> QED
    BY <1>1, <2>4, <2>5
<1> QED
  BY <1>5, <1>6

\* Equal lines taken off the end of a list.
LEMMA CutSpanned ==
  ASSUME NEW ops \in Seq(Operations), Spanned(ops), NEW n \in Nat, n <= Trailing(ops),
         NEW next, next = SubSeq(ops, 1, Len(ops) - n)
  PROVE  /\ next \in Seq(Operations) /\ Len(next) = Len(ops) - n /\ Len(next) \in Nat
         /\ \A x \in 1..Len(next) : next[x] = ops[x]
         /\ \A x \in Len(next) + 1..Len(ops) : ops[x].kind = "equal"
         /\ Spanned(next) /\ Leading(next) = Leading(ops) /\ Changed(next) = Changed(ops)
         /\ Trailing(next) = Trailing(ops) - n
<1>1. PICK l \in Nat : l = Len(ops)
  OBVIOUS
<1>2. PICK S : S = Changed(ops)
  OBVIOUS
<1>3. S = {x \in 1..l : ops[x].kind # "equal"}
  BY <1>1, <1>2 DEF Changed
<1>4. PICK q \in S : q = Max(S) /\ \A x \in S : x <= q
  BY <1>2 DEF Spanned
<1>5. q \in 1..l /\ Trailing(ops) = l - q
  BY <1>1, <1>2, <1>3, <1>4 DEF Trailing
<1>6. l - n \in Nat /\ l - n >= q /\ l - n <= l
  BY <1>5
<1>7. /\ next \in Seq(Operations) /\ Len(next) = l - n
      /\ \A x \in 1..l - n : next[x] = ops[x]
  BY <1>1, <1>6
<1>8. \A x \in l - n + 1..l : ops[x].kind = "equal"
  <2>1. \A x \in l - n + 1..l : x \in 1..l /\ ~(x <= q)
    BY <1>5, <1>6
  <2> QED
    BY <1>3, <1>4, <2>1
<1>9. Changed(next) = S
  <2>1. Changed(next) = {x \in 1..l - n : next[x].kind # "equal"}
    BY <1>7 DEF Changed
  <2>2. \A x : x \in 1..l <=> x \in 1..l - n \/ x \in l - n + 1..l
    BY <1>6
  <2> QED
    BY <1>3, <1>7, <1>8, <2>1, <2>2
<1>10. Spanned(next) /\ Leading(next) = Leading(ops)
  BY <1>2, <1>9 DEF Spanned, Leading
<1>11. Trailing(next) = (l - n) - q
  BY <1>4, <1>7, <1>9 DEF Trailing
<1> QED
  BY <1>1, <1>2, <1>5, <1>6, <1>7, <1>8, <1>9, <1>10, <1>11

\* The pending lines are the ones in front of the scan's place.
PendingInv(s, a, b) ==
  \A x \in 1..Len(s.pending) :
    LET back == Len(s.pending) + 1 - x
    IN  /\ s.pending[x].kind = "equal"
        /\ s.aLine - back \in 1..Len(a) /\ s.pending[x].line = a[s.aLine - back]
        /\ s.bLine - back \in 1..Len(b) /\ s.pending[x].line = b[s.bLine - back]

\* The fields of a hunk.
LEMMA HunkFields ==
  ASSUME NEW h \in Hunks
  PROVE  /\ h.aStart \in Nat /\ h.aLen \in Nat /\ h.bStart \in Nat /\ h.bLen \in Nat
         /\ h.lines \in Seq(Operations)
         /\ h = [aStart |-> h.aStart, aLen |-> h.aLen, bStart |-> h.bStart, bLen |-> h.bLen,
                 lines |-> h.lines]
BY DEF Hunks

LEMMA HunkOf ==
  ASSUME NEW aStart \in Nat, NEW aLen \in Nat, NEW bStart \in Nat, NEW bLen \in Nat,
         NEW lines \in Seq(Operations)
  PROVE  [aStart |-> aStart, aLen |-> aLen, bStart |-> bStart, bLen |-> bLen, lines |-> lines]
           \in Hunks
BY DEF Hunks

\* A hunk is still a piece of both files with the next line of each it is extended by,
LEMMA ExtendedPiece ==
  ASSUME NEW a, NEW b, NEW h \in Hunks, PieceOf(h, a, b), NEW op \in Operations,
         op.kind # "add" => h.aStart + h.aLen \in DOMAIN a /\ op.line = a[h.aStart + h.aLen],
         op.kind # "del" => h.bStart + h.bLen \in DOMAIN b /\ op.line = b[h.bStart + h.bLen]
  PROVE  LET g == Extended(h, op)
         IN  /\ g \in Hunks /\ PieceOf(g, a, b) /\ g.lines = Append(h.lines, op)
             /\ g.aStart = h.aStart /\ g.aLen = h.aLen + OldLines(op)
             /\ g.bStart = h.bStart /\ g.bLen = h.bLen + NewLines(op)
<1>1. PICK g : g = Extended(h, op)
  OBVIOUS
<1>2. PICK lines \in Seq(Operations), l \in Nat : lines = h.lines /\ l = Len(lines)
  BY HunkFields
<1>3. PICK next : next = Append(lines, op)
  OBVIOUS
<1>4. /\ next \in Seq(Operations) /\ Len(next) = l + 1 /\ next[l + 1] = op
      /\ \A x \in 1..l : next[x] = lines[x]
  BY <1>2, <1>3
<1>5. g = [aStart |-> h.aStart, aLen |-> h.aLen + OldLines(op),
           bStart |-> h.bStart, bLen |-> h.bLen + NewLines(op), lines |-> next]
  <2>1. PICK p, q, r, t :
          h = [aStart |-> p, aLen |-> q, bStart |-> r, bLen |-> t, lines |-> lines]
    BY <1>2, HunkFields
  <2>2. g = [aStart |-> p, aLen |-> q + OldLines(op), bStart |-> r, bLen |-> t + NewLines(op),
             lines |-> next]
    BY <1>1, <1>3, <2>1 DEF Extended
  <2>3. h.aStart = p /\ h.aLen = q /\ h.bStart = r /\ h.bLen = t
    BY <2>1
  <2> QED
    BY <2>2, <2>3
<1>6. /\ g.lines = next
      /\ g.aStart = h.aStart /\ g.aLen = h.aLen + OldLines(op)
      /\ g.bStart = h.bStart /\ g.bLen = h.bLen + NewLines(op)
  BY <1>5
<1>7. OldLines(op) \in Nat /\ NewLines(op) \in Nat
  BY DEF OldLines, NewLines
<1>8. g \in Hunks
  <2>1. h.aLen + OldLines(op) \in Nat /\ h.bLen + NewLines(op) \in Nat
    BY <1>7, HunkFields
  <2> QED
    BY <1>4, <1>5, <2>1, HunkFields, HunkOf
<1>9. ASSUME NEW q \in 1..l + 1
      PROVE  OldCount(next, q - 1) = OldCount(lines, q - 1) /\ NewCount(next, q - 1) = NewCount(lines, q - 1)
  <2>1. q - 1 \in Nat /\ \A x \in 1..q - 1 : next[x] = lines[x]
    BY <1>4
  <2> QED
    BY <2>1, CountSame
<1>10. OldCount(next, l) = h.aLen /\ NewCount(next, l) = h.bLen
  <2>1. l + 1 \in 1..l + 1 /\ (l + 1) - 1 = l
    OBVIOUS
  <2>2. h.aLen = OldCount(lines, l) /\ h.bLen = NewCount(lines, l)
    BY <1>2 DEF PieceOf
  <2> QED
    BY <1>9, <2>1, <2>2
<1>11. /\ OldCount(next, l + 1) = h.aLen + OldLines(op)
       /\ NewCount(next, l + 1) = h.bLen + NewLines(op)
  BY <1>4, <1>10, CountNext
<1>12. ASSUME NEW x \in 1..l + 1
       PROVE  /\ next[x].kind # "add" => /\ h.aStart + OldCount(next, x - 1) \in DOMAIN a
                                        /\ next[x].line = a[h.aStart + OldCount(next, x - 1)]
              /\ next[x].kind # "del" => /\ h.bStart + NewCount(next, x - 1) \in DOMAIN b
                                        /\ next[x].line = b[h.bStart + NewCount(next, x - 1)]
  <2>1. CASE x = l + 1
    <3>1. next[x] = op /\ x - 1 = l
      BY <1>4, <2>1
    <3> QED
      BY <1>10, <3>1
  <2>2. CASE x # l + 1
    <3>1. x \in 1..l
      BY <2>2
    <3>2. next[x] = lines[x]
      BY <1>4, <3>1
    <3> QED
      BY <1>2, <1>9, <3>1, <3>2 DEF PieceOf
  <2> QED
    BY <2>1, <2>2
<1>13. PieceOf(g, a, b)
  BY <1>4, <1>6, <1>11, <1>12 DEF PieceOf
<1> QED
  BY <1>1, <1>2, <1>3, <1>6, <1>8, <1>13

\* with unchanged lines trimmed off its end,
LEMMA TrimmedPiece ==
  ASSUME NEW a, NEW b, NEW h \in Hunks, PieceOf(h, a, b), Spanned(h.lines),
         NEW n \in Nat, n <= Trailing(h.lines)
  PROVE  LET g == Trimmed(h, n)
         IN  /\ g \in Hunks /\ PieceOf(g, a, b)
             /\ g.lines = SubSeq(h.lines, 1, Len(h.lines) - n)
             /\ g.aStart = h.aStart /\ g.aLen = h.aLen - n
             /\ g.bStart = h.bStart /\ g.bLen = h.bLen - n
             /\ \A x \in 0..n - 1 :
                  /\ g.aStart + g.aLen + x \in DOMAIN a /\ g.bStart + g.bLen + x \in DOMAIN b
                  /\ a[g.aStart + g.aLen + x] = b[g.bStart + g.bLen + x]
<1>1. PICK g : g = Trimmed(h, n)
  OBVIOUS
<1>2. PICK lines \in Seq(Operations), l \in Nat : lines = h.lines /\ l = Len(lines)
  BY HunkFields
<1>3. PICK next : next = SubSeq(lines, 1, Len(lines) - n)
  OBVIOUS
<1>4. PICK k \in Nat : k = l - n
  <2>1. Len(lines) - n \in Nat
    BY <1>2, CutSpanned
  <2> QED
    BY <1>2, <2>1
<1>5. /\ next \in Seq(Operations) /\ Len(next) = k
      /\ \A x \in 1..k : next[x] = lines[x]
      /\ \A x \in k + 1..l : lines[x].kind = "equal"
  <2>1. /\ next \in Seq(Operations) /\ Len(next) = Len(lines) - n /\ Len(next) \in Nat
        /\ \A x \in 1..Len(next) : next[x] = lines[x]
        /\ \A x \in Len(next) + 1..Len(lines) : lines[x].kind = "equal"
    BY <1>2, <1>3, CutSpanned
  <2> QED
    BY <1>2, <1>4, <2>1
<1>6. g = [aStart |-> h.aStart, aLen |-> h.aLen - n, bStart |-> h.bStart, bLen |-> h.bLen - n,
           lines |-> next]
  <2>1. PICK p, q, r, t :
          h = [aStart |-> p, aLen |-> q, bStart |-> r, bLen |-> t, lines |-> lines]
    BY <1>2, HunkFields
  <2>2. g = [aStart |-> p, aLen |-> q - n, bStart |-> r, bLen |-> t - n, lines |-> next]
    BY <1>1, <1>3, <2>1 DEF Trimmed
  <2>3. h.aStart = p /\ h.aLen = q /\ h.bStart = r /\ h.bLen = t
    BY <2>1
  <2> QED
    BY <2>2, <2>3
<1>7. /\ g.lines = next /\ g.aStart = h.aStart /\ g.aLen = h.aLen - n
      /\ g.bStart = h.bStart /\ g.bLen = h.bLen - n
  BY <1>6
<1>8. OldCount(lines, k) \in Nat /\ NewCount(lines, k) \in Nat
  BY CountNext
<1>9. ASSUME NEW x \in 0..n
      PROVE  /\ OldCount(lines, k + x) = OldCount(lines, k) + x
             /\ NewCount(lines, k + x) = NewCount(lines, k) + x
  <2>1. k + x \in Nat /\ k <= k + x /\ (k + x) - k = x
    OBVIOUS
  <2>2. \A y \in k + 1..k + x : lines[y].kind = "equal"
    BY <1>4, <1>5
  <2>3. /\ OldCount(lines, k + x) = OldCount(lines, k) + ((k + x) - k)
        /\ NewCount(lines, k + x) = NewCount(lines, k) + ((k + x) - k)
    BY <2>1, <2>2, CountEqual
  <2> QED
    BY <2>1, <2>3
<1>10. h.aLen - n = OldCount(lines, k) /\ h.bLen - n = NewCount(lines, k)
  <2>1. n \in 0..n /\ k + n = l
    BY <1>4
  <2>2. h.aLen = OldCount(lines, l) /\ h.bLen = NewCount(lines, l)
    BY <1>2 DEF PieceOf
  <2> QED
    <3>1. /\ OldCount(lines, k + n) = OldCount(lines, k) + n
          /\ NewCount(lines, k + n) = NewCount(lines, k) + n
      BY <1>9, <2>1
    <3> QED
      BY <1>8, <2>1, <2>2, <3>1
<1>11. \A q \in 0..k :
         OldCount(next, q) = OldCount(lines, q) /\ NewCount(next, q) = NewCount(lines, q)
  <2> TAKE q \in 0..k
  <2>1. q \in Nat /\ \A x \in 1..q : next[x] = lines[x]
    BY <1>5
  <2> QED
    BY <2>1, CountSame
<1>12. g \in Hunks
  BY <1>5, <1>6, <1>8, <1>10, HunkFields, HunkOf
<1>13. ASSUME NEW x \in 1..l
       PROVE  /\ lines[x].kind # "add" => /\ h.aStart + OldCount(lines, x - 1) \in DOMAIN a
                                         /\ lines[x].line = a[h.aStart + OldCount(lines, x - 1)]
              /\ lines[x].kind # "del" => /\ h.bStart + NewCount(lines, x - 1) \in DOMAIN b
                                         /\ lines[x].line = b[h.bStart + NewCount(lines, x - 1)]
  BY <1>2 DEF PieceOf
<1>14. PieceOf(g, a, b)
  <2>1. /\ g.aLen = OldCount(next, k) /\ g.bLen = NewCount(next, k)
    <3>1. k \in 0..k
      OBVIOUS
    <3> QED
      BY <1>7, <1>10, <1>11, <3>1
  <2>2. ASSUME NEW x \in 1..k
        PROVE  /\ next[x].kind # "add" => /\ h.aStart + OldCount(next, x - 1) \in DOMAIN a
                                         /\ next[x].line = a[h.aStart + OldCount(next, x - 1)]
               /\ next[x].kind # "del" => /\ h.bStart + NewCount(next, x - 1) \in DOMAIN b
                                         /\ next[x].line = b[h.bStart + NewCount(next, x - 1)]
    <3>1. x \in 1..l /\ x - 1 \in 0..k
      BY <1>4
    <3> QED
      BY <1>5, <1>11, <1>13, <3>1
  <2> QED
    BY <1>5, <1>7, <2>1, <2>2 DEF PieceOf
<1>15. ASSUME NEW x \in 0..n - 1
       PROVE  /\ g.aStart + g.aLen + x \in DOMAIN a /\ g.bStart + g.bLen + x \in DOMAIN b
              /\ a[g.aStart + g.aLen + x] = b[g.bStart + g.bLen + x]
  <2>1. PICK y \in 1..l : y = k + x + 1
    BY <1>4
  <2>2. lines[y].kind = "equal" /\ y - 1 = k + x /\ x \in 0..n
    BY <1>4, <1>5, <2>1
  <2>3. /\ h.aStart + OldCount(lines, y - 1) = g.aStart + g.aLen + x
        /\ h.bStart + NewCount(lines, y - 1) = g.bStart + g.bLen + x
    <3>1. /\ OldCount(lines, k + x) = OldCount(lines, k) + x
          /\ NewCount(lines, k + x) = NewCount(lines, k) + x
      BY <1>9, <2>2
    <3>2. g.aLen = OldCount(lines, k) /\ g.bLen = NewCount(lines, k)
      BY <1>7, <1>10
    <3>3. h.aStart \in Nat /\ h.bStart \in Nat
      BY HunkFields
    <3> QED
      BY <1>7, <1>8, <2>2, <3>1, <3>2, <3>3
  <2> QED
    BY <1>13, <2>2, <2>3
<1> QED
  BY <1>1, <1>2, <1>3, <1>7, <1>12, <1>14, <1>15

\* and when the pending lines make it.
LEMMA OpenedPiece ==
  ASSUME NEW a \in Seq(Lines), NEW b \in Seq(Lines), NEW s, s.pending \in Seq(Operations),
         s.aLine \in Nat, s.bLine \in Nat, PendingInv(s, a, b),
         s.aLine - Len(s.pending) >= 1, s.bLine - Len(s.pending) >= 1
  PROVE  LET h == Opened(s)
         IN  /\ h \in Hunks /\ PieceOf(h, a, b) /\ h.lines = s.pending /\ Changed(h.lines) = {}
             /\ h.aStart = s.aLine - Len(s.pending) /\ h.aLen = Len(s.pending)
             /\ h.bStart = s.bLine - Len(s.pending) /\ h.bLen = Len(s.pending)
<1>1. PICK h : h = Opened(s)
  OBVIOUS
<1>2. PICK lines \in Seq(Operations), l \in Nat : lines = s.pending /\ l = Len(lines)
  OBVIOUS
<1>3. PICK p \in Nat, q \in Nat : p = s.aLine - l /\ q = s.bLine - l
  BY <1>2
<1>4. AtLeastOne(p) = p /\ AtLeastOne(q) = q
  BY <1>2, <1>3 DEF AtLeastOne
<1>5. h = [aStart |-> p, aLen |-> l, bStart |-> q, bLen |-> l, lines |-> lines]
  BY <1>1, <1>2, <1>3, <1>4 DEF Opened
<1>6. h.aStart = p /\ h.aLen = l /\ h.bStart = q /\ h.bLen = l /\ h.lines = lines
  BY <1>5
<1>7. h \in Hunks
  BY <1>5, HunkOf
<1>8. ASSUME NEW x \in 1..l
      PROVE  /\ lines[x].kind = "equal"
             /\ p + (x - 1) \in 1..Len(a) /\ lines[x].line = a[p + (x - 1)]
             /\ q + (x - 1) \in 1..Len(b) /\ lines[x].line = b[q + (x - 1)]
  <2>1. /\ lines[x].kind = "equal"
        /\ s.aLine - (l + 1 - x) \in 1..Len(a) /\ lines[x].line = a[s.aLine - (l + 1 - x)]
        /\ s.bLine - (l + 1 - x) \in 1..Len(b) /\ lines[x].line = b[s.bLine - (l + 1 - x)]
    BY <1>2 DEF PendingInv
  <2>2. s.aLine - (l + 1 - x) = p + (x - 1) /\ s.bLine - (l + 1 - x) = q + (x - 1)
    <3>1. PICK u \in Nat, v \in Nat : u = s.aLine /\ v = s.bLine
      OBVIOUS
    <3>2. p = u - l /\ q = v - l
      BY <1>3, <3>1
    <3>3. u - (l + 1 - x) = p + (x - 1) /\ v - (l + 1 - x) = q + (x - 1)
      BY <3>2
    <3> QED
      BY <3>1, <3>3
  <2> QED
    BY <2>1, <2>2
<1>9. ASSUME NEW x \in 0..l
      PROVE  OldCount(lines, x) = x /\ NewCount(lines, x) = x
  <2>1. \A y \in 0 + 1..x : lines[y].kind = "equal"
    BY <1>8
  <2>2. /\ OldCount(lines, x) = OldCount(lines, 0) + (x - 0)
        /\ NewCount(lines, x) = NewCount(lines, 0) + (x - 0)
    <3>1. 0 \in Nat /\ x \in Nat /\ 0 <= x
      OBVIOUS
    <3> QED
      BY <2>1, <3>1, CountEqual
  <2>3. OldCount(lines, 0) = 0 /\ NewCount(lines, 0) = 0
    BY CountStart
  <2> QED
    BY <2>2, <2>3
<1>10. Changed(lines) = {}
  BY <1>2, <1>8 DEF Changed
<1>11. PieceOf(h, a, b)
  <2>1. h.aLen = OldCount(lines, l) /\ h.bLen = NewCount(lines, l)
    <3>1. l \in 0..l
      OBVIOUS
    <3> QED
      BY <1>6, <1>9, <3>1
  <2>2. DOMAIN a = 1..Len(a) /\ DOMAIN b = 1..Len(b)
    OBVIOUS
  <2>3. ASSUME NEW x \in 1..l
        PROVE  /\ p + OldCount(lines, x - 1) \in DOMAIN a
               /\ lines[x].line = a[p + OldCount(lines, x - 1)]
               /\ q + NewCount(lines, x - 1) \in DOMAIN b
               /\ lines[x].line = b[q + NewCount(lines, x - 1)]
    <3>1. x - 1 \in 0..l
      OBVIOUS
    <3>2. OldCount(lines, x - 1) = x - 1 /\ NewCount(lines, x - 1) = x - 1
      BY <1>9, <3>1
    <3> QED
      BY <1>8, <2>2, <3>2
  <2> QED
    BY <1>2, <1>6, <2>1, <2>3 DEF PieceOf
<1> QED
  BY <1>1, <1>2, <1>3, <1>6, <1>7, <1>10, <1>11

\* Outside a hunk: equal lines since the last one closed, Context of which are pending.
ClosedInv(s, a, b) ==
  LET from == GapFrom(s.hunks, Len(s.hunks) + 1)
      seen == s.aLine - from[1] - (IF s.hunks = <<>> THEN 0 ELSE Context)
  IN  /\ Agree(from, <<s.aLine, s.bLine>>, a, b) /\ PendingInv(s, a, b)
      /\ seen >= 0 /\ Len(s.pending) = IF seen < Context THEN seen ELSE Context

OpenInv(s) ==
  s.hunks # <<>> /\ EndOf(s.hunks[Len(s.hunks)]) = <<s.aLine, s.bLine>> /\ s.pending = <<>>

HunkInv(hunks, k, open, a, b) ==
  /\ PieceOf(hunks[k], a, b) /\ Spanned(hunks[k].lines)
  /\ hunks[k].aStart >= 1 /\ hunks[k].bStart >= 1
  /\ Agree(GapFrom(hunks, k), StartOf(hunks[k]), a, b) /\ LeadKept(hunks, k)
  /\ IF open /\ k = Len(hunks) THEN Trailing(hunks[k].lines) < 2 * Context
     ELSE Trailing(hunks[k].lines) = Context

HunksInv(hunks, open, a, b) == \A k \in 1..Len(hunks) : HunkInv(hunks, k, open, a, b)

ScanInv(s, a, b) ==
  /\ s \in Scans /\ HunksInv(s.hunks, s.open, a, b)
  /\ IF s.open THEN OpenInv(s) ELSE ClosedInv(s, a, b)

\* From lines f and g to lines u and v.
AgreeAt(f, g, u, v, a, b) ==
  /\ u >= f /\ v - g = u - f
  /\ \A x \in 0..u - f - 1 : f + x \in DOMAIN a /\ g + x \in DOMAIN b /\ a[f + x] = b[g + x]

\* Agree, in numbers.
LEMMA AgreeIs ==
  ASSUME NEW a, NEW b, NEW from, NEW to, from[1] \in Int, from[2] \in Int,
         to[1] \in Int, to[2] \in Int
  PROVE  Agree(from, to, a, b) <=> AgreeAt(from[1], from[2], to[1], to[2], a, b)
<1>1. PICK f \in Int, g \in Int, u \in Int, v \in Int :
        f = from[1] /\ g = from[2] /\ u = to[1] /\ v = to[2]
  OBVIOUS
<1>2. u - f >= 0 <=> u >= f
  OBVIOUS
<1> QED
  BY <1>1, <1>2 DEF Agree, AgreeAt

\* Agreement goes on with a common line, and lines at its end can be left out.
LEMMA AgreeMoved ==
  ASSUME NEW a, NEW b, NEW f \in Int, NEW g \in Int, NEW u \in Int, NEW v \in Int,
         AgreeAt(f, g, u, v, a, b)
  PROVE  /\ u >= f /\ v - g = u - f
         /\ u \in DOMAIN a /\ v \in DOMAIN b /\ a[u] = b[v] => AgreeAt(f, g, u + 1, v + 1, a, b)
         /\ \A n \in Nat : n <= u - f => AgreeAt(f, g, u - n, v - n, a, b)
<1>1. /\ u >= f /\ v - g = u - f
      /\ \A x \in 0..u - f - 1 : f + x \in DOMAIN a /\ g + x \in DOMAIN b /\ a[f + x] = b[g + x]
  BY DEF AgreeAt
<1>2. ASSUME u \in DOMAIN a, v \in DOMAIN b, a[u] = b[v]
      PROVE  AgreeAt(f, g, u + 1, v + 1, a, b)
  <2>1. ASSUME NEW x \in 0..u + 1 - f - 1
        PROVE  f + x \in DOMAIN a /\ g + x \in DOMAIN b /\ a[f + x] = b[g + x]
    <3>1. x \in 0..u - f - 1 \/ (f + x = u /\ g + x = v)
      BY <1>1
    <3> QED
      BY <1>1, <1>2, <3>1
  <2>2. u + 1 >= f /\ v + 1 - g = u + 1 - f
    BY <1>1
  <2> QED
    BY <2>1, <2>2 DEF AgreeAt
<1>3. ASSUME NEW n \in Nat, n <= u - f
      PROVE  AgreeAt(f, g, u - n, v - n, a, b)
  <2>1. \A x \in 0..u - n - f - 1 : x \in 0..u - f - 1
    OBVIOUS
  <2>2. u - n >= f /\ v - n - g = u - n - f
    BY <1>1, <1>3
  <2> QED
    BY <1>1, <2>1, <2>2 DEF AgreeAt
<1> QED
  BY <1>1, <1>2, <1>3

\* The lines of the hunk that an operation extends.
LEMMA HunkExtended ==
  ASSUME NEW a, NEW b, NEW h \in Hunks, PieceOf(h, a, b), Spanned(h.lines),
         NEW op \in Operations,
         op.kind # "add" => h.aStart + h.aLen \in DOMAIN a /\ op.line = a[h.aStart + h.aLen],
         op.kind # "del" => h.bStart + h.bLen \in DOMAIN b /\ op.line = b[h.bStart + h.bLen]
  PROVE  LET g == Extended(h, op)
         IN  /\ g \in Hunks /\ PieceOf(g, a, b) /\ Spanned(g.lines)
             /\ g.aStart = h.aStart /\ g.bStart = h.bStart
             /\ g.aLen = h.aLen + OldLines(op) /\ g.bLen = h.bLen + NewLines(op)
             /\ Leading(g.lines) = Leading(h.lines)
             /\ Trailing(g.lines) = IF op.kind = "equal" THEN Trailing(h.lines) + 1 ELSE 0
             /\ Changed(g.lines) = IF op.kind = "equal" THEN Changed(h.lines)
                                   ELSE Changed(h.lines) \cup {Len(h.lines) + 1}
             /\ Len(h.lines) + 1 \notin Changed(h.lines)
<1>1. PICK g : g = Extended(h, op)
  OBVIOUS
<1>2. /\ g \in Hunks /\ PieceOf(g, a, b) /\ g.lines = Append(h.lines, op)
      /\ g.aStart = h.aStart /\ g.aLen = h.aLen + OldLines(op)
      /\ g.bStart = h.bStart /\ g.bLen = h.bLen + NewLines(op)
  <2>1. LET e == Extended(h, op)
        IN  /\ e \in Hunks /\ PieceOf(e, a, b) /\ e.lines = Append(h.lines, op)
            /\ e.aStart = h.aStart /\ e.aLen = h.aLen + OldLines(op)
            /\ e.bStart = h.bStart /\ e.bLen = h.bLen + NewLines(op)
    BY ExtendedPiece
  <2> QED
    BY <1>1, <2>1
<1>3. PICK lines \in Seq(Operations) : lines = h.lines
  BY HunkFields
<1>4. g.lines = Append(lines, op) /\ Spanned(lines)
  BY <1>2, <1>3
<1>5. /\ Spanned(g.lines) /\ Leading(g.lines) = Leading(lines)
      /\ Trailing(g.lines) = IF op.kind = "equal" THEN Trailing(lines) + 1 ELSE 0
  BY <1>4, AppendSpanned
<1>6. /\ Changed(g.lines) = IF op.kind = "equal" THEN Changed(lines)
                            ELSE Changed(lines) \cup {Len(lines) + 1}
      /\ Changed(lines) \in SUBSET (1..Len(lines))
  <2>1. LET t == Append(lines, op)
        IN  /\ t \in Seq(Operations) /\ Len(t) = Len(lines) + 1
            /\ \A x \in 1..Len(lines) : t[x] = lines[x]
            /\ t[Len(lines) + 1] = op
            /\ Changed(t) = IF op.kind = "equal" THEN Changed(lines)
                            ELSE Changed(lines) \cup {Len(lines) + 1}
            /\ Changed(lines) \in SUBSET (1..Len(lines))
    BY AppendOp
  <2> QED
    BY <1>4, <2>1
<1>7. Len(lines) + 1 \notin Changed(lines)
  BY <1>6
<1> QED
  BY <1>1, <1>2, <1>3, <1>5, <1>6, <1>7

\* The lines of the hunk that is trimmed.
LEMMA HunkTrimmed ==
  ASSUME NEW a, NEW b, NEW h \in Hunks, PieceOf(h, a, b), Spanned(h.lines),
         NEW n \in Nat, n <= Trailing(h.lines)
  PROVE  LET g == Trimmed(h, n)
         IN  /\ g \in Hunks /\ PieceOf(g, a, b) /\ Spanned(g.lines)
             /\ g.aStart = h.aStart /\ g.bStart = h.bStart
             /\ Leading(g.lines) = Leading(h.lines) /\ Trailing(g.lines) = Trailing(h.lines) - n
             /\ Changed(g.lines) = Changed(h.lines)
             /\ g.aLen = h.aLen - n /\ g.bLen = h.bLen - n
             /\ Agree(EndOf(g), EndOf(h), a, b)
<1>1. PICK g : g = Trimmed(h, n)
  OBVIOUS
<1>2. /\ g \in Hunks /\ PieceOf(g, a, b)
      /\ g.lines = SubSeq(h.lines, 1, Len(h.lines) - n)
      /\ g.aStart = h.aStart /\ g.aLen = h.aLen - n
      /\ g.bStart = h.bStart /\ g.bLen = h.bLen - n
      /\ \A x \in 0..n - 1 :
           /\ g.aStart + g.aLen + x \in DOMAIN a /\ g.bStart + g.bLen + x \in DOMAIN b
           /\ a[g.aStart + g.aLen + x] = b[g.bStart + g.bLen + x]
  <2>1. LET e == Trimmed(h, n)
        IN  /\ e \in Hunks /\ PieceOf(e, a, b)
            /\ e.lines = SubSeq(h.lines, 1, Len(h.lines) - n)
            /\ e.aStart = h.aStart /\ e.aLen = h.aLen - n
            /\ e.bStart = h.bStart /\ e.bLen = h.bLen - n
            /\ \A x \in 0..n - 1 :
                 /\ e.aStart + e.aLen + x \in DOMAIN a /\ e.bStart + e.bLen + x \in DOMAIN b
                 /\ a[e.aStart + e.aLen + x] = b[e.bStart + e.bLen + x]
    BY TrimmedPiece
  <2> QED
    BY <1>1, <2>1
<1>3. PICK lines \in Seq(Operations) : lines = h.lines
  BY HunkFields
<1>4. /\ Spanned(g.lines) /\ Leading(g.lines) = Leading(lines) /\ Changed(g.lines) = Changed(lines)
      /\ Trailing(g.lines) = Trailing(lines) - n
  BY <1>2, <1>3, CutSpanned
<1>5. Agree(EndOf(g), EndOf(h), a, b)
  <2>1. PICK p \in Nat, q \in Nat : p = g.aStart + g.aLen /\ q = g.bStart + g.bLen
    BY <1>2, HunkFields
  <2>2. EndOf(g) = <<p, q>>
    BY <2>1 DEF EndOf
  <2>3. EndOf(h) = <<p + n, q + n>>
    <3>1. /\ h.aStart \in Nat /\ h.aLen \in Nat /\ h.bStart \in Nat /\ h.bLen \in Nat
      BY HunkFields
    <3>2. h.aStart + h.aLen = p + n /\ h.bStart + h.bLen = q + n
      BY <1>2, <2>1, <3>1
    <3> QED
      BY <3>2 DEF EndOf
  <2>4. \A x \in 0..n - 1 : p + x \in DOMAIN a /\ q + x \in DOMAIN b /\ a[p + x] = b[q + x]
    BY <1>2, <2>1
  <2>5. p + n - p = n /\ q + n - q = n /\ n >= 0
    OBVIOUS
  <2>6. Agree(<<p, q>>, <<p + n, q + n>>, a, b)
    BY <2>4, <2>5 DEF Agree
  <2> QED
    BY <2>2, <2>3, <2>6
<1> QED
  BY <1>1, <1>2, <1>3, <1>4, <1>5

\* Another hunk in the place of the last one.
Replaces(g, h, open, a, b) ==
  /\ g \in Hunks /\ PieceOf(g, a, b) /\ Spanned(g.lines)
  /\ g.aStart = h.aStart /\ g.bStart = h.bStart /\ Leading(g.lines) = Leading(h.lines)
  /\ IF open THEN Trailing(g.lines) < 2 * Context ELSE Trailing(g.lines) = Context

\* The last hunk is replaced by what became of it.
LEMMA LastReplaced ==
  ASSUME NEW a, NEW b, NEW hunks \in Seq(Hunks), hunks # <<>>, HunksInv(hunks, TRUE, a, b),
         NEW open \in BOOLEAN, NEW g, Replaces(g, hunks[Len(hunks)], open, a, b)
  PROVE  LET next == [hunks EXCEPT ![Len(hunks)] = g]
         IN  /\ next \in Seq(Hunks) /\ Len(next) = Len(hunks) /\ next[Len(hunks)] = g
             /\ \A k \in 1..Len(hunks) - 1 : next[k] = hunks[k]
             /\ HunksInv(next, open, a, b)
<1>0. PICK last \in Nat : last = Len(hunks) /\ last >= 1
  OBVIOUS
<1>1. PICK next : next = [hunks EXCEPT ![last] = g]
  OBVIOUS
<1>2. /\ next \in Seq(Hunks) /\ Len(next) = last /\ next[last] = g
      /\ \A k \in 1..last - 1 : next[k] = hunks[k]
  BY <1>0, <1>1 DEF Replaces
<1>3. ASSUME NEW k \in 1..last
      PROVE  GapFrom(next, k) = GapFrom(hunks, k)
  <2>1. k = 1 \/ k - 1 \in 1..last - 1
    BY <1>0
  <2> QED
    BY <1>2, <2>1 DEF GapFrom
<1>4. \A k \in 1..last - 1 : HunkInv(next, k, open, a, b)
  <2> TAKE k \in 1..last - 1
  <2>1. k \in 1..last /\ k # last
    OBVIOUS
  <2>2. HunkInv(hunks, k, TRUE, a, b) /\ next[k] = hunks[k] /\ GapFrom(next, k) = GapFrom(hunks, k)
    BY <1>0, <1>2, <1>3, <2>1 DEF HunksInv
  <2>3. LeadKept(next, k)
    BY <2>2 DEF HunkInv, LeadKept
  <2> QED
    BY <1>0, <1>2, <2>1, <2>2, <2>3 DEF HunkInv
<1>5. HunkInv(next, last, open, a, b)
  <2>1. last \in 1..last
    BY <1>0
  <2>2. /\ HunkInv(hunks, last, TRUE, a, b) /\ next[last] = g
        /\ GapFrom(next, last) = GapFrom(hunks, last)
    BY <1>0, <1>2, <1>3, <2>1 DEF HunksInv
  <2>3. LeadKept(next, last)
    BY <1>0, <2>2 DEF HunkInv, LeadKept, Replaces
  <2>4. StartOf(g) = StartOf(hunks[last])
    BY <1>0 DEF StartOf, Replaces
  <2> QED
    BY <1>0, <1>2, <2>2, <2>3, <2>4 DEF HunkInv, Replaces
<1>6. \A k \in 1..last : HunkInv(next, k, open, a, b)
  <2>1. \A k \in 1..last : k \in 1..last - 1 \/ k = last
    OBVIOUS
  <2> QED
    BY <1>4, <1>5, <2>1
<1> QED
  BY <1>0, <1>1, <1>2, <1>6 DEF HunksInv

\* One hunk more.
LEMMA HunkAdded ==
  ASSUME NEW a, NEW b, NEW hunks \in Seq(Hunks), HunksInv(hunks, FALSE, a, b),
         NEW g \in Hunks, PieceOf(g, a, b), Spanned(g.lines), g.aStart >= 1, g.bStart >= 1,
         Agree(GapFrom(hunks, Len(hunks) + 1), StartOf(g), a, b),
         LeadKept(Append(hunks, g), Len(hunks) + 1), Trailing(g.lines) < 2 * Context
  PROVE  LET next == Append(hunks, g)
         IN  /\ next \in Seq(Hunks) /\ Len(next) = Len(hunks) + 1 /\ next[Len(hunks) + 1] = g
             /\ \A k \in 1..Len(hunks) : next[k] = hunks[k]
             /\ HunksInv(next, TRUE, a, b)
<1>0. PICK last \in Nat : last = Len(hunks)
  OBVIOUS
<1>1. PICK next : next = Append(hunks, g)
  OBVIOUS
<1>2. /\ next \in Seq(Hunks) /\ Len(next) = last + 1 /\ next[last + 1] = g
      /\ \A k \in 1..last : next[k] = hunks[k]
  BY <1>0, <1>1
<1>3. ASSUME NEW k \in 1..last + 1
      PROVE  GapFrom(next, k) = GapFrom(hunks, k)
  <2>1. k = 1 \/ k - 1 \in 1..last
    OBVIOUS
  <2> QED
    BY <1>2, <2>1 DEF GapFrom
<1>4. \A k \in 1..last : HunkInv(next, k, TRUE, a, b)
  <2> TAKE k \in 1..last
  <2>1. k \in 1..last + 1 /\ k # last + 1
    OBVIOUS
  <2>2. HunkInv(hunks, k, FALSE, a, b) /\ next[k] = hunks[k] /\ GapFrom(next, k) = GapFrom(hunks, k)
    BY <1>0, <1>2, <1>3, <2>1 DEF HunksInv
  <2>3. LeadKept(next, k)
    BY <2>2 DEF HunkInv, LeadKept
  <2> QED
    BY <1>0, <1>2, <2>1, <2>2, <2>3 DEF HunkInv
<1>5. HunkInv(next, last + 1, TRUE, a, b)
  <2>1. last + 1 \in 1..last + 1
    OBVIOUS
  <2>2. GapFrom(next, last + 1) = GapFrom(hunks, last + 1) /\ LeadKept(next, last + 1)
    BY <1>0, <1>1, <1>3, <2>1
  <2> QED
    BY <1>0, <1>2, <2>2 DEF HunkInv
<1>6. \A k \in 1..last + 1 : HunkInv(next, k, TRUE, a, b)
  <2>1. \A k \in 1..last + 1 : k \in 1..last \/ k = last + 1
    OBVIOUS
  <2> QED
    BY <1>4, <1>5, <2>1
<1> QED
  BY <1>0, <1>1, <1>2, <1>6 DEF HunksInv

\* Line x of hunk k is a change.
ChangeAt(hunks, k, x) == k \in DOMAIN hunks /\ x \in Changed(hunks[k].lines)

\* The changes of a list of hunks, and how many one more makes.
LEMMA InChanges ==
  ASSUME NEW hunks
  PROVE  \A c : c \in Changes(hunks) <=> \E k, x : ChangeAt(hunks, k, x) /\ c = <<k, x>>
BY DEF Changes, ChangeAt

LEMMA ChangesNext ==
  ASSUME NEW hunks, NEW next, IsFiniteSet(Changes(hunks))
  PROVE  /\ (\A k, x : ChangeAt(next, k, x) <=> ChangeAt(hunks, k, x)) =>
              Changes(next) = Changes(hunks)
         /\ \A l, y :
              /\ ~ChangeAt(hunks, l, y)
              /\ \A k, x : ChangeAt(next, k, x) <=> ChangeAt(hunks, k, x) \/ (k = l /\ x = y)
              => /\ IsFiniteSet(Changes(next))
                 /\ Cardinality(Changes(next)) = Cardinality(Changes(hunks)) + 1
<1>1. ASSUME \A k, x : ChangeAt(next, k, x) <=> ChangeAt(hunks, k, x)
      PROVE  Changes(next) = Changes(hunks)
  <2>1. \A c : c \in Changes(next) <=> c \in Changes(hunks)
    BY <1>1, InChanges
  <2> QED
    BY <2>1
<1>2. ASSUME NEW l, NEW y, ~ChangeAt(hunks, l, y),
             \A k, x : ChangeAt(next, k, x) <=> ChangeAt(hunks, k, x) \/ (k = l /\ x = y)
      PROVE  /\ IsFiniteSet(Changes(next))
             /\ Cardinality(Changes(next)) = Cardinality(Changes(hunks)) + 1
  <2>1. \A c : c \in Changes(next) <=> c \in Changes(hunks) \/ c = <<l, y>>
    BY <1>2, InChanges
  <2>2. Changes(next) = Changes(hunks) \cup {<<l, y>>}
    BY <2>1
  <2>3. <<l, y>> \notin Changes(hunks)
    <3>1. \A k, x : <<k, x>> = <<l, y>> => k = l /\ x = y
      OBVIOUS
    <3> QED
      BY <1>2, <3>1, InChanges
  <2> QED
    BY <2>2, <2>3, FS_AddElement
<1> QED
  BY <1>1, <1>2

OnPlace(s, op, a, b) ==
  /\ op.kind # "add" => s.aLine \in 1..Len(a) /\ op.line = a[s.aLine]
  /\ op.kind # "del" => s.bLine \in 1..Len(b) /\ op.line = b[s.bLine]

\* One operation is scanned: the invariant holds on, and a change is counted.
OpScanned(s, op, t, a, b) ==
  /\ ScanInv(t, a, b)
  /\ t.aLine = s.aLine + OldLines(op) /\ t.bLine = s.bLine + NewLines(op)
  /\ IsFiniteSet(Changes(t.hunks))
  /\ Cardinality(Changes(t.hunks)) =
       Cardinality(Changes(s.hunks)) + IF op.kind = "equal" THEN 0 ELSE 1

\* The fields of a scan.
LEMMA ScanFields ==
  ASSUME NEW s \in Scans
  PROVE  /\ s.hunks \in Seq(Hunks) /\ s.open \in BOOLEAN /\ s.pending \in Seq(Operations)
         /\ s.aLine \in Nat /\ s.bLine \in Nat
         /\ s = [hunks |-> s.hunks, open |-> s.open, pending |-> s.pending,
                 aLine |-> s.aLine, bLine |-> s.bLine]
BY DEF Scans

LEMMA ScanOf ==
  ASSUME NEW hunks \in Seq(Hunks), NEW open \in BOOLEAN, NEW pending \in Seq(Operations),
         NEW aLine \in Nat, NEW bLine \in Nat
  PROVE  [hunks |-> hunks, open |-> open, pending |-> pending, aLine |-> aLine, bLine |-> bLine]
           \in Scans
BY DEF Scans

\* An operation takes up at most a line of each file.
LEMMA Steps ==
  \A op : /\ OldLines(op) \in 0..1 /\ NewLines(op) \in 0..1
          /\ op.kind = "equal" => OldLines(op) = 1 /\ NewLines(op) = 1
BY DEF OldLines, NewLines

\* Trailing counts lines.
LEMMA LengthTrailing ==
  \A ops \in Seq(Operations) : Spanned(ops) => Trailing(ops) \in Nat
<1> TAKE ops \in Seq(Operations)
<1> HAVE Spanned(ops)
<1>1. Changed(ops) # {} /\ Max(Changed(ops)) \in 1..Len(ops)
  BY DEF Spanned, Changed
<1> QED
  BY <1>1 DEF Trailing

\* An open hunk takes the operation up.
LEMMA ScanExtends ==
  ASSUME NEW a \in Seq(Lines), NEW b \in Seq(Lines), NEW s, ScanInv(s, a, b), s.open,
         NEW op \in Operations, OnPlace(s, op, a, b), IsFiniteSet(Changes(s.hunks)),
         op.kind = "equal" => Trailing(Extended(s.hunks[Len(s.hunks)], op).lines) < 2 * Context
  PROVE  OpScanned(s, op, Scan(s, op, Context), a, b)
<1>0. Context \in Nat \ {0}
  BY InputsAssumption
<1>1. PICK hunks \in Seq(Hunks), last \in Nat, u \in Nat, v \in Nat :
        hunks = s.hunks /\ last = Len(hunks) /\ u = s.aLine /\ v = s.bLine
  BY ScanFields DEF ScanInv
<1>2. last >= 1 /\ EndOf(hunks[last]) = <<u, v>> /\ s.pending = <<>>
  BY <1>1 DEF ScanInv, OpenInv
<1>3. PICK h \in Hunks : h = hunks[last]
  BY <1>1, <1>2
<1>4. HunksInv(hunks, TRUE, a, b)
  BY <1>1 DEF ScanInv
<1>5. PieceOf(h, a, b) /\ Spanned(h.lines)
  <2>1. last \in 1..last
    BY <1>2
  <2>2. HunkInv(hunks, last, TRUE, a, b)
    BY <1>1, <1>4, <2>1 DEF HunksInv
  <2> QED
    BY <1>3, <2>2 DEF HunkInv
<1>6. h.aStart + h.aLen = u /\ h.bStart + h.bLen = v
  BY <1>2, <1>3 DEF EndOf
<1>7. PICK g : g = Extended(h, op)
  OBVIOUS
<1>8. /\ g \in Hunks /\ PieceOf(g, a, b) /\ Spanned(g.lines)
      /\ g.aStart = h.aStart /\ g.bStart = h.bStart
      /\ g.aLen = h.aLen + OldLines(op) /\ g.bLen = h.bLen + NewLines(op)
      /\ Leading(g.lines) = Leading(h.lines)
      /\ Trailing(g.lines) = IF op.kind = "equal" THEN Trailing(h.lines) + 1 ELSE 0
      /\ Changed(g.lines) = IF op.kind = "equal" THEN Changed(h.lines)
                            ELSE Changed(h.lines) \cup {Len(h.lines) + 1}
      /\ Len(h.lines) + 1 \notin Changed(h.lines)
  <2>1. /\ op.kind # "add" => h.aStart + h.aLen \in DOMAIN a /\ op.line = a[h.aStart + h.aLen]
        /\ op.kind # "del" => h.bStart + h.bLen \in DOMAIN b /\ op.line = b[h.bStart + h.bLen]
    BY <1>1, <1>6 DEF OnPlace
  <2>2. LET e == Extended(h, op)
        IN  /\ e \in Hunks /\ PieceOf(e, a, b) /\ Spanned(e.lines)
            /\ e.aStart = h.aStart /\ e.bStart = h.bStart
            /\ e.aLen = h.aLen + OldLines(op) /\ e.bLen = h.bLen + NewLines(op)
            /\ Leading(e.lines) = Leading(h.lines)
            /\ Trailing(e.lines) = IF op.kind = "equal" THEN Trailing(h.lines) + 1 ELSE 0
            /\ Changed(e.lines) = IF op.kind = "equal" THEN Changed(h.lines)
                                  ELSE Changed(h.lines) \cup {Len(h.lines) + 1}
            /\ Len(h.lines) + 1 \notin Changed(h.lines)
    BY <1>5, <2>1, HunkExtended
  <2> QED
    BY <1>7, <2>2
<1>9. Trailing(g.lines) < 2 * Context
  BY <1>0, <1>1, <1>3, <1>7, <1>8
<1>10. PICK next : next = [hunks EXCEPT ![last] = g]
  OBVIOUS
<1>11. /\ next \in Seq(Hunks) /\ Len(next) = last /\ next[last] = g
       /\ \A k \in 1..last - 1 : next[k] = hunks[k]
       /\ HunksInv(next, TRUE, a, b)
  <2>1. Replaces(g, hunks[Len(hunks)], TRUE, a, b)
    BY <1>1, <1>3, <1>8, <1>9 DEF Replaces
  <2>2. hunks # <<>>
    BY <1>1, <1>2
  <2>3. LET e == [hunks EXCEPT ![Len(hunks)] = g]
        IN  /\ e \in Seq(Hunks) /\ Len(e) = Len(hunks) /\ e[Len(hunks)] = g
            /\ \A k \in 1..Len(hunks) - 1 : e[k] = hunks[k]
            /\ HunksInv(e, TRUE, a, b)
    BY <1>4, <2>1, <2>2, LastReplaced
  <2> QED
    BY <1>1, <1>10, <2>3
<1>12. PICK i \in Nat, j \in Nat : i = OldLines(op) /\ j = NewLines(op)
  BY Steps
<1>13. PICK t : t = Scan(s, op, Context)
  OBVIOUS
<1>14. t = [hunks |-> next, open |-> TRUE, pending |-> <<>>, aLine |-> u + i, bLine |-> v + j]
  <2>1. s = [hunks |-> hunks, open |-> TRUE, pending |-> <<>>, aLine |-> u, bLine |-> v]
    BY <1>1, <1>2, ScanFields DEF ScanInv
  <2>2. PICK x : x = IF op.kind = "equal" THEN Equal(s, op, Context) ELSE Change(s, op)
    OBVIOUS
  <2>3. x = [s EXCEPT !.hunks = next]
    <3>1. CASE op.kind = "equal"
      <4>1. Trailing(g.lines) < 2 * Context /\ s.hunks = hunks /\ s.open
        BY <1>1, <1>9
      <4>2. Equal(s, op, Context) = [s EXCEPT !.hunks[last] = g]
        BY <1>1, <1>3, <1>7, <4>1 DEF Equal
      <4> QED
        BY <1>1, <1>10, <2>2, <3>1, <4>2
    <3>2. CASE op.kind # "equal"
      <4>1. Change(s, op) = [s EXCEPT !.hunks[last] = g]
        BY <1>1, <1>3, <1>7 DEF Change
      <4> QED
        BY <1>1, <1>10, <2>2, <3>2, <4>1
    <3> QED
      BY <3>1, <3>2
  <2>4. x = [hunks |-> next, open |-> TRUE, pending |-> <<>>, aLine |-> u, bLine |-> v]
    BY <2>1, <2>3
  <2>5. t = [x EXCEPT !.aLine = @ + i, !.bLine = @ + j]
    BY <1>12, <1>13, <2>2 DEF Scan
  <2> QED
    BY <2>4, <2>5
<1>15. t.hunks = next /\ t.open = TRUE /\ t.pending = <<>> /\ t.aLine = u + i /\ t.bLine = v + j
  BY <1>14
<1>16. t \in Scans
  <2>1. u + i \in Nat /\ v + j \in Nat /\ <<>> \in Seq(Operations)
    OBVIOUS
  <2> QED
    BY <1>11, <1>14, <2>1, ScanOf
<1>17. ScanInv(t, a, b)
  <2>1. h.aStart \in Nat /\ h.aLen \in Nat /\ h.bStart \in Nat /\ h.bLen \in Nat
    BY HunkFields
  <2>2. g.aStart + g.aLen = u + i /\ g.bStart + g.bLen = v + j
    <3>1. PICK p \in Nat, q \in Nat, r \in Nat, w \in Nat :
            h.aStart = p /\ h.aLen = q /\ h.bStart = r /\ h.bLen = w
      BY <2>1
    <3>2. g.aStart = p /\ g.aLen = q + i /\ g.bStart = r /\ g.bLen = w + j
      BY <1>8, <1>12, <3>1
    <3>3. p + q = u /\ r + w = v
      BY <1>6, <3>1
    <3>4. p + (q + i) = u + i /\ r + (w + j) = v + j
      BY <3>3
    <3> QED
      BY <3>2, <3>4
  <2>3. EndOf(g) = <<u + i, v + j>>
    BY <2>2 DEF EndOf
  <2>4. next # <<>>
    BY <1>2, <1>11
  <2>5. OpenInv(t)
    BY <1>11, <1>15, <2>3, <2>4 DEF OpenInv
  <2> QED
    BY <1>11, <1>15, <1>16, <2>5 DEF ScanInv
<1>18. /\ IsFiniteSet(Changes(next))
       /\ Cardinality(Changes(next)) =
            Cardinality(Changes(hunks)) + IF op.kind = "equal" THEN 0 ELSE 1
  <2>1. /\ DOMAIN hunks = 1..last /\ DOMAIN next = 1..last
        /\ \A k \in 1..last : k \in 1..last - 1 \/ k = last
        /\ last \in 1..last
    BY <1>1, <1>2, <1>11
  <2>2. \A k \in 1..last : k # last => next[k] = hunks[k]
    BY <1>11, <2>1
  <2>3. CASE op.kind = "equal"
    <3>1. \A k \in 1..last : Changed(next[k].lines) = Changed(hunks[k].lines)
      BY <1>3, <1>8, <1>11, <2>2, <2>3
    <3>2. \A k, x : ChangeAt(next, k, x) <=> ChangeAt(hunks, k, x)
      BY <2>1, <3>1 DEF ChangeAt
    <3>3. Changes(next) = Changes(hunks)
      BY <1>1, <3>2, ChangesNext
    <3>4. Cardinality(Changes(hunks)) \in Nat
      BY <1>1, FS_CardinalityType
    <3> QED
      BY <1>1, <2>3, <3>3, <3>4
  <2>4. CASE op.kind # "equal"
    <3>1. PICK y : y = Len(h.lines) + 1
      OBVIOUS
    <3>2. ~ChangeAt(hunks, last, y)
      BY <1>3, <1>8, <3>1 DEF ChangeAt
    <3>3. \A k, x : ChangeAt(next, k, x) <=> ChangeAt(hunks, k, x) \/ (k = last /\ x = y)
      <4>1. Changed(next[last].lines) = Changed(hunks[last].lines) \cup {y}
        BY <1>3, <1>8, <1>11, <2>4, <3>1
      <4> QED
        BY <2>1, <2>2, <4>1 DEF ChangeAt
    <3>4. /\ IsFiniteSet(Changes(next))
          /\ Cardinality(Changes(next)) = Cardinality(Changes(hunks)) + 1
      BY <1>1, <3>2, <3>3, ChangesNext
    <3> QED
      BY <2>4, <3>4
  <2> QED
    BY <2>3, <2>4
<1> QED
  BY <1>1, <1>12, <1>13, <1>15, <1>17, <1>18 DEF OpScanned

\* An open hunk takes up an equal line and is closed, the lines past the context trimmed.
LEMMA ScanCloses ==
  ASSUME NEW a \in Seq(Lines), NEW b \in Seq(Lines), NEW s, ScanInv(s, a, b), s.open,
         NEW op \in Operations, OnPlace(s, op, a, b), IsFiniteSet(Changes(s.hunks)),
         op.kind = "equal", ~(Trailing(Extended(s.hunks[Len(s.hunks)], op).lines) < 2 * Context)
  PROVE  OpScanned(s, op, Scan(s, op, Context), a, b)
<1>0. PICK c \in Nat \ {0} : c = Context
  BY InputsAssumption
<1>1. PICK hunks \in Seq(Hunks), last \in Nat, u \in Nat, v \in Nat :
        hunks = s.hunks /\ last = Len(hunks) /\ u = s.aLine /\ v = s.bLine
  BY ScanFields DEF ScanInv
<1>2. last >= 1 /\ EndOf(hunks[last]) = <<u, v>> /\ s.pending = <<>>
  BY <1>1 DEF ScanInv, OpenInv
<1>3. PICK h \in Hunks : h = hunks[last]
  BY <1>1, <1>2
<1>4. HunksInv(hunks, TRUE, a, b)
  BY <1>1 DEF ScanInv
<1>5. PieceOf(h, a, b) /\ Spanned(h.lines) /\ Trailing(h.lines) < 2 * c
  <2>1. last \in 1..last
    BY <1>2
  <2>2. HunkInv(hunks, last, TRUE, a, b)
    BY <1>1, <1>4, <2>1 DEF HunksInv
  <2> QED
    BY <1>0, <1>1, <1>3, <2>2 DEF HunkInv
<1>6. h.aStart + h.aLen = u /\ h.bStart + h.bLen = v
  BY <1>2, <1>3 DEF EndOf
<1>7. PICK e : e = Extended(h, op)
  OBVIOUS
<1>8. /\ e \in Hunks /\ PieceOf(e, a, b) /\ Spanned(e.lines)
      /\ e.aStart = h.aStart /\ e.bStart = h.bStart
      /\ e.aLen = h.aLen + 1 /\ e.bLen = h.bLen + 1
      /\ Leading(e.lines) = Leading(h.lines)
      /\ Trailing(e.lines) = Trailing(h.lines) + 1
      /\ Changed(e.lines) = Changed(h.lines)
  <2>1. /\ op.kind # "add" => h.aStart + h.aLen \in DOMAIN a /\ op.line = a[h.aStart + h.aLen]
        /\ op.kind # "del" => h.bStart + h.bLen \in DOMAIN b /\ op.line = b[h.bStart + h.bLen]
    BY <1>1, <1>6 DEF OnPlace
  <2>2. LET g == Extended(h, op)
        IN  /\ g \in Hunks /\ PieceOf(g, a, b) /\ Spanned(g.lines)
            /\ g.aStart = h.aStart /\ g.bStart = h.bStart
            /\ g.aLen = h.aLen + OldLines(op) /\ g.bLen = h.bLen + NewLines(op)
            /\ Leading(g.lines) = Leading(h.lines)
            /\ Trailing(g.lines) = IF op.kind = "equal" THEN Trailing(h.lines) + 1 ELSE 0
            /\ Changed(g.lines) = IF op.kind = "equal" THEN Changed(h.lines)
                                  ELSE Changed(h.lines) \cup {Len(h.lines) + 1}
            /\ Len(h.lines) + 1 \notin Changed(h.lines)
    BY <1>5, <2>1, HunkExtended
  <2>3. OldLines(op) = 1 /\ NewLines(op) = 1
    BY Steps
  <2> QED
    BY <1>7, <2>2, <2>3
\* It had 2 * context - 1 unchanged lines at its end.
<1>9. PICK w \in Nat : w = Trailing(h.lines)
  <2>1. h.lines \in Seq(Operations)
    BY HunkFields
  <2> QED
    BY <1>5, <2>1, LengthTrailing
<1>10. Trailing(e.lines) = 2 * c /\ Trailing(e.lines) - Context = c
  <2>1. ~(w + 1 < 2 * c)
    BY <1>0, <1>1, <1>3, <1>7, <1>8, <1>9
  <2> QED
    <3>1. w < 2 * c /\ Trailing(e.lines) = w + 1
      BY <1>5, <1>8, <1>9
    <3>2. w + 1 = 2 * c
      BY <2>1, <3>1
    <3> QED
      BY <1>0, <3>1, <3>2
<1>11. PICK g : g = Trimmed(e, c)
  OBVIOUS
<1>12. /\ g \in Hunks /\ PieceOf(g, a, b) /\ Spanned(g.lines)
       /\ g.aStart = e.aStart /\ g.bStart = e.bStart
       /\ Leading(g.lines) = Leading(e.lines) /\ Trailing(g.lines) = Trailing(e.lines) - c
       /\ Changed(g.lines) = Changed(e.lines)
       /\ g.aLen = e.aLen - c /\ g.bLen = e.bLen - c
       /\ Agree(EndOf(g), EndOf(e), a, b)
  <2>1. c \in Nat /\ c <= Trailing(e.lines)
    BY <1>10
  <2>2. LET f == Trimmed(e, c)
        IN  /\ f \in Hunks /\ PieceOf(f, a, b) /\ Spanned(f.lines)
            /\ f.aStart = e.aStart /\ f.bStart = e.bStart
            /\ Leading(f.lines) = Leading(e.lines) /\ Trailing(f.lines) = Trailing(e.lines) - c
            /\ Changed(f.lines) = Changed(e.lines)
            /\ f.aLen = e.aLen - c /\ f.bLen = e.bLen - c
            /\ Agree(EndOf(f), EndOf(e), a, b)
    BY <1>8, <2>1, HunkTrimmed
  <2> QED
    BY <1>11, <2>2
<1>13. PICK next : next = [hunks EXCEPT ![last] = g]
  OBVIOUS
<1>14. /\ next \in Seq(Hunks) /\ Len(next) = last /\ next[last] = g
       /\ \A k \in 1..last - 1 : next[k] = hunks[k]
       /\ HunksInv(next, FALSE, a, b)
  <2>1. Trailing(g.lines) = Context
    BY <1>0, <1>10, <1>12
  <2>2. Replaces(g, hunks[Len(hunks)], FALSE, a, b)
    BY <1>1, <1>3, <1>8, <1>12, <2>1 DEF Replaces
  <2>3. hunks # <<>>
    BY <1>1, <1>2
  <2>4. LET f == [hunks EXCEPT ![Len(hunks)] = g]
        IN  /\ f \in Seq(Hunks) /\ Len(f) = Len(hunks) /\ f[Len(hunks)] = g
            /\ \A k \in 1..Len(hunks) - 1 : f[k] = hunks[k]
            /\ HunksInv(f, FALSE, a, b)
    BY <1>4, <2>2, <2>3, LastReplaced
  <2> QED
    BY <1>1, <1>13, <2>4
<1>15. PICK t : t = Scan(s, op, Context)
  OBVIOUS
<1>16. t = [hunks |-> next, open |-> FALSE, pending |-> <<>>, aLine |-> u + 1, bLine |-> v + 1]
  <2>1. s = [hunks |-> hunks, open |-> TRUE, pending |-> <<>>, aLine |-> u, bLine |-> v]
    BY <1>1, <1>2, ScanFields DEF ScanInv
  <2>2. PICK x : x = Equal(s, op, Context)
    OBVIOUS
  <2>3. x = [s EXCEPT !.hunks = next, !.open = FALSE]
    <3>1. ~(Trailing(e.lines) < 2 * Context) /\ s.open
      BY <1>1, <1>3, <1>7
    <3>2. x = [s EXCEPT !.hunks[last] = g, !.open = FALSE]
      BY <1>1, <1>3, <1>7, <1>10, <1>11, <2>2, <3>1 DEF Equal
    <3> QED
      BY <1>1, <1>13, <3>2
  <2>4. x = [hunks |-> next, open |-> FALSE, pending |-> <<>>, aLine |-> u, bLine |-> v]
    BY <2>1, <2>3
  <2>5. OldLines(op) = 1 /\ NewLines(op) = 1
    BY Steps
  <2>6. t = [x EXCEPT !.aLine = @ + 1, !.bLine = @ + 1]
    BY <1>15, <2>2, <2>5 DEF Scan
  <2> QED
    BY <2>4, <2>6
<1>17. /\ t.hunks = next /\ t.open = FALSE /\ t.pending = <<>>
       /\ t.aLine = u + 1 /\ t.bLine = v + 1
  BY <1>16
<1>18. t \in Scans
  <2>1. u + 1 \in Nat /\ v + 1 \in Nat /\ <<>> \in Seq(Operations)
    OBVIOUS
  <2> QED
    BY <1>14, <1>16, <2>1, ScanOf
<1>19. ClosedInv(t, a, b)
  <2>1. h.aStart \in Nat /\ h.aLen \in Nat /\ h.bStart \in Nat /\ h.bLen \in Nat
    BY HunkFields
  <2>2. EndOf(e) = <<u + 1, v + 1>> /\ EndOf(g) = <<u + 1 - c, v + 1 - c>>
    <3>1. /\ e.aStart + e.aLen = u + 1 /\ e.bStart + e.bLen = v + 1
          /\ g.aStart + g.aLen = u + 1 - c /\ g.bStart + g.bLen = v + 1 - c
      <4>1. PICK p \in Nat, q \in Nat, r \in Nat, x \in Nat :
              h.aStart = p /\ h.aLen = q /\ h.bStart = r /\ h.bLen = x
        BY <2>1
      <4>2. e.aStart = p /\ e.aLen = q + 1 /\ e.bStart = r /\ e.bLen = x + 1
        BY <1>8, <4>1
      <4>3. g.aStart = p /\ g.aLen = (q + 1) - c /\ g.bStart = r /\ g.bLen = (x + 1) - c
        BY <1>12, <4>2
      <4>4. p + q = u /\ r + x = v
        BY <1>6, <4>1
      <4>5. /\ p + (q + 1) = u + 1 /\ r + (x + 1) = v + 1
            /\ p + ((q + 1) - c) = u + 1 - c /\ r + ((x + 1) - c) = v + 1 - c
        BY <4>4
      <4> QED
        BY <4>2, <4>3, <4>5
    <3> QED
      BY <3>1 DEF EndOf
  <2>3. GapFrom(t.hunks, Len(t.hunks) + 1) = EndOf(g)
    <3>1. Len(t.hunks) + 1 # 1 /\ (Len(t.hunks) + 1) - 1 = last
      BY <1>2, <1>14, <1>17
    <3> QED
      BY <1>14, <1>17, <3>1 DEF GapFrom
  <2>4. PendingInv(t, a, b) /\ Len(t.pending) = 0
    BY <1>17 DEF PendingInv
  <2>5. t.hunks # <<>>
    BY <1>2, <1>14, <1>17
  <2>6. u + 1 - (u + 1 - c) - c = 0
    BY <1>0
  <2>7. Agree(EndOf(g), <<t.aLine, t.bLine>>, a, b)
    BY <1>12, <1>17, <2>2
  <2>8. t.aLine - EndOf(g)[1] - Context = 0
    BY <1>0, <1>17, <2>2, <2>6
  <2> QED
    BY <1>0, <2>3, <2>4, <2>5, <2>7, <2>8 DEF ClosedInv
<1>20. ScanInv(t, a, b)
  BY <1>14, <1>17, <1>18, <1>19 DEF ScanInv
<1>21. Changes(next) = Changes(hunks)
  <2>1. /\ DOMAIN hunks = 1..last /\ DOMAIN next = 1..last
        /\ \A k \in 1..last : k \in 1..last - 1 \/ k = last
    BY <1>1, <1>2, <1>14
  <2>2. \A k \in 1..last : Changed(next[k].lines) = Changed(hunks[k].lines)
    BY <1>3, <1>8, <1>12, <1>14, <2>1
  <2>3. \A k, x : ChangeAt(next, k, x) <=> ChangeAt(hunks, k, x)
    BY <2>1, <2>2 DEF ChangeAt
  <2> QED
    BY <1>1, <2>3, ChangesNext
<1>22. Cardinality(Changes(hunks)) \in Nat
  BY <1>1, FS_CardinalityType
<1>23. OldLines(op) = 1 /\ NewLines(op) = 1
  BY Steps
<1> QED
  BY <1>1, <1>15, <1>17, <1>20, <1>21, <1>22, <1>23 DEF OpScanned

\* The place behind the last hunk is one of both files.
LEMMA PlaceAfter ==
  ASSUME NEW a, NEW b, NEW hunks \in Seq(Hunks), NEW open, HunksInv(hunks, open, a, b)
  PROVE  LET from == GapFrom(hunks, Len(hunks) + 1)
         IN  /\ from[1] \in Nat /\ from[1] >= 1 /\ from[2] \in Nat /\ from[2] >= 1
             /\ hunks = <<>> => from[1] = 1 /\ from[2] = 1
<1>1. CASE hunks = <<>>
  <2>1. GapFrom(hunks, Len(hunks) + 1) = <<1, 1>>
    BY <1>1 DEF GapFrom
  <2> QED
    BY <2>1
<1>2. CASE hunks # <<>>
  <2>1. PICK last \in Nat : last = Len(hunks) /\ last >= 1
    BY <1>2
  <2>2. PICK h \in Hunks : h = hunks[last]
    BY <2>1
  <2>3. last \in 1..last /\ (last + 1) - 1 = last /\ last + 1 # 1
    BY <2>1
  <2>4. h.aStart >= 1 /\ h.bStart >= 1
    BY <2>1, <2>2, <2>3 DEF HunksInv, HunkInv
  <2>5. GapFrom(hunks, Len(hunks) + 1) = <<h.aStart + h.aLen, h.bStart + h.bLen>>
    BY <2>1, <2>2, <2>3 DEF GapFrom, EndOf
  <2>6. PICK p \in Nat, q \in Nat, r \in Nat, w \in Nat :
          h.aStart = p /\ h.aLen = q /\ h.bStart = r /\ h.bLen = w
    BY HunkFields
  <2>7. p + q >= 1 /\ r + w >= 1 /\ p + q \in Nat /\ r + w \in Nat
    BY <2>4, <2>6
  <2> QED
    BY <1>2, <2>5, <2>6, <2>7
<1> QED
  BY <1>1, <1>2

\* The invariant outside a hunk, in the lines it counts.
LEMMA ClosedIs ==
  ASSUME NEW a, NEW b, NEW s, NEW from, from = GapFrom(s.hunks, Len(s.hunks) + 1),
         from[1] \in Nat, from[2] \in Nat, s.aLine \in Nat, s.bLine \in Nat
  PROVE  ClosedInv(s, a, b) <=>
           LET seen == s.aLine - from[1] - (IF s.hunks = <<>> THEN 0 ELSE Context)
           IN  /\ AgreeAt(from[1], from[2], s.aLine, s.bLine, a, b) /\ PendingInv(s, a, b)
               /\ seen >= 0 /\ Len(s.pending) = IF seen < Context THEN seen ELSE Context
<1>1. PICK to : to = <<s.aLine, s.bLine>>
  OBVIOUS
<1>2. to[1] = s.aLine /\ to[2] = s.bLine
  BY <1>1
<1>3. Agree(from, to, a, b) <=> AgreeAt(from[1], from[2], s.aLine, s.bLine, a, b)
  <2>1. from[1] \in Int /\ from[2] \in Int /\ to[1] \in Int /\ to[2] \in Int
    BY <1>2
  <2> QED
    BY <1>2, <2>1, AgreeIs
<1> QED
  BY <1>1, <1>3 DEF ClosedInv

\* An equal line outside a hunk is put with the pending ones.
LEMMA ScanWaits ==
  ASSUME NEW a \in Seq(Lines), NEW b \in Seq(Lines), NEW s, ScanInv(s, a, b), ~s.open,
         NEW op \in Operations, OnPlace(s, op, a, b), IsFiniteSet(Changes(s.hunks)),
         op.kind = "equal"
  PROVE  OpScanned(s, op, Scan(s, op, Context), a, b)
<1>0. PICK c \in Nat \ {0} : c = Context
  BY InputsAssumption
<1>1. PICK hunks \in Seq(Hunks), pending \in Seq(Operations), u \in Nat, v \in Nat :
        hunks = s.hunks /\ pending = s.pending /\ u = s.aLine /\ v = s.bLine
  BY ScanFields DEF ScanInv
<1>2. PICK p \in Nat : p = Len(pending)
  OBVIOUS
<1>3. HunksInv(hunks, FALSE, a, b)
  <2>1. s.open = FALSE
    BY ScanFields DEF ScanInv
  <2> QED
    BY <1>1, <2>1 DEF ScanInv
<1>4. PICK from : from = GapFrom(hunks, Len(hunks) + 1)
  OBVIOUS
<1>5. PICK f \in Nat, g \in Nat : f = from[1] /\ g = from[2]
  BY <1>3, <1>4, PlaceAfter
<1>6. PICK base \in {0, c} : base = IF hunks = <<>> THEN 0 ELSE c
  OBVIOUS
<1>7. /\ AgreeAt(f, g, u, v, a, b) /\ PendingInv(s, a, b)
      /\ u - f - base >= 0 /\ p = IF u - f - base < c THEN u - f - base ELSE c
  <2>1. ClosedInv(s, a, b)
    BY DEF ScanInv
  <2>2. LET seen == u - f - (IF hunks = <<>> THEN 0 ELSE Context)
        IN  /\ AgreeAt(f, g, u, v, a, b) /\ PendingInv(s, a, b)
            /\ seen >= 0 /\ Len(pending) = IF seen < Context THEN seen ELSE Context
    BY <1>1, <1>4, <1>5, <2>1, ClosedIs
  <2> QED
    BY <1>0, <1>2, <1>6, <2>2
<1>8. /\ u \in DOMAIN a /\ v \in DOMAIN b /\ a[u] = b[v] /\ op.line = a[u] /\ op.line = b[v]
      /\ u \in 1..Len(a) /\ v \in 1..Len(b)
  BY <1>1 DEF OnPlace
<1>9. PICK all : all = Append(pending, op)
  OBVIOUS
<1>10. /\ all \in Seq(Operations) /\ Len(all) = p + 1 /\ all[p + 1] = op
      /\ \A x \in 1..p : all[x] = pending[x]
  BY <1>2, <1>9
\* From the back, the pending lines and the new one are the lines before the new place.
<1>11. ASSUME NEW y \in 1..p + 1
       PROVE  LET back == (p + 1) + 1 - y
              IN  /\ all[y].kind = "equal"
                  /\ (u + 1) - back \in 1..Len(a) /\ all[y].line = a[(u + 1) - back]
                  /\ (v + 1) - back \in 1..Len(b) /\ all[y].line = b[(v + 1) - back]
  <2>1. CASE y = p + 1
    <3>1. (p + 1) + 1 - y = 1 /\ (u + 1) - 1 = u /\ (v + 1) - 1 = v
      BY <2>1
    <3> QED
      BY <1>8, <1>10, <2>1, <3>1
  <2>2. CASE y # p + 1
    <3>1. y \in 1..p
      BY <2>2
    <3>2. PICK r \in Nat : r = p + 1 - y
      BY <3>1
    <3>3. /\ pending[y].kind = "equal"
          /\ u - r \in 1..Len(a) /\ pending[y].line = a[u - r]
          /\ v - r \in 1..Len(b) /\ pending[y].line = b[v - r]
      BY <1>1, <1>2, <1>7, <3>1, <3>2 DEF PendingInv
    <3>4. (p + 1) + 1 - y = r + 1 /\ (u + 1) - (r + 1) = u - r /\ (v + 1) - (r + 1) = v - r
      BY <3>2
    <3> QED
      BY <1>10, <3>1, <3>3, <3>4
  <2> QED
    BY <2>1, <2>2
<1>12. PICK rest : rest = LastLines(all, Context)
  OBVIOUS
<1>13. PICK l \in Nat : l = (IF p + 1 <= c THEN p + 1 ELSE c)
  OBVIOUS
<1>14. /\ rest \in Seq(Operations) /\ Len(rest) = l /\ l <= p + 1
       /\ \A x \in 1..l : rest[x] = all[x + (p + 1 - l)]
  <2>1. CASE p + 1 <= c
    <3>1. rest = all /\ l = p + 1
      BY <1>0, <1>10, <1>12, <1>13, <2>1 DEF LastLines
    <3>2. \A x \in 1..l : x + (p + 1 - l) = x
      BY <3>1
    <3> QED
      BY <1>10, <3>1, <3>2
  <2>2. CASE ~(p + 1 <= c)
    <3>1. rest = SubSeq(all, (p + 1) - c + 1, p + 1) /\ l = c /\ p + 1 > c
      <4>1. Len(all) = p + 1
        BY <1>10
      <4>2. rest = SubSeq(all, (p + 1) - c + 1, p + 1)
        BY <1>0, <1>12, <2>2, <4>1 DEF LastLines
      <4> QED
        BY <1>13, <2>2, <4>2
    <3>2. (p + 1) - c + 1 \in 1..p + 1 /\ (p + 1) - ((p + 1) - c + 1) + 1 = c
      BY <1>0, <3>1
    <3>3. /\ rest \in Seq(Operations) /\ Len(rest) = c
          /\ \A x \in 1..c : rest[x] = all[(p + 1) - c + 1 + x - 1]
      BY <1>10, <3>1, <3>2
    <3>4. \A x \in 1..c : (p + 1) - c + 1 + x - 1 = x + (p + 1 - c)
      OBVIOUS
    <3> QED
      BY <3>1, <3>3, <3>4
  <2> QED
    BY <2>1, <2>2
<1>15. PICK t : t = Scan(s, op, Context)
  OBVIOUS
<1>16. t = [hunks |-> hunks, open |-> FALSE, pending |-> rest, aLine |-> u + 1, bLine |-> v + 1]
  <2>1. s = [hunks |-> hunks, open |-> FALSE, pending |-> pending, aLine |-> u, bLine |-> v]
    BY <1>1, ScanFields DEF ScanInv
  <2>2. PICK x : x = Equal(s, op, Context)
    OBVIOUS
  <2>3. x = [s EXCEPT !.pending = rest]
    BY <1>1, <1>9, <1>12, <2>2 DEF Equal
  <2>4. x = [hunks |-> hunks, open |-> FALSE, pending |-> rest, aLine |-> u, bLine |-> v]
    BY <2>1, <2>3
  <2>5. OldLines(op) = 1 /\ NewLines(op) = 1
    BY Steps
  <2>6. t = [x EXCEPT !.aLine = @ + 1, !.bLine = @ + 1]
    BY <1>15, <2>2, <2>5 DEF Scan
  <2> QED
    BY <2>4, <2>6
<1>17. /\ t.hunks = hunks /\ t.open = FALSE /\ t.pending = rest
       /\ t.aLine = u + 1 /\ t.bLine = v + 1
  BY <1>16
<1>18. t \in Scans
  <2>1. u + 1 \in Nat /\ v + 1 \in Nat
    OBVIOUS
  <2> QED
    BY <1>14, <1>16, <2>1, ScanOf
<1>19. PendingInv(t, a, b)
  <2>1. ASSUME NEW x \in 1..l
        PROVE  LET back == l + 1 - x
               IN  /\ rest[x].kind = "equal"
                   /\ (u + 1) - back \in 1..Len(a) /\ rest[x].line = a[(u + 1) - back]
                   /\ (v + 1) - back \in 1..Len(b) /\ rest[x].line = b[(v + 1) - back]
    <3>1. PICK y \in 1..p + 1 : y = x + (p + 1 - l)
      BY <1>14
    <3>2. rest[x] = all[y] /\ (p + 1) + 1 - y = l + 1 - x
      BY <1>14, <3>1
    <3> QED
      BY <1>11, <3>1, <3>2
  <2> QED
    BY <1>14, <1>17, <2>1 DEF PendingInv
<1>20. ClosedInv(t, a, b)
  <2>1. AgreeAt(f, g, u + 1, v + 1, a, b)
    <3>1. u \in DOMAIN a /\ v \in DOMAIN b /\ a[u] = b[v]
      BY <1>8
    <3>2. AgreeAt(f, g, u, v, a, b)
      BY <1>7
    <3>3. f \in Int /\ g \in Int /\ u \in Int /\ v \in Int
      OBVIOUS
    <3> QED
      BY <3>1, <3>2, <3>3, AgreeMoved
  <2>2. (u + 1) - f - base >= 0 /\ l = IF (u + 1) - f - base < c THEN (u + 1) - f - base ELSE c
    BY <1>7, <1>13
  <2>3. from = GapFrom(t.hunks, Len(t.hunks) + 1) /\ Len(t.pending) = l
    BY <1>4, <1>14, <1>17
  <2>4. t.aLine \in Nat /\ t.bLine \in Nat /\ from[1] \in Nat /\ from[2] \in Nat
    BY <1>17, <1>5
  <2>5. LET seen == t.aLine - from[1] - (IF t.hunks = <<>> THEN 0 ELSE Context)
        IN  /\ AgreeAt(from[1], from[2], t.aLine, t.bLine, a, b) /\ PendingInv(t, a, b)
            /\ seen >= 0 /\ Len(t.pending) = IF seen < Context THEN seen ELSE Context
    BY <1>0, <1>6, <1>17, <1>19, <1>5, <2>1, <2>2, <2>3
  <2> QED
    BY <2>3, <2>4, <2>5, ClosedIs
<1>21. ScanInv(t, a, b)
  BY <1>3, <1>17, <1>18, <1>20 DEF ScanInv
<1>22. Cardinality(Changes(hunks)) \in Nat
  BY <1>1, FS_CardinalityType
<1>23. OldLines(op) = 1 /\ NewLines(op) = 1
  BY Steps
<1> QED
  BY <1>1, <1>15, <1>17, <1>21, <1>22, <1>23 DEF OpScanned

\* A change outside a hunk opens one, with the pending lines in front.
LEMMA ScanOpens ==
  ASSUME NEW a \in Seq(Lines), NEW b \in Seq(Lines), NEW s, ScanInv(s, a, b), ~s.open,
         NEW op \in Operations, OnPlace(s, op, a, b), IsFiniteSet(Changes(s.hunks)),
         op.kind # "equal"
  PROVE  OpScanned(s, op, Scan(s, op, Context), a, b)
<1>0. PICK c \in Nat \ {0} : c = Context
  BY InputsAssumption
<1>1. PICK hunks \in Seq(Hunks), pending \in Seq(Operations), u \in Nat, v \in Nat :
        hunks = s.hunks /\ pending = s.pending /\ u = s.aLine /\ v = s.bLine
  BY ScanFields DEF ScanInv
<1>2. PICK p \in Nat, last \in Nat : p = Len(pending) /\ last = Len(hunks)
  OBVIOUS
<1>3. HunksInv(hunks, FALSE, a, b)
  <2>1. s.open = FALSE
    BY ScanFields DEF ScanInv
  <2> QED
    BY <1>1, <2>1 DEF ScanInv
<1>4. PICK from : from = GapFrom(hunks, last + 1)
  OBVIOUS
<1>5. PICK f \in Nat, g \in Nat :
         /\ f = from[1] /\ g = from[2] /\ f >= 1 /\ g >= 1
         /\ hunks = <<>> => f = 1 /\ g = 1
  <2>1. LET x == GapFrom(hunks, Len(hunks) + 1)
        IN  /\ x[1] \in Nat /\ x[1] >= 1 /\ x[2] \in Nat /\ x[2] >= 1
            /\ hunks = <<>> => x[1] = 1 /\ x[2] = 1
    BY <1>3, PlaceAfter
  <2> QED
    BY <1>2, <1>4, <2>1
<1>6. PICK base \in {0, c} : base = IF hunks = <<>> THEN 0 ELSE c
  OBVIOUS
<1>7. /\ AgreeAt(f, g, u, v, a, b) /\ PendingInv(s, a, b)
      /\ u - f - base >= 0 /\ p = IF u - f - base < c THEN u - f - base ELSE c
  <2>1. ClosedInv(s, a, b)
    BY DEF ScanInv
  <2>2. LET seen == u - f - (IF hunks = <<>> THEN 0 ELSE Context)
        IN  /\ AgreeAt(f, g, u, v, a, b) /\ PendingInv(s, a, b)
            /\ seen >= 0 /\ Len(pending) = IF seen < Context THEN seen ELSE Context
    BY <1>1, <1>2, <1>4, <1>5, <2>1, ClosedIs
  <2> QED
    BY <1>0, <1>2, <1>6, <2>2
<1>8. u >= f /\ v - g = u - f /\ p <= u - f /\ p <= c
  <2>1. u >= f /\ v - g = u - f
    BY <1>7 DEF AgreeAt
  <2> QED
    BY <1>7, <2>1
<1>9. u - p >= f /\ v - p >= g /\ u - p >= 1 /\ v - p >= 1
  BY <1>8, <1>5
<1>10. PICK o : o = Opened(s)
  OBVIOUS
<1>11. /\ o \in Hunks /\ PieceOf(o, a, b) /\ o.lines = pending /\ Changed(o.lines) = {}
       /\ o.aStart = u - p /\ o.aLen = p /\ o.bStart = v - p /\ o.bLen = p
  <2>1. LET h == Opened(s)
        IN  /\ h \in Hunks /\ PieceOf(h, a, b) /\ h.lines = s.pending /\ Changed(h.lines) = {}
            /\ h.aStart = s.aLine - Len(s.pending) /\ h.aLen = Len(s.pending)
            /\ h.bStart = s.bLine - Len(s.pending) /\ h.bLen = Len(s.pending)
    <3>1. /\ s.pending \in Seq(Operations) /\ s.aLine \in Nat /\ s.bLine \in Nat
          /\ s.aLine - Len(s.pending) >= 1 /\ s.bLine - Len(s.pending) >= 1
      BY <1>1, <1>2, <1>9
    <3> QED
      BY <1>7, <3>1, OpenedPiece
  <2> QED
    BY <1>1, <1>2, <1>10, <2>1
<1>12. PICK h : h = Extended(o, op)
  OBVIOUS
<1>13. /\ h \in Hunks /\ PieceOf(h, a, b) /\ h.lines = Append(pending, op)
       /\ h.aStart = u - p /\ h.aLen = p + OldLines(op)
       /\ h.bStart = v - p /\ h.bLen = p + NewLines(op)
  <2>1. o.aStart + o.aLen = u /\ o.bStart + o.bLen = v
    BY <1>11
  <2>2. /\ op.kind # "add" => o.aStart + o.aLen \in DOMAIN a /\ op.line = a[o.aStart + o.aLen]
        /\ op.kind # "del" => o.bStart + o.bLen \in DOMAIN b /\ op.line = b[o.bStart + o.bLen]
    BY <1>1, <2>1 DEF OnPlace
  <2>3. LET e == Extended(o, op)
        IN  /\ e \in Hunks /\ PieceOf(e, a, b) /\ e.lines = Append(o.lines, op)
            /\ e.aStart = o.aStart /\ e.aLen = o.aLen + OldLines(op)
            /\ e.bStart = o.bStart /\ e.bLen = o.bLen + NewLines(op)
    <3>1. o \in Hunks /\ PieceOf(o, a, b)
      BY <1>11
    <3> QED
      BY <2>2, <3>1, ExtendedPiece
  <2> QED
    BY <1>11, <1>12, <2>3
<1>14. Spanned(h.lines) /\ Leading(h.lines) = p /\ Trailing(h.lines) = 0
  BY <1>2, <1>11, <1>13, AppendSpanned
<1>15. Changed(h.lines) = {p + 1}
  <2>1. LET e == Append(pending, op)
        IN  /\ e \in Seq(Operations) /\ Len(e) = Len(pending) + 1
            /\ \A x \in 1..Len(pending) : e[x] = pending[x]
            /\ e[Len(pending) + 1] = op
            /\ Changed(e) = IF op.kind = "equal" THEN Changed(pending)
                            ELSE Changed(pending) \cup {Len(pending) + 1}
            /\ Changed(pending) \in SUBSET (1..Len(pending))
    BY AppendOp
  <2> QED
    BY <1>2, <1>11, <1>13, <2>1
<1>16. PICK next : next = Append(hunks, h)
  OBVIOUS
<1>17. Agree(GapFrom(hunks, last + 1), StartOf(h), a, b)
  <2>1. AgreeAt(f, g, u - p, v - p, a, b)
    <3>1. AgreeAt(f, g, u, v, a, b) /\ f \in Int /\ g \in Int /\ u \in Int /\ v \in Int
      BY <1>7
    <3>2. \A n \in Nat : n <= u - f => AgreeAt(f, g, u - n, v - n, a, b)
      BY <3>1, AgreeMoved
    <3> QED
      BY <1>8, <3>2
  <2>2. PICK to : to = StartOf(h)
    OBVIOUS
  <2>3. to[1] = u - p /\ to[2] = v - p
    BY <1>13, <2>2 DEF StartOf
  <2>4. from[1] \in Int /\ from[2] \in Int /\ to[1] \in Int /\ to[2] \in Int
    BY <1>5, <2>3
  <2>5. AgreeAt(from[1], from[2], to[1], to[2], a, b)
    BY <1>5, <2>1, <2>3
  <2> QED
    BY <1>4, <2>2, <2>4, <2>5, AgreeIs
<1>18. next[last + 1] = h /\ GapFrom(next, last + 1) = GapFrom(hunks, last + 1)
  <2>1. next[last + 1] = h /\ \A k \in 1..last : next[k] = hunks[k]
    BY <1>2, <1>13, <1>16
  <2>2. last + 1 = 1 \/ (last + 1) - 1 \in 1..last
    OBVIOUS
  <2> QED
    BY <2>1, <2>2 DEF GapFrom
<1>19. LeadKept(next, last + 1)
  <2>1. GapFrom(next, last + 1)[1] = f
    BY <1>4, <1>18, <1>5
  <2>2. p < c => p = u - f - base
    BY <1>7
  <2>3. last + 1 = 1 => hunks = <<>>
    BY <1>2
  <2>4. last + 1 # 1 => base = c
    BY <1>2, <1>6
  <2>5. p < c => IF last + 1 = 1 THEN u - p = 1 ELSE c + (u - p - f) + p < 3 * c
    <3>1. CASE last + 1 = 1
      <4>1. base = 0 /\ f = 1
        BY <1>6, <1>5, <2>3, <3>1
      <4> QED
        BY <2>2, <3>1, <4>1
    <3>2. CASE last + 1 # 1
      <4>1. p < c => c + (u - p - f) + p = 2 * c + p
        BY <2>2, <2>4, <3>2
      <4> QED
        BY <3>2, <4>1
    <3> QED
      BY <3>1, <3>2
  <2>6. last + 1 > 1 => c + (u - p - f) + p >= 2 * c
    BY <1>7, <2>4
  <2> QED
    BY <1>0, <1>8, <1>13, <1>14, <1>18, <2>1, <2>5, <2>6 DEF LeadKept
<1>20. /\ next \in Seq(Hunks) /\ Len(next) = last + 1 /\ next[last + 1] = h
       /\ \A k \in 1..last : next[k] = hunks[k]
       /\ HunksInv(next, TRUE, a, b)
  <2>1. Trailing(h.lines) < 2 * Context /\ h.aStart >= 1 /\ h.bStart >= 1
    BY <1>0, <1>9, <1>13, <1>14
  <2>2. LET e == Append(hunks, h)
        IN  /\ e \in Seq(Hunks) /\ Len(e) = Len(hunks) + 1 /\ e[Len(hunks) + 1] = h
            /\ \A k \in 1..Len(hunks) : e[k] = hunks[k]
            /\ HunksInv(e, TRUE, a, b)
    BY <1>2, <1>3, <1>13, <1>14, <1>16, <1>17, <1>19, <2>1, HunkAdded
  <2> QED
    BY <1>2, <1>16, <2>2
<1>21. PICK i \in Nat, j \in Nat : i = OldLines(op) /\ j = NewLines(op)
  BY Steps
<1>22. PICK t : t = Scan(s, op, Context)
  OBVIOUS
<1>23. t = [hunks |-> next, open |-> TRUE, pending |-> <<>>, aLine |-> u + i, bLine |-> v + j]
  <2>1. s = [hunks |-> hunks, open |-> FALSE, pending |-> pending, aLine |-> u, bLine |-> v]
    BY <1>1, ScanFields DEF ScanInv
  <2>2. PICK x : x = Change(s, op)
    OBVIOUS
  <2>3. x = [s EXCEPT !.hunks = next, !.open = TRUE, !.pending = <<>>]
    BY <1>1, <1>10, <1>12, <1>16, <2>2 DEF Change
  <2>4. x = [hunks |-> next, open |-> TRUE, pending |-> <<>>, aLine |-> u, bLine |-> v]
    BY <2>1, <2>3
  <2>5. t = [x EXCEPT !.aLine = @ + i, !.bLine = @ + j]
    BY <1>21, <1>22, <2>2 DEF Scan
  <2> QED
    BY <2>4, <2>5
<1>24. t.hunks = next /\ t.open = TRUE /\ t.pending = <<>> /\ t.aLine = u + i /\ t.bLine = v + j
  BY <1>23
<1>25. t \in Scans
  <2>1. u + i \in Nat /\ v + j \in Nat /\ <<>> \in Seq(Operations)
    OBVIOUS
  <2> QED
    BY <1>20, <1>23, <2>1, ScanOf
<1>26. ScanInv(t, a, b)
  <2>1. h.aStart + h.aLen = u + i /\ h.bStart + h.bLen = v + j
    <3>1. (u - p) + (p + i) = u + i /\ (v - p) + (p + j) = v + j
      OBVIOUS
    <3> QED
      BY <1>13, <1>21, <3>1
  <2>2. EndOf(h) = <<u + i, v + j>>
    BY <2>1 DEF EndOf
  <2>3. next # <<>>
    BY <1>20
  <2>4. OpenInv(t)
    BY <1>20, <1>24, <2>2, <2>3 DEF OpenInv
  <2> QED
    BY <1>20, <1>24, <1>25, <2>4 DEF ScanInv
<1>27. /\ IsFiniteSet(Changes(next))
       /\ Cardinality(Changes(next)) = Cardinality(Changes(hunks)) + 1
  <2>1. DOMAIN hunks = 1..last /\ DOMAIN next = 1..last + 1
    BY <1>2, <1>20
  <2>2. last + 1 \notin 1..last /\ \A k : k \in 1..last + 1 <=> k \in 1..last \/ k = last + 1
    OBVIOUS
  <2>3. ~ChangeAt(hunks, last + 1, p + 1)
    BY <2>1, <2>2 DEF ChangeAt
  <2>4. \A k, x : ChangeAt(next, k, x) <=> ChangeAt(hunks, k, x) \/ (k = last + 1 /\ x = p + 1)
    BY <1>15, <1>20, <2>1, <2>2 DEF ChangeAt
  <2> QED
    BY <1>1, <2>3, <2>4, ChangesNext
<1> QED
  BY <1>1, <1>21, <1>22, <1>24, <1>26, <1>27 DEF OpScanned

\* So scanning an operation keeps the invariant, and shows the change if it is one.
LEMMA ScanStep ==
  ASSUME NEW a \in Seq(Lines), NEW b \in Seq(Lines), NEW s, ScanInv(s, a, b),
         NEW op \in Operations, OnPlace(s, op, a, b), IsFiniteSet(Changes(s.hunks))
  PROVE  OpScanned(s, op, Scan(s, op, Context), a, b)
BY ScanWaits, ScanOpens, ScanExtends, ScanCloses

ReadInv(d) ==
  /\ d.read \in 0..Len(d.ops)
  /\ d.scan.aLine = 1 + OldCount(d.ops, d.read) /\ d.scan.bLine = 1 + NewCount(d.ops, d.read)
  /\ IsFiniteSet(Changes(d.scan.hunks))
  /\ Cardinality(Changes(d.scan.hunks)) =
       2 * d.read - (d.scan.aLine - 1) - (d.scan.bLine - 1)

DiffInv(d, a, b) ==
  /\ d = [dp |-> d.dp, row |-> d.row, col |-> d.col, ops |-> d.ops, i |-> d.i, j |-> d.j,
          read |-> d.read, scan |-> d.scan]
  /\ TableInv(d, a, b) /\ WalkInv(d, a, b) /\ ScanInv(d.scan, a, b) /\ ReadInv(d)

\* A file of the instance.
LEMMA FileLines ==
  ASSUME NEW f \in Files
  PROVE  f \in Seq(Lines) \ {<<>>} /\ Len(f) \in 1..MaxLines
<1>0. MaxLines \in Nat
  BY InputsAssumption
<1>1. PICK n \in 1..MaxLines : f \in [1..n -> Lines]
  BY DEF Files
<1>2. f \in Seq(Lines) /\ Len(f) = n
  BY <1>0, <1>1
<1> QED
  BY <1>0, <1>1, <1>2

\* Before the loops.
LEMMA DiffBegins ==
  ASSUME NEW a \in Seq(Lines) \ {<<>>}, NEW b \in Seq(Lines) \ {<<>>}
  PROVE  DiffInv(DiffStart(a, b), a, b)
<1>0. Context \in Nat \ {0}
  BY InputsAssumption
<1>1. PICK d : d = DiffStart(a, b)
  OBVIOUS
<1>2. TableInv(d, a, b) /\ WalkInv(d, a, b)
  BY <1>1, TableStart, WalkBegins
<1>3. /\ d = [dp |-> d.dp, row |-> d.row, col |-> d.col, ops |-> d.ops, i |-> d.i, j |-> d.j,
              read |-> d.read, scan |-> d.scan]
      /\ d.ops = <<>> /\ d.read = 0 /\ d.scan = ScanStart
  BY <1>1 DEF DiffStart
<1>4. PICK s : s = ScanStart
  OBVIOUS
<1>5. s = [hunks |-> <<>>, open |-> FALSE, pending |-> <<>>, aLine |-> 1, bLine |-> 1]
  BY <1>4 DEF ScanStart
<1>6. s.hunks = <<>> /\ s.open = FALSE /\ s.pending = <<>> /\ s.aLine = 1 /\ s.bLine = 1
  BY <1>5
<1>7. s \in Scans
  <2>1. <<>> \in Seq(Hunks) /\ <<>> \in Seq(Operations) /\ 1 \in Nat
    OBVIOUS
  <2> QED
    BY <1>5, <2>1, ScanOf
<1>8. HunksInv(s.hunks, s.open, a, b) /\ Len(s.hunks) = 0 /\ Len(s.pending) = 0
  BY <1>6 DEF HunksInv
<1>9. ClosedInv(s, a, b)
  <2>1. PICK from : from = GapFrom(s.hunks, Len(s.hunks) + 1)
    OBVIOUS
  <2>2. from[1] = 1 /\ from[2] = 1
    BY <1>8, <2>1 DEF GapFrom
  <2>3. AgreeAt(1, 1, 1, 1, a, b)
    BY DEF AgreeAt
  <2>4. PendingInv(s, a, b)
    BY <1>8 DEF PendingInv
  <2>5. from[1] \in Nat /\ from[2] \in Nat /\ s.aLine \in Nat /\ s.bLine \in Nat
    BY <1>6, <2>2
  <2>6. s.aLine - from[1] - 0 = 0 /\ 0 < Context
    BY <1>0, <1>6, <2>2
  <2>7. LET seen == s.aLine - from[1] - (IF s.hunks = <<>> THEN 0 ELSE Context)
        IN  /\ AgreeAt(from[1], from[2], s.aLine, s.bLine, a, b) /\ PendingInv(s, a, b)
            /\ seen >= 0 /\ Len(s.pending) = IF seen < Context THEN seen ELSE Context
    BY <1>6, <1>8, <2>2, <2>3, <2>4, <2>6
  <2> QED
    BY <2>1, <2>5, <2>7, ClosedIs
<1>10. ScanInv(s, a, b)
  BY <1>6, <1>7, <1>8, <1>9 DEF ScanInv
<1>11. Changes(<<>>) = {}
  BY DEF Changes
<1>12. ReadInv(d)
  <2>1. OldCount(<<>>, 0) = 0 /\ NewCount(<<>>, 0) = 0 /\ Len(d.ops) = 0
    BY <1>3, CountStart
  <2>2. IsFiniteSet(Changes(s.hunks)) /\ Cardinality(Changes(s.hunks)) = 0
    BY <1>6, <1>11, FS_EmptySet
  <2> QED
    BY <1>3, <1>4, <1>6, <2>1, <2>2 DEF ReadInv
<1> QED
  BY <1>1, <1>2, <1>3, <1>4, <1>10, <1>12 DEF DiffInv

\* An iteration of the loops that fill the table,
LEMMA FillStep ==
  ASSUME NEW a \in Seq(Lines), NEW b \in Seq(Lines), NEW d, DiffInv(d, a, b), ~TableFull(d)
  PROVE  DiffInv(Fill(d, a, b), a, b)
<1>1. PICK dp, row, col, ops, i, j, read, scan :
        d = [dp |-> dp, row |-> row, col |-> col, ops |-> ops, i |-> i, j |-> j,
             read |-> read, scan |-> scan]
  BY DEF DiffInv
<1>2. /\ d.dp = dp /\ d.row = row /\ d.col = col /\ d.ops = ops /\ d.i = i /\ d.j = j
      /\ d.read = read /\ d.scan = scan
  BY <1>1
<1>3. PICK e : e = Fill(d, a, b)
  OBVIOUS
<1>4. PICK table : table = [dp EXCEPT ![row][col] = Cell(dp, a, b, row, col)]
  OBVIOUS
<1>5. e = [dp |-> table, row |-> IF col = 1 THEN row - 1 ELSE row,
           col |-> IF col = 1 THEN Len(b) ELSE col - 1,
           ops |-> ops, i |-> i, j |-> j, read |-> read, scan |-> scan]
  BY <1>1, <1>2, <1>3, <1>4 DEF Fill
<1>6. /\ e.dp = [d.dp EXCEPT ![d.row][d.col] = Cell(d.dp, a, b, d.row, d.col)]
      /\ e.row = IF d.col = 1 THEN d.row - 1 ELSE d.row
      /\ e.col = IF d.col = 1 THEN Len(b) ELSE d.col - 1
      /\ e.ops = d.ops /\ e.i = d.i /\ e.j = d.j /\ e.read = d.read /\ e.scan = d.scan
  BY <1>2, <1>4, <1>5
<1>7. e = [dp |-> e.dp, row |-> e.row, col |-> e.col, ops |-> e.ops, i |-> e.i, j |-> e.j,
           read |-> e.read, scan |-> e.scan]
  BY <1>5
<1>8. Len(a) \in Nat /\ Len(b) \in Nat
  OBVIOUS
<1>9. TableInv(e, a, b)
  BY <1>6, <1>8, TableStep DEF DiffInv
<1>10. WalkInv(e, a, b)
  BY <1>6, <1>8, <1>9, WalkWaits DEF DiffInv
<1> QED
  BY <1>3, <1>6, <1>7, <1>9, <1>10 DEF DiffInv, ReadInv

\* of those that list the operations,
LEMMA WalkStep ==
  ASSUME NEW a \in Seq(Lines), NEW b \in Seq(Lines), NEW d, DiffInv(d, a, b), TableFull(d),
         ~Walked(d, a, b)
  PROVE  DiffInv(Walk(d, a, b), a, b)
<1>1. PICK dp, row, col, ops, i, j, read, scan :
        d = [dp |-> dp, row |-> row, col |-> col, ops |-> ops, i |-> i, j |-> j,
             read |-> read, scan |-> scan]
  BY DEF DiffInv
<1>2. /\ d.dp = dp /\ d.row = row /\ d.col = col /\ d.ops = ops /\ d.i = i /\ d.j = j
      /\ d.read = read /\ d.scan = scan
  BY <1>1
<1>3. PICK e : e = Walk(d, a, b)
  OBVIOUS
<1>4. PICK kind : kind = NextKind(d, a, b)
  OBVIOUS
<1>5. PICK op : op = Op(kind, IF kind = "add" THEN b[d.j] ELSE a[d.i])
  OBVIOUS
<1>6. e = [dp |-> dp, row |-> row, col |-> col, ops |-> Append(ops, op),
           i |-> i + OldLines(op), j |-> j + NewLines(op), read |-> read, scan |-> scan]
  BY <1>1, <1>2, <1>3, <1>4, <1>5 DEF Walk
<1>7. /\ e.dp = d.dp /\ e.row = d.row /\ e.col = d.col /\ e.ops = Append(d.ops, op)
      /\ e.i = d.i + OldLines(op) /\ e.j = d.j + NewLines(op)
      /\ e.read = d.read /\ e.scan = d.scan
  BY <1>2, <1>6
<1>8. e = [dp |-> e.dp, row |-> e.row, col |-> e.col, ops |-> e.ops, i |-> e.i, j |-> e.j,
           read |-> e.read, scan |-> e.scan]
  BY <1>6
<1>9. TableInv(e, a, b)
  BY <1>7 DEF DiffInv, TableInv, Filled
<1>10. WalkInv(e, a, b)
  BY <1>4, <1>5, <1>7, WalkGoes DEF DiffInv
\* What was scanned of the list is not disturbed.
<1>11. ReadInv(e)
  <2>1. ops \in Seq(Operations) /\ read \in 0..Len(ops)
    BY <1>2 DEF DiffInv, WalkInv, ReadInv
  <2>2. \A x \in 1..read : Append(ops, op)[x] = ops[x]
    BY <2>1
  <2>3. read \in Nat /\ read \in 0..Len(Append(ops, op))
    BY <2>1
  <2>4. /\ OldCount(Append(ops, op), read) = OldCount(ops, read)
        /\ NewCount(Append(ops, op), read) = NewCount(ops, read)
    BY <2>2, <2>3, CountSame
  <2>5. e.ops = Append(ops, op) /\ e.read = read /\ e.scan = scan
    BY <1>2, <1>7
  <2>6. ReadInv(d)
    BY DEF DiffInv
  <2> QED
    BY <1>2, <2>3, <2>4, <2>5, <2>6 DEF ReadInv
<1> QED
  BY <1>3, <1>7, <1>8, <1>9, <1>10, <1>11 DEF DiffInv

\* and of the one that makes the hunks.
LEMMA ScanOpStep ==
  ASSUME NEW a \in Seq(Lines), NEW b \in Seq(Lines), NEW d, DiffInv(d, a, b), ~Scanned(d)
  PROVE  DiffInv(ScanOp(d, Context), a, b)
<1>1. PICK dp, row, col, ops, i, j, read, scan :
        d = [dp |-> dp, row |-> row, col |-> col, ops |-> ops, i |-> i, j |-> j,
             read |-> read, scan |-> scan]
  BY DEF DiffInv
<1>2. /\ d.dp = dp /\ d.row = row /\ d.col = col /\ d.ops = ops /\ d.i = i /\ d.j = j
      /\ d.read = read /\ d.scan = scan
  BY <1>1
<1>3. PICK e : e = ScanOp(d, Context)
  OBVIOUS
<1>4. PICK op : op = ops[read + 1]
  OBVIOUS
<1>5. PICK t : t = Scan(scan, op, Context)
  OBVIOUS
<1>6. e = [dp |-> dp, row |-> row, col |-> col, ops |-> ops, i |-> i, j |-> j,
           read |-> read + 1, scan |-> t]
  BY <1>1, <1>2, <1>3, <1>4, <1>5 DEF ScanOp
<1>7. /\ e.dp = d.dp /\ e.row = d.row /\ e.col = d.col /\ e.ops = ops
      /\ e.i = d.i /\ e.j = d.j /\ e.read = read + 1 /\ e.scan = t
  BY <1>2, <1>6
<1>8. e = [dp |-> e.dp, row |-> e.row, col |-> e.col, ops |-> e.ops, i |-> e.i, j |-> e.j,
           read |-> e.read, scan |-> e.scan]
  BY <1>6
<1>9. TableInv(e, a, b) /\ WalkInv(e, a, b)
  BY <1>2, <1>7 DEF DiffInv, TableInv, Filled, WalkInv, TableFull
<1>10. /\ ops \in Seq(Operations) /\ Listed(ops, a, b) /\ read \in Nat
       /\ read \in 0..Len(ops) /\ read + 1 \in 1..Len(ops)
  <2>1. ops \in Seq(Operations) /\ Listed(ops, a, b) /\ read \in 0..Len(ops) /\ read # Len(ops)
    BY <1>2 DEF DiffInv, WalkInv, ReadInv, Scanned
  <2> QED
    BY <2>1
<1>11. /\ ScanInv(scan, a, b) /\ scan.aLine = 1 + OldCount(ops, read)
       /\ scan.bLine = 1 + NewCount(ops, read) /\ IsFiniteSet(Changes(scan.hunks))
       /\ Cardinality(Changes(scan.hunks)) = 2 * read - (scan.aLine - 1) - (scan.bLine - 1)
  BY <1>2 DEF DiffInv, ReadInv
<1>12. op \in Operations
  BY <1>4, <1>10
<1>13. OnPlace(scan, op, a, b)
  <2>1. (read + 1) - 1 = read
    BY <1>10
  <2> QED
    BY <1>4, <1>10, <1>11, <2>1 DEF Listed, OnPlace
<1>14. OpScanned(scan, op, t, a, b)
  BY <1>5, <1>11, <1>12, <1>13, ScanStep
<1>15. ReadInv(e)
  <2>1. PICK u \in Nat, v \in Nat : u = OldCount(ops, read) /\ v = NewCount(ops, read)
    BY <1>10, CountNext
  <2>2. PICK x \in Nat, y \in Nat : x = OldLines(op) /\ y = NewLines(op)
    BY Steps
  <2>3. OldCount(ops, read + 1) = u + x /\ NewCount(ops, read + 1) = v + y
    BY <1>4, <1>10, <2>1, <2>2, CountNext
  <2>4. t.aLine = 1 + (u + x) /\ t.bLine = 1 + (v + y)
    <3>1. t.aLine = (1 + u) + x /\ t.bLine = (1 + v) + y
      BY <1>11, <1>14, <2>1, <2>2 DEF OpScanned
    <3> QED
      BY <3>1
  <2>5. x + y = IF op.kind = "equal" THEN 2 ELSE 1
    BY <1>12, <2>2 DEF Operations, OldLines, NewLines
  <2>6. Cardinality(Changes(scan.hunks)) = 2 * read - u - v
    <3>1. (1 + u) - 1 = u /\ (1 + v) - 1 = v
      OBVIOUS
    <3> QED
      BY <1>11, <2>1, <3>1
  <2>7. Cardinality(Changes(t.hunks)) = 2 * (read + 1) - (u + x) - (v + y)
    <3>1. Cardinality(Changes(t.hunks)) = (2 * read - u - v) + IF op.kind = "equal" THEN 0 ELSE 1
      BY <1>14, <2>6 DEF OpScanned
    <3>2. read \in Nat
      BY <1>10
    <3> QED
      BY <2>5, <3>1, <3>2
  <2>8. (1 + (u + x)) - 1 = u + x /\ (1 + (v + y)) - 1 = v + y
    OBVIOUS
  <2>9. IsFiniteSet(Changes(t.hunks))
    BY <1>14 DEF OpScanned
  <2>10. 2 * (read + 1) - (t.aLine - 1) - (t.bLine - 1) = 2 * (read + 1) - (u + x) - (v + y)
    BY <2>4, <2>8
  <2>11. read + 1 \in 0..Len(ops)
    BY <1>10
  <2> QED
    BY <1>7, <2>3, <2>4, <2>7, <2>9, <2>10, <2>11 DEF ReadInv
<1> QED
  BY <1>3, <1>7, <1>8, <1>9, <1>14, <1>15 DEF DiffInv, OpScanned

\* What the loops have come to when the last of them ends.
LEMMA DiffEnds ==
  ASSUME NEW a \in Seq(Lines) \ {<<>>}, NEW b \in Seq(Lines) \ {<<>>}, NEW d, DiffInv(d, a, b),
         TableFull(d), Walked(d, a, b), Scanned(d)
  PROVE  /\ d.scan.aLine = Len(a) + 1 /\ d.scan.bLine = Len(b) + 1
         /\ d.dp[1][1] \in Nat /\ LongestAt(d.dp, a, b, 1, 1)
         /\ IsFiniteSet(Changes(d.scan.hunks))
         /\ Cardinality(Changes(d.scan.hunks)) = Len(a) + Len(b) - 2 * d.dp[1][1]
<1>1. PICK n \in Nat, m \in Nat : n = Len(a) /\ m = Len(b) /\ n >= 1 /\ m >= 1
  OBVIOUS
<1>2. d.dp \in Table(n, m) /\ d.row = 0
  BY <1>1 DEF DiffInv, TableInv, TableFull
<1>3. /\ 1 \in 1..n /\ 1 \in 1..m /\ 1 \in 1..n + 1 /\ 1 \in 1..m + 1
      /\ n + 1 \in 1..n + 1 /\ m + 1 \in 1..m + 1
  BY <1>1
<1>4. d.dp[1][1] \in Nat
  BY <1>2, <1>3, TableRead
<1>5. Filled(d, 1, 1)
  BY <1>2 DEF Filled
<1>6. LongestAt(d.dp, a, b, 1, 1)
  BY <1>1, <1>3, <1>5 DEF DiffInv, TableInv
<1>7. PICK l \in Nat : l = Len(d.ops)
  <2>1. PICK ops \in Seq(Operations) : ops = d.ops
    BY DEF DiffInv, WalkInv
  <2>2. Len(ops) \in Nat
    OBVIOUS
  <2> QED
    BY <2>1, <2>2
<1>8. d.i = n + 1 /\ d.j = m + 1
  <2>1. d.i \in 1..n + 1 /\ d.j \in 1..m + 1 /\ d.i > n /\ d.j > m
    BY <1>1 DEF DiffInv, WalkInv, Walked
  <2> QED
    BY <2>1
<1>9. d.dp[n + 1][m + 1] = 0
  BY <1>1, <1>3 DEF DiffInv, TableInv
<1>10. n + m - l = d.dp[1][1]
  <2>1. (d.i - 1) + (d.j - 1) - l + d.dp[d.i][d.j] = d.dp[1][1]
    BY <1>7 DEF DiffInv, WalkInv
  <2>2. (n + 1 - 1) + (m + 1 - 1) - l + 0 = d.dp[1][1]
    BY <1>8, <1>9, <2>1
  <2> QED
    BY <1>4, <2>2
<1>11. d.scan.aLine = n + 1 /\ d.scan.bLine = m + 1
  <2>1. d.read = l
    BY <1>7 DEF Scanned
  <2>2. d.scan.aLine = d.i /\ d.scan.bLine = d.j
    BY <1>7, <2>1 DEF DiffInv, ReadInv, WalkInv
  <2> QED
    BY <1>8, <2>2
<1>12. Cardinality(Changes(d.scan.hunks)) = n + m - 2 * d.dp[1][1]
  <2>1. Cardinality(Changes(d.scan.hunks)) = 2 * l - (n + 1 - 1) - (m + 1 - 1)
    BY <1>7, <1>11 DEF DiffInv, ReadInv, Scanned
  <2> QED
    BY <1>4, <1>10, <2>1
<1> QED
  BY <1>1, <1>4, <1>6, <1>11, <1>12 DEF DiffInv, ReadInv

\* No common subsequence leaves fewer lines to delete and add than are shown.
LEMMA FewestShown ==
  ASSUME NEW a \in Files, NEW b \in Files, NEW dp, dp[1][1] \in Nat,
         LongestAt(dp, a, b, 1, 1), NEW hunks,
         Cardinality(Changes(hunks)) = Len(a) + Len(b) - 2 * dp[1][1]
  PROVE  Shortest(hunks, a, b)
<1>1. PICK n \in 1..MaxLines, m \in 1..MaxLines : n = Len(a) /\ m = Len(b)
  BY FileLines
<1>2. n \in Nat /\ m \in Nat
  BY <1>1
<1> SUFFICES ASSUME NEW s \in Subsequences(a) \cap Subsequences(b)
             PROVE  Cardinality(Changes(hunks)) <= n + m - 2 * Len(s)
  BY <1>1 DEF Shortest
<1>3. PICK f \in Selections[n], g \in Selections[m] :
        s = [x \in DOMAIN f |-> a[f[x]]] /\ s = [x \in DOMAIN g |-> b[g[x]]]
  BY <1>1 DEF Subsequences
<1>4. PICK k \in 0..n : f \in [1..k -> 1..n] /\ \A x, y \in DOMAIN f : x < y => f[x] < f[y]
  BY <1>1 DEF Selections
<1>5. PICK l \in 0..m : g \in [1..l -> 1..m] /\ \A x, y \in DOMAIN g : x < y => g[x] < g[y]
  BY <1>1 DEF Selections
<1>6. DOMAIN s = 1..k /\ 1..l = 1..k
  <2>1. DOMAIN s = DOMAIN f /\ DOMAIN s = DOMAIN g
    BY <1>3
  <2>2. DOMAIN f = 1..k /\ DOMAIN g = 1..l
    BY <1>4, <1>5
  <2> QED
    BY <2>1, <2>2
<1>7. k = l
  <2>1. k \in Nat /\ l \in Nat
    BY <1>4, <1>5
  <2>2. k \in 1..k \/ k = 0
    BY <2>1
  <2>3. l \in 1..l \/ l = 0
    BY <2>1
  <2> QED
    BY <1>6, <2>1, <2>2, <2>3
<1>8. \A x \in 1..k : s[x] = a[f[x]] /\ s[x] = b[g[x]]
  BY <1>3, <1>4, <1>5, <1>7
<1>9. Matching(a, b, 1, 1, k, f, g)
  <2>1. f \in [1..k -> 1..Len(a)] /\ g \in [1..k -> 1..Len(b)]
    BY <1>1, <1>4, <1>5, <1>7
  <2>2. \A r, t \in 1..k : r < t => f[r] < f[t] /\ g[r] < g[t]
    BY <1>4, <1>5, <1>7
  <2>3. \A r \in 1..k : a[f[r]] = b[g[r]]
    BY <1>8
  <2> QED
    BY <2>1, <2>2, <2>3 DEF Matching
<1>10. k \in Nat
  BY <1>4
<1>11. k <= dp[1][1]
  BY <1>9, <1>10 DEF LongestAt
<1>12. Len(s) = k
  <2>1. a \in Seq(Lines)
    BY FileLines
  <2>2. \A x \in 1..k : f[x] \in 1..Len(a)
    BY <1>1, <1>4
  <2>3. \A x \in 1..k : a[f[x]] \in Lines
    BY <2>1, <2>2
  <2>4. s = [x \in 1..k |-> a[f[x]]]
    BY <1>3, <1>4
  <2>5. s \in Seq(Lines)
    BY <1>10, <2>3, <2>4
  <2> QED
    BY <1>6, <1>10, <2>5
<1> QED
  BY <1>1, <1>2, <1>10, <1>11, <1>12

\* A diff of a file with itself has nothing to show.
LEMMA SameShowsNothing ==
  ASSUME NEW a \in Seq(Lines), NEW dp, dp[1][1] \in Nat, LongestAt(dp, a, a, 1, 1),
         NEW hunks \in Seq(Hunks), HunksInv(hunks, FALSE, a, a) \/ HunksInv(hunks, TRUE, a, a),
         IsFiniteSet(Changes(hunks)),
         Cardinality(Changes(hunks)) = Len(a) + Len(a) - 2 * dp[1][1]
  PROVE  hunks = <<>>
<1>1. PICK n \in Nat : n = Len(a)
  OBVIOUS
<1>2. PICK f : f = [r \in 1..n |-> r]
  OBVIOUS
<1>3. f \in [1..n -> 1..n] /\ \A r \in 1..n : f[r] = r
  BY <1>2
<1>4. Matching(a, a, 1, 1, n, f, f)
  BY <1>1, <1>3 DEF Matching
<1>5. n <= dp[1][1]
  BY <1>4 DEF LongestAt
<1>6. Cardinality(Changes(hunks)) \in Nat
  BY FS_CardinalityType
<1>7. Cardinality(Changes(hunks)) = 0
  BY <1>1, <1>5, <1>6
<1>8. Changes(hunks) = {}
  BY <1>7, FS_EmptySet
<1>9. ASSUME hunks # <<>> PROVE FALSE
  <2>1. 1 \in 1..Len(hunks) /\ 1 \in DOMAIN hunks
    BY <1>9
  <2>2. Spanned(hunks[1].lines)
    BY <2>1 DEF HunksInv, HunkInv
  <2>3. PICK x : x \in Changed(hunks[1].lines)
    BY <2>2 DEF Spanned
  <2>4. ChangeAt(hunks, 1, x)
    BY <2>1, <2>3 DEF ChangeAt
  <2>5. <<1, x>> \in Changes(hunks)
    BY <2>4, InChanges
  <2> QED
    BY <1>8, <2>5
<1> QED
  BY <1>9

\* Files that agree to their ends are equal.
LEMMA AgreeSame ==
  ASSUME NEW a \in Seq(Lines), NEW b \in Seq(Lines), AgreeAt(1, 1, Len(a) + 1, Len(b) + 1, a, b)
  PROVE  a = b
<1>1. PICK n \in Nat, m \in Nat : n = Len(a) /\ m = Len(b)
  OBVIOUS
<1>2. n = m
  <2>1. m + 1 - 1 = n + 1 - 1
    BY <1>1 DEF AgreeAt
  <2> QED
    BY <2>1
<1>3. ASSUME NEW x \in 1..n PROVE a[x] = b[x]
  <2>1. PICK y \in Nat : y = x - 1
    OBVIOUS
  <2>2. y \in 0..n + 1 - 1 - 1 /\ 1 + y = x
    BY <2>1
  <2>3. a[1 + y] = b[1 + y]
    BY <1>1, <2>2 DEF AgreeAt
  <2> QED
    BY <2>2, <2>3
<1>4. PICK F : F = [1..n -> Lines]
  OBVIOUS
<1>5. a \in F
  BY <1>1, <1>4
<1>6. b \in F
  BY <1>1, <1>2, <1>4
<1> QED
  BY <1>3, <1>4, <1>5, <1>6

\* From the last hunk to the ends of the files, and what is shown of it.
LEMMA LastGap ==
  ASSUME NEW a \in Seq(Lines), NEW b \in Seq(Lines), NEW s, ScanInv(s, a, b),
         s.aLine = Len(a) + 1, s.bLine = Len(b) + 1
  PROVE  LET k == Len(s.hunks) + 1
         IN  /\ Agree(GapFrom(s.hunks, k), GapTo(s.hunks, k, a, b), a, b)
             /\ s.open => GapTo(s.hunks, k, a, b) = GapFrom(s.hunks, k)
<1>1. s \in Scans /\ s.hunks \in Seq(Hunks)
  BY ScanFields DEF ScanInv
<1>2. PICK l \in Nat : l = Len(s.hunks)
  BY <1>1
<1>3. PICK from : from = GapFrom(s.hunks, l + 1)
  OBVIOUS
<1>4. GapTo(s.hunks, l + 1, a, b) = <<s.aLine, s.bLine>>
  BY <1>2 DEF GapTo
<1>5. CASE ~s.open
  <2>1. ClosedInv(s, a, b)
    BY <1>5 DEF ScanInv
  <2>2. Agree(from, <<s.aLine, s.bLine>>, a, b)
    BY <1>2, <1>3, <2>1 DEF ClosedInv
  <2> QED
    BY <1>2, <1>3, <1>4, <1>5, <2>2
<1>6. CASE s.open
  <2>1. s.hunks # <<>> /\ EndOf(s.hunks[Len(s.hunks)]) = <<s.aLine, s.bLine>>
    BY <1>6 DEF ScanInv, OpenInv
  <2>2. l # 0
    BY <1>1, <1>2, <2>1
  <2>3. from = <<s.aLine, s.bLine>>
    <3>1. l + 1 # 1 /\ l + 1 - 1 = l
      BY <2>2
    <3> QED
      BY <1>2, <1>3, <2>1, <3>1 DEF GapFrom
  <2>4. PICK u \in Nat, v \in Nat : u = s.aLine /\ v = s.bLine
    OBVIOUS
  <2>5. from[1] = u /\ from[2] = v
    BY <2>3, <2>4
  <2>6. AgreeAt(u, v, u, v, a, b)
    BY DEF AgreeAt
  <2>7. Agree(from, from, a, b)
    <3>1. from[1] \in Int /\ from[2] \in Int
      BY <2>5
    <3>2. AgreeAt(from[1], from[2], from[1], from[2], a, b)
      BY <2>5, <2>6
    <3> QED
      BY <3>1, <3>2, AgreeIs
  <2> QED
    BY <1>2, <1>3, <1>4, <2>3, <2>7
<1> QED
  BY <1>5, <1>6

\* Every hunk and every gap, when the scan has read both files.
LEMMA HunksShown ==
  ASSUME NEW a \in Seq(Lines), NEW b \in Seq(Lines), NEW s, ScanInv(s, a, b),
         s.aLine = Len(a) + 1, s.bLine = Len(b) + 1
  PROVE  /\ AgreeAround(s.hunks, a, b)
         /\ \A k \in DOMAIN s.hunks :
              PieceOf(s.hunks[k], a, b) /\ LeadKept(s.hunks, k) /\ TrailKept(s.hunks, k, a, b)
<1>0. PICK c \in Nat \ {0} : c = Context
  BY InputsAssumption
<1>1. s \in Scans /\ s.hunks \in Seq(Hunks) /\ s.open \in BOOLEAN /\ HunksInv(s.hunks, s.open, a, b)
  BY ScanFields DEF ScanInv
<1>2. PICK hunks : hunks = s.hunks
  OBVIOUS
<1>3. PICK l \in Nat : l = Len(hunks)
  BY <1>1, <1>2
<1>4. DOMAIN hunks = 1..l
  BY <1>1, <1>2, <1>3
<1>5. /\ Agree(GapFrom(hunks, l + 1), GapTo(hunks, l + 1, a, b), a, b)
      /\ s.open => GapTo(hunks, l + 1, a, b) = GapFrom(hunks, l + 1)
  BY <1>2, <1>3, LastGap
<1>6. ASSUME NEW k \in 1..l
      PROVE  /\ Agree(GapFrom(hunks, k), GapTo(hunks, k, a, b), a, b)
             /\ PieceOf(hunks[k], a, b) /\ LeadKept(hunks, k) /\ TrailKept(hunks, k, a, b)
  <2>1. HunkInv(hunks, k, s.open, a, b)
    BY <1>1, <1>2, <1>3 DEF HunksInv
  <2>2. PieceOf(hunks[k], a, b) /\ LeadKept(hunks, k)
    BY <2>1 DEF HunkInv
  <2>3. Agree(GapFrom(hunks, k), GapTo(hunks, k, a, b), a, b)
    <3>1. GapTo(hunks, k, a, b) = StartOf(hunks[k])
      BY <1>3 DEF GapTo
    <3> QED
      BY <2>1, <3>1 DEF HunkInv
  <2>4. PICK trail : trail = Trailing(hunks[k].lines)
    OBVIOUS
  <2>5. IF s.open /\ k = l THEN trail < 2 * c ELSE trail = c
    BY <1>0, <1>3, <2>1, <2>4 DEF HunkInv
  <2>6. trail \in Int
    <3>1. hunks[k] \in Hunks
      BY <1>1, <1>2, <1>3
    <3>2. hunks[k].lines \in Seq(Operations) /\ Spanned(hunks[k].lines)
      BY <2>1, <3>1, HunkFields DEF HunkInv
    <3> QED
      BY <2>4, <3>2, LengthTrailing
  <2>7. /\ trail < 2 * c /\ (trail < c => k = l)
        /\ trail # c => s.open /\ k = l
    BY <2>5, <2>6
  <2>8. TrailKept(hunks, k, a, b)
    BY <1>0, <1>3, <1>5, <2>4, <2>7 DEF TrailKept
  <2> QED
    BY <2>2, <2>3, <2>8
<1>7. \A k \in 1..l + 1 : k \in 1..l \/ k = l + 1
  OBVIOUS
<1>8. AgreeAround(hunks, a, b)
  BY <1>3, <1>5, <1>6, <1>7 DEF AgreeAround
<1> QED
  BY <1>2, <1>4, <1>6, <1>8

\* So the hunks say what turns one file into the other.
LEMMA DiffDone ==
  ASSUME NEW a \in Files, NEW b \in Files, NEW d, DiffInv(d, a, b),
         TableFull(d), Walked(d, a, b), Scanned(d)
  PROVE  Faithful(d.scan.hunks, a, b)
<1>1. a \in Seq(Lines) \ {<<>>} /\ b \in Seq(Lines) \ {<<>>}
  BY FileLines
<1>2. PICK s, dp : s = d.scan /\ dp = d.dp
  OBVIOUS
<1>3. PICK hunks : hunks = s.hunks
  OBVIOUS
<1>4. /\ s.aLine = Len(a) + 1 /\ s.bLine = Len(b) + 1
      /\ dp[1][1] \in Nat /\ LongestAt(dp, a, b, 1, 1) /\ IsFiniteSet(Changes(hunks))
      /\ Cardinality(Changes(hunks)) = Len(a) + Len(b) - 2 * dp[1][1]
  BY <1>1, <1>2, <1>3, DiffEnds
<1>5. ScanInv(s, a, b)
  BY <1>2 DEF DiffInv
<1>6. s.open \in BOOLEAN /\ hunks \in Seq(Hunks) /\ HunksInv(hunks, s.open, a, b)
  BY <1>3, <1>5, ScanFields DEF ScanInv
<1>7. Shortest(hunks, a, b)
  BY <1>4, FewestShown
<1>8. a = b => hunks = <<>>
  <2>1. HunksInv(hunks, FALSE, a, b) \/ HunksInv(hunks, TRUE, a, b)
    BY <1>6
  <2> QED
    BY <1>1, <1>4, <1>6, <2>1, SameShowsNothing
<1>9. ASSUME hunks = <<>> PROVE a = b
  <2>1. ~s.open
    BY <1>3, <1>5, <1>9 DEF ScanInv, OpenInv
  <2>2. PICK from : from = GapFrom(hunks, Len(hunks) + 1)
    OBVIOUS
  <2>3. from[1] = 1 /\ from[2] = 1
    BY <1>9, <2>2 DEF GapFrom
  <2>4. ClosedInv(s, a, b)
    BY <1>5, <2>1 DEF ScanInv
  <2>5. Agree(from, <<s.aLine, s.bLine>>, a, b)
    BY <1>3, <2>2, <2>4 DEF ClosedInv
  <2>6. PICK to : to = <<s.aLine, s.bLine>>
    OBVIOUS
  <2>7. to[1] = Len(a) + 1 /\ to[2] = Len(b) + 1 /\ Len(a) \in Nat /\ Len(b) \in Nat
    BY <1>1, <1>4, <2>6
  <2>8. AgreeAt(1, 1, Len(a) + 1, Len(b) + 1, a, b)
    <3>1. Agree(from, to, a, b)
      BY <2>5, <2>6
    <3>2. from[1] \in Int /\ from[2] \in Int /\ to[1] \in Int /\ to[2] \in Int
      BY <2>3, <2>7
    <3>3. AgreeAt(from[1], from[2], to[1], to[2], a, b)
      BY <3>1, <3>2, AgreeIs
    <3> QED
      BY <2>3, <2>7, <3>3
  <2> QED
    BY <1>1, <2>8, AgreeSame
<1>10. /\ AgreeAround(hunks, a, b)
       /\ \A k \in DOMAIN hunks :
            PieceOf(hunks[k], a, b) /\ LeadKept(hunks, k) /\ TrailKept(hunks, k, a, b)
  BY <1>1, <1>3, <1>4, <1>5, HunksShown
<1> QED
  BY <1>2, <1>3, <1>7, <1>8, <1>9, <1>10 DEF Faithful

\* A call of unifiedDiff has two files of the instance, and its loops what they should.
CallInv ==
  call.fn = "unifiedDiff" =>
    /\ call = [fn |-> "unifiedDiff", input |-> call.input, result |-> call.result]
    /\ call.input.a \in Files /\ call.input.b \in Files
    /\ DiffInv(call.result, call.input.a, call.input.b)

\* An iteration that keeps the invariant of the loops keeps that of the call.
LEMMA LoopStep ==
  ASSUME CallInv, call.fn = "unifiedDiff", NEW next, call' = [call EXCEPT !.result = next],
         DiffInv(next, call.input.a, call.input.b)
  PROVE  CallInv'
<1>1. PICK in, d : call = [fn |-> "unifiedDiff", input |-> in, result |-> d]
  BY DEF CallInv
<1>2. call.input = in
  BY <1>1
<1>3. call' = [fn |-> "unifiedDiff", input |-> in, result |-> next]
  BY <1>1
<1>4. call'.fn = "unifiedDiff" /\ call'.input = in /\ call'.result = next
  BY <1>3
<1>5. in.a \in Files /\ in.b \in Files /\ DiffInv(next, in.a, in.b)
  BY <1>2 DEF CallInv
<1> QED
  BY <1>3, <1>4, <1>5 DEF CallInv

\* It is an invariant of the calls.
LEMMA CallInvariant == CallSpec => []CallInv
<1>1. CallInit => CallInv
  <2> SUFFICES ASSUME CallInit, call.fn = "unifiedDiff" PROVE CallInv
    BY DEF CallInv
  <2>1. PICK a \in Files, b \in Files :
          call = [fn |-> "unifiedDiff", input |-> [a |-> a, b |-> b], result |-> DiffStart(a, b)]
    BY DEF CallInit, Calling
  <2>2. PICK d : d = DiffStart(a, b)
    OBVIOUS
  <2>3. /\ call = [fn |-> "unifiedDiff", input |-> call.input, result |-> call.result]
        /\ call.input.a = a /\ call.input.b = b /\ call.result = d
    BY <2>1, <2>2
  <2>4. DiffInv(d, a, b)
    BY <2>2, FileLines, DiffBegins
  <2> QED
    BY <2>3, <2>4 DEF CallInv
<1>2. CallInv /\ [CallNext]_call => CallInv'
  <2> SUFFICES ASSUME CallInv, [CallNext]_call PROVE CallInv'
    OBVIOUS
  <2>1. ASSUME call.fn = "unifiedDiff"
        PROVE  /\ call.input.a \in Seq(Lines) /\ call.input.b \in Seq(Lines)
               /\ DiffInv(call.result, call.input.a, call.input.b)
    BY <2>1, FileLines DEF CallInv
  <2>2. CASE FillCell
    <3>1. /\ call.fn = "unifiedDiff" /\ ~TableFull(call.result)
          /\ call' = [call EXCEPT !.result = Fill(call.result, call.input.a, call.input.b)]
      BY <2>2 DEF FillCell
    <3>2. DiffInv(Fill(call.result, call.input.a, call.input.b), call.input.a, call.input.b)
      BY <2>1, <3>1, FillStep
    <3> QED
      BY <3>1, <3>2, LoopStep
  <2>3. CASE WalkOn
    <3>1. /\ call.fn = "unifiedDiff" /\ TableFull(call.result)
          /\ ~Walked(call.result, call.input.a, call.input.b)
          /\ call' = [call EXCEPT !.result = Walk(call.result, call.input.a, call.input.b)]
      BY <2>3 DEF WalkOn
    <3>2. DiffInv(Walk(call.result, call.input.a, call.input.b), call.input.a, call.input.b)
      BY <2>1, <3>1, WalkStep
    <3> QED
      BY <3>1, <3>2, LoopStep
  <2>4. CASE ScanOn
    <3>1. /\ call.fn = "unifiedDiff" /\ ~Scanned(call.result)
          /\ call' = [call EXCEPT !.result = ScanOp(call.result, Context)]
      BY <2>4 DEF ScanOn
    <3>2. DiffInv(ScanOp(call.result, Context), call.input.a, call.input.b)
      BY <2>1, <3>1, ScanOpStep
    <3> QED
      BY <3>1, <3>2, LoopStep
  <2>5. CASE ReturnNextRun
    <3>1. call.fn = "ComputeNextRunFull" /\ call'.fn = call.fn
      BY <2>5 DEF ReturnNextRun
    <3> QED
      BY <3>1 DEF CallInv
  <2>6. CASE NextStart
    <3>1. call.fn = "StartTask" /\ call'.fn = call.fn
      BY <2>6 DEF NextStart
    <3> QED
      BY <3>1 DEF CallInv
  <2>7. CASE UNCHANGED call
    BY <2>7 DEF CallInv
  <2> QED
    BY <2>2, <2>3, <2>4, <2>5, <2>6, <2>7 DEF CallNext
<1> QED
  BY <1>1, <1>2, PTL DEF CallSpec

\* The diff shown turns one version of an artifact into the other, at the lines its
\* headers say and with no more lines deleted and added than needed, in files of any
\* length and with any number of lines of context.
THEOREM DiffFaithfulHolds == CallSpec => []DiffFaithful
<1>1. CallInv => DiffFaithful
  BY DiffDone DEF CallInv, DiffFaithful
<1> QED
  BY <1>1, CallInvariant, PTL
=============================================================================
