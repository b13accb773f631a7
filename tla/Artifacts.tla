----------------------------- MODULE Artifacts -----------------------------
(***************************************************************************)
(* Attachments: the rows that a sync creates for the URLs it sees          *)
(* (manager.extractAndEnqueueArtifacts, artifacts.Repo.Create), the        *)
(* goroutines that download them (artifacts.Downloader), and the retention *)
(* sweep (artifacts.Repo.Prune) that removes old files and rows.           *)
(*                                                                         *)
(* The table and the directory are two stores: a step changes one of them, *)
(* and the process may die, or a context expire, between two steps.        *)
(***************************************************************************)
EXTENDS Integers, FiniteSets

CONSTANTS
  Ids,       \* artifact ids: fresh UUIDs, never reused
  URLs,      \* attachment URLs of one session
  Syncs,     \* calls of SyncSession
  Sweeps,    \* calls of Prune
  None,      \* no row yet, an idle goroutine
  Gone,      \* a deleted row
  Limit,     \* the LIMIT of Prune's query
  MaxCancels \* bound on cancelled sweeps

ASSUME LimitAssumption == Limit \in Nat \ {0} /\ MaxCancels \in Nat
ASSUME FiniteAssumption == IsFiniteSet(Ids)

Stages == {"mark", "get", "copy", "rename", "ready", "fail"}
Status == {"pending", "downloading", "ready", "failed"}
Row    == [url : URLs, status : Status, pinned : BOOLEAN, old : BOOLEAN]
Sync   == [url : URLs, id : Ids \cup {None}]
Sweep  == [batch : SUBSET Ids, removed : SUBSET Ids, cancelled : BOOLEAN]

ASSUME NoneAssumption ==
  /\ None # Gone /\ {None, Gone} \cap Row = {}
  /\ None \notin Ids \cup Stages /\ None \notin Sync /\ None \notin Sweep

VARIABLES
  rows,     \* the artifacts table: a row, None before Create, Gone after Prune
  parts,    \* ids with a .part file
  files,    \* ids with a file under the final name
  inflight, \* the downloader's set of busy ids
  fetch,    \* per id: what its download goroutine does next, or None
  sync,     \* per SyncSession: the URL it is registering and its row, or None
  sweep,    \* per Prune: the rows left, those whose file is removed, or None
  cancels   \* sweeps cancelled so far

vars == <<rows, parts, files, inflight, fetch, sync, sweep, cancels>>

Exists(a) == rows[a] \notin {None, Gone}
Is(a, s)  == Exists(a) /\ rows[a].status = s

TypeOK ==
  /\ rows \in [Ids -> Row \cup {None, Gone}]
  /\ parts \subseteq Ids /\ files \subseteq Ids /\ inflight \subseteq Ids
  /\ fetch \in [Ids -> Stages \cup {None}]
  /\ sync \in [Syncs -> Sync \cup {None}]
  /\ sweep \in [Sweeps -> Sweep \cup {None}]
  /\ cancels \in 0 .. MaxCancels

Init ==
  /\ rows = [a \in Ids |-> None]
  /\ parts = {} /\ files = {} /\ inflight = {}
  /\ fetch = [a \in Ids |-> None]
  /\ sync = [j \in Syncs |-> None]
  /\ sweep = [p \in Sweeps |-> None]
  /\ cancels = 0

-----------------------------------------------------------------------------
(* A sync registers the URLs of the messages it has fetched.               *)

HasRow(u) == \E a \in Ids : Exists(a) /\ rows[a].url = u

\* GetByURL finds nothing.
SyncLookup(j, u) ==
  /\ sync[j] = None
  /\ ~HasRow(u)
  /\ sync' = [sync EXCEPT ![j] = [url |-> u, id |-> None]]
  /\ UNCHANGED <<rows, parts, files, inflight, fetch, sweep, cancels>>

Insertable(u) == ~HasRow(u)

SyncInsert(j, a) ==
  /\ sync[j] # None /\ sync[j].id = None
  /\ Insertable(sync[j].url)
  /\ rows[a] = None
  /\ rows' = [rows EXCEPT ![a] = [url |-> sync[j].url, status |-> "pending",
                                  pinned |-> FALSE, old |-> FALSE]]
  /\ sync' = [sync EXCEPT ![j].id = a]
  /\ UNCHANGED <<parts, files, inflight, fetch, sweep, cancels>>

\* The unique index refuses the INSERT, or the sync's context has expired; the
\* sync goes on with the next URL.
SyncRefused(j) ==
  /\ sync[j] # None /\ sync[j].id = None
  /\ sync' = [sync EXCEPT ![j] = None]
  /\ UNCHANGED <<rows, parts, files, inflight, fetch, sweep, cancels>>

\* Mutant: the id is busy before it is looked up.
EnqueueBusy(j) ==
  /\ sync[j] # None /\ sync[j].id # None
  /\ inflight' = inflight \cup {sync[j].id}
  /\ sync' = [sync EXCEPT ![j] = None]
  /\ UNCHANGED <<rows, parts, files, fetch, sweep, cancels>>

Enqueue(j) ==
  /\ sync[j] # None /\ sync[j].id # None
  /\ LET a == sync[j].id
     IN  IF a \in inflight
         THEN UNCHANGED <<inflight, fetch>>
         ELSE /\ inflight' = inflight \cup {a}
              /\ fetch' = [fetch EXCEPT ![a] = "mark"]
  /\ sync' = [sync EXCEPT ![j] = None]
  /\ UNCHANGED <<rows, parts, files, sweep, cancels>>

-----------------------------------------------------------------------------
(* Fetch.                                                                  *)

Stage(a, from, to) == fetch[a] = from /\ fetch' = [fetch EXCEPT ![a] = to]
Mark(a, status)    == rows' = [rows EXCEPT ![a].status = status]

\* The goroutine ends and leaves the in-flight set.
Finish(a, from) == Stage(a, from, None) /\ inflight' = inflight \ {a}

MarkDownloading(a) ==
  /\ Stage(a, "mark", "get")
  /\ Mark(a, "downloading")
  /\ UNCHANGED <<parts, files, inflight, sync, sweep, cancels>>

\* Revealing the key, the request, its status or its size is refused.
GetRefused(a) ==
  /\ Stage(a, "get", "fail")
  /\ UNCHANGED <<rows, parts, files, inflight, sync, sweep, cancels>>

Get(a) ==
  /\ Stage(a, "get", "copy")
  /\ parts' = parts \cup {a}
  /\ UNCHANGED <<rows, files, inflight, sync, sweep, cancels>>

Copy(a) ==
  /\ Stage(a, "copy", "rename")
  /\ UNCHANGED <<rows, parts, files, inflight, sync, sweep, cancels>>

\* A short body, an oversized one, or a failed rename.
DropPart(a, from) ==
  /\ Stage(a, from, "fail")
  /\ parts' = parts \ {a}
  /\ UNCHANGED <<rows, files, inflight, sync, sweep, cancels>>

Rename(a) ==
  /\ Stage(a, "rename", "ready")
  /\ parts' = parts \ {a} /\ files' = files \cup {a}
  /\ UNCHANGED <<rows, inflight, sync, sweep, cancels>>

MarkReady(a) ==
  /\ Finish(a, "ready")
  /\ Mark(a, "ready")
  /\ UNCHANGED <<parts, files, sync, sweep, cancels>>

\* Mutants: the row keeps its status; it gets one the pages do not know.
MarkFailedError(a) ==
  Finish(a, "fail") /\ Mark(a, "error") /\ UNCHANGED <<parts, files, sync, sweep, cancels>>
MarkFailedSilent(a) ==
  Finish(a, "fail") /\ UNCHANGED <<rows, parts, files, sync, sweep, cancels>>

MarkFailed(a) ==
  /\ Finish(a, "fail")
  /\ Mark(a, "failed")
  /\ UNCHANGED <<parts, files, sync, sweep, cancels>>

\* The five minutes are over: the last UPDATE fails on the expired context.
Expire(a) ==
  /\ Finish(a, "ready") \/ Finish(a, "fail")
  /\ UNCHANGED <<rows, parts, files, sync, sweep, cancels>>

-----------------------------------------------------------------------------
(* Retention.                                                              *)

\* The row passes the sweep's cutoff, at least an hour after its creation: its
\* download is over by then.
Age(a) ==
  /\ Exists(a) /\ ~rows[a].old /\ fetch[a] = None
  /\ rows' = [rows EXCEPT ![a].old = TRUE]
  /\ UNCHANGED <<parts, files, inflight, fetch, sync, sweep, cancels>>

SetPinned(a, pinned) ==
  /\ Exists(a) /\ rows[a].pinned # pinned
  /\ rows' = [rows EXCEPT ![a].pinned = pinned]
  /\ UNCHANGED <<parts, files, inflight, fetch, sync, sweep, cancels>>

Candidates == {a \in Ids : Is(a, "ready") /\ rows[a].old /\ ~rows[a].pinned}

SweepScan(p) ==
  /\ sweep[p] = None
  /\ \E batch \in SUBSET Candidates :
       /\ batch # {}
       /\ batch = Candidates \/ Cardinality(batch) = Limit
       /\ Cardinality(batch) <= Limit
       /\ sweep' = [sweep EXCEPT ![p] =
                      [batch |-> batch, removed |-> {}, cancelled |-> FALSE]]
  /\ UNCHANGED <<rows, parts, files, inflight, fetch, sync, cancels>>

\* The order of the batch is left open.
SweepRemove(p, a) ==
  /\ sweep[p] # None /\ sweep[p].removed = {} /\ a \in sweep[p].batch
  /\ files' = files \ {a}
  /\ sweep' = [sweep EXCEPT ![p].removed = {a}]
  /\ UNCHANGED <<rows, parts, inflight, fetch, sync, cancels>>

\* Mutant: os.Remove fails and the row is deleted all the same.
SweepSkipDeletes(p, a) ==
  /\ sweep[p] # None /\ sweep[p].removed = {} /\ a \in sweep[p].batch
  /\ rows' = [rows EXCEPT ![a] = Gone]
  /\ sweep' = [sweep EXCEPT ![p].batch = @ \ {a}]
  /\ UNCHANGED <<parts, files, inflight, fetch, sync, cancels>>

\* os.Remove fails: the row is kept.
SweepSkip(p, a) ==
  /\ sweep[p] # None /\ sweep[p].removed = {} /\ a \in sweep[p].batch
  /\ sweep' = [sweep EXCEPT ![p].batch = @ \ {a}]
  /\ UNCHANGED <<rows, parts, files, inflight, fetch, sync, cancels>>

\* The DELETE, or its failure on a cancelled context; either way the sweep goes
\* on to the next file.
SweepDelete(p, a) ==
  /\ sweep[p] # None /\ a \in sweep[p].removed
  /\ rows' = IF sweep[p].cancelled THEN rows ELSE [rows EXCEPT ![a] = Gone]
  /\ sweep' = [sweep EXCEPT ![p].batch = @ \ {a}, ![p].removed = {}]
  /\ UNCHANGED <<parts, files, inflight, fetch, sync, cancels>>

SweepCancel(p) ==
  /\ sweep[p] # None /\ ~sweep[p].cancelled
  /\ cancels < MaxCancels
  /\ sweep' = [sweep EXCEPT ![p].cancelled = TRUE]
  /\ cancels' = cancels + 1
  /\ UNCHANGED <<rows, parts, files, inflight, fetch, sync>>

SweepOver(p) ==
  /\ sweep[p] # None /\ sweep[p].batch = {}
  /\ sweep' = [sweep EXCEPT ![p] = None]
  /\ UNCHANGED <<rows, parts, files, inflight, fetch, sync, cancels>>

-----------------------------------------------------------------------------
\* The process ends: the table and the directory stay, nothing resumes.
Restart ==
  /\ inflight' = {}
  /\ fetch' = [a \in Ids |-> None]
  /\ sync' = [j \in Syncs |-> None]
  /\ sweep' = [p \in Sweeps |-> None]
  /\ UNCHANGED <<rows, parts, files, cancels>>

Download(a) ==
  \/ MarkDownloading(a) \/ GetRefused(a) \/ Get(a) \/ Copy(a) \/ Rename(a)
  \/ \E from \in {"copy", "rename"} : DropPart(a, from)
  \/ MarkReady(a) \/ MarkFailed(a)

Register(j) ==
  \/ \E a \in Ids : SyncInsert(j, a)
  \/ SyncRefused(j) \/ Enqueue(j)

Sweeping(p) ==
  \/ SweepScan(p) \/ SweepCancel(p) \/ SweepOver(p)
  \/ \E a \in Ids : SweepRemove(p, a) \/ SweepSkip(p, a) \/ SweepDelete(p, a)

Work ==
  \/ \E j \in Syncs : Register(j) \/ \E u \in URLs : SyncLookup(j, u)
  \/ \E a \in Ids : Download(a) \/ Age(a) \/ \E b \in BOOLEAN : SetPinned(a, b)
  \/ \E p \in Sweeps : Sweeping(p)

Next == Work \/ (\E a \in Ids : Expire(a)) \/ Restart

Spec == Init /\ [][Next]_vars

\* Goroutines run and every Fetch returns within its five minutes.
Fairness ==
  /\ \A j \in Syncs : WF_vars(Register(j))
  /\ \A a \in Ids : WF_vars(Download(a) \/ Expire(a))
-----------------------------------------------------------------------------
(* Properties.                                                             *)

OneRowPerURL ==
  \A a, b \in Ids : Exists(a) /\ Exists(b) /\ rows[a].url = rows[b].url => a = b

FileHasRow == \A a \in files : Exists(a)
=============================================================================
