# devin-key-manager in TLA+

devin-key-manager is a single Go process that spreads work over a pool of Devin
API keys: it starts sessions, watches them, hands a session over to another key
when a quota runs out, fires scheduled tasks, downloads attachments and streams
events to the browser. Everything it remembers is in one SQLite file and one
directory of downloads. Nothing else survives a restart, and nothing but single
SQL statements, a few transactions and a handful of mutexes orders its
goroutines. This directory models that concurrency, checks it with TLC and proves
its safety properties with TLAPS.

## 1. Inventory

| Component (source under `src/`) | State | Operations | What makes it correct |
|---|---|---|---|
| Key pool: `internal/keys`, `internal/manager/checker.go`, `reactivator.go` | `keys` rows: state, `cooldown_until`, cycle counter, `week_reset_at` | create, delete, `MarkQuotaExhausted`, `CheckKey`/`CheckAllKeys`, `Reactivate` | a benched key comes back, an active one has no timer, the weekly allowance holds, no key is deleted under a mark |
| Session rotation: `internal/manager/{manager,rotate,resume,poller}.go`, `internal/{tasks,sessions,handoffs}` | `tasks`, `sessions`, `handoffs` rows, the message cache | `StartTask`, `SendFollowUp`, `SyncSession` (poller), `ForceRotate`, `ResumeSession`, `rotate` | no row is forgotten by an error path, the chain of handoffs is a chain, a handoff row is linked or removed |
| Scheduler: `internal/scheduler`, `internal/schedules`, `internal/web/schedules.go` | `schedules` rows, the pass under way | create, toggle, delete, run-now, `ProcessDue`, `Claim`, `MarkRan` | no time is claimed twice (see section 6 for the one exception), a one-off fires once, a due row is handled |
| Event bus: `internal/events/bus.go`, `internal/web/sse.go` | subscriber map, channels | `Publish`, `Subscribe`, cancel | no send on a closed channel, no blocked publisher, nobody passed over |
| Artifacts: `internal/artifacts/{artifacts,downloader,retention}.go` | `artifacts` rows, files, in-flight set | `Create`, `Enqueue`/`Fetch`, `SetPinned`, `Prune` | a ready row has its file, a file has its row, one row per URL |
| Pipelines: `internal/pipelines`, `internal/web/pr13_handlers.go` | the graph, `pipeline_runs`, `pipeline_run_steps` | save, delete, start, execute, roll back | the trail is in the order of the walk, the pointer agrees with it, a run ends |
| Notifications: `internal/notifications`, `internal/web/schedules.go`, `templates/layout.html` | `notification_events`, the cursor in `localStorage`, the batcher's buffer and timer | `Append`, `Since`, `MaxID`, the pages' polls; `Batcher.Append`, `Flush`, its timer | an event is told of once, none is passed over by the cursor, none is stuck in the buffer |
| Message cache and forks: `internal/sessions`, `manager.go`, `poller.go`, `web/pr12_handlers.go` | messages, pins, forks | start, follow-up, sync, pin, fork | a reply that enters the cache is announced, a closed session's cache is complete, pins survive a sync |
| Pure algorithms: `internal/schedules/{cron,schedules}.go`, `internal/keys/{picker,sticky}.go`, `internal/artifacts/diff.go` | the picker's rows | `ParseCron`, `Match`, `Next`, `ComputeNextRunFull`; `Pick`, `PickWithPreference`; `lcsOps`, `unifiedDiff` | the next run is the first time the schedule names, a daily one stays on the local clock, starts take turns over the keys of a plan, a diff applies |
| Start-up and stop: `cmd/devinmgr/main.go`, `internal/crypto`, `internal/store`, `Server.Run` | the key file, `schema_migrations`, the port, the loops, open connections | start, load or create the key, migrate, listen, signal, shut down, drain; crash; a second process | stored keys can be read with the key on disk, migrations take effect once, a stop ends and is clean when it says so |
| Import: `internal/keys/bulk.go`, `internal/manager/bulk.go`, `internal/web/{web,pr16_handlers}.go` | the import under way, the channel and its workers | the form, the JSON API, `BulkImport` with its probes | a line is treated by its own probe, the first usable line of a key wins, the import ends |
| Pages, client, search, lint, attachments, statistics | none of their own but the attachments table | forms, HTTP, scoring | not modelled, see section 7 |

How they interact: the HTTP handlers, the poller, the scheduler's firings and the
checker are goroutines of one process that call `Manager` and the repositories.
`rotate` calls `MarkQuotaExhausted` and the key picker; `SyncSession` registers
attachments; a firing is a `StartTask`; every one of them publishes to the bus.
A process that starts meets one that is already running on the key file, the schema
and the port. Goroutines share no memory beyond the bus, the in-flight set and a
mutex or two: they meet in the database, where each statement is atomic and a
sequence of statements is not.

What is hard: rows read, kept during a remote call of seconds, and written back
unconditionally; contexts that are cancelled in the middle of a handler, so that
the very statement that should record the failure fails too; deferred cleanups
that a crash takes with it; loops that must not fire the same thing twice; and two
stores (table and directory) that are updated one after the other; calendars, clocks
that are changed and scans that keep several counters in step. `PROJECT.json`
lists each of these at its line.

## 2. Modules

| Module | Models |
|---|---|
| `KeyPool` | the key pool. A quota mark is a read action and a write action, and so is a probe; `Reactivate` is one transaction. |
| `MCKeyPool` | `KeyPool` with what benched each key last (a mark, a transient answer or another one) and a count of the daily refills since the last weekly one |
| `Rotation` | the calls of `Manager`, one step per SQL statement or remote answer. A job is a goroutine inside a call, its record the call's local variables (`seen` is the status in its copy of the row), `pc` the next statement. |
| `MCRotation`, `MCFollowUp` | `Rotation` with a history variable: the handoff rows a crash orphaned, and the sessions a second handoff may slip past the guard of; the follow-ups whose undelivered text a sync wiped, and the rotations whose exhausted key was put back before they picked another |
| `LocalTime` | a local clock that is changed once, and the next run of a daily schedule on it; `Recurrence` and `Scheduler` use it |
| `Scheduler` | the `schedules` table, the pass of `ProcessDue`, the firings, run-now and the toggle handler. Intervals, daily, cron and one-off schedules: where the library leaves open which of two instants a wall time means, so does the model. |
| `MCScheduler` | `Scheduler` with the times of the passes that claimed each schedule, and which one-offs `MarkRan` has recorded |
| `EventBus` | the bus under its read/write lock, one channel send per step, and the stream handler as subscriber |
| `MCEventBus` | `EventBus` with what each subscriber has been offered |
| `Artifacts` | registering, downloading, pinning and pruning; a step changes the table or the directory, never both |
| `MCArtifacts` | `Artifacts` with the downloads that a restart or a deadline cut short and the rows a sweep ever selected |
| `Pipelines` | one pipeline: the editor's saves, the handler that starts a run, the executor statement by statement, roll back |
| `MCPipelines` | `Pipelines` with the nodes each run has executed, the runs whose graph a save tore, and the canvases TLC saves |
| `Conversation` | one session's message cache: `SyncSession` as get, list, replace, notify and status, `SendFollowUp` as send and append, pins and forks, and Devin's side of the conversation. A fork reads its source and inserts the copy in one action: nothing looks at the fork in between. |
| `MCConversation` | `Conversation` with the reply counts whose notification a failure prevented, whether two syncs overlapped and whether a finished session was written to |
| `Notices` | the notification log, `/events/since` as its two queries, and the pages that poll it with one cursor |
| `Batcher` | extends `Notices` with the batcher: the buffer, the quiet-period timer, callbacks that have fired and wait for the mutex, and the rows its holder is writing |
| `MCBatcher` | `Batcher` with the rows taken for backlog, the rows toasted twice and whether polls overlapped |
| `Jobs` | the abstract life of a row with a goroutine behind it: absent, open, settled or abandoned. `Artifacts` and `Pipelines` implement it. |
| `Chains` | the abstract chain of sessions that only grows: a link leads forward to an opened session of the same task, one parent each, and stays; a session is marked as handed off only when it has a successor. `Rotation` implements it. |
| `Recurrence` | cron expressions and `ComputeNextRunFull` as operators over a calendar and a zone given by constants |
| `TextDiff` | the diff of two artifact versions, one operator per loop of `lcsOps` and `unifiedDiff`, which stands for an iteration of it |
| `KeyPicker` | the choice of a key and what a start does to the table: pick, try, stamp |
| `MCAlgorithms` | calls of these functions with every input of a small instance: a next run is computed in one step, a diff takes a step per iteration of a loop, sessions are started one after another on one table. Then the definitions the results are compared with, which do not search, scan or order. |
| `Lifecycle` | processes from start to exit on one directory: key file, migrations, loops, server, shutdown, signals and crashes. A process is the number of its start, and so is the key it generates. |
| `Intake` | the ways a key gets into the table; an import as the jobs it sends to a pool of workers, the verdicts and the inserts, line by line |
| `Service` | composes the two: rows are sealed with the key their process has in memory, an import is an open request, and it is lost with its process |
| `MCService` | `Service` with whether a start overwrote a key file and which verdict each line's own probe got |
| `KeyPoolProofs`, `RotationProofs`, `SchedulerProofs`, `DeliveryProofs`, `ArtifactsProofs`, `PipelinesProofs`, `ConversationProofs`, `ServiceProofs` | the theorems of section 5. `DeliveryProofs` is about the two ways an event reaches a page, the bus and the polls; so that one module can extend both, the names of `EventBus` carry the prefix `Bus`. |

Correspondence. A SQL statement or transaction is one step: SQLite serialises
writers. A statement that reads what the following one decides on is a step of
its own whenever another goroutine may run in between; where nothing the read
returns can change (the kind of a schedule, `MarkRan`'s `Get`) it is folded into
the write. Clocks are ticks. Keys are just usable or not in `Rotation`, which
over-approximates what `KeyPool` does to them (`KeyLifted`, `KeyLost`). Remote
answers are nondeterministic. A cancelled context is the action `Abort` (in
`Artifacts`: `Expire` and `SweepCancel`): from then on every statement of that
call fails, except in the deferred cleanup of `rotate`, which runs on
`context.Background`. `Restart` drops every goroutine and keeps the tables and
the files. The mutants (`...Late`, `...Silent` and so on) next to some definitions
are deliberate mistakes; no specification uses them.

## 3. Runs

| Run | Question | Bounds |
|---|---|---|
| `pool_lift` | do timers stay sane, respect the weekly allowance and end, under any order of stale writes, deletes and restarts? | 1 key, 2 marks, 1 checker; probes give every kind of answer; 10 ticks, no new signal after tick 6 |
| `rotate_full` | with cancelled contexts and restarts at any statement, is every handoff row somebody's, a session handed off twice in the named ways only, and do the linked rows implement `Chains`? | 2 calls at a time, 3 sessions, 1 task, 1 interchangeable key |
| `rotate_calm` | with nothing cancelled, is any task, session, follow-up or handoff forgotten, and does a quota rotation leave its key? | starts, follow-ups and polls; 2 interchangeable keys, 3 sessions, 1 key put back to use |
| `sched_full` | is any time claimed twice, any one-off revived, any due row starved? | 2 schedules of any kind, 2 firings, 1 run-now, 1 toggle, 1 restart, 2 ticks; the clock is set back at tick 1 |
| `bus_full` | can a cancel hurt a publish, or a slow reader anybody else? | 2 publishers, 2 subscribers, buffer 1, 3 events |
| `art_full` | do rows and files stay consistent, and is a download a job of `Jobs`? | 2 rows, 2 URLs, 2 syncs, 2 sweeps of limit 1, 1 cancelled sweep |
| `pipe_full` | do trail, pointer and graph stay consistent under saves and roll backs, and is a run a job of `Jobs`? | 2 runs, 3 nodes, 4 canvases, 2 steps, 2 saves |
| `chat_full` | with the poller and a refresh inside one session at once, is a reply missed, a closed session incomplete or a pin lost? | 1 fork, 1 refresh at a time, 2 texts, 3 messages, 2 requests, 1 failure |
| `notice_full` | is an event told of twice, passed over or stuck, however writes, timers and polls interleave? | 3 events, 2 pages, answers of 1 row, threshold 2, hard cap 3, 1 failure |
| `algo_full` | do the pure functions return what their comments promise? | every call of the instance below |
| `service_full` | with two processes on one directory and crashes anywhere, is anything stored unreadable, migrated twice or cut off by a stop that reports success, and do stops and imports end? | 2 starts, 2 migrations, 1 loop, 1 key, 2 lists of up to 3 lines, 1 or 2 workers |
| `pool_stuck` | violated: `CooldownsLift` when a probe answers with a transient error | 1 key |

Why the bounds suffice. A key's row is independent of the others (`Reactivate` treats
each row alone), so one key with two marks and a checker has every race. The cooldowns
are short (3 and 4 ticks) so that several benches fit; `Horizon` stops new signals so
that "eventually" has time to happen, `MaxCycles` caps the counter above the weekly
allowance of 2, and `MaxLag` says that a read and its write are seconds apart where a
cooldown is a day; `WeeklyAllowance` holds while it is less than half of the daily
cooldown, a bound the proof found, and a `DailyCooldown` of 3 ticks is the shortest
above it. The races of `rotate` are between two callers; three sessions are an original
and two successors, and `Calls` chooses which calls a run makes. In `rotate_calm` one
key may be put back to use at any moment, which is enough to do so between a rotation's
bench and its pick. Its two keys are interchangeable: no property names a key and
fairness is per goroutine, so exchanging them maps a fair behaviour to a fair one.
Without the symmetry the run passes as well, in twice the states. Two passes claim, two
firings overlap and one restart falls anywhere in `sched_full`; a day is two ticks, the
clock is set back by one at tick 1, so that tick is the extra hour of a long date and a
daily schedule claimed in it stays due. Liveness there is about the time after the last
restart, hence `MaxRestarts`. A buffer of 1 is full after one event. `Limit` stands for
the 1000 of `Prune`'s query, so that a sweep may leave candidates behind. Runs of a
pipeline share its graph and nothing else, so two runs show every interference; two
saves put one before and one after any statement of a run, and the four canvases
(`MCCanvases`) bring loops, a condition that falls back, a broken node, an end with an
edge and nodes that vanish; a walk of two steps already meets the cap. Nodes of one save
have one `created_at`, and so have edges: where the code orders by it, the model takes
any. In `chat_full` three messages are a prompt, a follow-up and a reply in any order,
one refresh overlaps the poller, and two requests are a follow-up or a fork and a pin.
In `notice_full` three events are a burst and one more, and answers of one row make
every backlog longer than a page.

`algo_full` runs the functions on a small calendar in place of a sampled real one:
minutes of two ticks (so that `Truncate` matters), two of them to an hour, three hours
to a day, a week of two days, and a cycle of two years of two months whose last day
exists in one year only and whose month 2 never has a day 4. Days of the month, weekdays
and leap days meet in every combination; every tick of the cycle is a "now", every
expression of eight shapes per field a schedule. `SearchLimit` stands for the five years
of `Cron.Next` and covers what `SearchAssumption` asks for: from any day on, every date
of the cycle, and every weekday in every month, comes within the search. The real
calendar meets it from one leap day to the next but not across the eight years from 2096
to 2104. Zones change their offset once, by one hour either way or not at all, at every
hour of a day. Files have up to 5 lines of 2 kinds with a context of 1, which gives
hunks that touch, that are two contexts apart and that are trimmed at both ends. A
context of 1 leaves one case out of the run: the last hunk may keep up to
`2 * Context - 1` equal lines at the end of a file, which is 1 here and 5 in the code;
`DiffFaithfulHolds` covers every context. The picker has 3 keys from 10 kinds of rows
and 5 starts, so every key gets its turn and a second one. The lists of `service_full`
bring a key twice, a line that cannot be read between two that need a probe, and a line
with a plan; two starts are the first one and one that overlaps, replaces or follows it;
two migrations make "half way" possible. An import has 1 or 2 workers for its two probes
(`PoolSizes` stands for `bulkDetectConcurrency`): with one, the second send waits on the
unbuffered channel until the first probe is answered or given up; with two, answers come
in any order.

`bus_full`, `chat_full`, `algo_full` and `service_full` switch the deadlock check off:
when the events are published and the clients gone, the session is off the poller's
list and the user has made all requests, the function has returned, or both
processes are down for good, nothing is left to do.

Fairness. Background loops and goroutines that are inside a call keep running (weak
fairness on their steps): the Go scheduler and the timeouts on every remote call justify
that. Time passes: `Scheduler` has weak fairness on its clock up to `MaxTime`, without
which a schedule claimed in an extra hour would stay due for ever. Nothing obliges
users, quota signals, probes or stream clients to act. In `Pipelines` only the executor
is fair, not the request that starts a run. In `Conversation` the ticker of the poller
and the syncs under way are fair, Devin is not; in `Batcher` the timer, its callbacks,
the writes and the polls of open pages are. In `Service` the steps a process takes by
itself are fair, among them the two timers of a stop, and so are the workers of an
import; nobody has to start, use or stop a process. The one strong fairness is on
`Cancel` of the bus: a waiting `Lock` of a `sync.RWMutex` keeps new readers out, so a
cancel that is enabled again and again gets its turn.

## 4. What holds

* `TimersSane`, `CooldownHasTimer`, `WeeklyAllowance`, `CooldownsEnd`: whatever stale
  row is written back and whatever a probe answers, an active or dead key has no timer
  and no bench is longer than its cooldown from now; a benched key without its timer got
  there by a transient answer and nothing else, and every other key leaves its cooldown;
  and marks keep the weekly allowance although they lose increments. A bench a probe's
  `quota_exhausted` writes is outside the allowance, as it is in the code (section 6).
* `HandoffOwned`, `ChainsGrow`: a handoff row belongs to exactly one rotation until
  it is linked, and only the end of the process orphans one; linked rows form a
  forward chain of sessions that exist on Devin's side, one parent each, to which links
  are only ever added, and a session that is handed off has a successor.
* `DoubleIsExplained`: `ErrAlreadyRotated` keeps a session from being handed off twice
  unless two calls had its row in hand at once, a crash or a cancelled context fell
  between the link and `handoff_done`, or a refresh wrote the remote status over it.
* `NothingForgotten`, `QuotaChangesKey`, `FollowUpCarried`, `HandoffsSettle`: with
  nothing cancelled no error path forgets a task or a session, and a quota rotation
  changes key. Two orders are excepted by name: a checker or the reactivator puts the
  exhausted key back between this rotation's bench and its pick, and a sync drops the
  follow-up's text between its append and the handoff row.
* `OneTickFiring`, `NextAfterClaim`, `OneoffFinal`, `DueIsHandled`: the loop fires a
  schedule once at a time, a one-off once and never again after `MarkRan`, claims no
  schedule again for a time it has already claimed it at, and a due row does not stay
  due. The exception to the third is named in `NextAfterClaim`: in the extra hours of a
  date whose clock is set back a daily schedule is claimed pass after pass, until those
  hours are over (section 6).
* `NoSendOnClosed`, `NothingMissed`, `BusSettles`: no panic, nobody passed over, and
  every publish and every cancel returns.
* `TableMatchesDisk`, `DownloadsAreJobs`: one row per URL, a ready row has its file and
  a file its row; a restart and the five-minute deadline are the only ways to lose a
  download.
* `PointerOnTrail`, `TrailInOrder`, `RunsAreJobs`: the pointer of a run agrees with its
  trail, the trail is the walk, and a run is settled, cut short or erased.
* `ReplyNoticed`, `ClosedIsComplete`, `PinsKept`, `RepliesArrive`: a reply is
  announced or its announcement was prevented by a failure; the exceptions of
  `ClosedIsComplete` (overlapping syncs, a finished session that is written to) are
  real and listed in section 6. `ClosedIsComplete` also assumes something of Devin, whose
  code is not here: it finishes a session only when it has read every message it was
  sent and has nothing more to say (`DevinFinishes`).
* `Conserved`, `CursorSound`, `EventsSurface`: an event is in one place and in one
  row, and the cursor leaves nothing behind that was neither toasted nor backlog of
  a page without a cursor.

* `CronNextFirst`: the next run of a cron schedule is the first minute after now that
  its expression names, end of month, leap day, Sunday as 0 or 7 and both day fields
  included, and an hour from now when no year has the date.
* `DailyOnTheClock`: a daily schedule runs at its time on the local clock. Around a
  change of the clock it may be off by the change, and on a day of 25 hours the run may
  not lie after now; the property says in exactly which hours. `Scheduler` computes its
  daily runs with the same operator, `DailyRuns`, and meets the consequences.
* `DiffFaithful`: a diff applies, is as short as the longest common subsequence allows,
  says nothing only of equal files, and shows its context except where named.
* `StartsTakeTurns`: starts use the cheapest plan that has a usable key and go round its
  keys; a key whose sessions cannot be created keeps its turn.
* `KeysStayReadable`, `SchemaWhole`: a crash at any point of a start, a removed unusable
  key file and a second process never make a stored key unreadable or a migration
  take effect twice, except that two first starts at once may overwrite each other's
  key file.
* `StopIsClean`, `StopEnds`: a stop always ends, and if it reports success no request,
  import or connection was cut off.
* `ImportSound`, `ImportSettles`: verdicts reach their own lines in any order of the
  answers, the first usable line of a key creates the row, and every import ends, also
  when a probe has to wait for a worker.

All of these but the liveness properties (`CooldownsEnd`, `HandoffsSettle`, `DueIsHandled`,
`BusSettles`, `RepliesArrive`, `EventsSurface`, `StopEnds`, `ImportSettles`, the liveness of
`DownloadsAreJobs` and `RunsAreJobs`) are proved for every value of the constants,
section 5. Facts that only the proofs show: the type
invariants, `MarkedKeyExists` (the foreign key of `sessions` protects a key that is being
marked), `UnfinishedOwned` (an unfinished artifact has somebody at work on it) and
`DanglingMeansTorn` (only a save between two reads tears a graph).

## 5. Proofs

For every value of the constants that meets the named assumptions, and the hypotheses
of the theorem where it has some:

| Module | Theorems | Inductive invariant |
|---|---|---|
| `KeyPoolProofs` | `TypeCorrect`, `TimersStaySane`, `MarkedKeyAlwaysExists`, `CooldownKeepsTimer`, `AllowanceSound` | `TimerInv` adds that an unborn row has no timer; `BoundInv` that a marker's read lies in the past and the `week_reset_at` it carries is bounded; `HeldInv` that a marked key is referenced by a session and that referenced keys are present. `CooldownHasTimer` is inductive with the types, given who wrote each row last. `AllowanceInv`: the counter covers the benches of marks that were lifted and the one under way (`Allowed`), and a stale row in a marker's hands misses none that can be lifted before it is written (`Counted`). |
| `RotationProofs` | `TypeCorrect`, `ChainSound`, `RotationImplementsChains`, `OwnedSound`, `DoubleSound`, `KeySound`, `TextSound`, `ForgottenSound` | `Base`: what each statement's locals hold (`Shape`), ids are handed out in order (`Dense`), a rotation has its handoff row to itself (`Held`). On top of it `ChainInv`: no two rotations open the same replacement, none is the end of a linked handoff yet, and who is about to write `handoff_done` has linked, which gives both `LinkedChain` and each step of `Chains`; `DoubleInv`: a guarded session is linked once, is closed or about to be, and the calls that still have it in hand are past their last write or will be turned away (`Late`); `KeyInv`: from the bench on, the dying key is out of `Pick`'s sight, and a key that was picked is another one, unless somebody put the dying key back in between (`Apart`); `CacheInv`: the text is in the cache, then in the row, unless a sync dropped it from the cache (`Carries`). |
| `SchedulerProofs` | `SchedulerTypeCorrect`, `OneFiringAtATime`, `NoSlotTwice`, `OneoffStaysFinal`, `CronNextFirstHolds`, `DailyOnTheClockHolds`, `StartsTakeTurnsHolds` | `PassInv`: a firing belongs to the pass under way and its schedule is no longer in the pass's list, without which `OneTickFiring` is not inductive. `ClaimInv`: claims are not in the future, and a one-off that was claimed or run is pushed past the end of time (`Far > MaxTime`). `DailyLater`, in any zone: a daily run lies after every time up to the one it is computed from, but for the extra hours of a long date. Schedules and keys: `NextRunInv`, what a call returned is one of the results the code allows for its input; `TurnsInv`, a stamp in the table is older than the first start or that of the last start on the key, and a key that refused is still the table's pick at the time of that start. |
| `DeliveryProofs` | `BusTypeCorrect`, `NeverSendsOnClosed`, `MissesNothing`, `NoticesTypeCorrect`, `EventsAreConserved`, `CursorPassesNothing` | Bus: `MapInv`, a registered subscriber is not closed; `LeftInMap`, whom a publisher has left to serve is still registered, because the map changes under the write lock only; `OwedInv`, an event is offered or its publisher is on the way, stated of all ids since the registration. Polls: `RowsInv`, no event is in two rows, buffers or lists, and while rows are written the buffer is empty, since whoever took it over emptied it and holds the mutex; `CursorInv`, not only the cursor but what every poll under way asked with has been passed, and while polls do not overlap it is the cursor as it is (`Alone`). |
| `ArtifactsProofs` | `ArtifactsTypeCorrect`, `TableStaysTrue`, `DownloadsAreOwned`, `DownloadsImplementJobs`, `DiffFaithfulHolds` | A row is in the hands of its sync (`SyncInv`), then of its goroutine (`FetchInv`), and only once it is ready of sweeps (`SweepInv`): without this a sweep might delete a row whose download then renames a file into place. `DownloadsAreOwned` and `DownloadsImplementJobs` are about `HistorySpec` and add what a sweep selected and what was cut short. The diff: `CallInv`, one invariant per loop. `TableInv`: a filled cell obeys the recurrence, and no common subsequence of the lines from there on is longer. `WalkInv`: every operation is on the next line of the files it takes up, and the lines made common plus the cell at hand are the table's first cell. `ScanInv`: every hunk is the piece its header points at, the files agree between hunks and from the last one to the scan's place, and the pending lines are those in front of it. `ReadInv`: the changes shown are the operations read, less those on both sides. |
| `PipelinesProofs` | `PipelinesTypeCorrect`, `PointerStaysOnTrail`, `OnlySavesDangle`, `RunsImplementJobs`, `TrailFollowsWalk` | `RowInv`: a run without a row has no steps, and none has a row before its `StartInsert`; `TornInv`: the tables hold no dangling edge, a deleted pipeline no runs, and the edges an executor holds lead to nodes it holds unless a save came between its reads; `LiveInv`: an open run has a goroutine unless it was cut short; `TrailInv`: an increasing map takes the trail into the walk, and they are equal until an append is refused. |
| `ConversationProofs` | `ConversationTypeCorrect`, `PinsAreKept`, `RepliesAreNoticed`, `ClosedSessionsAreComplete` | `CacheInv`: a fork that was not made has no rows. `NoticeInv`: not only the replies in the cache, but also the number a sync under way will compare its answer with, were announced; without it two overlapping syncs could each take the other to have told of a reply. `ClosedInv`: a sync that saw the session finished holds the whole conversation, and Devin has nothing more to say (`Closing`), unless syncs overlapped or somebody went on. |
| `ServiceProofs` | `LifecycleTypeCorrect`, `RowsStayReadable`, `SchemaStaysWhole`, `StopsAreClean`, `ServiceTypeCorrect`, `ImportsAreSound` | `ReadableInv` adds to the rows the keys that processes hold in memory, and that a start which fills the file is alone with it: a row is sealed with a key in memory, not with the file. `SchemaInv`: what a process saw applied is applied, and the ledger has no gaps. `ConnInv` and `ImportInv`: only the process on the port serves, and the process of an import has its request open, so a shutdown that returns has waited for it. `NewInv`: a process not yet started is down. `LineInv`: a probe's answer is the one noted for its line, no probed line is decided before all are answered, a line that made or met a row has its key in the table. |

Hypotheses. Two theorems have one, and each is needed: without it TLC finds the property
violated.

* `AllowanceSound`: no read is half a daily bench old. An older one may be written over
  a bench that was counted and lifted in between, and `2 * MaxLag = DailyCooldown` is
  already too much. In the code a read and its write are two statements in a row, and
  the bench is a day.
* `ForgottenSound`: no context is cancelled and no process dies. With either, the very
  statement that records a failure is the one that fails (section 6).

`CooldownKeepsTimer`, `KeySound` and `TextSound` have none: the orders in which the code
breaks the promise are not assumed away but remembered by history variables and named in
the property. What the theorems say is that there is no further such order, for any
number of keys, calls and sessions. `NoSlotTwice` holds on every local clock that is set
forward by a day at most (`ClockAssumption`).

`DownloadsImplementJobs` and `RunsImplementJobs` are the safety half of the
refinements: initial states map to initial states, steps to steps or stutters. The
liveness half (`Progress` of `Jobs`) is checked by TLC. `Chains` is a safety specification
and `RotationImplementsChains` the whole refinement: what grows are the pairs of linked
sessions, so the invariant of the last state is not enough, each step has to be one.

Each invariant was checked with TLC before it was proved. What the attempts showed
about the models, which were changed accordingly:

* A call that is still opening a session has its row in hand as well, and may write
  `running` or `failed` over the `handoff_done` of a rotation of that session. The small
  instance held without the case; `Shared` in `MCRotation` now names it, and the comment
  of `DoubleIsExplained` does.
* `None` may not be a task status, a verdict or an import's outcome: assumptions that
  model values give TLC for free and a proof has to ask for.
* The cases of an import's insert overlapped in a `CASE`, which leaves the
  choice open; the code asks in an order, and so does `InsertOutcomes` now.
* That a notification was prevented is a fact about a number of replies, not about the
  run as a whole: `lost` of `MCConversation` is a set of reply counts.

The pure functions. Nothing here can be proved by induction over data, so none of these
proofs unfolds a recursion. A search is replaced by the set it searches, of which it
takes the least element: `CronNextFirstHolds` rests on `SearchAssumption` only to show
that whatever an expression says at all, it says within the search. A loop is a sequence
of steps and its result an invariant of the calls: that the table of `lcsOps` holds
the lengths of longest common subsequences is `TableInv`, kept by each cell that is
filled, and not a theorem about a recursive function. The same holds of a series of
starts: who was picked since is carried in the stamps of the table. What this asked of
the models:

* A function that has not returned yields `Missing`, a value the assumptions keep apart
  from all times.
* `StartTask` is one start; the series is a behaviour of `MCAlgorithms`.
* The search has to be long enough for the calendar, hence `SearchAssumption`; section 3
  says which calendars meet it. An expression that names no day of the cycle is not
  excluded: it is the code's "an hour from now".

Left to TLC: liveness, since the prover does neither fairness nor ENABLED.

## 6. Where code and comments disagree

Run and kept as a finding: a transient probe answer strands a key on its cooldown
(`pool_stuck`).

Seen while modelling; the interleavings are in the modules, not kept as runs.

Keys, sessions, schedules, downloads:

* A quota mark that read the row before the checker found the key dead revives it
  (`keys/cooldown.go:89`; the comment at line 52 says only an edit or a delete does).
* A `valid` answer lifts a cooldown before its timer (`manager/checker.go:116`,
  against `keys/cooldown.go:22`).
* A quota answer to a probe is not counted as a cycle and moves a key from the
  weekly bench to the daily one (`manager/checker.go:123`).
* Of two concurrent quota marks the later write may shorten the weekly bench of
  the other (`keys/cooldown.go:89`, against line 48).
* The poller's query still selects `handoff_pending` (`sessions/sessions.go:256`,
  against `manager/rotate.go:98`).
* `ErrAlreadyRotated` "guards against double-rotating the same dying session"
  (`manager/rotate.go:43`), and two callers still rotate it twice: see the three ways in
  `DoubleIsExplained`, one of them the refresh that writes the remote status over
  `handoff_done` (`manager/manager.go:337`, reached from `web/web.go:846`).
* A key whose sessions cannot be created keeps its old `last_used_at`, so the next start
  picks it again (`keys/picker.go:33`).
* A manual rotation may pick the key it leaves (`manager/rotate.go:170`).
* A sync wipes the locally cached follow-up before the handoff is built
  (`manager/manager.go:333`); `FollowUpCarried` excludes exactly that case.
* When a `StartTask` is cancelled, the statement that would mark the task failed
  fails on the same context (`manager/manager.go:171`).
* Event ids are taken before the lock, so they can arrive out of order
  (`events/bus.go:85`).
* `ListPending` is documented as the way interrupted downloads resume
  (`artifacts/artifacts.go:316`); nothing calls it.
* Run-now does not claim the row, so the loop may fire the schedule at the same time
  (`web/schedules.go:160`, against `scheduler/scheduler.go:68`).
* Cron expressions are matched in UTC, daily times in the local zone
  (`schedules/schedules.go:331`). On a day of 25 hours a daily schedule whose
  time lies in the first hour of the day is claimed, 24 hours after it ran, for a next run
  that is not in the future: it stays due, and every pass of the loop fires it until the
  day is over. `Claim`'s comment says "we don't replay-storm the same task"
  (`schedules/schedules.go:284`). `Scheduler` has these days; `NextAfterClaim` names the
  hours.
* `*/1` counts as a restricted field (`schedules/cron.go:115`), so `0 0 */1 * 1` runs
  daily and not on Mondays.
* The context in front of a hunk is shorter than asked for when the hunk before it
  closed a few lines earlier (`artifacts/diff.go:170`).

Start-up and stop:

* "After the HTTP server exits the context is cancelled (either by signal or because of
  an HTTP error)" (`cmd/devinmgr/main.go:174`): nothing cancels it on an error, so a
  process that cannot listen waits for the whole grace period.
* An event stream that is open keeps `Shutdown` waiting for its five seconds and the
  stop exits with an error (`web/web.go:1620`).
* Two first starts at once both find no key file, and the later one overwrites the key
  the earlier one may already have sealed rows with (`crypto/crypto.go:95`).

Messages:

* Two syncs of one session may overlap and the one with the older answer write last.
  If the newer one has closed the session, the cache stays stale; both may announce
  the same replies (`manager/manager.go:333`, against "serialised by SQLite's WAL
  writer" at line 295).
* A follow-up to a session that has finished is delivered, but the session is not on
  the poller's list any more: the answer is only seen by a refresh
  (`sessions/sessions.go:250`).
* A sync that asked Devin before a follow-up removes the follow-up and its pin; pins
  are put back by content, also on other messages with that text
  (`sessions/sessions.go:656`). A sync gives every message a new id, so pinning or
  forking from an older page finds nothing.
* A fork has no Devin session and `SendFollowUp` refuses it for good, against "will
  pick up a real DevinSessionID on its first user message"
  (`web/pr12_handlers.go:400`).

Notifications:

* The event stream and the poll both toast an event (`templates/layout.html`, the
  comment on double toasts near line 337).
* The first load with more than 50 events seeds the cursor with the last row of the
  first page, so the rest of the backlog is toasted (`web/schedules.go:257`: "the
  highest event id at query time"). On an empty log the cursor stays 0 and the first
  fresh events are taken for backlog. An event appended between `Since` and `MaxID`
  of a first poll is skipped. Overlapping polls move the cursor backwards.
* `Window` of the batcher never resets the threshold counter, it only withholds the
  summary (`notifications/batch.go:112`, against line 45); a failed write drops the
  rest of the flush (line 155).

Pipelines:

* A save wipes the steps of all runs (`pipelines/pipelines.go:362`, against
  "append-only audit trail", `0008_pipelines.sql:75`), and a run does not execute the
  snapshot it was started on but what the tables hold when it gets there.
* When the five minutes are over, `FinishRun(RunCancelled)` runs on the expired
  context (`pipelines/executor.go:137`); the status `running` is written by a roll
  back only.
* A second roll back finds the same last step and goes no further back
  (`pipelines/pipelines.go:642`), a rolled-back run cannot be executed again, and an
  executor still at work overwrites the status of a roll back.
* Nodes of one save share one `created_at`, so the order among triggers and among
  edges is left to the database (`pipelines/pipelines.go:278`).

## 7. Not modelled

The web pages and the JSON API (routing, forms and templates around calls that are
modelled), the HTTP client of the Devin API (its answers are inputs), pragmas and the
connection pool of the store (one statement or transaction is one step), the encryption
itself, environment variables, the text scoring of search and suggestions, prompt lint,
attachments uploaded by the user and the names in a zip of artifacts, statistics.

Within the modelled components: counters and labels of keys, titles and tags, the
notification a firing appends, database errors other than a cancelled context (in an
import any insert may fail), dry runs of `Prune`, hooks of the pipeline executor,
searches over the message cache, the contents of notifications and the toasts of the
event stream. How a cron field or a pasted line is split into its pieces; a step so
large that the loop over a field overflows an `int`; the lookup of the versions a diff
compares. `Service` has the three loops `main` waits for; the scheduler's firings, the
downloads and the executors of pipelines, which a stop does not wait for, are cut off
as by the `Restart` of their own modules. Deleting keys is in `KeyPool` and not
composed with `Intake`. `BulkOutcomeUnreachable` is declared and never produced.

## 8. Plan

1. Done: `KeyPool`, `Rotation`, `Scheduler`, `EventBus`, `Artifacts`, `Pipelines`,
   `Conversation`, `Notices` and `Batcher`, the refinements to `Jobs`, the pure algorithms,
   `Lifecycle`, `Intake` and their composition, and the proofs of section 5.
2. Done: a theorem for every safety property the runs check.
3. Next abstract specifications, each to be implemented with a proved safety half: an
   at-most-once firing per slot outside the extra hours of a long date, implemented by
   `Scheduler`; a key as a bench with a return time, implemented by `KeyPool`.
4. Next modules: attachments as `Jobs`, and the firings, downloads and executors inside
   the process of `Lifecycle`.
