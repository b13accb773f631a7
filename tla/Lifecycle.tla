----------------------------- MODULE Lifecycle -----------------------------
(***************************************************************************)
(* A devinmgr process from start to exit (cmd/devinmgr/main.go) and what it*)
(* leaves on disk: the master key file (internal/crypto) and the migrated  *)
(* database (internal/store). Nothing keeps a user from starting a second  *)
(* process on the same directory: they meet on the key file, on the schema *)
(* and on the port.                                                        *)
(*                                                                         *)
(* pc of a process, in the order of run():                                 *)
(*   down, key, create, fill   LoadOrCreateCipher                          *)
(*   open, migrate             store.Open                                  *)
(*   listen, serve, shutting   Server.Run                                  *)
(*   drain                     waiting for the tracked loops               *)
(***************************************************************************)
EXTENDS Integers

CONSTANTS
  Loops,      \* the loops in bgWG: poller, checker, reactivator
  Migrations, \* number of migration files
  MaxStarts   \* bound: processes started in all

ASSUME LifecycleAssumption ==
  /\ Migrations \in Nat \ {0} /\ MaxStarts \in Nat

\* A process is the number of its start, and a key that of the process that generated it.
Procs    == 1..MaxStarts
Nobody   == 0
Absent   == 0
Torn     == -1
Versions == 1..Migrations

VARIABLES
  keyFile, \* Absent, Torn (created, not yet filled) or the key it holds
  bodies,  \* how often the statements of each migration took effect
  ledger,  \* rows of schema_migrations
  starts,  \* starts so far
  port,    \* the process that listens on cfg.Addr
  proc,    \* per process: pc, key in memory, migrations it saw applied,
           \* whether its context is cancelled, whether Server.Run returned an error
  loops,   \* per process and loop: "none", "running" or "gone"
  conns    \* per process: connections being served, "stream" (/events) or "request"

lifeVars == <<keyFile, bodies, ledger, starts, port, proc, loops, conns>>
diskVars == <<keyFile, bodies, ledger>>

Down == [pc |-> "down", key |-> Absent, seen |-> {}, told |-> FALSE, failed |-> FALSE]

Stages == {"down", "key", "create", "fill", "open", "migrate", "listen", "serve",
           "shutting", "drain"}

LifeTypeOK ==
  /\ keyFile \in {Absent, Torn} \cup Procs
  /\ bodies \in [Versions -> Nat] /\ ledger \subseteq Versions
  /\ starts \in 0..MaxStarts
  /\ port \in Procs \cup {Nobody}
  /\ proc \in [Procs -> [pc : Stages, key : Procs \cup {Absent}, seen : SUBSET Versions,
                         told : BOOLEAN, failed : BOOLEAN]]
  /\ loops \in [Procs -> [Loops -> {"none", "running", "gone"}]]
  /\ conns \in [Procs -> SUBSET {"stream", "request"}]

LifeInit ==
  /\ keyFile = Absent
  /\ bodies = [v \in Versions |-> 0] /\ ledger = {}
  /\ starts = 0
  /\ port = Nobody
  /\ proc = [p \in Procs |-> Down]
  /\ loops = [p \in Procs |-> [l \in Loops |-> "none"]]
  /\ conns = [p \in Procs |-> {}]

At(p, pc)    == proc[p].pc = pc
Goto(p, pc)  == proc' = [proc EXCEPT ![p].pc = pc]

\* The process is gone, whatever it was doing: an error of run, its normal end, a crash.
Dies(p) ==
  /\ proc' = [proc EXCEPT ![p] = Down]
  /\ loops' = [loops EXCEPT ![p] = [l \in Loops |-> "none"]]
  /\ conns' = [conns EXCEPT ![p] = {}]
  /\ port' = IF port = p THEN Nobody ELSE port
  /\ UNCHANGED <<diskVars, starts>>

Start(p) ==
  /\ p = starts + 1
  /\ starts' = p
  /\ Goto(p, "key")
  /\ UNCHANGED <<diskVars, port, loops, conns>>

-----------------------------------------------------------------------------
(* LoadOrCreateCipher.                                                     *)

\* "expected 32 bytes": the start fails, and so does every later one until somebody
\* removes the file.
KeyRefused(p) == At(p, "key") /\ keyFile = Torn /\ Dies(p)

KeyLoaded(p) ==
  /\ At(p, "key") /\ keyFile \in Procs
  /\ proc' = [proc EXCEPT ![p].pc = "open", ![p].key = keyFile]
  /\ UNCHANGED <<diskVars, starts, port, loops, conns>>

KeyMissing(p) ==
  /\ At(p, "key") /\ keyFile = Absent
  /\ Goto(p, "create")
  /\ UNCHANGED <<diskVars, starts, port, loops, conns>>

\* os.WriteFile: the file is created, or emptied when another start was faster, ...
KeyCreate(p) ==
  /\ At(p, "create")
  /\ keyFile' = Torn
  /\ Goto(p, "fill")
  /\ UNCHANGED <<bodies, ledger, starts, port, loops, conns>>

\* Mutant: the error of os.WriteFile is dropped.
KeyFillUnchecked(p) ==
  /\ At(p, "fill")
  /\ keyFile' \in {p, Torn}
  /\ proc' = [proc EXCEPT ![p].pc = "open", ![p].key = p]
  /\ UNCHANGED <<bodies, ledger, starts, port, loops, conns>>

\* ... and then filled.
KeyFill(p) ==
  /\ At(p, "fill")
  /\ keyFile' = p
  /\ proc' = [proc EXCEPT ![p].pc = "open", ![p].key = p]
  /\ UNCHANGED <<bodies, ledger, starts, port, loops, conns>>

\* The user follows the error message and removes an unusable file.
RemoveTornKey ==
  /\ keyFile = Torn /\ \A p \in Procs : ~At(p, "fill")
  /\ keyFile' = Absent
  /\ UNCHANGED <<bodies, ledger, starts, port, proc, loops, conns>>

-----------------------------------------------------------------------------
(* store.Open. A migration and its row in schema_migrations are one        *)
(* transaction.                                                            *)

ReadLedger(p) ==
  /\ At(p, "open")
  /\ proc' = [proc EXCEPT ![p].pc = "migrate", ![p].seen = ledger]
  /\ UNCHANGED <<diskVars, starts, port, loops, conns>>

Pending(p) == Versions \ proc[p].seen
IsNext(p, v) == v \in Pending(p) /\ \A u \in Pending(p) : v <= u

\* Mutant: statements and row that tolerate a migration that is there already.
MigrateAgain(p, v) ==
  /\ At(p, "migrate") /\ IsNext(p, v)
  /\ bodies' = [bodies EXCEPT ![v] = @ + 1]
  /\ ledger' = ledger \cup {v}
  /\ proc' = [proc EXCEPT ![p].seen = @ \cup {v}]
  /\ UNCHANGED <<keyFile, starts, port, loops, conns>>

Migrate(p, v) ==
  /\ At(p, "migrate") /\ IsNext(p, v) /\ v \notin ledger
  /\ bodies' = [bodies EXCEPT ![v] = @ + 1]
  /\ ledger' = ledger \cup {v}
  /\ proc' = [proc EXCEPT ![p].seen = @ \cup {v}]
  /\ UNCHANGED <<keyFile, starts, port, loops, conns>>

\* Another start applied it after this one read the ledger: the statements fail on what
\* is there, or the row in schema_migrations does, and the transaction is rolled back.
MigrateConflict(p, v) == At(p, "migrate") /\ IsNext(p, v) /\ v \in ledger /\ Dies(p)

\* A cancelled context or a database that stays locked.
OpenFailed(p) ==
  /\ At(p, "open") \/ (At(p, "migrate") /\ Pending(p) # {})
  /\ Dies(p)

-----------------------------------------------------------------------------
(* The loops and the server.                                               *)

\* The loops start before the server listens.
StartLoops(p) ==
  /\ At(p, "migrate") /\ Pending(p) = {}
  /\ loops' = [loops EXCEPT ![p] = [l \in Loops |-> "running"]]
  /\ Goto(p, "listen")
  /\ UNCHANGED <<diskVars, starts, port, conns>>

\* The loop looks at its context, between two iterations or in the middle of one.
LoopEnds(p, l) ==
  /\ loops[p][l] = "running" /\ proc[p].told
  /\ loops' = [loops EXCEPT ![p][l] = "gone"]
  /\ UNCHANGED <<diskVars, starts, port, proc, conns>>

Listen(p) ==
  /\ At(p, "listen") /\ port = Nobody
  /\ port' = p
  /\ Goto(p, "serve")
  /\ UNCHANGED <<diskVars, starts, loops, conns>>

\* ListenAndServe fails. Nobody cancels the context: the loops are not told. After a
\* signal Run may return by that branch of its select, without an error.
ListenFailed(p) ==
  /\ At(p, "listen") /\ port # Nobody
  /\ \E failed \in {TRUE, ~proc[p].told} :
       proc' = [proc EXCEPT ![p].pc = "drain", ![p].failed = failed]
  /\ UNCHANGED <<diskVars, starts, port, loops, conns>>

\* SIGINT or SIGTERM once NotifyContext is set up; before that it is a Crash.
Signal(p) ==
  /\ proc[p].pc \in {"open", "migrate", "listen", "serve", "drain"} /\ ~proc[p].told
  /\ proc' = [proc EXCEPT ![p].told = TRUE]
  /\ UNCHANGED <<diskVars, starts, port, loops, conns>>

Connect(p, c) ==
  /\ At(p, "serve") /\ c \notin conns[p]
  /\ conns' = [conns EXCEPT ![p] = @ \cup {c}]

\* The handler returns; that of a stream does when the browser goes away.
Disconnect(p, c) ==
  /\ c \in conns[p]
  /\ conns' = [conns EXCEPT ![p] = @ \ {c}]

StreamOpens(p)  == Connect(p, "stream") /\ UNCHANGED <<diskVars, starts, port, proc, loops>>
StreamCloses(p) == Disconnect(p, "stream") /\ UNCHANGED <<diskVars, starts, port, proc, loops>>

\* Shutdown closes the listener at once ...
StopListening(p) ==
  /\ At(p, "serve") /\ proc[p].told
  /\ port' = Nobody
  /\ Goto(p, "shutting")
  /\ UNCHANGED <<diskVars, starts, loops, conns>>

\* Mutant: the server is closed without waiting for its connections.
ShutdownAtOnce(p) ==
  At(p, "shutting") /\ Goto(p, "drain") /\ UNCHANGED <<diskVars, starts, port, loops, conns>>

\* ... and returns when the last connection is gone ...
ShutdownDone(p) ==
  /\ At(p, "shutting") /\ conns[p] = {}
  /\ Goto(p, "drain")
  /\ UNCHANGED <<diskVars, starts, port, loops, conns>>

\* ... or after five seconds, with an error: the stop will be reported as failed.
ShutdownTimeout(p) ==
  /\ At(p, "shutting") /\ conns[p] # {}
  /\ proc' = [proc EXCEPT ![p].pc = "drain", ![p].failed = TRUE]
  /\ UNCHANGED <<diskVars, starts, port, loops, conns>>

\* "background loops stopped cleanly".
DrainDone(p) == At(p, "drain") /\ (\A l \in Loops : loops[p][l] = "gone") /\ Dies(p)

\* Mutant: the grace period starts with the cancelled context.
DrainTimeoutTold(p) ==
  At(p, "drain") /\ proc[p].told /\ (\E l \in Loops : loops[p][l] # "gone") /\ Dies(p)

\* shutdownGrace is over with a loop still running.
DrainTimeout(p) == At(p, "drain") /\ (\E l \in Loops : loops[p][l] # "gone") /\ Dies(p)

Crash(p) == ~At(p, "down") /\ Dies(p)

-----------------------------------------------------------------------------
\* The steps the process takes by itself.
ProcStep(p) ==
  \/ KeyRefused(p) \/ KeyLoaded(p) \/ KeyMissing(p) \/ KeyCreate(p) \/ KeyFill(p)
  \/ ReadLedger(p) \/ (\E v \in Versions : Migrate(p, v) \/ MigrateConflict(p, v))
  \/ StartLoops(p) \/ Listen(p) \/ ListenFailed(p)
  \/ StopListening(p) \/ ShutdownDone(p) \/ ShutdownTimeout(p)
  \/ DrainDone(p) \/ DrainTimeout(p)

LifeStep(p) ==
  \/ Start(p) \/ ProcStep(p) \/ OpenFailed(p) \/ Signal(p)
  \/ (\E l \in Loops : LoopEnds(p, l))
  \/ StreamOpens(p) \/ StreamCloses(p) \/ Crash(p)

LifeNext == RemoveTornKey \/ \E p \in Procs : LifeStep(p)

\* Time passes: both waits of a stop are bounded by a timer.
LifeFairness == \A p \in Procs : WF_lifeVars(ProcStep(p))
=============================================================================
