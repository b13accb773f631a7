--------------------------- MODULE ServiceProofs ---------------------------
(***************************************************************************)
(* What holds of Service for any number of processes, loops, migrations and*)
(* keys: types, the key file, the schema, the connections of a stop, and   *)
(* the lines of an import.                                                 *)
(***************************************************************************)
EXTENDS MCService, FiniteSetTheorems, TLAPS

ProcRow == [pc : Stages, key : Procs \cup {Absent}, seen : SUBSET Versions,
            told : BOOLEAN, failed : BOOLEAN]

\* The stages in which a process has a master key, and those after its loops started.
Keyed == {"open", "migrate", "listen", "serve", "shutting", "drain"}
Late  == {"listen", "serve", "shutting", "drain"}

\* proc' differs from proc in p alone, where it has these fields.
Becomes(p, pc, key, seen, told, failed) ==
  /\ proc' \in [Procs -> ProcRow]
  /\ \A q \in Procs \ {p} : proc'[q] = proc[q]
  /\ proc'[p].pc = pc /\ proc'[p].key = key /\ proc'[p].seen = seen
  /\ proc'[p].told = told /\ proc'[p].failed = failed

\* Everything a process step may be, its ends taken together.
Kinds(p) ==
  \/ Dies(p) \/ Start(p) \/ KeyLoaded(p) \/ KeyMissing(p) \/ KeyCreate(p) \/ KeyFill(p)
  \/ ReadLedger(p) \/ (\E v \in Versions : Migrate(p, v)) \/ StartLoops(p) \/ Listen(p)
  \/ ListenFailed(p) \/ StopListening(p) \/ ShutdownDone(p) \/ ShutdownTimeout(p)
  \/ Signal(p) \/ (\E l \in Loops : LoopEnds(p, l)) \/ StreamOpens(p) \/ StreamCloses(p)

LEMMA StepKinds == ASSUME NEW p \in Procs, LifeStep(p) PROVE Kinds(p)
  BY DEF LifeStep, ProcStep, Kinds, KeyRefused, MigrateConflict, OpenFailed, DrainDone,
         DrainTimeout, Crash

-----------------------------------------------------------------------------
(* What each kind of step makes of the record of its process.              *)

LEMMA RowUpdate ==
  ASSUME LifeTypeOK, NEW p \in Procs, NEW pc \in Stages, NEW key \in Procs \cup {Absent},
         NEW seen \in SUBSET Versions, NEW told \in BOOLEAN, NEW failed \in BOOLEAN,
         proc' = [proc EXCEPT ![p] = [pc |-> pc, key |-> key, seen |-> seen,
                                      told |-> told, failed |-> failed]]
  PROVE  Becomes(p, pc, key, seen, told, failed)
<1> DEFINE new == [pc |-> pc, key |-> key, seen |-> seen, told |-> told,
                   failed |-> failed]
<1>1. /\ new \in ProcRow /\ new.pc = pc /\ new.key = key /\ new.seen = seen
      /\ new.told = told /\ new.failed = failed
  BY DEF ProcRow
<1>2. proc' = [proc EXCEPT ![p] = new] /\ proc \in [Procs -> ProcRow]
  BY DEF LifeTypeOK, ProcRow
<1> HIDE DEF new
<1> QED
  BY <1>1, <1>2 DEF Becomes

LEMMA Moves ==
  ASSUME LifeTypeOK, NEW p \in Procs, NEW pc \in Stages, Goto(p, pc)
  PROVE  Becomes(p, pc, proc[p].key, proc[p].seen, proc[p].told, proc[p].failed)
  BY DEF LifeTypeOK, Becomes, ProcRow, Goto

LEMMA DiesRow ==
  ASSUME LifeTypeOK, NEW p \in Procs, Dies(p)
  PROVE  Becomes(p, "down", Absent, {}, FALSE, FALSE)
  BY RowUpdate DEF Dies, Down, Stages

LEMMA KeyRow ==
  ASSUME LifeTypeOK, NEW p \in Procs, NEW key \in Procs,
         proc' = [proc EXCEPT ![p].pc = "open", ![p].key = key]
  PROVE  Becomes(p, "open", key, proc[p].seen, proc[p].told, proc[p].failed)
  BY DEF LifeTypeOK, Becomes, ProcRow, Stages

LEMMA ReadLedgerRow ==
  ASSUME LifeTypeOK, NEW p \in Procs, ReadLedger(p)
  PROVE  Becomes(p, "migrate", proc[p].key, ledger, proc[p].told, proc[p].failed)
  BY DEF LifeTypeOK, Becomes, ProcRow, Stages, ReadLedger

LEMMA MigrateRow ==
  ASSUME LifeTypeOK, NEW p \in Procs, NEW v \in Versions, Migrate(p, v)
  PROVE  Becomes(p, proc[p].pc, proc[p].key, proc[p].seen \cup {v}, proc[p].told,
                 proc[p].failed)
<1> PICK seen \in SUBSET Versions : seen = proc[p].seen \cup {v}
  BY DEF LifeTypeOK
<1>1. proc' = [proc EXCEPT ![p].seen = seen]
  BY DEF Migrate
<1> QED
  BY <1>1 DEF LifeTypeOK, Becomes, ProcRow

LEMMA FailsRow ==
  ASSUME LifeTypeOK, NEW p \in Procs, NEW f \in BOOLEAN,
         proc' = [proc EXCEPT ![p].pc = "drain", ![p].failed = f]
  PROVE  Becomes(p, "drain", proc[p].key, proc[p].seen, proc[p].told, f)
  BY DEF LifeTypeOK, Becomes, ProcRow, Stages

LEMMA ShutdownTimeoutRow ==
  ASSUME LifeTypeOK, NEW p \in Procs, ShutdownTimeout(p)
  PROVE  Becomes(p, "drain", proc[p].key, proc[p].seen, proc[p].told, TRUE)
<1> PICK f \in BOOLEAN : f = TRUE
  OBVIOUS
<1>1. proc' = [proc EXCEPT ![p].pc = "drain", ![p].failed = f]
  BY DEF ShutdownTimeout
<1> QED
  BY <1>1, FailsRow

LEMMA SignalRow ==
  ASSUME LifeTypeOK, NEW p \in Procs, Signal(p)
  PROVE  Becomes(p, proc[p].pc, proc[p].key, proc[p].seen, TRUE, proc[p].failed)
<1> PICK told \in BOOLEAN : told = TRUE
  OBVIOUS
<1>1. proc' = [proc EXCEPT ![p].told = told]
  BY DEF Signal
<1> QED
  BY <1>1 DEF LifeTypeOK, Becomes, ProcRow

LEMMA SameRow ==
  ASSUME LifeTypeOK, NEW p \in Procs, UNCHANGED proc
  PROVE  Becomes(p, proc[p].pc, proc[p].key, proc[p].seen, proc[p].told, proc[p].failed)
  BY DEF LifeTypeOK, Becomes, ProcRow

LEMMA StartRow ==
  ASSUME LifeTypeOK, NEW p \in Procs, Start(p)
  PROVE  Becomes(p, "key", proc[p].key, proc[p].seen, proc[p].told, proc[p].failed)
  BY Moves DEF Start, Stages

LEMMA KeyLoadedRow ==
  ASSUME LifeTypeOK, NEW p \in Procs, KeyLoaded(p)
  PROVE  Becomes(p, "open", keyFile, proc[p].seen, proc[p].told, proc[p].failed)
  BY KeyRow DEF KeyLoaded, Stages

LEMMA KeyMissingRow ==
  ASSUME LifeTypeOK, NEW p \in Procs, KeyMissing(p)
  PROVE  Becomes(p, "create", proc[p].key, proc[p].seen, proc[p].told, proc[p].failed)
  BY Moves DEF KeyMissing, Stages

LEMMA KeyCreateRow ==
  ASSUME LifeTypeOK, NEW p \in Procs, KeyCreate(p)
  PROVE  Becomes(p, "fill", proc[p].key, proc[p].seen, proc[p].told, proc[p].failed)
  BY Moves DEF KeyCreate, Stages

LEMMA KeyFillRow ==
  ASSUME LifeTypeOK, NEW p \in Procs, KeyFill(p)
  PROVE  Becomes(p, "open", p, proc[p].seen, proc[p].told, proc[p].failed)
  BY KeyRow DEF KeyFill, Stages

LEMMA StartLoopsRow ==
  ASSUME LifeTypeOK, NEW p \in Procs, StartLoops(p)
  PROVE  Becomes(p, "listen", proc[p].key, proc[p].seen, proc[p].told, proc[p].failed)
  BY Moves DEF StartLoops, Stages

LEMMA ListenRow ==
  ASSUME LifeTypeOK, NEW p \in Procs, Listen(p)
  PROVE  Becomes(p, "serve", proc[p].key, proc[p].seen, proc[p].told, proc[p].failed)
  BY Moves DEF Listen, Stages

LEMMA StopListeningRow ==
  ASSUME LifeTypeOK, NEW p \in Procs, StopListening(p)
  PROVE  Becomes(p, "shutting", proc[p].key, proc[p].seen, proc[p].told, proc[p].failed)
  BY Moves DEF StopListening, Stages

LEMMA ShutdownDoneRow ==
  ASSUME LifeTypeOK, NEW p \in Procs, ShutdownDone(p)
  PROVE  Becomes(p, "drain", proc[p].key, proc[p].seen, proc[p].told, proc[p].failed)
  BY Moves DEF ShutdownDone, Stages

LEMMA ListenFailedRow ==
  ASSUME LifeTypeOK, NEW p \in Procs, ListenFailed(p)
  PROVE  \E f \in BOOLEAN :
           Becomes(p, "drain", proc[p].key, proc[p].seen, proc[p].told, f)
<1> PICK f \in BOOLEAN : proc' = [proc EXCEPT ![p].pc = "drain", ![p].failed = f]
  BY DEF ListenFailed
<1> QED
  BY FailsRow

-----------------------------------------------------------------------------
(* Types.                                                                  *)

LEMMA ProcsTyped == ASSUME NEW p, NEW pc, NEW key, NEW seen, NEW told, NEW failed,
                           Becomes(p, pc, key, seen, told, failed)
                    PROVE  proc' \in [Procs -> ProcRow]
  BY DEF Becomes

LEMMA LoopsTyped ==
  ASSUME LifeTypeOK, NEW p \in Procs, NEW s \in {"none", "running", "gone"},
         loops' = [loops EXCEPT ![p] = [l \in Loops |-> s]]
  PROVE  loops' \in [Procs -> [Loops -> {"none", "running", "gone"}]]
  BY DEF LifeTypeOK

LEMMA ConnsTyped ==
  ASSUME LifeTypeOK, NEW p \in Procs, NEW c \in SUBSET {"stream", "request"},
         conns' = [conns EXCEPT ![p] = c]
  PROVE  conns' \in [Procs -> SUBSET {"stream", "request"}]
  BY DEF LifeTypeOK

LEMMA LifeStepTyped ==
  ASSUME LifeTypeOK, NEW p \in Procs, Kinds(p)
  PROVE  LifeTypeOK'
<1> SUFFICES proc' \in [Procs -> ProcRow] /\
             /\ keyFile' \in {Absent, Torn} \cup Procs
             /\ bodies' \in [Versions -> Nat] /\ ledger' \in SUBSET Versions
             /\ starts' \in 0..MaxStarts /\ port' \in Procs \cup {Nobody}
             /\ loops' \in [Procs -> [Loops -> {"none", "running", "gone"}]]
             /\ conns' \in [Procs -> SUBSET {"stream", "request"}]
  BY DEF LifeTypeOK, ProcRow
<1> USE LifecycleAssumption DEF LifeTypeOK, diskVars, Stages
<1>1. CASE Dies(p)
  <2>1. proc' \in [Procs -> ProcRow]
    BY <1>1, DiesRow, ProcsTyped
  <2>2. loops' \in [Procs -> [Loops -> {"none", "running", "gone"}]]
    BY <1>1, LoopsTyped DEF Dies
  <2>3. conns' \in [Procs -> SUBSET {"stream", "request"}]
    BY <1>1, ConnsTyped DEF Dies
  <2> QED
    BY <1>1, <2>1, <2>2, <2>3 DEF Dies
<1>2. CASE Start(p)
  <2>1. proc' \in [Procs -> ProcRow]
    BY <1>2, Moves, ProcsTyped DEF Start
  <2> QED
    BY <1>2, <2>1 DEF Start, Procs
<1>3. CASE KeyLoaded(p)
  <2>1. proc' \in [Procs -> ProcRow]
    BY <1>3, KeyRow, ProcsTyped DEF KeyLoaded
  <2> QED
    BY <1>3, <2>1 DEF KeyLoaded
<1>4. CASE KeyMissing(p)
  BY <1>4, Moves, ProcsTyped DEF KeyMissing
<1>5. CASE KeyCreate(p)
  BY <1>5, Moves, ProcsTyped DEF KeyCreate
<1>6. CASE KeyFill(p)
  BY <1>6, KeyRow, ProcsTyped DEF KeyFill
<1>7. CASE ReadLedger(p)
  BY <1>7, ReadLedgerRow, ProcsTyped DEF ReadLedger
<1>8. CASE \E v \in Versions : Migrate(p, v)
  <2> PICK v \in Versions : Migrate(p, v)
    BY <1>8
  <2>1. proc' \in [Procs -> ProcRow]
    BY MigrateRow, ProcsTyped
  <2> PICK n \in Nat : n = bodies[v] + 1
    OBVIOUS
  <2>2. bodies' = [bodies EXCEPT ![v] = n]
    BY DEF Migrate
  <2> QED
    BY <2>1, <2>2 DEF Migrate
<1>9. CASE StartLoops(p)
  <2>1. proc' \in [Procs -> ProcRow]
    BY <1>9, Moves, ProcsTyped DEF StartLoops
  <2>2. loops' \in [Procs -> [Loops -> {"none", "running", "gone"}]]
    BY <1>9, LoopsTyped DEF StartLoops
  <2> QED
    BY <1>9, <2>1, <2>2 DEF StartLoops
<1>10. CASE Listen(p)
  BY <1>10, Moves, ProcsTyped DEF Listen
<1>11. CASE ListenFailed(p)
  <2> PICK f \in BOOLEAN : proc' = [proc EXCEPT ![p].pc = "drain", ![p].failed = f]
    BY <1>11 DEF ListenFailed
  <2> QED
    BY <1>11, FailsRow, ProcsTyped DEF ListenFailed
<1>12. CASE StopListening(p)
  BY <1>12, Moves, ProcsTyped DEF StopListening
<1>13. CASE ShutdownDone(p)
  BY <1>13, Moves, ProcsTyped DEF ShutdownDone
<1>14. CASE ShutdownTimeout(p)
  <2>1. proc' \in [Procs -> ProcRow]
    BY <1>14, ShutdownTimeoutRow, ProcsTyped
  <2> QED
    BY <1>14, <2>1 DEF ShutdownTimeout
<1>15. CASE Signal(p)
  <2>1. proc' \in [Procs -> ProcRow]
    BY <1>15, SignalRow, ProcsTyped
  <2> QED
    BY <1>15, <2>1 DEF Signal
<1>16. CASE \E l \in Loops : LoopEnds(p, l)
  BY <1>16, SameRow, ProcsTyped DEF LoopEnds
<1>17. CASE StreamOpens(p)
  BY <1>17, SameRow, ProcsTyped DEF StreamOpens, Connect
<1>18. CASE StreamCloses(p)
  BY <1>18, SameRow, ProcsTyped DEF StreamCloses, Disconnect
<1> QED
  BY <1>1, <1>2, <1>3, <1>4, <1>5, <1>6, <1>7, <1>8, <1>9, <1>10, <1>11, <1>12, <1>13,
     <1>14, <1>15, <1>16, <1>17, <1>18 DEF Kinds

-----------------------------------------------------------------------------
(* The parts of the invariant that speak of processes only.                *)

\* A process that got past the key has one.
KeyHeld == \A p \in Procs : proc[p].pc \in Keyed => proc[p].key \in Procs

\* What a process saw applied is applied, migrations are applied in order and once, and
\* a process whose loops have started found all of them.
SchemaInv ==
  /\ \A v \in Versions : bodies[v] = IF v \in ledger THEN 1 ELSE 0
  /\ \A v \in ledger : \A u \in Versions : u <= v => u \in ledger
  /\ \A p \in Procs : proc[p].seen \subseteq ledger
  /\ \A p \in Procs : proc[p].pc \in Late => ledger = Versions

\* Only the process on the port takes connections, and it leaves none behind when its
\* shutdown succeeds.
ConnInv ==
  /\ \A p \in Procs : port = p => proc[p].pc = "serve"
  /\ \A p \in Procs :
       conns[p] # {} => \/ proc[p].pc \in {"serve", "shutting"}
                        \/ proc[p].pc = "drain" /\ proc[p].failed

\* A process that has not been started is down.
NewInv == \A p \in Procs : p > starts => proc[p].pc = "down"

LEMMA NewStep ==
  ASSUME LifeTypeOK, NewInv, NEW p \in Procs, Kinds(p)
  PROVE  NewInv'
<1>a. starts \in Int
  BY LifecycleAssumption DEF LifeTypeOK
<1>b. Procs \subseteq Int
  BY LifecycleAssumption DEF Procs
<1> USE <1>a, <1>b DEF NewInv, Becomes, At
<1>1. CASE Dies(p)
  BY <1>1, DiesRow DEF Dies
<1>2. CASE Start(p)
  BY <1>2, StartRow DEF Start
<1>3. CASE KeyLoaded(p)
  BY <1>3, KeyLoadedRow DEF KeyLoaded
<1>4. CASE KeyMissing(p)
  BY <1>4, KeyMissingRow DEF KeyMissing
<1>5. CASE KeyCreate(p)
  BY <1>5, KeyCreateRow DEF KeyCreate
<1>6. CASE KeyFill(p)
  BY <1>6, KeyFillRow DEF KeyFill
<1>7. CASE ReadLedger(p)
  BY <1>7, ReadLedgerRow DEF ReadLedger
<1>8. CASE \E v \in Versions : Migrate(p, v)
  BY <1>8, MigrateRow DEF Migrate
<1>9. CASE StartLoops(p)
  BY <1>9, StartLoopsRow DEF StartLoops
<1>10. CASE Listen(p)
  BY <1>10, ListenRow DEF Listen
<1>11. CASE ListenFailed(p)
  BY <1>11, ListenFailedRow DEF ListenFailed
<1>12. CASE StopListening(p)
  BY <1>12, StopListeningRow DEF StopListening
<1>13. CASE ShutdownDone(p)
  BY <1>13, ShutdownDoneRow DEF ShutdownDone
<1>14. CASE ShutdownTimeout(p)
  BY <1>14, ShutdownTimeoutRow DEF ShutdownTimeout
<1>15. CASE Signal(p)
  BY <1>15, SignalRow DEF Signal
<1>16. CASE \E l \in Loops : LoopEnds(p, l)
  BY <1>16, SameRow DEF LoopEnds
<1>17. CASE StreamOpens(p)
  BY <1>17, SameRow DEF StreamOpens, Connect
<1>18. CASE StreamCloses(p)
  BY <1>18, SameRow DEF StreamCloses, Disconnect
<1> QED
  BY <1>1, <1>2, <1>3, <1>4, <1>5, <1>6, <1>7, <1>8, <1>9, <1>10, <1>11, <1>12, <1>13,
     <1>14, <1>15, <1>16, <1>17, <1>18 DEF Kinds

LEMMA KeyHeldStep ==
  ASSUME LifeTypeOK, KeyHeld, NEW p \in Procs, Kinds(p)
  PROVE  KeyHeld'
<1> USE DEF KeyHeld, Becomes, Keyed, At
<1>1. CASE Dies(p)
  BY <1>1, DiesRow
<1>2. CASE Start(p)
  BY <1>2, StartRow
<1>3. CASE KeyLoaded(p)
  BY <1>3, KeyLoadedRow DEF KeyLoaded
<1>4. CASE KeyMissing(p)
  BY <1>4, KeyMissingRow
<1>5. CASE KeyCreate(p)
  BY <1>5, KeyCreateRow
<1>6. CASE KeyFill(p)
  BY <1>6, KeyFillRow
<1>7. CASE ReadLedger(p)
  BY <1>7, ReadLedgerRow DEF ReadLedger
<1>8. CASE \E v \in Versions : Migrate(p, v)
  BY <1>8, MigrateRow
<1>9. CASE StartLoops(p)
  BY <1>9, StartLoopsRow DEF StartLoops
<1>10. CASE Listen(p)
  BY <1>10, ListenRow DEF Listen
<1>11. CASE ListenFailed(p)
  BY <1>11, ListenFailedRow DEF ListenFailed
<1>12. CASE StopListening(p)
  BY <1>12, StopListeningRow DEF StopListening
<1>13. CASE ShutdownDone(p)
  BY <1>13, ShutdownDoneRow DEF ShutdownDone
<1>14. CASE ShutdownTimeout(p)
  BY <1>14, ShutdownTimeoutRow DEF ShutdownTimeout
<1>15. CASE Signal(p)
  BY <1>15, SignalRow
<1>16. CASE \E l \in Loops : LoopEnds(p, l)
  <2>1. Becomes(p, proc[p].pc, proc[p].key, proc[p].seen, proc[p].told, proc[p].failed)
    BY <1>16, SameRow DEF LoopEnds
  <2> QED
    BY <1>16, <2>1
<1>17. CASE StreamOpens(p)
  <2>1. Becomes(p, proc[p].pc, proc[p].key, proc[p].seen, proc[p].told, proc[p].failed)
    BY <1>17, SameRow DEF StreamOpens
  <2> QED
    BY <1>17, <2>1
<1>18. CASE StreamCloses(p)
  <2>1. Becomes(p, proc[p].pc, proc[p].key, proc[p].seen, proc[p].told, proc[p].failed)
    BY <1>18, SameRow DEF StreamCloses
  <2> QED
    BY <1>18, <2>1
<1> QED
  BY <1>1, <1>2, <1>3, <1>4, <1>5, <1>6, <1>7, <1>8, <1>9, <1>10, <1>11, <1>12, <1>13,
     <1>14, <1>15, <1>16, <1>17, <1>18 DEF Kinds

LEMMA SchemaStep ==
  ASSUME LifeTypeOK, SchemaInv, NEW p \in Procs, Kinds(p)
  PROVE  SchemaInv'
<1> USE DEF SchemaInv, Becomes, Late, At, diskVars
<1>1. CASE Dies(p)
  BY <1>1, DiesRow DEF Dies
<1>2. CASE Start(p)
  BY <1>2, StartRow DEF Start
<1>3. CASE KeyLoaded(p)
  BY <1>3, KeyLoadedRow DEF KeyLoaded
<1>4. CASE KeyMissing(p)
  BY <1>4, KeyMissingRow DEF KeyMissing
<1>5. CASE KeyCreate(p)
  BY <1>5, KeyCreateRow DEF KeyCreate
<1>6. CASE KeyFill(p)
  BY <1>6, KeyFillRow DEF KeyFill
<1>7. CASE ReadLedger(p)
  BY <1>7, ReadLedgerRow DEF ReadLedger
<1>8. CASE \E v \in Versions : Migrate(p, v)
  <2> PICK v \in Versions : Migrate(p, v)
    BY <1>8
  <2>1. Becomes(p, proc[p].pc, proc[p].key, proc[p].seen \cup {v}, proc[p].told,
                proc[p].failed)
    BY MigrateRow
  <2>2. \A u \in Versions : u < v => u \in ledger
    BY LifecycleAssumption DEF Migrate, IsNext, Pending, Versions
  <2>3. \A u \in Versions : bodies'[u] = IF u \in ledger' THEN 1 ELSE 0
    BY DEF Migrate, LifeTypeOK
  <2>4. \A w \in ledger' : \A u \in Versions : u <= w => u \in ledger'
    BY <2>2, LifecycleAssumption DEF Migrate, Versions, LifeTypeOK
  <2>5. \A q \in Procs : proc'[q].seen \subseteq ledger'
    BY <2>1 DEF Migrate
  <2>6. \A q \in Procs : proc'[q].pc \in Late => ledger' = Versions
    BY <2>1 DEF Migrate, LifeTypeOK
  <2> QED
    BY <2>3, <2>4, <2>5, <2>6
<1>9. CASE StartLoops(p)
  <2>1. Becomes(p, "listen", proc[p].key, proc[p].seen, proc[p].told, proc[p].failed)
    BY <1>9, Moves DEF StartLoops, Stages
  <2>2. ledger = Versions
    BY <1>9 DEF StartLoops, Pending, LifeTypeOK
  <2> QED
    BY <1>9, <2>1, <2>2 DEF StartLoops
<1>10. CASE Listen(p)
  BY <1>10, ListenRow DEF Listen
<1>11. CASE ListenFailed(p)
  BY <1>11, ListenFailedRow DEF ListenFailed
<1>12. CASE StopListening(p)
  BY <1>12, StopListeningRow DEF StopListening
<1>13. CASE ShutdownDone(p)
  BY <1>13, ShutdownDoneRow DEF ShutdownDone
<1>14. CASE ShutdownTimeout(p)
  BY <1>14, ShutdownTimeoutRow DEF ShutdownTimeout
<1>15. CASE Signal(p)
  BY <1>15, SignalRow DEF Signal
<1>16. CASE \E l \in Loops : LoopEnds(p, l)
  BY <1>16, SameRow DEF LoopEnds
<1>17. CASE StreamOpens(p)
  BY <1>17, SameRow DEF StreamOpens
<1>18. CASE StreamCloses(p)
  BY <1>18, SameRow DEF StreamCloses
<1> QED
  BY <1>1, <1>2, <1>3, <1>4, <1>5, <1>6, <1>7, <1>8, <1>9, <1>10, <1>11, <1>12, <1>13,
     <1>14, <1>15, <1>16, <1>17, <1>18 DEF Kinds

LEMMA ConnStep ==
  ASSUME LifeTypeOK, NewInv, ConnInv, NEW p \in Procs, Kinds(p)
  PROVE  ConnInv'
<1>a. conns \in [Procs -> SUBSET {"stream", "request"}]
  BY DEF LifeTypeOK
<1>b. Nobody \notin Procs
  BY LifecycleAssumption DEF Procs, Nobody
<1> USE <1>a, <1>b DEF ConnInv, Becomes, At
<1>1. CASE Dies(p)
  BY <1>1, DiesRow DEF Dies
<1>2. CASE Start(p)
  <2>1. Becomes(p, "key", proc[p].key, proc[p].seen, proc[p].told, proc[p].failed)
    BY <1>2, Moves DEF Start, Stages
  <2>2. proc[p].pc = "down"
    BY <1>2, LifecycleAssumption DEF Start, NewInv, LifeTypeOK, Procs
  <2> QED
    BY <1>2, <2>1, <2>2 DEF Start
<1>3. CASE KeyLoaded(p)
  BY <1>3, KeyLoadedRow DEF KeyLoaded
<1>4. CASE KeyMissing(p)
  BY <1>4, KeyMissingRow DEF KeyMissing
<1>5. CASE KeyCreate(p)
  BY <1>5, KeyCreateRow DEF KeyCreate
<1>6. CASE KeyFill(p)
  <2>1. Becomes(p, "open", p, proc[p].seen, proc[p].told, proc[p].failed)
    BY <1>6, KeyFillRow
  <2> QED
    BY <1>6, <2>1 DEF KeyFill
<1>7. CASE ReadLedger(p)
  BY <1>7, ReadLedgerRow DEF ReadLedger
<1>8. CASE \E v \in Versions : Migrate(p, v)
  BY <1>8, MigrateRow DEF Migrate
<1>9. CASE StartLoops(p)
  <2>1. Becomes(p, "listen", proc[p].key, proc[p].seen, proc[p].told, proc[p].failed)
    BY <1>9, StartLoopsRow
  <2> QED
    BY <1>9, <2>1 DEF StartLoops
<1>10. CASE Listen(p)
  BY <1>10, ListenRow DEF Listen
<1>11. CASE ListenFailed(p)
  <2> PICK f \in BOOLEAN :
        Becomes(p, "drain", proc[p].key, proc[p].seen, proc[p].told, f)
    BY <1>11, ListenFailedRow
  <2> QED
    BY <1>11 DEF ListenFailed
<1>12. CASE StopListening(p)
  BY <1>12, StopListeningRow DEF StopListening
<1>13. CASE ShutdownDone(p)
  BY <1>13, ShutdownDoneRow DEF ShutdownDone
<1>14. CASE ShutdownTimeout(p)
  BY <1>14, ShutdownTimeoutRow DEF ShutdownTimeout
<1>15. CASE Signal(p)
  BY <1>15, SignalRow DEF Signal
<1>16. CASE \E l \in Loops : LoopEnds(p, l)
  BY <1>16, SameRow DEF LoopEnds
<1>17. CASE StreamOpens(p)
  BY <1>17, SameRow DEF StreamOpens, Connect
<1>18. CASE StreamCloses(p)
  BY <1>18, SameRow DEF StreamCloses, Disconnect
<1> QED
  BY <1>1, <1>2, <1>3, <1>4, <1>5, <1>6, <1>7, <1>8, <1>9, <1>10, <1>11, <1>12, <1>13,
     <1>14, <1>15, <1>16, <1>17, <1>18 DEF Kinds

LifeInv == LifeTypeOK /\ NewInv /\ KeyHeld /\ SchemaInv /\ ConnInv

LEMMA LifeInit_LifeInv == LifeInit => LifeInv
<1> SUFFICES ASSUME LifeInit PROVE LifeInv
  OBVIOUS
<1>1. Down \in ProcRow
  BY DEF Down, ProcRow, Stages
<1>2. LifeTypeOK
  BY <1>1, LifecycleAssumption DEF LifeInit, LifeTypeOK, ProcRow
<1>3. NewInv /\ KeyHeld
  BY DEF LifeInit, NewInv, KeyHeld, Keyed, Down
<1>4. SchemaInv /\ ConnInv
  BY LifecycleAssumption DEF LifeInit, SchemaInv, ConnInv, Late, Down, Procs, Nobody
<1> QED
  BY <1>2, <1>3, <1>4 DEF LifeInv

LEMMA LifeNext_LifeInv == ASSUME LifeInv, LifeNext PROVE LifeInv'
<1>1. CASE RemoveTornKey
  BY <1>1 DEF RemoveTornKey, LifeInv, LifeTypeOK, NewInv, KeyHeld, SchemaInv, ConnInv
<1>2. ASSUME NEW p \in Procs, LifeStep(p) PROVE LifeInv'
  BY <1>2, StepKinds, LifeStepTyped, NewStep, KeyHeldStep, SchemaStep, ConnStep
     DEF LifeInv
<1> QED
  BY <1>1, <1>2 DEF LifeNext

\* A step that changes nothing of a process but its connections, and opens none at a
\* process that does not serve.
LEMMA ConnsOnly ==
  ASSUME LifeInv, UNCHANGED <<keyFile, bodies, ledger, starts, port, proc, loops>>,
         conns' \in [Procs -> SUBSET {"stream", "request"}],
         \A q \in Procs : conns'[q] \subseteq conns[q] \/ proc[q].pc = "serve"
  PROVE  LifeInv'
<1>1. LifeTypeOK' /\ NewInv' /\ KeyHeld' /\ SchemaInv'
  BY DEF LifeInv, LifeTypeOK, NewInv, KeyHeld, SchemaInv
<1>2. ConnInv'
  BY DEF LifeInv, ConnInv
<1> QED
  BY <1>1, <1>2 DEF LifeInv

-----------------------------------------------------------------------------
(* Keys and imports.                                                       *)

RowsInv == rows \in [Secrets -> Procs \cup {None}]

\* An import under way is a request of the process it runs in.
ImportInv ==
  /\ importer \in Procs \cup {Nobody}
  /\ imp # None => importer # Nobody
  /\ importer # Nobody => "request" \in conns[importer]

\* Unless a start overwrote a key file, keys in memory and rows agree with the file,
\* and the start that fills it is alone.
ReadableInv ==
  \/ clobbered
  \/ /\ \A p \in Procs : proc[p].key # Absent => keyFile = proc[p].key
     /\ \A s \in Secrets : rows[s] # None => keyFile = rows[s]
     /\ \A p \in Procs : proc[p].pc = "fill" => keyFile = Torn
     /\ \A p, q \in Procs : proc[p].pc = "fill" /\ proc[q].pc = "fill" => p = q

Inv == LifeInv /\ RowsInv /\ ImportInv /\ ReadableInv

\* The master key of a process an import runs in is one.
LEMMA ImporterKey ==
  ASSUME Inv, imp # None
  PROVE  importer \in Procs /\ proc[importer].key \in Procs
<1>1. importer \in Procs /\ conns[importer] # {}
  BY DEF Inv, ImportInv
<1> QED
  BY <1>1 DEF Inv, LifeInv, ConnInv, KeyHeld, Keyed

\* The process steps leave the rows alone, and with the process its import ends.
LEMMA ImportStaysOwned ==
  ASSUME Inv, LifeNext, ImportFollows
  PROVE  RowsInv' /\ ImportInv'
<1>1. rows' = rows
  BY DEF ImportFollows, LoseImport, intakeVars
<1>2. CASE importer # Nobody /\ proc'[importer].pc = "down"
  BY <1>1, <1>2 DEF ImportFollows, LoseImport, Inv, RowsInv, ImportInv
<1>3. CASE ~(importer # Nobody /\ proc'[importer].pc = "down")
  <2>1. UNCHANGED <<imp, importer>>
    BY <1>3 DEF ImportFollows, intakeVars
  <2>2. ASSUME importer # Nobody PROVE "request" \in conns'[importer]
    <3>1. /\ importer \in Procs /\ "request" \in conns[importer]
          /\ proc'[importer].pc # "down"
      BY <2>2, <1>3 DEF Inv, ImportInv
    <3>2. conns \in [Procs -> SUBSET {"stream", "request"}]
      BY DEF Inv, LifeInv, LifeTypeOK
    <3>3. CASE RemoveTornKey
      BY <3>1, <3>3 DEF RemoveTornKey
    <3>4. ASSUME NEW p \in Procs, LifeStep(p) PROVE "request" \in conns'[importer]
      <4>1. CASE Dies(p)
        <5>1. p # importer
          BY <3>1, <4>1, DiesRow DEF Inv, LifeInv, Becomes
        <5> QED
          BY <3>1, <3>2, <4>1, <5>1 DEF Dies
      <4>2. CASE StreamOpens(p) \/ StreamCloses(p)
        BY <3>1, <3>2, <4>2 DEF StreamOpens, StreamCloses, Connect, Disconnect
      <4>3. CASE UNCHANGED conns
        BY <3>1, <4>3
      <4> QED
        BY <3>4, <4>1, <4>2, <4>3, StepKinds
        DEF Kinds, Start, KeyLoaded, KeyMissing, KeyCreate, KeyFill, ReadLedger, Migrate,
            StartLoops, Listen, ListenFailed, StopListening, ShutdownDone,
            ShutdownTimeout, Signal, LoopEnds
    <3> QED
      BY <3>3, <3>4 DEF LifeNext
  <2> QED
    BY <1>1, <2>1, <2>2 DEF Inv, RowsInv, ImportInv
<1> QED
  BY <1>2, <1>3

-----------------------------------------------------------------------------
(* The key file.                                                           *)

LEMMA ReadableStep ==
  ASSUME LifeTypeOK, RowsInv, ReadableInv, NEW p \in Procs, Kinds(p), UNCHANGED rows,
         clobbered' = (clobbered \/ \E q \in Procs : keyFile # Absent /\ KeyCreate(q))
  PROVE  ReadableInv'
<1>a. /\ Absent \notin Procs /\ Torn \notin Procs /\ Torn # Absent
      /\ None \notin Procs
  BY LifecycleAssumption, IntakeAssumption DEF Procs, Absent, Torn
<1>b. \A q \in Procs : proc[q].key \in Procs \cup {Absent}
  BY DEF LifeTypeOK
<1>c. \A s \in Secrets : rows[s] \in Procs \cup {None}
  BY DEF RowsInv
<1> USE DEF ReadableInv, Becomes, At, diskVars
<1>1. CASE Dies(p)
  BY <1>1, DiesRow DEF Dies
<1>2. CASE Start(p)
  <2>1. Becomes(p, "key", proc[p].key, proc[p].seen, proc[p].told, proc[p].failed)
    BY <1>2, StartRow
  <2> QED
    BY <1>2, <2>1 DEF Start
<1>3. CASE KeyLoaded(p)
  BY <1>3, KeyLoadedRow DEF KeyLoaded
<1>4. CASE KeyMissing(p)
  <2>1. Becomes(p, "create", proc[p].key, proc[p].seen, proc[p].told, proc[p].failed)
    BY <1>4, KeyMissingRow
  <2> QED
    BY <1>4, <2>1 DEF KeyMissing
<1>5. CASE KeyCreate(p)
  <2>1. Becomes(p, "fill", proc[p].key, proc[p].seen, proc[p].told, proc[p].failed)
    BY <1>5, Moves DEF KeyCreate, Stages
  <2>2. CASE keyFile # Absent
    BY <1>5, <2>2
  <2>3. CASE keyFile = Absent /\ ~clobbered
    <3>1. \A q \in Procs : proc[q].pc # "fill" /\ proc[q].key = Absent
      BY <1>a, <1>b, <2>3
    <3>2. \A s \in Secrets : rows[s] = None
      BY <1>a, <1>c, <2>3
    <3> QED
      BY <1>5, <2>1, <3>1, <3>2 DEF KeyCreate
  <2> QED
    BY <2>2, <2>3
<1>6. CASE KeyFill(p)
  <2>1. Becomes(p, "open", p, proc[p].seen, proc[p].told, proc[p].failed)
    BY <1>6, KeyRow DEF KeyFill, Stages
  <2>2. CASE ~clobbered
    <3>1. keyFile = Torn
      BY <1>6, <2>2 DEF KeyFill
    <3>2. \A q \in Procs \ {p} : proc[q].pc # "fill" /\ proc[q].key = Absent
      BY <1>6, <1>a, <1>b, <2>2, <3>1 DEF KeyFill
    <3>3. \A s \in Secrets : rows[s] = None
      BY <1>a, <1>c, <2>2, <3>1
    <3> QED
      BY <1>6, <2>1, <3>2, <3>3 DEF KeyFill
  <2> QED
    BY <2>2
<1>7. CASE ReadLedger(p)
  BY <1>7, ReadLedgerRow DEF ReadLedger
<1>8. CASE \E v \in Versions : Migrate(p, v)
  <2> PICK v \in Versions : Migrate(p, v)
    BY <1>8
  <2>1. Becomes(p, proc[p].pc, proc[p].key, proc[p].seen \cup {v}, proc[p].told,
                proc[p].failed)
    BY MigrateRow
  <2> QED
    BY <2>1 DEF Migrate
<1>9. CASE StartLoops(p)
  <2>1. Becomes(p, "listen", proc[p].key, proc[p].seen, proc[p].told, proc[p].failed)
    BY <1>9, StartLoopsRow
  <2> QED
    BY <1>9, <2>1 DEF StartLoops
<1>10. CASE Listen(p)
  <2>1. Becomes(p, "serve", proc[p].key, proc[p].seen, proc[p].told, proc[p].failed)
    BY <1>10, ListenRow
  <2> QED
    BY <1>10, <2>1 DEF Listen
<1>11. CASE ListenFailed(p)
  <2> PICK f \in BOOLEAN :
        Becomes(p, "drain", proc[p].key, proc[p].seen, proc[p].told, f)
    BY <1>11, ListenFailedRow
  <2>1. UNCHANGED keyFile
    BY <1>11 DEF ListenFailed
  <2> QED
    BY <2>1
<1>12. CASE StopListening(p)
  <2>1. Becomes(p, "shutting", proc[p].key, proc[p].seen, proc[p].told, proc[p].failed)
    BY <1>12, StopListeningRow
  <2> QED
    BY <1>12, <2>1 DEF StopListening
<1>13. CASE ShutdownDone(p)
  <2>1. Becomes(p, "drain", proc[p].key, proc[p].seen, proc[p].told, proc[p].failed)
    BY <1>13, ShutdownDoneRow
  <2> QED
    BY <1>13, <2>1 DEF ShutdownDone
<1>14. CASE ShutdownTimeout(p)
  <2>1. Becomes(p, "drain", proc[p].key, proc[p].seen, proc[p].told, TRUE)
    BY <1>14, ShutdownTimeoutRow
  <2> QED
    BY <1>14, <2>1 DEF ShutdownTimeout
<1>15. CASE Signal(p)
  <2>1. Becomes(p, proc[p].pc, proc[p].key, proc[p].seen, TRUE, proc[p].failed)
    BY <1>15, SignalRow
  <2> QED
    BY <1>15, <2>1 DEF Signal
<1>16. CASE \E l \in Loops : LoopEnds(p, l)
  <2>1. Becomes(p, proc[p].pc, proc[p].key, proc[p].seen, proc[p].told, proc[p].failed)
    BY <1>16, SameRow DEF LoopEnds, Stages
  <2>2. UNCHANGED <<keyFile, proc>>
    BY <1>16 DEF LoopEnds
  <2> QED
    BY <2>2
<1>17. CASE StreamOpens(p)
  BY <1>17, SameRow DEF StreamOpens
<1>18. CASE StreamCloses(p)
  BY <1>18, SameRow DEF StreamCloses
<1> QED
  BY <1>1, <1>2, <1>3, <1>4, <1>5, <1>6, <1>7, <1>8, <1>9, <1>10, <1>11, <1>12, <1>13,
     <1>14, <1>15, <1>16, <1>17, <1>18 DEF Kinds

LEMMA RemovedReadable ==
  ASSUME LifeTypeOK, RowsInv, ReadableInv, RemoveTornKey, UNCHANGED rows,
         clobbered' = (clobbered \/ \E q \in Procs : keyFile # Absent /\ KeyCreate(q))
  PROVE  ReadableInv'
<1>1. /\ Absent \notin Procs /\ Torn \notin Procs /\ Torn # Absent
      /\ None \notin Procs
  BY LifecycleAssumption, IntakeAssumption DEF Procs, Absent, Torn
<1>2. CASE ~clobbered
  <2>1. \A q \in Procs : proc[q].pc # "fill" /\ proc[q].key = Absent
    BY <1>1, <1>2 DEF RemoveTornKey, ReadableInv, LifeTypeOK, At
  <2>2. \A s \in Secrets : rows[s] = None
    BY <1>1, <1>2 DEF RemoveTornKey, ReadableInv, RowsInv
  <2> QED
    BY <2>1, <2>2 DEF RemoveTornKey, ReadableInv
<1> QED
  BY <1>2 DEF ReadableInv

\* A row is added with the key of a process that serves, which is the one on disk.
LEMMA AddedReadable ==
  ASSUME Inv, NEW key \in Procs, clobbered \/ keyFile = key, NEW s, Create(s, key),
         UNCHANGED <<keyFile, proc>>, clobbered' \/ ~clobbered
  PROVE  RowsInv' /\ ReadableInv'
<1> USE DEF Inv, RowsInv, ReadableInv, Create
<1>1. RowsInv'
  OBVIOUS
<1>2. \A t \in Secrets : rows'[t] = rows[t] \/ rows'[t] = key
  OBVIOUS
<1> QED
  BY <1>1, <1>2

-----------------------------------------------------------------------------
(* The invariant and the theorems.                                         *)

LEMMA Init_Inv == HistoryInit => Inv
<1> SUFFICES ASSUME HistoryInit PROVE Inv
  OBVIOUS
<1>1. LifeInv
  BY LifeInit_LifeInv DEF HistoryInit, Init
<1>2. RowsInv /\ ImportInv
  BY DEF HistoryInit, Init, IntakeInit, RowsInv, ImportInv
<1>3. ReadableInv
  BY DEF HistoryInit, Init, IntakeInit, LifeInit, Down, ReadableInv
<1> QED
  BY <1>1, <1>2, <1>3 DEF Inv

LEMMA AddKey_Inv == ASSUME Inv, NEW p \in Procs, AddKeyAt(p), HistoryNext PROVE Inv'
<1> PICK s \in Secrets : AddKey(s, proc[p].key)
  BY DEF AddKeyAt
<1>1. proc[p].key \in Procs
  BY DEF AddKeyAt, Takes, At, Inv, LifeInv, KeyHeld, Keyed
<1>2. clobbered \/ keyFile = proc[p].key
  BY <1>1, LifecycleAssumption DEF Inv, ReadableInv, Absent, Procs
<1>3. UNCHANGED lifeVars
  BY DEF AddKeyAt
<1>4. LifeInv'
  BY <1>3 DEF Inv, LifeInv, LifeTypeOK, NewInv, KeyHeld, SchemaInv, ConnInv, lifeVars
<1>5. RowsInv' /\ ReadableInv'
  BY <1>1, <1>2, <1>3, AddedReadable DEF AddKey, lifeVars, HistoryNext
<1>6. ImportInv'
  BY <1>3 DEF AddKeyAt, AddKey, Inv, ImportInv, lifeVars
<1> QED
  BY <1>4, <1>5, <1>6 DEF Inv

LEMMA Import_Inv == ASSUME Inv, NEW p \in Procs, ImportAt(p), HistoryNext PROVE Inv'
<1>1. conns \in [Procs -> SUBSET {"stream", "request"}]
  BY DEF Inv, LifeInv, LifeTypeOK
<1>2. LifeInv'
  <2>1. conns' \in [Procs -> SUBSET {"stream", "request"}]
    BY <1>1 DEF ImportAt, Connect
  <2>2. \A q \in Procs : conns'[q] \subseteq conns[q] \/ proc[q].pc = "serve"
    BY <1>1 DEF ImportAt, Connect, At
  <2> QED
    BY <2>1, <2>2, ConnsOnly DEF Inv, ImportAt, diskVars
<1>3. RowsInv' /\ ReadableInv'
  BY DEF Inv, ImportAt, BeginImport, diskVars, RowsInv, ReadableInv, HistoryNext
<1>4. ImportInv'
  BY <1>1, LifecycleAssumption DEF ImportAt, Connect, ImportInv, Procs, Nobody
<1> QED
  BY <1>2, <1>3, <1>4 DEF Inv

LEMMA ImportStep_Inv == ASSUME Inv, ImportStep, HistoryNext PROVE Inv'
<1>1. UNCHANGED <<lifeVars, importer>> /\ imp # None
  BY DEF ImportStep
<1>2. LifeInv'
  BY <1>1 DEF Inv, LifeInv, LifeTypeOK, NewInv, KeyHeld, SchemaInv, ConnInv, lifeVars
<1>3. ImportInv'
  BY <1>1, ImporterKey, LifecycleAssumption DEF Inv, ImportInv, lifeVars, Procs, Nobody
<1>4. RowsInv' /\ ReadableInv'
  <2>1. CASE UNCHANGED rows
    BY <1>1, <2>1 DEF Inv, RowsInv, ReadableInv, lifeVars, HistoryNext
  <2>2. CASE \E i \in Lines(imp) : Create(imp.lines[i].secret, proc[importer].key)
    <3>1. proc[importer].key \in Procs /\ (clobbered \/ keyFile = proc[importer].key)
      BY <1>1, ImporterKey, LifecycleAssumption DEF Inv, ReadableInv, Absent, Procs
    <3> QED
      BY <1>1, <2>2, <3>1, AddedReadable DEF lifeVars, HistoryNext
  <2> QED
    BY <2>1, <2>2 DEF ImportStep, Hand, Answer, InsertLine
<1> QED
  BY <1>2, <1>3, <1>4 DEF Inv

LEMMA ImportReturns_Inv == ASSUME Inv, ImportReturns, HistoryNext PROVE Inv'
<1>1. conns \in [Procs -> SUBSET {"stream", "request"}]
  BY DEF Inv, LifeInv, LifeTypeOK
<1>2. LifeInv'
  <2>1. conns' \in [Procs -> SUBSET {"stream", "request"}]
    BY <1>1 DEF ImportReturns, Disconnect
  <2>2. \A q \in Procs : conns'[q] \subseteq conns[q]
    BY <1>1 DEF ImportReturns, Disconnect
  <2> QED
    BY <2>1, <2>2, ConnsOnly DEF Inv, ImportReturns, diskVars
<1>3. RowsInv' /\ ReadableInv'
  BY DEF Inv, ImportReturns, EndImport, diskVars, RowsInv, ReadableInv, HistoryNext
<1>4. ImportInv'
  BY DEF ImportReturns, EndImport, ImportInv
<1> QED
  BY <1>2, <1>3, <1>4 DEF Inv

LEMMA Next_Inv == Inv /\ [HistoryNext]_historyVars => Inv'
<1> SUFFICES ASSUME Inv, [HistoryNext]_historyVars PROVE Inv'
  OBVIOUS
<1>1. CASE HistoryNext /\ LifeNext /\ ImportFollows
  <2>1. LifeInv'
    BY <1>1, LifeNext_LifeInv DEF Inv
  <2>2. RowsInv' /\ ImportInv'
    BY <1>1, ImportStaysOwned
  <2>3. UNCHANGED rows
    BY <1>1 DEF ImportFollows, LoseImport, intakeVars
  <2>4. ReadableInv'
    BY <1>1, <2>3, RemovedReadable, ReadableStep, StepKinds
    DEF HistoryNext, LifeNext, Inv, LifeInv
  <2> QED
    BY <2>1, <2>2, <2>4 DEF Inv
<1>2. CASE UNCHANGED historyVars
  BY <1>2 DEF historyVars, vars, lifeVars, intakeVars, Inv, LifeInv, LifeTypeOK, NewInv,
     KeyHeld, SchemaInv, ConnInv, RowsInv, ImportInv, ReadableInv
<1> QED
  BY <1>1, <1>2, AddKey_Inv, Import_Inv, ImportStep_Inv, ImportReturns_Inv
  DEF HistoryNext, Next

LEMMA AlwaysInv == HistorySpec => []Inv
  BY Init_Inv, Next_Inv, PTL DEF HistorySpec

\* Every reachable state of the processes, the disk and the port is well typed.
THEOREM LifecycleTypeCorrect == HistorySpec => []LifeTypeOK
<1>1. Inv => LifeTypeOK
  BY DEF Inv, LifeInv
<1> QED
  BY <1>1, AlwaysInv, PTL

\* Every row can be opened with the key on disk, unless a start wrote its key file over
\* another's (LoadOrCreateCipher): ReadableInv with the keys processes hold in memory.
THEOREM RowsStayReadable == HistorySpec => []KeysStayReadable
<1>1. Inv => KeysStayReadable
  BY DEF Inv, ReadableInv, KeysStayReadable
<1> QED
  BY <1>1, AlwaysInv, PTL

\* Migrations take effect once and in order, and no process listens on a part of them
\* (store.Open), however many processes start and crash.
THEOREM SchemaStaysWhole == HistorySpec => []SchemaWhole
<1>1. Inv => SchemaWhole
  BY LifecycleAssumption
  DEF Inv, LifeInv, SchemaInv, SchemaWhole, Late, LifeTypeOK, Versions
<1> QED
  BY <1>1, AlwaysInv, PTL

\* A stop that reports success leaves no connection and no import (Server.Run).
THEOREM StopsAreClean == HistorySpec => []StopIsClean
<1>1. Inv => StopIsClean
  <2> SUFFICES ASSUME Inv, NEW p \in Procs, At(p, "drain"), ~proc[p].failed
               PROVE  conns[p] = {} /\ importer # p /\ port # p
    BY DEF StopIsClean
  <2>1. Nobody \notin Procs
    BY LifecycleAssumption DEF Procs, Nobody
  <2> QED
    BY <2>1 DEF Inv, LifeInv, ConnInv, ImportInv, At
<1> QED
  BY <1>1, AlwaysInv, PTL

-----------------------------------------------------------------------------
(* The lines of an import.                                                 *)

ImportOf(lines) ==
  [lines   : {lines},
   results : [DOMAIN lines -> Outcomes \cup {None}],
   found   : [DOMAIN lines -> Verdicts \cup {None}],
   handed  : SUBSET DOMAIN lines,
   probing : SUBSET DOMAIN lines,
   workers : {PoolFor(lines, size) : size \in PoolSizes}]

\* The probes: one per line to detect, and its answer is the one noted.
ProbesInv ==
  /\ imp.probing \subseteq imp.handed /\ imp.handed \subseteq ToDetect(imp)
  /\ verdicts = imp.found
  /\ \A i \in Lines(imp) : imp.found[i] # None => i \in imp.handed \ imp.probing

\* The results: nothing of a probed line is decided before every probe is answered.
ResultsInv ==
  /\ \A i \in Lines(imp) : ParseError(imp.lines[i]) => imp.results[i] = "parse_error"
  /\ \A i \in ToDetect(imp) : imp.results[i] # None =>
       Detected /\ (imp.results[i] = "unauthorized" <=> imp.found[i] = "unauthorized")

\* A line that made a row, or met one, has its secret in the table.
InTable ==
  \A i \in Lines(imp) :
    imp.results[i] \in {"created", "duplicate"} => rows[imp.lines[i].secret] # None

LinesInv ==
  /\ \E lines \in Payloads : imp \in ImportOf(lines)
  /\ ProbesInv /\ ResultsInv /\ InTable /\ FirstLineWins

LineInv == imp # None => LinesInv

RowsGrow == \A s \in Secrets : rows[s] # None => rows'[s] # None

LEMMA LineTyped ==
  ASSUME NEW lines \in Payloads, NEW i \in DOMAIN lines
  PROVE  i \in Nat /\ lines[i].secret \in Secrets \cup {None}
<1> DEFINE S == [secret : Secrets \cup {None}, plan : STRING]
<1>1. lines \in Seq(S)
  BY IntakeAssumption
<1>2. \A x \in S : x.secret \in Secrets \cup {None}
  OBVIOUS
<1> HIDE DEF S
<1>3. i \in Nat /\ lines[i] \in S
  BY <1>1
<1> QED
  BY <1>2, <1>3

LEMMA PoolIsNat ==
  ASSUME NEW lines \in Payloads, NEW size \in PoolSizes
  PROVE  PoolFor(lines, size) \in Nat
<1>1. Len(lines) \in Nat /\ DOMAIN lines = 1..Len(lines)
  BY IntakeAssumption
<1>2. IsFiniteSet(DOMAIN lines)
  BY <1>1, FS_Interval
<1>3. ToDetectIn(lines) \in SUBSET DOMAIN lines
  BY DEF ToDetectIn
<1>4. IsFiniteSet(ToDetectIn(lines))
  BY <1>2, <1>3, FS_Subset
<1>5. Cardinality(ToDetectIn(lines)) \in Nat /\ size \in Nat
  BY <1>4, FS_CardinalityType, IntakeAssumption
<1> QED
  BY <1>5 DEF PoolFor

LEMMA Distinct ==
  /\ None \notin Verdicts /\ None \notin Outcomes /\ None \notin Secrets
  BY IntakeAssumption

\* Steps that leave the import alone, while the table grows.
LEMMA LinesKept ==
  ASSUME LineInv, RowsGrow, imp' = imp, HistoryNext \/ UNCHANGED verdicts
  PROVE  LineInv'
<1> SUFFICES ASSUME imp # None PROVE LinesInv'
  BY DEF LineInv
<1>1. PICK lines \in Payloads : imp \in ImportOf(lines)
  BY DEF LineInv, LinesInv
<1>2. /\ imp.lines = lines /\ Lines(imp) = DOMAIN lines
      /\ imp.found \in [DOMAIN lines -> Verdicts \cup {None}]
  BY <1>1 DEF ImportOf, Lines
<1>3. verdicts' = verdicts
  <2>1. CASE HistoryNext
    <3>1. verdicts' = [i \in Lines(imp) |-> IF AnsweredFor(i) THEN CHOOSE v \in Noted : TRUE
                                                          ELSE verdicts[i]]
      BY <2>1 DEF HistoryNext
    <3>2. \A i : ~AnsweredFor(i)
      BY DEF AnsweredFor
    <3>3. verdicts = imp.found
      BY DEF LineInv, LinesInv, ProbesInv
    <3> QED
      BY <1>2, <3>1, <3>2, <3>3
  <2> QED
    BY <2>1
<1>4. InTable'
  <2> SUFFICES ASSUME NEW i \in Lines(imp), imp.results[i] \in {"created", "duplicate"}
               PROVE  rows'[imp.lines[i].secret] # None
    BY DEF InTable
  <2>1. ~ParseError(imp.lines[i]) /\ rows[imp.lines[i].secret] # None
    BY DEF LineInv, LinesInv, ResultsInv, InTable
  <2>2. imp.lines[i].secret \in Secrets
    BY <1>2, <2>1, LineTyped DEF ParseError
  <2> QED
    BY <2>1, <2>2 DEF RowsGrow
<1>5. ProbesInv' /\ ResultsInv' /\ FirstLineWins'
  BY <1>3
  DEF LineInv, LinesInv, ProbesInv, ResultsInv, FirstLineWins, ToDetect, ToDetectIn, Lines,
      Detected, Unhanded
<1> QED
  BY <1>1, <1>4, <1>5 DEF LinesInv

LEMMA BeginLines ==
  ASSUME HistoryNext, NEW lines \in Payloads, BeginImport(lines)
  PROVE  LineInv'
<1> SUFFICES ASSUME imp' # None PROVE LinesInv'
  BY DEF LineInv
<1> DEFINE results == [i \in DOMAIN lines |->
                         IF ParseError(lines[i]) THEN "parse_error" ELSE None]
           found == [i \in DOMAIN lines |-> None]
<1>1. /\ results \in [DOMAIN lines -> Outcomes \cup {None}]
      /\ \A i \in DOMAIN lines : results[i] =
           IF ParseError(lines[i]) THEN "parse_error" ELSE None
      /\ found \in [DOMAIN lines -> Verdicts \cup {None}]
      /\ \A i \in DOMAIN lines : found[i] = None
  BY DEF Outcomes
<1> PICK size \in PoolSizes :
         imp' = [lines |-> lines, results |-> results, found |-> found,
                 handed |-> {}, probing |-> {}, workers |-> PoolFor(lines, size)]
  BY DEF BeginImport
<1>2. imp' = [lines |-> lines, results |-> results, found |-> found,
              handed |-> {}, probing |-> {}, workers |-> PoolFor(lines, size)]
  OBVIOUS
<1>3. verdicts' = found
  <2>1. verdicts' = [i \in Lines(imp') |-> None]
    BY DEF HistoryNext, BeginImport
  <2> QED
    BY <1>2, <2>1 DEF Lines
<1> HIDE DEF results, found
<1>4. imp' \in ImportOf(lines)
  BY <1>1, <1>2 DEF ImportOf
<1>5. /\ imp'.lines = lines /\ imp'.results = results /\ imp'.found = found
      /\ imp'.handed = {} /\ imp'.probing = {}
  BY <1>2
<1>6. ProbesInv'
  BY <1>1, <1>3, <1>5 DEF ProbesInv, Lines
<1>7. ResultsInv'
  BY <1>1, <1>5 DEF ResultsInv, Lines, ToDetect, ToDetectIn
<1>8. InTable' /\ FirstLineWins'
  BY <1>1, <1>5, Distinct DEF InTable, FirstLineWins, Lines, Outcomes
<1> QED
  BY <1>4, <1>6, <1>7, <1>8 DEF LinesInv

\* A probe is handed out: no probed line has a result yet.
LEMMA HandLines ==
  ASSUME LineInv, HistoryNext, NEW i \in Lines(imp), Hand(i), RowsGrow
  PROVE  LineInv'
<1> SUFFICES ASSUME imp # None, imp' # None PROVE LinesInv'
  BY DEF LineInv, Hand
<1>1. PICK lines \in Payloads : imp \in ImportOf(lines)
  BY DEF LineInv, LinesInv
<1>2. imp' = [imp EXCEPT !.handed = @ \cup {i}, !.probing = @ \cup {i}]
  BY DEF Hand
<1>3. /\ imp' \in ImportOf(lines) /\ imp'.lines = lines /\ imp.lines = lines
      /\ imp'.results = imp.results /\ imp'.found = imp.found
      /\ imp'.handed = imp.handed \cup {i} /\ imp'.probing = imp.probing \cup {i}
  BY <1>1, <1>2 DEF ImportOf, Lines
<1>4. i \in ToDetect(imp) \ imp.handed /\ Unhanded # {}
  BY DEF Hand, Unhanded
<1>5. ProbesInv /\ ResultsInv /\ InTable /\ FirstLineWins
  BY DEF LineInv, LinesInv
<1>6. verdicts' = verdicts
  <2>1. verdicts' = [j \in Lines(imp) |-> IF AnsweredFor(j) THEN CHOOSE v \in Noted : TRUE
                                                        ELSE verdicts[j]]
    BY DEF HistoryNext
  <2>2. \A j : ~AnsweredFor(j)
    BY <1>3 DEF AnsweredFor
  <2>3. verdicts = imp.found /\ imp.found \in [DOMAIN lines -> Verdicts \cup {None}]
    BY <1>1, <1>5 DEF ProbesInv, ImportOf
  <2> QED
    BY <1>3, <2>1, <2>2, <2>3 DEF Lines
<1>7. ProbesInv'
  BY <1>3, <1>4, <1>5, <1>6 DEF ProbesInv, Lines, ToDetect, ToDetectIn
<1>8. ResultsInv'
  BY <1>3, <1>4, <1>5 DEF ResultsInv, Lines, ToDetect, ToDetectIn, Detected, ParseError
<1>9. InTable' /\ FirstLineWins'
  BY <1>3, <1>5 DEF InTable, FirstLineWins, Lines, Hand
<1> QED
  BY <1>3, <1>7, <1>8, <1>9 DEF LinesInv

\* A probe is answered: the verdict is noted for its own line.
LEMMA AnswerLines ==
  ASSUME LineInv, HistoryNext, NEW i \in Lines(imp), NEW v \in Verdicts, Answer(i, v)
  PROVE  LineInv'
<1> SUFFICES ASSUME imp # None, imp' # None PROVE LinesInv'
  BY DEF LineInv, Answer
<1>1. PICK lines \in Payloads : imp \in ImportOf(lines)
  BY DEF LineInv, LinesInv
<1>2. ProbesInv /\ ResultsInv /\ InTable /\ FirstLineWins
  BY DEF LineInv, LinesInv
<1> DEFINE found == [imp.found EXCEPT ![i] = v]
<1>3. imp' = [imp EXCEPT !.found = found, !.probing = @ \ {i}]
  BY DEF Answer
<1>4. /\ found \in [DOMAIN lines -> Verdicts \cup {None}] /\ i \in DOMAIN lines
      /\ \A j \in DOMAIN lines : found[j] = IF j = i THEN v ELSE imp.found[j]
  BY <1>1 DEF ImportOf, Lines
<1> HIDE DEF found
<1>5. /\ imp' \in ImportOf(lines) /\ imp'.lines = lines /\ imp.lines = lines
      /\ imp'.results = imp.results /\ imp'.found = found
      /\ imp'.handed = imp.handed /\ imp'.probing = imp.probing \ {i}
  BY <1>1, <1>3, <1>4 DEF ImportOf
<1>6. i \in imp.probing /\ i \in imp.handed /\ imp.found[i] = None
  BY <1>2 DEF Answer, ProbesInv
<1>7. verdicts' = found
  <2>1. verdicts' = [j \in Lines(imp) |-> IF AnsweredFor(j) THEN CHOOSE w \in Noted : TRUE
                                                        ELSE verdicts[j]]
    BY DEF HistoryNext
  <2>2. \A j : AnsweredFor(j) <=> j = i
    BY <1>5, <1>6 DEF AnsweredFor
  <2>3. Noted = {v}
    BY <1>4, <1>5, <1>6, Distinct DEF Noted, Lines
  <2>4. (CHOOSE w \in Noted : TRUE) = v
    BY <2>3
  <2>5. verdicts = imp.found /\ imp.found \in [DOMAIN lines -> Verdicts \cup {None}]
    BY <1>1, <1>2 DEF ProbesInv, ImportOf
  <2>6. verdicts' = [j \in DOMAIN lines |-> IF j = i THEN v ELSE imp.found[j]]
    <3>1. Lines(imp) = DOMAIN lines
      BY <1>5 DEF Lines
    <3>2. ASSUME NEW j \in DOMAIN lines
          PROVE  (IF AnsweredFor(j) THEN CHOOSE w \in Noted : TRUE ELSE verdicts[j]) =
                   IF j = i THEN v ELSE imp.found[j]
      <4>1. CASE j = i
        <5>1. AnsweredFor(j)
          BY <2>2, <4>1
        <5> QED
          BY <2>4, <4>1, <5>1
      <4>2. CASE j # i
        <5>1. ~AnsweredFor(j)
          BY <2>2, <4>2
        <5> QED
          BY <2>5, <4>2, <5>1
      <4> QED
        BY <4>1, <4>2
    <3> QED
      BY <2>1, <3>1, <3>2, Zenon
  <2> QED
    BY <1>4, <2>6
<1>8. ProbesInv'
  BY <1>2, <1>4, <1>5, <1>6, <1>7 DEF ProbesInv, Lines, ToDetect, ToDetectIn
<1>9. ResultsInv'
  <2>1. ~Detected
    BY <1>6 DEF Detected
  <2> QED
    BY <1>2, <1>5, <2>1 DEF ResultsInv, Lines, ToDetect, ToDetectIn, ParseError
<1>10. InTable' /\ FirstLineWins'
  BY <1>2, <1>5 DEF InTable, FirstLineWins, Lines, Answer
<1> QED
  BY <1>5, <1>8, <1>9, <1>10 DEF LinesInv

\* A line is processed: the lines before it are, and what they found or made is in the
\* table.
LEMMA InsertLines ==
  ASSUME LineInv, HistoryNext, NEW i \in Lines(imp), NEW key, InsertLine(i, key), RowsGrow,
         rows \in [Secrets -> Procs \cup {None}], key # None
  PROVE  LineInv'
<1> SUFFICES ASSUME imp # None, imp' # None PROVE LinesInv'
  BY DEF LineInv, InsertLine
<1>1. PICK lines \in Payloads : imp \in ImportOf(lines)
  BY DEF LineInv, LinesInv
<1>2. ProbesInv /\ ResultsInv /\ InTable /\ FirstLineWins
  BY DEF LineInv, LinesInv
<1>3. /\ Detected /\ i \in Unprocessed /\ \A j \in Unprocessed : i <= j
  BY DEF InsertLine
<1>4. PICK outcome \in InsertOutcomes(i) :
        /\ IF outcome = "created" THEN Create(imp.lines[i].secret, key) ELSE UNCHANGED rows
        /\ imp' = [imp EXCEPT !.results[i] = outcome]
  BY DEF InsertLine
<1>5. outcome \in Outcomes /\ imp.lines = lines
  BY <1>1, <1>4 DEF InsertOutcomes, Outcomes, ImportOf
<1> DEFINE results == [imp.results EXCEPT ![i] = outcome]
<1>6. imp' = [imp EXCEPT !.results = results]
  BY <1>4
<1>7. /\ results \in [DOMAIN lines -> Outcomes \cup {None}] /\ i \in DOMAIN lines
      /\ \A j \in DOMAIN lines : results[j] = IF j = i THEN outcome ELSE imp.results[j]
  BY <1>1, <1>5 DEF ImportOf, Lines
<1> HIDE DEF results
<1>8. /\ imp' \in ImportOf(lines) /\ imp'.lines = lines /\ imp'.found = imp.found
      /\ imp'.results = results
      /\ imp'.handed = imp.handed /\ imp'.probing = imp.probing
  BY <1>1, <1>6, <1>7 DEF ImportOf
<1>9. imp.results[i] = None /\ ~ParseError(lines[i]) /\ lines[i].secret \in Secrets
  <2>1. imp.results[i] = None
    BY <1>3 DEF Unprocessed
  <2>2. ~ParseError(lines[i])
    BY <1>2, <1>5, <2>1, Distinct DEF ResultsInv, Outcomes
  <2> QED
    BY <1>7, <2>1, <2>2, LineTyped DEF ParseError
<1>10. verdicts' = verdicts
  <2>1. verdicts' = [j \in Lines(imp) |-> IF AnsweredFor(j) THEN CHOOSE v \in Noted : TRUE
                                                        ELSE verdicts[j]]
    BY DEF HistoryNext
  <2>2. \A j : ~AnsweredFor(j)
    BY <1>8 DEF AnsweredFor
  <2>3. verdicts = imp.found /\ imp.found \in [DOMAIN lines -> Verdicts \cup {None}]
    BY <1>1, <1>2 DEF ProbesInv, ImportOf
  <2> QED
    BY <1>5, <2>1, <2>2, <2>3 DEF Lines
<1>11. ProbesInv'
  BY <1>2, <1>5, <1>8, <1>10 DEF ProbesInv, Lines, ToDetect, ToDetectIn
<1>12. ResultsInv'
  <2>1. Detected'
    BY <1>3, <1>5, <1>8 DEF Detected, Unhanded, ToDetect, ToDetectIn, Lines
  <2>2. i \in ToDetect(imp) => (outcome = "unauthorized" <=> imp.found[i] = "unauthorized")
    <3>1. ASSUME i \in ToDetect(imp), imp.found[i] = "unauthorized"
          PROVE  outcome = "unauthorized"
      BY <1>4, <3>1 DEF InsertOutcomes, ToDetect, ToDetectIn, Fresh
    <3>2. ASSUME imp.found[i] # "unauthorized" PROVE outcome # "unauthorized"
      BY <1>4, <3>2 DEF InsertOutcomes, Fresh
    <3> QED
      BY <3>1, <3>2
  <2>3. \A j \in DOMAIN lines : ParseError(lines[j]) => j # i
    BY <1>9
  <2>4. ASSUME NEW j \in DOMAIN lines, ParseError(lines[j])
        PROVE  results[j] = "parse_error"
    BY <1>2, <1>5, <1>7, <2>3, <2>4 DEF ResultsInv, Lines
  <2>5. ASSUME NEW j \in ToDetect(imp)
        PROVE  results[j] # None =>
                 (results[j] = "unauthorized" <=> imp.found[j] = "unauthorized")
    <3>1. j \in DOMAIN lines
      BY <1>5 DEF ToDetect, ToDetectIn, Lines
    <3>2. CASE j = i
      BY <1>7, <2>2, <2>5, <3>2
    <3>3. CASE j # i
      BY <1>2, <1>7, <2>5, <3>1, <3>3 DEF ResultsInv
    <3> QED
      BY <3>2, <3>3
  <2>6. ToDetect(imp') = ToDetect(imp)
    BY <1>5, <1>8 DEF ToDetect, ToDetectIn, Lines
  <2> QED
    BY <1>8, <2>1, <2>4, <2>5, <2>6 DEF ResultsInv, Lines, ToDetect, ToDetectIn, ParseError
<1>13. InTable'
  <2> SUFFICES ASSUME NEW j \in DOMAIN lines, results[j] \in {"created", "duplicate"}
               PROVE  rows'[lines[j].secret] # None
    BY <1>8 DEF InTable, Lines
  <2>1. CASE j = i
    <3>1. CASE outcome = "created"
      BY <1>4, <1>5, <1>9, <2>1, <3>1 DEF Create
    <3>2. CASE outcome = "duplicate"
      <4>1. rows[lines[i].secret] # None
        BY <1>4, <1>5, <3>2 DEF InsertOutcomes, Fresh
      <4> QED
        BY <1>9, <2>1, <4>1 DEF RowsGrow
    <3> QED
      BY <1>7, <2>1, <3>1, <3>2
  <2>2. CASE j # i
    <3>1. imp.results[j] \in {"created", "duplicate"}
      BY <1>7, <2>2
    <3>2. rows[lines[j].secret] # None /\ ~ParseError(lines[j])
      BY <1>2, <1>5, <3>1 DEF InTable, ResultsInv, Lines
    <3>3. lines[j].secret \in Secrets
      BY <3>2, LineTyped DEF ParseError
    <3> QED
      BY <3>2, <3>3 DEF RowsGrow
  <2> QED
    BY <2>1, <2>2
<1>14. FirstLineWins'
  <2> SUFFICES ASSUME NEW k \in DOMAIN lines, NEW j \in DOMAIN lines, k < j,
                      lines[k].secret = lines[j].secret, results[j] = "created"
               PROVE  results[k] \notin {"created", "duplicate", None}
    BY <1>8 DEF FirstLineWins, Lines
  <2>1. k \in Nat /\ j \in Nat /\ i \in Nat
    BY <1>7, LineTyped
  <2>2. CASE j = i
    <3>1. results[k] = imp.results[k] /\ imp.results[k] # None
      BY <1>3, <1>5, <1>7, <2>1, <2>2 DEF Unprocessed, Lines
    <3>2. rows[lines[k].secret] = None
      BY <1>4, <1>5, <1>7, <2>2 DEF InsertOutcomes, Fresh
    <3> QED
      BY <1>2, <1>5, <3>1, <3>2 DEF InTable, Lines
  <2>3. CASE j # i
    <3>1. imp.results[k] \notin {"created", "duplicate", None}
      BY <1>2, <1>5, <1>7, <2>3 DEF FirstLineWins, Lines
    <3> QED
      BY <1>7, <1>9, <3>1
  <2> QED
    BY <2>2, <2>3
<1> QED
  BY <1>8, <1>11, <1>12, <1>13, <1>14 DEF LinesInv

\* No step removes a key.
LEMMA TableGrows == ASSUME Inv, HistoryNext PROVE RowsGrow
<1> USE DEF RowsGrow
<1>1. rows \in [Secrets -> Procs \cup {None}] /\ None \notin Procs
  BY IntakeAssumption DEF Inv, RowsInv, Procs
<1>2. CASE UNCHANGED rows
  BY <1>2
<1>3. ASSUME NEW s, NEW key \in Procs, Create(s, key) PROVE RowsGrow
  BY <1>1, <1>3 DEF Create
<1>4. ASSUME NEW p \in Procs, AddKeyAt(p) PROVE RowsGrow
  BY <1>3, <1>4 DEF AddKeyAt, AddKey, Takes, At, Inv, LifeInv, KeyHeld, Keyed
<1>5. CASE ImportStep
  BY <1>2, <1>3, <1>5, ImporterKey DEF ImportStep, Hand, Answer, InsertLine
<1> QED
  BY <1>2, <1>4, <1>5
  DEF HistoryNext, Next, ImportFollows, LoseImport, intakeVars, ImportAt, BeginImport,
      ImportReturns, EndImport

LEMMA LineStep == Inv /\ LineInv /\ [HistoryNext]_historyVars => LineInv'
<1> SUFFICES ASSUME Inv, LineInv, [HistoryNext]_historyVars PROVE LineInv'
  OBVIOUS
<1>1. CASE UNCHANGED historyVars
  BY <1>1, LinesKept DEF historyVars, vars, intakeVars, RowsGrow
<1>2. CASE HistoryNext
  <2>1. RowsGrow
    BY <1>2, TableGrows
  <2>2. CASE imp' = imp
    BY <1>2, <2>1, <2>2, LinesKept
  <2>3. CASE imp' = None
    BY <2>3 DEF LineInv
  <2>4. CASE ImportStep
    <3>1. PICK i \in Lines(imp) :
            \/ Hand(i) \/ \E verdict \in Verdicts : Answer(i, verdict)
            \/ InsertLine(i, proc[importer].key)
      BY <2>4 DEF ImportStep
    <3>2. proc[importer].key # None /\ rows \in [Secrets -> Procs \cup {None}]
      BY <2>4, ImporterKey, IntakeAssumption DEF ImportStep, Inv, RowsInv, Procs
    <3>3. \A k : k = proc[importer].key /\ InsertLine(i, k) => LineInv'
      BY <1>2, <2>1, <3>2, InsertLines
    <3> QED
      BY <1>2, <2>1, <3>1, <3>3, HandLines, AnswerLines
  <2>5. ASSUME NEW p \in Procs, ImportAt(p) PROVE LineInv'
    BY <1>2, <2>5, BeginLines DEF ImportAt
  <2> QED
    BY <1>2, <2>2, <2>3, <2>4, <2>5
    DEF HistoryNext, Next, ImportFollows, LoseImport, intakeVars, AddKeyAt, AddKey,
        ImportReturns, EndImport
<1> QED
  BY <1>1, <1>2

LEMMA AlwaysLineInv == HistorySpec => [](Inv /\ LineInv)
<1>1. HistoryInit => LineInv
  BY DEF HistoryInit, Init, IntakeInit, LineInv
<1> QED
  BY <1>1, Init_Inv, Next_Inv, LineStep, PTL DEF HistorySpec

\* The processes, the disk, the table and the import are well typed.
THEOREM ServiceTypeCorrect == HistorySpec => []TypeOK
<1>1. Inv /\ LineInv => TypeOK
  <2> SUFFICES ASSUME Inv, LineInv PROVE IntakeTypeOK
    BY DEF Inv, LifeInv, ImportInv, TypeOK
  <2>1. DOMAIN rows = Secrets
    BY DEF Inv, RowsInv
  <2>2. ASSUME imp # None
        PROVE  /\ imp.lines \in Payloads
               /\ imp.results \in [Lines(imp) -> Outcomes \cup {None}]
               /\ imp.found \in [Lines(imp) -> Verdicts \cup {None}]
               /\ imp.probing \subseteq imp.handed /\ imp.handed \subseteq Lines(imp)
    BY <2>2 DEF LineInv, LinesInv, ImportOf, ProbesInv, ToDetect, ToDetectIn, Lines
  <2>3. ASSUME imp # None PROVE imp.workers \in Nat
    <3>1. PICK lines \in Payloads : imp \in ImportOf(lines)
      BY <2>3 DEF LineInv, LinesInv
    <3> QED
      BY <3>1, PoolIsNat DEF ImportOf
  <2> QED
    BY <2>1, <2>2, <2>3 DEF IntakeTypeOK
<1> QED
  BY <1>1, AlwaysLineInv, PTL

\* Whatever order the probes of an import are answered in, and whatever is added to the
\* pool meanwhile, each line is decided by its own probe, and of the lines with one key
\* only the first that is not refused makes a row (BulkImport), for any pasted list and
\* any number of goroutines.
THEOREM ImportsAreSound == HistorySpec => []ImportSound
<1>1. Inv /\ LineInv => ImportSound
  BY DEF LineInv, LinesInv, ProbesInv, ResultsInv, ImportSound, VerdictsMatch
<1> QED
  BY <1>1, AlwaysLineInv, PTL
=============================================================================
