------------------------------ MODULE Service ------------------------------
(***************************************************************************)
(* Processes (Lifecycle) that take keys in (Intake). A key is sealed with  *)
(* the master key its process has in memory, an import is a request that   *)
(* the server of its process has open, and it ends with the process.       *)
(***************************************************************************)
EXTENDS Lifecycle, Intake

VARIABLE importer \* the process the import runs in, or Nobody

vars == <<lifeVars, intakeVars, importer>>

TypeOK == LifeTypeOK /\ IntakeTypeOK /\ importer \in Procs \cup {Nobody}

Init == LifeInit /\ IntakeInit /\ importer = Nobody

Takes(p) == At(p, "serve")

AddKeyAt(p) ==
  /\ Takes(p)
  /\ \E s \in Secrets : AddKey(s, proc[p].key)
  /\ UNCHANGED <<lifeVars, importer>>

ImportAt(p) ==
  /\ Takes(p) /\ Connect(p, "request")
  /\ \E lines \in Payloads : BeginImport(lines)
  /\ importer' = p
  /\ UNCHANGED <<diskVars, starts, port, proc, loops>>

\* The goroutines of the import run on during a shutdown, until the process is gone.
ImportStep ==
  /\ imp # None
  /\ \E i \in Lines(imp) :
       \/ Hand(i) \/ \E verdict \in Verdicts : Answer(i, verdict)
       \/ InsertLine(i, proc[importer].key)
  /\ UNCHANGED <<lifeVars, importer>>

ImportReturns ==
  /\ EndImport
  /\ Disconnect(importer, "request")
  /\ importer' = Nobody
  /\ UNCHANGED <<diskVars, starts, port, proc, loops>>

\* The import is lost with the process it runs in.
ImportFollows ==
  IF importer # Nobody /\ proc'[importer].pc = "down"
    THEN LoseImport /\ importer' = Nobody
    ELSE UNCHANGED <<intakeVars, importer>>

Next ==
  \/ LifeNext /\ ImportFollows
  \/ \E p \in Procs : AddKeyAt(p) \/ ImportAt(p)
  \/ ImportStep
  \/ ImportReturns

Spec == Init /\ [][Next]_vars

\* The process steps and the goroutines of an import run on; probes are answered or
\* time out. Nobody has to start, stop or use a process.
Fairness ==
  /\ \A p \in Procs : WF_vars(ProcStep(p) /\ ImportFollows)
  /\ WF_vars(ImportStep \/ ImportReturns)

FairSpec == Spec /\ Fairness
=============================================================================
