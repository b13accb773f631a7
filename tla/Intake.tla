------------------------------- MODULE Intake -------------------------------
(***************************************************************************)
(* How keys get into the pool: the form (handleKeysCreate), the JSON API   *)
(* (handleAPIKeysCreate) and the import of a pasted list (ParseBulk,       *)
(* BulkImport), whose probes run in a pool of goroutines while the rows    *)
(* are inserted one by one.                                                *)
(***************************************************************************)
EXTENDS Integers, Sequences, FiniteSets

CONSTANTS
  Secrets,   \* API keys as they are pasted
  PoolSizes, \* values of bulkDetectConcurrency (8) to look at
  Payloads,  \* what may be pasted: sequences of lines [secret, plan], as split by ParseBulk
  None

Plans == {"trial", "free", "paid"}

\* DetectPlan: every answer but unauthorized makes the key a trial.
Verdicts == {"unauthorized", "trial"}

Outcomes == {"created", "duplicate", "unauthorized", "parse_error", "bad_input"}

ASSUME IntakeAssumption ==
  /\ None \notin Secrets \cup Nat \cup Verdicts \cup Outcomes
  /\ PoolSizes \subseteq Nat \ {0}
  /\ Payloads \subseteq Seq([secret : Secrets \cup {None}, plan : STRING])

VARIABLES
  rows, \* the keys table: per secret the master key its ciphertext is sealed with, or None
  imp   \* the import under way, or None

intakeVars == <<rows, imp>>

Lines(import) == DOMAIN import.lines

IntakeTypeOK ==
  /\ DOMAIN rows = Secrets
  /\ imp # None =>
       /\ imp.lines \in Payloads
       /\ imp.results \in [Lines(imp) -> Outcomes \cup {None}]
       /\ imp.found \in [Lines(imp) -> Verdicts \cup {None}]
       /\ imp.probing \subseteq imp.handed /\ imp.handed \subseteq Lines(imp)
       /\ imp.workers \in Nat

IntakeInit == rows = [s \in Secrets |-> None] /\ imp = None

\* keys.Create: the fingerprint is unique.
Fresh(s) == rows[s] = None
Create(s, key) == rows' = [rows EXCEPT ![s] = key]

\* Lines that cannot be imported.
ParseError(line) == line.secret = None \/ line.plan \notin Plans \cup {""}

\* handleKeysCreate and handleAPIKeysCreate: one row, or "already in the pool".
AddKey(s, key) == Fresh(s) /\ Create(s, key) /\ UNCHANGED imp

\* Lines whose plan is to be detected.
ToDetectIn(lines) == {i \in DOMAIN lines : ~ParseError(lines[i]) /\ lines[i].plan = ""}
ToDetect(import) == ToDetectIn(import.lines)

\* As many goroutines as there are probes, at most size.
PoolFor(lines, size) ==
  IF size > Cardinality(ToDetectIn(lines)) THEN Cardinality(ToDetectIn(lines)) ELSE size

\* Stage 1 of BulkImport, and the goroutines of stage 2.
BeginImport(lines) ==
  /\ imp = None
  /\ \E size \in PoolSizes :
       imp' = [lines   |-> lines,
               results |-> [i \in DOMAIN lines |->
                              IF ParseError(lines[i]) THEN "parse_error" ELSE None],
               found   |-> [i \in DOMAIN lines |-> None],
               handed  |-> {},
               probing |-> {},
               workers |-> PoolFor(lines, size)]
  /\ UNCHANGED rows

Unhanded == ToDetect(imp) \ imp.handed

\* Stage 2: the jobs are sent in order over a channel without a buffer, so a send is
\* received by a goroutine that is free.
Hand(i) ==
  /\ imp # None /\ i \in Unhanded /\ \A j \in Unhanded : i <= j
  /\ Cardinality(imp.probing) < imp.workers
  /\ imp' = [imp EXCEPT !.handed = @ \cup {i}, !.probing = @ \cup {i}]
  /\ UNCHANGED rows

\* Mutant: verdicts are appended in the order of the answers.
AnswerAppended(i, verdict) ==
  /\ imp # None /\ i \in imp.probing
  /\ \E k \in ToDetect(imp) :
       /\ imp.found[k] = None /\ \A j \in ToDetect(imp) : imp.found[j] = None => k <= j
       /\ imp' = [imp EXCEPT !.found[k] = verdict, !.probing = @ \ {i}]
  /\ UNCHANGED rows

\* Mutant: a goroutine returns when its key is refused.
AnswerLeaves(i, verdict) ==
  /\ imp # None /\ i \in imp.probing
  /\ imp' = [imp EXCEPT !.found[i] = verdict, !.probing = @ \ {i},
                        !.workers = IF verdict = "unauthorized" THEN @ - 1 ELSE @]
  /\ UNCHANGED rows

\* A probe is answered, or fails.
Answer(i, verdict) ==
  /\ imp # None /\ i \in imp.probing
  /\ imp' = [imp EXCEPT !.found[i] = verdict, !.probing = @ \ {i}]
  /\ UNCHANGED rows

\* wg.Wait returned.
Detected == Unhanded = {} /\ imp.probing = {}

Unprocessed == {i \in Lines(imp) : imp.results[i] = None}

\* Stage 3, for the first line left: an unauthorized one is skipped, any other answer
\* counts as trial. The insert may fail: the request was cancelled, the database locked.
InsertOutcomes(i) ==
  LET line == imp.lines[i]
  IN  IF line.plan = "" /\ imp.found[i] = "unauthorized" THEN {"unauthorized"}
      ELSE {IF Fresh(line.secret) THEN "created" ELSE "duplicate", "bad_input"}

InsertLine(i, key) ==
  /\ imp # None /\ Detected
  /\ i \in Unprocessed /\ \A j \in Unprocessed : i <= j
  /\ \E outcome \in InsertOutcomes(i) :
       /\ IF outcome = "created" THEN Create(imp.lines[i].secret, key) ELSE UNCHANGED rows
       /\ imp' = [imp EXCEPT !.results[i] = outcome]

\* The results are rendered.
EndImport ==
  /\ imp # None /\ Detected /\ Unprocessed = {}
  /\ imp' = None
  /\ UNCHANGED rows

\* The process of the import is gone; the rows it inserted stay.
LoseImport == imp' = None /\ UNCHANGED rows
=============================================================================
